----------------------------- MODULE ChatState -----------------------------
(***************************************************************************)
(* The state of the websocket side of the chat server: the hub, the        *)
(* clients and the connection handlers.                                    *)
(*                                                                         *)
(* A Client is one websocket connection.  Its handler goroutine ends by    *)
(* starting its ReadPump, so at any time at most one goroutine of a client *)
(* uses the hub: a Proc is a client, standing for that goroutine, or the   *)
(* hub's own goroutine.                                                    *)
(***************************************************************************)
EXTENDS Integers, Sequences, FiniteSets

CONSTANTS
    Client,        \* the connections that may be made
    NoClient,      \* the absence of a client
    HubG,          \* the goroutine that runs Hub.Run
    User,          \* Keycloak subjects
    UserOf,        \* the user of each connection (claim "sub")
    AppOf,         \* the OAuth client of each connection (claim "azp")
    WebClient,     \* the OAuth client of the dashboard
    SendCap,       \* capacity of a client's Send channel (256 in the code)
    RecentMax,     \* length of a recent list in Valkey (maxCacheSize)
    Cached,        \* who the messages are from and to that Valkey has from earlier runs
    ConnMax,       \* bound: how many of the connections are made
    Frames         \* bound: the kinds each frame of a connection's peer may have

ASSUME HubConstants ==
    /\ NoClient \notin Client
    /\ HubG \notin Client
    /\ HubG # NoClient
    /\ UserOf \in [Client -> User]
    /\ SendCap \in Nat \ {0}
    /\ RecentMax \in Nat \ {0}

ASSUME CachedConstants == Cached \in [{"chat", "private"} -> Seq(SUBSET User)]

ASSUME ClientConstants == Frames \in [Client -> Seq(SUBSET {"chat", "private", "other"})]

VARIABLES
    crashed,   \* "no", "panic" (send on a closed channel) or "fatal" (map race)
    conns,     \* Hub.Connections
    walk,      \* the range loop over the map each goroutine is in, if any
    offer,     \* the message each client's goroutine is blocked sending to Hub.Messages
    log,       \* who each cached message is from and to; its position is its cacheID
    unsent,    \* history: the cacheIDs of each kind whose reply from Valkey was lost
    send,      \* the Send channel of each client
    closed,    \* whether that channel is closed
    told       \* history: users each client has been told are online

hubVars == <<crashed, conns, walk, offer, log, unsent, send, closed, told>>

Proc == Client \cup {HubG}
Kind == {"chat", "private"}

\* Mutant: connections of one user share a key, whatever the application.
KeyOfUser(c) == <<UserOf[c], WebClient>>

Key(c) == <<UserOf[c], AppOf[c]>>
Keys == {Key(c) : c \in Client}

MessageType == Kind \cup {"none", "empty", "online", "offline", "users", "bulk_private"}
Message == [type : MessageType, id : Nat, who : SUBSET User]
Msg(t, i, w) == [type |-> t, id |-> i, who |-> w]
NoMsg == Msg("none", 0, {})

Walk == [msg : Message, todo : SUBSET Keys, maybe : SUBSET Keys, to : Client \cup {NoClient}]
NoWalk == [msg |-> NoMsg, todo |-> {}, maybe |-> {}, to |-> NoClient]
Walking(p) == walk[p].msg # NoMsg

-----------------------------------------------------------------------------
\* The clients.

VARIABLES
    conn,    \* the websocket: "none", "open", "gone" (lost by the peer), "closed" (by us)
    rpc,     \* where ReadPump is
    wpc,     \* where WritePump is
    out,     \* the message WritePump is writing
    live,    \* history: the cacheIDs of each kind WritePump has written
    sent     \* how many frames the peer has sent

clientVars == <<conn, rpc, wpc, out, live, sent>>

ReadPc == {"off", "read", "unregister", "delete", "close", "walk", "done"}
WritePc == {"off", "range", "write", "done"}

-----------------------------------------------------------------------------
\* The connection handlers.

VARIABLES
    hpc,     \* where the connection handler is
    pend,    \* the message it has built and not yet queued on Send
    snap,    \* history: the cacheIDs of each kind in the bulk messages it sent
    skipped  \* history: how many messages of each kind had been cached when the
             \* client was registered, if no snapshot has been read since

handlerVars == <<hpc, pend, snap, skipped>>
vars == <<hubVars, clientVars, handlerVars>>

HandlerPc == {"idle", "announce", "private", "sendprivate", "bulk",
              "users", "sendusers", "started", "failed"}

\* The server has started, and no connection has been made.
Init ==
    /\ crashed = "no"
    /\ log = Cached
    /\ unsent = [k \in Kind |-> {}]
    /\ conns = [k \in Keys |-> NoClient]
    /\ walk = [p \in Proc |-> NoWalk]
    /\ offer = [c \in Client |-> NoMsg]
    /\ send = [c \in Client |-> <<>>]
    /\ closed = [c \in Client |-> FALSE]
    /\ told = [c \in Client |-> {}]
    /\ conn = [c \in Client |-> "none"]
    /\ rpc = [c \in Client |-> "off"]
    /\ wpc = [c \in Client |-> "off"]
    /\ out = [c \in Client |-> NoMsg]
    /\ live = [c \in Client |-> [k \in Kind |-> <<>>]]
    /\ sent = [c \in Client |-> 0]
    /\ hpc = [c \in Client |-> "idle"]
    /\ pend = [c \in Client |-> NoMsg]
    /\ snap = [c \in Client |-> [k \in Kind |-> {}]]
    /\ skipped = [c \in Client |-> [k \in Kind |-> 0]]
=============================================================================

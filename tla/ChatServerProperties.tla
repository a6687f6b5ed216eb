------------------------ MODULE ChatServerProperties ------------------------
(***************************************************************************)
(* What the websocket side of the chat server promises.                    *)
(***************************************************************************)
EXTENDS ChatServer, Functions

HubType ==
    /\ crashed \in {"no", "panic", "fatal"}
    /\ conns \in [Keys -> Client \cup {NoClient}]
    /\ walk \in [Proc -> Walk]
    /\ offer \in [Client -> Message]
    /\ log \in [Kind -> Seq(SUBSET User)]
    /\ unsent \in [Kind -> SUBSET Nat]
    /\ send \in [Client -> Seq(Message)]
    /\ \A c \in Client : Len(send[c]) <= SendCap
    /\ closed \in [Client -> BOOLEAN]
    /\ told \in [Client -> SUBSET User]

ClientType ==
    /\ conn \in [Client -> {"none", "open", "gone", "closed"}]
    /\ rpc \in [Client -> ReadPc]
    /\ wpc \in [Client -> WritePc]
    /\ out \in [Client -> Message]
    /\ live \in [Client -> [Kind -> Seq(Nat)]]
    /\ sent \in [Client -> Nat]

HandlerType ==
    /\ hpc \in [Client -> HandlerPc]
    /\ pend \in [Client -> Message]
    /\ snap \in [Client -> [Kind -> SUBSET Nat]]
    /\ skipped \in [Client -> [Kind -> Nat]]

\* Every variable keeps to its type, and no queue outgrows its capacity.
TypeOK == HubType /\ ClientType /\ HandlerType

\* A client whose Send channel is closed is not in the map, so a broadcast
\* that starts after the close never meets it: UnregisterClient removes the
\* entry before it closes the channel, also when another connection has taken
\* the key over meanwhile.
ClosedNotRegistered ==
    \A c \in Client : closed[c] => conns[Key(c)] # c

\* What WritePump has written to c, is writing and still has to write.
Arrivals(c, kind) ==
    Append([i \in DOMAIN live[c][kind] |-> Msg(kind, live[c][kind][i], {})], out[c]) \o send[c]

\* One client gets the live messages of a kind in cacheID order and none of
\* them twice, because one goroutine both caches and broadcasts them.
LiveInOrder ==
    \A c \in Client, kind \in Kind :
      LET s == Arrivals(c, kind)
      IN \A i, j \in DOMAIN s :
           i < j /\ s[i].type = kind /\ s[j].type = kind => s[i].id < s[j].id

\* The cacheIDs of a kind that are on their way to c, and with those written.
InFlight(c, kind) == {m.id : m \in {x \in {out[c]} \cup Range(send[c]) : x.type = kind}}
Seen(c, kind) == Range(live[c][kind]) \cup InFlight(c, kind)

\* What the hub is still about to send to c.
Underway(c, kind) ==
    IF walk[HubG].msg.type = kind
       /\ (walk[HubG].to = c \/ Key(c) \in walk[HubG].todo)
    THEN {walk[HubG].msg.id}
    ELSE {}

\* c got the i-th message of a kind or will get it, need not get it, or joined
\* too late for it: it is older than all of the snapshot or, when no snapshot
\* was brought, than c's place in the map.
Served(c, kind, i) ==
    \/ i \in snap[c][kind] \cup Seen(c, kind) \cup Underway(c, kind) \cup unsent[kind]
    \/ kind = "private" /\ UserOf[c] \notin log[kind][i]
    \/ snap[c][kind] # {} /\ \A j \in snap[c][kind] : i < j
    \/ i <= skipped[c][kind]

\* Joining leaves no hole: RegisterClient puts the client in the map before the
\* recent messages are read, so every message since the oldest of them is in
\* the snapshot, or was written, or is queued, or is about to be queued.  Two
\* failures of Valkey make an exception, and no more than one: a message whose
\* own reply was lost may be missing, and when the read of the recent messages
\* failed, those cached before the client was in the map.
NoHole ==
    \A c \in Client, kind \in Kind :
      (/\ conns[Key(c)] = c
       /\ wpc[c] # "done"
       /\ hpc[c] \in {"users", "sendusers", "started", "failed"})
      => \A i \in DOMAIN log[kind] : Served(c, kind, i)

\* A private message reaches connections of its sender and its recipient only.
Whispered ==
    \A c \in Client : \A i \in Range(live[c]["private"]) : UserOf[c] \in log["private"][i]

\* The inductive reason for the three.  Only the hub's goroutine sends messages
\* that are cached, each with the cacheID and the users the log has for it, and
\* to one recipient at a time, which it does not reach again; a client it may
\* still reach has only seen older messages; and from its place in the map on a
\* client misses nothing newer than that place, nor, once it has a snapshot,
\* anything newer than the oldest message in it.
Walks ==
    LET hub == walk[HubG]
    IN /\ \A k \in Keys : conns[k] # NoClient => Key(conns[k]) = k
       /\ \A c \in Client : walk[c].msg.type \notin Kind /\ pend[c].type \notin Kind
       /\ hub.msg.type \in Kind =>
            hub.msg.id \in DOMAIN log[hub.msg.type] /\ log[hub.msg.type][hub.msg.id] = hub.msg.who
       /\ \A c \in Client : hub.to = c =>
            /\ Recipient(hub.msg, c)
            /\ conns[Key(c)] = c => Key(c) \notin hub.todo \cup hub.maybe

Joining ==
    \A c \in Client :
      /\ hpc[c] \in {"idle", "announce"} =>
           walk[HubG].to # c /\ \A kind \in Kind : Seen(c, kind) = {}
      /\ hpc[c] # "started" => wpc[c] = "off"
      /\ wpc[c] # "write" => out[c] = NoMsg

Due(c) ==
    \/ walk[HubG].to = c
    \/ conns[Key(c)] = c /\ Key(c) \in walk[HubG].todo \cup walk[HubG].maybe

Older(c, kind) ==
    /\ Seen(c, kind) \subseteq DOMAIN log[kind]
    /\ kind = "private" => \A i \in Seen(c, kind) : UserOf[c] \in log[kind][i]
    /\ walk[HubG].msg.type = kind /\ Due(c) => \A i \in Seen(c, kind) : i < walk[HubG].msg.id

Ordered(c, kind) ==
    /\ \A i, j \in DOMAIN live[c][kind] : i < j => live[c][kind][i] < live[c][kind][j]
    /\ \A i \in Range(live[c][kind]), n \in InFlight(c, kind) : i < n
    /\ \A i \in DOMAIN send[c] :
         send[c][i].type = kind =>
           /\ out[c].type = kind => out[c].id < send[c][i].id
           /\ \A j \in DOMAIN send[c] : i < j /\ send[c][j].type = kind => send[c][i].id < send[c][j].id

InOrder == \A c \in Client, kind \in Kind : Older(c, kind) /\ Ordered(c, kind)

Joined(c) == hpc[c] \notin {"idle", "announce"}

Complete ==
    \A c \in Client, kind \in Kind :
      conns[Key(c)] = c /\ wpc[c] # "done" /\ Joined(c)
        => \A i \in DOMAIN log[kind] : Served(c, kind, i)

Delivery == Walks /\ Joining /\ InOrder /\ Complete

\* When ReadPump has returned, the client has left the map and its Send channel
\* is closed: UnregisterClient always finds the client's own entry.
TornDown ==
    \A c \in Client : rpc[c] = "done" => closed[c] /\ conns[Key(c)] # c

\* Another connection of the same user and application has been made.
Shared(c) == \E d \in Client \ {c} : Key(d) = Key(c) /\ hpc[d] # "idle"

\* A client that is being read is in the map, unless another connection of the
\* same user and application exists, which shares its key: other users, and the
\* user's other applications, cannot push it out.
ReadMeansRegistered ==
    \A c \in Client : rpc[c] = "read" => conns[Key(c)] = c \/ Shared(c)

\* The inductive reason for the three.  The map's entry, the reader, the handler
\* and the Send channel of a client keep in step: it enters the map when its
\* handler registers it, stays until its own reader removes the key (or, when
\* the key is shared, another connection does), and only then is its channel
\* closed.
Registration ==
    \A c \in Client :
      /\ hpc[c] \in {"idle", "announce"} => conns[Key(c)] # c
      /\ rpc[c] # "off" => hpc[c] = "started"
      /\ closed[c] => rpc[c] \in {"walk", "done"}
      /\ rpc[c] \in {"close", "walk", "done"} => conns[Key(c)] # c
      /\ (hpc[c] \notin {"idle", "announce"} /\ rpc[c] \in {"off", "read", "unregister", "delete"})
           => conns[Key(c)] = c \/ Shared(c)
      /\ rpc[c] = "walk" => closed[c]
      /\ rpc[c] = "done" => closed[c] \/ Shared(c)

\* Nobody will ever take anything from d's Send channel again: its WritePump has
\* returned, or its handler has, or waits for room in it, before starting one.
Undrained(d) ==
    wpc[d] = "done" \/ hpc[d] = "failed" \/ hpc[d] \in {"sendprivate", "sendusers"}

\* The goroutine waits for good for room in the channel of the client its walk
\* has come to.
Stuck(p) ==
    /\ walk[p].to # NoClient
    /\ Len(send[walk[p].to]) = SendCap
    /\ Undrained(walk[p].to)

\* A started client whose peer is lost is torn down completely in the end: both
\* pumps return.  Only a channel that nobody drains can keep it: the one its
\* reader's broadcast of the offline status has come to, or the one the hub's
\* broadcast has, when the reader still has a message for the hub.
TornDownEventually ==
    \A c \in Client :
      (hpc[c] = "started" /\ conn[c] = "gone")
        ~> (\/ crashed # "no" \/ (rpc[c] = "done" /\ wpc[c] = "done")
            \/ Stuck(c) \/ (Stuck(HubG) /\ offer[c] # NoMsg))

\* Whoever is in the map when a newcomer's announcement is due learns of it,
\* or leaves, or the process goes down: a broadcast in progress, a queue that is
\* full for a while or a change of the map does not swallow an announcement.
\* Only when the hub is stuck at a channel that nobody drains, which ends its
\* work for everybody (hub/README.md:82-83), an announcement gets nowhere.
Announced ==
    \A c \in Client : \A d \in Client \ {c} :
      (offer[d].type = "online" /\ conns[Key(c)] = c)
        ~> (UserOf[d] \in told[c] \/ conns[Key(c)] # c \/ crashed # "no" \/ Stuck(HubG))

\* The map is used by one goroutine at a time, as it would be if clients
\* registered and unregistered through the hub's channels.
NoMapRace == crashed # "fatal"
=============================================================================

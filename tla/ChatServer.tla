----------------------------- MODULE ChatServer -----------------------------
(***************************************************************************)
(* The websocket side of the chat server: the connection handler           *)
(* (chatserver/internal/server/connection_handler.go), composed with the   *)
(* hub (module Hub) and the two goroutines of each client (module Client). *)
(*                                                                         *)
(* The handler announces the user to the hub, registers the client itself, *)
(* in its own goroutine, writes the recent messages and the channels       *)
(* straight to the websocket, queues the list of connected users, and only *)
(* then starts ReadPump and WritePump.                                     *)
(***************************************************************************)
EXTENDS Client


-----------------------------------------------------------------------------
\* handleConnection, from the upgrade on.

\* The online status goes to the hub before the client is in the map.
Connect(c) ==
    /\ crashed = "no"
    /\ hpc[c] = "idle"
    /\ Cardinality({d \in Client : hpc[d] # "idle"}) < ConnMax
    /\ hpc' = [hpc EXCEPT ![c] = "announce"]
    /\ conn' = [conn EXCEPT ![c] = "open"]
    /\ offer' = [offer EXCEPT ![c] =
                   IF AppOf[c] = WebClient THEN NoMsg ELSE Msg("online", 0, {UserOf[c]})]
    /\ UNCHANGED <<crashed, conns, walk, log, unsent, send, closed, told,
                   rpc, wpc, out, live, sent, pend, snap, skipped>>

\* It goes on once the hub has taken the announcement.
RegisterClient(c) ==
    /\ hpc[c] = "announce"
    /\ offer[c] = NoMsg
    /\ Insert(c)
    /\ hpc' = [hpc EXCEPT ![c] = "private"]
    /\ skipped' = [skipped EXCEPT ![c] = [k \in Kind |-> Len(log[k])]]
    /\ UNCHANGED <<crashed, offer, log, unsent, send, closed, told, clientVars, pend, snap>>

\* GetCachedPrivateMessages and GetCachedChatMessages: the recent messages of a
\* kind, or none when the LRANGE fails, which the handler does not notice.
ReadRecent(c, kind) ==
    \/ /\ snap' = [snap EXCEPT ![c][kind] = Recent(kind, UserOf[c])]
       /\ skipped' = [skipped EXCEPT ![c][kind] = 0]
    \/ UNCHANGED <<snap, skipped>>

\* RegisterClient queues the user's recent private messages, if there are any.
ReadPrivateMessages(c) ==
    /\ hpc[c] = "private"
    /\ ReadRecent(c, "private")
    /\ IF snap'[c]["private"] = {}
       THEN hpc' = [hpc EXCEPT ![c] = "bulk"] /\ UNCHANGED pend
       ELSE /\ hpc' = [hpc EXCEPT ![c] = "sendprivate"]
            /\ pend' = [pend EXCEPT ![c] = Msg("bulk_private", 0, {UserOf[c]})]
    /\ UNCHANGED <<hubVars, clientVars>>

\* The recent public messages, also when there are none, then the channels,
\* straight to the websocket; an error of the first write is only logged.
WriteBulk(c) ==
    /\ hpc[c] = "bulk"
    /\ ReadRecent(c, "chat")
    /\ hpc' = [hpc EXCEPT ![c] = "users"]
    /\ UNCHANGED <<hubVars, clientVars, pend>>

\* The channels cannot be read from the database, or not be written: the
\* handler returns.  The client stays registered, and has no pumps.
InitFails(c) ==
    /\ hpc[c] = "bulk"
    /\ hpc' = [hpc EXCEPT ![c] = "failed"]
    /\ UNCHANGED <<hubVars, clientVars, pend, snap, skipped>>

GetConnectedUsers(c) ==
    /\ hpc[c] = "users"
    /\ pend' = [pend EXCEPT ![c] =
                  Msg("users", 0, {UserOf[conns[k]] :
                         k \in {j \in Keys : conns[j] # NoClient /\ AppOf[conns[j]] # WebClient}})]
    /\ hpc' = [hpc EXCEPT ![c] = "sendusers"]
    /\ UNCHANGED <<hubVars, clientVars, snap, skipped>>

\* client.SendMessage, while no WritePump takes anything from Send yet.  The
\* pumps start right after the list of users is queued.
HandlerSend(c) ==
    /\ hpc[c] \in {"sendprivate", "sendusers"}
    /\ Enqueue(c, pend[c])
    /\ pend' = [pend EXCEPT ![c] = NoMsg]
    /\ IF hpc[c] = "sendprivate"
       THEN hpc' = [hpc EXCEPT ![c] = "bulk"] /\ UNCHANGED <<rpc, wpc>>
       ELSE /\ hpc' = [hpc EXCEPT ![c] = "started"]
            /\ rpc' = [rpc EXCEPT ![c] = "read"]
            /\ wpc' = [wpc EXCEPT ![c] = "range"]
    /\ UNCHANGED <<crashed, conns, walk, offer, log, unsent, closed,
                   conn, out, live, sent, snap, skipped>>

HandlerStep(c) ==
    \/ RegisterClient(c)
    \/ ReadPrivateMessages(c)
    \/ WriteBulk(c)
    \/ GetConnectedUsers(c)
    \/ HandlerSend(c)

-----------------------------------------------------------------------------
\* Nothing locks the map.  When one goroutine writes it while another uses it,
\* the runtime may see that and end the process, or not see it.

WritesMap(p) ==
    /\ p # HubG
    /\ \/ hpc[p] = "announce" /\ offer[p] = NoMsg
       \/ rpc[p] = "delete"

UsesMap(p) ==
    \/ WritesMap(p)
    \/ Walking(p) /\ walk[p].to = NoClient
    \/ p = HubG /\ ~Walking(p) /\ \E c \in Client : offer[c].type \in Kind \cup {"online"}
    \/ /\ p # HubG
       /\ \/ hpc[p] = "users"
          \/ rpc[p] = "unregister"
          \/ Reading(p) /\ conn[p] = "open" /\ MaySend(p, "private")

\* The process ends.  Its memory is gone, what Valkey keeps is not, and nothing
\* starts it again.
Down(how) ==
    /\ crashed' = how
    /\ conns' = [k \in Keys |-> NoClient]
    /\ walk' = [p \in Proc |-> NoWalk]
    /\ offer' = [c \in Client |-> NoMsg] /\ send' = [c \in Client |-> <<>>]
    /\ closed' = [c \in Client |-> FALSE] /\ told' = [c \in Client |-> {}]
    /\ conn' = [c \in Client |-> "none"] /\ sent' = [c \in Client |-> 0]
    /\ rpc' = [c \in Client |-> "off"] /\ wpc' = [c \in Client |-> "off"]
    /\ out' = [c \in Client |-> NoMsg]
    /\ live' = [c \in Client |-> [k \in Kind |-> <<>>]]
    /\ hpc' = [c \in Client |-> "idle"] /\ pend' = [c \in Client |-> NoMsg]
    /\ snap' = [c \in Client |-> [k \in Kind |-> {}]]
    /\ skipped' = [c \in Client |-> [k \in Kind |-> 0]]
    /\ UNCHANGED <<log, unsent>>

MapRace ==
    /\ \E p, q \in Proc : p # q /\ WritesMap(p) /\ UsesMap(q)
    /\ Down("fatal")

\* A send on a closed channel panics, and nothing recovers from it.
ClosedSend == (\E p \in Proc : SendPanics(p)) /\ Down("panic")

\* The process has gone down, or every connection is over.
Terminated ==
    /\ \/ crashed # "no"
       \/ /\ ~Walking(HubG)
          /\ \A c \in Client : hpc[c] = "failed" \/ (rpc[c] = "done" /\ wpc[c] = "done")
    /\ UNCHANGED vars

\* After a crash no goroutine is left to take a step.
Next ==
    \/ HubStep
    \/ \E c \in Client :
         \/ Connect(c) \/ InitFails(c) \/ HandlerStep(c)
         \/ PeerLost(c) \/ ReadFrame(c) \/ ReaderStep(c) \/ WriterStep(c)
    \/ MapRace
    \/ ClosedSend
    \/ Terminated

Spec == Init /\ [][Next]_vars

(***************************************************************************)
(* Every goroutine that can go on in the end does, and so does a panic.    *)
(* Peers owe nothing: they need not connect, send or leave.  A websocket   *)
(* write ends, well or badly.                                              *)
(***************************************************************************)
Fairness ==
    /\ WF_vars(HubStep)
    /\ WF_vars(ClosedSend)
    /\ \A c \in Client :
         /\ WF_vars(HandlerStep(c))
         /\ WF_vars(ReaderStep(c))
         /\ WF_vars(WriterStep(c))

FairSpec == Spec /\ Fairness
=============================================================================

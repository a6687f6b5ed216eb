------------------------------- MODULE Client -------------------------------
(***************************************************************************)
(* The two goroutines of a connection (chatserver/internal/client/         *)
(* client.go): ReadPump, which takes frames from the websocket to the hub  *)
(* and unregisters the client when reading fails, and WritePump, which     *)
(* takes messages from the Send channel to the websocket.  ReadPump calls  *)
(* Hub.UnregisterClient itself, in its own goroutine, so the steps of that *)
(* function are steps of the reader.                                       *)
(***************************************************************************)
EXTENDS Hub

\* The peer goes away, or the network loses it.
PeerLost(c) ==
    /\ conn[c] = "open"
    /\ conn' = [conn EXCEPT ![c] = "gone"]
    /\ UNCHANGED <<hubVars, rpc, wpc, out, live, sent, handlerVars>>

-----------------------------------------------------------------------------
\* ReadPump

Reading(c) == rpc[c] = "read" /\ offer[c] = NoMsg

\* The bound on what the peers send.
MaySend(c, kind) == sent[c] < Len(Frames[c]) /\ kind \in Frames[c][sent[c] + 1]

\* One frame: handed to the hub, or, when it is private and its recipient is
\* not connected, skipped.
Frame(c, m) ==
    /\ Reading(c)
    /\ conn[c] = "open"
    /\ sent' = [sent EXCEPT ![c] = @ + 1]
    /\ offer' = [offer EXCEPT ![c] = m]
    /\ UNCHANGED <<crashed, conns, walk, log, unsent, send, closed, told,
                   conn, rpc, wpc, out, live, handlerVars>>

ReadChat(c) == MaySend(c, "chat") /\ Frame(c, Msg("chat", 0, {UserOf[c]}))

FindUsernameByUserID(u) == \E k \in Keys : conns[k] # NoClient /\ UserOf[conns[k]] = u

ReadPrivate(c) ==
    /\ MaySend(c, "private")
    /\ \E u \in User :
         Frame(c, IF FindUsernameByUserID(u) THEN Msg("private", 0, {UserOf[c], u}) ELSE NoMsg)

ReadOther(c) == MaySend(c, "other") /\ Frame(c, Msg("empty", 0, {}))

ReadError(c) ==
    /\ Reading(c)
    /\ conn[c] \in {"gone", "closed"}
    /\ rpc' = [rpc EXCEPT ![c] = "unregister"]
    /\ UNCHANGED <<hubVars, conn, wpc, out, live, sent, handlerVars>>

\* Hub.UnregisterClient looks the client's key up, not the client: nothing
\* happens when the key is gone, and what the key maps to is not looked at.
UnregisterMiss(c) ==
    /\ rpc[c] = "unregister"
    /\ conns[Key(c)] = NoClient
    /\ rpc' = [rpc EXCEPT ![c] = "done"]
    /\ conn' = [conn EXCEPT ![c] = "closed"]
    /\ UNCHANGED <<hubVars, wpc, out, live, sent, handlerVars>>

UnregisterHit(c) ==
    /\ rpc[c] = "unregister"
    /\ conns[Key(c)] # NoClient
    /\ rpc' = [rpc EXCEPT ![c] = "delete"]
    /\ UNCHANGED <<hubVars, conn, wpc, out, live, sent, handlerVars>>

UnregisterDelete(c) ==
    /\ rpc[c] = "delete"
    /\ Remove(Key(c))
    /\ rpc' = [rpc EXCEPT ![c] = "close"]
    /\ UNCHANGED <<crashed, offer, log, unsent, send, closed, told,
                   conn, wpc, out, live, sent, handlerVars>>

\* Mutant: the Send channel is left open.
CloseSendChannelForgotten(c) ==
    /\ rpc[c] = "close"
    /\ walk' = [walk EXCEPT ![c] = NewWalk(Msg("offline", 0, {UserOf[c]}))]
    /\ rpc' = [rpc EXCEPT ![c] = "walk"]
    /\ UNCHANGED <<crashed, conns, offer, log, unsent, send, closed, told, conn, wpc, out, live, sent, handlerVars>>

\* The session is written to the database, well or badly, which takes a while
\* and changes nothing here; then closeClientSendChannel, and the Broadcast of
\* the user's offline status, whose loop this goroutine runs.
CloseSendChannel(c) ==
    /\ rpc[c] = "close"
    /\ closed' = [closed EXCEPT ![c] = TRUE]
    /\ walk' = [walk EXCEPT ![c] = NewWalk(Msg("offline", 0, {UserOf[c]}))]
    /\ rpc' = [rpc EXCEPT ![c] = "walk"]
    /\ UNCHANGED <<crashed, conns, offer, log, unsent, send, told,
                   conn, wpc, out, live, sent, handlerVars>>

ReaderWalkEnd(c) ==
    /\ rpc[c] = "walk"
    /\ WalkOver(c)
    /\ walk' = [walk EXCEPT ![c] = NoWalk]
    /\ rpc' = [rpc EXCEPT ![c] = "done"]
    /\ conn' = [conn EXCEPT ![c] = "closed"]
    /\ UNCHANGED <<crashed, conns, offer, log, unsent, send, closed, told,
                   wpc, out, live, sent, handlerVars>>

ReaderWalk(c) == WalkPick(c) \/ WalkSend(c)

\* What the reader does by itself; which frames arrive is up to the peer.
ReaderStep(c) ==
    \/ ReadError(c)
    \/ UnregisterMiss(c)
    \/ UnregisterHit(c)
    \/ UnregisterDelete(c)
    \/ CloseSendChannel(c)
    \/ ReaderWalk(c)
    \/ ReaderWalkEnd(c)

ReadFrame(c) == ReadChat(c) \/ ReadPrivate(c) \/ ReadOther(c)

-----------------------------------------------------------------------------
\* WritePump

TakeMessage(c) ==
    /\ wpc[c] = "range"
    /\ send[c] # <<>>
    /\ out' = [out EXCEPT ![c] = Head(send[c])]
    /\ send' = [send EXCEPT ![c] = Tail(@)]
    /\ wpc' = [wpc EXCEPT ![c] = "write"]
    /\ UNCHANGED <<crashed, conns, walk, offer, log, unsent, closed, told,
                   conn, rpc, live, sent, handlerVars>>

\* A write to a peer that has gone may still be accepted by the socket.
WriteOk(c) ==
    /\ wpc[c] = "write"
    /\ conn[c] \in {"open", "gone"}
    /\ live' = IF out[c].type \in Kind
               THEN [live EXCEPT ![c][out[c].type] = Append(@, out[c].id)]
               ELSE live
    /\ out' = [out EXCEPT ![c] = NoMsg]
    /\ wpc' = [wpc EXCEPT ![c] = "range"]
    /\ UNCHANGED <<hubVars, conn, rpc, sent, handlerVars>>

\* Its deferred Close; the history of the connection ends here.
WriterReturns(c) ==
    /\ wpc' = [wpc EXCEPT ![c] = "done"]
    /\ conn' = [conn EXCEPT ![c] = "closed"]
    /\ live' = [live EXCEPT ![c] = [k \in Kind |-> <<>>]]

\* WritePump returns on the first error, without draining Send.
WriteError(c) ==
    /\ wpc[c] = "write"
    /\ conn[c] \in {"gone", "closed"}
    /\ out' = [out EXCEPT ![c] = NoMsg]
    /\ WriterReturns(c)
    /\ UNCHANGED <<hubVars, rpc, sent, handlerVars>>

RangeEnd(c) ==
    /\ wpc[c] = "range"
    /\ send[c] = <<>>
    /\ closed[c]
    /\ WriterReturns(c)
    /\ UNCHANGED <<hubVars, rpc, out, sent, handlerVars>>

WriterStep(c) == TakeMessage(c) \/ WriteOk(c) \/ WriteError(c) \/ RangeEnd(c)
=============================================================================

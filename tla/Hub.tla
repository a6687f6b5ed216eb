-------------------------------- MODULE Hub --------------------------------
(***************************************************************************)
(* The hub of the chat server (chatserver/internal/hub/hub.go): the map of *)
(* connections, the walk over it that Broadcast and Whisper make, the      *)
(* hub's own goroutine (Run, handleMessage), and the effect of             *)
(* RegisterClient and UnregisterClient on the map.  The goroutines that    *)
(* call the hub are in modules Client and ChatServer.                      *)
(***************************************************************************)
EXTENDS ChatState

-----------------------------------------------------------------------------
\* The recent messages Valkey keeps: all public ones, or one user's private ones.

\* Mutant: the range read from the list stops one short of its end.
LastButNewest(S) ==
    {i \in S : Cardinality({j \in S : j > i}) \in 1..RecentMax}

Last(S) == {i \in S : Cardinality({j \in S : j > i}) < RecentMax}
Recent(kind, u) ==
    Last({i \in DOMAIN log[kind] : kind = "private" => u \in log[kind][i]})

\* client.SendMessage: a send on a closed channel panics and takes the process
\* down; one on a full channel blocks.
Learn(known, m) ==
    CASE m.type \in {"online", "users"} -> known \cup m.who
      [] m.type = "offline"             -> known \ m.who
      [] OTHER                          -> known

\* Mutant: the queue may grow one past its capacity.
EnqueueOffByOne(c, m) ==
    /\ ~closed[c]
    /\ Len(send[c]) <= SendCap
    /\ send' = [send EXCEPT ![c] = Append(@, m)]
    /\ told' = [told EXCEPT ![c] = Learn(@, m)]

Enqueue(c, m) ==
    /\ ~closed[c]
    /\ Len(send[c]) < SendCap
    /\ send' = [send EXCEPT ![c] = Append(@, m)]
    /\ told' = [told EXCEPT ![c] = Learn(@, m)]

-----------------------------------------------------------------------------
\* Writes of Connections.  Every goroutine that is ranging over the map sees
\* them as Go defines it: an entry removed before it is reached is not
\* produced, one added during the loop may or may not be.

Insert(c) ==
    /\ conns' = [conns EXCEPT ![Key(c)] = c]
    /\ walk' = [p \in Proc |->
                  IF Walking(p) /\ conns[Key(c)] = NoClient
                  THEN [walk[p] EXCEPT !.maybe = @ \cup {Key(c)}]
                  ELSE walk[p]]

Remove(k) ==
    /\ conns' = [conns EXCEPT ![k] = NoClient]
    /\ walk' = [p \in Proc |-> [walk[p] EXCEPT !.todo = @ \ {k}, !.maybe = @ \ {k}]]

-----------------------------------------------------------------------------
\* Broadcast and Whisper: range over the map and send to each client produced.

\* Mutant: a private message goes to everyone.
RecipientAnyone(m, c) == TRUE

Recipient(m, c) == m.type = "private" => UserOf[c] \in m.who

NewWalk(m) ==
    [msg |-> m, todo |-> {k \in Keys : conns[k] # NoClient}, maybe |-> {}, to |-> NoClient]

WalkPick(p) ==
    /\ Walking(p)
    /\ walk[p].to = NoClient
    /\ \E k \in walk[p].todo \cup walk[p].maybe :
         /\ conns[k] # NoClient
         /\ Recipient(walk[p].msg, conns[k])
         /\ walk' = [walk EXCEPT ![p] = [walk[p] EXCEPT !.todo = @ \ {k},
                                                        !.maybe = @ \ {k},
                                                        !.to = conns[k]]]
    /\ UNCHANGED <<crashed, conns, offer, log, unsent, send, closed, told, clientVars, handlerVars>>

WalkSend(p) ==
    /\ walk[p].to # NoClient
    /\ Enqueue(walk[p].to, walk[p].msg)
    /\ walk' = [walk EXCEPT ![p].to = NoClient]
    /\ UNCHANGED <<crashed, conns, offer, log, unsent, closed, clientVars, handlerVars>>

SendPanics(p) == walk[p].to # NoClient /\ closed[walk[p].to]

WalkOver(p) ==
    /\ Walking(p)
    /\ walk[p].to = NoClient
    /\ \A k \in walk[p].todo : conns[k] # NoClient => ~Recipient(walk[p].msg, conns[k])

-----------------------------------------------------------------------------
\* The hub goroutine takes a message, which frees its sender, and handles it;
\* until the loop over the map starts that touches nothing but Valkey.  Nothing
\* in the repository sends on Register or Unregister, so those two cases of the
\* select never happen.

HubReceive(c) ==
    /\ ~Walking(HubG)
    /\ offer[c] # NoMsg
    /\ offer' = [offer EXCEPT ![c] = NoMsg]
    /\ UNCHANGED <<crashed, conns, send, closed, told, clientVars, handlerVars>>

\* Mutant: the cacheID is not put on the message that is sent on.
HandleCachedWithoutId(c) ==
    /\ offer[c].type \in Kind
    /\ HubReceive(c)
    /\ log' = [log EXCEPT ![offer[c].type] = Append(@, offer[c].who)]
    /\ walk' = [walk EXCEPT ![HubG] = NewWalk(offer[c])]
    /\ UNCHANGED unsent

\* A chat or private message is cached, which gives it its cacheID, and sent on.
HandleCached(c) ==
    /\ offer[c].type \in Kind
    /\ HubReceive(c)
    /\ log' = [log EXCEPT ![offer[c].type] = Append(@, offer[c].who)]
    /\ walk' = [walk EXCEPT ![HubG] =
                  NewWalk([offer[c] EXCEPT !.id = Len(log[offer[c].type]) + 1])]
    /\ UNCHANGED unsent

\* The script has run and its reply is lost: the message is cached, and the hub
\* takes it for refused.
HandleUnacknowledged(c) ==
    /\ offer[c].type \in Kind
    /\ HubReceive(c)
    /\ log' = [log EXCEPT ![offer[c].type] = Append(@, offer[c].who)]
    /\ unsent' = [unsent EXCEPT ![offer[c].type] = @ \cup {Len(log[offer[c].type]) + 1}]
    /\ UNCHANGED walk

\* It is dropped when the rate limiter or Valkey refuses it, and so is a
\* message of a type that handleMessage does not know.
HandleDropped(c) ==
    /\ offer[c].type \in Kind \cup {"empty"}
    /\ HubReceive(c)
    /\ UNCHANGED <<log, unsent, walk>>

\* Mutant: a status is taken and not broadcast.
HandleStatusUnsent(c) ==
    /\ offer[c].type = "online"
    /\ HubReceive(c)
    /\ UNCHANGED <<log, unsent, walk>>

HandleStatus(c) ==
    /\ offer[c].type = "online"
    /\ HubReceive(c)
    /\ walk' = [walk EXCEPT ![HubG] = NewWalk(offer[c])]
    /\ UNCHANGED <<log, unsent>>

Handle(c) ==
    HandleCached(c) \/ HandleUnacknowledged(c) \/ HandleDropped(c) \/ HandleStatus(c)

HubWalkEnd ==
    /\ WalkOver(HubG)
    /\ walk' = [walk EXCEPT ![HubG] = NoWalk]
    /\ UNCHANGED <<crashed, conns, offer, log, unsent, send, closed, told, clientVars, handlerVars>>

HubStep ==
    \/ \E c \in Client : Handle(c)
    \/ WalkPick(HubG)
    \/ WalkSend(HubG)
    \/ HubWalkEnd
=============================================================================

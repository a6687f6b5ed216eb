-------------------------- MODULE ChatServerProofs --------------------------
(***************************************************************************)
(* The websocket side, for any number of connections, users, applications  *)
(* and messages, any capacity of the Send channels and any traffic: types, *)
(* the registration of clients, the delivery of messages.                  *)
(***************************************************************************)
EXTENDS ChatServerProperties, TLAPS, FiniteSetTheorems

-----------------------------------------------------------------------------
(***************************************************************************)
(* Types.  The actions of the hub, of the clients and of the handlers each *)
(* write a few variables; what they write is a message, a walk or a queue. *)
(***************************************************************************)

\* Messages built from users are messages.
LEMMA MsgType ==
  ASSUME NEW t \in MessageType, NEW i \in Nat, NEW w \in SUBSET User
  PROVE  Msg(t, i, w) \in Message
  BY DEF Msg, Message

\* The absence of a message, and of a walk.
LEMMA NothingType == NoMsg \in Message /\ NoWalk \in Walk
  BY DEF NoMsg, NoWalk, Msg, Message, MessageType, Walk, Kind

\* A user's key is one of the keys.
LEMMA KeyType ==
  ASSUME NEW c \in Client
  PROVE  Key(c) \in Keys /\ UserOf[c] \in User
  BY HubConstants DEF Keys

\* A walk starts over keys of the map.
LEMMA NewWalkType ==
  ASSUME NEW m \in Message
  PROVE  NewWalk(m) \in Walk
  BY DEF NewWalk, Walk

\* Queueing a message keeps the queue within its capacity.
LEMMA EnqueueType ==
  ASSUME TypeOK, NEW c \in Client, NEW m \in Message, Enqueue(c, m)
  PROVE  /\ send' \in [Client -> Seq(Message)]
         /\ \A d \in Client : Len(send'[d]) <= SendCap
         /\ told' \in [Client -> SUBSET User]
<1>1. send[c] \in Seq(Message) /\ told[c] \in SUBSET User /\ Len(send[c]) < SendCap
  BY DEF TypeOK, HubType, Enqueue
<1>2. /\ Append(send[c], m) \in Seq(Message)
      /\ Len(Append(send[c], m)) = Len(send[c]) + 1
  BY <1>1
<1>3. Learn(told[c], m) \in SUBSET User
  <2>1. m.who \in SUBSET User
    BY DEF Message
  <2> QED
    BY <1>1, <2>1 DEF Learn
<1>4. SendCap \in Nat /\ Len(send[c]) \in Nat
  BY <1>1, HubConstants
<1>5. /\ send' = [send EXCEPT ![c] = Append(send[c], m)]
      /\ told' = [told EXCEPT ![c] = Learn(told[c], m)]
  BY DEF Enqueue
<1> QED
  BY <1>1, <1>2, <1>3, <1>4, <1>5 DEF TypeOK, HubType

\* Removing a key from the map, and from the walks over it.
LEMMA RemoveType ==
  ASSUME TypeOK, NEW c \in Client, Remove(Key(c))
  PROVE  conns' \in [Keys -> Client \cup {NoClient}] /\ walk' \in [Proc -> Walk]
<1>1. ASSUME NEW p \in Proc
      PROVE  [walk[p] EXCEPT !.todo = @ \ {Key(c)}, !.maybe = @ \ {Key(c)}] \in Walk
  <2>1. walk[p] \in Walk
    BY DEF TypeOK, HubType
  <2>2. /\ walk[p].todo \ {Key(c)} \in SUBSET Keys
        /\ walk[p].maybe \ {Key(c)} \in SUBSET Keys
    BY <2>1 DEF Walk
  <2> QED
    BY <2>1, <2>2 DEF Walk
<1> QED
  BY <1>1, KeyType DEF TypeOK, HubType, Remove

\* Adding a client to the map, and perhaps to the walks over it.
LEMMA InsertType ==
  ASSUME TypeOK, NEW c \in Client, Insert(c)
  PROVE  conns' \in [Keys -> Client \cup {NoClient}] /\ walk' \in [Proc -> Walk]
<1>1. ASSUME NEW p \in Proc
      PROVE  [walk[p] EXCEPT !.maybe = @ \cup {Key(c)}] \in Walk /\ walk[p] \in Walk
  <2>1. walk[p] \in Walk
    BY DEF TypeOK, HubType
  <2>2. walk[p].maybe \cup {Key(c)} \in SUBSET Keys
    BY <2>1, KeyType DEF Walk
  <2> QED
    BY <2>1, <2>2 DEF Walk
<1>2. walk' \in [Proc -> Walk]
  BY <1>1 DEF Insert
<1>3. conns' \in [Keys -> Client \cup {NoClient}]
  BY KeyType DEF TypeOK, HubType, Insert
<1> QED
  BY <1>2, <1>3

\* The walks over the map, by the hub or by a reader.
LEMMA WalkType ==
  ASSUME TypeOK, NEW p \in Proc, WalkPick(p) \/ WalkSend(p)
  PROVE  TypeOK'
<1>1. walk[p] \in Walk
  BY DEF TypeOK, HubType
<1>2. CASE WalkPick(p)
  <2>1. PICK k \in walk[p].todo \cup walk[p].maybe :
               /\ conns[k] # NoClient
               /\ walk' = [walk EXCEPT ![p] = [walk[p] EXCEPT !.todo = @ \ {k},
                                                              !.maybe = @ \ {k},
                                                              !.to = conns[k]]]
    BY <1>2 DEF WalkPick
  <2>2. k \in Keys
    BY <1>1 DEF Walk
  <2>3. conns[k] \in Client
    BY <2>1, <2>2 DEF TypeOK, HubType
  <2>4. [walk[p] EXCEPT !.todo = @ \ {k}, !.maybe = @ \ {k}, !.to = conns[k]] \in Walk
    BY <1>1, <2>3 DEF Walk
  <2>5. walk' \in [Proc -> Walk]
    BY <2>1, <2>4 DEF TypeOK, HubType
  <2> QED
    BY <1>2, <2>5
       DEF WalkPick, TypeOK, HubType, ClientType, HandlerType, clientVars, handlerVars
<1>3. CASE WalkSend(p)
  <2>1. walk[p].to \in Client /\ walk[p].msg \in Message
    BY <1>1, <1>3 DEF WalkSend, Walk
  <2>2. Enqueue(walk[p].to, walk[p].msg)
    BY <1>3 DEF WalkSend
  <2>3. walk' = [walk EXCEPT ![p].to = NoClient]
    BY <1>3 DEF WalkSend
  <2>4. [walk[p] EXCEPT !.to = NoClient] \in Walk
    BY <1>1 DEF Walk
  <2>5. walk' \in [Proc -> Walk]
    BY <2>3, <2>4 DEF TypeOK, HubType
  <2>6. UNCHANGED <<crashed, conns, offer, log, unsent, closed, clientVars, handlerVars>>
    BY <1>3 DEF WalkSend
  <2>7. HubType'
    BY <2>1, <2>2, <2>5, <2>6, EnqueueType DEF TypeOK, HubType
  <2> QED
    BY <2>6, <2>7 DEF TypeOK, ClientType, HandlerType, clientVars, handlerVars
<1> QED
  BY <1>2, <1>3

\* The hub's own steps keep the types.
LEMMA HubStepType == TypeOK /\ HubStep => TypeOK'
<1> SUFFICES ASSUME TypeOK, HubStep PROVE TypeOK'
  OBVIOUS
<1>1. HubG \in Proc
  BY DEF Proc
<1>2. ASSUME NEW c \in Client, Handle(c) PROVE TypeOK'
  <2>1. /\ UNCHANGED <<crashed, conns, send, closed, told, clientVars, handlerVars>>
        /\ offer' = [offer EXCEPT ![c] = NoMsg]
        /\ offer[c] \in Message
    BY <1>2 DEF Handle, HandleCached, HandleUnacknowledged, HandleDropped, HandleStatus, HubReceive, TypeOK, HubType
  <2>2. offer' \in [Client -> Message]
    BY <2>1, NothingType DEF TypeOK, HubType
  <2>3. CASE HandleCached(c)
    <3>1. offer[c].type \in Kind /\ offer[c].who \in SUBSET User
      BY <2>1, <2>3 DEF HandleCached, Message
    <3>2. log[offer[c].type] \in Seq(SUBSET User)
      BY <3>1 DEF TypeOK, HubType
    <3>3. /\ Append(log[offer[c].type], offer[c].who) \in Seq(SUBSET User)
          /\ Len(log[offer[c].type]) + 1 \in Nat
      BY <3>1, <3>2
    <3>4. [offer[c] EXCEPT !.id = Len(log[offer[c].type]) + 1] \in Message
      BY <2>1, <3>3 DEF Message
    <3>5. NewWalk([offer[c] EXCEPT !.id = Len(log[offer[c].type]) + 1]) \in Walk
      BY <3>4, NewWalkType
    <3>6. log' \in [Kind -> Seq(SUBSET User)]
      BY <2>3, <3>1, <3>3 DEF HandleCached, TypeOK, HubType
    <3>7. walk' \in [Proc -> Walk]
      BY <1>1, <2>3, <3>5 DEF HandleCached, TypeOK, HubType
    <3> QED
      BY <2>1, <2>2, <2>3, <3>6, <3>7
         DEF HandleCached, TypeOK, HubType, ClientType, HandlerType, clientVars, handlerVars
  <2>4. CASE HandleDropped(c)
    BY <2>1, <2>2, <2>4
       DEF HandleDropped, TypeOK, HubType, ClientType, HandlerType, clientVars, handlerVars
  <2>5. CASE HandleStatus(c)
    <3>1. walk' \in [Proc -> Walk]
      BY <1>1, <2>1, <2>5, NewWalkType DEF HandleStatus, TypeOK, HubType
    <3> QED
      BY <2>1, <2>2, <2>5, <3>1
         DEF HandleStatus, TypeOK, HubType, ClientType, HandlerType, clientVars, handlerVars
  <2>6. CASE HandleUnacknowledged(c)
    <3>1. offer[c].type \in Kind /\ offer[c].who \in SUBSET User
      BY <2>1, <2>6 DEF HandleUnacknowledged, Message
    <3>2. log[offer[c].type] \in Seq(SUBSET User) /\ unsent[offer[c].type] \in SUBSET Nat
      BY <3>1 DEF TypeOK, HubType
    <3>3. /\ Append(log[offer[c].type], offer[c].who) \in Seq(SUBSET User)
          /\ unsent[offer[c].type] \cup {Len(log[offer[c].type]) + 1} \in SUBSET Nat
      BY <3>1, <3>2
    <3>4. log' \in [Kind -> Seq(SUBSET User)] /\ unsent' \in [Kind -> SUBSET Nat]
      BY <2>6, <3>1, <3>3 DEF HandleUnacknowledged, TypeOK, HubType
    <3> QED
      BY <2>1, <2>2, <2>6, <3>4
         DEF HandleUnacknowledged, TypeOK, HubType, ClientType, HandlerType, clientVars, handlerVars
  <2> QED
    BY <1>2, <2>3, <2>4, <2>5, <2>6 DEF Handle
<1>3. CASE HubWalkEnd
  BY <1>1, <1>3, NothingType
     DEF HubWalkEnd, TypeOK, HubType, ClientType, HandlerType, clientVars, handlerVars
<1> QED
  BY <1>1, <1>2, <1>3, WalkType DEF HubStep

\* A frame, read or skipped, keeps them.
LEMMA ReadFrameType ==
  ASSUME TypeOK, NEW c \in Client, ReadFrame(c)
  PROVE  TypeOK'
<1>1. ASSUME NEW m \in Message, Frame(c, m) PROVE TypeOK'
  BY <1>1 DEF Frame, TypeOK, HubType, ClientType, HandlerType, handlerVars
<1>2. Msg("chat", 0, {UserOf[c]}) \in Message /\ Msg("empty", 0, {}) \in Message
  BY MsgType, KeyType DEF MessageType, Kind
<1>3. ASSUME NEW u \in User PROVE Msg("private", 0, {UserOf[c], u}) \in Message
  BY MsgType, KeyType DEF MessageType, Kind
<1> QED
  BY <1>1, <1>2, <1>3, NothingType DEF ReadFrame, ReadChat, ReadPrivate, ReadOther

\* The reader's own steps keep them.
LEMMA ReaderStepType ==
  ASSUME TypeOK, NEW c \in Client, ReaderStep(c)
  PROVE  TypeOK'
<1>1. c \in Proc
  BY DEF Proc
<1>2. CASE ReadError(c) \/ UnregisterMiss(c) \/ UnregisterHit(c)
  BY <1>2 DEF ReadError, UnregisterMiss, UnregisterHit, ReadPc,
              TypeOK, HubType, ClientType, HandlerType, hubVars, handlerVars
<1>3. CASE UnregisterDelete(c)
  BY <1>3, RemoveType
     DEF UnregisterDelete, ReadPc, TypeOK, HubType, ClientType, HandlerType, handlerVars
<1>4. CASE CloseSendChannel(c)
  <2>1. NewWalk(Msg("offline", 0, {UserOf[c]})) \in Walk
    BY MsgType, KeyType, NewWalkType DEF MessageType
  <2> QED
    BY <1>1, <1>4, <2>1
       DEF CloseSendChannel, ReadPc, TypeOK, HubType, ClientType, HandlerType, handlerVars
<1>5. CASE ReaderWalk(c)
  BY <1>1, <1>5, WalkType DEF ReaderWalk
<1>6. CASE ReaderWalkEnd(c)
  BY <1>1, <1>6, NothingType
     DEF ReaderWalkEnd, ReadPc, TypeOK, HubType, ClientType, HandlerType, handlerVars
<1> QED
  BY <1>2, <1>3, <1>4, <1>5, <1>6 DEF ReaderStep

\* The writer's steps keep them.
LEMMA WriterStepType ==
  ASSUME TypeOK, NEW c \in Client, WriterStep(c)
  PROVE  TypeOK'
<1>1. CASE TakeMessage(c)
  <2>1. send[c] \in Seq(Message) /\ send[c] # <<>> /\ Len(send[c]) <= SendCap
    BY <1>1 DEF TakeMessage, TypeOK, HubType
  <2>2. /\ Head(send[c]) \in Message
        /\ Tail(send[c]) \in Seq(Message)
        /\ Len(Tail(send[c])) <= SendCap
    BY <2>1, HubConstants
  <2> QED
    BY <1>1, <2>2
       DEF TakeMessage, WritePc, TypeOK, HubType, ClientType, HandlerType, handlerVars
<1>2. CASE WriteOk(c)
  <2>1. live' \in [Client -> [Kind -> Seq(Nat)]]
    <3>1. CASE out[c].type \in Kind
      <4>1. live[c] \in [Kind -> Seq(Nat)] /\ out[c].id \in Nat
        BY DEF TypeOK, ClientType, Message
      <4>2. Append(live[c][out[c].type], out[c].id) \in Seq(Nat)
        BY <3>1, <4>1
      <4>3. [live[c] EXCEPT ![out[c].type] = Append(@, out[c].id)] \in [Kind -> Seq(Nat)]
        BY <4>1, <4>2
      <4> QED
        BY <1>2, <3>1, <4>3 DEF WriteOk, TypeOK, ClientType
    <3>2. CASE out[c].type \notin Kind
      BY <1>2, <3>2 DEF WriteOk, TypeOK, ClientType
    <3> QED
      BY <3>1, <3>2
  <2> QED
    BY <1>2, <2>1, NothingType
       DEF WriteOk, WritePc, TypeOK, HubType, ClientType, HandlerType, hubVars, handlerVars
<1>3. CASE WriteError(c) \/ RangeEnd(c)
  <2>1. [k \in Kind |-> <<>>] \in [Kind -> Seq(Nat)]
    OBVIOUS
  <2>2. /\ live' \in [Client -> [Kind -> Seq(Nat)]]
        /\ wpc' \in [Client -> WritePc]
        /\ conn' \in [Client -> {"none", "open", "gone", "closed"}]
    BY <1>3, <2>1, ZenonT(30) DEF WriteError, RangeEnd, WriterReturns, WritePc, TypeOK, ClientType
  <2>3. out' \in [Client -> Message] /\ UNCHANGED <<hubVars, rpc, sent, handlerVars>>
    BY <1>3, NothingType DEF WriteError, RangeEnd, TypeOK, ClientType
  <2> QED
    BY <2>2, <2>3 DEF TypeOK, HubType, ClientType, HandlerType, hubVars, handlerVars
<1> QED
  BY <1>1, <1>2, <1>3 DEF WriterStep

\* The handler's steps keep them.
LEMMA HandlerStepType ==
  ASSUME TypeOK, NEW c \in Client, Connect(c) \/ InitFails(c) \/ HandlerStep(c)
  PROVE  TypeOK'
<1>1. CASE Connect(c)
  <2>1. Msg("online", 0, {UserOf[c]}) \in Message
    BY MsgType, KeyType DEF MessageType
  <2>2. offer' \in [Client -> Message]
    BY <1>1, <2>1, NothingType DEF Connect, TypeOK, HubType
  <2> QED
    BY <1>1, <2>2 DEF Connect, HandlerPc, TypeOK, HubType, ClientType, HandlerType
<1>2. CASE InitFails(c)
  BY <1>2 DEF InitFails, HandlerPc, TypeOK, HubType, ClientType, HandlerType, hubVars, clientVars
<1>3. CASE RegisterClient(c)
  <2>1. skipped' \in [Client -> [Kind -> Nat]]
    BY <1>3 DEF RegisterClient, TypeOK, HubType, HandlerType
  <2> QED
    BY <1>3, <2>1, InsertType
       DEF RegisterClient, HandlerPc, TypeOK, HubType, ClientType, HandlerType, clientVars
<1>4. ASSUME NEW kind \in Kind PROVE Recent(kind, UserOf[c]) \in SUBSET Nat
  BY DEF Recent, Last, TypeOK, HubType
<1>9. ASSUME NEW kind \in Kind, ReadRecent(c, kind)
      PROVE  snap' \in [Client -> [Kind -> SUBSET Nat]] /\ skipped' \in [Client -> [Kind -> Nat]]
  <2>1. snap \in [Client -> [Kind -> SUBSET Nat]] /\ skipped \in [Client -> [Kind -> Nat]]
    BY DEF TypeOK, HandlerType
  <2>2. [snap[c] EXCEPT ![kind] = Recent(kind, UserOf[c])] \in [Kind -> SUBSET Nat]
    BY <1>4, <2>1
  <2>3. [skipped[c] EXCEPT ![kind] = 0] \in [Kind -> Nat]
    BY <2>1
  <2> QED
    BY <1>9, <2>1, <2>2, <2>3 DEF ReadRecent
<1>5. CASE ReadPrivateMessages(c)
  <2>1. Msg("bulk_private", 0, {UserOf[c]}) \in Message
    BY MsgType, KeyType DEF MessageType
  <2>2. pend' \in [Client -> Message] /\ hpc' \in [Client -> HandlerPc]
    BY <1>5, <2>1 DEF ReadPrivateMessages, HandlerPc, TypeOK, HandlerType
  <2>3. snap' \in [Client -> [Kind -> SUBSET Nat]] /\ skipped' \in [Client -> [Kind -> Nat]]
    BY <1>9, <1>5 DEF ReadPrivateMessages, Kind
  <2> QED
    BY <1>5, <2>2, <2>3
       DEF ReadPrivateMessages, TypeOK, HubType, ClientType, HandlerType, hubVars, clientVars
<1>6. CASE WriteBulk(c)
  <2>1. snap' \in [Client -> [Kind -> SUBSET Nat]] /\ skipped' \in [Client -> [Kind -> Nat]]
    BY <1>9, <1>6 DEF WriteBulk, Kind
  <2> QED
    BY <1>6, <2>1
       DEF WriteBulk, HandlerPc, TypeOK, HubType, ClientType, HandlerType, hubVars, clientVars
<1>7. CASE GetConnectedUsers(c)
  <2> DEFINE users == {UserOf[conns[k]] : k \in {j \in Keys : conns[j] # NoClient /\ AppOf[conns[j]] # WebClient}}
  <2>1. \A k \in Keys : conns[k] # NoClient => conns[k] \in Client
    BY DEF TypeOK, HubType
  <2>2. users \in SUBSET User
    BY <2>1, KeyType
  <2>3. Msg("users", 0, users) \in Message
    BY <2>2, MsgType DEF MessageType
  <2>4. pend' = [pend EXCEPT ![c] = Msg("users", 0, users)]
    BY <1>7 DEF GetConnectedUsers
  <2> HIDE DEF users
  <2> QED
    BY <1>7, <2>3, <2>4
       DEF GetConnectedUsers, HandlerPc, TypeOK, HubType, ClientType, HandlerType,
           hubVars, clientVars
<1>8. CASE HandlerSend(c)
  <2>1. pend[c] \in Message /\ Enqueue(c, pend[c])
    BY <1>8 DEF HandlerSend, TypeOK, HandlerType
  <2>2. HubType'
    BY <1>8, <2>1, EnqueueType DEF HandlerSend, TypeOK, HubType
  <2>3. rpc' \in [Client -> ReadPc] /\ wpc' \in [Client -> WritePc] /\ hpc' \in [Client -> HandlerPc]
    BY <1>8, ZenonT(30) DEF HandlerSend, ReadPc, WritePc, HandlerPc, TypeOK, ClientType, HandlerType
  <2>4. pend' \in [Client -> Message]
    BY <1>8, NothingType DEF HandlerSend, TypeOK, HandlerType
  <2> QED
    BY <1>8, <2>2, <2>3, <2>4 DEF HandlerSend, TypeOK, ClientType, HandlerType
<1> QED
  BY <1>1, <1>2, <1>3, <1>5, <1>6, <1>7, <1>8 DEF HandlerStep

\* The end of the process keeps them.
LEMMA DownType ==
  ASSUME TypeOK, NEW how \in {"panic", "fatal"}, Down(how)
  PROVE  TypeOK'
<1>1. [k \in Kind |-> <<>>] \in [Kind -> Seq(Nat)] /\ [k \in Kind |-> {}] \in [Kind -> SUBSET Nat]
  OBVIOUS
<1>2. send' \in [Client -> Seq(Message)] /\ \A c \in Client : Len(send'[c]) <= SendCap
  BY HubConstants DEF Down
<1>3. HubType'
  BY <1>2, NothingType DEF Down, TypeOK, HubType
<1>4. ClientType'
  BY <1>1, NothingType DEF Down, ClientType, ReadPc, WritePc
<1>5. HandlerType'
  BY <1>1, NothingType DEF Down, HandlerType, HandlerPc
<1> QED
  BY <1>3, <1>4, <1>5 DEF TypeOK

\* The server starts with every variable of its type.
LEMMA InitType == Init => TypeOK
<1> SUFFICES ASSUME Init PROVE TypeOK
  OBVIOUS
<1>1. [k \in Kind |-> <<>>] \in [Kind -> Seq(Nat)] /\ [k \in Kind |-> {}] \in [Kind -> SUBSET Nat]
  OBVIOUS
<1>2. HubType
  <2>1. send \in [Client -> Seq(Message)] /\ \A c \in Client : Len(send[c]) <= SendCap
    BY HubConstants DEF Init
  <2>2. log \in [Kind -> Seq(SUBSET User)]
    BY CachedConstants DEF Init, Kind
  <2> QED
    BY <2>1, <2>2, NothingType DEF Init, HubType
<1>3. ClientType
  BY <1>1, NothingType DEF Init, ClientType, ReadPc, WritePc
<1>4. HandlerType
  BY <1>1, NothingType DEF Init, HandlerType, HandlerPc
<1> QED
  BY <1>2, <1>3, <1>4 DEF TypeOK

\* Every step keeps them.
LEMMA NextType == TypeOK /\ [Next]_vars => TypeOK'
<1> SUFFICES ASSUME TypeOK, [Next]_vars PROVE TypeOK'
  OBVIOUS
<1>1. ASSUME NEW c \in Client, PeerLost(c) PROVE TypeOK'
  BY <1>1 DEF PeerLost, TypeOK, HubType, ClientType, HandlerType, hubVars, handlerVars
<1>2. CASE MapRace \/ ClosedSend
  BY <1>2, DownType DEF MapRace, ClosedSend
<1>3. CASE Terminated \/ UNCHANGED vars
  BY <1>3 DEF Terminated, vars, TypeOK, HubType, ClientType, HandlerType,
              hubVars, clientVars, handlerVars
<1> QED
  BY <1>1, <1>2, <1>3, HubStepType, ReadFrameType, ReaderStepType, WriterStepType, HandlerStepType
     DEF Next

\* Every variable keeps to its type, and no Send channel outgrows its capacity.
THEOREM TypeCorrect == Spec => []TypeOK
  BY InitType, NextType, PTL DEF Spec

-----------------------------------------------------------------------------
(***************************************************************************)
(* Registration: who is in the hub's map, whose Send channel is closed, and*)
(* what the reader of a client that leaves finds there.                    *)
(***************************************************************************)
\* Registration reads four variables.
regVars == <<conns, rpc, hpc, closed>>

\* A step that leaves the four alone keeps the invariant.
LEMMA RegStutter == Registration /\ UNCHANGED regVars => Registration'
  BY DEF Registration, Shared, regVars

\* A connection that was made stays made, as long as the process lives.
LEMMA SharedKept ==
  ASSUME NEW c \in Client, Shared(c),
         \A d \in Client : hpc[d] # "idle" => hpc'[d] # "idle"
  PROVE  Shared(c)'
  BY DEF Shared, Key

\* The walks, by the hub or by a reader, do not touch the four.
LEMMA RegWalk ==
  ASSUME Registration, NEW p \in Proc, WalkPick(p) \/ WalkSend(p)
  PROVE  Registration'
  BY RegStutter DEF WalkPick, WalkSend, regVars, clientVars, handlerVars

\* Nor do the hub's other steps.
LEMMA RegHub == Registration /\ HubStep => Registration'
<1> SUFFICES ASSUME Registration, HubStep PROVE Registration'
  OBVIOUS
<1>1. ASSUME NEW c \in Client, Handle(c) PROVE UNCHANGED regVars
  BY <1>1 DEF Handle, HandleCached, HandleUnacknowledged, HandleDropped, HandleStatus, HubReceive, regVars,
              clientVars, handlerVars
<1>2. CASE HubWalkEnd
  BY <1>2, RegStutter DEF HubWalkEnd, regVars, clientVars, handlerVars
<1> QED
  BY <1>1, <1>2, RegStutter, RegWalk DEF HubStep, Proc

\* The reader: it looks its key up, removes it, and then closes the channel.
LEMMA RegReader ==
  ASSUME TypeOK, Registration, NEW c \in Client, ReaderStep(c)
  PROVE  Registration'
<1>1. /\ rpc \in [Client -> ReadPc]
      /\ closed \in [Client -> BOOLEAN]
      /\ conns \in [Keys -> Client \cup {NoClient}]
  BY DEF TypeOK, HubType, ClientType
<1>2. CASE ReaderWalk(c)
  BY <1>2, RegWalk DEF ReaderWalk, Proc
<1>3. CASE UnregisterDelete(c)
  <2>1. /\ rpc[c] = "delete" /\ rpc' = [rpc EXCEPT ![c] = "close"]
        /\ UNCHANGED <<hpc, closed>>
        /\ conns' = [conns EXCEPT ![Key(c)] = NoClient]
    BY <1>3 DEF UnregisterDelete, Remove, handlerVars
  <2>2. hpc[c] = "started"
    BY <2>1 DEF Registration
  <2>3. \A d \in Client \ {c} : Key(d) = Key(c) => Shared(d)'
    BY <2>1, <2>2 DEF Shared, Key
  <2>4. \A d \in Client : Shared(d) => Shared(d)'
    BY <2>1, SharedKept
  <2>5. \A d \in Client : conns'[Key(d)] = IF Key(d) = Key(c) THEN NoClient ELSE conns[Key(d)]
    BY <1>1, <2>1, KeyType
  <2>6. \A d \in Client : d # NoClient
    BY HubConstants
  <2>7. \A d \in Client : rpc'[d] = IF d = c THEN "close" ELSE rpc[d]
    BY <1>1, <2>1
  <2>8. \A d \in Client : Key(d)' = Key(d)
    BY DEF Key
  <2> QED
    BY <2>1, <2>2, <2>3, <2>4, <2>5, <2>6, <2>7, <2>8 DEF Registration
<1>4. CASE ReadError(c) \/ UnregisterMiss(c) \/ UnregisterHit(c) \/ CloseSendChannel(c) \/ ReaderWalkEnd(c)
  <2>1. UNCHANGED <<conns, hpc>>
    BY <1>4 DEF ReadError, UnregisterMiss, UnregisterHit, CloseSendChannel, ReaderWalkEnd,
                hubVars, handlerVars
  <2>2. \A d \in Client : Shared(d)' <=> Shared(d)
    BY <2>1 DEF Shared, Key
  <2>3. \A d \in Client \ {c} : rpc'[d] = rpc[d] /\ closed'[d] = closed[d]
    BY <1>1, <1>4 DEF ReadError, UnregisterMiss, UnregisterHit, CloseSendChannel, ReaderWalkEnd,
                      hubVars
  <2>4. \/ /\ rpc[c] \in {"read", "unregister"} /\ rpc'[c] \in {"unregister", "delete"}
           /\ closed'[c] = closed[c]
        \/ /\ rpc[c] = "unregister" /\ rpc'[c] = "done" /\ closed'[c] = closed[c]
           /\ conns[Key(c)] = NoClient
        \/ rpc[c] = "close" /\ rpc'[c] = "walk" /\ closed'[c]
        \/ rpc[c] = "walk" /\ rpc'[c] = "done" /\ closed'[c] = closed[c]
    BY <1>1, <1>4 DEF ReadError, Reading, UnregisterMiss, UnregisterHit, CloseSendChannel,
                      ReaderWalkEnd, hubVars
  <2>5. c # NoClient
    BY HubConstants
  <2>6. \A d \in Client : conns'[Key(d)'] = conns[Key(d)]
    BY <2>1 DEF Key
  <2> QED
    BY <2>1, <2>2, <2>3, <2>4, <2>5, <2>6 DEF Registration
<1> QED
  BY <1>2, <1>3, <1>4 DEF ReaderStep

\* The handler: it registers the client before it starts the reader.
LEMMA RegHandler ==
  ASSUME TypeOK, Registration, NEW c \in Client, Connect(c) \/ InitFails(c) \/ HandlerStep(c)
  PROVE  Registration'
<1>1. /\ rpc \in [Client -> ReadPc]
      /\ hpc \in [Client -> HandlerPc]
      /\ conns \in [Keys -> Client \cup {NoClient}]
  BY DEF TypeOK, HubType, ClientType, HandlerType
<1>2. closed' = closed
  BY DEF Connect, InitFails, HandlerStep, RegisterClient, ReadPrivateMessages, WriteBulk,
         GetConnectedUsers, HandlerSend, hubVars
<1>3. \A d \in Client \ {c} : hpc'[d] = hpc[d] /\ rpc'[d] = rpc[d]
  BY <1>1 DEF Connect, InitFails, HandlerStep, RegisterClient, ReadPrivateMessages, WriteBulk,
              GetConnectedUsers, HandlerSend, clientVars
<1>4. hpc'[c] # "idle"
  BY <1>1 DEF Connect, InitFails, HandlerStep, RegisterClient, ReadPrivateMessages, WriteBulk,
              GetConnectedUsers, HandlerSend
<1>5. \A d \in Client : Shared(d) => Shared(d)'
  BY <1>3, <1>4, SharedKept
<1>6. \A d \in Client : Key(d)' = Key(d)
  BY DEF Key
<1>7. hpc[c] # "started"
  BY DEF Connect, InitFails, HandlerStep, RegisterClient, ReadPrivateMessages, WriteBulk,
         GetConnectedUsers, HandlerSend
<1>8. rpc[c] = "off" /\ ~closed[c]
  BY <1>1, <1>7 DEF Registration
<1>9. CASE RegisterClient(c)
  <2>1. /\ hpc'[c] = "private" /\ rpc' = rpc
        /\ conns' = [conns EXCEPT ![Key(c)] = c]
    BY <1>1, <1>9 DEF RegisterClient, Insert, clientVars
  <2>2. \A d \in Client : conns'[Key(d)] = IF Key(d) = Key(c) THEN c ELSE conns[Key(d)]
    BY <1>1, <2>1, KeyType
  <2>3. \A d \in Client \ {c} : Key(d) = Key(c) => Shared(d)'
    BY <1>4 DEF Shared, Key
  <2> QED
    BY <1>2, <1>3, <1>5, <1>6, <1>8, <2>1, <2>2, <2>3 DEF Registration
<1>10. CASE ~RegisterClient(c)
  <2>1. conns' = conns
    BY <1>10 DEF Connect, InitFails, HandlerStep, ReadPrivateMessages, WriteBulk,
                 GetConnectedUsers, HandlerSend, hubVars
  <2>2. \/ hpc[c] = "idle" /\ hpc'[c] = "announce" /\ rpc'[c] = rpc[c]
        \/ /\ hpc[c] \notin {"idle", "announce"} /\ hpc'[c] \notin {"idle", "announce"}
           /\ rpc'[c] = rpc[c] \/ (rpc'[c] = "read" /\ hpc'[c] = "started")
    BY <1>1, <1>10
       DEF Connect, InitFails, HandlerStep, ReadPrivateMessages, WriteBulk,
           GetConnectedUsers, HandlerSend, hubVars, clientVars
  <2> QED
    BY <1>2, <1>3, <1>5, <1>6, <1>8, <2>1, <2>2 DEF Registration
<1> QED
  BY <1>9, <1>10

\* When the process is down there is no map and no client.
LEMMA RegDown == \A how : Down(how) => Registration'
<1> SUFFICES ASSUME NEW how, Down(how) PROVE Registration'
  OBVIOUS
<1>1. \A c \in Client : /\ hpc'[c] = "idle" /\ rpc'[c] = "off" /\ ~closed'[c]
                        /\ conns'[Key(c)'] = NoClient /\ c # NoClient
  BY KeyType, HubConstants DEF Down, Key
<1> QED
  BY <1>1 DEF Registration

\* Every step keeps the types and the registration.
LEMMA RegNext == TypeOK /\ Registration /\ [Next]_vars => Registration'
<1> SUFFICES ASSUME TypeOK, Registration, [Next]_vars PROVE Registration'
  OBVIOUS
<1>1. ASSUME NEW c \in Client, PeerLost(c) \/ ReadFrame(c) \/ WriterStep(c)
      PROVE  UNCHANGED regVars
  BY <1>1 DEF PeerLost, ReadFrame, ReadChat, ReadPrivate, ReadOther, Frame, WriterStep,
              TakeMessage, WriteOk, WriteError, RangeEnd, hubVars, handlerVars, regVars
<1>2. CASE MapRace \/ ClosedSend
  BY <1>2, RegDown DEF MapRace, ClosedSend
<1>3. CASE Terminated \/ UNCHANGED vars
  BY <1>3, RegStutter DEF Terminated, vars, hubVars, clientVars, handlerVars, regVars
<1> QED
  BY <1>1, <1>2, <1>3, RegStutter, RegHub, RegReader, RegHandler DEF Next

\* The map, the readers, the handlers and the channels keep in step.
THEOREM RegistrationKept == Spec => []Registration
<1>1. Init => Registration
  BY KeyType, HubConstants DEF Init, Registration
<1> QED
  BY <1>1, RegNext, TypeCorrect, PTL DEF Spec

\* A client whose Send channel is closed is not in the map, even when several
\* connections share its key.
THEOREM ClosedLeftMap == Spec => []ClosedNotRegistered
<1>1. Registration => ClosedNotRegistered
  BY DEF Registration, ClosedNotRegistered
<1> QED
  BY <1>1, RegistrationKept, PTL

\* A client that is being read is in the map, unless its key is shared.
THEOREM ReadRegistered == Spec => []ReadMeansRegistered
<1>1. Registration => ReadMeansRegistered
  BY DEF Registration, ReadMeansRegistered
<1> QED
  BY <1>1, RegistrationKept, PTL

\* When no two connections share a key, a reader that has returned has taken its
\* client out of the map and closed its channel.
THEOREM TornDownUnshared ==
  ASSUME \A c, d \in Client : Key(c) = Key(d) => c = d
  PROVE  Spec => []TornDown
<1>1. Registration => TornDown
  BY DEF Registration, TornDown, Shared
<1> QED
  BY <1>1, RegistrationKept, PTL

-----------------------------------------------------------------------------
(***************************************************************************)
(* Delivery: each client gets the messages in order, without a hole and    *)
(* only its own private ones.                                              *)
(***************************************************************************)
-----------------------------------------------------------------------------
(***************************************************************************)
(* What happens to the messages on their way to one client in one step:    *)
(* nothing, one more is queued, the writer takes one, writes it, or ends.  *)
(***************************************************************************)
Kept(c) == live'[c] = live[c] /\ out'[c] = out[c] /\ send'[c] = send[c]

Added(c, m) == live'[c] = live[c] /\ out'[c] = out[c] /\ send'[c] = Append(send[c], m)

Taken(c) ==
    /\ live'[c] = live[c]
    /\ out[c] = NoMsg /\ send[c] # <<>>
    /\ out'[c] = Head(send[c]) /\ send'[c] = Tail(send[c])

Written(c) ==
    /\ \A kind \in Kind :
         live'[c][kind] = IF out[c].type = kind THEN Append(live[c][kind], out[c].id) ELSE live[c][kind]
    /\ out'[c] = NoMsg /\ send'[c] = send[c]

Ended(c) ==
    /\ live'[c] = [kind \in Kind |-> <<>>]
    /\ out'[c] = NoMsg /\ send'[c] = send[c]

\* No message that was cached is queued, and none is lost.
Going(c) ==
    \/ Kept(c)
    \/ \E m \in Message : m.type \notin Kind /\ Added(c, m)
    \/ Taken(c)
    \/ Written(c)

Flow(c) == Going(c) \/ Ended(c)

LEMMA PipeType ==
  ASSUME TypeOK, NEW c \in Client
  PROVE  /\ \A kind \in Kind : live[c][kind] \in Seq(Nat)
         /\ out[c] \in Message /\ send[c] \in Seq(Message)
  BY DEF TypeOK, HubType, ClientType

LEMMA NoMsgType == NoMsg.type \notin Kind
  BY DEF NoMsg, Msg, Kind

\* The elements of a sequence that grows at its end.
LEMMA RangeAppend ==
  ASSUME NEW T, NEW s \in Seq(T), NEW x \in T
  PROVE  Range(Append(s, x)) = Range(s) \cup {x}
<1>1. /\ DOMAIN Append(s, x) = DOMAIN s \cup {Len(s) + 1}
      /\ \A i \in DOMAIN s : Append(s, x)[i] = s[i]
      /\ Append(s, x)[Len(s) + 1] = x
  OBVIOUS
<1> QED
  BY <1>1 DEF Range

\* The elements of a sequence are its first one and those of the rest.
LEMMA RangeHeadTail ==
  ASSUME NEW T, NEW s \in Seq(T), s # <<>>
  PROVE  Range(s) = {Head(s)} \cup Range(Tail(s))
<1>1. /\ Len(s) \in Nat \ {0} /\ DOMAIN s = 1..Len(s)
      /\ DOMAIN Tail(s) = 1..(Len(s) - 1)
      /\ Head(s) = s[1]
      /\ \A i \in 1..(Len(s) - 1) : Tail(s)[i] = s[i + 1]
  OBVIOUS
<1>2. \A i \in 1..Len(s) : i = 1 \/ (i - 1 \in 1..(Len(s) - 1) /\ s[i] = Tail(s)[i - 1])
  BY <1>1
<1>3. \A i \in 1..Len(s) : s[i] = Head(s) \/ \E j \in DOMAIN Tail(s) : s[i] = Tail(s)[j]
  <2> SUFFICES ASSUME NEW i \in 1..Len(s) PROVE s[i] = Head(s) \/ \E j \in DOMAIN Tail(s) : s[i] = Tail(s)[j]
    OBVIOUS
  <2>1. CASE i = 1
    BY <1>1, <2>1
  <2>2. CASE i # 1
    BY <1>1, <1>2, <2>2
  <2> QED
    BY <2>1, <2>2
<1>4. \A i \in 1..(Len(s) - 1) : i + 1 \in 1..Len(s)
  BY <1>1
<1>5. {Head(s)} \cup Range(Tail(s)) \subseteq Range(s)
  BY <1>1, <1>4 DEF Range
<1> QED
  BY <1>1, <1>3, <1>5 DEF Range

\* Queueing a message adds it to what is on its way.
LEMMA AddedSeen ==
  ASSUME TypeOK, NEW c \in Client, NEW kind \in Kind, NEW m \in Message, Added(c, m)
  PROVE  /\ InFlight(c, kind)' = IF m.type = kind THEN InFlight(c, kind) \cup {m.id} ELSE InFlight(c, kind)
         /\ Seen(c, kind)' = IF m.type = kind THEN Seen(c, kind) \cup {m.id} ELSE Seen(c, kind)
<1>1. Range(send'[c]) = Range(send[c]) \cup {m}
  BY PipeType, RangeAppend DEF Added
<1>2. InFlight(c, kind)' = IF m.type = kind THEN InFlight(c, kind) \cup {m.id} ELSE InFlight(c, kind)
  BY <1>1 DEF InFlight, Added
<1> QED
  BY <1>2 DEF Seen, Added

\* No other step adds any, and only the end of the writer loses some.
LEMMA FlowSeen ==
  ASSUME TypeOK, NEW c \in Client, NEW kind \in Kind, Flow(c)
  PROVE  /\ Seen(c, kind)' \subseteq Seen(c, kind)
         /\ Going(c) => Seen(c, kind)' = Seen(c, kind)
<1>1. ASSUME Kept(c) PROVE Seen(c, kind)' = Seen(c, kind)
  BY <1>1 DEF Kept, Seen, InFlight
<1>2. ASSUME NEW m \in Message, m.type \notin Kind, Added(c, m)
      PROVE  Seen(c, kind)' = Seen(c, kind)
  BY <1>2, AddedSeen
<1>3. ASSUME Taken(c) PROVE Seen(c, kind)' = Seen(c, kind)
  <2>1. Range(send[c]) = {out'[c]} \cup Range(send'[c])
    BY <1>3, PipeType, RangeHeadTail DEF Taken
  <2>2. InFlight(c, kind)' = InFlight(c, kind)
    BY <1>3, <2>1, NoMsgType DEF Taken, InFlight
  <2> QED
    BY <1>3, <2>2 DEF Taken, Seen
<1>4. ASSUME Written(c) PROVE Seen(c, kind)' = Seen(c, kind)
  <2>1. out[c].id \in Nat /\ live[c][kind] \in Seq(Nat)
    BY PipeType DEF Message
  <2>2. Range(live'[c][kind]) = IF out[c].type = kind THEN Range(live[c][kind]) \cup {out[c].id}
                                ELSE Range(live[c][kind])
    <3>1. Range(Append(live[c][kind], out[c].id)) = Range(live[c][kind]) \cup {out[c].id}
      BY <2>1, RangeAppend
    <3>2. live'[c][kind] = IF out[c].type = kind THEN Append(live[c][kind], out[c].id) ELSE live[c][kind]
      BY <1>4 DEF Written
    <3> QED
      BY <3>1, <3>2
  <2>3. InFlight(c, kind) = InFlight(c, kind)' \cup (IF out[c].type = kind THEN {out[c].id} ELSE {})
    BY <1>4, NoMsgType DEF Written, InFlight
  <2> QED
    BY <2>2, <2>3 DEF Seen
<1>5. ASSUME Ended(c) PROVE Seen(c, kind)' \subseteq Seen(c, kind)
  <2>1. Range(live'[c][kind]) = {}
    BY <1>5 DEF Ended, Range
  <2>2. InFlight(c, kind)' \subseteq InFlight(c, kind)
    BY <1>5, NoMsgType DEF Ended, InFlight
  <2> QED
    BY <1>5, <2>1, <2>2 DEF Seen
<1> QED
  BY <1>1, <1>2, <1>3, <1>4, <1>5 DEF Flow, Going

\* A message newer than all that are on their way keeps the order.
LEMMA AddedOrdered ==
  ASSUME TypeOK, NEW c \in Client, NEW kind \in Kind, Ordered(c, kind),
         NEW m \in Message, Added(c, m),
         m.type = kind => \A i \in Seen(c, kind) : i < m.id
  PROVE  Ordered(c, kind)'
<1> DEFINE n == Len(send[c])
<1>1. /\ n \in Nat /\ DOMAIN send[c] = 1..n /\ DOMAIN send'[c] = 1..(n + 1)
      /\ send'[c][n + 1] = m
      /\ \A i \in 1..n : send'[c][i] = send[c][i]
      /\ live'[c] = live[c] /\ out'[c] = out[c]
  BY PipeType DEF Added
<1>2. \A i \in 1..n : send[c][i].type = kind => send[c][i].id \in Seen(c, kind)
  BY <1>1 DEF Seen, InFlight, Range
<1>3. out[c].type = kind => out[c].id \in Seen(c, kind)
  BY DEF Seen, InFlight
<1>4. \A i \in Range(live'[c][kind]), j \in InFlight(c, kind)' : i < j
  <2>1. InFlight(c, kind)' = IF m.type = kind THEN InFlight(c, kind) \cup {m.id} ELSE InFlight(c, kind)
    BY AddedSeen
  <2> QED
    BY <1>1, <2>1 DEF Ordered, Seen
<1>5. ASSUME NEW i \in 1..(n + 1), send'[c][i].type = kind, out[c].type = kind
      PROVE  out[c].id < send'[c][i].id
  <2>1. CASE i \in 1..n
    BY <1>1, <1>5, <2>1 DEF Ordered
  <2>2. CASE i = n + 1
    BY <1>1, <1>3, <1>5, <2>2
  <2> QED
    BY <1>1, <2>1, <2>2
<1>6. ASSUME NEW i \in 1..(n + 1), NEW j \in 1..(n + 1), i < j,
             send'[c][i].type = kind, send'[c][j].type = kind
      PROVE  send'[c][i].id < send'[c][j].id
  <2>1. i \in 1..n
    BY <1>1, <1>6
  <2>2. CASE j \in 1..n
    BY <1>1, <1>6, <2>1, <2>2 DEF Ordered
  <2>3. CASE j = n + 1
    BY <1>1, <1>2, <1>6, <2>1, <2>3
  <2> QED
    BY <1>1, <2>2, <2>3
<1> QED
  BY <1>1, <1>4, <1>5, <1>6 DEF Ordered

\* The order survives any other step.
LEMMA FlowOrdered ==
  ASSUME TypeOK, NEW c \in Client, NEW kind \in Kind, Ordered(c, kind), Flow(c)
  PROVE  Ordered(c, kind)'
<1>1. CASE Kept(c)
  BY <1>1 DEF Kept, Ordered, InFlight
<1>2. ASSUME NEW m \in Message, m.type \notin Kind, Added(c, m)
      PROVE  Ordered(c, kind)'
  BY <1>2, AddedOrdered
<1>3. CASE Taken(c)
  <2> DEFINE n == Len(send[c])
  <2>1. /\ n \in Nat \ {0} /\ DOMAIN send[c] = 1..n /\ DOMAIN send'[c] = 1..(n - 1)
        /\ out'[c] = send[c][1]
        /\ \A i \in 1..(n - 1) : send'[c][i] = send[c][i + 1]
        /\ live'[c] = live[c]
    BY <1>3, PipeType DEF Taken
  <2>2. \A i \in 1..(n - 1) : i + 1 \in 1..n /\ 1 < i + 1 /\ 1 \in 1..n
    BY <2>1
  <2>3. \A i, j \in 1..(n - 1) : i < j => i + 1 < j + 1
    BY <2>1
  <2>4. InFlight(c, kind)' = InFlight(c, kind)
    <3>1. Range(send[c]) = {out'[c]} \cup Range(send'[c])
      BY <1>3, PipeType, RangeHeadTail DEF Taken
    <3> QED
      BY <1>3, <3>1, NoMsgType DEF Taken, InFlight
  <2>5. \A i \in 1..(n - 1) :
          send'[c][i].type = kind =>
            /\ out'[c].type = kind => out'[c].id < send'[c][i].id
            /\ \A j \in 1..(n - 1) : i < j /\ send'[c][j].type = kind => send'[c][i].id < send'[c][j].id
    <3>1. \A i, j \in 1..n : i < j /\ send[c][i].type = kind /\ send[c][j].type = kind
             => send[c][i].id < send[c][j].id
      BY <2>1 DEF Ordered
    <3> SUFFICES ASSUME NEW i \in 1..(n - 1), send'[c][i].type = kind
                 PROVE  /\ out'[c].type = kind => out'[c].id < send'[c][i].id
                        /\ \A j \in 1..(n - 1) : i < j /\ send'[c][j].type = kind
                                                   => send'[c][i].id < send'[c][j].id
      OBVIOUS
    <3>2. send'[c][i] = send[c][i + 1] /\ i + 1 \in 1..n /\ 1 \in 1..n /\ 1 < i + 1
      BY <2>1, <2>2
    <3>3. out'[c].type = kind => out'[c].id < send'[c][i].id
      BY <2>1, <3>1, <3>2
    <3>4. ASSUME NEW j \in 1..(n - 1), i < j, send'[c][j].type = kind
          PROVE  send'[c][i].id < send'[c][j].id
      <4>1. send'[c][j] = send[c][j + 1] /\ j + 1 \in 1..n /\ i + 1 < j + 1
        BY <2>1, <2>2, <2>3, <3>4
      <4> QED
        BY <3>1, <3>2, <3>4, <4>1
    <3> QED
      BY <3>3, <3>4
  <2> QED
    BY <2>1, <2>4, <2>5 DEF Ordered
<1>4. CASE Written(c)
  <2> DEFINE s == live[c][kind]
             n == Len(live[c][kind])
  <2>1. out[c].id \in Nat /\ s \in Seq(Nat)
    BY PipeType DEF Message
  <2>2. \A i \in DOMAIN send[c] : out[c].type = kind /\ send[c][i].type = kind => out[c].id < send[c][i].id
    BY DEF Ordered
  <2>3. InFlight(c, kind)' \subseteq InFlight(c, kind)
    BY <1>4, NoMsgType DEF Written, InFlight
  <2>4. CASE out[c].type # kind
    <3>1. live'[c][kind] = live[c][kind] /\ send'[c] = send[c] /\ out'[c].type # kind
      BY <1>4, <2>4, NoMsgType DEF Written
    <3> QED
      BY <2>3, <3>1 DEF Ordered
  <2>5. CASE out[c].type = kind
    <3>1. live'[c][kind] = Append(s, out[c].id) /\ send'[c] = send[c] /\ out'[c].type # kind
      BY <1>4, <2>5, NoMsgType DEF Written
    <3>2. /\ n \in Nat /\ DOMAIN s = 1..n /\ DOMAIN live'[c][kind] = 1..(n + 1)
          /\ live'[c][kind][n + 1] = out[c].id
          /\ \A i \in 1..n : live'[c][kind][i] = s[i]
      BY <2>1, <3>1
    <3>3. \A i \in Range(s) : i < out[c].id
      BY <2>5 DEF Ordered, InFlight
    <3>4. \A i \in 1..n : s[i] < out[c].id
      BY <3>2, <3>3 DEF Range
    <3>5. ASSUME NEW i \in 1..(n + 1), NEW j \in 1..(n + 1), i < j
          PROVE  live'[c][kind][i] < live'[c][kind][j]
      <4>1. i \in 1..n
        BY <3>2, <3>5
      <4>2. CASE j \in 1..n
        BY <3>2, <3>5, <4>1, <4>2 DEF Ordered
      <4>3. CASE j = n + 1
        BY <3>2, <3>4, <4>1, <4>3
      <4> QED
        BY <3>2, <4>2, <4>3
    <3>6. Range(live'[c][kind]) = Range(s) \cup {out[c].id}
      BY <2>1, <3>1, RangeAppend, SMTT(30)
    <3>7. \A j \in InFlight(c, kind)' : out[c].id < j
      BY <2>2, <2>5, <3>1 DEF InFlight, Range
    <3>8. \A i \in Range(live'[c][kind]), j \in InFlight(c, kind)' : i < j
      BY <2>3, <3>6, <3>7 DEF Ordered
    <3> QED
      BY <3>1, <3>2, <3>5, <3>8 DEF Ordered
  <2> QED
    BY <2>4, <2>5
<1>5. CASE Ended(c)
  <2>1. live'[c][kind] = <<>> /\ Range(live'[c][kind]) = {}
    BY <1>5 DEF Ended, Range
  <2>2. out'[c].type # kind /\ send'[c] = send[c]
    BY <1>5, NoMsgType DEF Ended
  <2> QED
    BY <2>1, <2>2 DEF Ordered
<1> QED
  BY <1>1, <1>2, <1>3, <1>4, <1>5 DEF Flow, Going

-----------------------------------------------------------------------------
\* The snapshots.

\* A finite set of numbers has a largest one.
LEMMA LargestExists ==
  ASSUME NEW S \in SUBSET Nat, IsFiniteSet(S), S # {}
  PROVE  \E m \in S : \A j \in S : j <= m
<1> DEFINE above(i) == {j \in S : j > i}
           T == {above(i) : i \in S}
<1>1. FiniteSubsetsOf(S) = SUBSET S
  BY FS_FiniteSubsetsOfFinite
<1>2. IsWellFoundedOn(StrictSubsetOrdering(S), SUBSET S)
  BY <1>1, FS_StrictSubsetOrderingWellFounded
<1>3. T \subseteq SUBSET S /\ T # {}
  OBVIOUS
<1>4. PICK x \in T : \A y \in T : <<y, x>> \notin StrictSubsetOrdering(S)
  BY <1>2, <1>3, WFMin
<1>5. PICK m \in S : x = above(m)
  BY <1>4
<1>6. \A j \in S : j <= m
  <2> SUFFICES ASSUME NEW j \in S, j > m PROVE FALSE
    OBVIOUS
  <2>1. above(j) \subseteq above(m) /\ j \in above(m) /\ j \notin above(j)
    <3>1. \A k \in S : k > j => k > m
      OBVIOUS
    <3>2. ~(j > j)
      OBVIOUS
    <3> QED
      BY <3>1, <3>2
  <2>2. above(j) \in SUBSET S /\ above(m) \in SUBSET S /\ above(j) # above(m)
    BY <2>1
  <2>3. <<above(j), above(m)>> \in StrictSubsetOrdering(S)
    BY <2>1, <2>2 DEF StrictSubsetOrdering
  <2> QED
    BY <1>4, <1>5, <2>3
<1> QED
  BY <1>6

\* The last RecentMax of a set: whatever is left out is older than all of them,
\* and not all are left out.
LEMMA LastAreNewest ==
  ASSUME NEW n \in Nat, NEW S \in SUBSET (1..n), NEW i \in S
  PROVE  i \in Last(S) \/ (Last(S) # {} /\ \A j \in Last(S) : i < j)
<1> DEFINE above(k) == {j \in S : j > k}
<1>1. IsFiniteSet(1..n)
  BY FS_Interval
<1>2. IsFiniteSet(S) /\ S \in SUBSET Nat
  <2>1. 1..n \subseteq Nat
    OBVIOUS
  <2> QED
    BY <1>1, <2>1, FS_Subset
<1>3. \A k \in S : IsFiniteSet(above(k)) /\ Cardinality(above(k)) \in Nat
  <2> SUFFICES ASSUME NEW k \in S PROVE IsFiniteSet(above(k)) /\ Cardinality(above(k)) \in Nat
    OBVIOUS
  <2>1. above(k) \in SUBSET S
    OBVIOUS
  <2> QED
    BY <1>2, <2>1, FS_Subset, FS_CardinalityType
<1>4. Last(S) # {}
  <2>1. PICK m \in S : \A j \in S : j <= m
    BY <1>2, LargestExists
  <2>2. above(m) = {}
    <3>1. \A j \in S : ~(j > m)
      BY <1>2, <2>1
    <3> QED
      BY <3>1
  <2>3. Cardinality(above(m)) < RecentMax
    BY <2>2, FS_EmptySet, HubConstants
  <2> QED
    BY <2>3 DEF Last
<1>5. ASSUME i \notin Last(S), NEW j \in Last(S) PROVE i < j
  <2>1. j \in S /\ Cardinality(above(j)) < RecentMax /\ ~(Cardinality(above(i)) < RecentMax)
    BY <1>5 DEF Last
  <2> SUFFICES ASSUME ~(i < j) PROVE FALSE
    OBVIOUS
  <2>2. above(i) \in SUBSET above(j)
    <3>1. \A k \in S : k > i => k > j
      BY <1>2, <2>1
    <3> QED
      BY <3>1
  <2>3. Cardinality(above(i)) <= Cardinality(above(j))
    BY <1>3, <2>1, <2>2, FS_Subset
  <2> QED
    BY <1>3, <2>1, <2>3, HubConstants
<1> QED
  BY <1>4, <1>5

\* A snapshot that is taken now serves every message there is.
LEMMA SnapshotServes ==
  ASSUME TypeOK, NEW c \in Client, NEW kind \in Kind, NEW i \in DOMAIN log[kind],
         NEW R, R = Recent(kind, UserOf[c])
  PROVE  \/ i \in R
         \/ kind = "private" /\ UserOf[c] \notin log[kind][i]
         \/ R # {} /\ \A j \in R : i < j
<1> DEFINE S == {j \in DOMAIN log[kind] : kind = "private" => UserOf[c] \in log[kind][j]}
<1>1. log[kind] \in Seq(SUBSET User)
  BY DEF TypeOK, HubType
<1>2. Len(log[kind]) \in Nat /\ S \in SUBSET (1..Len(log[kind]))
  BY <1>1
<1>3. R = Last(S)
  BY DEF Recent
<1>4. CASE i \in S
  BY <1>2, <1>3, <1>4, LastAreNewest
<1>5. CASE i \notin S
  BY <1>5
<1> QED
  BY <1>4, <1>5

-----------------------------------------------------------------------------
\* Steps that leave the map, the log and the hub's walk alone.

\* What c's snapshot of a kind brought, or was meant to, stays.
SnapKept(c, kind) == snap'[c][kind] = snap[c][kind] /\ skipped'[c][kind] = skipped[c][kind]

\* Such a step does nothing to c that matters here,
Still(c) ==
    /\ Kept(c)
    /\ walk'[c].msg = walk[c].msg
    /\ hpc'[c] = hpc[c] /\ wpc'[c] = wpc[c] /\ pend'[c] = pend[c]
    /\ snap'[c] = snap[c] /\ skipped'[c] = skipped[c]

\* or only what keeps the invariant.
Harmless(c) ==
    /\ Flow(c)
    /\ walk'[c].msg.type \notin Kind /\ pend'[c].type \notin Kind
    /\ hpc'[c] \in {"idle", "announce"} => hpc[c] \in {"idle", "announce"}
    /\ hpc'[c] # "started" => wpc'[c] = "off"
    /\ wpc'[c] # "write" => out'[c] = NoMsg
    /\ wpc'[c] # "done" => wpc[c] # "done" /\ Going(c)
    /\ \A kind \in Kind : Joined(c)' =>
         \/ Joined(c) /\ SnapKept(c, kind)
         \/ snap'[c][kind] = Recent(kind, UserOf[c])

LEMMA StillHarmless ==
  ASSUME Delivery, NEW c \in Client, Still(c)
  PROVE  Harmless(c)
<1>1. Going(c) /\ Flow(c)
  BY DEF Still, Going, Flow
<1>2. \A kind \in Kind : Joined(c)' => Joined(c) /\ SnapKept(c, kind)
  BY DEF Still, Joined, SnapKept
<1> QED
  BY <1>1, <1>2 DEF Still, Harmless, Kept, Delivery, Walks, Joining

LEMMA HarmlessDelivery ==
  ASSUME TypeOK, Delivery, UNCHANGED <<conns, log, unsent>>, walk'[HubG] = walk[HubG],
         \A c \in Client : Harmless(c)
  PROVE  Delivery'
<1>1. \A c \in Client : \A kind \in Kind :
        /\ Seen(c, kind)' \subseteq Seen(c, kind)
        /\ Going(c) => Seen(c, kind)' = Seen(c, kind)
  BY FlowSeen DEF Harmless
<1>2. Walks'
  BY DEF Delivery, Walks, Harmless, Key, Keys, Recipient
<1>3. Joining'
  BY <1>1 DEF Delivery, Joining, Harmless
<1>4. ASSUME NEW c \in Client, NEW kind \in Kind PROVE Older(c, kind)' /\ Ordered(c, kind)'
  <2>1. Older(c, kind) /\ Ordered(c, kind)
    BY DEF Delivery, InOrder
  <2>2. Due(c)' <=> Due(c)
    BY DEF Due, Key
  <2>3. Older(c, kind)'
    BY <1>1, <2>1, <2>2 DEF Older
  <2>4. Ordered(c, kind)'
    BY <2>1, FlowOrdered DEF Harmless
  <2> QED
    BY <2>3, <2>4
<1>5. ASSUME NEW c \in Client, NEW kind \in Kind,
             conns'[Key(c)] = c, wpc'[c] # "done", Joined(c)',
             NEW i \in DOMAIN log'[kind]
      PROVE  Served(c, kind, i)'
  <2>1. Seen(c, kind)' = Seen(c, kind) /\ wpc[c] # "done"
    BY <1>1, <1>5 DEF Harmless
  <2>2. Underway(c, kind)' = Underway(c, kind)
    BY DEF Underway, Key
  <2>3. CASE Joined(c) /\ SnapKept(c, kind)
    <3>1. Served(c, kind, i)
      BY <1>5, <2>1, <2>3 DEF Delivery, Complete
    <3> QED
      BY <2>1, <2>2, <2>3, <3>1 DEF Served, SnapKept
  <2>4. CASE snap'[c][kind] = Recent(kind, UserOf[c])
    BY <1>5, <2>4, SnapshotServes DEF Served
  <2> QED
    BY <1>5, <2>3, <2>4 DEF Harmless
<1>6. Complete'
  BY <1>5 DEF Complete, Key
<1> QED
  BY <1>2, <1>3, <1>4, <1>6 DEF Delivery, InOrder

\* What one client's own goroutines do without the map, harms nobody.
LEMMA OneClient ==
  ASSUME TypeOK, Delivery, UNCHANGED <<conns, log, unsent>>, walk'[HubG] = walk[HubG],
         NEW c \in Client, Harmless(c), \A d \in Client \ {c} : Still(d)
  PROVE  Delivery'
  BY StillHarmless, HarmlessDelivery

\* The peers, and the readers apart from their walks and from the map.
LEMMA ReaderDelivery ==
  ASSUME TypeOK, Delivery, NEW c \in Client,
         \/ PeerLost(c) \/ ReadFrame(c)
         \/ ReadError(c) \/ UnregisterMiss(c) \/ UnregisterHit(c)
         \/ CloseSendChannel(c) \/ ReaderWalkEnd(c)
  PROVE  Delivery'
<1>1. UNCHANGED <<conns, log, unsent, send, live, out, hpc, wpc, pend, snap, skipped>>
  BY DEF PeerLost, ReadFrame, ReadChat, ReadPrivate, ReadOther, Frame, ReadError, UnregisterMiss,
         UnregisterHit, CloseSendChannel, ReaderWalkEnd, hubVars, handlerVars
<1>2. \A p \in Proc \ {c} : walk'[p] = walk[p]
  BY DEF PeerLost, ReadFrame, ReadChat, ReadPrivate, ReadOther, Frame, ReadError, UnregisterMiss,
         UnregisterHit, CloseSendChannel, ReaderWalkEnd, hubVars, handlerVars, TypeOK, HubType
<1>3. walk'[c].msg.type \notin Kind
  <2>1. walk[c].msg.type \notin Kind
    BY DEF Delivery, Walks
  <2> QED
    BY <2>1 DEF PeerLost, ReadFrame, ReadChat, ReadPrivate, ReadOther, Frame, ReadError,
                UnregisterMiss, UnregisterHit, CloseSendChannel, ReaderWalkEnd, hubVars, handlerVars,
                TypeOK, HubType, Proc, NewWalk, Msg, NoWalk, NoMsg, Kind
<1>4. \A d \in Client \ {c} : Still(d)
  BY <1>1, <1>2 DEF Still, Kept, Proc
<1>5. Harmless(c)
  <2>1. Going(c) /\ Flow(c)
    BY <1>1 DEF Going, Flow, Kept
  <2>2. \A kind \in Kind : Joined(c)' => Joined(c) /\ SnapKept(c, kind)
    BY <1>1 DEF Joined, SnapKept
  <2> QED
    BY <1>1, <1>3, <2>1, <2>2 DEF Harmless, Delivery, Walks, Joining
<1> QED
  BY <1>1, <1>2, <1>4, <1>5, OneClient, HubConstants DEF Proc

\* A walk picks a registered client that may get the message.
LEMMA PickFacts ==
  ASSUME TypeOK, NEW p \in Proc, WalkPick(p)
  PROVE  /\ UNCHANGED <<conns, log, unsent, send, live, out, hpc, wpc, pend, snap, skipped>>
         /\ walk[p].to = NoClient
         /\ \A q \in Proc \ {p} : walk'[q] = walk[q]
         /\ \E k \in Keys :
              /\ k \in walk[p].todo \cup walk[p].maybe
              /\ conns[k] \in Client
              /\ Recipient(walk[p].msg, conns[k])
              /\ walk'[p].msg = walk[p].msg
              /\ walk'[p].todo = walk[p].todo \ {k}
              /\ walk'[p].maybe = walk[p].maybe \ {k}
              /\ walk'[p].to = conns[k]
<1>1. walk[p] \in Walk
  BY DEF TypeOK, HubType
<1>2. PICK k \in walk[p].todo \cup walk[p].maybe :
             /\ conns[k] # NoClient
             /\ Recipient(walk[p].msg, conns[k])
             /\ walk' = [walk EXCEPT ![p] = [walk[p] EXCEPT !.todo = @ \ {k},
                                                            !.maybe = @ \ {k},
                                                            !.to = conns[k]]]
  BY DEF WalkPick
<1>3. k \in Keys /\ conns[k] \in Client
  <2>1. k \in Keys
    BY <1>1 DEF Walk
  <2> QED
    BY <1>2, <2>1 DEF TypeOK, HubType
<1>4. /\ walk'[p] = [walk[p] EXCEPT !.todo = @ \ {k}, !.maybe = @ \ {k}, !.to = conns[k]]
      /\ \A q \in Proc \ {p} : walk'[q] = walk[q]
  BY <1>2 DEF TypeOK, HubType
<1>5. /\ walk'[p].msg = walk[p].msg
      /\ walk'[p].todo = walk[p].todo \ {k}
      /\ walk'[p].maybe = walk[p].maybe \ {k}
      /\ walk'[p].to = conns[k]
  BY <1>1, <1>4 DEF Walk
<1>6. UNCHANGED <<conns, log, unsent, send, live, out, hpc, wpc, pend, snap, skipped>> /\ walk[p].to = NoClient
  BY DEF WalkPick, clientVars, handlerVars
<1> QED
  BY <1>2, <1>3, <1>4, <1>5, <1>6

\* Then it queues the message for that client.
LEMMA SendFacts ==
  ASSUME TypeOK, NEW p \in Proc, WalkSend(p)
  PROVE  /\ UNCHANGED <<conns, log, unsent, live, out, hpc, wpc, pend, snap, skipped>>
         /\ walk[p].to \in Client /\ walk[p].msg \in Message
         /\ \A q \in Proc \ {p} : walk'[q] = walk[q]
         /\ walk'[p].msg = walk[p].msg
         /\ walk'[p].todo = walk[p].todo /\ walk'[p].maybe = walk[p].maybe
         /\ walk'[p].to = NoClient
         /\ Added(walk[p].to, walk[p].msg)
         /\ \A d \in Client \ {walk[p].to} : Kept(d)
<1>1. walk[p] \in Walk /\ UNCHANGED <<conns, log, unsent, live, out, hpc, wpc, pend, snap, skipped>>
  BY DEF TypeOK, HubType, WalkSend, clientVars, handlerVars
<1>2. walk[p].to \in Client /\ walk[p].msg \in Message
  BY <1>1 DEF Walk, WalkSend
<1>3. send' = [send EXCEPT ![walk[p].to] = Append(send[walk[p].to], walk[p].msg)]
  BY DEF WalkSend, Enqueue
<1>4. Added(walk[p].to, walk[p].msg) /\ \A d \in Client \ {walk[p].to} : Kept(d)
  BY <1>1, <1>2, <1>3 DEF Added, Kept, TypeOK, HubType
<1>5. walk'[p] = [walk[p] EXCEPT !.to = NoClient] /\ \A q \in Proc \ {p} : walk'[q] = walk[q]
  BY DEF WalkSend, TypeOK, HubType
<1>6. /\ walk'[p].msg = walk[p].msg
      /\ walk'[p].todo = walk[p].todo /\ walk'[p].maybe = walk[p].maybe
      /\ walk'[p].to = NoClient
  BY <1>1, <1>5 DEF Walk
<1> QED
  BY <1>1, <1>2, <1>4, <1>5, <1>6

\* A reader's walk, which tells of a user that is offline.
LEMMA ReaderWalkDelivery ==
  ASSUME TypeOK, Delivery, NEW c \in Client, WalkPick(c) \/ WalkSend(c)
  PROVE  Delivery'
<1>1. c \in Proc /\ HubG # c /\ HubG \in Proc /\ \A d \in Client : d \in Proc
  BY HubConstants DEF Proc
<1>2. /\ UNCHANGED <<conns, log, unsent, live, out, hpc, wpc, pend, snap, skipped>>
      /\ walk'[c].msg = walk[c].msg
      /\ \A q \in Proc \ {c} : walk'[q] = walk[q]
      /\ \A d \in Client : Kept(d) \/ (Added(d, walk[c].msg) /\ walk[c].msg \in Message)
  <2>1. CASE WalkPick(c)
    BY <1>1, <2>1, PickFacts DEF Kept
  <2>2. CASE WalkSend(c)
    BY <1>1, <2>2, SendFacts
  <2> QED
    BY <2>1, <2>2
<1>3. walk[c].msg.type \notin Kind
  BY DEF Delivery, Walks
<1>4. \A d \in Client : Going(d) /\ Flow(d)
  BY <1>2, <1>3 DEF Going, Flow
<1>5. \A d \in Client : \A kind \in Kind :
        Joined(d)' => Joined(d) /\ SnapKept(d, kind)
  BY <1>2 DEF Joined, SnapKept
<1>6. \A d \in Client : walk'[d].msg.type \notin Kind
  BY <1>1, <1>2 DEF Delivery, Walks
<1>7. \A d \in Client : Harmless(d)
  BY <1>2, <1>4, <1>5, <1>6 DEF Harmless, Delivery, Walks, Joining
<1> QED
  BY <1>1, <1>2, <1>7, HarmlessDelivery

\* The writers.
LEMMA WriterDelivery ==
  ASSUME TypeOK, Delivery, NEW c \in Client, WriterStep(c)
  PROVE  Delivery'
<1>1. UNCHANGED <<conns, log, unsent, walk, hpc, pend, snap, skipped>>
  BY DEF WriterStep, TakeMessage, WriteOk, WriteError, RangeEnd, WriterReturns, hubVars, handlerVars
<1>2. \A d \in Client \ {c} : Still(d)
  BY <1>1 DEF WriterStep, TakeMessage, WriteOk, WriteError, RangeEnd, WriterReturns, hubVars,
              Still, Kept, TypeOK, HubType, ClientType
<1>3. wpc[c] \in {"range", "write"} /\ hpc'[c] = "started"
  BY <1>1 DEF WriterStep, TakeMessage, WriteOk, WriteError, RangeEnd, Delivery, Joining
<1>4. out[c] = NoMsg \/ wpc[c] = "write"
  BY DEF Delivery, Joining
<1>5. \/ Taken(c) /\ wpc'[c] = "write"
      \/ Written(c) /\ wpc'[c] = "range"
      \/ Ended(c) /\ wpc'[c] = "done"
  <2>1. CASE TakeMessage(c)
    BY <1>4, <2>1 DEF TakeMessage, Taken, TypeOK, HubType, ClientType
  <2>2. CASE WriteOk(c)
    <3>1. live[c] \in [Kind -> Seq(Nat)] /\ live \in [Client -> [Kind -> Seq(Nat)]]
      BY DEF TypeOK, ClientType
    <3>2. \A kind \in Kind :
            live'[c][kind] = IF out[c].type = kind THEN Append(live[c][kind], out[c].id) ELSE live[c][kind]
      BY <2>2, <3>1 DEF WriteOk
    <3> QED
      BY <2>2, <3>2 DEF WriteOk, Written, hubVars, TypeOK, ClientType
  <2>3. CASE WriteError(c) \/ RangeEnd(c)
    BY <1>4, <2>3 DEF WriteError, RangeEnd, WriterReturns, Ended, hubVars, TypeOK, ClientType
  <2> QED
    BY <2>1, <2>2, <2>3 DEF WriterStep
<1>6. \A kind \in Kind : Joined(c)' => Joined(c) /\ SnapKept(c, kind)
  BY <1>1 DEF Joined, SnapKept
<1>7. Harmless(c)
  BY <1>1, <1>3, <1>5, <1>6 DEF Harmless, Flow, Going, Taken, Written, Ended, Delivery, Walks
<1> QED
  BY <1>1, <1>2, <1>7, OneClient

\* The handler's steps without the map: it connects, takes the snapshots and
\* queues messages that were never cached.
LEMMA HandlerDelivery ==
  ASSUME TypeOK, Delivery, NEW c \in Client,
         \/ Connect(c) \/ InitFails(c)
         \/ ReadPrivateMessages(c) \/ WriteBulk(c) \/ GetConnectedUsers(c) \/ HandlerSend(c)
  PROVE  Delivery'
<1>1. UNCHANGED <<conns, log, unsent, walk, live, out>>
  BY DEF Connect, InitFails, ReadPrivateMessages, WriteBulk, GetConnectedUsers, HandlerSend,
         hubVars, clientVars
<1>2. \A d \in Client \ {c} : Still(d)
  <2>1. \A d \in Client \ {c} : send'[d] = send[d] /\ wpc'[d] = wpc[d]
    BY DEF Connect, InitFails, ReadPrivateMessages, WriteBulk, GetConnectedUsers, HandlerSend, Enqueue,
           hubVars, clientVars, TypeOK, HubType, ClientType
  <2>2. \A d \in Client \ {c} : hpc'[d] = hpc[d] /\ pend'[d] = pend[d]
    BY DEF Connect, InitFails, ReadPrivateMessages, WriteBulk, GetConnectedUsers, HandlerSend,
           TypeOK, HandlerType
  <2>3. \A d \in Client \ {c} : snap'[d] = snap[d] /\ skipped'[d] = skipped[d]
    BY DEF Connect, InitFails, ReadPrivateMessages, WriteBulk, GetConnectedUsers, HandlerSend,
           ReadRecent, TypeOK, HandlerType
  <2> QED
    BY <1>1, <2>1, <2>2, <2>3 DEF Still, Kept
<1>3. hpc[c] # "started" /\ wpc[c] = "off" /\ out[c] = NoMsg
  BY DEF Connect, InitFails, ReadPrivateMessages, WriteBulk, GetConnectedUsers, HandlerSend,
         Delivery, Joining
<1>4. pend[c] \in Message /\ pend[c].type \notin Kind
  BY DEF TypeOK, HandlerType, Delivery, Walks
<1>5. Going(c) /\ Flow(c)
  <2>1. Kept(c) \/ Added(c, pend[c])
    BY <1>1 DEF Connect, InitFails, ReadPrivateMessages, WriteBulk, GetConnectedUsers, HandlerSend, Enqueue,
                hubVars, TypeOK, HubType, Kept, Added
  <2> QED
    BY <1>4, <2>1 DEF Going, Flow
<1>6. walk'[c].msg.type \notin Kind
  BY <1>1 DEF Delivery, Walks
<1>7. pend'[c].type \notin Kind
  <2>1. \A w : Msg("bulk_private", 0, w).type \notin Kind /\ Msg("users", 0, w).type \notin Kind
    BY DEF Msg, Kind
  <2>2. \/ pend'[c] = pend[c] \/ pend'[c] = NoMsg
        \/ \E w : pend'[c] = Msg("bulk_private", 0, w) \/ pend'[c] = Msg("users", 0, w)
    BY DEF Connect, InitFails, ReadPrivateMessages, WriteBulk, GetConnectedUsers, HandlerSend,
           TypeOK, HandlerType
  <2> QED
    BY <1>4, <2>1, <2>2, NoMsgType
<1>8. /\ hpc'[c] \in {"idle", "announce"} => hpc[c] \in {"idle", "announce"}
      /\ hpc'[c] # "started" => wpc'[c] = "off"
      /\ wpc'[c] # "write" /\ wpc[c] # "done"
  BY <1>3 DEF Connect, InitFails, ReadPrivateMessages, WriteBulk, GetConnectedUsers, HandlerSend,
              clientVars, TypeOK, ClientType, HandlerType
<1>9. ASSUME NEW kind \in Kind, Joined(c)'
      PROVE  \/ Joined(c) /\ SnapKept(c, kind)
             \/ snap'[c][kind] = Recent(kind, UserOf[c])
  <2>1. /\ snap \in [Client -> [Kind -> SUBSET Nat]] /\ skipped \in [Client -> [Kind -> Nat]]
        /\ hpc \in [Client -> HandlerPc]
    BY DEF TypeOK, HandlerType
  <2>2. kind \in {"chat", "private"}
    BY DEF Kind
  <2>3. CASE Connect(c) \/ InitFails(c)
    BY <1>9, <2>1, <2>3 DEF Connect, InitFails, Joined, SnapKept
  <2>4. CASE ReadPrivateMessages(c)
    BY <2>1, <2>2, <2>4 DEF ReadPrivateMessages, ReadRecent, Joined, SnapKept, Kind
  <2>5. CASE WriteBulk(c)
    BY <2>1, <2>2, <2>5 DEF WriteBulk, ReadRecent, Joined, SnapKept, Kind
  <2>6. CASE GetConnectedUsers(c) \/ HandlerSend(c)
    BY <2>1, <2>6 DEF GetConnectedUsers, HandlerSend, Joined, SnapKept
  <2> QED
    BY <2>3, <2>4, <2>5, <2>6
<1>10. Harmless(c)
  BY <1>1, <1>3, <1>5, <1>6, <1>7, <1>8, <1>9 DEF Harmless
<1> QED
  BY <1>1, <1>2, <1>10, OneClient

-----------------------------------------------------------------------------
\* Steps that change the map, the log or the hub's walk.

\* The clients' side of such a step: nothing is on its way that was not before.
Quiet ==
    /\ UNCHANGED <<send, live, out, wpc, pend, snap>>
    /\ \A c \in Client : walk'[c].msg = walk[c].msg
    /\ \A c \in Client : Joined(c) => skipped'[c] = skipped[c]

LEMMA QuietFacts ==
  ASSUME TypeOK, Delivery, Quiet
  PROVE  /\ \A c \in Client, kind \in Kind :
              /\ Seen(c, kind)' = Seen(c, kind)
              /\ Ordered(c, kind)'
         /\ \A c \in Client : walk'[c].msg.type \notin Kind /\ pend'[c].type \notin Kind
<1>1. \A c \in Client, kind \in Kind : Ordered(c, kind)' <=> Ordered(c, kind)
  BY DEF Quiet, Ordered, InFlight
<1>2. \A c \in Client, kind \in Kind : Ordered(c, kind)
  BY DEF Delivery, InOrder
<1>3. \A c \in Client, kind \in Kind : Seen(c, kind)' = Seen(c, kind)
  BY DEF Quiet, Seen, InFlight
<1> QED
  BY <1>1, <1>2, <1>3 DEF Quiet, Delivery, Walks

\* A reader takes its client's key out of the map and of every walk.
LEMMA RemoveDelivery ==
  ASSUME TypeOK, Delivery, NEW a \in Client, UnregisterDelete(a)
  PROVE  Delivery'
<1> DEFINE k == Key(a)
<1>1. /\ UNCHANGED <<log, unsent, hpc, wpc>> /\ Quiet
      /\ walk'[HubG].msg = walk[HubG].msg /\ walk'[HubG].to = walk[HubG].to
      /\ walk'[HubG].todo = walk[HubG].todo \ {k}
      /\ walk'[HubG].maybe = walk[HubG].maybe \ {k}
  <2>1. \A p \in Proc : walk[p] \in Walk
    BY DEF TypeOK, HubType
  <2>2. \A p \in Proc : walk'[p] = [walk[p] EXCEPT !.todo = @ \ {k}, !.maybe = @ \ {k}]
    BY DEF UnregisterDelete, Remove
  <2>3. \A p \in Proc : /\ walk'[p].msg = walk[p].msg /\ walk'[p].to = walk[p].to
                        /\ walk'[p].todo = walk[p].todo \ {k}
                        /\ walk'[p].maybe = walk[p].maybe \ {k}
    BY <2>1, <2>2 DEF Walk
  <2>4. UNCHANGED <<log, unsent, hpc, wpc, send, live, out, pend, snap, skipped>>
    BY DEF UnregisterDelete, handlerVars
  <2> QED
    BY <2>3, <2>4 DEF Proc, Quiet
<1>2. \A j \in Keys : conns'[j] = IF j = k THEN NoClient ELSE conns[j]
  BY KeyType DEF UnregisterDelete, Remove, TypeOK, HubType
<1>3. \A c \in Client : Key(c) \in Keys /\ Key(c)' = Key(c) /\ c # NoClient
  BY KeyType, HubConstants DEF Key
<1>4. \A j \in Keys : conns'[j] # NoClient => conns'[j] = conns[j] /\ j # k
  BY <1>2
<1>5. \A c \in Client : conns'[Key(c)'] = c => conns[Key(c)] = c /\ Key(c) # k
  BY <1>3, <1>4
<1> HIDE DEF k
<1>6. Walks'
  <2>1. \A j \in Keys : conns'[j] # NoClient => Key(conns'[j]) = j
    BY <1>4 DEF Delivery, Walks, Key
  <2>2. \A c \in Client : walk'[HubG].to = c =>
          /\ Recipient(walk'[HubG].msg, c)
          /\ conns'[Key(c)'] = c => Key(c)' \notin walk'[HubG].todo \cup walk'[HubG].maybe
    BY <1>1, <1>3, <1>5 DEF Delivery, Walks
  <2> QED
    BY <1>1, <2>1, <2>2, QuietFacts DEF Delivery, Walks, Recipient, Keys, Key
<1>7. Joining'
  BY <1>1, QuietFacts DEF Delivery, Joining, Quiet
<1>8. InOrder'
  <2>1. \A c \in Client : Due(c)' => Due(c)
    BY <1>1, <1>3, <1>5 DEF Due
  <2> QED
    BY <1>1, <2>1, QuietFacts DEF Delivery, InOrder, Older
<1>9. Complete'
  <2>1. \A c \in Client, kind \in Kind : conns'[Key(c)'] = c => Underway(c, kind)' = Underway(c, kind)
    BY <1>1, <1>3, <1>5 DEF Underway
  <2>2. \A c \in Client, kind \in Kind : Joined(c)' <=> Joined(c)
    BY <1>1 DEF Joined
  <2> SUFFICES ASSUME NEW c \in Client, NEW kind \in Kind,
                      conns'[Key(c)'] = c, wpc'[c] # "done", Joined(c)', NEW i \in DOMAIN log'[kind]
               PROVE  Served(c, kind, i)'
    BY DEF Complete
  <2>3. Served(c, kind, i)
    BY <1>1, <1>5, <2>2 DEF Delivery, Complete
  <2> QED
    BY <1>1, <2>1, <2>2, <2>3, QuietFacts DEF Served, Quiet
<1> QED
  BY <1>6, <1>7, <1>8, <1>9 DEF Delivery

\* A handler registers its client, whose key every walk may still reach.
LEMMA InsertDelivery ==
  ASSUME TypeOK, Delivery, NEW a \in Client, RegisterClient(a)
  PROVE  Delivery'
<1> DEFINE k == Key(a)
<1>1. /\ UNCHANGED <<log, unsent, wpc>> /\ Quiet
      /\ walk'[HubG].msg = walk[HubG].msg /\ walk'[HubG].to = walk[HubG].to
      /\ walk'[HubG].todo = walk[HubG].todo
      /\ walk'[HubG].maybe \subseteq walk[HubG].maybe \cup {k}
  <2>1. \A p \in Proc : walk[p] \in Walk
    BY DEF TypeOK, HubType
  <2>2. \A p \in Proc : \/ walk'[p] = [walk[p] EXCEPT !.maybe = @ \cup {k}]
                        \/ walk'[p] = walk[p]
    BY DEF RegisterClient, Insert
  <2>3. \A p \in Proc : /\ walk'[p].msg = walk[p].msg /\ walk'[p].to = walk[p].to
                        /\ walk'[p].todo = walk[p].todo
                        /\ walk'[p].maybe \subseteq walk[p].maybe \cup {k}
    BY <2>1, <2>2 DEF Walk
  <2>4. UNCHANGED <<log, unsent, wpc, send, live, out, pend, snap>>
    BY DEF RegisterClient, clientVars
  <2>5. \A c \in Client : Joined(c) => skipped'[c] = skipped[c]
    BY DEF RegisterClient, Joined, TypeOK, HandlerType
  <2> QED
    BY <2>3, <2>4, <2>5 DEF Proc, Quiet
<1>2. \A j \in Keys : conns'[j] = IF j = k THEN a ELSE conns[j]
  BY KeyType DEF RegisterClient, Insert, TypeOK, HubType
<1>3. \A c \in Client : Key(c) \in Keys /\ Key(c)' = Key(c) /\ c # NoClient
  BY KeyType, HubConstants DEF Key
<1>4. \A c \in Client \ {a} : conns'[Key(c)'] = c => conns[Key(c)] = c /\ Key(c) # k
  BY <1>2, <1>3
<1>5. hpc[a] = "announce" /\ \A d \in Client : hpc'[d] = IF d = a THEN "private" ELSE hpc[d]
  BY DEF RegisterClient, TypeOK, HandlerType
<1>6. walk[HubG].to # a /\ \A kind \in Kind : Seen(a, kind) = {}
  BY <1>5 DEF Delivery, Joining
<1>7. Walks'
  <2>1. \A j \in Keys : conns'[j] # NoClient => Key(conns'[j]) = j
    BY <1>2 DEF Delivery, Walks, Key
  <2> HIDE DEF k
  <2>2. \A c \in Client : walk'[HubG].to = c =>
          /\ Recipient(walk'[HubG].msg, c)
          /\ conns'[Key(c)'] = c => Key(c)' \notin walk'[HubG].todo \cup walk'[HubG].maybe
    BY <1>1, <1>3, <1>4, <1>6 DEF Delivery, Walks
  <2> QED
    BY <1>1, <2>1, <2>2, QuietFacts DEF Delivery, Walks, Recipient, Keys, Key
<1> HIDE DEF k
<1>8. Joining'
  BY <1>1, <1>5, QuietFacts DEF Delivery, Joining, Quiet
<1>9. InOrder'
  <2>1. \A c \in Client \ {a} : Due(c)' => Due(c)
    BY <1>1, <1>3, <1>4 DEF Due
  <2>2. \A c \in Client, kind \in Kind : Older(c, kind)
    BY DEF Delivery, InOrder
  <2>3. \A c \in Client \ {a}, kind \in Kind : Older(c, kind)'
    BY <1>1, <2>1, <2>2, QuietFacts DEF Older
  <2>4. ASSUME NEW kind \in Kind PROVE Older(a, kind)'
    <3>1. Seen(a, kind)' = {}
      BY <1>1, <1>6, QuietFacts
    <3> QED
      BY <3>1 DEF Older
  <2>5. \A c \in Client, kind \in Kind : Older(c, kind)'
    BY <2>3, <2>4
  <2> QED
    BY <1>1, <2>5, QuietFacts DEF InOrder
<1>10. Complete'
  <2> SUFFICES ASSUME NEW c \in Client, NEW kind \in Kind,
                      conns'[Key(c)'] = c, wpc'[c] # "done", Joined(c)', NEW i \in DOMAIN log'[kind]
               PROVE  Served(c, kind, i)'
    BY DEF Complete
\* The newcomer is owed nothing that was cached before;
  <2>1. CASE c = a
    <3>1. skipped'[a][kind] = Len(log[kind]) /\ i \in 1..Len(log[kind])
      BY <1>1, <2>1 DEF RegisterClient, TypeOK, HubType, HandlerType
    <3> QED
      BY <2>1, <3>1 DEF Served
\* the others are owed what they were.
  <2>2. CASE c # a
    <3>1. Joined(c)
      BY <1>5, <2>2 DEF Joined
    <3>2. Served(c, kind, i)
      BY <1>1, <1>4, <2>2, <3>1 DEF Delivery, Complete
    <3>3. Underway(c, kind)' = Underway(c, kind)
      BY <1>1, <1>3 DEF Underway
    <3> QED
      BY <1>1, <3>1, <3>2, <3>3, QuietFacts DEF Served, Quiet
  <2> QED
    BY <2>1, <2>2
<1> QED
  BY <1>7, <1>8, <1>9, <1>10 DEF Delivery

\* The hub's walk picks a client that is registered under the key it reached.
LEMMA HubPickDelivery ==
  ASSUME TypeOK, Registration, Delivery, WalkPick(HubG)
  PROVE  Delivery'
<1>1. HubG \in Proc /\ \A c \in Client : c \in Proc \ {HubG}
  BY HubConstants DEF Proc
<1>2. /\ UNCHANGED <<conns, log, unsent, hpc, wpc>> /\ Quiet
      /\ walk[HubG].to = NoClient
  BY <1>1, PickFacts DEF Quiet
<1>3. PICK k \in Keys :
        /\ k \in walk[HubG].todo \cup walk[HubG].maybe
        /\ conns[k] \in Client
        /\ Recipient(walk[HubG].msg, conns[k])
        /\ walk'[HubG].msg = walk[HubG].msg
        /\ walk'[HubG].todo = walk[HubG].todo \ {k}
        /\ walk'[HubG].maybe = walk[HubG].maybe \ {k}
        /\ walk'[HubG].to = conns[k]
  BY <1>1, PickFacts
<1>4. \A c \in Client : Key(c) \in Keys /\ Key(c)' = Key(c) /\ c # NoClient
  BY KeyType, HubConstants DEF Key
<1>5. Key(conns[k]) = k
  BY <1>3, HubConstants DEF Delivery, Walks
<1>6. Walks'
  <2>1. \A j \in Keys : conns'[j] # NoClient => Key(conns'[j]) = j
    BY <1>2 DEF Delivery, Walks
  <2>2. \A c \in Client : walk'[HubG].to = c =>
          /\ Recipient(walk'[HubG].msg, c)
          /\ conns'[Key(c)'] = c => Key(c)' \notin walk'[HubG].todo \cup walk'[HubG].maybe
    BY <1>3, <1>4, <1>5
  <2>3. walk'[HubG].msg.type \in Kind =>
          /\ walk'[HubG].msg.id \in DOMAIN log'[walk'[HubG].msg.type]
          /\ log'[walk'[HubG].msg.type][walk'[HubG].msg.id] = walk'[HubG].msg.who
    BY <1>2, <1>3 DEF Delivery, Walks
  <2> QED
    BY <1>2, <2>1, <2>2, <2>3, QuietFacts DEF Walks, Recipient, Keys, Key
<1>7. Joining'
  <2>1. hpc[conns[k]] \notin {"idle", "announce"}
    BY <1>3, <1>5 DEF Registration
  <2>2. \A c \in Client : hpc'[c] \in {"idle", "announce"} => walk'[HubG].to # c
    BY <1>2, <1>3, <2>1
  <2> QED
    BY <1>2, <2>2, QuietFacts DEF Delivery, Joining, Quiet
<1>8. InOrder'
  <2>1. \A c \in Client : Due(c)' => Due(c)
    BY <1>2, <1>3, <1>4, <1>5 DEF Due
  <2>2. \A c \in Client, kind \in Kind : Older(c, kind)
    BY DEF Delivery, InOrder
  <2>3. \A c \in Client, kind \in Kind : Older(c, kind)'
    BY <1>2, <1>3, <2>1, <2>2, QuietFacts DEF Older
  <2> QED
    BY <1>2, <2>3, QuietFacts DEF InOrder
<1>9. Complete'
  <2> SUFFICES ASSUME NEW c \in Client, NEW kind \in Kind,
                      conns'[Key(c)'] = c, wpc'[c] # "done", Joined(c)', NEW i \in DOMAIN log'[kind]
               PROVE  Served(c, kind, i)'
    BY DEF Complete
  <2>1. conns[Key(c)] = c /\ Joined(c)
    BY <1>2, <1>4 DEF Joined
  <2>2. Served(c, kind, i)
    BY <1>2, <2>1 DEF Delivery, Complete
  <2>3. Underway(c, kind) \subseteq Underway(c, kind)'
    BY <1>2, <1>3, <1>4, <2>1 DEF Underway
  <2> QED
    BY <1>2, <2>1, <2>2, <2>3, QuietFacts DEF Served, Quiet
<1> QED
  BY <1>6, <1>7, <1>8, <1>9 DEF Delivery

\* The hub queues the message for the client it picked, and will not reach that
\* client again in this walk.
LEMMA HubSendDelivery ==
  ASSUME TypeOK, Delivery, WalkSend(HubG),
         NEW d \in Client, d = walk[HubG].to, NEW m \in Message, m = walk[HubG].msg
  PROVE  Delivery'
<1>1. HubG \in Proc /\ \A c \in Client : c \in Proc \ {HubG}
  BY HubConstants DEF Proc
<1>2. /\ UNCHANGED <<conns, log, unsent, live, out, hpc, wpc, pend, snap, skipped>>
      /\ \A c \in Client : walk'[c] = walk[c]
      /\ walk'[HubG].msg = m
      /\ walk'[HubG].todo = walk[HubG].todo /\ walk'[HubG].maybe = walk[HubG].maybe
      /\ walk'[HubG].to = NoClient
      /\ Added(d, m)
      /\ \A c \in Client \ {d} : Kept(c)
  BY <1>1, SendFacts
<1>3. \A c \in Client : Key(c) \in Keys /\ Key(c)' = Key(c) /\ c # NoClient
  BY KeyType, HubConstants DEF Key
<1>4. /\ Recipient(m, d)
      /\ conns[Key(d)] = d => Key(d) \notin walk[HubG].todo \cup walk[HubG].maybe
      /\ m.type \in Kind => m.id \in DOMAIN log[m.type] /\ log[m.type][m.id] = m.who
  BY <1>2 DEF Delivery, Walks
<1>5. \A c \in Client \ {d}, kind \in Kind : Seen(c, kind)' = Seen(c, kind)
  BY <1>2, FlowSeen DEF Flow, Going
<1>6. \A kind \in Kind :
        Seen(d, kind)' = IF m.type = kind THEN Seen(d, kind) \cup {m.id} ELSE Seen(d, kind)
  BY <1>2, AddedSeen
<1>7. \A c \in Client, kind \in Kind : Older(c, kind) /\ Ordered(c, kind)
  BY DEF Delivery, InOrder
<1>8. Due(d) /\ ~Due(d)' /\ \A c \in Client : Due(c)' => Due(c)
  BY <1>2, <1>3, <1>4 DEF Due
<1>9. Walks'
  <2>1. \A j \in Keys : conns'[j] # NoClient => Key(conns'[j]) = j
    BY <1>2 DEF Delivery, Walks
  <2>2. \A c \in Client : walk'[c].msg.type \notin Kind /\ pend'[c].type \notin Kind
    BY <1>2 DEF Delivery, Walks
  <2>3. walk'[HubG].msg.type \in Kind =>
          /\ walk'[HubG].msg.id \in DOMAIN log'[walk'[HubG].msg.type]
          /\ log'[walk'[HubG].msg.type][walk'[HubG].msg.id] = walk'[HubG].msg.who
    BY <1>2, <1>4
  <2>4. \A c \in Client : walk'[HubG].to # c
    BY <1>2, <1>3
  <2> QED
    BY <2>1, <2>2, <2>3, <2>4 DEF Walks, Keys, Key
<1>10. Joining'
  <2>1. hpc[d] \notin {"idle", "announce"}
    BY <1>2 DEF Delivery, Joining
  <2> QED
    BY <1>2, <1>3, <1>5, <2>1 DEF Delivery, Joining
<1>11. ASSUME NEW kind \in Kind PROVE Older(d, kind)' /\ Ordered(d, kind)'
  <2>1. m.type = kind => \A i \in Seen(d, kind) : i < m.id
    BY <1>7, <1>8, <1>2 DEF Older
  <2>2. Ordered(d, kind)'
    BY <1>2, <1>7, <2>1, AddedOrdered
  <2>3. m.type = kind /\ kind = "private" => UserOf[d] \in log[kind][m.id]
    BY <1>4 DEF Recipient
  <2>4. Older(d, kind)'
    <3>1. m.type = kind => m.id \in DOMAIN log[kind]
      BY <1>4
    <3>2. Seen(d, kind) \subseteq DOMAIN log[kind]
      BY <1>7 DEF Older
    <3>3. kind = "private" => \A i \in Seen(d, kind) : UserOf[d] \in log[kind][i]
      BY <1>7 DEF Older
    <3>4. Seen(d, kind)' = IF m.type = kind THEN Seen(d, kind) \cup {m.id} ELSE Seen(d, kind)
      BY <1>6
    <3>5. Seen(d, kind)' \subseteq DOMAIN log'[kind]
      BY <1>2, <3>1, <3>2, <3>4
    <3>6. kind = "private" => \A i \in Seen(d, kind)' : UserOf[d] \in log'[kind][i]
      BY <1>2, <2>3, <3>3, <3>4
    <3> QED
      BY <1>8, <3>5, <3>6 DEF Older
  <2> QED
    BY <2>2, <2>4
<1>12. ASSUME NEW c \in Client \ {d}, NEW kind \in Kind PROVE Older(c, kind)' /\ Ordered(c, kind)'
  <2>1. Ordered(c, kind)'
    BY <1>2, <1>7, FlowOrdered DEF Flow, Going
  <2>2. Older(c, kind)'
    BY <1>2, <1>5, <1>7, <1>8 DEF Older
  <2> QED
    BY <2>1, <2>2
<1>13. Complete'
  <2> SUFFICES ASSUME NEW c \in Client, NEW kind \in Kind,
                      conns'[Key(c)'] = c, wpc'[c] # "done", Joined(c)', NEW i \in DOMAIN log'[kind]
               PROVE  Served(c, kind, i)'
    BY DEF Complete
  <2>1. conns[Key(c)] = c /\ Joined(c)
    BY <1>2, <1>3 DEF Joined
  <2>2. Served(c, kind, i)
    BY <1>2, <2>1 DEF Delivery, Complete
  <2>3. Seen(c, kind) \cup Underway(c, kind) \subseteq Seen(c, kind)' \cup Underway(c, kind)'
    <3>1. CASE c = d
      BY <1>2, <1>6, <3>1 DEF Underway
    <3>2. CASE c # d
      BY <1>2, <1>3, <1>5, <3>2 DEF Underway
    <3> QED
      BY <3>1, <3>2
  <2> QED
    BY <1>2, <2>2, <2>3 DEF Served
<1>14. InOrder'
  <2>1. \A c \in Client, kind \in Kind : Older(c, kind)' /\ Ordered(c, kind)'
    BY <1>11, <1>12
  <2> QED
    BY <2>1 DEF InOrder
<1> QED
  BY <1>9, <1>10, <1>13, <1>14 DEF Delivery

\* A walk of the hub ends when the clients it left out need not get its message.
LEMMA HubWalkEndDelivery ==
  ASSUME TypeOK, Delivery, HubWalkEnd
  PROVE  Delivery'
<1>1. HubG \in Proc /\ \A c \in Client : c \in Proc /\ c # HubG
  BY HubConstants DEF Proc
<1>2. /\ UNCHANGED <<conns, log, unsent, hpc, wpc>> /\ Quiet
      /\ walk'[HubG] = NoWalk
  BY <1>1 DEF HubWalkEnd, Quiet, clientVars, handlerVars, TypeOK, HubType
<1>3. NoWalk.to = NoClient /\ NoWalk.msg.type \notin Kind
  BY NoMsgType DEF NoWalk
<1>4. \A c \in Client : Key(c) \in Keys /\ Key(c)' = Key(c) /\ c # NoClient
  BY KeyType, HubConstants DEF Key
<1>5. Walks'
  <2>1. \A j \in Keys : conns'[j] # NoClient => Key(conns'[j]) = j
    BY <1>2 DEF Delivery, Walks
  <2> QED
    BY <1>2, <1>3, <1>4, <2>1, QuietFacts DEF Walks, Keys, Key
<1>6. Joining'
  BY <1>2, <1>3, <1>4, QuietFacts DEF Delivery, Joining, Quiet
<1>7. InOrder'
  <2>1. \A c \in Client, kind \in Kind : Older(c, kind)
    BY DEF Delivery, InOrder
  <2>2. \A c \in Client, kind \in Kind : Older(c, kind)'
    BY <1>2, <1>3, <2>1, QuietFacts DEF Older
  <2> QED
    BY <1>2, <2>2, QuietFacts DEF InOrder
<1>8. Complete'
  <2> SUFFICES ASSUME NEW c \in Client, NEW kind \in Kind,
                      conns'[Key(c)'] = c, wpc'[c] # "done", Joined(c)', NEW i \in DOMAIN log'[kind]
               PROVE  Served(c, kind, i)'
    BY DEF Complete
  <2>1. conns[Key(c)] = c /\ Joined(c)
    BY <1>2, <1>4 DEF Joined
  <2>2. Served(c, kind, i)
    BY <1>2, <2>1 DEF Delivery, Complete
  <2>3. i \in Underway(c, kind) => kind = "private" /\ UserOf[c] \notin log[kind][i]
    <3> SUFFICES ASSUME i \in Underway(c, kind) PROVE kind = "private" /\ UserOf[c] \notin log[kind][i]
      OBVIOUS
    <3>1. /\ walk[HubG].msg.type = kind /\ i = walk[HubG].msg.id
          /\ walk[HubG].to = c \/ Key(c) \in walk[HubG].todo
      BY DEF Underway
    <3>2. Key(c) \in walk[HubG].todo /\ ~Recipient(walk[HubG].msg, c)
      BY <1>4, <2>1, <3>1 DEF HubWalkEnd, WalkOver
    <3>3. log[kind][i] = walk[HubG].msg.who
      BY <3>1 DEF Delivery, Walks
    <3> QED
      BY <3>1, <3>2, <3>3 DEF Recipient
  <2> QED
    BY <1>2, <2>1, <2>2, <2>3, QuietFacts DEF Served, Quiet
<1> QED
  BY <1>5, <1>6, <1>7, <1>8 DEF Delivery

\* The hub takes a message while it is in no walk: what is cached is the newest
\* of its kind, and is either sent on to everyone who is registered, or lost.
LEMMA HandleDelivery ==
  ASSUME TypeOK, Delivery, NEW a \in Client, Handle(a)
  PROVE  Delivery'
<1>1. HubG \in Proc /\ \A c \in Client : c \in Proc /\ c # HubG
  BY HubConstants DEF Proc
<1>2. /\ UNCHANGED <<conns, hpc, wpc>>
      /\ UNCHANGED <<send, live, out, pend, snap, skipped>>
      /\ walk[HubG].msg = NoMsg
  BY DEF Handle, HandleCached, HandleUnacknowledged, HandleDropped, HandleStatus, HubReceive,
         clientVars, handlerVars, Walking
<1>3. Quiet
  <2>1. \A c \in Client : walk'[c] = walk[c]
    BY <1>1 DEF Handle, HandleCached, HandleUnacknowledged, HandleDropped, HandleStatus, TypeOK, HubType
  <2> QED
    BY <1>2, <2>1 DEF Quiet
<1>4. \A c \in Client : Key(c) \in Keys /\ Key(c)' = Key(c) /\ c # NoClient
  BY KeyType, HubConstants DEF Key
<1>5. \A c \in Client, kind \in Kind : Underway(c, kind) = {}
  BY <1>2, NoMsgType DEF Underway
<1>6. /\ offer[a] \in Message
      /\ \A kind \in Kind : log[kind] \in Seq(SUBSET User)
  BY DEF TypeOK, HubType
\* What becomes of the log: nothing, or one entry more, of the newest number.
<1>7. ASSUME NEW t \in Kind, log' = [log EXCEPT ![t] = Append(@, offer[a].who)]
      PROVE  /\ Len(log[t]) + 1 \in DOMAIN log'[t]
             /\ log'[t][Len(log[t]) + 1] = offer[a].who
             /\ \A kind \in Kind : /\ DOMAIN log[kind] \subseteq DOMAIN log'[kind]
                                   /\ \A i \in DOMAIN log[kind] : log'[kind][i] = log[kind][i]
                                   /\ \A i \in DOMAIN log'[kind] :
                                        i \in DOMAIN log[kind] \/ (kind = t /\ i = Len(log[t]) + 1)
             /\ \A i \in DOMAIN log[t] : i < Len(log[t]) + 1
  <2>1. /\ log'[t] = Append(log[t], offer[a].who)
        /\ \A kind \in Kind \ {t} : log'[kind] = log[kind]
    BY <1>7 DEF TypeOK, HubType
  <2>2. /\ Len(log[t]) \in Nat /\ DOMAIN log[t] = 1..Len(log[t])
        /\ DOMAIN log'[t] = 1..(Len(log[t]) + 1)
        /\ log'[t][Len(log[t]) + 1] = offer[a].who
        /\ \A i \in 1..Len(log[t]) : log'[t][i] = log[t][i]
    BY <1>6, <2>1 DEF Message
  <2>3. /\ \A i \in 1..Len(log[t]) : i \in 1..(Len(log[t]) + 1) /\ i < Len(log[t]) + 1
        /\ \A i \in 1..(Len(log[t]) + 1) : i \in 1..Len(log[t]) \/ i = Len(log[t]) + 1
        /\ Len(log[t]) + 1 \in 1..(Len(log[t]) + 1)
    BY <2>2
  <2> QED
    BY <2>1, <2>2, <2>3
<1>8. \A kind \in Kind : /\ DOMAIN log[kind] \subseteq DOMAIN log'[kind]
                         /\ \A i \in DOMAIN log[kind] : log'[kind][i] = log[kind][i]
  <2>1. CASE log' = log
    BY <2>1
  <2>2. CASE log' # log
    BY <1>7, <2>2 DEF Handle, HandleCached, HandleUnacknowledged, HandleDropped, HandleStatus
  <2> QED
    BY <2>1, <2>2
\* What becomes of the walk: it goes on being none, or starts over all that are
\* registered, with the newest message of its kind or with one not cached.
<1>9. \/ walk'[HubG] = walk[HubG]
      \/ /\ walk'[HubG].to = NoClient /\ walk'[HubG].maybe = {}
         /\ walk'[HubG].todo = {k \in Keys : conns[k] # NoClient}
         /\ \/ walk'[HubG].msg.type \notin Kind
            \/ /\ HandleCached(a)
               /\ walk'[HubG].msg.type = offer[a].type
               /\ walk'[HubG].msg.id = Len(log[offer[a].type]) + 1
               /\ walk'[HubG].msg.who = offer[a].who
  <2>1. CASE HandleCached(a)
    <3>1. walk'[HubG] = NewWalk([offer[a] EXCEPT !.id = Len(log[offer[a].type]) + 1])
      BY <1>1, <2>1 DEF HandleCached, TypeOK, HubType
    <3> QED
      BY <1>6, <2>1, <3>1 DEF NewWalk, Message
  <2>2. CASE HandleStatus(a)
    <3>1. walk'[HubG] = NewWalk(offer[a]) /\ offer[a].type = "online"
      BY <1>1, <2>2 DEF HandleStatus, TypeOK, HubType
    <3> QED
      BY <3>1 DEF NewWalk, Kind
  <2>3. CASE HandleUnacknowledged(a) \/ HandleDropped(a)
    BY <2>3 DEF HandleUnacknowledged, HandleDropped
  <2> QED
    BY <2>1, <2>2, <2>3 DEF Handle
<1>10. HandleCached(a) => offer[a].type \in Kind
                          /\ log' = [log EXCEPT ![offer[a].type] = Append(@, offer[a].who)]
  BY DEF HandleCached
<1>11. Walks'
  <2>1. \A j \in Keys : conns'[j] # NoClient => Key(conns'[j]) = j
    BY <1>2 DEF Delivery, Walks
  <2>2. walk'[HubG].msg.type \in Kind =>
          /\ walk'[HubG].msg.id \in DOMAIN log'[walk'[HubG].msg.type]
          /\ log'[walk'[HubG].msg.type][walk'[HubG].msg.id] = walk'[HubG].msg.who
    BY <1>2, <1>7, <1>9, <1>10, NoMsgType
  <2>3. \A c \in Client : walk'[HubG].to = c =>
          /\ Recipient(walk'[HubG].msg, c)
          /\ conns'[Key(c)] = c => Key(c) \notin walk'[HubG].todo \cup walk'[HubG].maybe
    BY <1>2, <1>4, <1>9 DEF Delivery, Walks
  <2> QED
    BY <1>3, <2>1, <2>2, <2>3, QuietFacts DEF Walks, Recipient, Keys, Key
<1>12. Joining'
  <2>1. \A c \in Client : walk'[HubG].to = c => walk[HubG].to = c
    BY <1>4, <1>9
  <2> QED
    BY <1>2, <1>3, <2>1, QuietFacts DEF Delivery, Joining
<1>13. InOrder'
  <2>1. ASSUME NEW c \in Client, NEW kind \in Kind PROVE Older(c, kind)'
    <3>1. /\ Seen(c, kind) \subseteq DOMAIN log[kind]
          /\ kind = "private" => \A i \in Seen(c, kind) : UserOf[c] \in log[kind][i]
      BY DEF Delivery, InOrder, Older
    <3>2. walk'[HubG].msg.type = kind => \A i \in Seen(c, kind) : i < walk'[HubG].msg.id
      BY <1>2, <1>7, <1>9, <1>10, <3>1, NoMsgType
    <3>3. Seen(c, kind)' = Seen(c, kind)
      BY <1>3, QuietFacts
    <3> QED
      BY <1>8, <3>1, <3>2, <3>3 DEF Older
  <2> QED
    BY <1>3, <2>1, QuietFacts DEF InOrder
<1>14. Complete'
  <2> SUFFICES ASSUME NEW c \in Client, NEW kind \in Kind,
                      conns'[Key(c)'] = c, wpc'[c] # "done", Joined(c)', NEW i \in DOMAIN log'[kind]
               PROVE  Served(c, kind, i)'
    BY DEF Complete
  <2>1. conns[Key(c)] = c /\ Joined(c) /\ wpc[c] # "done"
    BY <1>2, <1>4 DEF Joined
  <2>2. Seen(c, kind)' = Seen(c, kind)
    BY <1>3, QuietFacts
  <2>3. unsent[kind] \subseteq unsent'[kind]
    BY ZenonT(30) DEF Handle, HandleCached, HandleUnacknowledged, HandleDropped, HandleStatus, TypeOK, HubType
  <2>4. CASE i \in DOMAIN log[kind]
    <3>1. Served(c, kind, i)
      BY <2>1, <2>4 DEF Delivery, Complete
    <3> QED
      BY <1>2, <1>5, <1>8, <2>2, <2>3, <2>4, <3>1 DEF Served
  <2>5. CASE i \notin DOMAIN log[kind]
    <3>1. HandleCached(a) \/ HandleUnacknowledged(a)
      BY <2>5 DEF Handle, HandleDropped, HandleStatus
    <3>2. kind = offer[a].type /\ i = Len(log[kind]) + 1
      BY <1>7, <2>5, <3>1 DEF HandleCached, HandleUnacknowledged
    <3>3. CASE HandleUnacknowledged(a)
      <4>1. i \in unsent'[kind]
        BY <3>2, <3>3 DEF HandleUnacknowledged, TypeOK, HubType
      <4> QED
        BY <4>1 DEF Served
    <3>4. CASE HandleCached(a)
      <4>1. walk'[HubG] = NewWalk([offer[a] EXCEPT !.id = Len(log[offer[a].type]) + 1])
        BY <1>1, <3>4 DEF HandleCached, TypeOK, HubType
      <4>2. /\ walk'[HubG].msg.type = kind /\ walk'[HubG].msg.id = i
            /\ Key(c) \in walk'[HubG].todo
        BY <1>4, <1>6, <2>1, <3>2, <4>1 DEF NewWalk, Message
      <4>3. i \in Underway(c, kind)'
        BY <1>4, <4>2 DEF Underway
      <4> QED
        BY <4>3 DEF Served
    <3> QED
      BY <3>1, <3>3, <3>4
  <2> QED
    BY <2>4, <2>5
<1> QED
  BY <1>11, <1>12, <1>13, <1>14 DEF Delivery

-----------------------------------------------------------------------------
\* The start, the end, and every step.

\* Where there is no client and no walk, nothing is on its way.
LEMMA NobodyDelivery ==
  ASSUME /\ conns = [k \in Keys |-> NoClient] /\ walk = [p \in Proc |-> NoWalk]
         /\ send = [c \in Client |-> <<>>] /\ out = [c \in Client |-> NoMsg]
         /\ live = [c \in Client |-> [k \in Kind |-> <<>>]]
         /\ pend = [c \in Client |-> NoMsg] /\ wpc = [c \in Client |-> "off"]
  PROVE  Delivery
<1>1. HubG \in Proc /\ \A c \in Client : c \in Proc
  BY DEF Proc
<1>2. /\ \A p \in Proc : walk[p].msg.type \notin Kind /\ walk[p].to = NoClient
      /\ walk[HubG].msg.type \notin Kind /\ walk[HubG].to = NoClient
  BY <1>1, NoMsgType DEF NoWalk
<1>3. \A c \in Client : /\ Key(c) \in Keys /\ c # NoClient /\ conns[Key(c)] # c
                        /\ send[c] = <<>> /\ out[c] = NoMsg
  BY KeyType, HubConstants
<1>4. ASSUME NEW c \in Client, NEW kind \in Kind
      PROVE  Seen(c, kind) = {} /\ live[c][kind] = <<>>
  <2>1. live[c][kind] = <<>>
    OBVIOUS
  <2>2. Range(live[c][kind]) = {} /\ Range(send[c]) = {}
    BY <1>3, <2>1 DEF Range
  <2> QED
    BY <1>3, <2>1, <2>2, NoMsgType DEF Seen, InFlight
<1>5. Walks
  BY <1>1, <1>2, <1>3, NoMsgType DEF Walks
<1>6. Joining
  BY <1>2, <1>3, <1>4 DEF Joining
<1>7. ASSUME NEW c \in Client, NEW kind \in Kind PROVE Older(c, kind) /\ Ordered(c, kind)
  <2>1. Range(live[c][kind]) = {} /\ DOMAIN live[c][kind] = {} /\ DOMAIN send[c] = {}
    BY <1>3, <1>4 DEF Range
  <2> QED
    BY <1>2, <1>4, <2>1 DEF Older, Ordered
<1>8. Complete
  BY <1>3 DEF Complete
<1> QED
  BY <1>5, <1>6, <1>7, <1>8 DEF Delivery, InOrder

LEMMA DownDelivery ==
  ASSUME NEW how, Down(how)
  PROVE  Delivery'
<1>1. ((/\ conns = [k \in Keys |-> NoClient] /\ walk = [p \in Proc |-> NoWalk]
        /\ send = [c \in Client |-> <<>>] /\ out = [c \in Client |-> NoMsg]
        /\ live = [c \in Client |-> [k \in Kind |-> <<>>]]
        /\ pend = [c \in Client |-> NoMsg] /\ wpc = [c \in Client |-> "off"]) => Delivery)'
  BY NobodyDelivery, PTL
<1> QED
  BY <1>1 DEF Down, Keys, Key, Proc

\* Every step keeps it.
LEMMA NextDelivery == TypeOK /\ Registration /\ Delivery /\ [Next]_vars => Delivery'
<1> SUFFICES ASSUME TypeOK, Registration, Delivery, [Next]_vars PROVE Delivery'
  OBVIOUS
<1>1. CASE HubStep
  <2>1. CASE WalkSend(HubG)
    <3>1. HubG \in Proc
      BY DEF Proc
    <3>2. walk[HubG].to \in Client /\ walk[HubG].msg \in Message
      BY <2>1, <3>1, SendFacts
    <3> QED
      BY <2>1, <3>2, HubSendDelivery
  <2> QED
    BY <1>1, <2>1, HandleDelivery, HubPickDelivery, HubWalkEndDelivery DEF HubStep
<1>2. ASSUME NEW c \in Client, HandlerStep(c) \/ Connect(c) \/ InitFails(c) PROVE Delivery'
  BY <1>2, InsertDelivery, HandlerDelivery DEF HandlerStep
<1>3. ASSUME NEW c \in Client, ReaderStep(c) PROVE Delivery'
  BY <1>3, RemoveDelivery, ReaderDelivery, ReaderWalkDelivery DEF ReaderStep, ReaderWalk
<1>4. ASSUME NEW c \in Client, PeerLost(c) \/ ReadFrame(c) \/ WriterStep(c) PROVE Delivery'
  BY <1>4, ReaderDelivery, WriterDelivery
<1>5. CASE MapRace \/ ClosedSend
  BY <1>5, DownDelivery DEF MapRace, ClosedSend
<1>6. CASE Terminated \/ UNCHANGED vars
  <2>1. /\ UNCHANGED <<conns, log, unsent, walk>>
        /\ \A c \in Client : Still(c)
    BY <1>6 DEF Terminated, vars, hubVars, clientVars, handlerVars, Still, Kept
  <2> QED
    BY <2>1, StillHarmless, HarmlessDelivery
<1> QED
  BY <1>1, <1>2, <1>3, <1>4, <1>5, <1>6 DEF Next

\* How the messages travel, from the hub's walk to the websocket, at any time.
THEOREM DeliveryKept == Spec => []Delivery
<1>1. Init => Delivery
  BY NobodyDelivery DEF Init
<1> QED
  BY <1>1, NextDelivery, TypeCorrect, RegistrationKept, PTL DEF Spec

\* A private message reaches connections of its sender and its recipient only,
\* also those made while it is on its way.
THEOREM PrivateStaysPrivate == Spec => []Whispered
<1>1. Delivery => Whispered
  <2> SUFFICES ASSUME Delivery, NEW c \in Client, NEW i \in Range(live[c]["private"])
               PROVE  UserOf[c] \in log["private"][i]
    BY DEF Whispered
  <2>1. "private" \in Kind
    BY DEF Kind
  <2>2. i \in Seen(c, "private")
    BY DEF Seen
  <2> QED
    BY <2>1, <2>2 DEF Delivery, InOrder, Older
<1> QED
  BY <1>1, DeliveryKept, PTL

\* Whoever has joined misses none of the messages since its snapshot, however
\* its joining and the hub's broadcasts interleave.
THEOREM NothingMissed == Spec => []NoHole
<1>1. Delivery => NoHole
  BY DEF Delivery, Complete, NoHole, Joined
<1> QED
  BY <1>1, DeliveryKept, PTL

\* The messages that have been written, as messages.
LEMMA WrittenMessages ==
  ASSUME NEW kind \in Kind, NEW l \in Seq(Nat), NEW w, w = [n \in DOMAIN l |-> Msg(kind, l[n], {})]
  PROVE  /\ w \in Seq(Message) /\ Len(w) = Len(l)
         /\ \A n \in 1..Len(l) : w[n].id = l[n]
<1>1. DOMAIN l = 1..Len(l) /\ Len(l) \in Nat /\ \A n \in 1..Len(l) : l[n] \in Nat
  OBVIOUS
<1>2. \A n \in 1..Len(l) : Msg(kind, l[n], {}) \in Message
  BY <1>1, MsgType DEF MessageType
<1>3. w = [n \in 1..Len(l) |-> Msg(kind, l[n], {})]
  BY <1>1
<1>4. w \in Seq(Message)
  BY <1>1, <1>2, <1>3
<1>5. Len(w) = Len(l)
  BY <1>1, <1>3, <1>4
<1> QED
  BY <1>3, <1>4, <1>5 DEF Msg

\* A place among L written messages, the one being written and S queued ones.
LEMMA Places ==
  ASSUME NEW L \in Nat, NEW S \in Nat, NEW i \in 1..(L + 1 + S)
  PROVE  i \in 1..L \/ i = L + 1 \/ \E n \in 1..S : i = L + 1 + n
<1>1. i \in 1..L \/ i = L + 1 \/ (i - (L + 1) \in 1..S /\ i = L + 1 + (i - (L + 1)))
  OBVIOUS
<1> QED
  BY <1>1

\* The messages of a kind reach a client in the order they were cached in, and
\* none of them twice.
THEOREM CachedOrder == Spec => []LiveInOrder
<1>1. ASSUME TypeOK, Delivery, NEW c \in Client, NEW kind \in Kind,
             NEW s, s = Arrivals(c, kind), NEW i \in DOMAIN s, NEW j \in DOMAIN s,
             i < j, s[i].type = kind, s[j].type = kind
      PROVE  s[i].id < s[j].id
  <2>1. PICK l \in Seq(Nat), q \in Seq(Message), x \in Message :
               l = live[c][kind] /\ q = send[c] /\ x = out[c]
    BY <1>1, PipeType
  <2>2. Ordered(c, kind)
    BY <1>1 DEF Delivery, InOrder
  <2>3. /\ \A n \in DOMAIN l : l[n] \in Range(l)
        /\ x.type = kind => x.id \in InFlight(c, kind)
        /\ \A n \in DOMAIN q : q[n].type = kind => q[n].id \in InFlight(c, kind)
    BY <2>1 DEF InFlight, Range
  <2>4. PICK L \in Nat, S \in Nat : L = Len(l) /\ S = Len(q) /\ DOMAIN l = 1..L /\ DOMAIN q = 1..S
    BY <2>1
  <2>5. /\ \A n, m \in 1..L : n < m => l[n] < l[m]
        /\ \A n \in 1..L : x.type = kind => l[n] < x.id
        /\ \A n \in 1..L, m \in 1..S : q[m].type = kind => l[n] < q[m].id
        /\ \A m \in 1..S : x.type = kind /\ q[m].type = kind => x.id < q[m].id
        /\ \A n, m \in 1..S : n < m /\ q[n].type = kind /\ q[m].type = kind => q[n].id < q[m].id
    BY <2>1, <2>2, <2>3, <2>4 DEF Ordered
  <2>6. PICK w : w = [n \in DOMAIN l |-> Msg(kind, l[n], {})]
    OBVIOUS
  <2>7. w \in Seq(Message) /\ Len(w) = L /\ \A n \in 1..L : w[n].id = l[n]
    <3>1. w \in Seq(Message) /\ Len(w) = Len(l) /\ \A n \in 1..Len(l) : w[n].id = l[n]
      BY <2>6, WrittenMessages, ZenonT(30)
    <3> QED
      BY <2>4, <3>1
  <2>8. PICK a \in Seq(Message) : a = Append(w, x)
    <3>1. w \in Seq(Message)
      BY <2>7
    <3>2. Append(w, x) \in Seq(Message)
      BY <3>1
    <3> QED
      BY <3>2, Zenon
  <2>9. Len(a) = L + 1 /\ a[L + 1] = x /\ \A n \in 1..L : a[n] = w[n]
    BY <2>4, <2>7, <2>8
  <2>10. /\ i \in 1..(L + 1 + S) /\ j \in 1..(L + 1 + S)
         /\ \A n \in 1..L : s[n].id = l[n]
         /\ s[L + 1] = x
         /\ \A n \in 1..S : s[L + 1 + n] = q[n]
    <3>1. s = a \o q
      BY <1>1, <2>1, <2>6, <2>8 DEF Arrivals
    <3>2. /\ DOMAIN s = 1..(Len(a) + Len(q))
          /\ \A n \in 1..Len(a) : s[n] = a[n]
          /\ \A n \in 1..Len(q) : s[Len(a) + n] = q[n]
      <4>1. /\ DOMAIN (a \o q) = 1..(Len(a) + Len(q))
            /\ \A n \in 1..Len(a) : (a \o q)[n] = a[n]
            /\ \A n \in 1..Len(q) : (a \o q)[Len(a) + n] = q[n]
        <5>1. a \in Seq(Message) /\ q \in Seq(Message)
          BY <2>1, <2>8
        <5> QED
          BY <5>1
      <4> QED
        BY <3>1, <4>1, Zenon
    <3>3. /\ \A n \in 1..L : n \in 1..(L + 1)
          /\ L + 1 \in 1..(L + 1)
      BY <2>4
    <3> QED
      BY <2>4, <2>7, <2>9, <3>2, <3>3
  <2>11. j \in 1..L \/ j = L + 1 \/ \E n \in 1..S : j = L + 1 + n
    <3>1. j \in 1..(L + 1 + S)
      BY <2>10
    <3> QED
      BY <3>1, Places, Zenon
  <2>12. CASE i \in 1..L
    <3>1. CASE j \in 1..L
      BY <1>1, <2>5, <2>10, <2>12, <3>1
    <3>2. CASE j = L + 1
      BY <1>1, <2>5, <2>10, <2>12, <3>2
    <3>3. CASE \E n \in 1..S : j = L + 1 + n
      BY <1>1, <2>5, <2>10, <2>12, <3>3, ZenonT(30)
    <3> QED
      BY <2>11, <3>1, <3>2, <3>3
  <2>13. CASE i = L + 1
    <3>1. PICK n \in 1..S : j = L + 1 + n
      BY <1>1, <2>4, <2>11, <2>13
    <3> QED
      BY <1>1, <2>5, <2>10, <2>13, <3>1
  <2>14. CASE \E n \in 1..S : i = L + 1 + n
    <3>1. PICK n \in 1..S : i = L + 1 + n
      BY <2>14
    <3>2. PICK m \in 1..S : j = L + 1 + m
      BY <1>1, <2>4, <2>11, <3>1
    <3>3. n < m
      BY <1>1, <2>4, <3>1, <3>2
    <3> QED
      BY <1>1, <2>5, <2>10, <3>1, <3>2, <3>3, ZenonT(30)
  <2>15. i \in 1..L \/ i = L + 1 \/ \E n \in 1..S : i = L + 1 + n
    <3>1. i \in 1..(L + 1 + S)
      BY <2>10
    <3> QED
      BY <3>1, Places, Zenon
  <2> QED
    BY <2>12, <2>13, <2>14, <2>15
<1>2. TypeOK /\ Delivery => LiveInOrder
  BY <1>1 DEF LiveInOrder
<1> QED
  BY <1>2, DeliveryKept, TypeCorrect, PTL
=============================================================================

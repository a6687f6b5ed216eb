-------------------------- MODULE MessageCacheProofs --------------------------
(***************************************************************************)
(* The message cache, for any number of users, administrators and          *)
(* messages, any failing calls and any number of crashes: no accepted      *)
(* message is unaccounted for, and, as far as the theorems say what may    *)
(* fail, the cache implements the message store.                           *)
(***************************************************************************)
EXTENDS MessageCacheProperties, TLAPS, FiniteSetTheorems

\* The invariant holds of an empty cache.
LEMMA InitInv == Init => Inv
  BY CacheConstants
     DEF Init, Inv, TypeOK, Accounted, OneFlusher, BatchCovers, PurgesRemoved, Ids, Gone,
         Idle, AdminIdle, FlushPc, Kind, Flusher

\* Caching a message, public or private, keeps the invariant: a message that is
\* pushed while a flush has read the queue counts as late.
LEMMA CacheInv ==
  ASSUME Inv, NEW k \in Kind, NEW boxes, Cache(k, boxes)
  PROVE  Inv'
<1> DEFINE id == counter[k] + 1
<1>1. counter[k] \in Nat /\ counter' = [counter EXCEPT ![k] = id]
  BY DEF Inv, TypeOK, Cache
<1>2. queue' = [queue EXCEPT ![k] = queue[k] \cup {id}]
  BY DEF Cache
<1>3. late' = [late EXCEPT ![k] = IF Flushing(k) THEN late[k] \cup {id} ELSE late[k]]
  BY DEF Cache, Inv, TypeOK
<1>4. UNCHANGED <<table, mutex, admin, removed, wiped, crashes>>
  BY DEF Cache
<1>5. \A p \in Flusher : \/ flush'[p] = flush[p]
                         \/ flush'[p] = [pc |-> "lock", kind |-> k, batch |-> {}]
  BY DEF Cache, Inv, TypeOK, Flusher
<1>6. TypeOK'
  <2>1. recent' \in [Box -> SUBSET Nat]
    BY <1>1 DEF Cache, Trim, Inv, TypeOK
  <2>2. flush' \in [Flusher -> [pc : FlushPc, kind : Kind, batch : SUBSET Nat]]
    BY DEF Cache, Inv, TypeOK, FlushPc, Flusher
  <2>3. \A j \in Kind : queue'[j] \cup table'[j] \cup late'[j] \subseteq Ids(j)'
    BY <1>1, <1>2, <1>3, <1>4 DEF Inv, TypeOK, Ids
  <2> QED
    BY <1>1, <1>2, <1>3, <1>4, <2>1, <2>2, <2>3 DEF Inv, TypeOK
<1>7. Accounted'
  <2> SUFFICES ASSUME NEW j \in Kind
               PROVE  Ids(j)' \subseteq queue'[j] \cup table'[j] \cup late'[j] \cup Gone(j)'
    BY DEF Accounted
  <2>1. Gone(j)' = Gone(j) /\ table'[j] = table[j]
    BY <1>4 DEF Gone
  <2>2. Ids(j) \subseteq queue[j] \cup table[j] \cup late[j] \cup Gone(j)
    BY DEF Inv, Accounted
  <2>3. CASE j = k
    <3>1. Ids(j)' = Ids(j) \cup {id}
      <4>1. counter'[k] = counter[k] + 1
        BY <1>1 DEF Inv, TypeOK
      <4>2. 1..(counter[k] + 1) = (1..counter[k]) \cup {counter[k] + 1}
        BY <1>1
      <4> QED
        BY <2>3, <4>1, <4>2 DEF Ids
    <3>2. queue'[j] = queue[j] \cup {id} /\ late[j] \subseteq late'[j]
      BY <1>2, <1>3, <2>3 DEF Inv, TypeOK
    <3> QED
      BY <2>1, <2>2, <3>1, <3>2
  <2>4. CASE j # k
    <3>1. Ids(j)' = Ids(j) /\ queue'[j] = queue[j] /\ late'[j] = late[j]
      BY <1>1, <1>2, <1>3, <2>4 DEF Ids, Inv, TypeOK
    <3> QED
      BY <2>1, <2>2, <3>1
  <2> QED
    BY <2>3, <2>4
<1>8. OneFlusher'
  BY <1>4, <1>5 DEF Inv, OneFlusher
<1>9. BatchCovers'
  <2>1. ASSUME NEW p \in Flusher, flush'[p].pc \in {"commit", "del"}
        PROVE  /\ flush'[p] = flush[p]
               /\ flush[p].kind \in Kind
               /\ Ids(flush[p].kind) \subseteq Ids(flush[p].kind)'
               /\ queue'[flush[p].kind] \subseteq queue[flush[p].kind] \cup late'[flush[p].kind]
               /\ late[flush[p].kind] \subseteq late'[flush[p].kind]
    <3>1. flush'[p] = flush[p]
      BY <1>5, <2>1
    <3>2. flush[p].kind \in Kind
      BY DEF Inv, TypeOK
    <3>3. flush[p].kind = k => Flushing(k)
      BY <2>1, <3>1 DEF Flushing
    <3>4. Ids(flush[p].kind) \subseteq Ids(flush[p].kind)'
      <4>1. flush[p].kind # k => counter'[flush[p].kind] = counter[flush[p].kind]
        BY <1>1, <3>2 DEF Inv, TypeOK
      <4>2. 1..counter[k] \subseteq 1..counter'[k]
        BY <1>1 DEF Inv, TypeOK
      <4>3. CASE flush[p].kind = k
        BY <4>2, <4>3, <3>1 DEF Ids
      <4>4. CASE flush[p].kind # k
        BY <4>1, <4>4, <3>1 DEF Ids
      <4> QED
        BY <4>3, <4>4
    <3>5. queue'[flush[p].kind] \subseteq queue[flush[p].kind] \cup late'[flush[p].kind]
      BY <1>2, <1>3, <3>2, <3>3 DEF Inv, TypeOK
    <3>6. late[flush[p].kind] \subseteq late'[flush[p].kind]
      BY <1>3, <3>2 DEF Inv, TypeOK
    <3> QED
      BY <3>1, <3>2, <3>4, <3>5, <3>6
  <2> QED
    BY <1>4, <2>1 DEF Inv, BatchCovers, Gone
<1>10. PurgesRemoved'
  BY <1>4 DEF Inv, PurgesRemoved, Gone
<1> QED
  BY <1>6, <1>7, <1>8, <1>9, <1>10 DEF Inv

\* A step of a flusher keeps it.
LEMMA FlushInv ==
  ASSUME Inv, NEW p \in Flusher, FlushStep(p)
  PROVE  Inv'
<1> USE DEF Inv
<1>1. flush[p] \in [pc : FlushPc, kind : Kind, batch : SUBSET Nat]
  BY DEF TypeOK
<1>2. NextFlush(p) \in {Idle, [pc |-> "lock", kind |-> "private", batch |-> {}]}
  BY DEF NextFlush
<1>3. CASE Lock(p)
  <2>1. /\ UNCHANGED <<counter, queue, table, admin, removed, wiped, late, recent, crashes>>
        /\ mutex = "free" /\ mutex' = p
        /\ flush' = [flush EXCEPT ![p].pc = "range"]
    BY <1>3 DEF Lock, valkey, history
  <2>2. TypeOK'
    BY <2>1 DEF TypeOK, Ids, FlushPc
  <2>3. Accounted' /\ PurgesRemoved'
    BY <2>1 DEF Accounted, PurgesRemoved, Ids, Gone
  <2>4. OneFlusher'
    <3>1. \A f \in Flusher : flush[f].pc \notin {"range", "commit", "del"}
      BY <2>1 DEF OneFlusher, Flusher
    <3>2. \A f \in Flusher : f # p => flush'[f] = flush[f]
      BY <2>1 DEF TypeOK
    <3> QED
      BY <2>1, <3>1, <3>2 DEF OneFlusher
  <2>5. BatchCovers'
    <3>1. \A f \in Flusher : flush'[f].pc \in {"commit", "del"} => flush'[f] = flush[f]
      BY <1>1, <2>1 DEF TypeOK
    <3> QED
      BY <2>1, <3>1 DEF BatchCovers, Ids, Gone
  <2> QED
    BY <2>2, <2>3, <2>4, <2>5
<1>4. CASE ReadQueue(p)
  <2>1. CASE queue[flush[p].kind] = {}
    <3>1. /\ UNCHANGED <<counter, queue, table, admin, removed, wiped, late, recent, crashes>>
          /\ mutex' = "free"
          /\ flush' = [flush EXCEPT ![p] = NextFlush(p)]
          /\ flush[p].pc = "range"
      BY <1>4, <2>1 DEF ReadQueue, Return, valkey, history
    <3>2. TypeOK'
      BY <1>2, <3>1 DEF TypeOK, Ids, Idle, FlushPc, Kind
    <3>3. Accounted' /\ PurgesRemoved'
      BY <3>1 DEF Accounted, PurgesRemoved, Ids, Gone
    <3>4. OneFlusher' /\ BatchCovers'
      BY <1>1, <1>2, <3>1 DEF TypeOK, OneFlusher, BatchCovers, Ids, Gone, Idle
    <3> QED
      BY <3>2, <3>3, <3>4
  <2>2. CASE queue[flush[p].kind] # {}
    <3>1. /\ UNCHANGED <<counter, queue, table, admin, removed, wiped, late, recent, crashes, mutex>>
          /\ flush[p].pc = "range"
          /\ flush' = [flush EXCEPT ![p].pc = "commit", ![p].batch = queue[flush[p].kind]]
      BY <1>4, <2>2 DEF ReadQueue, valkey, history
    <3>2. \A f \in Flusher : f # p => flush'[f] = flush[f]
      BY <3>1 DEF TypeOK
    <3>3. flush'[p] = [pc |-> "commit", kind |-> flush[p].kind, batch |-> queue[flush[p].kind]]
      BY <1>1, <3>1 DEF TypeOK
    <3>4. flush[p].kind \in Kind /\ queue[flush[p].kind] \in SUBSET Nat
      BY <1>1 DEF TypeOK
    <3>5. TypeOK'
      <4>1. flush' \in [Flusher -> [pc : FlushPc, kind : Kind, batch : SUBSET Nat]]
        BY <1>1, <3>1, <3>4 DEF TypeOK, FlushPc
      <4> QED
        BY <3>1, <4>1 DEF TypeOK, Ids
    <3>6. Accounted' /\ PurgesRemoved'
      BY <3>1 DEF Accounted, PurgesRemoved, Ids, Gone
    <3>7. OneFlusher'
      BY <3>1, <3>2 DEF OneFlusher
    <3>8. BatchCovers'
      <4>1. queue[flush[p].kind] \subseteq Ids(flush[p].kind)
        BY <3>4 DEF TypeOK
      <4>2. \A f \in Flusher : f # p => flush[f].pc \notin {"commit", "del"}
        BY <3>1 DEF OneFlusher
      <4>3. \A f \in Flusher : flush'[f].pc \in {"commit", "del"} => f = p
        BY <3>2, <4>2
      <4>4. queue'[flush'[p].kind] \subseteq flush'[p].batch
        BY <3>1, <3>3
      <4>5. flush'[p].batch \subseteq 1..counter'[flush'[p].kind]
        BY <3>1, <3>3, <4>1 DEF Ids
      <4> QED
        BY <3>3, <4>3, <4>4, <4>5 DEF BatchCovers, Ids
    <3> QED
      BY <3>5, <3>6, <3>7, <3>8
  <2> QED
    BY <2>1, <2>2
<1>5. CASE Commit(p)
  BY <1>1, <1>5, SMTT(30)
     DEF Commit, TypeOK, Accounted, OneFlusher, BatchCovers, PurgesRemoved, Ids, Gone,
         FlushPc, valkey, history
<1>6. CASE Rollback(p)
  BY <1>1, <1>2, <1>6
     DEF Rollback, Return, TypeOK, Accounted, OneFlusher, BatchCovers, PurgesRemoved, Ids, Gone,
         Idle, FlushPc, valkey, history, Kind
<1>7. CASE DeleteQueue(p)
  BY <1>1, <1>2, <1>7
     DEF DeleteQueue, Return, TypeOK, Accounted, OneFlusher, BatchCovers, PurgesRemoved, Ids, Gone,
         Idle, FlushPc, history, Kind
<1>8. CASE DeleteQueueFails(p)
  BY <1>1, <1>2, <1>8
     DEF DeleteQueueFails, Return, TypeOK, Accounted, OneFlusher, BatchCovers, PurgesRemoved, Ids,
         Gone, Idle, FlushPc, valkey, history, Kind
<1>9. CASE ReadQueueFails(p)
  BY <1>1, <1>2, <1>9
     DEF ReadQueueFails, Return, TypeOK, Accounted, OneFlusher, BatchCovers, PurgesRemoved, Ids,
         Gone, Idle, FlushPc, valkey, history, Kind
<1> QED
  BY <1>3, <1>4, <1>5, <1>6, <1>7, <1>8, <1>9 DEF FlushStep

\* A step of a request that deletes messages keeps it: the rows that leave the
\* table are removed messages, and only such messages leave the queue.
LEMMA AdminInv ==
  ASSUME Inv, NEW a \in Admin, AdminStep(a)
  PROVE  Inv'
<1> USE DEF Inv
<1>1. CASE SelectMessages(a)
  <2>1. PICK ids \in SUBSET table["chat"] :
             admin' = [admin EXCEPT ![a] = [pc |-> "delete", ids |-> ids]]
    BY <1>1 DEF SelectMessages
  <2>2. UNCHANGED <<counter, queue, table, mutex, flush, removed, wiped, late, recent, crashes>>
    BY <1>1 DEF SelectMessages, valkey, history
  <2>3. ids \in SUBSET Nat
    BY DEF TypeOK, Kind
  <2>4. TypeOK'
    BY <2>1, <2>2, <2>3 DEF TypeOK, Ids
  <2>5. PurgesRemoved'
    BY <2>1, <2>2 DEF TypeOK, PurgesRemoved, Gone
  <2>6. Accounted' /\ OneFlusher' /\ BatchCovers'
    BY <2>2 DEF Accounted, OneFlusher, BatchCovers, Ids, Gone
  <2> QED
    BY <2>4, <2>5, <2>6
<1>2. CASE DeleteMessages(a)
  <2>1. TypeOK' /\ OneFlusher'
    BY <1>2 DEF DeleteMessages, TypeOK, OneFlusher, Ids, valkey, Kind
  <2>2. Accounted' /\ BatchCovers'
    BY <1>2 DEF DeleteMessages, TypeOK, Accounted, BatchCovers, Ids, Gone, valkey, Kind
  <2>3. PurgesRemoved'
    BY <1>2 DEF DeleteMessages, TypeOK, PurgesRemoved, Gone, Kind
  <2> QED
    BY <2>1, <2>2, <2>3
<1>3. CASE NoRowsDeleted(a) \/ DeleteMessagesFails(a)
  <2>1. /\ UNCHANGED <<counter, queue, table, mutex, flush, removed, wiped, late, recent, crashes>>
        /\ admin' = [admin EXCEPT ![a] = AdminIdle]
    BY <1>3 DEF NoRowsDeleted, DeleteMessagesFails, valkey, history
  <2>2. TypeOK' /\ PurgesRemoved'
    BY <2>1 DEF TypeOK, PurgesRemoved, Gone, Ids, AdminIdle
  <2>3. Accounted' /\ OneFlusher' /\ BatchCovers'
    BY <2>1 DEF Accounted, OneFlusher, BatchCovers, Ids, Gone
  <2> QED
    BY <2>2, <2>3
<1>4. ASSUME NEW id \in admin[a].ids, DeleteCachedMessage(a, id) \/ PurgeFails(a, id)
      PROVE  Inv'
  <2>1. AfterPurge(a, id) \in [Admin -> [pc : {"idle", "delete", "purge"}, ids : SUBSET Nat]]
    BY DEF AfterPurge, AdminIdle, TypeOK
  <2>2. admin[a].pc = "purge"
    BY <1>4 DEF DeleteCachedMessage, PurgeFails
  <2>3. \A o \in Admin : /\ AfterPurge(a, id)[o].pc \in {admin[o].pc, "idle"}
                         /\ AfterPurge(a, id)[o].ids \subseteq admin[o].ids
    BY <2>2 DEF AfterPurge, AdminIdle, TypeOK
  <2>4. id \in Gone("chat")
    BY <1>4 DEF DeleteCachedMessage, PurgeFails, PurgesRemoved
  <2>5. PurgesRemoved'
    BY <1>4, <2>3 DEF DeleteCachedMessage, PurgeFails, PurgesRemoved, Gone, valkey, history
  <2>6. CASE DeleteCachedMessage(a, id)
    BY <2>1, <2>4, <2>5, <2>6
       DEF DeleteCachedMessage, TypeOK, Accounted, OneFlusher, BatchCovers, Ids, Gone,
           history, Kind, Box
  <2>7. CASE PurgeFails(a, id)
    BY <2>1, <2>5, <2>7
       DEF PurgeFails, TypeOK, Accounted, OneFlusher, BatchCovers, Ids, Gone, valkey, history
  <2> QED
    BY <1>4, <2>6, <2>7
<1> QED
  BY <1>1, <1>2, <1>3, <1>4 DEF AdminStep

\* Removing a channel with its messages keeps it, as far as the cache goes.
LEMMA ChannelInv ==
  ASSUME Inv, RemoveMessagesByChannel
  PROVE  Inv'
<1> USE DEF Inv
<1>1. TypeOK' /\ OneFlusher'
  BY DEF RemoveMessagesByChannel, TypeOK, OneFlusher, Ids, valkey, Kind
<1>2. Accounted' /\ BatchCovers' /\ PurgesRemoved'
  BY DEF RemoveMessagesByChannel, TypeOK, Accounted, BatchCovers, PurgesRemoved, Ids, Gone, valkey, Kind
<1> QED
  BY <1>1, <1>2

\* Every step keeps the invariant.
LEMMA NextInv == Inv /\ [Next]_vars => Inv'
<1> SUFFICES ASSUME Inv, [Next]_vars PROVE Inv'
  OBVIOUS
<1>1. CASE CacheChatMessage
  BY <1>1, CacheInv DEF CacheChatMessage, Kind
<1>2. CASE CachePrivateMessage
  BY <1>2, CacheInv DEF CachePrivateMessage, Kind
<1>3. CASE Tick
  <2>1. TypeOK'
    BY <1>3 DEF Tick, Inv, TypeOK, Ids, FlushPc, valkey, history, Kind
  <2>2. Accounted' /\ PurgesRemoved'
    BY <1>3 DEF Tick, Inv, Accounted, PurgesRemoved, Ids, Gone, valkey, history
  <2>3. \A p \in Flusher : flush'[p] = flush[p] \/ flush'[p].pc = "lock"
    BY <1>3 DEF Tick, Inv, TypeOK
  <2>4. OneFlusher'
    BY <1>3, <2>3 DEF Tick, Inv, OneFlusher
  <2>5. BatchCovers'
    BY <1>3, <2>3 DEF Tick, Inv, BatchCovers, Ids, Gone, valkey, history
  <2> QED
    BY <2>1, <2>2, <2>4, <2>5 DEF Inv
<1>4. ASSUME NEW p \in Flusher, FlushStep(p) PROVE Inv'
  BY <1>4, FlushInv
<1>5. ASSUME NEW a \in Admin, AdminStep(a) PROVE Inv'
  BY <1>5, AdminInv
<1>6. CASE Crash
  BY <1>6 DEF Crash, Inv, TypeOK, Accounted, OneFlusher, BatchCovers, PurgesRemoved, Ids, Gone,
              Idle, AdminIdle, FlushPc, valkey, history, Kind
<1>7. CASE RemoveMessagesByChannel
  BY <1>7, ChannelInv
<1>8. CASE UNCHANGED vars
  BY <1>8 DEF vars, Inv, TypeOK, Accounted, OneFlusher, BatchCovers, PurgesRemoved, Ids, Gone
<1> QED
  BY <1>1, <1>2, <1>3, <1>4, <1>5, <1>6, <1>7, <1>8 DEF Next

\* The cache keeps its inductive invariant.
THEOREM Invariant == Spec => []Inv
  BY InitInv, NextInv, PTL DEF Spec

\* Every variable keeps to its type.
THEOREM TypeCorrect == Spec => []TypeOK
<1>1. Inv => TypeOK
  BY DEF Inv
<1> QED
  BY <1>1, Invariant, PTL

\* An accepted message is queued, stored, removed by an administrator, or was
\* queued while a flush of its kind was between reading and deleting the queue.
THEOREM NoMessageUnaccounted == Spec => []Accounted
<1>1. Inv => Accounted
  BY DEF Inv
<1> QED
  BY <1>1, Invariant, PTL

-----------------------------------------------------------------------------
(***************************************************************************)
(* The store, removed messages, queues and recent lists. Each theorem names*)
(* the failures it excludes.                                               *)
(***************************************************************************)
-----------------------------------------------------------------------------
\* What the steps do to the queues, in the terms of the invariants.

\* The flushers that have read a queue are not touched by a step that caches a
\* message, by the ticker, or by a request to delete.
SameFlushes ==
    \A p \in Flusher : \/ flush'[p] = flush[p]
                       \/ flush[p].pc = "idle" /\ flush'[p].pc = "lock"

\* Only the holder of the mutex is between reading and deleting a queue.
LEMMA Alone ==
  ASSUME Inv, NEW p \in Flusher, flush[p].pc \in {"range", "commit", "del"},
         NEW q \in Flusher, q # p
  PROVE  flush[q].pc \notin {"range", "commit", "del"}
  BY DEF Inv, OneFlusher

\* Caching a message gives it an id that was never used.
LEMMA CacheStore ==
  ASSUME Inv, StoreInv, NEW k \in Kind, NEW boxes, Cache(k, boxes)
  PROVE  StoreInv'
<1> DEFINE id == counter[k] + 1
<1>1. /\ counter[k] \in Nat
      /\ counter' = [counter EXCEPT ![k] = id]
      /\ queue' = [queue EXCEPT ![k] = queue[k] \cup {id}]
      /\ UNCHANGED <<table, removed, wiped>>
  BY DEF Inv, TypeOK, Cache
<1>2. SameFlushes
  BY DEF SameFlushes, Cache, Inv, TypeOK, Flusher
<1>3. \A j \in Kind : Gone(j)' = Gone(j)
  BY <1>1 DEF Gone
<1>4. counter'[k] = id /\ queue'[k] = queue[k] \cup {id} /\ queue[k] \in SUBSET Nat
  BY <1>1 DEF Inv, TypeOK
<1>9. \A j \in Kind : j # k => counter'[j] = counter[j] /\ queue'[j] = queue[j]
  BY <1>1 DEF Inv, TypeOK
<1>10. \A j \in Kind : Ids(j) \subseteq Ids(j)'
  <2>1. 1..counter[k] \subseteq 1..id
    BY <1>1
  <2> QED
    BY <1>4, <1>9, <2>1 DEF Ids
<1>5. id \notin table[k] \cup Gone(k)
  BY <1>1 DEF Inv, TypeOK, Ids, StoreInv, GoneForGood
<1>6. StoredLeavesQueue'
  <2> SUFFICES ASSUME NEW j \in Kind
               PROVE  \/ queue'[j] \cap (table'[j] \cup Gone(j)') = {}
                      \/ \E p \in Flusher : flush'[p].kind = j /\ flush'[p].pc = "del"
    BY DEF StoredLeavesQueue
  <2>1. CASE queue[j] \cap (table[j] \cup Gone(j)) = {}
    BY <1>1, <1>3, <1>4, <1>5, <1>9, <2>1
  <2>2. CASE \E p \in Flusher : flush[p].kind = j /\ flush[p].pc = "del"
    BY <1>2, <2>2 DEF SameFlushes
  <2> QED
    BY <2>1, <2>2 DEF StoreInv, StoredLeavesQueue
<1>7. BatchIsNew'
  <2> SUFFICES ASSUME NEW p \in Flusher, flush'[p].pc = "commit", NEW j, j = flush'[p].kind
               PROVE  /\ flush'[p].batch # {}
                      /\ flush'[p].batch \cap (table'[j] \cup Gone(j)') = {}
                      /\ \E n \in Ids(j)' : flush'[p].batch = {i \in queue'[j] : i <= n}
    BY DEF BatchIsNew
  <2>1. flush'[p] = flush[p] /\ j \in Kind
    BY <1>2 DEF SameFlushes, Inv, TypeOK
  <2>2. /\ flush[p].batch # {}
        /\ flush[p].batch \cap (table[j] \cup Gone(j)) = {}
    BY <2>1 DEF StoreInv, BatchIsNew
  <2>3. PICK n \in Ids(j) : flush[p].batch = {i \in queue[j] : i <= n}
    BY <2>1 DEF StoreInv, BatchIsNew
  <2>4. n \in Ids(j)'
    BY <1>10, <2>1
  <2>5. {i \in queue'[j] : i <= n} = {i \in queue[j] : i <= n}
    <3>1. CASE j = k
      <4>1. n \in 1..counter[k] /\ id = counter[k] + 1
        BY <3>1 DEF Ids
      <4>2. {i \in queue[k] \cup {id} : i <= n} = {i \in queue[k] : i <= n}
        BY <1>1, <1>4, <4>1
      <4> QED
        BY <1>4, <3>1, <4>2
    <3>2. CASE j # k
      BY <1>9, <2>1, <3>2
    <3> QED
      BY <3>1, <3>2
  <2> QED
    BY <1>1, <1>3, <2>1, <2>2, <2>3, <2>4, <2>5
<1>8. GoneForGood'
  <2> SUFFICES ASSUME NEW j \in Kind PROVE Gone(j)' \subseteq Ids(j)' \ table'[j]
    BY DEF GoneForGood
  <2> QED
    BY <1>1, <1>3, <1>10 DEF StoreInv, GoneForGood
<1> QED
  BY <1>6, <1>7, <1>8 DEF StoreInv

\* A step that changes neither the messages nor a flush that has read its queue.
LEMMA QuietStore ==
  ASSUME StoreInv, UNCHANGED <<counter, queue, table, removed, wiped>>,
         \A q \in Flusher : /\ flush[q].pc = "del" => flush'[q] = flush[q]
                            /\ flush'[q].pc = "commit" => flush'[q] = flush[q]
  PROVE  StoreInv'
<1>1. \A k \in Kind : Gone(k)' = Gone(k) /\ Ids(k)' = Ids(k)
  BY DEF Gone, Ids
<1>2. StoredLeavesQueue'
  BY <1>1 DEF StoreInv, StoredLeavesQueue
<1>3. BatchIsNew'
  BY DEF StoreInv, BatchIsNew, Gone, Ids
<1>4. GoneForGood'
  BY <1>1 DEF StoreInv, GoneForGood
<1> QED
  BY <1>2, <1>3, <1>4 DEF StoreInv

\* A flush: what it commits is new to the table, and was the whole queue.
LEMMA FlushStore ==
  ASSUME Inv, StoreInv, QueuesDeleted, NEW p \in Flusher, FlushStep(p)
  PROVE  StoreInv'
<1> DEFINE k == flush[p].kind
<1>1. /\ flush \in [Flusher -> [pc : FlushPc, kind : Kind, batch : SUBSET Nat]]
      /\ k \in Kind
      /\ NextFlush(p).pc \in {"idle", "lock"}
  BY DEF Inv, TypeOK, NextFlush, Idle
<1>2. CASE Lock(p) \/ ReadQueueFails(p) \/ Rollback(p)
  <2>1. UNCHANGED <<counter, queue, table, removed, wiped>>
    BY <1>2 DEF Lock, ReadQueueFails, Rollback, valkey, history
  <2>2. flush[p].pc # "del" /\ flush'[p].pc # "commit" /\ \A q \in Flusher : q # p => flush'[q] = flush[q]
    BY <1>1, <1>2 DEF Lock, ReadQueueFails, Rollback, Return
  <2> QED
    BY <2>1, <2>2, QuietStore
<1>3. CASE ReadQueue(p)
  <2>1. UNCHANGED <<counter, queue, table, removed, wiped>> /\ flush[p].pc = "range"
    BY <1>3 DEF ReadQueue, valkey, history
  <2>2. \A q \in Flusher : q # p => flush'[q] = flush[q] /\ flush[q].pc \notin {"commit", "del"}
    BY <1>1, <1>3, <2>1, Alone DEF ReadQueue, Return
  <2>3. CASE queue[k] = {}
    <3>1. flush'[p].pc # "commit"
      BY <1>1, <1>3, <2>3 DEF ReadQueue, Return
    <3> QED
      BY <2>1, <2>2, <3>1, QuietStore
  <2>4. CASE queue[k] # {}
    <3>1. flush'[p] = [pc |-> "commit", kind |-> k, batch |-> queue[k]]
      BY <1>1, <1>3, <2>4 DEF ReadQueue
    <3>2. \A j \in Kind : Gone(j)' = Gone(j) /\ Ids(j)' = Ids(j)
      BY <2>1 DEF Gone, Ids
    <3>3. StoredLeavesQueue' /\ GoneForGood'
      BY <2>1, <2>2, <3>1, <3>2 DEF StoreInv, StoredLeavesQueue, GoneForGood
    <3>4. queue[k] \cap (table[k] \cup Gone(k)) = {}
      BY <1>1, <2>1, <2>2 DEF StoreInv, StoredLeavesQueue
    <3>5. \E n \in Ids(k) : queue[k] = {i \in queue[k] : i <= n}
      <4>1. queue[k] \subseteq 1..counter[k] /\ counter[k] \in Nat
        BY <1>1 DEF Inv, TypeOK, Ids
      <4>2. counter[k] \in 1..counter[k]
        BY <2>4, <4>1
      <4>3. queue[k] = {i \in queue[k] : i <= counter[k]}
        BY <4>1
      <4> QED
        BY <4>2, <4>3 DEF Ids
    <3>6. BatchIsNew'
      BY <1>1, <2>1, <2>2, <2>4, <3>1, <3>2, <3>4, <3>5 DEF BatchIsNew
    <3> QED
      BY <3>3, <3>6 DEF StoreInv
  <2> QED
    BY <2>3, <2>4
<1>4. CASE Commit(p)
  <2>1. /\ UNCHANGED <<counter, queue, removed, wiped>>
        /\ flush[p].pc = "commit"
        /\ flush'[p].pc = "del" /\ flush'[p].kind = k
        /\ \A q \in Flusher : q # p => flush'[q] = flush[q] /\ flush[q].pc \notin {"commit", "del"}
    BY <1>1, <1>4, Alone DEF Commit, valkey, history
  <2>2. table'[k] = table[k] \cup flush[p].batch /\ \A j \in Kind : j # k => table'[j] = table[j]
    BY <1>1, <1>4 DEF Commit, Inv, TypeOK
  <2>3. \A j \in Kind : Gone(j)' = Gone(j) /\ Ids(j)' = Ids(j)
    BY <2>1 DEF Gone, Ids
  <2>4. StoredLeavesQueue'
    BY <2>1, <2>2, <2>3 DEF StoreInv, StoredLeavesQueue
  <2>5. BatchIsNew'
    BY <2>1 DEF BatchIsNew
  <2>6. GoneForGood'
    BY <1>1, <2>1, <2>2, <2>3 DEF StoreInv, GoneForGood, BatchIsNew
  <2> QED
    BY <2>4, <2>5, <2>6 DEF StoreInv
<1>5. CASE DeleteQueue(p)
  <2>1. /\ UNCHANGED <<counter, table, removed, wiped>>
        /\ flush[p].pc = "del"
        /\ flush'[p].pc # "commit"
        /\ \A q \in Flusher : q # p => flush'[q] = flush[q] /\ flush[q].pc \notin {"commit", "del"}
    BY <1>1, <1>5, Alone DEF DeleteQueue, Return, history
  <2>2. queue'[k] = {} /\ \A j \in Kind : j # k => queue'[j] = queue[j]
    BY <1>1, <1>5 DEF DeleteQueue, Inv, TypeOK
  <2>3. \A j \in Kind : Gone(j)' = Gone(j) /\ Ids(j)' = Ids(j)
    BY <2>1 DEF Gone, Ids
  <2>4. StoredLeavesQueue' /\ BatchIsNew' /\ GoneForGood'
    BY <2>1, <2>2, <2>3 DEF StoreInv, StoredLeavesQueue, BatchIsNew, GoneForGood
  <2> QED
    BY <2>4 DEF StoreInv
<1> QED
  BY <1>2, <1>3, <1>4, <1>5 DEF FlushStep, DeleteQueueFails, QueuesDeleted

\* A removal moves messages from the table to those that are gone, and a purge
\* takes only such messages from the queue.
LEMMA RemovalStore ==
  ASSUME Inv, StoreInv, NEW ids \in SUBSET table["chat"],
         UNCHANGED <<counter, queue, flush>>,
         table' = [table EXCEPT !["chat"] = @ \ ids],
         removed' \cup wiped' = removed \cup wiped \cup ids
  PROVE  StoreInv'
<1>1. \A k \in Kind : /\ table'[k] \cup Gone(k)' = table[k] \cup Gone(k)
                      /\ Ids(k)' = Ids(k)
  BY DEF Inv, TypeOK, Kind, Gone, Ids
<1>2. StoredLeavesQueue' /\ BatchIsNew'
  BY <1>1 DEF StoreInv, StoredLeavesQueue, BatchIsNew, Inv, TypeOK
<1>3. GoneForGood'
  BY <1>1 DEF StoreInv, GoneForGood, Inv, TypeOK, Kind, Gone
<1> QED
  BY <1>2, <1>3 DEF StoreInv

LEMMA AdminStore ==
  ASSUME Inv, StoreInv, NEW a \in Admin, AdminStep(a)
  PROVE  StoreInv'
<1>1. CASE SelectMessages(a) \/ NoRowsDeleted(a) \/ DeleteMessagesFails(a)
  BY <1>1, QuietStore DEF SelectMessages, NoRowsDeleted, DeleteMessagesFails, valkey, history
<1>2. CASE DeleteMessages(a)
  BY <1>2, RemovalStore DEF DeleteMessages, valkey
<1>3. ASSUME NEW id \in admin[a].ids, PurgeFails(a, id)
      PROVE  StoreInv'
  BY <1>3, QuietStore DEF PurgeFails, valkey, history
<1>4. ASSUME NEW id \in admin[a].ids, DeleteCachedMessage(a, id)
      PROVE  StoreInv'
  <2>1. UNCHANGED <<counter, table, flush, removed, wiped>>
    BY <1>4 DEF DeleteCachedMessage, history
  <2>2. queue'["chat"] = queue["chat"] \ {id} /\ queue'["private"] = queue["private"]
    BY <1>4 DEF DeleteCachedMessage, Inv, TypeOK, Kind
  <2>3. id \in Gone("chat")
    BY <1>4 DEF DeleteCachedMessage, Inv, PurgesRemoved
  <2>4. \A k \in Kind : Gone(k)' = Gone(k) /\ Ids(k)' = Ids(k)
    BY <2>1 DEF Gone, Ids
  <2>5. StoredLeavesQueue' /\ GoneForGood'
    BY <2>1, <2>2, <2>4 DEF StoreInv, StoredLeavesQueue, GoneForGood, Kind
  <2>6. BatchIsNew'
    <3> SUFFICES ASSUME NEW p \in Flusher, flush[p].pc = "commit", NEW k, k = flush[p].kind
                 PROVE  \A n \in Ids(k) : flush[p].batch = {i \in queue[k] : i <= n}
                           => flush[p].batch = {i \in queue'[k] : i <= n}
      BY <2>1, <2>4 DEF StoreInv, BatchIsNew, Inv, TypeOK
    <3>1. k \in Kind /\ flush[p].batch \cap Gone(k) = {}
      BY DEF StoreInv, BatchIsNew, Inv, TypeOK
    <3>2. k = "chat" => id \notin flush[p].batch
      BY <2>3, <3>1
    <3> QED
      BY <2>2, <3>1, <3>2 DEF Kind
  <2> QED
    BY <2>5, <2>6 DEF StoreInv
<1> QED
  BY <1>1, <1>2, <1>3, <1>4 DEF AdminStep

\* Every step keeps the invariant, as long as queues are deleted.
LEMMA NextStore ==
  ASSUME QueuesDeleted
  PROVE  Inv /\ StoreInv /\ [Next]_vars => StoreInv'
<1> SUFFICES ASSUME Inv, StoreInv, [Next]_vars PROVE StoreInv'
  OBVIOUS
<1>1. CASE CacheChatMessage \/ CachePrivateMessage
  BY <1>1, CacheStore DEF CacheChatMessage, CachePrivateMessage, Kind
<1>2. CASE Tick \/ UNCHANGED vars
  <2>1. UNCHANGED <<counter, queue, table, removed, wiped>>
    BY <1>2 DEF Tick, valkey, history, vars
  <2>2. \A q \in Flusher : flush'[q] = flush[q] \/ (flush[q].pc = "idle" /\ flush'[q].pc = "lock")
    BY <1>2 DEF Tick, vars, Inv, TypeOK
  <2> QED
    BY <2>1, <2>2, QuietStore
<1>3. ASSUME NEW p \in Flusher, FlushStep(p) PROVE StoreInv'
  BY <1>3, FlushStore
<1>4. ASSUME NEW a \in Admin, AdminStep(a) PROVE StoreInv'
  BY <1>4, AdminStore
<1>5. CASE RemoveMessagesByChannel
  <2>1. PICK ids \in SUBSET table["chat"] : /\ table' = [table EXCEPT !["chat"] = @ \ ids]
                                            /\ wiped' = wiped \cup ids
    BY <1>5 DEF RemoveMessagesByChannel
  <2> QED
    BY <1>5, <2>1, RemovalStore DEF RemoveMessagesByChannel, valkey
<1>6. ~Crash
  BY CacheConstants DEF Crash, QueuesDeleted, Inv, TypeOK
<1> QED
  BY <1>1, <1>2, <1>3, <1>4, <1>5, <1>6 DEF Next

LEMMA InitStore == Init => StoreInv
  BY DEF Init, StoreInv, StoredLeavesQueue, BatchIsNew, GoneForGood, Gone, Idle

-----------------------------------------------------------------------------
\* The refinement: how each step of the cache maps to one of the store.

Waiting(k) == (queue[k] \ table[k]) \ Gone(k)
Settling(k) == \E p \in Flusher : flush[p].kind = k /\ flush[p].pc = "del"

\* A step of the cache that the store does not see.
LEMMA StepStutters ==
  ASSUME UNCHANGED <<counter, table>>,
         \A k \in Kind : Waiting(k)' = Waiting(k) /\ (Settling(k)' <=> Settling(k))
  PROVE  UNCHANGED Store!storeVars
<1>1. [k \in Kind |-> (queue[k] \ table[k]) \ Gone(k)]' = [k \in Kind |-> (queue[k] \ table[k]) \ Gone(k)]
  BY DEF Waiting
<1>2. [k \in Kind |-> \E p \in Flusher : flush[p].kind = k /\ flush[p].pc = "del"]'
        = [k \in Kind |-> \E p \in Flusher : flush[p].kind = k /\ flush[p].pc = "del"]
  BY DEF Settling
<1> QED
  BY <1>1, <1>2 DEF Store!storeVars

\* A flush that has not stored anything, or has nothing of its kind left behind.
LEMMA QuietSettling ==
  ASSUME \A q \in Flusher : /\ flush[q].pc = "del" => flush'[q] = flush[q]
                            /\ flush'[q].pc = "del" => flush'[q] = flush[q],
         NEW k
  PROVE  Settling(k)' <=> Settling(k)
  BY DEF Settling

\* Caching a message is accepting it.
LEMMA CacheAccepts ==
  ASSUME Inv, StoreInv, NEW k \in Kind, NEW boxes, Cache(k, boxes)
  PROVE  Store!Accept(k)
<1> DEFINE id == counter[k] + 1
<1>1. /\ counter[k] \in Nat
      /\ counter' = [counter EXCEPT ![k] = id]
      /\ queue' = [queue EXCEPT ![k] = queue[k] \cup {id}]
      /\ UNCHANGED <<table, removed, wiped>>
  BY DEF Inv, TypeOK, Cache
<1>2. \A q \in Flusher : /\ flush[q].pc = "del" => flush'[q] = flush[q]
                         /\ flush'[q].pc = "del" => flush'[q] = flush[q]
  BY DEF Cache, Inv, TypeOK, Flusher
<1>3. id \notin table[k] \cup Gone(k)
  BY <1>1 DEF Inv, TypeOK, Ids, StoreInv, GoneForGood
<1>4. \A j \in Kind : Gone(j)' = Gone(j)
  BY <1>1 DEF Gone
<1>5. Waiting(k)' = Waiting(k) \cup {id} /\ \A j \in Kind : j # k => Waiting(j)' = Waiting(j)
  BY <1>1, <1>3, <1>4 DEF Waiting, Inv, TypeOK
<1>6. [j \in Kind |-> (queue[j] \ table[j]) \ Gone(j)]'
        = [[j \in Kind |-> (queue[j] \ table[j]) \ Gone(j)] EXCEPT ![k] = @ \cup {id}]
  BY <1>5 DEF Waiting
<1>7. [j \in Kind |-> \E p \in Flusher : flush[p].kind = j /\ flush[p].pc = "del"]'
        = [j \in Kind |-> \E p \in Flusher : flush[p].kind = j /\ flush[p].pc = "del"]
  BY <1>2, QuietSettling DEF Settling
<1> QED
  BY <1>1, <1>6, <1>7 DEF Store!Accept

\* A commit is a store of all messages up to the last one that was queued when
\* the queue was read.
LEMMA CommitStores ==
  ASSUME Inv, StoreInv, NEW p \in Flusher, Commit(p),
         NEW k \in Kind, k = flush[p].kind,
         NEW batch, batch = flush[p].batch
  PROVE  \E n \in 1..counter[k] : Store!Store(k, n)
<1>1. /\ flush \in [Flusher -> [pc : FlushPc, kind : Kind, batch : SUBSET Nat]]
      /\ k \in Kind
  BY DEF Inv, TypeOK
<1>2. /\ UNCHANGED <<counter, queue, removed, wiped>>
      /\ flush[p].pc = "commit"
      /\ flush'[p].pc = "del" /\ flush'[p].kind = k
      /\ \A q \in Flusher : q # p => flush'[q] = flush[q] /\ flush[q].pc \notin {"commit", "del"}
  BY <1>1, Alone DEF Commit, valkey, history
<1>3. table' = [table EXCEPT ![k] = @ \cup batch]
  BY DEF Commit
<1>4. queue[k] \cap (table[k] \cup Gone(k)) = {}
  BY <1>1, <1>2 DEF StoreInv, StoredLeavesQueue
<1>5. PICK n \in Ids(k) : batch = {i \in queue[k] : i <= n}
  BY <1>2 DEF StoreInv, BatchIsNew
<1>6. batch # {} /\ batch = {i \in Waiting(k) : i <= n}
  BY <1>2, <1>4, <1>5 DEF StoreInv, BatchIsNew, Waiting
<1>7. \A j \in Kind : Gone(j)' = Gone(j)
  BY <1>2 DEF Gone
<1>8. Waiting(k)' = Waiting(k) \ batch /\ \A j \in Kind : j # k => Waiting(j)' = Waiting(j)
  BY <1>1, <1>2, <1>3, <1>7 DEF Waiting, Inv, TypeOK
<1>9. [j \in Kind |-> (queue[j] \ table[j]) \ Gone(j)]'
        = [[j \in Kind |-> (queue[j] \ table[j]) \ Gone(j)] EXCEPT ![k] = @ \ batch]
  BY <1>1, <1>8 DEF Waiting
<1>10. ~Settling(k) /\ Settling(k)' /\ \A j \in Kind : j # k => (Settling(j)' <=> Settling(j))
  BY <1>1, <1>2 DEF Settling
<1>11. [j \in Kind |-> \E q \in Flusher : flush[q].kind = j /\ flush[q].pc = "del"]'
        = [[j \in Kind |-> \E q \in Flusher : flush[q].kind = j /\ flush[q].pc = "del"] EXCEPT ![k] = TRUE]
  <2>1. \A j \in Kind : Settling(j)' <=> IF j = k THEN TRUE ELSE Settling(j)
    BY <1>10
  <2>2. [j \in Kind |-> \E q \in Flusher : flush[q].kind = j /\ flush[q].pc = "del"]'
          = [j \in Kind |-> IF j = k THEN TRUE
                            ELSE \E q \in Flusher : flush[q].kind = j /\ flush[q].pc = "del"]
    BY <2>1, Zenon DEF Settling
  <2> QED
    BY <2>2, Zenon
<1>12. Store!Store(k, n)
  <2>1. ~[j \in Kind |-> \E q \in Flusher : flush[q].kind = j /\ flush[q].pc = "del"][k]
    BY <1>1, <1>10 DEF Settling
  <2>2. {i \in [j \in Kind |-> (queue[j] \ table[j]) \ Gone(j)][k] : i <= n} = batch
    BY <1>1, <1>6 DEF Waiting
  <2> QED
    BY <1>2, <1>3, <1>6, <1>9, <1>11, <2>1, <2>2 DEF Store!Store
<1> QED
  BY <1>5, <1>12 DEF Ids

\* Deleting the queue settles the store; what was queued too late is forgotten.
LEMMA DeleteQueueSettles ==
  ASSUME Inv, NEW p \in Flusher, DeleteQueue(p), NEW k \in Kind, k = flush[p].kind
  PROVE  Store!Settle(k)
<1>1. /\ flush \in [Flusher -> [pc : FlushPc, kind : Kind, batch : SUBSET Nat]]
      /\ k \in Kind
      /\ NextFlush(p).pc \in {"idle", "lock"}
  BY DEF Inv, TypeOK, NextFlush, Idle
<1>2. /\ UNCHANGED <<counter, table, removed, wiped>>
      /\ flush[p].pc = "del"
      /\ flush'[p].pc # "del"
      /\ \A q \in Flusher : q # p => flush'[q] = flush[q] /\ flush[q].pc \notin {"commit", "del"}
  BY <1>1, Alone DEF DeleteQueue, Return, history
<1>3. queue'[k] = {} /\ \A j \in Kind : j # k => queue'[j] = queue[j]
  BY <1>1 DEF DeleteQueue, Inv, TypeOK
<1>4. Waiting(k)' = {} /\ \A j \in Kind : j # k => Waiting(j)' = Waiting(j)
  BY <1>1, <1>2, <1>3 DEF Waiting, Gone
<1>5. [j \in Kind |-> (queue[j] \ table[j]) \ Gone(j)]'
        = [[j \in Kind |-> (queue[j] \ table[j]) \ Gone(j)] EXCEPT ![k] = {}]
  BY <1>1, <1>4 DEF Waiting
<1>6. Settling(k) /\ ~Settling(k)' /\ \A j \in Kind : j # k => (Settling(j)' <=> Settling(j))
  BY <1>2 DEF Settling
<1>7. [j \in Kind |-> \E q \in Flusher : flush[q].kind = j /\ flush[q].pc = "del"]'
        = [[j \in Kind |-> \E q \in Flusher : flush[q].kind = j /\ flush[q].pc = "del"] EXCEPT ![k] = FALSE]
  <2>1. \A j \in Kind : Settling(j)' <=> IF j = k THEN FALSE ELSE Settling(j)
    BY <1>6
  <2>2. [j \in Kind |-> \E q \in Flusher : flush[q].kind = j /\ flush[q].pc = "del"]'
          = [j \in Kind |-> IF j = k THEN FALSE
                            ELSE \E q \in Flusher : flush[q].kind = j /\ flush[q].pc = "del"]
    BY <2>1, Zenon DEF Settling
  <2> QED
    BY <2>2, Zenon
<1>8. [j \in Kind |-> \E q \in Flusher : flush[q].kind = j /\ flush[q].pc = "del"][k]
  BY <1>1, <1>6 DEF Settling
<1> QED
  BY <1>2, <1>5, <1>7, <1>8 DEF Store!Settle

\* Removing rows, by their ids or with their channel, is deleting.
LEMMA RemovalDeletes ==
  ASSUME Inv, NEW ids \in SUBSET table["chat"],
         UNCHANGED <<counter, queue, flush>>,
         table' = [table EXCEPT !["chat"] = @ \ ids],
         removed' \cup wiped' = removed \cup wiped \cup ids
  PROVE  Store!Delete("chat")
<1>1. \A k \in Kind : Waiting(k)' = Waiting(k)
  BY DEF Waiting, Inv, TypeOK, Kind, Gone
<1>2. [k \in Kind |-> (queue[k] \ table[k]) \ Gone(k)]' = [k \in Kind |-> (queue[k] \ table[k]) \ Gone(k)]
  BY <1>1 DEF Waiting
<1>3. [k \in Kind |-> \E p \in Flusher : flush[p].kind = k /\ flush[p].pc = "del"]'
        = [k \in Kind |-> \E p \in Flusher : flush[p].kind = k /\ flush[p].pc = "del"]
  OBVIOUS
<1> QED
  BY <1>2, <1>3 DEF Store!Delete

\* Every other step of a flush is hidden from the store.
LEMMA FlushMaps ==
  ASSUME Inv, StoreInv, QueuesDeleted, NEW p \in Flusher, FlushStep(p)
  PROVE  Store!StoreNext \/ UNCHANGED Store!storeVars
<1> flush[p].kind \in Kind
  BY DEF Inv, TypeOK
<1>1. CASE Commit(p)
  BY <1>1, CommitStores DEF Store!StoreNext
<1>2. CASE DeleteQueue(p)
  BY <1>2, DeleteQueueSettles DEF Store!StoreNext
<1>3. CASE Lock(p) \/ ReadQueue(p) \/ ReadQueueFails(p) \/ Rollback(p)
  <2>1. UNCHANGED <<counter, queue, table, removed, wiped>>
    BY <1>3 DEF Lock, ReadQueue, ReadQueueFails, Rollback, valkey, history
  <2>2. flush[p].pc # "del" /\ flush'[p].pc # "del" /\ \A q \in Flusher : q # p => flush'[q] = flush[q]
    BY <1>3 DEF Lock, ReadQueue, ReadQueueFails, Rollback, Return, NextFlush, Idle, Inv, TypeOK
  <2>3. \A k \in Kind : Waiting(k)' = Waiting(k) /\ (Settling(k)' <=> Settling(k))
    BY <2>1, <2>2, QuietSettling DEF Waiting, Gone
  <2> QED
    BY <2>1, <2>3, StepStutters
<1> QED
  BY <1>1, <1>2, <1>3 DEF FlushStep, DeleteQueueFails, QueuesDeleted

\* Of a request to delete, the store sees the deletion of the rows only.
LEMMA AdminMaps ==
  ASSUME Inv, NEW a \in Admin, AdminStep(a)
  PROVE  Store!StoreNext \/ UNCHANGED Store!storeVars
<1>1. CASE DeleteMessages(a)
  BY <1>1, RemovalDeletes DEF DeleteMessages, valkey, Store!StoreNext, Kind
<1>2. CASE SelectMessages(a) \/ NoRowsDeleted(a) \/ DeleteMessagesFails(a)
           \/ \E id \in admin[a].ids : PurgeFails(a, id)
  <2>1. UNCHANGED <<counter, queue, table, flush, removed, wiped>>
    BY <1>2 DEF SelectMessages, NoRowsDeleted, DeleteMessagesFails, PurgeFails, valkey, history
  <2> QED
    BY <2>1, StepStutters DEF Waiting, Settling, Gone
<1>3. ASSUME NEW id \in admin[a].ids, DeleteCachedMessage(a, id)
      PROVE  UNCHANGED Store!storeVars
  <2>1. UNCHANGED <<counter, table, flush, removed, wiped>>
    BY <1>3 DEF DeleteCachedMessage, history
  <2>2. queue'["chat"] = queue["chat"] \ {id} /\ queue'["private"] = queue["private"]
    BY <1>3 DEF DeleteCachedMessage, Inv, TypeOK, Kind
  <2>3. id \in Gone("chat")
    BY <1>3 DEF DeleteCachedMessage, Inv, PurgesRemoved
  <2>4. \A k \in Kind : Waiting(k)' = Waiting(k)
    BY <2>1, <2>2, <2>3 DEF Waiting, Gone, Kind
  <2> QED
    BY <2>1, <2>4, StepStutters DEF Settling
<1> QED
  BY <1>1, <1>2, <1>3 DEF AdminStep

LEMMA NextMaps ==
  ASSUME QueuesDeleted
  PROVE  Inv /\ StoreInv /\ [Next]_vars => [Store!StoreNext]_(Store!storeVars)
<1> SUFFICES ASSUME Inv, StoreInv, [Next]_vars
             PROVE  Store!StoreNext \/ UNCHANGED Store!storeVars
  OBVIOUS
<1>1. CASE CacheChatMessage \/ CachePrivateMessage
  BY <1>1, CacheAccepts DEF CacheChatMessage, CachePrivateMessage, Kind, Store!StoreNext
<1>2. CASE Tick \/ UNCHANGED vars
  <2>1. UNCHANGED <<counter, queue, table, removed, wiped>>
    BY <1>2 DEF Tick, valkey, history, vars
  <2>2. \A q \in Flusher : flush'[q] = flush[q] \/ (flush[q].pc = "idle" /\ flush'[q].pc = "lock")
    BY <1>2 DEF Tick, vars, Inv, TypeOK
  <2>3. \A k \in Kind : Waiting(k)' = Waiting(k) /\ (Settling(k)' <=> Settling(k))
    BY <2>1, <2>2, QuietSettling DEF Waiting, Gone
  <2> QED
    BY <2>1, <2>3, StepStutters
<1>3. ASSUME NEW p \in Flusher, FlushStep(p) PROVE Store!StoreNext \/ UNCHANGED Store!storeVars
  BY <1>3, FlushMaps
<1>4. ASSUME NEW a \in Admin, AdminStep(a) PROVE Store!StoreNext \/ UNCHANGED Store!storeVars
  BY <1>4, AdminMaps
<1>5. CASE RemoveMessagesByChannel
  <2>1. PICK ids \in SUBSET table["chat"] : /\ table' = [table EXCEPT !["chat"] = @ \ ids]
                                            /\ wiped' = wiped \cup ids
    BY <1>5 DEF RemoveMessagesByChannel
  <2> QED
    BY <1>5, <2>1, RemovalDeletes DEF RemoveMessagesByChannel, valkey, Store!StoreNext, Kind
<1>6. ~Crash
  BY CacheConstants DEF Crash, QueuesDeleted, Inv, TypeOK
<1> QED
  BY <1>1, <1>2, <1>3, <1>4, <1>5, <1>6 DEF Next

LEMMA InitMaps == Init => Store!StoreInit
<1> SUFFICES ASSUME Init PROVE Store!StoreInit
  OBVIOUS
<1>1. [k \in Kind |-> (queue[k] \ table[k]) \ Gone(k)] = [k \in Kind |-> {}]
  BY DEF Init
<1>2. [k \in Kind |-> \E p \in Flusher : flush[p].kind = k /\ flush[p].pc = "del"] = [k \in Kind |-> FALSE]
  BY DEF Init, Idle
<1> QED
  BY <1>1, <1>2 DEF Init, Store!StoreInit

\* As long as the queues can be deleted and the process does not die, the cache
\* implements the message store, whatever else fails: each message is accepted,
\* waits, is stored with all that wait before it, and is not stored again.
THEOREM Implementation == QueuesDeleted => (Spec => StoreSpec)
<1> SUFFICES ASSUME QueuesDeleted PROVE Spec => StoreSpec
  OBVIOUS
<1>1. Inv /\ StoreInv /\ [Next]_vars => StoreInv' /\ [Store!StoreNext]_(Store!storeVars)
  BY NextStore, NextMaps
<1> QED
  BY <1>1, Invariant, InitStore, InitMaps, PTL DEF Spec, StoreSpec, Store!StoreSpec

-----------------------------------------------------------------------------
\* Removed messages stay away.

Purged(id) == \A a \in Admin : admin[a].pc = "purge" => id \notin admin[a].ids

\* A step after which the cache holds no message that it did not hold before,
\* apart from a new one.
LEMMA NothingBack ==
  ASSUME Inv, StoreInv, RemovedForGood, StoreInv',
         UNCHANGED <<removed, wiped, admin>>,
         recent'[Public] \cup queue'["chat"] \subseteq
           recent[Public] \cup queue["chat"] \cup {counter["chat"] + 1}
  PROVE  RemovedForGood'
<1>1. counter["chat"] \in Nat /\ counter["chat"] + 1 \notin Gone("chat")
  BY DEF Inv, TypeOK, Kind, StoreInv, GoneForGood, Ids
<1>2. \A id \in Gone("chat") : Gone("chat")' = Gone("chat") /\ id \notin table'["chat"]
  BY DEF StoreInv, GoneForGood, Gone, Kind
<1> QED
  BY <1>1, <1>2 DEF RemovedForGood, Gone

\* A request that has deleted the rows has the messages yet to be purged, and
\* purges each from the queue and from the recent list.
LEMMA AdminRemoves ==
  ASSUME Inv, RemovedForGood, StoreInv', "purge" \notin Fails, NEW a \in Admin, AdminStep(a)
  PROVE  RemovedForGood'
<1> SUFFICES ASSUME NEW id \in removed', Purged(id)'
             PROVE  id \notin recent'[Public] \cup queue'["chat"]
  BY DEF RemovedForGood, Purged, StoreInv, GoneForGood, Gone, Kind
<1>1. id \in removed /\ Purged(id) => id \notin recent[Public] \cup queue["chat"]
  BY DEF RemovedForGood, Purged, Gone
<1>2. CASE SelectMessages(a) \/ NoRowsDeleted(a) \/ DeleteMessagesFails(a)
  <2>1. UNCHANGED <<recent, queue, removed>>
    BY <1>2 DEF SelectMessages, NoRowsDeleted, DeleteMessagesFails, valkey, history
  <2>2. \A b \in Admin : admin'[b] = admin[b] \/ admin[b].pc # "purge"
    BY <1>2 DEF SelectMessages, NoRowsDeleted, DeleteMessagesFails, Inv, TypeOK
  <2> QED
    BY <1>1, <2>1, <2>2 DEF Purged
<1>3. CASE DeleteMessages(a)
  <2>1. /\ UNCHANGED <<recent, queue>>
        /\ removed' = removed \cup (admin[a].ids \cap table["chat"])
        /\ admin[a].pc = "delete"
        /\ admin'[a] = [pc |-> "purge", ids |-> admin[a].ids]
        /\ \A b \in Admin : b # a => admin'[b] = admin[b]
    BY <1>3 DEF DeleteMessages, valkey, Inv, TypeOK
  <2>2. id \notin admin[a].ids
    BY <2>1 DEF Purged
  <2> QED
    BY <1>1, <2>1, <2>2 DEF Purged
<1>4. ASSUME NEW i \in admin[a].ids, DeleteCachedMessage(a, i)
      PROVE  id \notin recent'[Public] \cup queue'["chat"]
  <2>1. /\ removed' = removed
        /\ recent'[Public] = recent[Public] \ {i}
        /\ queue'["chat"] = queue["chat"] \ {i}
    BY <1>4 DEF DeleteCachedMessage, history, Inv, TypeOK, Kind, Box
  <2>2. \A b \in Admin : b # a => admin'[b] = admin[b]
    BY <1>4 DEF DeleteCachedMessage, AfterPurge
  <2>3. \A j \in admin[a].ids \ {i} : admin'[a].pc = "purge" /\ j \in admin'[a].ids
    BY <1>4 DEF DeleteCachedMessage, AfterPurge, Inv, TypeOK
  <2>4. id = i \/ Purged(id)
    BY <2>2, <2>3 DEF Purged
  <2> QED
    BY <1>1, <2>1, <2>4
<1> QED
  BY <1>2, <1>3, <1>4 DEF AdminStep, PurgeFails

LEMMA NextRemoves ==
  ASSUME QueuesDeleted, "purge" \notin Fails
  PROVE  Inv /\ StoreInv /\ RemovedForGood /\ [Next]_vars => RemovedForGood'
<1> SUFFICES ASSUME Inv, StoreInv, RemovedForGood, [Next]_vars, StoreInv' PROVE RemovedForGood'
  BY NextStore
<1>1. ASSUME NEW k \in Kind, NEW boxes, Cache(k, boxes), Public \in boxes => k = "chat"
      PROVE  RemovedForGood'
  <2>1. UNCHANGED <<removed, wiped, admin>>
    BY <1>1 DEF Cache
  <2>2. queue'["chat"] \subseteq queue["chat"] \cup {counter["chat"] + 1}
    BY <1>1 DEF Cache, Inv, TypeOK, Kind
  <2>3. recent'[Public] \subseteq recent[Public] \cup {counter["chat"] + 1}
    BY <1>1 DEF Cache, Trim, Box
  <2> QED
    BY <2>1, <2>2, <2>3, NothingBack
<1>2. CASE CacheChatMessage
  BY <1>1, <1>2 DEF CacheChatMessage, Kind
<1>3. CASE CachePrivateMessage
  BY <1>1, <1>3, CacheConstants DEF CachePrivateMessage, Kind
<1>4. ASSUME NEW p \in Flusher, FlushStep(p) PROVE RemovedForGood'
  <2>1. UNCHANGED <<removed, wiped, admin, recent>>
    BY <1>4 DEF FlushStep, Lock, ReadQueue, ReadQueueFails, Commit, Rollback, DeleteQueue,
                DeleteQueueFails, valkey, history
  <2>2. queue'["chat"] \subseteq queue["chat"]
    BY <1>4 DEF FlushStep, Lock, ReadQueue, ReadQueueFails, Commit, Rollback, DeleteQueue,
                DeleteQueueFails, valkey, Inv, TypeOK, Kind
  <2> QED
    BY <2>1, <2>2, NothingBack
<1>5. ASSUME NEW a \in Admin, AdminStep(a) PROVE RemovedForGood'
  BY <1>5, AdminRemoves
<1>6. CASE Tick \/ UNCHANGED vars
  BY <1>6, NothingBack DEF Tick, valkey, history, vars
<1>7. CASE RemoveMessagesByChannel
  <2>1. UNCHANGED <<removed, admin, recent, queue>>
    BY <1>7 DEF RemoveMessagesByChannel, valkey
  <2> QED
    BY <2>1 DEF RemovedForGood, StoreInv, GoneForGood, Gone, Kind
<1>8. ~Crash
  BY CacheConstants DEF Crash, QueuesDeleted, Inv, TypeOK
<1> QED
  BY <1>2, <1>3, <1>4, <1>5, <1>6, <1>7, <1>8 DEF Next

\* As long as the queues can be deleted, messages can be purged and the process
\* does not die, what an administrator has removed never returns to the table,
\* and is in the cache only until the requests that removed it are over.
THEOREM RemovedStaysAway == QueuesDeleted /\ "purge" \notin Fails => (Spec => []RemovedForGood)
<1> SUFFICES ASSUME QueuesDeleted, "purge" \notin Fails PROVE Spec => []RemovedForGood
  OBVIOUS
<1>1. Init => RemovedForGood
  BY DEF Init, RemovedForGood, Gone
<1>2. Inv /\ StoreInv /\ RemovedForGood /\ [Next]_vars => StoreInv' /\ RemovedForGood'
  BY NextStore, NextRemoves
<1> QED
  BY <1>1, <1>2, Invariant, InitStore, PTL DEF Spec

-----------------------------------------------------------------------------
\* The queues are bounded.

\* A queue is a finite set, so Full compares its length.
LEMMA QueueFinite ==
  ASSUME Inv, NEW k \in Kind
  PROVE  IsFiniteSet(queue[k]) /\ Cardinality(queue[k]) \in Nat
<1>1. queue[k] \subseteq 1..counter[k] /\ counter[k] \in Nat
  BY DEF Inv, TypeOK, Ids
<1>2. IsFiniteSet(1..counter[k])
  BY <1>1, FS_Interval
<1> QED
  BY <1>1, <1>2, FS_Subset, FS_CardinalityType

\* A step that adds nothing to a queue and leaves the hub where it is.
LEMMA QueuesShrink ==
  ASSUME Inv, Inv', FullIsFlushed, QueueBounded, \A k \in Kind : queue'[k] \subseteq queue[k],
         \/ flush'["hub"] = flush["hub"]
         \/ flush'["hub"].pc # "idle" /\ flush'["hub"].kind = flush["hub"].kind
  PROVE  FullIsFlushed' /\ QueueBounded'
<1>1. \A k \in Kind : /\ Cardinality(queue'[k]) \in Nat /\ Cardinality(queue[k]) \in Nat
                      /\ Cardinality(queue'[k]) <= Cardinality(queue[k])
  BY QueueFinite, FS_Subset, FS_CardinalityType
<1> QED
  BY <1>1, CacheConstants DEF FullIsFlushed, QueueBounded, Full

\* The hub takes a message only when no queue is full, and flushes the queue
\* that it fills.
LEMMA CacheBounded ==
  ASSUME Inv, FullIsFlushed, QueueBounded, NEW k \in Kind, NEW boxes, Cache(k, boxes)
  PROVE  FullIsFlushed' /\ QueueBounded'
<1> DEFINE q == queue[k] \cup {counter[k] + 1}
<1>1. queue'[k] = q /\ \A j \in Kind : j # k => queue'[j] = queue[j]
  BY DEF Cache, Inv, TypeOK
<1>2. \A j \in Kind : ~Full(queue[j]) /\ Cardinality(queue[j]) \in Nat
  BY QueueFinite DEF Cache, FullIsFlushed
<1>3. Cardinality(q) \in Nat /\ Cardinality(q) <= MaxCacheSize
  <2>1. IsFiniteSet(queue[k])
    BY QueueFinite
  <2>2. Cardinality(q) \in {Cardinality(queue[k]), Cardinality(queue[k]) + 1}
    BY <2>1, FS_AddElement
  <2> QED
    BY <1>2, <2>2, CacheConstants DEF Full
<1>4. \A j \in Kind : Full(queue'[j]) => j = k /\ Full(q)
  BY <1>1, <1>2
<1>5. Full(q) => flush'["hub"] = [pc |-> "lock", kind |-> k, batch |-> {}]
  BY DEF Cache, Inv, TypeOK, Flusher
<1>6. FullIsFlushed'
  <2> SUFFICES ASSUME NEW j \in Kind, Full(queue'[j])
               PROVE  flush'["hub"].pc # "idle" /\ flush'["hub"].kind = j
    BY DEF FullIsFlushed, Full
  <2> QED
    BY <1>4, <1>5
<1>7. QueueBounded'
  BY <1>1, <1>3 DEF QueueBounded
<1> QED
  BY <1>6, <1>7

\* When flushes succeed, the hub leaves its flush only with an empty queue.
LEMMA HubEmpties ==
  ASSUME Inv, Inv', StoreInv, FullIsFlushed, QueueBounded, FlushesSucceed, FlushStep("hub")
  PROVE  FullIsFlushed' /\ QueueBounded'
<1> DEFINE h == flush["hub"]
<1>1. /\ flush \in [Flusher -> [pc : FlushPc, kind : Kind, batch : SUBSET Nat]]
      /\ "hub" \in Flusher /\ h.kind \in Kind
  BY DEF Inv, TypeOK, Flusher
<1>2. CASE Lock("hub") \/ (ReadQueue("hub") /\ queue[h.kind] # {}) \/ Commit("hub")
  <2>1. queue' = queue /\ flush'["hub"].pc # "idle" /\ flush'["hub"].kind = h.kind
    BY <1>1, <1>2 DEF Lock, ReadQueue, Commit, valkey
  <2> QED
    BY <2>1, QueuesShrink
<1>3. CASE (ReadQueue("hub") /\ queue[h.kind] = {}) \/ DeleteQueue("hub")
  <2> DEFINE k == h.kind
  <2>1. /\ \A j \in Kind : queue'[j] = IF j = h.kind THEN {} ELSE queue[j]
        /\ \A j \in Kind : j # h.kind => ~Full(queue[j])
        /\ flush["hub"].pc # "idle"
    BY <1>1, <1>3 DEF ReadQueue, DeleteQueue, valkey, FullIsFlushed, Inv, TypeOK
  <2>2. ~Full({}) /\ Cardinality({}) <= MaxCacheSize
    BY FS_EmptySet, CacheConstants DEF Full
  <2> QED
    BY <2>1, <2>2 DEF FullIsFlushed, QueueBounded, Full
<1>4. ~Rollback("hub")
  BY <1>1 DEF Rollback, FlushesSucceed, Refused, StoreInv, BatchIsNew
<1>5. ~ReadQueueFails("hub") /\ ~DeleteQueueFails("hub")
  BY DEF ReadQueueFails, DeleteQueueFails, FlushesSucceed, QueuesDeleted
<1> QED
  BY <1>2, <1>3, <1>4, <1>5 DEF FlushStep

LEMMA NextBounded ==
  ASSUME FlushesSucceed
  PROVE  Inv /\ StoreInv /\ FullIsFlushed /\ QueueBounded /\ [Next]_vars
           => FullIsFlushed' /\ QueueBounded'
<1> SUFFICES ASSUME Inv, Inv', StoreInv, FullIsFlushed, QueueBounded, [Next]_vars
             PROVE  FullIsFlushed' /\ QueueBounded'
  BY NextInv
<1>1. CASE CacheChatMessage \/ CachePrivateMessage
  BY <1>1, CacheBounded DEF CacheChatMessage, CachePrivateMessage, Kind
<1>2. CASE FlushStep("hub")
  BY <1>2, HubEmpties
<1>3. CASE FlushStep("ticker")
  <2>1. flush'["hub"] = flush["hub"]
    BY <1>3 DEF FlushStep, Lock, ReadQueue, ReadQueueFails, Commit, Rollback, Return, DeleteQueue,
                DeleteQueueFails, Inv, TypeOK, Flusher
  <2>2. \A k \in Kind : queue'[k] \subseteq queue[k]
    BY <1>3 DEF FlushStep, Lock, ReadQueue, ReadQueueFails, Commit, Rollback, DeleteQueue,
                DeleteQueueFails, valkey, Inv, TypeOK
  <2> QED
    BY <2>1, <2>2, QueuesShrink
<1>4. ASSUME NEW a \in Admin, AdminStep(a) PROVE FullIsFlushed' /\ QueueBounded'
  <2>1. flush' = flush
    BY <1>4 DEF AdminStep, SelectMessages, DeleteMessages, NoRowsDeleted, DeleteMessagesFails,
                DeleteCachedMessage, PurgeFails
  <2>2. queue' = queue \/ \E id \in admin[a].ids : queue' = [queue EXCEPT !["chat"] = @ \ {id}]
    BY <1>4 DEF AdminStep, SelectMessages, DeleteMessages, NoRowsDeleted, DeleteMessagesFails,
                DeleteCachedMessage, PurgeFails, valkey
  <2>3. \A k \in Kind : queue'[k] \subseteq queue[k]
    BY <2>2 DEF Inv, TypeOK
  <2> QED
    BY <2>1, <2>3, QueuesShrink
<1>5. CASE Tick \/ RemoveMessagesByChannel \/ UNCHANGED vars
  <2>1. flush'["hub"] = flush["hub"] /\ queue' = queue
    BY <1>5 DEF Tick, RemoveMessagesByChannel, vars, valkey, Inv, TypeOK, Flusher
  <2> QED
    BY <2>1, QueuesShrink
<1>6. ~Crash
  BY CacheConstants DEF Crash, FlushesSucceed, QueuesDeleted, Inv, TypeOK
<1> QED
  BY <1>1, <1>2, <1>3, <1>4, <1>5, <1>6 DEF Next, Flusher

\* As long as no part of a flush fails and the process does not die, a queue
\* holds at most maxCacheSize messages, however many users write and whatever
\* the ticker and the administrators do meanwhile.
THEOREM BoundedQueues == FlushesSucceed => (Spec => []QueueBounded)
<1> SUFFICES ASSUME FlushesSucceed PROVE Spec => []QueueBounded
  OBVIOUS
<1>1. Init => FullIsFlushed /\ QueueBounded
  BY FS_EmptySet, CacheConstants DEF Init, FullIsFlushed, QueueBounded, Full
<1>2. Inv /\ StoreInv /\ FullIsFlushed /\ QueueBounded /\ [Next]_vars
        => StoreInv' /\ FullIsFlushed' /\ QueueBounded'
  BY NextStore, NextBounded DEF FlushesSucceed
<1> QED
  BY <1>1, <1>2, Invariant, InitStore, PTL DEF Spec

-----------------------------------------------------------------------------
\* The recent list is complete.

\* What one of the newest messages has after it is too little to push it out.
LEMMA TrimKeepsNewest ==
  ASSUME NEW n \in Nat, NEW list \in SUBSET (1..n), NEW id \in list, n - id < MaxCacheSize
  PROVE  id \in Trim(list)
<1> DEFINE newer == {j \in list : j > id}
<1>1. id \in 1..n /\ newer \in SUBSET ((id + 1)..n)
  <2>1. id \in Nat /\ \A j \in 1..n : j > id => j \in (id + 1)..n
    OBVIOUS
  <2> QED
    BY <2>1
<1>2. IsFiniteSet((id + 1)..n) /\ Cardinality((id + 1)..n) = n - id
  BY <1>1, FS_Interval
<1>3. Cardinality(newer) <= n - id /\ Cardinality(newer) \in Nat
  BY <1>1, <1>2, FS_Subset, FS_CardinalityType
<1> QED
  BY <1>1, <1>3, CacheConstants DEF Trim

\* A step that takes only removed messages from the recent list.
LEMMA RecentKept ==
  ASSUME RecentAccepted, RecentComplete, counter' = counter,
         recent'[Public] \subseteq recent[Public],
         recent[Public] \cup Gone("chat") \subseteq recent'[Public] \cup Gone("chat")'
  PROVE  RecentAccepted' /\ RecentComplete'
  BY DEF RecentAccepted, RecentComplete, Ids

LEMMA CacheRecent ==
  ASSUME Inv, RecentAccepted, RecentComplete, CacheChatMessage
  PROVE  RecentAccepted' /\ RecentComplete'
<1> DEFINE n == counter["chat"]
           list == recent[Public] \cup {n + 1}
<1>1. n \in Nat /\ counter'["chat"] = n + 1
  BY DEF CacheChatMessage, Cache, Inv, TypeOK, Kind
<1>2. recent'[Public] = Trim(list) /\ Gone("chat")' = Gone("chat")
  BY DEF CacheChatMessage, Cache, Box, Gone
<1>3. list \in SUBSET (1..(n + 1)) /\ recent[Public] \subseteq 1..n
  BY <1>1 DEF RecentAccepted, Ids
<1>4. RecentAccepted'
  BY <1>1, <1>2, <1>3 DEF RecentAccepted, Ids, Trim
<1>5. ASSUME NEW id \in 1..(n + 1), n + 1 - id < MaxCacheSize
      PROVE  id \in Trim(list) \cup Gone("chat")
  <2>1. CASE id \in list
    BY <1>1, <1>3, <1>5, <2>1, TrimKeepsNewest
  <2>2. CASE id \notin list
    <3>1. id \in 1..n /\ n - id < MaxCacheSize
      BY <1>1, <1>5, <2>2, CacheConstants
    <3> QED
      BY <2>2, <3>1 DEF RecentComplete, Ids
  <2> QED
    BY <2>1, <2>2
<1>6. RecentComplete'
  <2>1. \A id \in 1..(n + 1) : n + 1 - id < MaxCacheSize => id \in recent'[Public] \cup Gone("chat")'
    BY <1>2, <1>5
  <2> QED
    BY <1>1, <2>1 DEF RecentComplete, Ids
<1> QED
  BY <1>4, <1>6

LEMMA NextRecent == Inv /\ RecentAccepted /\ RecentComplete /\ [Next]_vars
                      => RecentAccepted' /\ RecentComplete'
<1> SUFFICES ASSUME Inv, RecentAccepted, RecentComplete, [Next]_vars
             PROVE  RecentAccepted' /\ RecentComplete'
  OBVIOUS
<1>1. CASE CacheChatMessage
  BY <1>1, CacheRecent
<1>2. CASE CachePrivateMessage
  <2>1. counter'["chat"] = counter["chat"]
    BY <1>2 DEF CachePrivateMessage, Cache, Inv, TypeOK, Kind
  <2>2. recent'[Public] = recent[Public] /\ Gone("chat")' = Gone("chat")
    BY <1>2, CacheConstants DEF CachePrivateMessage, Cache, Box, Gone
  <2> QED
    BY <2>1, <2>2 DEF RecentAccepted, RecentComplete, Ids
<1>3. ASSUME NEW p \in Flusher, FlushStep(p) PROVE RecentAccepted' /\ RecentComplete'
  <2>1. UNCHANGED <<counter, recent, removed, wiped>>
    BY <1>3 DEF FlushStep, Lock, ReadQueue, ReadQueueFails, Commit, Rollback, DeleteQueue,
                DeleteQueueFails, valkey, history
  <2> QED
    BY <2>1, RecentKept DEF Gone
<1>4. ASSUME NEW a \in Admin, AdminStep(a) PROVE RecentAccepted' /\ RecentComplete'
  <2>1. counter' = counter /\ Gone("chat") \subseteq Gone("chat")'
    BY <1>4 DEF AdminStep, SelectMessages, DeleteMessages, NoRowsDeleted, DeleteMessagesFails,
                DeleteCachedMessage, PurgeFails, valkey, history, Gone
  <2>2. \/ recent' = recent
        \/ \E id \in Gone("chat") : recent' = [recent EXCEPT ![Public] = @ \ {id}]
    BY <1>4 DEF AdminStep, SelectMessages, DeleteMessages, NoRowsDeleted, DeleteMessagesFails,
                DeleteCachedMessage, PurgeFails, valkey, Inv, PurgesRemoved
  <2>3. recent'[Public] \subseteq recent[Public] /\ recent[Public] \subseteq recent'[Public] \cup Gone("chat")
    BY <2>2 DEF Inv, TypeOK, Box
  <2> QED
    BY <2>1, <2>3, RecentKept
<1>5. CASE Tick \/ Crash \/ RemoveMessagesByChannel \/ UNCHANGED vars
  <2>1. UNCHANGED <<counter, recent>> /\ Gone("chat") \subseteq Gone("chat")'
    BY <1>5 DEF Tick, Crash, RemoveMessagesByChannel, vars, valkey, history, Gone
  <2> QED
    BY <2>1, RecentKept
<1> QED
  BY <1>1, <1>2, <1>3, <1>4, <1>5 DEF Next

\* Whatever fails and however often the process dies, the newest maxCacheSize
\* public messages are in the recent list, except those that were removed.
THEOREM NewestAreRecent == Spec => []RecentComplete
<1>1. Init => RecentAccepted /\ RecentComplete
  BY DEF Init, RecentAccepted, RecentComplete, Ids, Box, Kind
<1> QED
  BY <1>1, Invariant, NextRecent, PTL DEF Spec
=============================================================================

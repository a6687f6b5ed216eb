----------------------- MODULE MessageCacheProperties -----------------------
(***************************************************************************)
(* What the message cache promises.                                        *)
(***************************************************************************)
EXTENDS MessageCache

Ids(k) == 1..counter[k]

\* Only public messages can be removed.
Gone(k) == IF k = "chat" THEN removed \cup wiped ELSE {}

\* Every variable keeps to its type.
TypeOK ==
    /\ counter \in [Kind -> Nat]
    /\ recent \in [Box -> SUBSET Nat]
    /\ queue \in [Kind -> SUBSET Nat]
    /\ table \in [Kind -> SUBSET Nat]
    /\ mutex \in Flusher \cup {"free"}
    /\ flush \in [Flusher -> [pc : FlushPc, kind : Kind, batch : SUBSET Nat]]
    /\ admin \in [Admin -> [pc : {"idle", "delete", "purge"}, ids : SUBSET Nat]]
    /\ removed \in SUBSET Nat /\ wiped \in SUBSET Nat
    /\ late \in [Kind -> SUBSET Nat]
    /\ crashes \in Nat
    /\ \A k \in Kind : queue[k] \cup table[k] \cup late[k] \subseteq Ids(k)

\* A message that was accepted is in its queue or in the database, whatever
\* fails and whenever the process dies, unless an administrator removed it or
\* it was queued while a flush of its kind had read the queue and not deleted
\* it: then the DEL of that flush may take it along.
Accounted ==
    \A k \in Kind : Ids(k) \subseteq queue[k] \cup table[k] \cup late[k] \cup Gone(k)

\* The inductive reason for Accounted.  A flusher that has read the queue holds
\* the mutex, so there is one of them; what it copied is what the queue still
\* holds, apart from late messages; when it comes to delete the queue, all of
\* that is stored; and what an administrator's request selected is stored or has
\* been removed, by itself or another, and is removed when it is purged.
OneFlusher ==
    \A p \in Flusher : flush[p].pc \in {"range", "commit", "del"} => mutex = p

BatchCovers ==
    \A p \in Flusher :
      /\ flush[p].pc = "commit" =>
           /\ flush[p].batch \subseteq Ids(flush[p].kind)
           /\ queue[flush[p].kind] \subseteq flush[p].batch \cup late[flush[p].kind]
      /\ flush[p].pc = "del" =>
           queue[flush[p].kind] \subseteq
             table[flush[p].kind] \cup late[flush[p].kind] \cup Gone(flush[p].kind)

PurgesRemoved ==
    \A a \in Admin :
      /\ admin[a].pc = "delete" => admin[a].ids \subseteq table["chat"] \cup Gone("chat")
      /\ admin[a].pc = "purge" => admin[a].ids \subseteq Gone("chat")

Inv == TypeOK /\ Accounted /\ OneFlusher /\ BatchCovers /\ PurgesRemoved

\* As long as no call fails and the process does not die, a message that an
\* administrator has removed, alone or with its channel, does not come back into
\* the table; and, once the requests that removed messages are over, it is not in
\* the cache either, also when two of them and a channel's removal overlap.
RemovedForGood ==
    \A id \in Gone("chat") :
      /\ id \notin table["chat"]
      /\ (id \in removed /\ \A a \in Admin : admin[a].pc = "purge" => id \notin admin[a].ids)
           => id \notin recent[Public] \cup queue["chat"]

\* As long as no call fails, a queue holds at most maxCacheSize messages: the
\* hub stores a full queue before it takes the next message.
QueueBounded == \A k \in Kind : Cardinality(queue[k]) <= MaxCacheSize

\* The last maxCacheSize public messages are in the recent list, except those
\* an administrator removed.
RecentComplete ==
    \A id \in Ids("chat") :
      counter["chat"] - id < MaxCacheSize => id \in recent[Public] \cup Gone("chat")

\* When no call fails, every message that is queued is stored in the end or
\* removed by an administrator, unless it was queued between the LRANGE and the
\* DEL of a flush of its kind: the DEL takes such a message along, and it is never
\* stored (flush_cache.go:81), although flush_messages is the queue of messages
\* waiting to be persisted (cache/README.md:11).
Persisted ==
    \A k \in Kind : \A id \in 1..MsgMax[k] :
      (id \in queue[k]) ~> (id \in table[k] \cup late[k] \cup Gone(k))

\* The DEL of the queues never fails, and the process does not die: the two
\* failures that leave stored messages in a queue.
QueuesDeleted == "del" \notin Fails /\ CrashMax = 0

\* The inductive reason for the store, and for RemovedForGood, when queues are
\* deleted.  A stored message, removed since or not, is in the queue only until
\* the flush that stored it deletes the queue; what a flusher is about to commit
\* is new to the table and is the older part of the queue; and what was removed
\* is a message that is not in the table.
StoredLeavesQueue ==
    \A k \in Kind :
      \/ queue[k] \cap (table[k] \cup Gone(k)) = {}
      \/ \E p \in Flusher : flush[p].kind = k /\ flush[p].pc = "del"

BatchIsNew ==
    \A p \in Flusher : flush[p].pc = "commit" =>
      LET k == flush[p].kind
      IN /\ flush[p].batch # {}
         /\ flush[p].batch \cap (table[k] \cup Gone(k)) = {}
         /\ \E n \in Ids(k) : flush[p].batch = {i \in queue[k] : i <= n}

GoneForGood == \A k \in Kind : Gone(k) \subseteq Ids(k) \ table[k]

StoreInv == StoredLeavesQueue /\ BatchIsNew /\ GoneForGood

\* What else has to succeed for the queues to be bounded.
FlushesSucceed == QueuesDeleted /\ {"range", "insert"} \cap Fails = {} /\ Unstorable = {}

\* The inductive reason for QueueBounded: only the hub fills a queue, and it does
\* not take the next message before it has flushed the queue that is full.
FullIsFlushed ==
    \A k \in Kind : Full(queue[k]) => flush["hub"].pc # "idle" /\ flush["hub"].kind = k

\* The inductive reason for RecentComplete: only messages that were accepted are
\* in the recent list, so at most those that came after a message push it out.
RecentAccepted == recent[Public] \subseteq Ids("chat")

\* The cache implements the message store: what waits is what is queued and not
\* stored or removed yet, and a store settles until the queue is deleted.
Store == INSTANCE MessageStore WITH
    accepted <- counter,
    waiting <- [k \in Kind |-> (queue[k] \ table[k]) \ Gone(k)],
    stored <- table,
    settling <- [k \in Kind |-> \E p \in Flusher : flush[p].kind = k /\ flush[p].pc = "del"]
StoreSpec == Store!StoreSpec
=============================================================================

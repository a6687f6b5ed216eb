---------------------------- MODULE MessageCache ----------------------------
(***************************************************************************)
(* The message cache (chatserver/internal/cache/cache.go, flush_cache.go,  *)
(* private_messages.go) and what it keeps in Valkey and PostgreSQL.        *)
(*                                                                         *)
(* Every accepted message gets the next cacheID of its kind, enters the    *)
(* recent list of those who may be shown it, and a flush queue.  A flush   *)
(* copies the whole queue into the database in one transaction and then    *)
(* deletes the queue.  The hub flushes when the queue is full, a ticker    *)
(* flushes both queues from time to time, and one mutex keeps the two      *)
(* apart; nothing keeps the hub from caching while the ticker flushes.     *)
(*                                                                         *)
(* A message is its cacheID.  The scripts that push are atomic and cacheIDs*)
(* only grow, so the order of a list is that of its cacheIDs, and a list   *)
(* is modelled as the set of them.                                         *)
(***************************************************************************)
EXTENDS Integers, FiniteSets

CONSTANTS
    User,           \* who exchanges private messages
    Admin,          \* who removes messages
    Public,         \* the recent list of public messages
    MaxCacheSize,   \* length of a recent list, and of a queue that is full (500)
    Unstorable,     \* cacheIDs of public messages the table refuses (a channel
                    \* name longer than its column)
    Fails,          \* the calls that may fail
    MsgMax,         \* bound: messages of each kind
    CrashMax        \* bound: crashes of the server process

Kind == {"chat", "private"}
Calls == {"range", "insert", "del", "delete", "purge"}

ASSUME CacheConstants ==
    /\ Public \notin User
    /\ MaxCacheSize \in Nat \ {0}
    /\ Unstorable \subseteq Nat
    /\ Fails \subseteq Calls
    /\ MsgMax \in [Kind -> Nat]
    /\ CrashMax \in Nat

VARIABLES
    counter,   \* Valkey: the last cacheID given out, per kind
    recent,    \* Valkey: the recent lists
    queue,     \* Valkey: the flush queues
    table,     \* PostgreSQL: the cacheIDs of the committed rows, per kind
    mutex,     \* who holds flushMutex
    flush,     \* where each flusher is
    admin,     \* where each administrator's DELETE /messages is
    removed,   \* history: public messages whose row such a request deleted
    wiped,     \* history: those whose row went with its channel
    late,      \* history: messages queued while a flush of their kind had read the queue
    crashes    \* crashes so far

valkey == <<counter, recent, queue>>
history == <<removed, wiped, late>>
vars == <<counter, recent, queue, table, mutex, flush, admin, removed, wiped, late, crashes>>

Flusher == {"hub", "ticker"}
Box == User \cup {Public}
FlushPc == {"idle", "lock", "range", "commit", "del"}
Idle == [pc |-> "idle", kind |-> "chat", batch |-> {}]
AdminIdle == [pc |-> "idle", ids |-> {}]

Init ==
    /\ counter = [k \in Kind |-> 0]
    /\ recent = [b \in Box |-> {}]
    /\ queue = [k \in Kind |-> {}]
    /\ table = [k \in Kind |-> {}]
    /\ mutex = "free"
    /\ flush = [p \in Flusher |-> Idle]
    /\ admin = [a \in Admin |-> AdminIdle]
    /\ removed = {}
    /\ wiped = {}
    /\ late = [k \in Kind |-> {}]
    /\ crashes = 0

-----------------------------------------------------------------------------
\* CacheChatMessage and CachePrivateMessage, called by the hub: the script,
\* and the flush that follows in the same call when the queue is full.

\* Mutant: the list is trimmed to one less.
TrimOffByOne(list) == {i \in list : Cardinality({j \in list : j > i}) < MaxCacheSize - 1}

\* LTRIM -maxSize -1
Trim(list) == {i \in list : Cardinality({j \in list : j > i}) < MaxCacheSize}

\* Mutant: the queue is full one message too late.
FullOffByOne(q) == Cardinality(q) > MaxCacheSize

Full(q) == Cardinality(q) >= MaxCacheSize

\* A flush of this kind has read the queue and not deleted it yet.
Flushing(k) == \E p \in Flusher : flush[p].kind = k /\ flush[p].pc \in {"commit", "del"}

Cache(k, boxes) ==
    LET id == counter[k] + 1
        q == queue[k] \cup {id}
    IN /\ flush["hub"].pc = "idle"
       /\ counter[k] < MsgMax[k]
       /\ counter' = [counter EXCEPT ![k] = id]
       /\ recent' = [b \in Box |-> IF b \in boxes THEN Trim(recent[b] \cup {id}) ELSE recent[b]]
       /\ queue' = [queue EXCEPT ![k] = q]
       /\ flush' = IF Full(q)
                   THEN [flush EXCEPT !["hub"] = [pc |-> "lock", kind |-> k, batch |-> {}]]
                   ELSE flush
       /\ late' = IF Flushing(k) THEN [late EXCEPT ![k] = @ \cup {id}] ELSE late
       /\ UNCHANGED <<table, mutex, admin, removed, wiped, crashes>>

CacheChatMessage == Cache("chat", {Public})
CachePrivateMessage == \E owner, recipient \in User : Cache("private", {owner, recipient})

-----------------------------------------------------------------------------
\* FlushCacheToDB and FlushPrivateMessagesToDB

\* StartPeriodicFlush: the public messages, then the private ones.
Tick ==
    /\ flush["ticker"].pc = "idle"
    /\ flush' = [flush EXCEPT !["ticker"] = [pc |-> "lock", kind |-> "chat", batch |-> {}]]
    /\ UNCHANGED <<valkey, table, mutex, admin, history, crashes>>

\* Mutant: the ticker does not go on to the private messages.
NextFlushForgotten(p) == Idle

\* What the flusher does when its flush returns.
NextFlush(p) ==
    IF p = "ticker" /\ flush[p].kind = "chat"
    THEN [pc |-> "lock", kind |-> "private", batch |-> {}]
    ELSE Idle

Return(p) ==
    /\ mutex' = "free"
    /\ flush' = [flush EXCEPT ![p] = NextFlush(p)]

\* Mutant: the mutex is not waited for.
LockWithoutWaiting(p) ==
    /\ flush[p].pc = "lock"
    /\ mutex' = p
    /\ flush' = [flush EXCEPT ![p].pc = "range"]
    /\ UNCHANGED <<valkey, table, admin, history, crashes>>

Lock(p) ==
    /\ flush[p].pc = "lock"
    /\ mutex = "free"
    /\ mutex' = p
    /\ flush' = [flush EXCEPT ![p].pc = "range"]
    /\ UNCHANGED <<valkey, table, admin, history, crashes>>

\* LRANGE 0 -1.  What the flush reads it can decode: every entry is what the
\* scripts made of a message the server itself encoded, with texts, one time and
\* a small number in it, so the branch that skips an entry is never taken.
ReadQueue(p) ==
    /\ flush[p].pc = "range"
    /\ IF queue[flush[p].kind] = {}
       THEN Return(p)
       ELSE /\ flush' = [flush EXCEPT ![p].pc = "commit", ![p].batch = queue[flush[p].kind]]
            /\ UNCHANGED mutex
    /\ UNCHANGED <<valkey, table, admin, history, crashes>>

ReadQueueFails(p) ==
    /\ "range" \in Fails
    /\ flush[p].pc = "range"
    /\ Return(p)
    /\ UNCHANGED <<valkey, table, admin, history, crashes>>

\* cache_id is UNIQUE, so a batch with a row that is in the table is refused.
Refused(k, batch) ==
    \/ batch \cap table[k] # {}
    \/ k = "chat" /\ batch \cap Unstorable # {}

\* Mutant: a row that cannot be stored is skipped, and the others are committed.
CommitSkipping(p) ==
    /\ flush[p].pc = "commit"
    /\ \E i \in flush[p].batch :
         table' = [table EXCEPT ![flush[p].kind] = @ \cup (flush[p].batch \ {i})]
    /\ flush' = [flush EXCEPT ![p].pc = "del"]
    /\ UNCHANGED <<valkey, mutex, admin, history, crashes>>

Commit(p) ==
    /\ flush[p].pc = "commit"
    /\ ~Refused(flush[p].kind, flush[p].batch)
    /\ table' = [table EXCEPT ![flush[p].kind] = @ \cup flush[p].batch]
    /\ flush' = [flush EXCEPT ![p].pc = "del"]
    /\ UNCHANGED <<valkey, mutex, admin, history, crashes>>

\* Mutant: the queue is deleted although the transaction was rolled back.
RollbackClearing(p) ==
    /\ flush[p].pc = "commit"
    /\ "insert" \in Fails \/ Refused(flush[p].kind, flush[p].batch)
    /\ Return(p)
    /\ queue' = [queue EXCEPT ![flush[p].kind] = {}]
    /\ UNCHANGED <<counter, recent, table, admin, history, crashes>>

\* Any failure rolls the transaction back and leaves the queue as it is.
Rollback(p) ==
    /\ flush[p].pc = "commit"
    /\ "insert" \in Fails \/ Refused(flush[p].kind, flush[p].batch)
    /\ Return(p)
    /\ UNCHANGED <<valkey, table, admin, history, crashes>>

\* DEL of the whole queue, with what was pushed since it was read.
DeleteQueue(p) ==
    /\ flush[p].pc = "del"
    /\ queue' = [queue EXCEPT ![flush[p].kind] = {}]
    /\ Return(p)
    /\ UNCHANGED <<counter, recent, table, admin, history, crashes>>

\* A DEL that fails is only logged.
DeleteQueueFails(p) ==
    /\ "del" \in Fails
    /\ flush[p].pc = "del"
    /\ Return(p)
    /\ UNCHANGED <<valkey, table, admin, history, crashes>>

FlushStep(p) ==
    \/ Lock(p) \/ ReadQueue(p) \/ ReadQueueFails(p)
    \/ Commit(p) \/ Rollback(p)
    \/ DeleteQueue(p) \/ DeleteQueueFails(p)

-----------------------------------------------------------------------------
\* DELETE /messages (handlers/messages.go): RemoveMessages selects the cacheIDs
\* of the rows and then deletes the rows, in two statements; each is then purged
\* from the cache.  Bound: one such request at a time of each administrator.

SelectMessages(a) ==
    /\ admin[a].pc = "idle"
    /\ \E ids \in SUBSET table["chat"] \ {{}} : admin' = [admin EXCEPT ![a] = [pc |-> "delete", ids |-> ids]]
    /\ UNCHANGED <<valkey, table, mutex, flush, history, crashes>>

\* Another request may have deleted some of the rows meanwhile: all that were
\* selected are purged.
DeleteMessages(a) ==
    LET rows == admin[a].ids \cap table["chat"]
    IN /\ admin[a].pc = "delete"
       /\ rows # {}
       /\ table' = [table EXCEPT !["chat"] = @ \ rows]
       /\ removed' = removed \cup rows
       /\ admin' = [admin EXCEPT ![a].pc = "purge"]
       /\ UNCHANGED <<valkey, mutex, flush, wiped, late, crashes>>

\* No row is left: 404, and nothing is purged.
NoRowsDeleted(a) ==
    /\ admin[a].pc = "delete"
    /\ admin[a].ids \cap table["chat"] = {}
    /\ admin' = [admin EXCEPT ![a] = AdminIdle]
    /\ UNCHANGED <<valkey, table, mutex, flush, history, crashes>>

\* The statement fails: 500, and nothing is purged.
DeleteMessagesFails(a) ==
    /\ "delete" \in Fails
    /\ admin[a].pc = "delete"
    /\ admin' = [admin EXCEPT ![a] = AdminIdle]
    /\ UNCHANGED <<valkey, table, mutex, flush, history, crashes>>

AfterPurge(a, id) ==
    LET rest == admin[a].ids \ {id}
    IN [admin EXCEPT ![a] = IF rest = {} THEN AdminIdle ELSE [pc |-> "purge", ids |-> rest]]

\* Mutant: only the queue is purged, not the recent list.
DeleteFromQueueOnly(a, id) ==
    /\ admin[a].pc = "purge" /\ id \in admin[a].ids
    /\ queue' = [queue EXCEPT !["chat"] = @ \ {id}]
    /\ admin' = AfterPurge(a, id)
    /\ UNCHANGED <<counter, recent, table, mutex, flush, history, crashes>>

DeleteCachedMessage(a, id) ==
    /\ admin[a].pc = "purge" /\ id \in admin[a].ids
    /\ recent' = [recent EXCEPT ![Public] = @ \ {id}]
    /\ queue' = [queue EXCEPT !["chat"] = @ \ {id}]
    /\ admin' = AfterPurge(a, id)
    /\ UNCHANGED <<counter, table, mutex, flush, history, crashes>>

\* A purge that fails is only logged.
PurgeFails(a, id) ==
    /\ "purge" \in Fails
    /\ admin[a].pc = "purge" /\ id \in admin[a].ids
    /\ admin' = AfterPurge(a, id)
    /\ UNCHANGED <<valkey, table, mutex, flush, history, crashes>>

AdminStep(a) ==
    \/ SelectMessages(a)
    \/ DeleteMessages(a) \/ NoRowsDeleted(a) \/ DeleteMessagesFails(a)
    \/ \E id \in admin[a].ids : DeleteCachedMessage(a, id) \/ PurgeFails(a, id)

\* Removing a channel with its messages (db/channels.go) deletes its rows, here
\* those of any channel, and leaves the cache as it is.
RemoveMessagesByChannel ==
    /\ \E ids \in SUBSET table["chat"] \ {{}} :
         /\ table' = [table EXCEPT !["chat"] = @ \ ids]
         /\ wiped' = wiped \cup ids
    /\ UNCHANGED <<valkey, mutex, flush, admin, removed, late, crashes>>

-----------------------------------------------------------------------------
\* Mutant: the counter is kept in the memory of the server.
CrashLosingCounter ==
    /\ crashes < CrashMax
    /\ crashes' = crashes + 1
    /\ counter' = [k \in Kind |-> 0]
    /\ mutex' = "free"
    /\ flush' = [p \in Flusher |-> Idle]
    /\ admin' = [a \in Admin |-> AdminIdle]
    /\ UNCHANGED <<recent, queue, table, history>>

\* The server process dies and is started again; an open transaction is rolled
\* back, and what Valkey and PostgreSQL hold stays.
Crash ==
    /\ crashes < CrashMax
    /\ crashes' = crashes + 1
    /\ mutex' = "free"
    /\ flush' = [p \in Flusher |-> Idle]
    /\ admin' = [a \in Admin |-> AdminIdle]
    /\ UNCHANGED <<valkey, table, history>>

Next ==
    \/ CacheChatMessage
    \/ CachePrivateMessage
    \/ Tick
    \/ \E p \in Flusher : FlushStep(p)
    \/ \E a \in Admin : AdminStep(a)
    \/ RemoveMessagesByChannel
    \/ Crash

Spec == Init /\ [][Next]_vars

\* The ticker keeps ticking and a flush in progress goes on; sync.Mutex hands
\* itself over to a goroutine that has waited for it (starvation mode).
Fairness ==
    /\ WF_vars(Tick)
    /\ \A p \in Flusher : WF_vars(FlushStep(p)) /\ SF_vars(Lock(p))

FairSpec == Spec /\ Fairness
=============================================================================

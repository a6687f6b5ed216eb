------------------------------ MODULE Channels ------------------------------
(***************************************************************************)
(* The channels (chatserver/internal/db/channels.go), as the handler of    *)
(* /channels uses them (server/handlers/channels.go).  Requests of several *)
(* administrators run at the same time: creating reads and inserts without *)
(* a transaction; moving and removing are transactions of many statements, *)
(* at PostgreSQL's READ COMMITTED: a statement sees what is committed when *)
(* it starts and what its own transaction wrote; a row one transaction     *)
(* wrote stays locked until that transaction ends; a statement that        *)
(* had to wait for a row works on what it then finds.                      *)
(*                                                                         *)
(* Messages are filed under the name of their channel, not under its id.   *)
(***************************************************************************)
EXTENDS Integers, SequencesExt

CONSTANTS
    Name,         \* channel names
    NoName,       \* the absence of one
    Admin,        \* requests that may run at the same time
    IdMax,        \* bound: channels ever inserted
    MsgMax,       \* bound: messages ever filed
    RequestMax    \* bound: requests that move, remove or rename

ASSUME ChannelConstants ==
    /\ NoName \notin Name
    /\ IdMax \in Nat /\ MsgMax \in Nat /\ RequestMax \in Nat

Ids == 1..IdMax
NoRow == [name |-> NoName, order |-> 0]

VARIABLES
    rows,       \* the committed table: for each id its name and sort_order
    dirty,      \* per request: the rows its transaction wrote and holds locked
    nextId,     \* the sequence behind the ids
    req,        \* what each request is and where it is
    filed,      \* the messages in chat_messages, each with its channel's name
    wiped,      \* per request: the messages its transaction deleted
    requests    \* requests made so far that move, remove or rename

vars == <<rows, dirty, nextId, req, filed, wiped, requests>>

Idle == [pc |-> "idle", id |-> 0, before |-> 0, name |-> NoName, purge |-> FALSE, max |-> 0,
         list |-> <<>>, at |-> 1]
ReqPc == {"idle", "insert", "rename", "movelist", "name", "delete", "purge", "list", "update"}
NoWrites == <<>>

Init ==
    /\ rows = [i \in Ids |-> NoRow]
    /\ dirty = [a \in Admin |-> NoWrites]
    /\ nextId = 1
    /\ req = [a \in Admin |-> Idle]
    /\ filed = {}
    /\ wiped = [a \in Admin |-> {}]
    /\ requests = 0

-----------------------------------------------------------------------------
Live(view) == {i \in Ids : view[i] # NoRow}

\* What a statement of a's transaction sees.
View(a) == [i \in Ids |-> IF i \in DOMAIN dirty[a] THEN dirty[a][i] ELSE rows[i]]

Write(written, i, r) ==
    [j \in {i} \cup DOMAIN written |-> IF j = i THEN r ELSE written[j]]

Precedes(view, i, j) ==
    \/ view[i].order < view[j].order
    \/ view[i].order = view[j].order /\ i < j

\* SELECT id ... ORDER BY sort_order, id has one result.
Sorted(view) ==
    {s \in [1..Cardinality(Live(view)) -> Live(view)] :
        \A p, q \in DOMAIN s : p < q => Precedes(view, s[p], s[q])}

\* COALESCE(MAX(sort_order), 0)
MaxOrder == Max({rows[i].order : i \in Live(rows)} \cup {0})

Locked(a, i) == \E b \in Admin \ {a} : i \in DOMAIN dirty[b]

\* The row of a name that another transaction has written decides only when that
\* transaction ends.
NameLocked(a, n) == \E i \in Ids : rows[i].name = n /\ Locked(a, i)
Taken(n) == \E i \in Ids : rows[i].name = n

-----------------------------------------------------------------------------
\* CreateChannel

\* Mutant: the largest sort_order is taken again.
InsertWithoutIncrement(a) ==
    /\ req[a].pc = "insert"
    /\ ~NameLocked(a, req[a].name)
    /\ IF Taken(req[a].name) \/ nextId > IdMax
       THEN UNCHANGED <<rows, nextId>>
       ELSE /\ rows' = [rows EXCEPT ![nextId] = [name |-> req[a].name, order |-> req[a].max]]
            /\ nextId' = nextId + 1
    /\ req' = [req EXCEPT ![a] = Idle]
    /\ UNCHANGED <<dirty, filed, wiped, requests>>

SelectMax(a) ==
    /\ req[a].pc = "idle"
    /\ \E n \in Name :
         req' = [req EXCEPT ![a] = [Idle EXCEPT !.pc = "insert", !.name = n, !.max = MaxOrder]]
    /\ nextId <= IdMax
    /\ UNCHANGED <<rows, dirty, nextId, filed, wiped, requests>>

\* ON CONFLICT (name) DO NOTHING.  (PostgreSQL uses up an id all the same; the
\* gap changes nothing.)  Bound: nor does it insert beyond IdMax.
InsertChannel(a) ==
    /\ req[a].pc = "insert"
    /\ ~NameLocked(a, req[a].name)
    /\ IF Taken(req[a].name) \/ nextId > IdMax
       THEN UNCHANGED <<rows, nextId>>
       ELSE /\ rows' = [rows EXCEPT ![nextId] = [name |-> req[a].name, order |-> req[a].max + 1]]
            /\ nextId' = nextId + 1
    /\ req' = [req EXCEPT ![a] = Idle]
    /\ UNCHANGED <<dirty, filed, wiped, requests>>

-----------------------------------------------------------------------------
\* Requests that name a channel name one that exists or has existed.

Request(a, r) ==
    /\ req[a].pc = "idle"
    /\ requests < RequestMax
    /\ requests' = requests + 1
    /\ req' = [req EXCEPT ![a] = r]
    /\ UNCHANGED <<rows, dirty, nextId, filed, wiped>>

Known == 1..(nextId - 1)

Begin(a) == \E i \in Known :
    \/ \E n \in Name : Request(a, [Idle EXCEPT !.pc = "rename", !.id = i, !.name = n])
    \/ \E j \in (Known \cup {0}) \ {i} :
         Request(a, [Idle EXCEPT !.pc = "movelist", !.id = i, !.before = j])
    \/ \E purge \in BOOLEAN : Request(a, [Idle EXCEPT !.pc = "name", !.id = i, !.purge = purge])

\* UpdateChannel: one statement, refused when the name is another channel's.
UpdateChannel(a) ==
    LET i == req[a].id
        n == req[a].name
    IN /\ req[a].pc = "rename"
       /\ ~Locked(a, i)
       /\ ~NameLocked(a, n)
       /\ rows' = IF rows[i] = NoRow \/ Taken(n) THEN rows ELSE [rows EXCEPT ![i].name = n]
       /\ req' = [req EXCEPT ![a] = Idle]
       /\ UNCHANGED <<dirty, nextId, filed, wiped, requests>>

-----------------------------------------------------------------------------
\* MoveChannelBefore: the ids in order, without the moved one, which is put
\* before its target, or last when no channel has its id (none ever has id 0).

\* An id is in a list once.
At(list, id) == CHOOSE p \in DOMAIN list : list[p] = id
Rest(list, id) == IF Contains(list, id) THEN RemoveAt(list, At(list, id)) ELSE list

\* Mutant: it is put after its target.
MoveAfter(list, id, before) ==
    LET rest == Rest(list, id)
    IN IF Contains(rest, before)
       THEN InsertAt(rest, At(rest, before) + 1, id)
       ELSE Append(rest, id)

Move(list, id, before) ==
    LET rest == Rest(list, id)
    IN IF Contains(rest, before)
       THEN InsertAt(rest, At(rest, before), id)
       ELSE Append(rest, id)

ListForMove(a) ==
    /\ req[a].pc = "movelist"
    /\ \E s \in Sorted(rows) :
         req' = [req EXCEPT ![a].pc = "update", ![a].list = Move(s, req[a].id, req[a].before)]
    /\ UNCHANGED <<rows, dirty, nextId, filed, wiped, requests>>

\* Mutant: an UPDATE that finds no row puts one there.
UpdateOrInsert(a) ==
    LET i == req[a].list[req[a].at]
    IN /\ req[a].pc = "update"
       /\ req[a].at <= Len(req[a].list)
       /\ ~Locked(a, i)
       /\ dirty' = [dirty EXCEPT ![a] = Write(@, i, [View(a)[i] EXCEPT !.order = req[a].at])]
       /\ req' = [req EXCEPT ![a].at = @ + 1]
       /\ UNCHANGED <<rows, nextId, filed, wiped, requests>>

\* The new sort_orders, a statement for each id of the list; nothing is updated
\* for an id whose row is not there (any more).
UpdateOrder(a) ==
    LET i == req[a].list[req[a].at]
    IN /\ req[a].pc = "update"
       /\ req[a].at <= Len(req[a].list)
       /\ ~Locked(a, i)
       /\ dirty' = IF View(a)[i] = NoRow THEN dirty
                   ELSE [dirty EXCEPT ![a] = Write(@, i, [View(a)[i] EXCEPT !.order = req[a].at])]
       /\ req' = [req EXCEPT ![a].at = @ + 1]
       /\ UNCHANGED <<rows, nextId, filed, wiped, requests>>

\* Mutant: the transaction is not ended, and keeps its locks.
CommitKeepingLocks(a) ==
    /\ req[a].pc = "update"
    /\ req[a].at > Len(req[a].list)
    /\ rows' = View(a)
    /\ filed' = filed \ wiped[a]
    /\ req' = [req EXCEPT ![a] = Idle]
    /\ UNCHANGED <<dirty, wiped, nextId, requests>>

Commit(a) ==
    /\ req[a].pc = "update"
    /\ req[a].at > Len(req[a].list)
    /\ rows' = View(a)
    /\ filed' = filed \ wiped[a]
    /\ req' = [req EXCEPT ![a] = Idle]
    /\ dirty' = [dirty EXCEPT ![a] = NoWrites]
    /\ wiped' = [wiped EXCEPT ![a] = {}]
    /\ UNCHANGED <<nextId, requests>>

-----------------------------------------------------------------------------
\* RemoveChannelByID: the name, the row, on request the messages filed under the
\* name, and then the sort_orders of the channels that are left.

SelectName(a) ==
    /\ req[a].pc = "name"
    /\ req' = [req EXCEPT ![a] = IF rows[req[a].id] = NoRow THEN Idle
                                 ELSE [@ EXCEPT !.pc = "delete", !.name = rows[req[a].id].name]]
    /\ UNCHANGED <<rows, dirty, nextId, filed, wiped, requests>>

DeleteRow(a) ==
    LET i == req[a].id
    IN /\ req[a].pc = "delete"
       /\ ~Locked(a, i)
       /\ dirty' = IF rows[i] = NoRow THEN dirty ELSE [dirty EXCEPT ![a] = Write(@, i, NoRow)]
       /\ req' = [req EXCEPT ![a].pc = IF req[a].purge THEN "purge" ELSE "list"]
       /\ UNCHANGED <<rows, nextId, filed, wiped, requests>>

\* Mutant: every channel's messages are deleted.
PurgeEverything(a) ==
    /\ req[a].pc = "purge"
    /\ wiped' = [wiped EXCEPT ![a] = filed]
    /\ req' = [req EXCEPT ![a].pc = "list"]
    /\ UNCHANGED <<rows, dirty, nextId, filed, requests>>

RemoveMessagesByChannel(a) ==
    /\ req[a].pc = "purge"
    /\ wiped' = [wiped EXCEPT ![a] = {m \in filed : m.channel = req[a].name}]
    /\ req' = [req EXCEPT ![a].pc = "list"]
    /\ UNCHANGED <<rows, dirty, nextId, filed, requests>>

ListForRemove(a) ==
    /\ req[a].pc = "list"
    /\ \E s \in Sorted(View(a)) : req' = [req EXCEPT ![a].pc = "update", ![a].list = s]
    /\ UNCHANGED <<rows, dirty, nextId, filed, wiped, requests>>

-----------------------------------------------------------------------------
\* A statement fails, or PostgreSQL picks the transaction as the victim of a
\* deadlock: it is rolled back, and the request answered with an error.
Rollback(a) ==
    /\ req[a].pc # "idle"
    /\ req' = [req EXCEPT ![a] = Idle]
    /\ dirty' = [dirty EXCEPT ![a] = NoWrites]
    /\ wiped' = [wiped EXCEPT ![a] = {}]
    /\ UNCHANGED <<rows, nextId, filed, requests>>

\* The row the next statement of a's transaction writes.
NextRow(a) ==
    CASE req[a].pc = "update" /\ req[a].at <= Len(req[a].list) -> {req[a].list[req[a].at]}
      [] req[a].pc = "delete" -> {req[a].id}
      [] OTHER -> {}

WaitsFor(a, b) == a # b /\ NextRow(a) \cap DOMAIN dirty[b] # {}

Deadlocked(a) == \E S \in SUBSET Admin :
    a \in S /\ \A x \in S : \E y \in S : WaitsFor(x, y)

\* The cache's flush files a message under whatever channel name it carries.
FileMessage ==
    /\ \E n \in Name, m \in 1..MsgMax :
         /\ \A f \in filed : f.id # m
         /\ filed' = filed \cup {[id |-> m, channel |-> n]}
    /\ UNCHANGED <<rows, dirty, nextId, req, wiped, requests>>

Step(a) ==
    \/ InsertChannel(a)
    \/ UpdateChannel(a)
    \/ ListForMove(a) \/ UpdateOrder(a) \/ Commit(a)
    \/ SelectName(a) \/ DeleteRow(a) \/ RemoveMessagesByChannel(a) \/ ListForRemove(a)

Next ==
    \/ \E a \in Admin : SelectMax(a) \/ Begin(a) \/ Step(a) \/ Rollback(a)
    \/ FileMessage

Spec == Init /\ [][Next]_vars

\* A statement ends, one that waits when it gets the lock; PostgreSQL breaks
\* deadlocks.
Fairness == \A a \in Admin : WF_vars(Step(a)) /\ WF_vars(Deadlocked(a) /\ Rollback(a))

FairSpec == Spec /\ Fairness
=============================================================================

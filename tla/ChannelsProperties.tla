------------------------- MODULE ChannelsProperties -------------------------
(***************************************************************************)
(* What the channels promise.                                              *)
(***************************************************************************)
EXTENDS Channels

Row == [name : Name, order : Nat] \cup {NoRow}
Filed == [id : Nat, channel : Name]

ReqType(r) ==
    /\ r \in [pc : ReqPc, id : Nat, before : Nat, name : Name \cup {NoName}, purge : BOOLEAN,
              max : Nat, list : Seq(Ids), at : Nat \ {0}]
    /\ r.pc \in {"rename", "movelist", "name", "delete", "purge", "list"} => r.id \in Ids
    /\ r.pc \in {"insert", "rename", "delete", "purge", "list"} => r.name \in Name

\* Every variable keeps to its type.
TypeOK ==
    /\ rows \in [Ids -> Row]
    /\ dirty = [a \in Admin |-> dirty[a]]
    /\ \A a \in Admin : /\ dirty[a] = [i \in DOMAIN dirty[a] |-> dirty[a][i]]
                        /\ DOMAIN dirty[a] \subseteq Ids
                        /\ \A i \in DOMAIN dirty[a] : dirty[a][i] \in Row
    /\ nextId \in 1..(IdMax + 1)
    /\ req = [a \in Admin |-> req[a]]
    /\ \A a \in Admin : ReqType(req[a])
    /\ filed \subseteq Filed
    /\ wiped \in [Admin -> SUBSET Filed]
    /\ requests \in Nat

\* One request at a time, no two channels have the same sort_order, so that
\* their order does not hang on their ids.
DistinctOrders ==
    \A i, j \in Live(rows) : i # j => rows[i].order # rows[j].order

\* Moves, removals, and all other requests, which may only add.
Asked(r) ==
    [op |-> CASE r.pc = "update" /\ r.name = NoName -> "move"
              [] r.pc = "update" /\ r.name # NoName -> "remove"
              [] OTHER -> "other",
     id |-> r.id, before |-> r.before]

\* One request at a time, the channels in the order of their sort_orders are a
\* list: a request appends to it, or removes the channel it names, or puts it
\* right before its target, and nothing else changes its order.
List == INSTANCE ChannelList WITH
    list <- CHOOSE s \in Sorted(rows) : TRUE,
    ask <- Asked(req[CHOOSE a \in Admin : TRUE])
ListSpec == List!ListSpec

\* One request at a time, removing a channel deletes no message that is filed
\* under the name of a channel that stays.
PurgesOwnMessages ==
    [][\A m \in filed \ filed' : \A i \in Ids : rows'[i].name # m.channel]_vars

\* A move does what it says whatever other requests do meanwhile: when it
\* commits, the moved channel comes before its target, if both are still there.
MovedBefore ==
    [][\A a \in Admin :
         (/\ Commit(a) /\ req[a].before # 0
          /\ {req[a].id, req[a].before} \subseteq Live(rows'))
         => rows'[req[a].id].order < rows'[req[a].before].order]_vars

\* A channel that was removed does not come back, although a move that listed
\* it before may still give it a place.
RemovedStays ==
    [][\A i \in 1..(nextId - 1) : rows[i] = NoRow => rows'[i] = NoRow]_vars

\* The inductive reason for the two.  The rows that transactions have written are
\* rows that are there, each locked by one of them, and written by none before
\* its first statement that writes.  What a move will write puts the channel
\* before its target, and it has written the first of it, except where a row is
\* gone, which stays gone.
Locks ==
    /\ \A a, b \in Admin : a # b => DOMAIN dirty[a] \cap DOMAIN dirty[b] = {}
    /\ \A a \in Admin : \A i \in DOMAIN dirty[a] : rows[i] # NoRow
    /\ \A a \in Admin : req[a].pc \notin {"purge", "list", "update"} => dirty[a] = NoWrites

Issued == \A i \in Live(rows) : i < nextId

Gone(i) == i < nextId /\ rows[i] = NoRow

Moving(r) == r.pc = "update" /\ r.before # 0

Writes(r, written) ==
    /\ \A i \in DOMAIN written : written[i] # NoRow
    /\ \A p, q \in DOMAIN r.list : r.list[p] = r.list[q] => p = q
    /\ \A p \in DOMAIN r.list :
         /\ r.list[p] < nextId
         /\ p < r.at => \/ Gone(r.list[p])
                        \/ r.list[p] \in DOMAIN written /\ written[r.list[p]].order = p
    /\ \E p \in DOMAIN r.list : r.list[p] = r.id
    /\ \/ Gone(r.before)
       \/ \E p, q \in DOMAIN r.list : p < q /\ r.list[p] = r.id /\ r.list[q] = r.before

Moves ==
    \A a \in Admin :
      /\ req[a].pc \notin {"movelist", "update"} => req[a].before = 0
      /\ req[a].pc = "movelist" => /\ req[a].at = 1 /\ req[a].id < nextId
                                   /\ req[a].before < nextId /\ req[a].before # req[a].id
      /\ Moving(req[a]) => Writes(req[a], dirty[a])

MoveInv == Locks /\ Issued /\ Moves

\* The inductive reason for what holds with one request at a time: the channels
\* have names and sort_orders of their own, a new one comes behind them, what a
\* transaction has still to write and what it has written are the numbers of one
\* list of all channels, it renames none, and what it deletes was filed under a
\* name that it took from the table.
Alone(a) ==
    LET r == req[a]
        Left == Live(View(a))
    IN /\ \A i, j \in Live(rows) : i # j => rows[i].name # rows[j].name
       /\ \A i \in Left : View(a)[i].name = rows[i].name
       /\ r.pc \notin {"purge", "list", "update"} => dirty[a] = NoWrites
       /\ r.pc # "update" => r.at = 1
       /\ r.pc = "insert" => \A i \in Live(rows) : rows[i].order <= r.max
       /\ r.pc = "movelist" => r.name = NoName
       /\ r.pc = "delete" => rows[r.id].name = r.name
       /\ r.pc = "update" =>
            /\ \A p, q \in DOMAIN r.list : r.list[p] = r.list[q] => p = q
            /\ \A i \in Left : \E p \in DOMAIN r.list : r.list[p] = i
            /\ \A p \in DOMAIN r.list :
                 p < r.at => r.list[p] \notin Left \/ View(a)[r.list[p]].order = p
       /\ r.pc \in {"purge", "list", "update"} /\ r.name # NoName =>
            \A i \in Left : View(a)[i].name # r.name
       /\ \A m \in wiped[a] : r.pc \in {"list", "update"} /\ m.channel = r.name

OneInv == DistinctOrders /\ \A a \in Admin : Alone(a)

\* The inductive reason for the list: the table a transaction sees has the channels
\* that will be left, and what it writes is the order of the list that was asked for.
Follows(a) ==
    LET r == req[a]
        without == [rows EXCEPT ![r.id] = NoRow]
    IN /\ r.pc = "movelist" => r.before # r.id
       /\ r.pc \in {"purge", "list"} => r.id \in Live(rows) /\ View(a) = without
       /\ r.pc = "update" /\ r.name = NoName =>
            /\ Live(View(a)) = Live(rows) /\ r.id \in Ids /\ r.before # r.id
            /\ \E s \in Sorted(rows) : r.list = Move(s, r.id, r.before)
       /\ r.pc = "update" /\ r.name # NoName =>
            /\ r.id \in Live(rows) /\ Live(View(a)) = Live(without)
            /\ r.list \in Sorted(without)

ListInv == \A a \in Admin : Follows(a)

\* Every request is answered, also when requests wait for each other's rows.
Served == \A a \in Admin : (req[a].pc # "idle") ~> (req[a].pc = "idle")
=============================================================================

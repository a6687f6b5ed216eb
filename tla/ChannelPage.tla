---------------------------- MODULE ChannelPage ----------------------------
(***************************************************************************)
(* The dashboard's page for the channels (web/app/pages/channels.tsx,      *)
(* components/channel), with its route (routes/channel.tsx) and requests   *)
(* (api/channels.ts).  It shows a list and, for one channel at a time, a   *)
(* dialog that edits, moves or deletes it; an input adds channels.         *)
(*                                                                         *)
(* Each of the four has a fetcher of its own (Fetchers), so that their     *)
(* requests may overlap.  What throws brings up the error page.  The       *)
(* server is what ChannelList promises, one request at a time.             *)
(* Descriptions are handled like names, but need not differ, and are left  *)
(* out, as is the switch for deleting a channel's messages as well.        *)
(***************************************************************************)
EXTENDS Fetchers, Integers

CONSTANTS
    Name,         \* names of channels
    NoName,       \* an empty name
    Start,        \* the channels there are at first: their names, in order
    IdMax,        \* bound: channels ever
    SubmitMax     \* bound: requests

ASSUME PageConstants ==
    /\ NoName \notin Name
    /\ Start \in Seq(Name) /\ IsInjective(Start)
    /\ IdMax \in Nat /\ Len(Start) <= IdMax
    /\ SubmitMax \in Nat

Ids == 1..IdMax
NoId == 0
Channel == [id : Ids, name : Name]

VARIABLES
    table,        \* the server's channels, in order
    nextId,
    shown,        \* the channels the page shows
    state,        \* the state of ChannelList: which channel is selected, for which dialog
    target,       \* ReorderChannelDialog: the channel picked to move before
    submits,
    crashed       \* the error page is shown

serverVars == <<table, nextId>>
dialogVars == <<state, target>>
vars == <<serverVars, shown, dialogVars, fetcherVars, submits, crashed>>

Dialog == {"none", "edit", "reorder", "delete"}
Op == {"add", "edit", "reorder", "delete"}       \* the fetchers

\* Which request it is, whose answer counts, and how far it is.
Request == [no : 1..SubmitMax, op : Op, id : Ids \cup {NoId}, before : Ids \cup {NoId},
            name : Name \cup {NoName}, live : BOOLEAN,
            at : {"sent", "ok", "refused", "thrown"}]

NoSelection == [id |-> NoId, dialog |-> "none", name |-> NoName]

Init ==
    /\ table = [i \in DOMAIN Start |-> [id |-> i, name |-> Start[i]]]
    /\ nextId = Len(Start) + 1
    /\ shown = table
    /\ state = NoSelection /\ target = NoId
    /\ NoFetchers /\ submits = 0
    /\ crashed = FALSE

-----------------------------------------------------------------------------
\* The row of a channel in a list, and the list without it.
Has(list, i) == \E k \in DOMAIN list : list[k].id = i
RowOf(list, i) == CHOOSE c \in ToSet(list) : c.id = i
Position(list, i) == CHOOSE k \in DOMAIN list : list[k].id = i
Without(list, i) == IF Has(list, i) THEN RemoveAt(list, Position(list, i)) ELSE list

\* The dialog of a channel is opened: its inputs are populated, and the picked
\* target is the channel itself.
SelectChannel(i, d) ==
    /\ ~crashed
    /\ state.dialog = "none" /\ Has(shown, i)
    /\ state' = [id |-> i, dialog |-> d, name |-> RowOf(shown, i).name]
    /\ target' = i
    /\ UNCHANGED <<serverVars, shown, fetcherVars, submits, crashed>>

ClearSelection == state' = NoSelection /\ target' = NoId

CloseDialog ==
    /\ ~crashed /\ state.dialog # "none"
    /\ ClearSelection
    /\ UNCHANGED <<serverVars, shown, fetcherVars, submits, crashed>>

SetName(n) ==
    /\ ~crashed /\ state.dialog = "edit"
    /\ state' = [state EXCEPT !.name = n]
    /\ UNCHANGED <<serverVars, shown, target, fetcherVars, submits, crashed>>

SetSelected(i) ==
    /\ ~crashed /\ state.dialog = "reorder" /\ Has(shown, i)
    /\ target' = i
    /\ UNCHANGED <<serverVars, shown, state, fetcherVars, submits, crashed>>

-----------------------------------------------------------------------------
Submit(op, i, before, name) ==
    /\ ~crashed
    /\ submits < SubmitMax
    /\ submits' = submits + 1
    /\ Send([no |-> submits', op |-> op, id |-> i, before |-> before, name |-> name,
             live |-> TRUE, at |-> "sent"])
    /\ UNCHANGED <<serverVars, shown, dialogVars, crashed>>

\* Mutant: the input may be empty.
addChannelEmpty == \E n \in Name \cup {NoName} : Submit("add", NoId, NoId, n)

addChannel == \E n \in Name : Submit("add", NoId, NoId, n)
update == state.dialog = "edit" /\ Submit("edit", state.id, NoId, state.name)
reorder == state.dialog = "reorder" /\ Submit("reorder", state.id, target, NoName)
deleteChannel == state.dialog = "delete" /\ Submit("delete", state.id, NoId, NoName)

-----------------------------------------------------------------------------
\* The server.  Other rows keep their order.

Taken(n, i) == \E k \in DOMAIN table : table[k].name = n /\ table[k].id # i

\* A channel moved before itself stays where it is; without a channel to move
\* before it goes last.
Moved(list, i, before) ==
    LET rest == Without(list, i)
        row == RowOf(list, i)
    IN IF before = i \/ ~Has(list, i) THEN list
       ELSE IF Has(rest, before) THEN InsertAt(rest, Position(rest, before), row)
       ELSE Append(rest, row)

\* Bound: no channel is added beyond IdMax.
Add(r) ==
    /\ r.op = "add"
    /\ IF Taken(r.name, NoId) \/ nextId > IdMax
       THEN UNCHANGED serverVars
       ELSE /\ table' = Append(table, [id |-> nextId, name |-> r.name])
            /\ nextId' = nextId + 1

\* An empty name is not sent; the channel keeps the one it has.  For a channel
\* that is gone the statement changes no row, whatever the name.
Edit(r) ==
    /\ r.op = "edit" /\ (Has(table, r.id) => ~Taken(r.name, r.id))
    /\ table' = IF r.name = NoName THEN table
                ELSE [k \in DOMAIN table |-> IF table[k].id = r.id THEN [table[k] EXCEPT !.name = r.name]
                                             ELSE table[k]]
    /\ UNCHANGED nextId

Reorder(r) ==
    /\ r.op = "reorder"
    /\ table' = Moved(table, r.id, r.before)
    /\ UNCHANGED nextId

Delete(r) ==
    /\ r.op = "delete" /\ Has(table, r.id)
    /\ table' = Without(table, r.id)
    /\ UNCHANGED nextId

\* What becomes of the answer that a request failed: of deletions it is returned
\* as it is, of the others an error is thrown.
Failed(r) == IF r.op = "delete" THEN "refused" ELSE "thrown"

\* The server also answers that it failed when only the database's answer to the
\* statement or to its commit was lost.
Perform(r) ==
    /\ r.at = "sent"
    /\ Add(r) \/ Edit(r) \/ Reorder(r) \/ Delete(r)
    /\ \E at \in {"ok", Failed(r)} : Answered(r, at, TRUE)
    /\ UNCHANGED <<shown, dialogVars, submits, crashed>>

\* The server refuses: a name that is taken, nothing to change, a channel that is
\* gone, or a statement that fails.
Refuse(r) ==
    /\ r.at = "sent"
    /\ Answered(r, Failed(r), FALSE)
    /\ UNCHANGED <<serverVars, shown, dialogVars, submits, crashed>>

-----------------------------------------------------------------------------
Reloads(r) == r.at = "ok"

\* clientAction returns.
AnswerLands(r) ==
    /\ r.at \in {"ok", "refused"}
    /\ Landed(r, Reloads(r), "channels")
    /\ UNCHANGED <<serverVars, shown, dialogVars, submits, crashed>>

\* The route's loaders.
AnswerReload(k) ==
    /\ Reloaded(k, table)
    /\ UNCHANGED <<serverVars, shown, dialogVars, submits, crashed>>

\* Mutant: the selection stays when the list changes.
LandReloadKeepingSelection(k) ==
    /\ Lands(k)
    /\ shown' = reloads[k].reply
    /\ UNCHANGED <<serverVars, dialogVars, requests, submits, crashed>>

\* Mutant: an older reload may land after a newer one.
LandReloadAlone(k) ==
    /\ reloads[k].at = "answered"
    /\ shown' = reloads[k].reply
    /\ reloads' = RemoveAt(reloads, k)
    /\ ClearSelection
    /\ UNCHANGED <<serverVars, requests, missed, submits, crashed>>

\* The list changes, and its effect clears the selection, which closes the dialog.
LandReload(k) ==
    /\ Lands(k)
    /\ shown' = reloads[k].reply
    /\ ClearSelection
    /\ UNCHANGED <<serverVars, requests, submits, crashed>>

\* The page is gone with all it held; the server goes on with what it was sent.
Leave ==
    /\ state' = NoSelection /\ target' = NoId
    /\ Abandon
    /\ UNCHANGED <<serverVars, submits>>

\* The clientAction throws, or a request fails on its way.
Crash ==
    /\ reloads # <<>> \/ \E r \in requests : r.live
    /\ Leave
    /\ shown' = <<>> /\ crashed' = TRUE

\* The dashboard is loaded again.
Open ==
    /\ Leave
    /\ shown' = table /\ crashed' = FALSE

-----------------------------------------------------------------------------
User ==
    \/ \E i \in Ids, d \in Dialog \ {"none"} : SelectChannel(i, d)
    \/ CloseDialog
    \/ \E n \in Name \cup {NoName} : SetName(n)
    \/ \E i \in Ids : SetSelected(i)
    \/ addChannel \/ update \/ reorder \/ deleteChannel
    \/ Open

Server == \E r \in requests : Perform(r) \/ Refuse(r)

Landing ==
    \/ \E r \in requests : AnswerLands(r)
    \/ \E k \in DOMAIN reloads : AnswerReload(k) \/ LandReload(k)

Next == User \/ Server \/ Landing \/ Crash

Spec == Init /\ [][Next]_vars

\* Requests are answered, and answers land.
Fairness == WF_vars(Server) /\ WF_vars(Landing)

FairSpec == Spec /\ Fairness
=============================================================================

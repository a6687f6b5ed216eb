---------------------------- MODULE ChannelList ----------------------------
(***************************************************************************)
(* What one administrator of the channels is promised: a list.  A new      *)
(* channel comes last, removing one leaves the others as they are, and     *)
(* moving one puts it right before the target that was asked for, or last  *)
(* when there is no such channel.                                          *)
(***************************************************************************)
EXTENDS Integers, SequencesExt

CONSTANT Ids

VARIABLES
    list,   \* the channels
    ask     \* the request that is served: what it asks for, and of which channels

ListInit == list = <<>>

Add == \E i \in Ids \ ToSet(list) : ask.op = "other" /\ list' = Append(list, i)

Drop ==
    /\ ask.op = "remove"
    /\ \E k \in DOMAIN list : list[k] = ask.id /\ list' = RemoveAt(list, k)

\* l has i right before j, and last when j is not there.
Before(l, i, j) ==
    IF Contains(l, j)
    THEN \E p \in 1..(Len(l) - 1) : l[p] = i /\ l[p + 1] = j
    ELSE Last(l) = i

Reorder ==
    /\ ask.op = "move"
    /\ \E k, p \in DOMAIN list :
         list[k] = ask.id /\ list' = InsertAt(RemoveAt(list, k), p, ask.id)
    /\ Before(list', ask.id, ask.before)

ListSpec == ListInit /\ [][Add \/ Drop \/ Reorder]_list
=============================================================================

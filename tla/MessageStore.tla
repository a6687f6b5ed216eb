---------------------------- MODULE MessageStore ----------------------------
(***************************************************************************)
(* What the cache promises about a message, without queues, flushes or     *)
(* mutexes: it is accepted, it waits, it is stored together with all that  *)
(* wait before it, and an administrator may remove it, for good.  Only     *)
(* right after a store may messages be forgotten: those that came too late *)
(* for it.                                                                 *)
(***************************************************************************)
EXTENDS Integers

CONSTANT Kind

VARIABLES
    accepted,   \* how many messages of each kind were accepted
    waiting,    \* the accepted messages that are not stored yet
    stored,     \* those that are stored
    settling    \* whether a store of each kind is settling

storeVars == <<accepted, waiting, stored, settling>>

StoreInit ==
    /\ accepted = [k \in Kind |-> 0]
    /\ waiting = [k \in Kind |-> {}]
    /\ stored = [k \in Kind |-> {}]
    /\ settling = [k \in Kind |-> FALSE]

Accept(k) ==
    /\ accepted' = [accepted EXCEPT ![k] = @ + 1]
    /\ waiting' = [waiting EXCEPT ![k] = @ \cup {accepted[k] + 1}]
    /\ UNCHANGED <<stored, settling>>

\* All that wait up to the n-th message become stored, at once.
Store(k, n) ==
    LET batch == {i \in waiting[k] : i <= n}
    IN /\ batch # {}
       /\ ~settling[k]
       /\ settling' = [settling EXCEPT ![k] = TRUE]
       /\ stored' = [stored EXCEPT ![k] = @ \cup batch]
       /\ waiting' = [waiting EXCEPT ![k] = @ \ batch]
       /\ UNCHANGED accepted

\* What waits when a store has settled came too late for it, and may be forgotten.
Settle(k) ==
    /\ settling[k]
    /\ settling' = [settling EXCEPT ![k] = FALSE]
    /\ waiting' \in {waiting, [waiting EXCEPT ![k] = {}]}
    /\ UNCHANGED <<accepted, stored>>

Delete(k) ==
    /\ \E gone \in SUBSET stored[k] : stored' = [stored EXCEPT ![k] = @ \ gone]
    /\ UNCHANGED <<accepted, waiting, settling>>

StoreNext == \E k \in Kind :
    Accept(k) \/ Settle(k) \/ Delete(k) \/ \E n \in 1..accepted[k] : Store(k, n)

StoreSpec == StoreInit /\ [][StoreNext]_storeVars
=============================================================================

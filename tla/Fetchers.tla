------------------------------ MODULE Fetchers ------------------------------
(***************************************************************************)
(* What React Router does with the submissions of a page's fetchers        *)
(* (useFetcher) and with the reloads of the page's data that follow.  It   *)
(* is external: the dashboard relies on it, and its source is not in the   *)
(* repository.                                                             *)
(*                                                                         *)
(* A request is a record with the fetcher that made it (op), whether its   *)
(* answer counts (live), how far it is (at), and fields of its own.  A     *)
(* reload is one of all the page's data, of some page (of).                *)
(***************************************************************************)
EXTENDS SequencesExt

VARIABLES
    requests,     \* requests that are under way or answered
    reloads,      \* reloads, in the order they were asked for
    missed        \* history: something was done that the page has not been told of, since
                  \* the answer or the reload that would have told it was dropped; until
                  \* the data that is the last to land has it

fetcherVars == <<requests, reloads, missed>>

NoFetchers == requests = {} /\ reloads = <<>> /\ missed = FALSE

Quiet == requests = {} /\ reloads = <<>>

\* The reloads without that of a fetcher, which has one at most.
Aborted(op) ==
    IF \E k \in DOMAIN reloads : reloads[k].op = op
    THEN RemoveAt(reloads, CHOOSE k \in DOMAIN reloads : reloads[k].op = op)
    ELSE reloads

\* Request q is submitted: the last request of its fetcher does not count any
\* more, and the reload that one made is aborted; the server is not told.  What
\* was carried out is missed with its answer, or with the last reload.
Send(q) ==
    /\ requests' =
         {[r EXCEPT !.live = @ /\ r.op # q.op] : r \in {p \in requests : p.op # q.op \/ p.at = "sent"}}
         \cup {q}
    /\ reloads' = Aborted(q.op)
    /\ missed' = (missed \/ (\E r \in requests : r.op = q.op /\ r.live /\ r.at = "ok")
                         \/ (reloads # <<>> /\ Last(reloads).op = q.op))

\* The server answers that it has carried r out ("ok") or that it has not; the
\* answer is on its way, unless the request was aborted.  What was done all the
\* same is missed.
Answered(r, at, done) ==
    /\ requests' = (requests \ {r}) \cup (IF r.live THEN {[r EXCEPT !.at = at]} ELSE {})
    /\ missed' = (missed \/ (done /\ ~(r.live /\ at = "ok")))
    /\ UNCHANGED reloads

AskReload(op, of) == Append(reloads, [op |-> op, of |-> of, at |-> "asked", reply |-> <<>>])

\* The answer to r lands.  Below 400 it reloads the data of a page; from 400 on
\* it reloads nothing, and with that it has landed after all the reloads that
\* were asked for, which are given up.
Landed(r, again, of) ==
    /\ requests' = requests \ {r}
    /\ reloads' = IF again THEN AskReload(r.op, of) ELSE <<>>
    /\ missed' = (missed \/ (~again /\ reloads # <<>>))

\* The server's answer to the k-th reload; the last one has all that was done.
Reloaded(k, reply) ==
    /\ reloads[k].at = "asked"
    /\ reloads' = [reloads EXCEPT ![k].at = "answered", ![k].reply = reply]
    /\ missed' = (missed /\ k # Len(reloads))
    /\ UNCHANGED requests

\* The k-th reload lands, and those asked before it are given up.
Lands(k) ==
    /\ reloads[k].at = "answered"
    /\ reloads' = SubSeq(reloads, k + 1, Len(reloads))
    /\ UNCHANGED missed

\* The page is gone; the server goes on with what it was sent.
Abandon ==
    /\ requests' = {[r EXCEPT !.live = FALSE] : r \in {q \in requests : q.at = "sent"}}
    /\ reloads' = <<>> /\ missed' = FALSE
=============================================================================

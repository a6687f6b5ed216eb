----------------------- MODULE ChannelPageProperties -----------------------
(***************************************************************************)
(* What the page for the channels promises its user.                       *)
(***************************************************************************)
EXTENDS ChannelPage

Reload == [op : Op, of : {"channels"}, at : {"asked", "answered"}, reply : Seq(Channel)]

\* Every variable keeps to its type.
TypeOK ==
    /\ table \in Seq(Channel) /\ shown \in Seq(Channel)
    /\ nextId \in 1..(IdMax + 1)
    /\ state \in [id : Ids \cup {NoId}, dialog : Dialog, name : Name \cup {NoName}]
    /\ target \in Ids \cup {NoId}
    /\ requests \subseteq Request
    /\ reloads \in Seq(Reload)
    /\ submits \in 0..SubmitMax
    /\ crashed \in BOOLEAN /\ missed \in BOOLEAN

\* A dialog is about a channel that is on the page, and so is the channel picked
\* to move it before, however reloads of earlier requests come in while the user
\* is filling it in.
DialogLive ==
    state.dialog # "none" => Has(shown, state.id) /\ (state.dialog = "reorder" => Has(shown, target))

\* Once everything has landed the page shows the server's channels, in their
\* order, whatever requests overlapped; unless the answer or the last reload that
\* would have told it of a change was dropped, as a request was submitted again or
\* a deletion answered as failed, and nothing has been reloaded since.
Current == (~crashed /\ Quiet /\ ~missed) => shown = table

\* What the fetchers send: an added channel has a name, the input being required.
Submitted == {r \in Request : r.op = "add" => r.name # NoName}

\* The inductive reason for Current: what the page has not been told of is on its
\* way, in the answer to a request, in the last reload, or in nothing that counts.
Told ==
    \/ crashed \/ missed
    \/ \E r \in requests : r.live /\ r.at = "ok"
    \/ IF reloads = <<>> THEN shown = table
       ELSE Last(reloads).at = "asked" \/ Last(reloads).reply = table

\* The inductive invariant of the page.
PageInv == TypeOK /\ requests \subseteq Submitted /\ DialogLive /\ Told

\* When a request was carried out, the dialog it came from closes, unless an
\* answer or the last reload is dropped: the user submits again, or a deletion
\* that is refused gives the reload up.
Closes ==
    \A op \in Op :
      (\E r \in requests : r.op = op /\ r.live /\ r.at = "ok") ~> (state.dialog = "none" \/ missed)
=============================================================================

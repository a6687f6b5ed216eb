------------------------- MODULE UserPagesProperties -------------------------
(***************************************************************************)
(* What the pages for users and bans promise the administrator.            *)
(***************************************************************************)
EXTENDS UserPages, BansProperties

\* The dialogs that ban are open only on the profile of a user whom the page
\* shows as free, so that nobody is banned again once the page knows.
DialogOfFree == dialog # "none" => page.at = "profile" /\ banned = {}

\* Once everything has landed, whatever was submitted, left and thrown on the way:
\* a user whom the server turns away is shown as banned on his profile and in the
\* list, and on the page of the bans each of the latest that is in force has its
\* button on.  Unless the page was told of the ban by nothing: the dialog was
\* submitted again before the answer, or the answer was lost or an error, which
\* after a navigation nobody sees; and nothing has been loaded since.
BannedShown ==
    (Quiet /\ ~missed) =>
      /\ \A u \in page.users : IsUserBanned(u) => u \in banned
      /\ \A i \in Ids(page) : InForce(bans[i]) => \E r \in records : r.id = i /\ PardonOffered(r)

-----------------------------------------------------------------------------
\* The inductive invariant of the pages: what is asked, sent back and shown.

BanRecord == [id : Nat, user : User, end : [ever : BOOLEAN, at : Int], pardoned : BOOLEAN]
Data == [banned : SUBSET User, records : SUBSET BanRecord]
AnyPage == Pages \cup {ErrorPage}

Request == [no : Nat, op : Fetcher, user : User, hours : Int, id : Nat, live : BOOLEAN,
            at : {"sent", "ok", "thrown"}]

Reload == {l \in [op : Fetcher, of : AnyPage, at : {"asked", "answered"}, reply : {<<>>} \cup Data] :
             l.at = "answered" => l.reply \in Data}

PageType ==
    /\ page \in AnyPage
    /\ banned \subseteq User /\ records \subseteq BanRecord
    /\ dialog \in Dialog /\ duration \in Hours \cup {0}
    /\ requests \subseteq Request
    /\ reloads \in Seq(Reload)
    /\ submits \in Nat /\ missed \in BOOLEAN

\* A page's data that misses no ban in force.
Fresh(p, b, rs) ==
    /\ \A u \in p.users : IsUserBanned(u) => u \in b
    /\ \A i \in Ids(p) : InForce(bans[i]) =>
         \E r \in rs : r.id = i /\ r.end = bans[i].end /\ ~r.pardoned

\* The reason for BannedShown: a ban the page has not been told of is on its way
\* there, in the answer to a request or in the last reload.
Told ==
    \/ missed
    \/ \E r \in requests : r.live /\ r.at = "ok"
    \/ IF reloads = <<>> THEN Fresh(page, banned, records)
       ELSE LET l == Last(reloads)
            IN l.at = "asked" \/ Fresh(l.of, l.reply.banned, l.reply.records)

PagesInv == Inv /\ PageType /\ DialogOfFree /\ Told

-----------------------------------------------------------------------------
\* Once a ban for ever is carried out its dialog closes, if the administrator comes
\* to an end with turning to pages, and unless an answer or the last reload is
\* dropped.
BanCloses ==
    <>[](\A k \in DOMAIN reloads : reloads[k].op # "navigate") =>
      \A op \in {"perm", "temp"} :
        (\E r \in requests : r.op = op /\ r.hours = 0 /\ r.live /\ r.at = "ok")
           ~> (dialog # op \/ missed)
=============================================================================

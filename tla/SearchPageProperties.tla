------------------------ MODULE SearchPageProperties ------------------------
(***************************************************************************)
(* What the search page promises its user.                                 *)
(***************************************************************************)
EXTENDS SearchPage

Load == [at : LoadAt, held : BOOLEAN, reply : Page \cup {NoPage}]

\* Every variable keeps to its type, and what is stored was written.
TypeOK ==
    /\ written \in 0..MessageMax
    /\ stored \subseteq 1..written
    /\ search \in Search /\ search.page <= PageMax
    /\ href \in Query /\ own \in BOOLEAN
    /\ fetcher \in Load /\ route \in Load
    /\ list \in [searched : BOOLEAN, page : Page]
    /\ selected \subseteq 1..written
    /\ deletion \in [at : {"idle", "sent", "ok", "refused"}, ids : SUBSET (1..written), again : BOOLEAN]
    /\ away \in BOOLEAN
    /\ acked \subseteq 1..written

\* The list that is shown answers the search that was made.
Answers(page) ==
    /\ page.of.keyword = search.keyword
    /\ page.of.page = search.page
    /\ page.more = search.has_more

\* Once the fetcher rests, the page number, the buttons and the list belong to
\* one answer, that to the latest search: however the user hurries on while
\* answers are under way, however deletions abort and repeat them, and whatever
\* the fetcher had when the page was opened, no older answer is left on the page,
\* nor an empty one where there is a page before.  Until the user searches, though,
\* the page may show another visit's answer, or one of a user's page: its fetcher
\* has the same key there (useMessageSearch.tsx:37).
Consistent ==
    (own /\ fetcher.at = "idle" /\ list.searched) =>
        /\ Answers(list.page)
        /\ search.page > 0 => Shown # {}

Quiet == fetcher.at = "idle" /\ route.at = "idle" /\ deletion.at = "idle"

\* A message whose deletion was acknowledged is not on the page any more once
\* all requests have landed, whatever else was asked and deleted meanwhile and
\* whichever page had asked for the deletion.  What is shown of another visit's
\* answer is excused: it may be older than the deletion.
DeletedGone == (~away /\ Quiet /\ (own \/ ~list.searched)) => Shown \cap acked = {}

\* The inductive reason for these.  Pages hold messages that were written; what is
\* asked is the latest search, and an answer is one to it; what was deleted is not
\* stored again, is in no answer of this visit that may still land, and in its list
\* only while what the list shows is asked for again.
Written(page) == page \in Page /\ page.msgs \subseteq 1..written
Clean(page) == page.msgs \cap acked = {}

Replies ==
    /\ Written(list.page)
    /\ fetcher.at = "answered" => Written(fetcher.reply)
    /\ (route.at = "answered" /\ ~list.searched) => Written(route.reply)

Latest ==
    /\ href.keyword = search.keyword /\ href.page = search.page
    /\ own /\ fetcher.at = "answered" => fetcher.reply.of = href

Deleted ==
    /\ stored \cap acked = {}
    /\ deletion.at = "ok" => stored \cap deletion.ids = {}
    /\ own /\ fetcher.at = "answered" => Clean(fetcher.reply)
    /\ (route.at = "answered" /\ ~list.searched) => Clean(route.reply)
    /\ ~list.searched => Clean(list.page) \/ route.at # "idle"
    /\ own /\ list.searched => Clean(list.page) \/ fetcher.at # "idle"

PageInv == Replies /\ Latest /\ Consistent /\ Deleted

\* If the user stops, so does the page: walking back from pages that turn out
\* to be empty and making aborted loads again come to an end.
Rests == <>[][~User]_vars => <>[](\A load \in {fetcher, route} : load.at \notin InFlight)
=============================================================================

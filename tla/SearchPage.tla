----------------------------- MODULE SearchPage -----------------------------
(***************************************************************************)
(* The dashboard's page for searching and deleting stored messages         *)
(* (web/app/pages/search_messages.tsx, components/message, hooks), with    *)
(* its route (routes/search_messages.tsx) and the requests it makes.       *)
(*                                                                         *)
(* Requests go through React Router: a fetcher loads searches, another     *)
(* submits deletions.  Each request is asked, answered by the server and   *)
(* lands later, and these are separate steps.  What the router does        *)
(* between them is external: a new load of a fetcher aborts its last one;  *)
(* a submission aborts the loads under way, which are made again once it   *)
(* is answered; a submission that is answered below 400 reloads the route  *)
(* and the search, and both land together; anything that throws replaces   *)
(* the dashboard by its error page.  Both fetchers have fixed keys, which  *)
(* a user's page (pages/users/profile.tsx) uses too: what they have, or    *)
(* have under way, when one page is left is there when the next is opened. *)
(***************************************************************************)
EXTENDS MessageSearch

CONSTANTS
    PageMax,      \* bound: how far the user pages
    NoPage        \* no answer

ASSUME PageBound == PageMax \in Nat

VARIABLES
    stored,       \* chat_messages
    written,      \* the messages written so far
    search,       \* the state of useMessageSearch
    href,         \* what the search fetcher loads or has loaded
    own,          \* whether that is a search made since the page was opened, if any
    fetcher,      \* that fetcher's load
    route,        \* the route's reload
    list,         \* what the message list shows: the fetcher's data, or the route's until there is one
    selected,     \* the state of useMessageSelection
    deletion,     \* the fetcher that submits deletions
    away,         \* another page is shown, or the error page
    acked         \* history: messages whose deletion was acknowledged

loadVars == <<search, href, own, fetcher, route, list>>
deleteVars == <<selected, deletion>>
pageVars == <<loadVars, deleteVars>>
vars == <<stored, written, pageVars, away, acked>>

\* "cancelled": aborted by a submission.  "dropped": aborted together with the
\* submission that had made it, and not made again; the fetcher still counts as
\* loading.
LoadAt == {"idle", "asked", "answered", "cancelled", "dropped"}
InFlight == {"asked", "answered"}

Idle == [at |-> "idle", held |-> FALSE, reply |-> NoPage]
Asked == [Idle EXCEPT !.at = "asked"]
Held == [Asked EXCEPT !.held = TRUE]      \* lands with the route
NoDeletion == [at |-> "idle", ids |-> {}, again |-> FALSE]

\* The list as the fetcher or the route has it.
Searched(page) == [searched |-> TRUE, page |-> page]
Loaded(page) == [searched |-> FALSE, page |-> page]

Shown == list.page.msgs

FirstPage(st) == Answer(st, RouteQuery)

\* The page is opened, with the route's data.
Init ==
    /\ stored = {} /\ written = 0
    /\ search = NewSearch(FALSE) /\ href = RouteQuery /\ own = TRUE
    /\ fetcher = Idle /\ route = Idle
    /\ list = Loaded(FirstPage(stored))
    /\ selected = {} /\ deletion = NoDeletion
    /\ away = FALSE
    /\ acked = {}

-----------------------------------------------------------------------------
\* The search state changes; nothing is asked.
Change(s) ==
    /\ ~away
    /\ search' = s
    /\ UNCHANGED <<stored, written, href, own, fetcher, route, list, deleteVars, away, acked>>

\* The search state changes and its effect loads: the last load is superseded.
LoadSearch(s) ==
    /\ search' = s
    /\ href' = Href(s) /\ own' = TRUE
    /\ fetcher' = Asked

Ask(s) ==
    /\ ~away
    /\ LoadSearch(s)
    /\ UNCHANGED <<stored, written, route, list, deleteVars, away, acked>>

Type == \E k \in Word : Change(SetTemporaryKeyword(search, k))
Filter == \E c \in Channel : Change(AddFilter(search, c)) \/ Change(RemoveFilter(search, c))
PressSearch == Ask(ExecuteSearch(search))
PressNext == search.has_more /\ search.page < PageMax /\ Ask(NextPage(search))
PressPrev == search.page > 0 /\ Ask(PrevPage(search))

-----------------------------------------------------------------------------
\* useMessageSelection: the selection stays when the list changes.
Select(ids) ==
    /\ ~away
    /\ selected' = ids
    /\ UNCHANGED <<stored, written, loadVars, deletion, away, acked>>

selectMessage == \E m \in Shown : Select(IF m \in selected THEN selected \ {m} ELSE selected \cup {m})
selectAllMessages == Select(selected \cup Shown)

\* Submitting aborts the last submission, with the reloads it made, and then
\* every load under way.
Interrupted(load) ==
    CASE load.at \in InFlight /\ load.held -> [Idle EXCEPT !.at = "dropped"]
      [] load.at \in InFlight /\ ~load.held -> [Idle EXCEPT !.at = "cancelled"]
      [] OTHER -> load

deleteMessages ==
    /\ ~away
    /\ selected # {}
    /\ fetcher' = Interrupted(fetcher)
    /\ route' = Interrupted(route)
    /\ deletion' = [at |-> "sent", ids |-> selected,
                    again |-> deletion.again \/ fetcher'.at = "cancelled"]
    /\ UNCHANGED <<stored, written, search, href, own, list, selected, away, acked>>

-----------------------------------------------------------------------------
\* The server, and the other users of it.

\* What a query of another visit or of a user's page may find in st: some of it.
\* What the query was does not matter, only that this page did not make it.
OtherQuery == [RouteQuery EXCEPT !.page = 1]
Others(st) == {[Answer(found, RouteQuery) EXCEPT !.of = OtherQuery] : found \in SUBSET st}

AnswerSearch ==
    /\ fetcher.at = "asked"
    /\ \E reply \in IF own THEN {Answer(stored, href)} ELSE Others(stored) :
          fetcher' = [fetcher EXCEPT !.at = "answered", !.reply = reply]
    /\ UNCHANGED <<stored, written, search, href, own, route, list, deleteVars, away, acked>>

\* What will never be shown is not kept.
AnswerRoute ==
    /\ route.at = "asked"
    /\ route' = [route EXCEPT !.at = "answered",
                              !.reply = IF list.searched THEN NoPage ELSE FirstPage(stored)]
    /\ UNCHANGED <<stored, written, search, href, own, fetcher, list, deleteVars, away, acked>>

\* DELETE /messages: refused when none of the messages is there (any more), and
\* when a statement or the answer of the last one fails, then done or not.
RemoveMessages ==
    /\ deletion.at = "sent"
    /\ stored' \in {stored, stored \ deletion.ids}
    /\ \E at \in {"ok", "refused"} :
          /\ at = "ok" => stored' # stored
          /\ deletion' = [deletion EXCEPT !.at = at]
    /\ UNCHANGED <<written, loadVars, selected, away, acked>>

\* Mutant: the messages are numbered from zero.
FlushFromZero ==
    /\ written < MessageMax
    /\ written' = written + 1
    /\ stored' = stored \cup {written}
    /\ UNCHANGED <<pageVars, away, acked>>

\* A flush stores a message.
Flush ==
    /\ written < MessageMax
    /\ written' = written + 1
    /\ stored' = stored \cup {written'}
    /\ UNCHANGED <<pageVars, away, acked>>

\* Another administrator, or a deletion of this one that was aborted here and
\* reaches the server all the same, deletes a message.
OthersDelete ==
    /\ \E m \in stored : stored' = stored \ {m}
    /\ UNCHANGED <<written, pageVars, away, acked>>

-----------------------------------------------------------------------------
\* Answers land.

\* A page that turned out to be empty is left for the one before.
WalksBack(page) == page.msgs = {} /\ search.page > 0

\* Mutant: the button for the next page keeps its state.
SearchLandsKeepingMore ==
    /\ list' = Searched(fetcher.reply)
    /\ IF WalksBack(fetcher.reply)
       THEN LoadSearch(PrevPage(search))
       ELSE fetcher' = Idle /\ UNCHANGED <<search, href, own>>

\* Mutant: an empty page is asked for again.
SearchLandsRetrying ==
    /\ list' = Searched(fetcher.reply)
    /\ IF WalksBack(fetcher.reply)
       THEN LoadSearch(search)
       ELSE /\ search' = SetMessages(search, fetcher.reply.more)
            /\ fetcher' = Idle
            /\ UNCHANGED <<href, own>>

\* The effect on the fetcher's data.
SearchLands ==
    /\ list' = Searched(fetcher.reply)
    /\ IF WalksBack(fetcher.reply)
       THEN LoadSearch(PrevPage(search))
       ELSE /\ search' = SetMessages(search, fetcher.reply.more)
            /\ fetcher' = Idle
            /\ UNCHANGED <<href, own>>

LandSearch ==
    /\ fetcher.at = "answered" /\ ~fetcher.held
    /\ SearchLands
    /\ UNCHANGED <<stored, written, route, deleteVars, away, acked>>

\* The reloads a submission made land together; a search that was asked
\* meanwhile has left them.
LandReloads ==
    /\ route.at = "answered" \/ fetcher.held
    /\ route.at # "asked"
    /\ fetcher.held => fetcher.at = "answered"
    /\ route' = IF route.at = "answered" THEN Idle ELSE route
    /\ IF fetcher.held THEN SearchLands
       ELSE /\ list' = IF list.searched THEN list ELSE Loaded(route.reply)
            /\ UNCHANGED <<search, href, own, fetcher>>
    /\ UNCHANGED <<stored, written, deleteVars, away, acked>>

\* Mutant: a deletion that went well is answered like one that did not.
ReloadsNever == FALSE

\* clientAction: 204 when the server deleted, and 500 when it refused.
Reloads == deletion.at = "ok"

\* The fetcher has a load to make again: every load, if it reloads; those the
\* submission had aborted, and the first one of all, also if it does not.
LoadsAgain ==
    IF Reloads THEN list.searched \/ fetcher.at # "idle"
    ELSE deletion.again \/ (~list.searched /\ fetcher.at # "idle")

\* A load of another visit may have been forgotten with its page.
DeletionLands ==
    /\ ~away
    /\ deletion.at \in {"ok", "refused"}
    /\ acked' = IF deletion.at = "ok" THEN acked \cup deletion.ids ELSE acked
    /\ route' = IF Reloads THEN Held ELSE route
    /\ \/ fetcher' = IF LoadsAgain THEN Held ELSE fetcher
       \/ ~own /\ fetcher' = fetcher
    /\ deletion' = NoDeletion
    /\ UNCHANGED <<stored, written, search, href, own, list, selected, away>>

-----------------------------------------------------------------------------
\* The page is closed and opened.

Fresh(page) ==
    /\ search' = NewSearch(page.more) /\ href' = RouteQuery /\ own' = TRUE
    /\ fetcher' = Idle /\ list' = Loaded(page)

Close ==
    /\ away' = TRUE
    /\ Fresh(FirstPage({})) /\ route' = Idle /\ selected' = {}
    /\ UNCHANGED <<stored, written, acked>>

\* The user goes to another page: a deletion that is under way goes on.
Leave == ~away /\ Close /\ UNCHANGED deletion

\* A request fails: fetchMessagesFromAPI throws, and so does the clientAction
\* when the request itself fails, done or not.
Crash ==
    /\ fetcher.at \in InFlight \/ route.at \in InFlight \/ deletion.at # "idle"
    /\ Close
    /\ deletion' = NoDeletion

\* useFetcher with the key "my": a page that is opened takes over the load and the
\* answer it finds there.  The effect on the fetcher's data runs at once, so the
\* buttons belong to that answer, also if the fetcher is emptied right after.
Adopt ==
    /\ href' = RouteQuery /\ own' = FALSE
    /\ fetcher' \in {Idle, Asked, Interrupted(Asked), Interrupted(Held)}
    /\ \E old \in Others(1..written) :
          /\ search' = NewSearch(old.more)
          /\ list' \in {Searched(old), Loaded(FirstPage(stored))}

\* The user comes (back) to the page.  With the key "my-key" it takes over a deletion
\* in the same manner, unless that has landed elsewhere; the messages it is about
\* may as well have been chosen on a user's page.
Open ==
    /\ away /\ away' = FALSE
    /\ Fresh(FirstPage(stored)) \/ Adopt
    /\ deletion' \in {NoDeletion, [deletion EXCEPT
                      !.again = deletion.at # "idle" /\ fetcher'.at = "cancelled"]}
    /\ route' = Idle /\ selected' = {}
    /\ UNCHANGED <<stored, written, acked>>

-----------------------------------------------------------------------------
User ==
    \/ Type \/ Filter \/ PressSearch \/ PressNext \/ PressPrev
    \/ selectMessage \/ selectAllMessages \/ deleteMessages
    \/ Leave \/ Open

Server == AnswerSearch \/ AnswerRoute \/ RemoveMessages
Landing == LandSearch \/ LandReloads \/ DeletionLands

Next == User \/ Server \/ Landing \/ Flush \/ OthersDelete \/ Crash

Spec == Init /\ [][Next]_vars

\* Every request is answered or fails, and what was answered lands.
Fairness ==
    /\ WF_vars(AnswerSearch) /\ WF_vars(AnswerRoute) /\ WF_vars(RemoveMessages)
    /\ WF_vars(LandSearch) /\ WF_vars(LandReloads) /\ WF_vars(DeletionLands)

FairSpec == Spec /\ Fairness
=============================================================================

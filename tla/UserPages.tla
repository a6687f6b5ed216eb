----------------------------- MODULE UserPages -----------------------------
(***************************************************************************)
(* The dashboard's pages for users and their bans (web/app/pages/users,    *)
(* routes/users, components/user, api/users.ts), composed with the server  *)
(* (Bans).                                                                 *)
(*                                                                         *)
(* One administrator uses them: the list of users, a user's profile with   *)
(* the dialogs that ban, and the records of bans with a button to pardon   *)
(* each.  Going to another page loads its data like a reload (Fetchers),   *)
(* and what is under way goes on: whoever made it, it is nobody's once the *)
(* page is left, and the router then keeps its errors to itself.  Reasons, *)
(* and the messages and sessions of a profile, are left out; who connects  *)
(* is in module Bans.                                                      *)
(***************************************************************************)
EXTENDS Fetchers, Bans

CONSTANTS
    PageSize,     \* the records the server sends at most (50)
    SubmitMax     \* bound: requests

ASSUME PagesConstants == PageSize \in Nat \ {0} /\ SubmitMax \in Nat

VARIABLES
    page,         \* the page that is shown
    banned,       \* the users its data says are banned
    records,      \* its ban records, the latest first
    dialog,       \* UserPage: the dialog that is open
    duration,     \* TempBanDialog: the hours typed; 0 stands for an empty field
    submits

shownVars == <<page, banned, records>>
dialogVars == <<dialog, duration>>
pageVars == <<shownVars, dialogVars, submits>>
serverVars == <<now, bans, conn, seen>>
allVars == <<serverVars, fetcherVars, pageVars>>

UsersPage == [at |-> "users", users |-> User]
BansPage == [at |-> "bans", users |-> {}]
Profile(u) == [at |-> "profile", users |-> {u}]
ErrorPage == [at |-> "error", users |-> {}]     \* or a page without its data
Pages == {UsersPage, BansPage} \cup {Profile(u) : u \in User}
Dialog == {"none", "perm", "temp"}
Fetcher == {"perm", "temp", "pardon", "gone", "navigate"}

\* What the loader of a page fetches: fetchUsers or fetchUser, or fetchBans, which
\* asks for the first records only.
Ids(p) == IF p.at = "bans" THEN {i \in DOMAIN bans : i > Len(bans) - PageSize} ELSE {}
Record(i) == [id |-> i, user |-> bans[i].user, end |-> bans[i].end, pardoned |-> bans[i].pardoned]

Loaded(p) == [banned |-> {u \in p.users : IsUserBanned(u)}, records |-> {Record(i) : i \in Ids(p)}]

InitPages ==
    /\ Init
    /\ NoFetchers
    /\ page = UsersPage /\ banned = {} /\ records = {}
    /\ dialog = "none" /\ duration = 0
    /\ submits = 0

-----------------------------------------------------------------------------
\* The dialogs of a profile.  The page of a user who is banned has a link to the
\* records instead.
SetDialog(d) ==
    /\ page.at = "profile" /\ banned = {}
    /\ d # dialog /\ "none" \in {d, dialog}
    /\ dialog' = d
    /\ UNCHANGED <<serverVars, fetcherVars, shownVars, duration, submits>>

\* What is typed stays when the dialog is closed.
SetDuration(h) ==
    /\ dialog = "temp"
    /\ duration' = h
    /\ UNCHANGED <<serverVars, fetcherVars, shownVars, dialog, submits>>

Submit(op, u, h, i) ==
    /\ submits < SubmitMax
    /\ submits' = submits + 1
    /\ Send([no |-> submits', op |-> op, user |-> u, hours |-> h, id |-> i, live |-> TRUE, at |-> "sent"])
    /\ UNCHANGED <<serverVars, shownVars, dialogVars>>

\* clientAction sends no duration when the field is empty or no number.
handleBanUser ==
    /\ dialog # "none"
    /\ \E u \in page.users : Submit(dialog, u, IF dialog = "temp" THEN duration ELSE 0, 0)

\* Mutant: the button is off for permanent bans.
PardonOfferedTemporary(r) == ~r.end.ever /\ r.end.at > now * NsPerHour /\ ~r.pardoned

\* The button of a record is on: its end has not passed, and a ban without an end
\* compares as not passed.
PardonOffered(r) == ~(~r.end.ever /\ r.end.at <= now * NsPerHour) /\ ~r.pardoned

pardon == \E r \in records : PardonOffered(r) /\ Submit("pardon", r.user, 0, r.id)

\* Links and buttons to another page.
Links ==
    {UsersPage}
    \cup (IF page.at = "users" \/ (page.at = "profile" /\ banned # {}) THEN {BansPage} ELSE {})
    \cup {Profile(u) : u \in page.users \cup {r.user : r \in records}}

\* The data of the other page is asked for; the last navigation is given up.
navigate(p) ==
    /\ page.at # "error" /\ p \in Links
    /\ reloads' = Append(Aborted("navigate"),
                         [op |-> "navigate", of |-> p, at |-> "asked", reply |-> <<>>])
    /\ UNCHANGED <<serverVars, requests, missed, pageVars>>

-----------------------------------------------------------------------------
\* The server serves a request; it also answers that it failed when only the
\* database's answer to the statement was lost.  Bound: beyond BanMax bans it
\* refuses.
Perform(r) ==
    /\ r.at = "sent"
    /\ \/ r.id = 0 /\ BanUser(r.user, r.hours)
       \/ r.id # 0 /\ PardonUser(r.id)
    /\ \E at \in {"ok", "thrown"} : Answered(r, at, TRUE)
    /\ UNCHANGED pageVars

Refuse(r) ==
    /\ r.at = "sent"
    /\ Answered(r, "thrown", FALSE)
    /\ UNCHANGED <<serverVars, pageVars>>

AnswerReload(k) ==
    /\ Reloaded(k, Loaded(reloads[k].of))
    /\ UNCHANGED <<serverVars, pageVars>>

-----------------------------------------------------------------------------
\* The page that will be shown: that of the navigation under way, or this one.
NextPage ==
    IF \E k \in DOMAIN reloads : reloads[k].op = "navigate"
    THEN reloads[CHOOSE k \in DOMAIN reloads : reloads[k].op = "navigate"].of
    ELSE page

\* Mutant: the page's data is not asked for again.
AnswerLandsOnly(r) ==
    /\ r.at = "ok"
    /\ Landed(r, FALSE, NextPage)
    /\ UNCHANGED <<serverVars, pageVars>>

AnswerLands(r) ==
    /\ r.at = "ok"
    /\ Landed(r, TRUE, NextPage)
    /\ UNCHANGED <<serverVars, pageVars>>

\* Mutant: the dialog stays open when the user has been banned.
DialogAfterKept(p, bannedThen) == IF p.at = page.at THEN dialog ELSE "none"

\* A profile's dialog closes when its user is banned or free again; from one
\* profile to another it stays.
DialogAfter(p, bannedThen) ==
    IF p.at = page.at /\ (bannedThen = {} <=> banned = {}) THEN dialog ELSE "none"

\* When a page is left its fetchers are nobody's; what they asked goes on.
Orphan(p, x) == IF p.at = page.at \/ x.op = "navigate" THEN x ELSE [x EXCEPT !.op = "gone"]

\* Page p is shown, with some data.
Show(p, data) ==
    /\ page' = p /\ banned' = data.banned /\ records' = data.records
    /\ dialog' = DialogAfter(p, data.banned)
    /\ duration' = IF p.at = page.at THEN duration ELSE 0

NoData == [banned |-> {}, records |-> {}]

\* Those of a list of reloads that were asked after the k-th.
Later(p, k) == [j \in 1..(Len(reloads) - k) |-> Orphan(p, reloads[j + k])]

\* The k-th reload lands.  If a navigation was asked before it, or is it, the
\* navigation ends with it.  Otherwise it is for the page that is shown; one
\* for a page the user was on the way to before he turned elsewhere takes this
\* page's data away, and on the error page it does not show.
LandReload(k) ==
    LET of == reloads[k].of
        ends == \E j \in 1..k : reloads[j].op = "navigate"
        p == IF ends \/ of = page THEN of ELSE ErrorPage
    IN /\ reloads[k].at = "answered"
       /\ Show(p, IF p = ErrorPage THEN NoData ELSE reloads[k].reply)
       /\ requests' = {Orphan(p, r) : r \in requests}
       /\ reloads' = Later(p, k)
       /\ UNCHANGED <<serverVars, missed, submits>>

-----------------------------------------------------------------------------
\* The clientAction for r throws, or r fails on its way, done or not.

\* The requests without r, with which the server goes on.
Without(r) ==
    (requests \ {r}) \cup (IF r.at = "sent" THEN {[r EXCEPT !.live = FALSE]} ELSE {})

\* Of a fetcher that is nobody's the router swallows the error.
Swallow(r) ==
    /\ r.live /\ r.op = "gone"
    /\ requests' = Without(r)
    /\ missed' = (missed \/ r.at = "ok")
    /\ UNCHANGED <<serverVars, reloads, pageVars>>

\* The error page, until a navigation ends.
Throw(r) ==
    /\ r.live /\ r.op # "gone"
    /\ Show(ErrorPage, NoData)
    /\ requests' = {Orphan(ErrorPage, q) : q \in Without(r)}
    /\ reloads' = Later(ErrorPage, 0)
    /\ missed' = (missed \/ r.at = "ok")
    /\ UNCHANGED <<serverVars, submits>>

\* A loader throws.
ThrowReload(k) ==
    /\ Show(ErrorPage, NoData)
    /\ requests' = {Orphan(ErrorPage, q) : q \in requests}
    /\ reloads' = Later(ErrorPage, k)
    /\ UNCHANGED <<serverVars, missed, submits>>

Crash ==
    \/ \E r \in requests : Swallow(r) \/ Throw(r)
    \/ \E k \in DOMAIN reloads : ThrowReload(k)

\* The dashboard is loaded again, at some page.
Open(p) ==
    /\ page = ErrorPage
    /\ page' = p /\ banned' = Loaded(p).banned /\ records' = Loaded(p).records
    /\ Abandon
    /\ UNCHANGED <<serverVars, dialogVars, submits>>

-----------------------------------------------------------------------------
Admin ==
    \/ \E d \in Dialog : SetDialog(d)
    \/ \E h \in Hours : SetDuration(h)
    \/ handleBanUser \/ pardon
    \/ \E p \in Pages : navigate(p) \/ Open(p)

Server == \E r \in requests : Perform(r) \/ Refuse(r)

Landing ==
    \/ \E r \in requests : AnswerLands(r)
    \/ \E k \in DOMAIN reloads : AnswerReload(k) \/ LandReload(k)

NextPages ==
    \/ Admin \/ Server \/ Landing \/ Crash
    \/ Hour /\ UNCHANGED <<fetcherVars, pageVars>>

\* Requests are answered, and answers land.
Fairness == WF_allVars(Server) /\ WF_allVars(Landing)

SpecPages == InitPages /\ [][NextPages]_allVars /\ Fairness
=============================================================================

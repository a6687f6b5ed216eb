-------------------------- MODULE SearchPageProofs --------------------------
(***************************************************************************)
(* The search page: what it shows belongs to the latest search, and what   *)
(* was deleted leaves it, for any number of messages, channels and         *)
(* keywords.                                                               *)
(***************************************************************************)
EXTENDS SearchPageProperties, TLAPS

-----------------------------------------------------------------------------
\* The reducer and the server's answer.

LEMMA SearchFacts ==
  ASSUME NEW s \in Search
  PROVE  /\ \A k \in Word : LET t == SetTemporaryKeyword(s, k)
                            IN t \in Search /\ t.keyword = s.keyword /\ t.page = s.page
                               /\ t.has_more = s.has_more
         /\ \A c \in Channel : LET t == AddFilter(s, c)
                               IN t \in Search /\ t.keyword = s.keyword /\ t.page = s.page
                                  /\ t.has_more = s.has_more
         /\ \A c \in Channel : LET t == RemoveFilter(s, c)
                               IN t \in Search /\ t.keyword = s.keyword /\ t.page = s.page
                                  /\ t.has_more = s.has_more
         /\ \A more \in BOOLEAN : LET t == SetMessages(s, more)
                                  IN t \in Search /\ t.keyword = s.keyword /\ t.page = s.page
                                     /\ t.has_more = more
         /\ NextPage(s) \in Search /\ NextPage(s).page = s.page + 1
         /\ PrevPage(s) \in Search /\ PrevPage(s).page <= s.page
         /\ ExecuteSearch(s) \in Search /\ ExecuteSearch(s).page = 0
         /\ Href(s) \in Query /\ Href(s).keyword = s.keyword /\ Href(s).page = s.page
<1>1. /\ s.keyword \in Word /\ s.temporaryKeyword \in Word /\ s.activeFilters \in SUBSET Channel
      /\ s.has_more \in BOOLEAN /\ s.page \in Nat
  BY DEF Search
<1>2. /\ \A k \in Word : LET t == SetTemporaryKeyword(s, k)
                         IN t \in Search /\ t.keyword = s.keyword /\ t.page = s.page
                            /\ t.has_more = s.has_more
      /\ \A more \in BOOLEAN : LET t == SetMessages(s, more)
                               IN t \in Search /\ t.keyword = s.keyword /\ t.page = s.page
                                  /\ t.has_more = more
  BY <1>1 DEF Search, SetTemporaryKeyword, SetMessages
<1>3. /\ \A c \in Channel : LET t == AddFilter(s, c)
                            IN t \in Search /\ t.keyword = s.keyword /\ t.page = s.page
                               /\ t.has_more = s.has_more
      /\ \A c \in Channel : LET t == RemoveFilter(s, c)
                            IN t \in Search /\ t.keyword = s.keyword /\ t.page = s.page
                               /\ t.has_more = s.has_more
  BY <1>1 DEF Search, AddFilter, RemoveFilter
<1>4. /\ NextPage(s) \in Search /\ NextPage(s).page = s.page + 1
      /\ ExecuteSearch(s) \in Search /\ ExecuteSearch(s).page = 0
  <2>1. s.page + 1 \in Nat /\ 0 \in Nat
    BY <1>1
  <2>2. NextPage(s) \in Search /\ NextPage(s).page = s.page + 1
    BY <1>1, <2>1 DEF Search, NextPage
  <2>3. ExecuteSearch(s) \in Search /\ ExecuteSearch(s).page = 0
    BY <1>1, <2>1 DEF Search, ExecuteSearch
  <2> QED
    BY <2>2, <2>3
<1>5. PrevPage(s) \in Search /\ PrevPage(s).page <= s.page
  <2>1. (IF s.page <= 0 THEN s.page ELSE s.page - 1) \in Nat
    BY <1>1
  <2> QED
    BY <1>1, <2>1 DEF Search, PrevPage
<1>6. Href(s) \in Query /\ Href(s).keyword = s.keyword /\ Href(s).page = s.page
  BY <1>1 DEF Query, Href
<1> QED
  BY <1>2, <1>3, <1>4, <1>5, <1>6

LEMMA NewSearchFacts ==
  /\ RouteQuery \in Query
  /\ \A more \in BOOLEAN : LET t == NewSearch(more)
                           IN t \in Search /\ t.keyword = RouteQuery.keyword
                              /\ t.page = RouteQuery.page /\ t.page = 0
BY DEF RouteQuery, Query, NewSearch, Search, Word

\* An answer answers its query, with messages that are stored.
LEMMA AnswerFacts ==
  ASSUME NEW st \in SUBSET Message, NEW q \in Query
  PROVE  LET a == Answer(st, q) IN a \in Page /\ a.of = q /\ a.msgs \subseteq st
<1> DEFINE found == Found(st, q)
           ms == {m \in found : Newer(found, m) \in (q.page * Limit)..(q.page * Limit + Limit - 1)}
           more == Cardinality(found) > q.page * Limit + Limit
<1>1. found \subseteq st /\ ms \subseteq found /\ ms \subseteq Message
  BY DEF Found
<1>2. more \in BOOLEAN
  OBVIOUS
<1>3. Answer(st, q) = [of |-> q, msgs |-> ms, more |-> more]
  BY DEF Answer
<1> HIDE DEF ms, more, found
<1> QED
  BY <1>1, <1>2, <1>3 DEF Page

LEMMA OthersFacts ==
  ASSUME NEW st \in SUBSET Message, NEW old \in Others(st)
  PROVE  old \in Page /\ old.msgs \subseteq st /\ old.more \in BOOLEAN
<1>1. PICK found \in SUBSET st : old = [Answer(found, RouteQuery) EXCEPT !.of = OtherQuery]
  BY DEF Others
<1>2. Answer(found, RouteQuery) \in Page /\ Answer(found, RouteQuery).msgs \subseteq found
  <2>1. found \in SUBSET Message
    OBVIOUS
  <2> QED
    BY <2>1, AnswerFacts, NewSearchFacts
<1>3. OtherQuery \in Query
  BY NewSearchFacts DEF OtherQuery, Query
<1> HIDE DEF Others
<1> QED
  BY <1>1, <1>2, <1>3 DEF Page

\* The loads.
LEMMA LoadFacts ==
  /\ Idle \in Load /\ Idle.at = "idle" /\ ~Idle.held
  /\ Asked \in Load /\ Asked.at = "asked"
  /\ Held \in Load /\ Held.at = "asked"
  /\ \A load \in Load : /\ Interrupted(load) \in Load /\ Interrupted(load).at # "answered"
                        /\ Interrupted(load).at = "idle" <=> load.at = "idle"
<1>1. Idle \in Load /\ Idle.at = "idle" /\ ~Idle.held
  BY DEF Idle, Load, LoadAt
<1>2. Asked \in Load /\ Asked.at = "asked" /\ Held \in Load /\ Held.at = "asked"
  BY <1>1 DEF Asked, Held, Load, LoadAt
<1>3. /\ [Idle EXCEPT !.at = "dropped"] \in Load /\ [Idle EXCEPT !.at = "dropped"].at = "dropped"
      /\ [Idle EXCEPT !.at = "cancelled"] \in Load /\ [Idle EXCEPT !.at = "cancelled"].at = "cancelled"
  BY <1>1 DEF Load, LoadAt
<1>4. ASSUME NEW load \in Load
      PROVE  /\ Interrupted(load) \in Load /\ Interrupted(load).at # "answered"
             /\ Interrupted(load).at = "idle" <=> load.at = "idle"
  <2>1. load.held \in BOOLEAN
    BY DEF Load
  <2>2. CASE load.at \in InFlight /\ load.held
    <3>1. Interrupted(load) = [Idle EXCEPT !.at = "dropped"]
      BY <2>2 DEF Interrupted
    <3> QED
      BY <1>3, <2>2, <3>1 DEF InFlight
  <2>3. CASE load.at \in InFlight /\ ~load.held
    <3>1. Interrupted(load) = [Idle EXCEPT !.at = "cancelled"]
      BY <2>3 DEF Interrupted
    <3> QED
      BY <1>3, <2>3, <3>1 DEF InFlight
  <2>4. CASE load.at \notin InFlight
    <3>1. Interrupted(load) = load
      BY <2>4 DEF Interrupted
    <3> QED
      BY <2>4, <3>1 DEF InFlight
  <2> QED
    BY <2>1, <2>2, <2>3, <2>4
<1> QED
  BY <1>1, <1>2, <1>4

-----------------------------------------------------------------------------
\* The inductive invariant.

\* The types of the variables of a page, one by one.
Lists == [searched : BOOLEAN, page : Page]

LEMMA TypeParts ==
  ASSUME TypeOK
  PROVE  /\ written \in Nat /\ written <= MessageMax /\ stored \subseteq 1..written
         /\ 1..written \subseteq Message /\ stored \in SUBSET Message
         /\ search \in Search /\ search.page <= PageMax /\ search.page \in Nat
         /\ search.has_more \in BOOLEAN
         /\ href \in Query /\ own \in BOOLEAN /\ fetcher \in Load /\ route \in Load /\ list \in Lists
         /\ list.page \in Page /\ list.searched \in BOOLEAN
         /\ selected \subseteq 1..written
         /\ deletion.at \in {"idle", "sent", "ok", "refused"} /\ deletion.ids \subseteq 1..written
         /\ deletion.again \in BOOLEAN
         /\ away \in BOOLEAN /\ acked \subseteq 1..written
<1>1. written \in Nat /\ written <= MessageMax /\ 1..written \subseteq Message
  BY SearchConstants DEF TypeOK, Message
<1>2. list \in Lists /\ list.page \in Page /\ list.searched \in BOOLEAN
  BY DEF TypeOK, Lists
<1>3. search \in Search /\ search.page <= PageMax /\ search.page \in Nat /\ search.has_more \in BOOLEAN
  BY DEF TypeOK, Search
<1> QED
  BY <1>1, <1>2, <1>3 DEF TypeOK

\* What is shown when an answer to a search lands.
LEMMA LandingKeeps ==
  ASSUME TypeOK, PageInv, fetcher.at = "answered", SearchLands, UNCHANGED <<written, acked>>
  PROVE  /\ search' \in Search /\ search'.page <= PageMax /\ href' \in Query /\ own' \in BOOLEAN
         /\ fetcher' \in Load
         /\ list' \in Lists /\ list'.searched /\ list'.page \in Page
         /\ list'.page.msgs \subseteq 1..written'
         /\ own' => list'.page.msgs \cap acked' = {} \/ fetcher'.at # "idle"
         /\ fetcher'.at # "answered"
         /\ href'.keyword = search'.keyword /\ href'.page = search'.page
         /\ Consistent'
<1> DEFINE page == fetcher.reply
<1>1. /\ page \in Page /\ page.msgs \subseteq 1..written
      /\ own => page.of = href /\ page.msgs \cap acked = {}
      /\ href.keyword = search.keyword /\ href.page = search.page
      /\ page.more \in BOOLEAN
  BY DEF PageInv, Replies, Latest, Deleted, Written, Clean, Page
<1>2. list' = [searched |-> TRUE, page |-> page]
  BY DEF SearchLands, Searched
<1>3. list' \in Lists /\ list'.searched /\ list'.page = page
  BY <1>1, <1>2 DEF Lists
<1>4. own => list'.page.msgs \cap acked' = {}
  BY <1>1, <1>3
<1>5. CASE WalksBack(page)
  <2>1. /\ search' = PrevPage(search) /\ href' = Href(search') /\ own' = TRUE /\ fetcher' = Asked
    BY <1>5 DEF SearchLands, LoadSearch
  <2>2. search' \in Search /\ search'.page <= search.page
    BY <2>1, TypeParts, SearchFacts
  <2>3. href' \in Query /\ href'.keyword = search'.keyword /\ href'.page = search'.page
    BY <2>1, <2>2, SearchFacts
  <2>4. fetcher' \in Load /\ fetcher'.at = "asked"
    BY <2>1, LoadFacts
  <2>5. search'.page <= PageMax
    <3>1. search'.page \in Nat
      BY <2>2 DEF Search
    <3> QED
      BY <2>2, <3>1, TypeParts, PageBound
  <2>6. own' \in BOOLEAN
    BY <2>1
  <2>7. Consistent'
    BY <2>4 DEF Consistent
  <2> QED
    BY <1>1, <1>3, <2>2, <2>3, <2>4, <2>5, <2>6, <2>7
<1>6. CASE ~WalksBack(page)
  <2>1. search' = SetMessages(search, page.more) /\ href' = href /\ own' = own /\ fetcher' = Idle
    BY <1>6 DEF SearchLands
  <2>2. /\ search' \in Search /\ search'.keyword = search.keyword /\ search'.page = search.page
        /\ search'.has_more = page.more
    <3>1. PICK more \in BOOLEAN : more = page.more
      BY <1>1
    <3>2. search' = SetMessages(search, more) /\ search \in Search
      BY <2>1, <3>1, TypeParts
    <3>3. /\ SetMessages(search, more) \in Search
          /\ SetMessages(search, more).keyword = search.keyword
          /\ SetMessages(search, more).page = search.page
          /\ SetMessages(search, more).has_more = more
      BY <3>2, SearchFacts, ZenonT(30)
    <3> QED
      BY <3>1, <3>2, <3>3
  <2>3. Consistent'
    BY <1>1, <1>3, <1>6, <2>1, <2>2 DEF Consistent, Answers, Shown, WalksBack
  <2> QED
    BY <1>1, <1>3, <1>4, <2>1, <2>2, <2>3, TypeParts, LoadFacts
<1> QED
  BY <1>5, <1>6

\* The page is set up anew.
LEMMA AnewKeeps ==
  ASSUME TypeOK, PageInv,
         search' \in Search, search'.page = 0, search'.keyword = RouteQuery.keyword,
         href' = RouteQuery, own' \in BOOLEAN,
         fetcher' \in Load, fetcher'.at # "answered",
         list' \in Lists, list'.page.msgs \subseteq 1..written,
         IF list'.searched THEN ~own' ELSE list'.page.msgs \cap acked = {},
         route' = Idle, selected' = {},
         deletion' \in [at : {"idle", "sent", "ok", "refused"}, ids : SUBSET (1..written), again : BOOLEAN],
         deletion'.at = "ok" => stored \cap deletion'.ids = {},
         away' \in BOOLEAN, UNCHANGED <<stored, written, acked>>
  PROVE  (TypeOK /\ PageInv)'
<1>1. route' \in Load /\ route'.at # "answered"
  BY LoadFacts
<1>2. TypeOK'
  BY <1>1, TypeParts, NewSearchFacts, PageBound DEF TypeOK, Lists
<1>3. RouteQuery.page = 0
  BY DEF RouteQuery
<1>4. list'.page \in Page /\ list'.searched \in BOOLEAN
  BY DEF Lists
<1>5. Replies' /\ Latest'
  BY <1>1, <1>3, <1>4 DEF Replies, Latest, Written
<1>6. Consistent'
  BY DEF Consistent
<1>7. Deleted'
  BY <1>1 DEF PageInv, Deleted, Clean
<1> QED
  BY <1>2, <1>5, <1>6, <1>7 DEF PageInv

\* Its fetcher is new as well, and the list has what is stored.
LEMMA FreshFacts ==
  ASSUME TypeOK, PageInv, NEW st \in SUBSET stored, Fresh(FirstPage(st))
  PROVE  /\ search' \in Search /\ search'.page = 0 /\ search'.keyword = RouteQuery.keyword
         /\ href' = RouteQuery /\ own' \in BOOLEAN /\ fetcher' \in Load /\ fetcher'.at # "answered"
         /\ list' \in Lists /\ ~list'.searched
         /\ list'.page.msgs \subseteq 1..written /\ list'.page.msgs \cap acked = {}
<1> DEFINE page == FirstPage(st)
<1>1. st \in SUBSET Message /\ stored \cap acked = {} /\ stored \subseteq 1..written
  BY TypeParts DEF PageInv, Deleted
<1>2. page \in Page /\ page.msgs \subseteq st /\ page.more \in BOOLEAN
  <2>1. page \in Page /\ page.msgs \subseteq st
    BY <1>1, AnswerFacts, NewSearchFacts DEF FirstPage
  <2> QED
    BY <2>1 DEF Page
<1> HIDE DEF page
<1>3. /\ search' = NewSearch(page.more) /\ href' = RouteQuery /\ own' = TRUE
      /\ fetcher' = Idle /\ list' = Loaded(page)
  BY DEF Fresh, page
<1>4. list' \in Lists /\ ~list'.searched /\ list'.page = page
  BY <1>2, <1>3 DEF Loaded, Lists
<1>5. search' \in Search /\ search'.page = 0 /\ search'.keyword = RouteQuery.keyword
  BY <1>2, <1>3, NewSearchFacts
<1> QED
  BY <1>1, <1>2, <1>3, <1>4, <1>5, LoadFacts

\* Its fetcher has another page's load or answer.
LEMMA AdoptFacts ==
  ASSUME TypeOK, PageInv, Adopt
  PROVE  /\ search' \in Search /\ search'.page = 0 /\ search'.keyword = RouteQuery.keyword
         /\ href' = RouteQuery /\ own' = FALSE /\ fetcher' \in Load /\ fetcher'.at # "answered"
         /\ list' \in Lists /\ list'.page.msgs \subseteq 1..written
         /\ list'.searched \/ list'.page.msgs \cap acked = {}
<1>1. PICK old \in Others(1..written) : /\ search' = NewSearch(old.more)
                                       /\ list' \in {Searched(old), Loaded(FirstPage(stored))}
  BY DEF Adopt
<1>2. old \in Page /\ old.msgs \subseteq 1..written /\ old.more \in BOOLEAN
  <2>1. 1..written \in SUBSET Message
    BY TypeParts
  <2> QED
    BY <2>1, OthersFacts
<1>3. search' \in Search /\ search'.page = 0 /\ search'.keyword = RouteQuery.keyword
  BY <1>1, <1>2, NewSearchFacts
<1>4. fetcher' \in Load /\ fetcher'.at # "answered"
  BY LoadFacts DEF Adopt
<1>5. /\ list' \in Lists /\ list'.page.msgs \subseteq 1..written
      /\ list'.searched \/ list'.page.msgs \cap acked = {}
  <2>1. CASE list' = Searched(old)
    BY <1>2, <2>1 DEF Searched, Lists
  <2>2. CASE list' = Loaded(FirstPage(stored))
    <3>1. FirstPage(stored) \in Page /\ FirstPage(stored).msgs \subseteq stored
      BY TypeParts, AnswerFacts, NewSearchFacts DEF FirstPage
    <3>2. stored \cap acked = {} /\ stored \subseteq 1..written
      BY TypeParts DEF PageInv, Deleted
    <3>3. list'.page = FirstPage(stored) /\ list' \in Lists
      BY <2>2, <3>1 DEF Loaded, Lists
    <3> QED
      BY <3>1, <3>2, <3>3
  <2> QED
    BY <1>1, <2>1, <2>2
<1> QED
  BY <1>3, <1>4, <1>5 DEF Adopt

\* The page is closed, and a deletion goes on or is forgotten.
LEMMA CloseKeeps ==
  ASSUME TypeOK, PageInv, Close, deletion' \in {deletion, NoDeletion}
  PROVE  (TypeOK /\ PageInv)'
<1>1. {} \in SUBSET stored /\ Fresh(FirstPage({}))
  BY DEF Close
<1>2. /\ deletion' \in [at : {"idle", "sent", "ok", "refused"}, ids : SUBSET (1..written), again : BOOLEAN]
      /\ deletion'.at = "ok" => stored \cap deletion'.ids = {}
  <2>1. CASE deletion' = deletion
    BY <2>1 DEF TypeOK, PageInv, Deleted
  <2>2. CASE deletion' = NoDeletion
    BY <2>2 DEF NoDeletion
  <2> QED
    BY <2>1, <2>2
<1>3. away' \in BOOLEAN /\ route' = Idle /\ selected' = {} /\ UNCHANGED <<stored, written, acked>>
  BY DEF Close
<1>4. /\ search' \in Search /\ search'.page = 0 /\ search'.keyword = RouteQuery.keyword
      /\ href' = RouteQuery /\ own' \in BOOLEAN /\ fetcher' \in Load /\ fetcher'.at # "answered"
      /\ list' \in Lists /\ ~list'.searched
      /\ list'.page.msgs \subseteq 1..written /\ list'.page.msgs \cap acked = {}
  BY <1>1, FreshFacts
<1> QED
  BY <1>2, <1>3, <1>4, AnewKeeps

-----------------------------------------------------------------------------
LEMMA InvInit == Init => TypeOK /\ PageInv
<1> SUFFICES ASSUME Init PROVE TypeOK /\ PageInv
  OBVIOUS
<1> DEFINE page == FirstPage(stored)
<1>1. stored = {} /\ written = 0 /\ acked = {}
  BY DEF Init
<1>2. page \in Page /\ page.of = RouteQuery /\ page.msgs \subseteq {}
  BY <1>1, AnswerFacts, NewSearchFacts DEF FirstPage
<1> HIDE DEF page
<1>3. /\ search = NewSearch(FALSE) /\ href = RouteQuery /\ fetcher = Idle /\ route = Idle
      /\ list = Loaded(page) /\ own = TRUE /\ selected = {} /\ deletion = NoDeletion /\ away = FALSE
  BY DEF Init, page
<1>4. list \in Lists /\ ~list.searched /\ list.page = page
  BY <1>2, <1>3 DEF Loaded, Lists
<1>5. search \in Search /\ search.page = 0 /\ href \in Query
      /\ href.keyword = search.keyword /\ href.page = search.page
  BY <1>3, NewSearchFacts
<1>6. deletion.at = "idle"
      /\ deletion \in [at : {"idle", "sent", "ok", "refused"}, ids : SUBSET (1..written), again : BOOLEAN]
  BY <1>3 DEF NoDeletion
<1>7. TypeOK
  <2>1. written \in 0..MessageMax /\ stored \subseteq 1..written /\ acked \subseteq 1..written
    BY <1>1, SearchConstants
  <2>2. search.page <= PageMax
    BY <1>5, PageBound
  <2> QED
    BY <1>3, <1>4, <1>5, <1>6, <2>1, <2>2, LoadFacts DEF TypeOK, Lists
<1>8. PageInv
  BY <1>1, <1>2, <1>3, <1>4, <1>5, <1>6, LoadFacts
  DEF PageInv, Replies, Latest, Consistent, Deleted, Written, Clean
<1> QED
  BY <1>7, <1>8

LEMMA InvStep == TypeOK /\ PageInv /\ [Next]_vars => (TypeOK /\ PageInv)'
<1> SUFFICES ASSUME TypeOK, PageInv, [Next]_vars PROVE (TypeOK /\ PageInv)'
  OBVIOUS
<1> USE DEF PageInv, Replies, Latest, Consistent, Answers, Deleted, Written, Clean, Shown
\* Steps that leave what the server has and what is shown, and ask for nothing.
<1>1. ASSUME NEW t \in Search, Change(t), t.keyword = search.keyword, t.page = search.page,
             t.has_more = search.has_more
      PROVE  (TypeOK /\ PageInv)'
  BY <1>1 DEF Change, TypeOK, deleteVars
<1>2. CASE Type
  <2>1. PICK k \in Word : Change(SetTemporaryKeyword(search, k))
    BY <1>2 DEF Type
  <2> DEFINE t == SetTemporaryKeyword(search, k)
  <2>2. /\ t \in Search /\ t.keyword = search.keyword /\ t.page = search.page
        /\ t.has_more = search.has_more
    BY TypeParts, SearchFacts
  <2> HIDE DEF t
  <2>3. Change(t)
    BY <2>1 DEF t
  <2> QED
    BY <1>1, <2>2, <2>3
<1>3. CASE Filter
  <2>1. PICK c \in Channel : Change(AddFilter(search, c)) \/ Change(RemoveFilter(search, c))
    BY <1>3 DEF Filter
  <2> DEFINE t == AddFilter(search, c)
             u == RemoveFilter(search, c)
  <2>2. /\ t \in Search /\ t.keyword = search.keyword /\ t.page = search.page
        /\ t.has_more = search.has_more
    BY <2>1, TypeParts, SearchFacts
  <2>3. /\ u \in Search /\ u.keyword = search.keyword /\ u.page = search.page
        /\ u.has_more = search.has_more
    BY <2>1, TypeParts, SearchFacts
  <2>4. Change(t) \/ Change(u)
    BY <2>1
  <2> HIDE DEF t, u
  <2> QED
    BY <1>1, <2>2, <2>3, <2>4
\* A search is asked for.
<1>4. ASSUME NEW t \in Search, Ask(t), t.page <= PageMax
      PROVE  (TypeOK /\ PageInv)'
  <2>1. search' = t /\ href' = Href(t) /\ own' = TRUE /\ fetcher' = Asked
        /\ UNCHANGED <<stored, written, route, list, selected, deletion, away, acked>>
    BY <1>4 DEF Ask, LoadSearch, deleteVars
  <2>2. href' \in Query /\ href'.keyword = search'.keyword /\ href'.page = search'.page
    BY <2>1, SearchFacts
  <2>3. fetcher' \in Load /\ fetcher'.at = "asked"
    BY <2>1, LoadFacts
  <2>4. TypeOK'
    BY <1>4, <2>1, <2>2, <2>3 DEF TypeOK
  <2>5. PageInv'
    BY <2>1, <2>2, <2>3
  <2> QED
    BY <2>4, <2>5
<1>5. CASE PressSearch
  <2> DEFINE t == ExecuteSearch(search)
  <2>1. t \in Search /\ t.page = 0
    BY TypeParts, SearchFacts
  <2>2. Ask(t)
    BY <1>5 DEF PressSearch
  <2> HIDE DEF t
  <2>3. t.page <= PageMax
    BY <2>1, PageBound
  <2> QED
    BY <1>4, <2>1, <2>2, <2>3
<1>6. CASE PressNext
  <2> DEFINE t == NextPage(search)
  <2>1. search.page + 1 <= PageMax
    BY <1>6, TypeParts, PageBound DEF PressNext
  <2>2. t \in Search /\ t.page <= PageMax
    BY <2>1, TypeParts, SearchFacts
  <2>3. Ask(t)
    BY <1>6 DEF PressNext
  <2> HIDE DEF t
  <2> QED
    BY <1>4, <2>2, <2>3
<1>7. CASE PressPrev
  <2>1. PrevPage(search) \in Search /\ PrevPage(search).page <= search.page
    BY TypeParts, SearchFacts
  <2>2. PrevPage(search).page \in Nat
    BY <2>1 DEF Search
  <2>3. PrevPage(search).page <= PageMax
    BY <2>1, <2>2, TypeParts, PageBound
  <2> QED
    BY <1>4, <1>7, <2>1, <2>3 DEF PressPrev
\* The selection, and what is sent of it.
<1>8. ASSUME NEW ids \in SUBSET (1..written), Select(ids) PROVE (TypeOK /\ PageInv)'
  BY <1>8 DEF Select, TypeOK, loadVars
<1>9. CASE selectMessage
  <2>1. PICK m \in Shown : Select(IF m \in selected THEN selected \ {m} ELSE selected \cup {m})
    BY <1>9 DEF selectMessage
  <2>2. (IF m \in selected THEN selected \ {m} ELSE selected \cup {m}) \in SUBSET (1..written)
    BY <2>1, TypeParts
  <2> QED
    BY <1>8, <2>1, <2>2
<1>10. CASE selectAllMessages
  <2>1. selected \cup Shown \in SUBSET (1..written)
    BY TypeParts
  <2> QED
    BY <1>8, <1>10, <2>1 DEF selectAllMessages
<1>11. CASE deleteMessages
  <2>1. /\ fetcher' = Interrupted(fetcher) /\ route' = Interrupted(route)
        /\ deletion' = [at |-> "sent", ids |-> selected,
                        again |-> deletion.again \/ fetcher'.at = "cancelled"]
        /\ UNCHANGED <<stored, written, search, href, own, list, selected, away, acked>>
    BY <1>11 DEF deleteMessages
  <2>2. /\ fetcher' \in Load /\ fetcher'.at # "answered" /\ (fetcher'.at = "idle" <=> fetcher.at = "idle")
        /\ route' \in Load /\ route'.at # "answered" /\ (route'.at = "idle" <=> route.at = "idle")
    BY <2>1, TypeParts, LoadFacts
  <2>3. /\ deletion' \in [at : {"idle", "sent", "ok", "refused"}, ids : SUBSET (1..written), again : BOOLEAN]
        /\ deletion'.at = "sent"
    <3>1. (deletion.again \/ fetcher'.at = "cancelled") \in BOOLEAN
      OBVIOUS
    <3> QED
      BY <2>1, <3>1, TypeParts
  <2>4. TypeOK'
    BY <2>1, <2>2, <2>3 DEF TypeOK
  <2>5. PageInv'
    BY <2>1, <2>2, <2>3
  <2> QED
    BY <2>4, <2>5
\* The page is closed and opened.
<1>12. CASE Open
  <2>1. /\ deletion' \in [at : {"idle", "sent", "ok", "refused"}, ids : SUBSET (1..written), again : BOOLEAN]
        /\ deletion'.at = "ok" => stored \cap deletion'.ids = {}
    <3> DEFINE again == deletion.at # "idle" /\ fetcher'.at = "cancelled"
    <3>1. again \in BOOLEAN
      OBVIOUS
    <3>2. deletion' \in {NoDeletion, [deletion EXCEPT !.again = again]}
      BY <1>12 DEF Open
    <3> HIDE DEF again
    <3>3. CASE deletion' = NoDeletion
      BY <3>3 DEF NoDeletion
    <3>4. CASE deletion' = [deletion EXCEPT !.again = again]
      BY <3>1, <3>4 DEF TypeOK
    <3> QED
      BY <3>2, <3>3, <3>4
  <2>2. /\ away' \in BOOLEAN /\ route' = Idle /\ selected' = {}
        /\ UNCHANGED <<stored, written, acked>>
    BY <1>12 DEF Open
  <2>3. CASE Fresh(FirstPage(stored))
    <3>1. /\ search' \in Search /\ search'.page = 0 /\ search'.keyword = RouteQuery.keyword
          /\ href' = RouteQuery /\ own' \in BOOLEAN /\ fetcher' \in Load /\ fetcher'.at # "answered"
          /\ list' \in Lists /\ ~list'.searched
          /\ list'.page.msgs \subseteq 1..written /\ list'.page.msgs \cap acked = {}
      BY <2>3, FreshFacts
    <3> QED
      BY <2>1, <2>2, <3>1, AnewKeeps
  <2>4. CASE Adopt
    <3>1. /\ search' \in Search /\ search'.page = 0 /\ search'.keyword = RouteQuery.keyword
          /\ href' = RouteQuery /\ own' = FALSE /\ fetcher' \in Load /\ fetcher'.at # "answered"
          /\ list' \in Lists /\ list'.page.msgs \subseteq 1..written
          /\ list'.searched \/ list'.page.msgs \cap acked = {}
      BY <2>4, AdoptFacts
    <3> QED
      BY <2>1, <2>2, <3>1, AnewKeeps
  <2> QED
    BY <1>12, <2>3, <2>4 DEF Open
<1>13. CASE Leave \/ Crash
  BY <1>13, CloseKeeps DEF Leave, Crash
\* The server.
<1>14. CASE AnswerSearch
  <2>1. PICK page \in IF own THEN {Answer(stored, href)} ELSE Others(stored) :
           fetcher' = [fetcher EXCEPT !.at = "answered", !.reply = page]
    BY <1>14 DEF AnswerSearch
  <2>2. page \in Page /\ page.msgs \subseteq stored /\ (own => page.of = href)
    BY <2>1, TypeParts, AnswerFacts, OthersFacts
  <2>3. UNCHANGED <<stored, written, search, href, own, route, list, selected, deletion, away, acked>>
    BY <1>14 DEF AnswerSearch, deleteVars
  <2>4. fetcher' \in Load /\ fetcher'.at = "answered" /\ fetcher'.reply = page
    BY <2>1, <2>2, TypeParts DEF Load, LoadAt
  <2>5. TypeOK'
    BY <2>3, <2>4 DEF TypeOK
  <2>6. PageInv'
    BY <2>2, <2>3, <2>4, TypeParts
  <2> QED
    BY <2>5, <2>6
<1>15. CASE AnswerRoute
  <2> DEFINE page == IF list.searched THEN NoPage ELSE FirstPage(stored)
  <2>1. ~list.searched => page \in Page /\ page.msgs \subseteq stored
    BY TypeParts, AnswerFacts, NewSearchFacts DEF FirstPage
  <2>2. page \in Page \cup {NoPage}
    BY <2>1
  <2> HIDE DEF page
  <2>3. /\ route' = [route EXCEPT !.at = "answered", !.reply = page] /\ route.at = "asked"
        /\ UNCHANGED <<stored, written, search, href, own, fetcher, list, selected, deletion, away, acked>>
    BY <1>15 DEF AnswerRoute, deleteVars, page
  <2>4. route' \in Load /\ route'.at = "answered" /\ route'.reply = page
    BY <2>2, <2>3, TypeParts DEF Load, LoadAt
  <2>5. TypeOK'
    BY <2>3, <2>4 DEF TypeOK
  <2>6. PageInv'
    BY <2>1, <2>3, <2>4, TypeParts
  <2> QED
    BY <2>5, <2>6
<1>16. CASE RemoveMessages
  <2>1. PICK at \in {"ok", "refused"} : /\ deletion' = [deletion EXCEPT !.at = at]
                                        /\ at = "ok" => stored' = stored \ deletion.ids
    BY <1>16 DEF RemoveMessages
  <2>2. UNCHANGED <<written, search, href, own, fetcher, route, list, selected, away, acked>>
    BY <1>16 DEF RemoveMessages, loadVars
  <2>3. /\ deletion' \in [at : {"idle", "sent", "ok", "refused"}, ids : SUBSET (1..written), again : BOOLEAN]
        /\ deletion'.at = at /\ deletion'.ids = deletion.ids
    BY <2>1 DEF TypeOK
  <2>4. stored' \subseteq stored /\ (at = "ok" => stored' \cap deletion.ids = {})
    BY <1>16, <2>1 DEF RemoveMessages
  <2>5. TypeOK'
    BY <2>2, <2>3, <2>4 DEF TypeOK
  <2>6. PageInv'
    BY <2>2, <2>3, <2>4
  <2> QED
    BY <2>5, <2>6
<1>17. CASE Flush
  <2>1. /\ written' = written + 1 /\ stored' = stored \cup {written + 1} /\ written + 1 <= MessageMax
        /\ UNCHANGED <<search, href, own, fetcher, route, list, selected, deletion, away, acked>>
    BY <1>17, TypeParts, SearchConstants DEF Flush, pageVars, loadVars, deleteVars
  <2>2. written' \in 0..MessageMax /\ 1..written \subseteq 1..written'
        /\ written + 1 \in 1..written' /\ written + 1 \notin 1..written
    BY <2>1, TypeParts, SearchConstants
  <2>3. stored' \subseteq 1..written' /\ stored' \cap acked = {} /\ written + 1 \notin deletion.ids
    BY <2>1, <2>2, TypeParts
  <2>4. deletion \in [at : {"idle", "sent", "ok", "refused"}, ids : SUBSET (1..written'), again : BOOLEAN]
    BY <2>2 DEF TypeOK
  <2>5. TypeOK'
    BY <2>1, <2>2, <2>3, <2>4 DEF TypeOK
  <2>6. PageInv'
    BY <2>1, <2>2, <2>3
  <2> QED
    BY <2>5, <2>6
<1>18. CASE OthersDelete
  <2>1. stored' \subseteq stored
        /\ UNCHANGED <<written, search, href, own, fetcher, route, list, selected, deletion, away, acked>>
    BY <1>18 DEF OthersDelete, pageVars, loadVars, deleteVars
  <2>2. TypeOK'
    BY <2>1 DEF TypeOK
  <2>3. PageInv'
    BY <2>1
  <2> QED
    BY <2>2, <2>3
\* Answers land.
<1>19. CASE LandSearch
  <2>1. /\ fetcher.at = "answered" /\ SearchLands
        /\ UNCHANGED <<stored, written, route, selected, deletion, away, acked>>
    BY <1>19 DEF LandSearch, deleteVars
  <2>2. TypeOK'
    BY <2>1, LandingKeeps DEF TypeOK, Lists
  <2>3. PageInv'
    BY <2>1, LandingKeeps
  <2> QED
    BY <2>2, <2>3
<1>20. CASE LandReloads
  <2>1. /\ route' \in Load /\ route'.at # "answered"
        /\ UNCHANGED <<stored, written, selected, deletion, away, acked>>
    BY <1>20, TypeParts, LoadFacts DEF LandReloads, deleteVars
  <2>2. CASE fetcher.held
    <3>1. fetcher.at = "answered" /\ SearchLands
      BY <1>20, <2>2 DEF LandReloads
    <3>2. TypeOK'
      BY <2>1, <3>1, LandingKeeps DEF TypeOK, Lists
    <3>3. PageInv'
      BY <2>1, <3>1, LandingKeeps
    <3> QED
      BY <3>2, <3>3
  <2>3. CASE ~fetcher.held
    <3>1. /\ route.at = "answered" /\ UNCHANGED <<search, href, own, fetcher>>
          /\ list' = IF list.searched THEN list ELSE Loaded(route.reply)
      BY <1>20, <2>3 DEF LandReloads
    <3>2. CASE list.searched
      <4>1. TypeOK'
        BY <2>1, <3>1, <3>2 DEF TypeOK
      <4>2. PageInv'
        BY <2>1, <3>1, <3>2
      <4> QED
        BY <4>1, <4>2
    <3>3. CASE ~list.searched
      <4>1. list' = [searched |-> FALSE, page |-> route.reply] /\ route.reply \in Page
        BY <3>1, <3>3 DEF Loaded
      <4>2. list' \in Lists /\ ~list'.searched /\ list'.page = route.reply
        BY <4>1 DEF Lists
      <4>3. TypeOK'
        BY <2>1, <3>1, <4>2 DEF TypeOK, Lists
      <4>4. PageInv'
        BY <2>1, <3>1, <3>3, <4>1, <4>2
      <4> QED
        BY <4>3, <4>4
    <3> QED
      BY <3>2, <3>3
  <2> QED
    BY <2>2, <2>3
<1>21. CASE DeletionLands
  <2>1. /\ deletion' = NoDeletion /\ deletion.at \in {"ok", "refused"}
        /\ acked' = IF deletion.at = "ok" THEN acked \cup deletion.ids ELSE acked
        /\ route' = IF Reloads THEN Held ELSE route
        /\ \/ fetcher' = IF LoadsAgain THEN Held ELSE fetcher
           \/ ~own /\ fetcher' = fetcher
        /\ UNCHANGED <<stored, written, search, href, own, list, selected, away>>
    BY <1>21 DEF DeletionLands
  <2>2. deletion'.at = "idle"
        /\ deletion' \in [at : {"idle", "sent", "ok", "refused"}, ids : SUBSET (1..written'), again : BOOLEAN]
    BY <2>1 DEF NoDeletion
  <2>3. TypeOK'
    BY <2>1, <2>2, TypeParts, LoadFacts DEF TypeOK
  <2>4. CASE deletion.at = "ok"
    <3>1. /\ route' = Held /\ fetcher' \in {fetcher, Held}
          /\ own /\ (list.searched \/ fetcher.at # "idle") => fetcher' = Held
      BY <2>1, <2>4 DEF Reloads, LoadsAgain
    <3>2. /\ route'.at = "asked"
          /\ fetcher'.at = "answered" => fetcher' = fetcher /\ ~own
          /\ own /\ list.searched => fetcher'.at = "asked"
      BY <2>1, <3>1, LoadFacts
    <3>3. stored' \cap acked' = {}
      BY <2>1, <2>4
    <3> QED
      BY <2>1, <2>2, <2>3, <3>2, <3>3
  <2>5. CASE deletion.at = "refused"
    <3>1. acked' = acked /\ route' = route /\ (fetcher' = fetcher \/ fetcher'.at = "asked")
      BY <2>1, <2>5, LoadFacts DEF Reloads
    <3> QED
      BY <2>1, <2>2, <2>3, <3>1
  <2> QED
    BY <2>1, <2>4, <2>5
<1>22. CASE UNCHANGED vars
  BY <1>22 DEF TypeOK, vars, pageVars, loadVars, deleteVars
<1> QED
  BY <1>2, <1>3, <1>5, <1>6, <1>7, <1>9, <1>10, <1>11, <1>12, <1>13, <1>14, <1>15, <1>16, <1>17,
     <1>18, <1>19, <1>20, <1>21, <1>22 DEF Next, User, Server, Landing

\* The page is in step with its latest search, and what was deleted is gone.
THEOREM PageKept == Spec => [](TypeOK /\ PageInv)
BY InvInit, InvStep, PTL DEF Spec

\* Every variable keeps to its type, and what is stored was written.
THEOREM TypeCorrect == Spec => []TypeOK
BY PageKept, PTL

\* Once the search rests, the list, the page number and the buttons belong to one
\* answer, that to the latest search, and it is not empty if there is a page before.
THEOREM LatestShown == Spec => []Consistent
<1>1. PageInv => Consistent
  BY DEF PageInv
<1> QED
  BY <1>1, PageKept, PTL

\* Once all requests have landed, no message whose deletion was acknowledged is on
\* the page.
THEOREM DeletedLeave == Spec => []DeletedGone
<1>1. PageInv => DeletedGone
  BY DEF PageInv, Deleted, DeletedGone, Quiet, Clean, Shown
<1> QED
  BY <1>1, PageKept, PTL
=============================================================================

--------------------------- MODULE UserPagesProofs ---------------------------
(***************************************************************************)
(* The pages for users and bans: the dialogs that ban are open only for    *)
(* who is shown as free, and when all has landed nobody who is banned is   *)
(* shown as free, for any number of users, bans and requests.              *)
(***************************************************************************)
EXTENDS UserPagesProperties, BansProofs

-----------------------------------------------------------------------------
\* Pages, records and what the server sends of them.

LEMMA PageFacts ==
  ASSUME NEW p \in AnyPage
  PROVE  p.users \subseteq User
<1>1. CASE p = UsersPage \/ p = BansPage \/ p = ErrorPage
  BY <1>1 DEF UsersPage, BansPage, ErrorPage
<1>2. CASE \E u \in User : p = Profile(u)
  BY <1>2 DEF Profile
<1> QED
  BY <1>1, <1>2 DEF AnyPage, Pages

LEMMA BanFacts ==
  ASSUME Inv
  PROVE  /\ \A i \in DOMAIN bans : bans[i] \in Ban
         /\ DOMAIN bans = 1..Len(bans) /\ Len(bans) \in Nat
         /\ now * NsPerHour \in Int /\ Hours \cup {0} \subseteq Int
BY BanConstants DEF Inv, TypeOK

LEMMA LoadedType ==
  ASSUME Inv, NEW p \in AnyPage
  PROVE  Loaded(p) \in Data
<1>1. \A i \in DOMAIN bans : Record(i) \in BanRecord
  BY BanFacts DEF Record, BanRecord, Ban
<1>2. Ids(p) \subseteq DOMAIN bans
  BY DEF Ids
<1> QED
  BY <1>1, <1>2, PageFacts DEF Loaded, Data

LEMMA LoadedFresh ==
  ASSUME Inv, NEW p \in AnyPage
  PROVE  Fresh(p, Loaded(p).banned, Loaded(p).records)
<1>1. \A u \in p.users : IsUserBanned(u) => u \in Loaded(p).banned
  BY DEF Loaded
<1>2. ASSUME NEW i \in Ids(p), InForce(bans[i])
      PROVE  \E r \in Loaded(p).records : r.id = i /\ r.end = bans[i].end /\ ~r.pardoned
  <2>1. Record(i) \in Loaded(p).records
    BY DEF Loaded
  <2>2. Record(i).id = i /\ Record(i).end = bans[i].end /\ ~Record(i).pardoned
    BY <1>2 DEF Record, InForce
  <2> QED
    BY <2>1, <2>2
<1> QED
  BY <1>1, <1>2 DEF Fresh

-----------------------------------------------------------------------------
\* No ban is made and none comes back: what was fresh is still.

NoNewBan ==
    /\ DOMAIN bans' = DOMAIN bans /\ Len(bans') = Len(bans)
    /\ \A i \in DOMAIN bans : /\ bans'[i].user = bans[i].user /\ bans'[i].end = bans[i].end
                              /\ InForce(bans[i])' => InForce(bans[i])

LEMMA HourKeeps == Inv /\ Hour => NoNewBan
<1> SUFFICES ASSUME Inv, Hour PROVE NoNewBan
  OBVIOUS
<1>1. bans' = bans /\ now' = now + 1 /\ now \in Nat /\ NsPerHour \in Nat
  BY BanConstants DEF Hour, Inv, TypeOK
<1>2. now' * NsPerHour >= now * NsPerHour /\ now * NsPerHour \in Int /\ now' * NsPerHour \in Int
  BY <1>1
<1>3. \A i \in DOMAIN bans : bans[i].end.at \in Int
  BY BanFacts DEF Ban
<1> QED
  BY <1>1, <1>2, <1>3 DEF NoNewBan, InForce

LEMMA PardonKeeps ==
  ASSUME Inv, NEW i \in DOMAIN bans, PardonUser(i)
  PROVE  NoNewBan
<1>1. /\ now' = now
      /\ Len(bans') = Len(bans) /\ DOMAIN bans' = DOMAIN bans
      /\ bans'[i] = [bans[i] EXCEPT !.pardoned = TRUE]
      /\ \A j \in DOMAIN bans : j # i => bans'[j] = bans[j]
  BY DEF PardonUser, Inv, TypeOK
<1>2. bans'[i].user = bans[i].user /\ bans'[i].end = bans[i].end /\ bans'[i].pardoned
  BY <1>1, BanFacts DEF Ban
<1> QED
  BY <1>1, <1>2 DEF NoNewBan, InForce

LEMMA SameServer == UNCHANGED serverVars => NoNewBan
BY DEF serverVars, NoNewBan, InForce

\* The data that is shown last: what is shown now, or what the last reload has.
LEMMA BannedKept ==
  ASSUME NoNewBan, NEW u
  PROVE  IsUserBanned(u)' => IsUserBanned(u)
BY DEF NoNewBan, IsUserBanned, InForce

LEMMA FreshKept ==
  ASSUME NoNewBan, NEW p, NEW b, NEW rs, Fresh(p, b, rs)
  PROVE  Fresh(p, b, rs)'
<1>1. \A u \in p.users : IsUserBanned(u)' => u \in b
  BY BannedKept DEF Fresh
<1>2. Ids(p)' = Ids(p)
  BY DEF Ids, NoNewBan
<1>3. \A i \in Ids(p) : i \in DOMAIN bans
  BY DEF Ids
<1>4. \A i \in Ids(p) : InForce(bans[i])' =>
        \E r \in rs : r.id = i /\ r.end = bans'[i].end /\ ~r.pardoned
  BY <1>3 DEF NoNewBan, Fresh, InForce
<1> QED
  BY <1>1, <1>2, <1>4 DEF Fresh

\* What the page has not been told of is to come with an answer, or is missed.
Heard == missed \/ \E r \in requests : r.live /\ r.at = "ok"

\* What is to land last is still to come.
SameLast ==
    /\ reloads = <<>> <=> reloads' = <<>>
    /\ reloads # <<>> => Last(reloads') = Last(reloads)

\* A step after which the page has the same to come, or less of it.
LEMMA ToldKept ==
  ASSUME Told, NoNewBan, UNCHANGED shownVars, SameLast, Heard => Heard'
  PROVE  Told'
<1>1. CASE Heard
  BY <1>1 DEF Told, Heard
<1>2. CASE reloads = <<>> /\ Fresh(page, banned, records)
  <2>1. PICK p, b, rs : p = page /\ b = banned /\ rs = records
    OBVIOUS
  <2>2. Fresh(p, b, rs)'
    BY <1>2, <2>1, FreshKept
  <2> QED
    BY <1>2, <2>1, <2>2 DEF Told, shownVars, SameLast
<1>3. CASE reloads # <<>> /\ Last(reloads).at = "asked"
  BY <1>3 DEF Told, SameLast
<1>4. CASE /\ reloads # <<>>
           /\ Fresh(Last(reloads).of, Last(reloads).reply.banned, Last(reloads).reply.records)
  <2>1. PICK l : l = Last(reloads)
    OBVIOUS
  <2>2. PICK p, b, rs : p = l.of /\ b = l.reply.banned /\ rs = l.reply.records
    OBVIOUS
  <2>3. Fresh(p, b, rs)'
    BY <1>4, <2>1, <2>2, FreshKept
  <2> QED
    BY <1>4, <2>1, <2>2, <2>3 DEF Told, SameLast
<1> QED
  BY <1>1, <1>2, <1>3, <1>4 DEF Told, Heard

-----------------------------------------------------------------------------
\* Requests and reloads.

LEMMA RemoveType ==
  ASSUME NEW S, NEW l \in Seq(S), NEW k \in DOMAIN l
  PROVE  RemoveAt(l, k) \in Seq(S)
<1>1. k \in 1..Len(l) /\ Len(l) \in Nat
  OBVIOUS
<1>2. SubSeq(l, 1, k - 1) \in Seq(S) /\ SubSeq(l, k + 1, Len(l)) \in Seq(S)
  BY <1>1
<1> QED
  BY <1>2 DEF RemoveAt

LEMMA RemoveLast ==
  ASSUME NEW S, NEW l \in Seq(S), NEW p \in DOMAIN l, p # Len(l)
  PROVE  RemoveAt(l, p) # <<>> /\ Last(RemoveAt(l, p)) = Last(l) /\ l # <<>>
<1>1. p \in 1..Len(l) /\ Len(l) \in Nat /\ p < Len(l) /\ Len(<<>>) = 0
  OBVIOUS
<1>2. /\ SubSeq(l, 1, p - 1) \in Seq(S) /\ Len(SubSeq(l, 1, p - 1)) = p - 1
      /\ SubSeq(l, p + 1, Len(l)) \in Seq(S) /\ Len(SubSeq(l, p + 1, Len(l))) = Len(l) - p
      /\ SubSeq(l, p + 1, Len(l))[Len(l) - p] = l[Len(l)]
  <2>1. SubSeq(l, 1, p - 1) \in Seq(S) /\ Len(SubSeq(l, 1, p - 1)) = p - 1
    BY <1>1
  <2>2. SubSeq(l, p + 1, Len(l)) \in Seq(S) /\ Len(SubSeq(l, p + 1, Len(l))) = Len(l) - p
    BY <1>1
  <2>3. \A j \in 1..(Len(l) - p) : SubSeq(l, p + 1, Len(l))[j] = l[j + p]
    BY <1>1
  <2>4. Len(l) - p \in 1..(Len(l) - p) /\ (Len(l) - p) + p = Len(l)
    <3>1. PICK n \in Nat : n = Len(l)
      BY <1>1
    <3>2. p \in Nat /\ p < n
      BY <1>1, <3>1
    <3>3. n - p \in 1..(n - p) /\ (n - p) + p = n
      BY <3>2
    <3> QED
      BY <3>1, <3>3
  <2>5. SubSeq(l, p + 1, Len(l))[Len(l) - p] = l[(Len(l) - p) + p]
    BY <2>3, <2>4
  <2> QED
    BY <2>1, <2>2, <2>4, <2>5
<1> DEFINE a == SubSeq(l, 1, p - 1)
           b == SubSeq(l, p + 1, Len(l))
<1> HIDE DEF a, b
<1>3. a \in Seq(S) /\ b \in Seq(S) /\ Len(a) = p - 1 /\ Len(b) = Len(l) - p /\ b[Len(l) - p] = l[Len(l)]
  BY <1>2 DEF a, b
<1>4. Len(a \o b) = Len(l) - 1 /\ (a \o b)[Len(l) - 1] = l[Len(l)]
  BY <1>1, <1>3
<1>5. RemoveAt(l, p) = a \o b
  BY DEF RemoveAt, a, b
<1> QED
  <2>1. Len(a \o b) # 0 /\ Len(l) # 0
    BY <1>1, <1>4
  <2> QED
    BY <1>1, <1>4, <1>5, <2>1 DEF Last

LEMMA AbortedType ==
  ASSUME PageType, NEW op
  PROVE  Aborted(op) \in Seq(Reload)
BY RemoveType DEF PageType, Aborted

LEMMA OrphanFacts ==
  ASSUME NEW p
  PROVE  /\ \A r \in Request : LET o == Orphan(p, r)
                               IN o \in Request /\ o.live = r.live /\ o.at = r.at
         /\ \A l \in Reload : LET o == Orphan(p, l)
                              IN o \in Reload /\ o.of = l.of /\ o.at = l.at /\ o.reply = l.reply
<1>1. ASSUME NEW r \in Request
      PROVE  Orphan(p, r) \in Request /\ Orphan(p, r).live = r.live /\ Orphan(p, r).at = r.at
  <2> DEFINE o == [r EXCEPT !.op = "gone"]
  <2>1. o \in Request /\ o.live = r.live /\ o.at = r.at
    BY DEF Request, Fetcher
  <2>2. Orphan(p, r) = r \/ Orphan(p, r) = o
    BY DEF Orphan
  <2> HIDE DEF o
  <2> QED
    BY <2>1, <2>2
<1>2. ASSUME NEW l \in Reload
      PROVE  /\ Orphan(p, l) \in Reload /\ Orphan(p, l).of = l.of
             /\ Orphan(p, l).at = l.at /\ Orphan(p, l).reply = l.reply
  <2> DEFINE o == [l EXCEPT !.op = "gone"]
  <2>1. o \in Reload /\ o.of = l.of /\ o.at = l.at /\ o.reply = l.reply
    BY DEF Reload, Fetcher
  <2>2. Orphan(p, l) = l \/ Orphan(p, l) = o
    BY DEF Orphan
  <2> HIDE DEF o
  <2> QED
    BY <2>1, <2>2
<1> QED
  BY <1>1, <1>2

\* A request is sent: what was to come is still to come, or counts as missed.
LEMMA SendKeeps ==
  ASSUME PageType, NEW q \in Request, Send(q)
  PROVE  /\ requests' \subseteq Request /\ reloads' \in Seq(Reload) /\ missed' \in BOOLEAN
         /\ Heard => Heard'
         /\ missed' \/ SameLast
<1> DEFINE again(r) == [r EXCEPT !.live = r.live /\ r.op # q.op]
           stay == {p \in requests : p.op # q.op \/ p.at = "sent"}
<1>1. requests' = {again(r) : r \in stay} \cup {q}
  BY DEF Send
<1>2. ASSUME NEW r \in requests
      PROVE  /\ again(r) \in Request /\ again(r).at = r.at
             /\ again(r).live = (r.live /\ r.op # q.op)
  <2>1. r \in Request
    BY DEF PageType
  <2>2. PICK b \in BOOLEAN : b = (r.live /\ r.op # q.op)
    OBVIOUS
  <2> DEFINE t == [r EXCEPT !.live = b]
  <2>3. t \in Request /\ t.at = r.at /\ t.live = b
    BY <2>1 DEF Request
  <2>4. again(r) = t
    BY <2>2
  <2> HIDE DEF t, again
  <2> QED
    BY <2>2, <2>3, <2>4
<1>3. \A r \in stay : r \in requests /\ again(r) \in requests'
  BY <1>1
<1> HIDE DEF again
<1>4. requests' \subseteq Request
  BY <1>1, <1>2
<1>5. reloads' \in Seq(Reload) /\ missed' \in BOOLEAN
  BY AbortedType DEF Send
<1>6. ASSUME ~missed', Heard
      PROVE  Heard'
  <2>1. ~missed /\ ~(\E r \in requests : r.op = q.op /\ r.live /\ r.at = "ok")
    BY <1>6 DEF Send
  <2>2. PICK r \in requests : r.live /\ r.at = "ok" /\ r.op # q.op
    BY <1>6, <2>1 DEF Heard
  <2>3. again(r) \in requests' /\ again(r).live /\ again(r).at = "ok"
    BY <1>2, <1>3, <2>2
  <2> QED
    BY <2>3 DEF Heard
<1>7. ASSUME ~missed'
      PROVE  SameLast
  <2>1. reloads # <<>> => Last(reloads).op # q.op
    BY <1>7 DEF Send
  <2>2. CASE ~\E k \in DOMAIN reloads : reloads[k].op = q.op
    BY <2>2 DEF Send, Aborted, SameLast
  <2>3. CASE \E k \in DOMAIN reloads : reloads[k].op = q.op
    <3>1. PICK k \in DOMAIN reloads : reloads[k].op = q.op /\ reloads' = RemoveAt(reloads, k)
      BY <2>3 DEF Send, Aborted
    <3>2. k # Len(reloads)
      <4>1. reloads # <<>>
        BY <3>1
      <4> QED
        BY <2>1, <3>1, <4>1 DEF Last
    <3> QED
      BY <3>1, <3>2, RemoveLast DEF PageType, SameLast
  <2> QED
    BY <2>2, <2>3
<1> QED
  BY <1>4, <1>5, <1>6, <1>7 DEF Heard

LEMMA AnsweredKeeps ==
  ASSUME PageType, NEW r \in requests, r.at = "sent",
         NEW at \in {"ok", "thrown"}, NEW done \in BOOLEAN, Answered(r, at, done)
  PROVE  /\ requests' \subseteq Request /\ reloads' = reloads /\ missed' \in BOOLEAN
         /\ Heard => Heard'
         /\ done => Heard'
<1>1. r \in Request /\ r.live \in BOOLEAN
  BY DEF PageType, Request
<1> DEFINE q == [r EXCEPT !.at = at]
<1>2. q \in Request /\ q.at = at /\ q.live = r.live
  BY <1>1 DEF Request
<1>3. requests' = (requests \ {r}) \cup (IF r.live THEN {q} ELSE {})
      /\ missed' = (missed \/ (done /\ ~(r.live /\ at = "ok"))) /\ reloads' = reloads
  BY DEF Answered
<1> HIDE DEF q
<1>4. done => Heard'
  BY <1>1, <1>2, <1>3 DEF Heard
<1>5. \A p \in requests : p.at = "ok" => p \in requests'
  BY <1>3
<1>6. Heard => Heard'
  BY <1>3, <1>5 DEF Heard
<1> QED
  BY <1>2, <1>3, <1>4, <1>6 DEF PageType

\* The reloads that were asked after the k-th: the last of them is the last of all.
LEMMA LaterFacts ==
  ASSUME PageType, NEW p, NEW k \in 0..Len(reloads)
  PROVE  /\ Later(p, k) \in Seq(Reload)
         /\ k = Len(reloads) => Later(p, k) = <<>>
         /\ k # Len(reloads) => /\ Later(p, k) # <<>> /\ reloads # <<>>
                                /\ Last(reloads) \in Reload
                                /\ Last(Later(p, k)) = Orphan(p, Last(reloads))
<1>1. reloads \in Seq(Reload) /\ Len(reloads) \in Nat /\ k \in Nat /\ k <= Len(reloads)
  BY DEF PageType
<1>2. PICK n \in Nat : n = Len(reloads) - k
  BY <1>1
<1> DEFINE new(j) == Orphan(p, reloads[j + k])
<1>3. \A j \in 1..n : new(j) \in Reload
  <2>1. \A j \in 1..n : reloads[j + k] \in Reload
    BY <1>1, <1>2
  <2> QED
    BY <2>1, OrphanFacts
<1>4. Later(p, k) = [j \in 1..n |-> new(j)]
  BY <1>2 DEF Later
<1>5. n # 0 => new(n) = Orphan(p, Last(reloads)) /\ Last(reloads) \in Reload
  BY <1>1, <1>2 DEF Last
<1> HIDE DEF new
<1>6. PICK t : t = [j \in 1..n |-> new(j)]
  OBVIOUS
<1>7. t \in Seq(Reload) /\ Len(t) = n /\ (n # 0 => t[n] = new(n))
  BY <1>3, <1>6
<1>8. n = 0 => t = <<>>
  BY <1>7
<1>9. n # 0 => t # <<>> /\ reloads # <<>>
  <2>1. Len(<<>>) = 0
    OBVIOUS
  <2> QED
    BY <1>1, <1>2, <1>7, <2>1
<1>10. n # 0 => Last(t) = Orphan(p, Last(reloads))
  BY <1>5, <1>7 DEF Last
<1>11. k = Len(reloads) <=> n = 0
  BY <1>1, <1>2
<1> QED
  BY <1>4, <1>5, <1>6, <1>7, <1>8, <1>9, <1>10, <1>11

\* After the k-th reload has landed or failed there is as much to come as before,
\* or it was the last.
LEMMA LaterTold ==
  ASSUME PageType, Told, NoNewBan, NEW p, NEW k \in 0..Len(reloads), reloads' = Later(p, k),
         Heard => Heard',
         k = Len(reloads) => Heard \/ Fresh(page, banned, records)'
  PROVE  Told'
<1>1. CASE Heard
  BY <1>1 DEF Told, Heard
<1>2. CASE ~Heard /\ k = Len(reloads)
  BY <1>2, LaterFacts DEF Told
<1>3. CASE ~Heard /\ k # Len(reloads)
  <2>1. PICK m \in Reload : m = Last(reloads) /\ reloads # <<>>
    BY <1>3, LaterFacts
  <2>2. PICK o : o = Orphan(p, m) /\ o.at = m.at /\ o.of = m.of /\ o.reply = m.reply
    BY OrphanFacts
  <2>3. reloads' # <<>> /\ Last(reloads') = o
    BY <1>3, <2>1, <2>2, LaterFacts
  <2>4. CASE m.at = "asked"
    BY <2>2, <2>3, <2>4 DEF Told
  <2>5. CASE Fresh(m.of, m.reply.banned, m.reply.records)
    <3>1. Fresh(m.of, m.reply.banned, m.reply.records)'
      BY <2>5, FreshKept
    <3> QED
      BY <2>2, <2>3, <3>1 DEF Told
  <2> QED
    BY <1>3, <2>1, <2>4, <2>5 DEF Told, Heard
<1> QED
  BY <1>1, <1>2, <1>3

\* A reload is asked for behind the others.
LEMMA AskedLast ==
  ASSUME NEW s \in Seq(Reload), NEW op \in Fetcher, NEW p \in AnyPage
  PROVE  LET t == Append(s, [op |-> op, of |-> p, at |-> "asked", reply |-> <<>>])
         IN t \in Seq(Reload) /\ t # <<>> /\ Last(t).at = "asked"
<1> DEFINE l == [op |-> op, of |-> p, at |-> "asked", reply |-> <<>>]
<1>1. l \in Reload /\ l.at = "asked"
  BY DEF Reload
<1> HIDE DEF l
<1>2. /\ Append(s, l) \in Seq(Reload) /\ Len(Append(s, l)) = Len(s) + 1
      /\ Append(s, l)[Len(s) + 1] = l /\ Len(s) \in Nat
  BY <1>1
<1>3. Append(s, l) # <<>>
  <2>1. Len(<<>>) = 0
    OBVIOUS
  <2> QED
    BY <1>2, <2>1
<1>4. Last(Append(s, l)).at = "asked"
  BY <1>1, <1>2 DEF Last
<1> QED
  BY <1>2, <1>3, <1>4 DEF l

LEMMA AbandonKeeps ==
  ASSUME PageType, Abandon
  PROVE  requests' \subseteq Request /\ reloads' = <<>> /\ missed' = FALSE
<1>1. ASSUME NEW r \in requests
      PROVE  [r EXCEPT !.live = FALSE] \in Request
  BY DEF PageType, Request
<1> QED
  BY <1>1 DEF Abandon

-----------------------------------------------------------------------------
\* The invariant, one operation at a time.

LEMMA SameInv == Inv /\ UNCHANGED serverVars => Inv'
BY NextInv DEF serverVars, vars

LEMMA PagesInit == InitPages => PagesInv
<1> SUFFICES ASSUME InitPages PROVE PagesInv
  OBVIOUS
<1>1. Inv
  BY InitInv DEF InitPages
<1>2. UsersPage \in AnyPage /\ <<>> \in Seq(Reload)
  BY DEF AnyPage, Pages
<1>3. PageType /\ DialogOfFree
  BY <1>2 DEF InitPages, NoFetchers, PageType, DialogOfFree, Dialog
<1>4. Told
  BY DEF InitPages, NoFetchers, Init, Told, Fresh, IsUserBanned, Ids, UsersPage
<1> QED
  BY <1>1, <1>3, <1>4 DEF PagesInv

\* The dialogs of a profile.
LEMMA DialogStep ==
  ASSUME PagesInv, (\E d \in Dialog : SetDialog(d)) \/ (\E h \in Hours : SetDuration(h))
  PROVE  PagesInv'
<1>1. UNCHANGED <<serverVars, fetcherVars, shownVars, submits>>
  BY DEF SetDialog, SetDuration
<1>2. Inv' /\ Told'
  BY <1>1, SameInv, SameServer, ToldKept DEF PagesInv, fetcherVars, Heard, SameLast
<1>3. PageType' /\ DialogOfFree'
  BY <1>1 DEF PagesInv, PageType, DialogOfFree, SetDialog, SetDuration, fetcherVars, shownVars
<1> QED
  BY <1>2, <1>3 DEF PagesInv

LEMMA SubmitKeeps ==
  ASSUME PagesInv, NEW op \in Fetcher, NEW u \in User, NEW h \in Int, NEW i \in Nat, Submit(op, u, h, i)
  PROVE  PagesInv'
<1> DEFINE q == [no |-> submits', op |-> op, user |-> u, hours |-> h, id |-> i, live |-> TRUE, at |-> "sent"]
<1>1. submits' \in Nat
  BY DEF Submit, PagesInv, PageType
<1>2. q \in Request
  BY <1>1 DEF Request
<1>3. Send(q) /\ UNCHANGED <<serverVars, shownVars, dialogVars>>
  BY DEF Submit
<1> HIDE DEF q
<1>4. /\ requests' \subseteq Request /\ reloads' \in Seq(Reload) /\ missed' \in BOOLEAN
      /\ Heard => Heard'
      /\ missed' \/ SameLast
  BY <1>2, <1>3, SendKeeps DEF PagesInv
<1>5. Inv' /\ NoNewBan
  BY <1>3, SameInv, SameServer DEF PagesInv
<1>6. Told'
  <2>1. CASE missed'
    BY <2>1 DEF Told
  <2>2. CASE ~missed'
    BY <1>3, <1>4, <1>5, <2>2, ToldKept DEF PagesInv
  <2> QED
    BY <2>1, <2>2
<1>7. PageType' /\ DialogOfFree'
  BY <1>1, <1>3, <1>4 DEF PagesInv, PageType, DialogOfFree, shownVars, dialogVars
<1> QED
  BY <1>5, <1>6, <1>7 DEF PagesInv

\* A ban from a dialog, or a pardon from the records.
LEMMA SubmitStep ==
  ASSUME PagesInv, handleBanUser \/ pardon
  PROVE  PagesInv'
<1>1. CASE handleBanUser
  <2>1. PICK u \in page.users : Submit(dialog, u, IF dialog = "temp" THEN duration ELSE 0, 0)
    BY <1>1 DEF handleBanUser
  <2>2. u \in User /\ dialog \in Fetcher
    BY <1>1, PageFacts DEF PagesInv, PageType, handleBanUser, Dialog, Fetcher
  <2>3. PICK h \in Int : h = IF dialog = "temp" THEN duration ELSE 0
    BY BanConstants DEF PagesInv, PageType
  <2> QED
    BY <2>1, <2>2, <2>3, SubmitKeeps
<1>2. CASE pardon
  <2>1. PICK r \in records : Submit("pardon", r.user, 0, r.id)
    BY <1>2 DEF pardon
  <2>2. r.user \in User /\ r.id \in Nat
    BY DEF PagesInv, PageType, BanRecord
  <2> QED
    BY <2>1, <2>2, SubmitKeeps DEF Fetcher
<1> QED
  BY <1>1, <1>2

\* Another page is asked for.
LEMMA NavigateStep ==
  ASSUME PagesInv, NEW p \in Pages, navigate(p)
  PROVE  PagesInv'
<1>1. /\ reloads' = Append(Aborted("navigate"), [op |-> "navigate", of |-> p, at |-> "asked", reply |-> <<>>])
      /\ UNCHANGED <<serverVars, requests, missed, pageVars>>
  BY DEF navigate
<1>2. Aborted("navigate") \in Seq(Reload)
  BY AbortedType DEF PagesInv
<1>3. reloads' \in Seq(Reload) /\ reloads' # <<>> /\ Last(reloads').at = "asked"
  BY <1>1, <1>2, AskedLast DEF Fetcher, AnyPage
<1>4. Told'
  BY <1>3 DEF Told
<1>5. Inv'
  BY <1>1, SameInv DEF PagesInv
<1>6. PageType' /\ DialogOfFree'
  BY <1>1, <1>3 DEF PagesInv, PageType, DialogOfFree, pageVars, shownVars, dialogVars
<1> QED
  BY <1>4, <1>5, <1>6 DEF PagesInv

\* The server bans, pardons or refuses: a new ban is told in its answer.
LEMMA ServerStep ==
  ASSUME PagesInv, NEW r \in requests, Perform(r) \/ Refuse(r)
  PROVE  PagesInv'
<1>1. UNCHANGED pageVars /\ r.at = "sent" /\ r \in Request
  BY DEF Perform, Refuse, PagesInv, PageType
<1>2. PICK at \in {"ok", "thrown"} :
        Answered(r, at, TRUE) \/ (Answered(r, at, FALSE) /\ Refuse(r))
  BY DEF Perform, Refuse
<1>3. /\ requests' \subseteq Request /\ reloads' = reloads /\ missed' \in BOOLEAN
      /\ Heard' \/ (Refuse(r) /\ (Heard => Heard'))
  <2>1. CASE Answered(r, at, TRUE)
    BY <1>1, <2>1, AnsweredKeeps DEF PagesInv
  <2>2. CASE Answered(r, at, FALSE) /\ Refuse(r)
    BY <1>1, <2>2, AnsweredKeeps DEF PagesInv
  <2> QED
    BY <1>2, <2>1, <2>2
<1>4. PageType' /\ DialogOfFree'
  BY <1>1, <1>3 DEF PagesInv, PageType, DialogOfFree, pageVars, shownVars, dialogVars
<1>5. Inv'
  <2>1. r.user \in User /\ r.hours \in Int
    BY <1>1 DEF Request
  <2>2. CASE Refuse(r)
    BY <2>2, SameInv DEF Refuse, PagesInv
  <2>3. CASE BanUser(r.user, r.hours)
    BY <2>1, <2>3, BanInv DEF PagesInv
  <2>4. CASE PardonUser(r.id)
    BY <2>4, PardonInv DEF PagesInv, PardonUser
  <2> QED
    BY <2>2, <2>3, <2>4 DEF Perform
<1>6. Told'
  <2>1. CASE Heard'
    BY <2>1 DEF Told, Heard
  <2>2. CASE Refuse(r) /\ (Heard => Heard')
    <3>1. UNCHANGED serverVars
      BY <2>2 DEF Refuse
    <3> QED
      BY <1>1, <1>3, <2>2, <3>1, SameServer, ToldKept DEF PagesInv, pageVars, SameLast
  <2> QED
    BY <1>3, <2>1, <2>2
<1> QED
  BY <1>4, <1>5, <1>6 DEF PagesInv

\* The answer to a request asks for the data of the page that will be shown.
LEMMA AnswerStep ==
  ASSUME PagesInv, NEW r \in requests, AnswerLands(r)
  PROVE  PagesInv'
<1>1. /\ requests' = requests \ {r} /\ missed' = missed
      /\ reloads' = Append(reloads, [op |-> r.op, of |-> NextPage, at |-> "asked", reply |-> <<>>])
      /\ UNCHANGED <<serverVars, pageVars>>
  BY DEF AnswerLands, Landed, AskReload, PagesInv, PageType
<1>2. NextPage \in AnyPage
  <2>1. \A k \in DOMAIN reloads : reloads[k].of \in AnyPage
    BY DEF PagesInv, PageType, Reload
  <2> QED
    BY <2>1 DEF NextPage, PagesInv, PageType
<1>3. r.op \in Fetcher /\ reloads \in Seq(Reload)
  BY DEF PagesInv, PageType, Request
<1>4. reloads' \in Seq(Reload) /\ reloads' # <<>> /\ Last(reloads').at = "asked"
  BY <1>1, <1>2, <1>3, AskedLast
<1>5. Told'
  BY <1>4 DEF Told
<1>6. Inv'
  BY <1>1, SameInv DEF PagesInv
<1>7. PageType' /\ DialogOfFree'
  BY <1>1, <1>4 DEF PagesInv, PageType, DialogOfFree, pageVars, shownVars, dialogVars
<1> QED
  BY <1>5, <1>6, <1>7 DEF PagesInv

\* The server's answer to a reload: what it has now.
LEMMA AnswerReloadStep ==
  ASSUME PagesInv, NEW k \in DOMAIN reloads, AnswerReload(k)
  PROVE  PagesInv'
<1>1. reloads \in Seq(Reload) /\ reloads[k] \in Reload /\ k \in 1..Len(reloads) /\ Len(reloads) \in Nat
  BY DEF PagesInv, PageType
<1>2. PICK d : d = Loaded(reloads[k].of)
  OBVIOUS
<1>3. PICK p \in AnyPage : p = reloads[k].of
  BY <1>1 DEF Reload
<1>4. d \in Data /\ Fresh(p, d.banned, d.records)
  BY <1>2, <1>3, LoadedType, LoadedFresh DEF PagesInv
<1> DEFINE l == [reloads[k] EXCEPT !.at = "answered", !.reply = d]
<1>5. l \in Reload /\ l.reply = d /\ l.of = p
  BY <1>1, <1>3, <1>4 DEF Reload
<1>6. /\ reloads' = [reloads EXCEPT ![k] = l] /\ UNCHANGED <<serverVars, requests, pageVars>>
      /\ missed' = (missed /\ k # Len(reloads))
  BY <1>2 DEF AnswerReload, Reloaded
<1> HIDE DEF l
<1>7. reloads' \in Seq(Reload) /\ Len(reloads') = Len(reloads)
  BY <1>1, <1>5, <1>6
<1>8. reloads # <<>> /\ reloads' # <<>>
  <2>1. Len(<<>>) = 0 /\ Len(reloads) # 0
    BY <1>1
  <2> QED
    BY <1>7, <2>1
<1>9. Last(reloads') = IF k = Len(reloads) THEN l ELSE Last(reloads)
  BY <1>1, <1>6, <1>7 DEF Last
<1>10. NoNewBan
  BY <1>6, SameServer
<1>11. Told'
  <2>1. CASE k = Len(reloads)
    <3>1. Fresh(p, d.banned, d.records)'
      BY <1>4, <1>10, FreshKept
    <3> QED
      BY <1>5, <1>8, <1>9, <2>1, <3>1 DEF Told
  <2>2. CASE k # Len(reloads)
    <3>1. PICK m : m = Last(reloads)
      OBVIOUS
    <3>2. Last(reloads') = m
      BY <1>9, <2>2, <3>1
    <3>3. CASE missed \/ (\E r \in requests : r.live /\ r.at = "ok") \/ m.at = "asked"
      BY <1>6, <1>8, <2>2, <3>2, <3>3 DEF Told
    <3>4. CASE Fresh(m.of, m.reply.banned, m.reply.records)
      <4>1. Fresh(m.of, m.reply.banned, m.reply.records)'
        BY <1>10, <3>4, FreshKept
      <4> QED
        BY <1>8, <3>2, <4>1 DEF Told
    <3> QED
      BY <1>8, <3>1, <3>3, <3>4 DEF PagesInv, Told
  <2> QED
    BY <2>1, <2>2
<1>12. Inv'
  BY <1>6, SameInv DEF PagesInv
<1>13. PageType' /\ DialogOfFree'
  BY <1>6, <1>7 DEF PagesInv, PageType, DialogOfFree, pageVars, shownVars, dialogVars
<1> QED
  BY <1>11, <1>12, <1>13 DEF PagesInv

\* A page is shown, and a dialog stays open only where it belongs.
LEMMA ShowKeeps ==
  ASSUME PageType, DialogOfFree, NEW p \in AnyPage, NEW d \in Data, Show(p, d)
  PROVE  /\ page' \in AnyPage /\ banned' \subseteq User /\ records' \subseteq BanRecord
         /\ dialog' \in Dialog /\ duration' \in Hours \cup {0}
         /\ DialogOfFree'
<1>1. d.banned \subseteq User /\ d.records \subseteq BanRecord
  BY DEF Data
<1>2. dialog' \in Dialog /\ DialogOfFree'
  BY DEF Show, DialogAfter, PageType, Dialog, DialogOfFree
<1> QED
  BY <1>1, <1>2 DEF Show, PageType

\* A reload lands: what it brings is shown, and those asked later are still to
\* come, whoever asked for them.
LEMMA LandReloadStep ==
  ASSUME PagesInv, NEW k \in DOMAIN reloads, LandReload(k)
  PROVE  PagesInv'
<1>1. reloads \in Seq(Reload) /\ reloads[k] \in Reload /\ k \in 1..Len(reloads) /\ Len(reloads) \in Nat
  BY DEF PagesInv, PageType
<1>2. PICK l \in Reload : l = reloads[k] /\ l.at = "answered" /\ l.reply \in Data /\ l.of \in AnyPage
  BY <1>1 DEF LandReload, Reload
<1>3. PICK p, d : /\ (p = l.of /\ p # ErrorPage /\ d = l.reply) \/ (p = ErrorPage /\ d = NoData)
                  /\ Show(p, d)
                  /\ requests' = {Orphan(p, r) : r \in requests}
                  /\ reloads' = Later(p, k)
                  /\ UNCHANGED <<serverVars, missed, submits>>
  BY <1>2 DEF LandReload
<1>4. k \in 0..Len(reloads)
  BY <1>1
<1>5. Told'
  <2>1. NoNewBan
    BY <1>3, SameServer
  <2>2. Heard => Heard'
    <3>1. \A r \in requests : LET o == Orphan(p, r) IN o \in requests' /\ o.live = r.live /\ o.at = r.at
      BY <1>3, OrphanFacts DEF PagesInv, PageType
    <3> QED
      BY <1>3, <3>1 DEF Heard
  <2>3. ASSUME k = Len(reloads), ~Heard
        PROVE  Fresh(page, banned, records)'
    <3>1. CASE p = ErrorPage
      BY <1>3, <3>1 DEF Show, Fresh, Ids, ErrorPage
    <3>2. CASE p = l.of /\ d = l.reply
      <4>1. l = Last(reloads) /\ reloads # <<>>
        BY <1>1, <1>2, <2>3 DEF Last
      <4>2. Fresh(l.of, l.reply.banned, l.reply.records)
        BY <1>2, <2>3, <4>1 DEF PagesInv, Told, Heard
      <4>3. Fresh(l.of, l.reply.banned, l.reply.records)'
        BY <2>1, <4>2, FreshKept
      <4> QED
        BY <1>3, <3>2, <4>3 DEF Show
    <3> QED
      BY <1>3, <3>1, <3>2
  <2> QED
    BY <1>3, <1>4, <2>1, <2>2, <2>3, LaterTold DEF PagesInv
<1>6. p \in AnyPage /\ d \in Data
  BY <1>2, <1>3 DEF AnyPage, NoData, Data
<1>7. PageType' /\ DialogOfFree'
  BY <1>3, <1>4, <1>6, ShowKeeps, LaterFacts, OrphanFacts DEF PagesInv, PageType
<1>8. Inv'
  BY <1>3, SameInv DEF PagesInv
<1> QED
  BY <1>5, <1>7, <1>8 DEF PagesInv

\* Errors.  The server goes on with the requests that failed on their way.
LEMMA WithoutFacts ==
  ASSUME PageType, NEW r \in requests, NEW p
  PROVE  /\ Without(r) \subseteq Request
         /\ {Orphan(p, q) : q \in Without(r)} \subseteq Request
         /\ r.at # "ok" => \A q \in requests : q.live /\ q.at = "ok" =>
              q \in Without(r) /\ Orphan(p, q).live /\ Orphan(p, q).at = "ok"
<1> DEFINE t == [r EXCEPT !.live = FALSE]
<1>1. t \in Request
  BY DEF PageType, Request
<1>2. Without(r) = (requests \ {r}) \cup (IF r.at = "sent" THEN {t} ELSE {})
  BY DEF Without
<1> HIDE DEF t
<1>3. Without(r) \subseteq Request
  BY <1>1, <1>2 DEF PageType
<1>4. r.at # "ok" => \A q \in requests : q.live /\ q.at = "ok" =>
        q \in Without(r) /\ Orphan(p, q).live /\ Orphan(p, q).at = "ok"
  <2>1. \A q \in requests : Orphan(p, q).live = q.live /\ Orphan(p, q).at = q.at
    BY OrphanFacts DEF PageType
  <2> QED
    BY <1>2, <2>1
<1> QED
  BY <1>3, <1>4, OrphanFacts

LEMMA SwallowStep ==
  ASSUME PagesInv, NEW r \in requests, Swallow(r)
  PROVE  PagesInv'
<1>1. /\ requests' = Without(r) /\ missed' = (missed \/ r.at = "ok")
      /\ UNCHANGED <<serverVars, reloads, pageVars>>
  BY DEF Swallow
<1>2. Heard => Heard'
  <2>1. CASE r.at = "ok"
    BY <1>1, <2>1 DEF Heard
  <2>2. CASE r.at # "ok"
    BY <1>1, <2>2, WithoutFacts DEF Heard, PagesInv
  <2> QED
    BY <2>1, <2>2
<1>3. Inv' /\ Told'
  BY <1>1, <1>2, SameInv, SameServer, ToldKept DEF PagesInv, pageVars, SameLast
<1>4. PageType' /\ DialogOfFree'
  BY <1>1, WithoutFacts DEF PagesInv, PageType, DialogOfFree, pageVars, shownVars, dialogVars
<1> QED
  BY <1>3, <1>4 DEF PagesInv

\* The error page shows nothing that could be out of date.
LEMMA ErrorStep ==
  ASSUME PagesInv, NEW k \in 0..Len(reloads), Show(ErrorPage, NoData), reloads' = Later(ErrorPage, k),
         requests' \subseteq Request, missed' \in BOOLEAN, Heard => Heard',
         UNCHANGED <<serverVars, submits>>
  PROVE  PagesInv'
<1>1. ErrorPage \in AnyPage /\ NoData \in Data
  BY DEF AnyPage, NoData, Data
<1>2. Fresh(page, banned, records)'
  BY DEF Show, Fresh, Ids, ErrorPage
<1>3. Inv' /\ Told'
  BY <1>2, SameInv, SameServer, LaterTold DEF PagesInv
<1>4. PageType' /\ DialogOfFree'
  BY <1>1, ShowKeeps, LaterFacts DEF PagesInv, PageType
<1> QED
  BY <1>3, <1>4 DEF PagesInv

LEMMA CrashStep ==
  ASSUME PagesInv, Crash
  PROVE  PagesInv'
<1>1. ASSUME NEW r \in requests, Throw(r)
      PROVE  PagesInv'
  <2>1. /\ Show(ErrorPage, NoData) /\ reloads' = Later(ErrorPage, 0)
        /\ requests' = {Orphan(ErrorPage, q) : q \in Without(r)}
        /\ missed' = (missed \/ r.at = "ok") /\ UNCHANGED <<serverVars, submits>>
    BY <1>1 DEF Throw
  <2>2. requests' \subseteq Request /\ missed' \in BOOLEAN /\ 0 \in 0..Len(reloads)
    BY <2>1, WithoutFacts DEF PagesInv, PageType
  <2>3. Heard => Heard'
    <3>1. CASE r.at = "ok"
      BY <2>1, <3>1 DEF Heard
    <3>2. ASSUME r.at # "ok", NEW q \in requests, q.live, q.at = "ok"
          PROVE  Heard'
      <4>1. PICK o : o = Orphan(ErrorPage, q)
        OBVIOUS
      <4>2. q \in Without(r) /\ o.live /\ o.at = "ok"
        BY <3>2, <4>1, WithoutFacts DEF PagesInv
      <4>3. o \in requests'
        BY <2>1, <4>1, <4>2
      <4> QED
        BY <4>2, <4>3 DEF Heard
    <3>3. missed => Heard'
      BY <2>1 DEF Heard
    <3> QED
      BY <3>1, <3>2, <3>3 DEF Heard
  <2> QED
    BY <2>1, <2>2, <2>3, ErrorStep
<1>2. ASSUME NEW k \in DOMAIN reloads, ThrowReload(k)
      PROVE  PagesInv'
  <2>1. /\ Show(ErrorPage, NoData) /\ reloads' = Later(ErrorPage, k)
        /\ requests' = {Orphan(ErrorPage, q) : q \in requests}
        /\ UNCHANGED <<serverVars, missed, submits>>
    BY <1>2 DEF ThrowReload
  <2>2. requests' \subseteq Request /\ missed' \in BOOLEAN /\ k \in 0..Len(reloads)
    BY <2>1, OrphanFacts DEF PagesInv, PageType
  <2>3. Heard => Heard'
    <3>1. \A r \in requests : LET o == Orphan(ErrorPage, r)
                              IN o \in requests' /\ o.live = r.live /\ o.at = r.at
      BY <2>1, OrphanFacts DEF PagesInv, PageType
    <3> QED
      BY <2>1, <3>1 DEF Heard
  <2> QED
    BY <2>1, <2>2, <2>3, ErrorStep
<1> QED
  BY <1>1, <1>2, SwallowStep DEF Crash

\* The dashboard is loaded again.
LEMMA OpenStep ==
  ASSUME PagesInv, NEW p \in Pages, Open(p)
  PROVE  PagesInv'
<1>1. Abandon /\ UNCHANGED <<serverVars, dialogVars, submits>>
  BY DEF Open
<1>2. requests' \subseteq Request /\ reloads' = <<>> /\ missed' = FALSE
  BY <1>1, AbandonKeeps DEF PagesInv
<1>3. Inv' /\ NoNewBan /\ <<>> \in Seq(Reload)
  BY <1>1, SameInv, SameServer DEF PagesInv
<1>4. p \in AnyPage
  BY DEF AnyPage
<1>5. PICK d \in Data : d = Loaded(p)
  BY <1>4, LoadedType DEF PagesInv
<1>6. page = ErrorPage /\ page' = p /\ banned' = d.banned /\ records' = d.records
  BY <1>5 DEF Open
<1>7. dialog = "none"
  BY <1>6 DEF PagesInv, DialogOfFree, ErrorPage
<1>8. PageType' /\ DialogOfFree'
  BY <1>1, <1>2, <1>3, <1>4, <1>6, <1>7 DEF PagesInv, PageType, DialogOfFree, Data, dialogVars
<1>9. Fresh(p, d.banned, d.records)'
  BY <1>3, <1>4, <1>5, LoadedFresh, FreshKept DEF PagesInv
<1>10. Told'
  BY <1>2, <1>6, <1>9 DEF Told
<1> QED
  BY <1>3, <1>8, <1>10 DEF PagesInv

\* An hour passes, and bans end.
LEMMA HourStep ==
  ASSUME PagesInv, Hour, UNCHANGED <<fetcherVars, pageVars>>
  PROVE  PagesInv'
<1>1. Inv' /\ NoNewBan
  BY HourInv, HourKeeps DEF PagesInv
<1>2. Told'
  BY <1>1, ToldKept DEF PagesInv, fetcherVars, pageVars, Heard, SameLast
<1>3. PageType' /\ DialogOfFree'
  BY DEF PagesInv, PageType, DialogOfFree, fetcherVars, pageVars, shownVars, dialogVars
<1> QED
  BY <1>1, <1>2, <1>3 DEF PagesInv

LEMMA PagesStep == PagesInv /\ [NextPages]_allVars => PagesInv'
<1> SUFFICES ASSUME PagesInv, [NextPages]_allVars PROVE PagesInv'
  OBVIOUS
<1>1. CASE Admin
  BY <1>1, DialogStep, SubmitStep, NavigateStep, OpenStep DEF Admin
<1>2. CASE Server
  BY <1>2, ServerStep DEF Server
<1>3. CASE Landing
  BY <1>3, AnswerStep, AnswerReloadStep, LandReloadStep DEF Landing
<1>4. CASE Crash
  BY <1>4, CrashStep
<1>5. CASE Hour /\ UNCHANGED <<fetcherVars, pageVars>>
  BY <1>5, HourStep
<1>6. CASE UNCHANGED allVars
  <2>1. Inv' /\ Told'
    BY <1>6, SameInv, SameServer, ToldKept
       DEF PagesInv, allVars, fetcherVars, pageVars, Heard, SameLast
  <2>2. PageType' /\ DialogOfFree'
    BY <1>6 DEF allVars, PagesInv, PageType, DialogOfFree, fetcherVars, pageVars, shownVars, dialogVars
  <2> QED
    BY <2>1, <2>2 DEF PagesInv
<1> QED
  BY <1>1, <1>2, <1>3, <1>4, <1>5, <1>6 DEF NextPages

-----------------------------------------------------------------------------
\* The pages and the server are always as the proof needs them, whoever bans,
\* pardons, leaves a page or loads the dashboard again.
THEOREM PagesKept == SpecPages => []PagesInv
BY PagesInit, PagesStep, PTL DEF SpecPages

\* A dialog that bans is open only on the profile of a user shown as free.
THEOREM DialogKept == SpecPages => []DialogOfFree
<1>1. PagesInv => DialogOfFree
  BY DEF PagesInv
<1> QED
  BY <1>1, PagesKept, PTL

\* When all has landed, nobody whom the server turns away is shown as free, and
\* the latest bans in force can be pardoned, unless the answer or the reload that
\* would have told the page of a ban was dropped, lost or an error it did not see.
THEOREM BansShown == SpecPages => []BannedShown
<1>1. ASSUME PagesInv, Quiet, ~missed
      PROVE  /\ \A u \in page.users : IsUserBanned(u) => u \in banned
             /\ \A i \in Ids(page) : InForce(bans[i]) =>
                  \E r \in records : r.id = i /\ PardonOffered(r)
  <2>1. Fresh(page, banned, records)
    BY <1>1 DEF PagesInv, Told, Quiet
  <2>2. ASSUME NEW i \in Ids(page), InForce(bans[i])
        PROVE  \E r \in records : r.id = i /\ PardonOffered(r)
    <3>1. PICK r \in records : r.id = i /\ r.end = bans[i].end /\ ~r.pardoned
      BY <2>1, <2>2 DEF Fresh
    <3>2. bans[i] \in Ban /\ now * NsPerHour \in Int
      BY <1>1, BanFacts DEF Ids, PagesInv
    <3>3. bans[i].end.ever \/ (bans[i].end.at > now * NsPerHour /\ bans[i].end.at \in Int)
      BY <2>2, <3>2 DEF InForce, Ban
    <3> QED
      BY <3>1, <3>2, <3>3 DEF PardonOffered
  <2> QED
    BY <2>1, <2>2 DEF Fresh
<1>2. PagesInv => BannedShown
  BY <1>1 DEF BannedShown
<1> QED
  BY <1>2, PagesKept, PTL
=============================================================================

-------------------------- MODULE ChannelPageProofs --------------------------
(***************************************************************************)
(* The dashboard's page for the channels: its dialogs are about channels   *)
(* that are shown, and when all has landed it shows what the server has,   *)
(* for any number of channels and requests.                                *)
(***************************************************************************)
EXTENDS ChannelPageProperties, TLAPS

-----------------------------------------------------------------------------
\* Lists and records.

LEMMA RemoveType ==
  ASSUME NEW S, NEW l \in Seq(S), NEW p \in DOMAIN l
  PROVE  RemoveAt(l, p) \in Seq(S)
<1>1. p \in 1..Len(l) /\ Len(l) \in Nat
  OBVIOUS
<1>2. SubSeq(l, 1, p - 1) \in Seq(S) /\ SubSeq(l, p + 1, Len(l)) \in Seq(S)
  BY <1>1
<1> QED
  BY <1>2 DEF RemoveAt

LEMMA InsertType ==
  ASSUME NEW S, NEW l \in Seq(S), NEW p \in DOMAIN l, NEW e \in S
  PROVE  InsertAt(l, p, e) \in Seq(S)
<1>1. p \in 1..Len(l) /\ Len(l) \in Nat
  OBVIOUS
<1>2. SubSeq(l, 1, p - 1) \in Seq(S) /\ SubSeq(l, p, Len(l)) \in Seq(S)
  BY <1>1
<1> QED
  BY <1>2 DEF InsertAt

\* The row of a channel that is in a list, and the list without it.
LEMMA RowFacts ==
  ASSUME NEW list \in Seq(Channel), NEW i
  PROVE  /\ Without(list, i) \in Seq(Channel)
         /\ Has(list, i) => /\ RowOf(list, i) \in Channel
                            /\ Position(list, i) \in DOMAIN list
<1>1. ASSUME Has(list, i)
      PROVE  RowOf(list, i) \in Channel /\ Position(list, i) \in DOMAIN list
  <2>1. PICK k \in DOMAIN list : list[k].id = i
    BY <1>1 DEF Has
  <2>2. Position(list, i) \in DOMAIN list
    BY <2>1 DEF Position
  <2>3. list[k] \in ToSet(list) /\ \A c \in ToSet(list) : c \in Channel
    BY <2>1 DEF ToSet
  <2>4. RowOf(list, i) \in ToSet(list)
    BY <2>1, <2>3 DEF RowOf
  <2> QED
    BY <2>2, <2>3, <2>4
<1>2. Without(list, i) \in Seq(Channel)
  BY <1>1, RemoveType DEF Without
<1> QED
  BY <1>1, <1>2

LEMMA MovedType ==
  ASSUME NEW list \in Seq(Channel), NEW i, NEW before
  PROVE  Moved(list, i, before) \in Seq(Channel)
<1> DEFINE rest == Without(list, i)
           row == RowOf(list, i)
<1>1. CASE before = i \/ ~Has(list, i)
  BY <1>1 DEF Moved
<1>2. CASE before # i /\ Has(list, i)
  <2>1. rest \in Seq(Channel) /\ row \in Channel
    BY <1>2, RowFacts
  <2>2. Has(rest, before) => Position(rest, before) \in DOMAIN rest
    BY <2>1, RowFacts
  <2>3. Moved(list, i, before) = IF Has(rest, before) THEN InsertAt(rest, Position(rest, before), row)
                                 ELSE Append(rest, row)
    BY <1>2 DEF Moved
  <2> HIDE DEF rest, row
  <2> QED
    BY <2>1, <2>2, <2>3, InsertType
<1> QED
  BY <1>1, <1>2

-----------------------------------------------------------------------------
\* What the router does.

\* A request with another answer.
LEMMA RequestFacts ==
  ASSUME NEW r \in Submitted
  PROVE  /\ \A b \in BOOLEAN : LET q == [r EXCEPT !.live = b]
                               IN q \in Submitted /\ q.live = b /\ q.at = r.at
         /\ \A at \in {"sent", "ok", "refused", "thrown"} :
              LET q == [r EXCEPT !.at = at] IN q \in Submitted /\ q.live = r.live /\ q.at = at
BY DEF Submitted, Request

FetchersOK == requests \subseteq Submitted /\ reloads \in Seq(Reload) /\ missed \in BOOLEAN

\* What is to land last is still to come.
SameLast ==
    /\ reloads = <<>> <=> reloads' = <<>>
    /\ reloads # <<>> => Last(reloads') = Last(reloads)

LEMMA RemoveLast ==
  ASSUME NEW S, NEW l \in Seq(S), NEW p \in DOMAIN l, p # Len(l)
  PROVE  RemoveAt(l, p) # <<>> /\ Last(RemoveAt(l, p)) = Last(l) /\ l # <<>>
<1>1. p \in 1..Len(l) /\ Len(l) \in Nat /\ p < Len(l) /\ Len(<<>>) = 0
  OBVIOUS
<1>2. /\ SubSeq(l, 1, p - 1) \in Seq(S) /\ Len(SubSeq(l, 1, p - 1)) = p - 1
      /\ SubSeq(l, p + 1, Len(l)) \in Seq(S) /\ Len(SubSeq(l, p + 1, Len(l))) = Len(l) - p
      /\ SubSeq(l, p + 1, Len(l))[Len(l) - p] = l[Len(l)]
  <2>1. SubSeq(l, 1, p - 1) \in Seq(S) /\ Len(SubSeq(l, 1, p - 1)) = p - 1
    BY <1>1
  <2>2. SubSeq(l, p + 1, Len(l)) \in Seq(S) /\ Len(SubSeq(l, p + 1, Len(l))) = Len(l) - p
    BY <1>1
  <2>3. \A j \in 1..(Len(l) - p) : SubSeq(l, p + 1, Len(l))[j] = l[j + p]
    BY <1>1
  <2>4. Len(l) - p \in 1..(Len(l) - p) /\ (Len(l) - p) + p = Len(l)
    <3>1. PICK n \in Nat : n = Len(l)
      BY <1>1
    <3>2. p \in Nat /\ p < n
      BY <1>1, <3>1
    <3>3. n - p \in 1..(n - p) /\ (n - p) + p = n
      BY <3>2
    <3> QED
      BY <3>1, <3>3
  <2>5. SubSeq(l, p + 1, Len(l))[Len(l) - p] = l[(Len(l) - p) + p]
    BY <2>3, <2>4
  <2> QED
    BY <2>1, <2>2, <2>4, <2>5
<1> DEFINE a == SubSeq(l, 1, p - 1)
           b == SubSeq(l, p + 1, Len(l))
<1> HIDE DEF a, b
<1>3. a \in Seq(S) /\ b \in Seq(S) /\ Len(a) = p - 1 /\ Len(b) = Len(l) - p /\ b[Len(l) - p] = l[Len(l)]
  BY <1>2 DEF a, b
<1>4. Len(a \o b) = Len(l) - 1 /\ (a \o b)[Len(l) - 1] = l[Len(l)]
  BY <1>1, <1>3
<1>5. RemoveAt(l, p) = a \o b
  BY DEF RemoveAt, a, b
<1> QED
  <2>1. Len(a \o b) # 0 /\ Len(l) # 0
    BY <1>1, <1>4
  <2> QED
    BY <1>1, <1>4, <1>5, <2>1 DEF Last

LEMMA SendKeeps ==
  ASSUME FetchersOK, NEW q \in Submitted, Send(q)
  PROVE  /\ FetchersOK'
         /\ missed' \/ /\ SameLast /\ ~missed
                       /\ \A r \in requests : r.live /\ r.at = "ok" =>
                            \E p \in requests' : p.live /\ p.at = "ok"
<1> DEFINE again(r) == [r EXCEPT !.live = r.live /\ r.op # q.op]
           stay == {p \in requests : p.op # q.op \/ p.at = "sent"}
<1>1. requests' = {again(r) : r \in stay} \cup {q}
  BY DEF Send
<1>2. ASSUME NEW r \in requests
      PROVE  /\ again(r) \in Submitted /\ again(r).at = r.at
             /\ again(r).live = (r.live /\ r.op # q.op)
  <2>1. r \in Submitted
    BY DEF FetchersOK
  <2>2. PICK b \in BOOLEAN : b = (r.live /\ r.op # q.op)
    OBVIOUS
  <2>3. again(r) = [r EXCEPT !.live = b]
    BY <2>2
  <2> HIDE DEF again
  <2>4. again(r) \in Submitted /\ again(r).at = r.at /\ again(r).live = b
    <3> DEFINE t == [r EXCEPT !.live = b]
    <3>1. t \in Submitted /\ t.at = r.at /\ t.live = b
      BY <2>1 DEF Request, Submitted
    <3> HIDE DEF t
    <3>2. again(r) = t
      BY <2>3 DEF t
    <3> QED
      BY <3>1, <3>2
  <2> QED
    BY <2>2, <2>4
<1>3. \A r \in stay : r \in requests /\ again(r) \in requests'
  BY <1>1
<1> HIDE DEF again
<1>4. requests' \subseteq Submitted
  BY <1>1, <1>2
<1>5. reloads' \in Seq(Reload)
  BY RemoveType DEF FetchersOK, Send, Aborted
<1>6. missed' \in BOOLEAN
  BY DEF Send
<1>7. ASSUME ~missed'
      PROVE  /\ SameLast /\ ~missed
             /\ \A r \in requests : r.live /\ r.at = "ok" =>
                  \E p \in requests' : p.live /\ p.at = "ok"
  <2>1. /\ ~missed /\ ~(\E r \in requests : r.op = q.op /\ r.live /\ r.at = "ok")
        /\ reloads # <<>> => Last(reloads).op # q.op
    BY <1>7 DEF Send
  <2>2. SameLast
    <3>1. CASE ~\E k \in DOMAIN reloads : reloads[k].op = q.op
      BY <3>1 DEF Send, Aborted, SameLast
    <3>2. CASE \E k \in DOMAIN reloads : reloads[k].op = q.op
      <4>1. PICK k \in DOMAIN reloads : reloads[k].op = q.op /\ reloads' = RemoveAt(reloads, k)
        BY <3>2 DEF Send, Aborted
      <4>2. k # Len(reloads)
        <5>1. reloads # <<>>
          BY <4>1
        <5> QED
          BY <2>1, <4>1, <5>1 DEF Last
      <4> QED
        BY <4>1, <4>2, RemoveLast DEF FetchersOK, SameLast
    <3> QED
      BY <3>1, <3>2
  <2>3. ASSUME NEW r \in requests, r.live, r.at = "ok" PROVE \E p \in requests' : p.live /\ p.at = "ok"
    <3>1. r.op # q.op
      BY <2>1, <2>3
    <3>2. again(r) \in requests' /\ again(r).live /\ again(r).at = "ok"
      BY <1>2, <1>3, <2>3, <3>1
    <3> QED
      BY <3>2
  <2> QED
    BY <2>1, <2>2, <2>3
<1> QED
  BY <1>4, <1>5, <1>6, <1>7 DEF FetchersOK

LEMMA AnsweredKeeps ==
  ASSUME FetchersOK, NEW r \in requests, r.at = "sent",
         NEW at \in {"ok", "refused", "thrown"}, NEW done \in BOOLEAN, Answered(r, at, done)
  PROVE  /\ FetchersOK' /\ reloads' = reloads
         /\ \A p \in requests : p.at = "ok" => p \in requests'
         /\ done => missed' \/ \E p \in requests' : p.live /\ p.at = "ok"
         /\ missed => missed'
<1>1. r \in Submitted /\ r.live \in BOOLEAN
  BY DEF FetchersOK, Request, Submitted
<1> DEFINE q == [r EXCEPT !.at = at]
<1>2. q \in Submitted /\ q.at = at /\ q.live = r.live
  BY <1>1 DEF Request, Submitted
<1>3. requests' = (requests \ {r}) \cup (IF r.live THEN {q} ELSE {})
      /\ missed' = (missed \/ (done /\ ~(r.live /\ at = "ok"))) /\ reloads' = reloads
  BY DEF Answered
<1> HIDE DEF q
<1>4. FetchersOK'
  BY <1>2, <1>3 DEF FetchersOK
<1>5. done => missed' \/ \E p \in requests' : p.live /\ p.at = "ok"
  BY <1>1, <1>2, <1>3
<1> QED
  BY <1>3, <1>4, <1>5

LEMMA LandedKeeps ==
  ASSUME FetchersOK, NEW r \in requests, Landed(r, Reloads(r), "channels")
  PROVE  /\ FetchersOK'
         /\ IF r.at = "ok" THEN reloads' # <<>> /\ Last(reloads').at = "asked"
            ELSE /\ missed' \/ (reloads' = <<>> /\ reloads = <<>> /\ ~missed)
                 /\ \A p \in requests : p.at = "ok" => p \in requests'
<1> DEFINE l == [op |-> r.op, of |-> "channels", at |-> "asked", reply |-> <<>>]
<1>1. r \in Request
  BY DEF FetchersOK, Submitted
<1>2. l \in Reload /\ l.at = "asked"
  BY <1>1 DEF Reload, Request
<1> HIDE DEF l
<1>3. /\ requests' = requests \ {r}
      /\ missed' = (missed \/ (r.at # "ok" /\ reloads # <<>>))
      /\ reloads' = IF r.at = "ok" THEN Append(reloads, l) ELSE <<>>
  BY DEF Landed, Reloads, AskReload, l
<1>4. reloads \in Seq(Reload) /\ requests \subseteq Submitted /\ missed \in BOOLEAN
  BY DEF FetchersOK
<1>5. Append(reloads, l) \in Seq(Reload) /\ Len(Append(reloads, l)) = Len(reloads) + 1
      /\ Append(reloads, l)[Len(reloads) + 1] = l
  BY <1>2, <1>4
<1>6. Last(Append(reloads, l)) = l /\ Append(reloads, l) # <<>>
  <2>1. Len(<<>>) = 0 /\ Len(reloads) \in Nat
    BY <1>4
  <2> QED
    BY <1>5, <2>1 DEF Last
<1>7. FetchersOK'
  BY <1>3, <1>4, <1>5 DEF FetchersOK
<1>8. ASSUME r.at # "ok"
      PROVE  /\ missed' \/ (reloads' = <<>> /\ reloads = <<>> /\ ~missed)
             /\ \A p \in requests : p.at = "ok" => p \in requests'
  <2>1. missed' = (missed \/ reloads # <<>>) /\ reloads' = <<>>
    BY <1>3, <1>8
  <2>2. ASSUME NEW p \in requests, p.at = "ok" PROVE p \in requests'
    BY <1>3, <1>8, <2>2
  <2> QED
    BY <2>1, <2>2
<1> QED
  BY <1>2, <1>3, <1>6, <1>7, <1>8

\* The server's answer to a reload, which is of the list as it is, and a reload
\* that lands.
LEMMA ReloadedKeeps ==
  ASSUME FetchersOK, NEW k \in DOMAIN reloads, NEW reply \in Seq(Channel), Reloaded(k, reply)
  PROVE  /\ FetchersOK' /\ requests' = requests
         /\ reloads # <<>> /\ reloads' # <<>>
         /\ IF k = Len(reloads) THEN Last(reloads').reply = reply
            ELSE Last(reloads') = Last(reloads) /\ missed' = missed
<1>1. reloads \in Seq(Reload) /\ requests \subseteq Submitted /\ missed \in BOOLEAN
  BY DEF FetchersOK
<1>2. reloads[k] \in Reload /\ k \in 1..Len(reloads) /\ Len(reloads) \in Nat
  BY <1>1
<1> DEFINE l == [reloads[k] EXCEPT !.at = "answered", !.reply = reply]
<1>3. l \in Reload /\ l.reply = reply
  BY <1>2 DEF Reload
<1>4. /\ reloads' = [reloads EXCEPT ![k] = l] /\ requests' = requests
      /\ missed' = (missed /\ k # Len(reloads))
  BY DEF Reloaded
<1> HIDE DEF l
<1>5. reloads' \in Seq(Reload) /\ Len(reloads') = Len(reloads)
  BY <1>1, <1>3, <1>4
<1>6. reloads # <<>> /\ reloads' # <<>>
  <2>1. Len(<<>>) = 0 /\ Len(reloads) # 0
    BY <1>2
  <2> QED
    BY <1>5, <2>1
<1>7. Last(reloads') = IF k = Len(reloads) THEN l ELSE Last(reloads)
  BY <1>1, <1>2, <1>4, <1>5 DEF Last
<1> QED
  BY <1>1, <1>3, <1>4, <1>5, <1>6, <1>7 DEF FetchersOK

LEMMA LandsKeeps ==
  ASSUME FetchersOK, NEW k \in DOMAIN reloads, Lands(k), requests' = requests
  PROVE  /\ FetchersOK' /\ missed' = missed
         /\ reloads[k].reply \in Seq(Channel) /\ reloads # <<>>
         /\ IF k = Len(reloads) THEN Last(reloads) = reloads[k] /\ reloads[k].at # "asked"
            ELSE reloads' # <<>> /\ Last(reloads') = Last(reloads)
<1>1. reloads \in Seq(Reload) /\ requests \subseteq Submitted /\ missed \in BOOLEAN
  BY DEF FetchersOK
<1>2. reloads[k] \in Reload /\ k \in 1..Len(reloads) /\ Len(reloads) \in Nat /\ Len(<<>>) = 0
  BY <1>1
<1>3. reloads' = SubSeq(reloads, k + 1, Len(reloads)) /\ missed' = missed
      /\ reloads[k].at = "answered"
  BY DEF Lands
<1>4. reloads' \in Seq(Reload) /\ Len(reloads') = Len(reloads) - k
  BY <1>1, <1>2, <1>3
<1>5. ASSUME k # Len(reloads)
      PROVE  reloads' # <<>> /\ Last(reloads') = Last(reloads)
  <2>1. \A j \in 1..(Len(reloads) - k) : SubSeq(reloads, k + 1, Len(reloads))[j] = reloads[j + k]
    BY <1>1, <1>2
  <2>2. Len(reloads) - k \in 1..(Len(reloads) - k) /\ (Len(reloads) - k) + k = Len(reloads)
    BY <1>2, <1>5
  <2>3. reloads'[Len(reloads')] = reloads[Len(reloads)]
    BY <1>3, <1>4, <2>1, <2>2
  <2>4. Len(reloads') # 0
    BY <1>2, <1>4, <1>5
  <2> QED
    BY <1>2, <2>3, <2>4 DEF Last
<1>6. Last(reloads) = reloads[Len(reloads)] /\ reloads # <<>>
  BY <1>2 DEF Last
<1>7. reloads[k].reply \in Seq(Channel)
  BY <1>2 DEF Reload
<1> QED
  BY <1>1, <1>3, <1>4, <1>5, <1>6, <1>7 DEF FetchersOK

LEMMA AbandonKeeps ==
  ASSUME FetchersOK, Abandon
  PROVE  FetchersOK' /\ reloads' = <<>>
<1>1. ASSUME NEW r \in requests
      PROVE  [r EXCEPT !.live = FALSE] \in Submitted
  BY DEF FetchersOK, Request, Submitted
<1>2. requests' \subseteq Submitted
  BY <1>1 DEF Abandon
<1> QED
  <2>1. reloads' = <<>> /\ missed' = FALSE /\ <<>> \in Seq(Reload)
    BY DEF Abandon
  <2> QED
    BY <1>2, <2>1 DEF FetchersOK

-----------------------------------------------------------------------------
\* Every variable keeps to its type, whatever the step.

PageOK ==
    /\ table \in Seq(Channel) /\ nextId \in 1..(IdMax + 1)
    /\ shown \in Seq(Channel)
    /\ state \in [id : Ids \cup {NoId}, dialog : Dialog, name : Name \cup {NoName}]
    /\ target \in Ids \cup {NoId}
    /\ submits \in 0..SubmitMax /\ crashed \in BOOLEAN

LEMMA TypeParts == TypeOK /\ requests \subseteq Submitted <=> PageOK /\ FetchersOK
BY DEF TypeOK, PageOK, FetchersOK, Submitted

LEMMA IdFacts == IdMax \in Nat /\ SubmitMax \in Nat /\ Start \in Seq(Name) /\ Len(Start) <= IdMax
                 /\ NoId \notin Ids /\ Ids \subseteq Nat
BY PageConstants DEF NoId, Ids

LEMMA SubmitKeeps ==
  ASSUME PageInv, NEW op \in Op, NEW i \in Ids \cup {NoId}, NEW before \in Ids \cup {NoId},
         NEW name \in Name \cup {NoName},
         op = "add" => name # NoName, Submit(op, i, before, name)
  PROVE  PageInv'
<1> DEFINE q == [no |-> submits', op |-> op, id |-> i, before |-> before, name |-> name,
                 live |-> TRUE, at |-> "sent"]
<1>1. PageOK /\ FetchersOK /\ DialogLive /\ Told
  BY TypeParts DEF PageInv
<1>2. submits' = submits + 1 /\ submits' \in 1..SubmitMax
  BY <1>1, IdFacts DEF Submit, PageOK
<1>3. q \in Submitted
  BY <1>2 DEF Request, Submitted
<1>4. Send(q) /\ UNCHANGED <<serverVars, shown, dialogVars, crashed>>
  BY DEF Submit
<1> HIDE DEF q
<1>5. /\ FetchersOK'
      /\ missed' \/ /\ SameLast /\ ~missed
                    /\ \A r \in requests : r.live /\ r.at = "ok" =>
                         \E p \in requests' : p.live /\ p.at = "ok"
  BY <1>1, <1>3, <1>4, SendKeeps
<1>6. PageOK'
  BY <1>1, <1>2, <1>4, IdFacts DEF PageOK, serverVars, dialogVars
<1>7. DialogLive'
  BY <1>1, <1>4 DEF DialogLive, dialogVars, Has
<1>8. Told'
  <2>1. CASE missed'
    BY <2>1 DEF Told
  <2>2. CASE ~missed'
    BY <1>1, <1>4, <1>5, <2>2 DEF Told, serverVars, SameLast
  <2> QED
    BY <2>1, <2>2
<1> QED
  BY <1>5, <1>6, <1>7, <1>8 DEF PageInv, TypeOK, PageOK, FetchersOK, Submitted

-----------------------------------------------------------------------------
LEMMA ServerTypes ==
  ASSUME PageOK, NEW r \in Submitted, Add(r) \/ Edit(r) \/ Reorder(r) \/ Delete(r)
  PROVE  table' \in Seq(Channel) /\ nextId' \in 1..(IdMax + 1)
<1>1. /\ table \in Seq(Channel) /\ nextId \in 1..(IdMax + 1) /\ r \in Request
      /\ IdMax \in Nat
  BY IdFacts DEF PageOK, Submitted
<1>2. CASE Add(r)
  <2>1. CASE UNCHANGED serverVars
    BY <1>1, <2>1 DEF serverVars
  <2>2. CASE ~UNCHANGED serverVars
    <3>1. /\ ~(Taken(r.name, NoId) \/ nextId > IdMax)
          /\ table' = Append(table, [id |-> nextId, name |-> r.name]) /\ nextId' = nextId + 1
      BY <1>2, <2>2 DEF Add
    <3>2. nextId \in 1..IdMax
      BY <1>1, <3>1
    <3>3. r.name \in Name
      BY <1>2 DEF Submitted, Request, Add
    <3>4. [id |-> nextId, name |-> r.name] \in Channel
      BY <3>2, <3>3 DEF Channel, Ids
    <3> QED
      BY <1>1, <3>1, <3>2, <3>4
  <2> QED
    BY <2>1, <2>2
<1>3. CASE Edit(r)
  <2>1. r.name \in Name \cup {NoName} /\ nextId' = nextId
    BY <1>1, <1>3 DEF Request, Edit
  <2>2. CASE r.name = NoName
    BY <1>1, <1>3, <2>1, <2>2 DEF Edit
  <2>3. CASE r.name # NoName
    <3> DEFINE new(k) == IF table[k].id = r.id THEN [table[k] EXCEPT !.name = r.name] ELSE table[k]
    <3>1. table' = [k \in DOMAIN table |-> new(k)]
      BY <1>3, <2>3 DEF Edit
    <3>2. \A k \in DOMAIN table : new(k) \in Channel
      <4>1. \A k \in DOMAIN table : table[k] \in Channel
        BY <1>1
      <4> QED
        BY <2>1, <2>3, <4>1 DEF Channel
    <3> HIDE DEF new
    <3>3. table' \in Seq(Channel)
      BY <1>1, <3>1, <3>2
    <3> QED
      BY <1>1, <2>1, <3>3
  <2> QED
    BY <2>2, <2>3
<1>4. CASE Reorder(r)
  BY <1>1, <1>4, MovedType DEF Reorder
<1>5. CASE Delete(r)
  BY <1>1, <1>5, RowFacts DEF Delete
<1> QED
  BY <1>2, <1>3, <1>4, <1>5

-----------------------------------------------------------------------------
\* The invariant, one operation at a time.

LEMMA InvInit == Init => PageInv
<1> SUFFICES ASSUME Init PROVE PageInv
  OBVIOUS
<1>1. table \in Seq(Channel)
  <2>1. Start \in Seq(Name) /\ DOMAIN Start = 1..Len(Start) /\ Len(Start) \in Nat
    BY IdFacts
  <2>2. \A i \in 1..Len(Start) : [id |-> i, name |-> Start[i]] \in Channel
    BY <2>1, IdFacts DEF Channel, Ids
  <2> QED
    BY <2>1, <2>2 DEF Init
<1>2. Len(Start) + 1 \in 1..(IdMax + 1) /\ 0 \in 0..SubmitMax
  BY IdFacts
<1>3. <<>> \in Seq(Reload)
  OBVIOUS
<1>4. NoSelection \in [id : Ids \cup {NoId}, dialog : Dialog, name : Name \cup {NoName}]
  BY DEF NoSelection, Dialog
<1>5. TypeOK /\ requests \subseteq Submitted
  BY <1>1, <1>2, <1>3, <1>4 DEF Init, NoFetchers, TypeOK
<1>6. DialogLive /\ Told
  BY DEF Init, NoFetchers, DialogLive, Told, NoSelection
<1> QED
  BY <1>5, <1>6 DEF PageInv

\* The user opens, fills in and closes dialogs.
LEMMA DialogStep ==
  ASSUME PageInv,
         \/ \E i \in Ids, d \in Dialog \ {"none"} : SelectChannel(i, d)
         \/ CloseDialog
         \/ \E n \in Name \cup {NoName} : SetName(n)
         \/ \E i \in Ids : SetSelected(i)
  PROVE  PageInv'
<1>1. UNCHANGED <<serverVars, shown, fetcherVars, submits, crashed>>
  BY DEF SelectChannel, CloseDialog, SetName, SetSelected
<1>2. Told'
  BY <1>1 DEF PageInv, Told, serverVars, fetcherVars
<1>3. ASSUME NEW i \in Ids, NEW d \in Dialog \ {"none"}, SelectChannel(i, d)
      PROVE  /\ state' \in [id : Ids \cup {NoId}, dialog : Dialog, name : Name \cup {NoName}]
             /\ target' \in Ids \cup {NoId} /\ DialogLive'
  <2>1. Has(shown, i) /\ shown \in Seq(Channel)
    BY <1>3 DEF SelectChannel, PageInv, TypeOK
  <2>2. RowOf(shown, i).name \in Name
    BY <2>1, RowFacts DEF Channel
  <2> DEFINE new == [id |-> i, dialog |-> d, name |-> RowOf(shown, i).name]
  <2>3. state' = new /\ target' = i /\ shown' = shown
    BY <1>3 DEF SelectChannel
  <2>4. new \in [id : Ids \cup {NoId}, dialog : Dialog, name : Name \cup {NoName}] /\ new.id = i
    BY <2>2
  <2> HIDE DEF new
  <2> QED
    BY <2>1, <2>3, <2>4 DEF DialogLive, Has
<1>4. ASSUME CloseDialog
      PROVE  /\ state' \in [id : Ids \cup {NoId}, dialog : Dialog, name : Name \cup {NoName}]
             /\ target' \in Ids \cup {NoId} /\ DialogLive'
  BY <1>4 DEF CloseDialog, ClearSelection, NoSelection, DialogLive, Dialog
<1>5. ASSUME NEW n \in Name \cup {NoName}, SetName(n)
      PROVE  /\ state' \in [id : Ids \cup {NoId}, dialog : Dialog, name : Name \cup {NoName}]
             /\ target' \in Ids \cup {NoId} /\ DialogLive'
  <2>1. state' = [state EXCEPT !.name = n] /\ target' = target /\ shown' = shown
    BY <1>5 DEF SetName
  <2>2. state \in [id : Ids \cup {NoId}, dialog : Dialog, name : Name \cup {NoName}]
    BY DEF PageInv, TypeOK
  <2>3. /\ state' \in [id : Ids \cup {NoId}, dialog : Dialog, name : Name \cup {NoName}]
        /\ state'.id = state.id /\ state'.dialog = state.dialog
    BY <2>1, <2>2
  <2> QED
    BY <2>1, <2>3 DEF PageInv, TypeOK, DialogLive, Has
<1>6. ASSUME NEW i \in Ids, SetSelected(i)
      PROVE  /\ state' \in [id : Ids \cup {NoId}, dialog : Dialog, name : Name \cup {NoName}]
             /\ target' \in Ids \cup {NoId} /\ DialogLive'
  BY <1>6 DEF SetSelected, PageInv, TypeOK, DialogLive, Has
<1>7. /\ state' \in [id : Ids \cup {NoId}, dialog : Dialog, name : Name \cup {NoName}]
      /\ target' \in Ids \cup {NoId} /\ DialogLive'
  BY <1>3, <1>4, <1>5, <1>6
<1>8. TypeOK' /\ (requests \subseteq Submitted)'
  BY <1>1, <1>7 DEF PageInv, TypeOK, Submitted, serverVars, fetcherVars
<1> QED
  BY <1>2, <1>7, <1>8 DEF PageInv

\* The user sends what is filled in.
LEMMA SubmitStep ==
  ASSUME PageInv, addChannel \/ update \/ reorder \/ deleteChannel
  PROVE  PageInv'
<1>1. /\ state.id \in Ids \cup {NoId} /\ state.name \in Name \cup {NoName}
      /\ target \in Ids \cup {NoId}
  BY DEF PageInv, TypeOK
<1>2. CASE addChannel
  BY <1>2, SubmitKeeps, PageConstants DEF addChannel, Op
<1>3. CASE update
  BY <1>1, <1>3, SubmitKeeps DEF update, Op
<1>4. CASE reorder
  BY <1>1, <1>4, SubmitKeeps DEF reorder, Op
<1>5. CASE deleteChannel
  BY <1>1, <1>5, SubmitKeeps DEF deleteChannel, Op
<1> QED
  BY <1>2, <1>3, <1>4, <1>5

\* What the page shows and what is selected stay: the rest of the invariant.
LEMMA PageStays ==
  ASSUME PageInv, UNCHANGED <<shown, dialogVars, submits, crashed>>, FetchersOK',
         table' \in Seq(Channel), nextId' \in 1..(IdMax + 1)
  PROVE  TypeOK' /\ (requests \subseteq Submitted)' /\ DialogLive'
<1>1. DialogLive'
  BY DEF PageInv, DialogLive, dialogVars, Has
<1> QED
  BY <1>1 DEF PageInv, TypeOK, FetchersOK, Submitted, dialogVars

LEMMA ServerStep ==
  ASSUME PageInv, NEW r \in requests, Perform(r) \/ Refuse(r)
  PROVE  PageInv'
<1>1. PageOK /\ FetchersOK /\ r \in Submitted
  BY TypeParts DEF PageInv
<1>2. CASE Perform(r)
  <2>1. /\ r.at = "sent" /\ (Add(r) \/ Edit(r) \/ Reorder(r) \/ Delete(r))
        /\ UNCHANGED <<shown, dialogVars, submits, crashed>>
    BY <1>2 DEF Perform
  <2>2. table' \in Seq(Channel) /\ nextId' \in 1..(IdMax + 1)
    BY <1>1, <2>1, ServerTypes
  <2>3. PICK at \in {"ok", "refused", "thrown"} : Answered(r, at, TRUE)
    BY <1>2 DEF Perform, Failed
  <2>4. FetchersOK' /\ (missed' \/ \E p \in requests' : p.live /\ p.at = "ok")
    BY <1>1, <2>1, <2>3, AnsweredKeeps
  <2>5. Told'
    BY <2>4 DEF Told
  <2> QED
    BY <2>1, <2>2, <2>4, <2>5, PageStays DEF PageInv
<1>3. CASE Refuse(r)
  <2>1. PICK at \in {"refused", "thrown"} : Answered(r, at, FALSE)
    BY <1>3 DEF Refuse, Failed
  <2>2. r.at = "sent" /\ UNCHANGED <<serverVars, shown, dialogVars, submits, crashed>>
    BY <1>3 DEF Refuse
  <2>3. /\ FetchersOK' /\ reloads' = reloads
        /\ \A p \in requests : p.at = "ok" => p \in requests'
        /\ missed => missed'
    BY <1>1, <2>1, <2>2, AnsweredKeeps
  <2>4. Told'
    BY <2>2, <2>3 DEF PageInv, Told, serverVars
  <2>5. table' \in Seq(Channel) /\ nextId' \in 1..(IdMax + 1)
    BY <1>1, <2>2 DEF PageOK, serverVars
  <2> QED
    BY <2>2, <2>3, <2>4, <2>5, PageStays DEF PageInv
<1> QED
  BY <1>2, <1>3

LEMMA AnswerStep ==
  ASSUME PageInv, NEW r \in requests, AnswerLands(r)
  PROVE  PageInv'
<1>1. PageOK /\ FetchersOK
  BY TypeParts DEF PageInv
<1>2. Landed(r, Reloads(r), "channels") /\ UNCHANGED <<serverVars, shown, dialogVars, submits, crashed>>
  BY DEF AnswerLands
<1>3. /\ FetchersOK'
      /\ IF r.at = "ok" THEN reloads' # <<>> /\ Last(reloads').at = "asked"
         ELSE /\ missed' \/ (reloads' = <<>> /\ reloads = <<>> /\ ~missed)
              /\ \A p \in requests : p.at = "ok" => p \in requests'
  BY <1>1, <1>2, LandedKeeps
<1>4. Told'
  <2>1. CASE r.at = "ok"
    BY <1>3, <2>1 DEF Told
  <2>2. CASE r.at # "ok"
    BY <1>2, <1>3, <2>2 DEF PageInv, Told, serverVars
  <2> QED
    BY <2>1, <2>2
<1>5. table' \in Seq(Channel) /\ nextId' \in 1..(IdMax + 1)
  BY <1>1, <1>2 DEF PageOK, serverVars
<1> QED
  BY <1>2, <1>3, <1>4, <1>5, PageStays DEF PageInv

\* Whichever reload lands, the last one has the list as it is now.
LEMMA ReloadStep ==
  ASSUME PageInv, NEW k \in DOMAIN reloads, AnswerReload(k) \/ LandReload(k)
  PROVE  PageInv'
<1>1. PageOK /\ FetchersOK
  BY TypeParts DEF PageInv
<1>2. CASE AnswerReload(k)
  <2>1. Reloaded(k, table) /\ UNCHANGED <<serverVars, shown, dialogVars, submits, crashed>>
    BY <1>2 DEF AnswerReload
  <2>2. table \in Seq(Channel)
    BY <1>1 DEF PageOK
  <2>3. /\ FetchersOK' /\ requests' = requests
        /\ reloads # <<>> /\ reloads' # <<>>
        /\ IF k = Len(reloads) THEN Last(reloads').reply = table
           ELSE Last(reloads') = Last(reloads) /\ missed' = missed
    BY <1>1, <2>1, <2>2, ReloadedKeeps
  <2>4. Told'
    BY <2>1, <2>3 DEF PageInv, Told, serverVars
  <2>5. table' \in Seq(Channel) /\ nextId' \in 1..(IdMax + 1)
    BY <1>1, <2>1 DEF PageOK, serverVars
  <2> QED
    BY <2>1, <2>3, <2>4, <2>5, PageStays DEF PageInv
<1>3. CASE LandReload(k)
  <2>1. /\ Lands(k) /\ shown' = reloads[k].reply /\ ClearSelection
        /\ UNCHANGED <<serverVars, requests, submits, crashed>>
    BY <1>3 DEF LandReload
  <2>2. /\ FetchersOK' /\ missed' = missed
        /\ reloads[k].reply \in Seq(Channel) /\ reloads # <<>>
        /\ IF k = Len(reloads) THEN Last(reloads) = reloads[k] /\ reloads[k].at # "asked"
           ELSE reloads' # <<>> /\ Last(reloads') = Last(reloads)
    BY <1>1, <2>1, LandsKeeps
  <2>3. Told'
    <3>1. CASE k # Len(reloads)
      BY <2>1, <2>2, <3>1 DEF PageInv, Told, serverVars
    <3>2. CASE k = Len(reloads)
      <4>1. reloads' = <<>>
        BY <1>1, <2>1, <3>2 DEF Lands, FetchersOK
      <4> QED
        BY <2>1, <2>2, <3>2, <4>1 DEF PageInv, Told, serverVars
    <3> QED
      BY <3>1, <3>2
  <2>4. /\ DialogLive' /\ target' \in Ids \cup {NoId}
        /\ state' \in [id : Ids \cup {NoId}, dialog : Dialog, name : Name \cup {NoName}]
    BY <2>1 DEF ClearSelection, NoSelection, DialogLive, Dialog
  <2> QED
    BY <1>1, <2>1, <2>2, <2>3, <2>4 DEF PageInv, TypeOK, PageOK, FetchersOK, Submitted, serverVars
<1> QED
  BY <1>2, <1>3

\* The page is left, for the error page or to be loaded again.
LEMMA LeaveStep ==
  ASSUME PageInv, Crash \/ Open
  PROVE  PageInv'
<1>1. PageOK /\ FetchersOK
  BY TypeParts DEF PageInv
<1>2. Leave /\ ((shown' = <<>> /\ crashed' = TRUE) \/ (shown' = table /\ crashed' = FALSE))
  BY DEF Crash, Open
<1>3. FetchersOK' /\ reloads' = <<>>
  BY <1>1, <1>2, AbandonKeeps DEF Leave
<1>4. UNCHANGED <<serverVars, submits>> /\ shown' \in Seq(Channel) /\ crashed' \in BOOLEAN
  <2>1. <<>> \in Seq(Channel)
    OBVIOUS
  <2> QED
    BY <1>1, <1>2, <2>1 DEF Leave, PageOK
<1>5. Told'
  BY <1>2, <1>3, <1>4 DEF Told, serverVars
<1>6. /\ DialogLive' /\ target' \in Ids \cup {NoId}
      /\ state' \in [id : Ids \cup {NoId}, dialog : Dialog, name : Name \cup {NoName}]
  BY <1>2 DEF Leave, NoSelection, DialogLive, Dialog
<1> QED
  BY <1>1, <1>3, <1>4, <1>5, <1>6 DEF PageInv, TypeOK, PageOK, FetchersOK, Submitted, serverVars

LEMMA InvStep == PageInv /\ [Next]_vars => PageInv'
<1> SUFFICES ASSUME PageInv, [Next]_vars PROVE PageInv'
  OBVIOUS
<1>1. CASE User
  BY <1>1, DialogStep, SubmitStep, LeaveStep DEF User
<1>2. CASE Server
  BY <1>2, ServerStep DEF Server
<1>3. CASE Landing
  BY <1>3, AnswerStep, ReloadStep DEF Landing
<1>4. CASE Crash
  BY <1>4, LeaveStep
<1>5. CASE UNCHANGED vars
  BY <1>5 DEF vars, PageInv, TypeOK, Submitted, DialogLive, Told, Has, serverVars, dialogVars, fetcherVars
<1> QED
  BY <1>1, <1>2, <1>3, <1>4, <1>5 DEF Next

\* The page is always as the proof needs it: no step of the user, the server or
\* the router leads out of the invariant.
THEOREM PageKept == Spec => []PageInv
BY InvInit, InvStep, PTL DEF Spec

\* Every variable keeps to its type.
THEOREM TypeCorrect == Spec => []TypeOK
<1>1. PageInv => TypeOK
  BY DEF PageInv
<1> QED
  BY <1>1, PageKept, PTL

\* A dialog is about channels that are on the page: every new list closes it.
THEOREM DialogKept == Spec => []DialogLive
<1>1. PageInv => DialogLive
  BY DEF PageInv
<1> QED
  BY <1>1, PageKept, PTL

\* When all has landed the page shows the server's channels, unless the answer or
\* the reload that would have told it of a change was dropped.
THEOREM CurrentShown == Spec => []Current
<1>1. PageInv => Current
  BY DEF PageInv, Told, Current, Quiet
<1> QED
  BY <1>1, PageKept, PTL
=============================================================================

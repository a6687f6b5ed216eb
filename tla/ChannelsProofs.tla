--------------------------- MODULE ChannelsProofs ---------------------------
(***************************************************************************)
(* The channels: what was removed stays removed, a move does what it says  *)
(* whatever other requests do meanwhile, and one request at a time keeps   *)
(* the sort_orders apart and the messages of other channels, for any       *)
(* number of channels, messages and requests.                              *)
(***************************************************************************)
EXTENDS ChannelsProperties, FiniteSetTheorems, TLAPS

-----------------------------------------------------------------------------
\* Rows and lists.

\* A row that is there is none of the absent ones, whatever its sort_order.
LEMMA RowType ==
  /\ NoRow \in Row
  /\ \A r \in Row : r # NoRow => r.name \in Name /\ r.order \in Nat
  /\ \A r \in Row : r = NoRow \/ r.name # NoName
  /\ \A n \in Name, k \in Nat : [name |-> n, order |-> k] \in Row /\ [name |-> n, order |-> k] # NoRow
<1>1. \A r \in Row : r = NoRow \/ (r.name \in Name /\ r.order \in Nat)
  BY DEF Row
<1>2. \A n \in Name, k \in Nat : [name |-> n, order |-> k] # NoRow
  <2> SUFFICES ASSUME NEW n \in Name, NEW k \in Nat, [name |-> n, order |-> k] = NoRow PROVE FALSE
    OBVIOUS
  <2>1. [name |-> n, order |-> k].name = NoRow.name
    OBVIOUS
  <2> QED
    BY <2>1, ChannelConstants DEF NoRow
<1> QED
  BY <1>1, <1>2, ChannelConstants DEF Row

\* A row keeps its name with another sort_order, and that with another name.
LEMMA RowExcept ==
  ASSUME NEW r \in Row, r # NoRow
  PROVE  /\ \A k \in Nat : LET q == [r EXCEPT !.order = k]
                           IN q \in Row /\ q # NoRow /\ q.name = r.name /\ q.order = k
         /\ \A n \in Name : LET q == [r EXCEPT !.name = n]
                            IN q \in Row /\ q # NoRow /\ q.name = n /\ q.order = r.order
<1>1. r \in [name : Name, order : Nat]
  BY DEF Row
<1>2. ASSUME NEW k \in Nat PROVE [r EXCEPT !.order = k] = [name |-> r.name, order |-> k]
  BY <1>1
<1>3. ASSUME NEW n \in Name PROVE [r EXCEPT !.name = n] = [name |-> n, order |-> r.order]
  BY <1>1
<1>4. r.name \in Name /\ r.order \in Nat
  BY <1>1
<1>5. ASSUME NEW k \in Nat
      PROVE  LET q == [r EXCEPT !.order = k]
             IN q \in Row /\ q # NoRow /\ q.name = r.name /\ q.order = k
  <2>1. [name |-> r.name, order |-> k] \in Row /\ [name |-> r.name, order |-> k] # NoRow
    BY <1>4, RowType
  <2> QED
    BY <1>2, <2>1
<1>6. ASSUME NEW n \in Name
      PROVE  LET q == [r EXCEPT !.name = n]
             IN q \in Row /\ q # NoRow /\ q.name = n /\ q.order = r.order
  <2>1. [name |-> n, order |-> r.order] \in Row /\ [name |-> n, order |-> r.order] # NoRow
    BY <1>4, RowType
  <2> QED
    BY <1>3, <2>1
<1> QED
  BY <1>5, <1>6

\* The ids are finitely many numbers, none of them 0.
LEMMA IdsFinite ==
  /\ IsFiniteSet(Ids) /\ Ids \in SUBSET (Nat \ {0})
  /\ \A S \in SUBSET Ids : IsFiniteSet(S) /\ Cardinality(S) \in Nat
<1>1. IsFiniteSet(Ids) /\ Ids \in SUBSET (Nat \ {0})
  BY ChannelConstants, FS_Interval DEF Ids
<1> QED
  BY <1>1, FS_Subset, FS_CardinalityType

\* The result of a SELECT lists the rows that are there, each of them once.
LEMMA SortedFacts ==
  ASSUME NEW view \in [Ids -> Row], NEW s \in Sorted(view)
  PROVE  /\ s \in Seq(Ids)
         /\ \A p, q \in DOMAIN s : s[p] = s[q] => p = q
         /\ \A p \in DOMAIN s : s[p] \in Ids /\ view[s[p]] # NoRow
         /\ \A i \in Ids : view[i] # NoRow => \E p \in DOMAIN s : s[p] = i
<1> DEFINE S == Live(view)
           n == Cardinality(S)
<1>1. S \in SUBSET Ids /\ IsFiniteSet(S) /\ n \in Nat
  BY IdsFinite DEF Live
<1>2. s \in [1..n -> S] /\ \A p, q \in 1..n : p < q => Precedes(view, s[p], s[q])
  BY DEF Sorted
<1>3. \A i \in S : ~Precedes(view, i, i)
  <2> SUFFICES ASSUME NEW i \in S PROVE ~Precedes(view, i, i)
    OBVIOUS
  <2>1. view[i].order \in Nat /\ i \in Nat
    BY <1>1, RowType, IdsFinite DEF Live
  <2> QED
    BY <2>1 DEF Precedes
<1>4. \A p, q \in 1..n : s[p] = s[q] => p = q
  <2> SUFFICES ASSUME NEW p \in 1..n, NEW q \in 1..n, s[p] = s[q], p # q PROVE FALSE
    OBVIOUS
  <2>1. p < q \/ q < p
    BY <1>1
  <2> QED
    BY <1>2, <1>3, <2>1
<1>5. IsFiniteSet(1..n) /\ Cardinality(1..n) = n
  BY <1>1, FS_Interval
<1>6. s \in Injection(1..n, S)
  BY <1>2, <1>4 DEF Injection, IsInjective
<1>7. s \in Surjection(1..n, S)
  BY <1>1, <1>5, <1>6, FS_Injection
<1>8. \A i \in S : \E p \in 1..n : s[p] = i
  BY <1>7 DEF Surjection
<1>9. s \in Seq(Ids)
  BY <1>1, <1>2
<1> QED
  BY <1>1, <1>2, <1>4, <1>8, <1>9 DEF Live
-----------------------------------------------------------------------------
\* Moving an id in a list.

Once(l) == \A p, q \in DOMAIN l : l[p] = l[q] => p = q

\* The place of an id that is in a list.
LEMMA AtFacts ==
  ASSUME NEW l \in Seq(Ids), NEW i, Contains(l, i)
  PROVE  At(l, i) \in DOMAIN l /\ l[At(l, i)] = i
<1>1. \E p \in DOMAIN l : l[p] = i
  BY DEF Contains
<1> QED
  BY <1>1 DEF At

\* One list after another.
LEMMA Concat ==
  ASSUME NEW a \in Seq(Ids), NEW b \in Seq(Ids)
  PROVE  /\ a \o b \in Seq(Ids) /\ DOMAIN (a \o b) = 1..(Len(a) + Len(b))
         /\ \A k \in 1..Len(a) : (a \o b)[k] = a[k]
         /\ \A k \in 1..Len(b) : (a \o b)[Len(a) + k] = b[k]
  OBVIOUS

\* A list without its p-th element.
LEMMA RemoveAtFacts ==
  ASSUME NEW l \in Seq(Ids), NEW p \in DOMAIN l
  PROVE  /\ RemoveAt(l, p) \in Seq(Ids)
         /\ DOMAIN l = 1..Len(l) /\ Len(l) \in Nat
         /\ DOMAIN RemoveAt(l, p) = 1..(Len(l) - 1)
         /\ \A k \in 1..(Len(l) - 1) : RemoveAt(l, p)[k] = IF k < p THEN l[k] ELSE l[k + 1]
<1> DEFINE n == Len(l)
           a == SubSeq(l, 1, p - 1)
           b == SubSeq(l, p + 1, n)
<1>1. n \in Nat /\ DOMAIN l = 1..n /\ p \in 1..n
  OBVIOUS
<1>2. /\ a \in Seq(Ids) /\ Len(a) = p - 1
      /\ \A k \in 1..(p - 1) : a[k] = l[k]
  BY <1>1
<1>3. /\ b \in Seq(Ids) /\ Len(b) = n - p
      /\ \A k \in 1..(n - p) : b[k] = l[p + k]
  BY <1>1
<1>4. RemoveAt(l, p) = a \o b
  BY DEF RemoveAt
<1> HIDE DEF a, b
<1>5. /\ a \o b \in Seq(Ids) /\ DOMAIN (a \o b) = 1..(n - 1)
      /\ \A k \in 1..(p - 1) : (a \o b)[k] = a[k]
      /\ \A k \in 1..(n - p) : (a \o b)[p - 1 + k] = b[k]
  <2>1. a \in Seq(Ids) /\ b \in Seq(Ids) /\ Len(a) = p - 1 /\ Len(b) = n - p
    BY <1>2, <1>3
  <2>2. /\ a \o b \in Seq(Ids) /\ DOMAIN (a \o b) = 1..(Len(a) + Len(b))
        /\ \A k \in 1..Len(a) : (a \o b)[k] = a[k]
        /\ \A k \in 1..Len(b) : (a \o b)[Len(a) + k] = b[k]
    BY <2>1, Concat
  <2>3. (p - 1) + (n - p) = n - 1
    BY <1>1
  <2> QED
    BY <2>1, <2>2, <2>3
<1>6. ASSUME NEW k \in 1..(n - 1) PROVE (a \o b)[k] = IF k < p THEN l[k] ELSE l[k + 1]
  <2>1. CASE k < p
    <3>1. k \in 1..(p - 1)
      BY <1>1, <2>1
    <3> QED
      BY <1>2, <1>5, <2>1, <3>1
  <2>2. CASE ~(k < p)
    <3>1. k - (p - 1) \in 1..(n - p) /\ p - 1 + (k - (p - 1)) = k /\ p + (k - (p - 1)) = k + 1
      BY <1>1, <2>2
    <3>2. (a \o b)[k] = b[k - (p - 1)] /\ b[k - (p - 1)] = l[k + 1]
      BY <1>3, <1>5, <3>1
    <3> QED
      BY <2>2, <3>2
  <2> QED
    BY <2>1, <2>2
<1> QED
  BY <1>1, <1>4, <1>5, <1>6

\* A list with one element more, at place p.
LEMMA InsertAtFacts ==
  ASSUME NEW l \in Seq(Ids), NEW p \in DOMAIN l, NEW i \in Ids
  PROVE  /\ InsertAt(l, p, i) \in Seq(Ids)
         /\ DOMAIN l = 1..Len(l) /\ Len(l) \in Nat
         /\ DOMAIN InsertAt(l, p, i) = 1..(Len(l) + 1)
         /\ \A k \in 1..(Len(l) + 1) :
              InsertAt(l, p, i)[k] = IF k < p THEN l[k] ELSE IF k = p THEN i ELSE l[k - 1]
<1> DEFINE n == Len(l)
           a == SubSeq(l, 1, p - 1)
           c == a \o <<i>>
           b == SubSeq(l, p, n)
<1>1. n \in Nat /\ DOMAIN l = 1..n /\ p \in 1..n
  OBVIOUS
<1>2. /\ a \in Seq(Ids) /\ Len(a) = p - 1
      /\ \A k \in 1..(p - 1) : a[k] = l[k]
  BY <1>1
<1>3. /\ b \in Seq(Ids) /\ Len(b) = n - p + 1
      /\ \A k \in 1..(n - p + 1) : b[k] = l[p + k - 1]
  BY <1>1
<1>4. InsertAt(l, p, i) = c \o b
  BY DEF InsertAt
<1> HIDE DEF a, b
<1>5. /\ c \in Seq(Ids) /\ Len(c) = p /\ c[p] = i
      /\ \A k \in 1..(p - 1) : c[k] = a[k]
  BY <1>1, <1>2
<1> HIDE DEF c
<1>6. /\ c \o b \in Seq(Ids) /\ DOMAIN (c \o b) = 1..(n + 1)
      /\ \A k \in 1..p : (c \o b)[k] = c[k]
      /\ \A k \in 1..(n - p + 1) : (c \o b)[p + k] = b[k]
  <2>1. c \in Seq(Ids) /\ b \in Seq(Ids) /\ Len(c) = p /\ Len(b) = n - p + 1
    BY <1>3, <1>5
  <2>2. /\ c \o b \in Seq(Ids) /\ DOMAIN (c \o b) = 1..(Len(c) + Len(b))
        /\ \A k \in 1..Len(c) : (c \o b)[k] = c[k]
        /\ \A k \in 1..Len(b) : (c \o b)[Len(c) + k] = b[k]
    BY <2>1, Concat
  <2>3. p + (n - p + 1) = n + 1
    BY <1>1
  <2> QED
    BY <2>1, <2>2, <2>3
<1>7. ASSUME NEW k \in 1..(n + 1)
      PROVE  (c \o b)[k] = IF k < p THEN l[k] ELSE IF k = p THEN i ELSE l[k - 1]
  <2>1. CASE k < p
    <3>1. k \in 1..(p - 1) /\ k \in 1..p
      BY <1>1, <2>1
    <3> QED
      BY <1>2, <1>5, <1>6, <2>1, <3>1
  <2>2. CASE k = p
    BY <1>1, <1>5, <1>6, <2>2
  <2>3. CASE k > p
    <3>1. k - p \in 1..(n - p + 1) /\ p + (k - p) = k /\ p + (k - p) - 1 = k - 1
      BY <1>1, <2>3
    <3>2. (c \o b)[k] = b[k - p] /\ b[k - p] = l[k - 1]
      BY <1>3, <1>6, <3>1
    <3> QED
      BY <1>1, <2>3, <3>2
  <2>4. k < p \/ k = p \/ k > p
    BY <1>1
  <2> QED
    BY <2>1, <2>2, <2>3, <2>4
<1> QED
  BY <1>1, <1>4, <1>6, <1>7

\* A list without an id: what else was in it.
LEMMA RestFacts ==
  ASSUME NEW l \in Seq(Ids), Once(l), NEW i \in Ids
  PROVE  /\ Rest(l, i) \in Seq(Ids) /\ Once(Rest(l, i))
         /\ \A p \in DOMAIN Rest(l, i) : Rest(l, i)[p] # i /\ \E q \in DOMAIN l : l[q] = Rest(l, i)[p]
         /\ \A q \in DOMAIN l : l[q] # i => \E p \in DOMAIN Rest(l, i) : Rest(l, i)[p] = l[q]
<1>1. CASE ~Contains(l, i)
  <2>1. \A q \in DOMAIN l : l[q] # i
    BY <1>1 DEF Contains
  <2>2. Rest(l, i) = l
    BY <1>1 DEF Rest
  <2> QED
    BY <2>1, <2>2
<1>2. CASE Contains(l, i)
  <2> DEFINE k == At(l, i)
             r == RemoveAt(l, k)
             n == Len(l)
  <2>1. k \in DOMAIN l /\ l[k] = i /\ Rest(l, i) = r
    BY <1>2, AtFacts DEF Rest
  <2> HIDE DEF k
  <2>2. /\ r \in Seq(Ids) /\ DOMAIN l = 1..n /\ n \in Nat /\ DOMAIN r = 1..(n - 1)
        /\ \A p \in 1..(n - 1) : r[p] = IF p < k THEN l[p] ELSE l[p + 1]
    BY <2>1, RemoveAtFacts
  <2> HIDE DEF r, n
  <2>3. ASSUME NEW p \in 1..(n - 1)
        PROVE  LET s == IF p < k THEN p ELSE p + 1
               IN s \in 1..n /\ s # k /\ r[p] = l[s]
    BY <2>1, <2>2
  <2>4. ASSUME NEW p \in 1..(n - 1) PROVE r[p] # i /\ \E q \in DOMAIN l : l[q] = r[p]
    <3>1. PICK s \in 1..n : s # k /\ r[p] = l[s]
      BY <2>3
    <3> QED
      BY <2>1, <2>2, <3>1 DEF Once
  <2>5. ASSUME NEW p \in 1..(n - 1), NEW q \in 1..(n - 1), r[p] = r[q] PROVE p = q
    <3>1. LET s == IF p < k THEN p ELSE p + 1
              t == IF q < k THEN q ELSE q + 1
          IN s \in 1..n /\ t \in 1..n /\ l[s] = l[t]
      BY <2>3, <2>5
    <3>2. (IF p < k THEN p ELSE p + 1) = (IF q < k THEN q ELSE q + 1)
      BY <2>2, <3>1 DEF Once
    <3> QED
      BY <2>1, <2>2, <3>2
  <2>6. ASSUME NEW q \in 1..n, l[q] # i PROVE \E p \in 1..(n - 1) : r[p] = l[q]
    <3>1. q # k /\ k \in 1..n
      BY <2>1, <2>2, <2>6
    <3>2. CASE q < k
      <4>1. q \in 1..(n - 1)
        BY <2>2, <3>1, <3>2
      <4> QED
        BY <2>2, <3>2, <4>1
    <3>3. CASE q > k
      <4>1. q - 1 \in 1..(n - 1) /\ ~(q - 1 < k) /\ (q - 1) + 1 = q
        BY <2>2, <3>1, <3>3
      <4>2. r[q - 1] = l[q]
        BY <2>2, <4>1
      <4> QED
        BY <4>1, <4>2
    <3>4. q < k \/ q > k
      BY <2>2, <3>1
    <3> QED
      BY <3>2, <3>3, <3>4
  <2> QED
    BY <2>1, <2>2, <2>4, <2>5, <2>6, ZenonT(30) DEF Once
<1> QED
  BY <1>1, <1>2

\* A moved id is in the list once, with all the others, and before its target.
Moved(m, l, i, before) ==
    /\ m \in Seq(Ids) /\ Once(m)
    /\ \E p \in DOMAIN m : m[p] = i
    /\ \A p \in DOMAIN m : m[p] = i \/ \E q \in DOMAIN l : l[q] = m[p]
    /\ \A q \in DOMAIN l : \E p \in DOMAIN m : m[p] = l[q]
    /\ before # i /\ (\E q \in DOMAIN l : l[q] = before) =>
         \E p, q \in DOMAIN m : p < q /\ m[p] = i /\ m[q] = before

LEMMA MoveFacts ==
  ASSUME NEW l \in Seq(Ids), Once(l), NEW i \in Ids, NEW before
  PROVE  Moved(Move(l, i, before), l, i, before)
<1> DEFINE r == Rest(l, i)
           n == Len(r)
           m == Move(l, i, before)
<1>1. /\ r \in Seq(Ids) /\ Once(r)
      /\ \A p \in DOMAIN r : r[p] # i /\ \E q \in DOMAIN l : l[q] = r[p]
      /\ \A q \in DOMAIN l : l[q] # i => \E p \in DOMAIN r : r[p] = l[q]
  BY RestFacts
<1>2. m = IF Contains(r, before) THEN InsertAt(r, At(r, before), i) ELSE Append(r, i)
  BY DEF Move
<1>3. n \in Nat /\ DOMAIN r = 1..n
  BY <1>1
<1>4. before # i /\ (\E q \in DOMAIN l : l[q] = before) => Contains(r, before)
  BY <1>1 DEF Contains
<1> HIDE DEF r, m
<1>5. ASSUME NEW k \in 1..(n + 1), m \in Seq(Ids), DOMAIN m = 1..(n + 1),
             \A p \in 1..(n + 1) : m[p] = IF p < k THEN r[p] ELSE IF p = k THEN i ELSE r[p - 1]
      PROVE  /\ Once(m) /\ m[k] = i
             /\ \A p \in DOMAIN m : m[p] = i \/ \E q \in DOMAIN l : l[q] = m[p]
             /\ \A q \in DOMAIN l : \E p \in DOMAIN m : m[p] = l[q]
  <2>1. m[k] = i
    BY <1>5
  <2>2. ASSUME NEW p \in 1..(n + 1), p # k
        PROVE  LET s == IF p < k THEN p ELSE p - 1 IN s \in 1..n /\ m[p] = r[s]
    BY <1>3, <1>5, <2>2
  <2>3. ASSUME NEW p \in 1..(n + 1), p # k PROVE m[p] # i /\ \E q \in DOMAIN l : l[q] = m[p]
    <3>1. PICK s \in 1..n : m[p] = r[s]
      BY <2>2, <2>3
    <3> QED
      BY <1>1, <1>3, <3>1
  <2>4. ASSUME NEW p \in 1..(n + 1), NEW q \in 1..(n + 1), m[p] = m[q] PROVE p = q
    <3>1. CASE p = k \/ q = k
      BY <2>1, <2>3, <2>4, <3>1
    <3>2. CASE p # k /\ q # k
      <4>1. LET s == IF p < k THEN p ELSE p - 1
                t == IF q < k THEN q ELSE q - 1
            IN s \in 1..n /\ t \in 1..n /\ r[s] = r[t]
        BY <2>2, <2>4, <3>2
      <4>2. (IF p < k THEN p ELSE p - 1) = (IF q < k THEN q ELSE q - 1)
        BY <1>1, <1>3, <4>1 DEF Once
      <4> QED
        BY <1>3, <3>2, <4>2
    <3> QED
      BY <3>1, <3>2
  <2>5. ASSUME NEW q \in 1..n PROVE \E p \in 1..(n + 1) : m[p] = r[q]
    <3>1. CASE q < k
      <4>1. q \in 1..(n + 1)
        BY <1>3
      <4> QED
        BY <1>5, <3>1, <4>1
    <3>2. CASE ~(q < k)
      <4>1. q + 1 \in 1..(n + 1) /\ ~(q + 1 < k) /\ q + 1 # k /\ (q + 1) - 1 = q
        BY <1>3, <3>2
      <4>2. m[q + 1] = r[q]
        BY <1>5, <4>1
      <4> QED
        BY <4>1, <4>2
    <3> QED
      BY <3>1, <3>2
  <2>6. ASSUME NEW q \in DOMAIN l PROVE \E p \in DOMAIN m : m[p] = l[q]
    <3>1. CASE l[q] = i
      BY <1>5, <2>1, <3>1
    <3>2. CASE l[q] # i
      <4>1. PICK p \in 1..n : r[p] = l[q]
        BY <1>1, <1>3, <3>2
      <4>2. \E x \in 1..(n + 1) : m[x] = l[q]
        BY <2>5, <4>1
      <4> QED
        BY <1>5, <4>2
    <3> QED
      BY <3>1, <3>2
  <2> QED
    BY <1>5, <2>1, <2>3, <2>4, <2>6 DEF Once
<1>6. CASE Contains(r, before)
  <2> DEFINE k == At(r, before)
  <2>1. k \in 1..n /\ r[k] = before /\ m = InsertAt(r, k, i)
    BY <1>1, <1>2, <1>3, <1>6, AtFacts
  <2> HIDE DEF k
  <2>2. /\ m \in Seq(Ids) /\ DOMAIN m = 1..(n + 1)
        /\ \A p \in 1..(n + 1) : m[p] = IF p < k THEN r[p] ELSE IF p = k THEN i ELSE r[p - 1]
    <3>1. r \in Seq(Ids) /\ k \in DOMAIN r
      BY <1>1, <1>3, <2>1
    <3>2. /\ InsertAt(r, k, i) \in Seq(Ids) /\ DOMAIN InsertAt(r, k, i) = 1..(Len(r) + 1)
          /\ \A p \in 1..(Len(r) + 1) :
               InsertAt(r, k, i)[p] = IF p < k THEN r[p] ELSE IF p = k THEN i ELSE r[p - 1]
      BY <3>1, InsertAtFacts
    <3> QED
      BY <2>1, <3>2
  <2>3. k \in 1..(n + 1) /\ k + 1 \in 1..(n + 1) /\ k < k + 1 /\ ~(k + 1 < k) /\ k + 1 # k
        /\ (k + 1) - 1 = k
    BY <1>3, <2>1
  <2>4. m[k + 1] = before
    BY <2>1, <2>2, <2>3
  <2>5. /\ Once(m) /\ m[k] = i
        /\ \A p \in DOMAIN m : m[p] = i \/ \E q \in DOMAIN l : l[q] = m[p]
        /\ \A q \in DOMAIN l : \E p \in DOMAIN m : m[p] = l[q]
    BY <1>5, <2>2, <2>3
  <2> QED
    BY <2>2, <2>3, <2>4, <2>5 DEF m, Moved
<1>7. CASE ~Contains(r, before)
  <2>1. m = Append(r, i)
    BY <1>2, <1>7
  <2>2. /\ m \in Seq(Ids) /\ DOMAIN m = 1..(n + 1)
        /\ \A p \in 1..(n + 1) : m[p] = IF p <= n THEN r[p] ELSE i
    BY <1>1, <1>3, <2>1
  <2>3. n + 1 \in 1..(n + 1) /\ \A p \in 1..(n + 1) : (p < n + 1 <=> p <= n) /\ (p <= n \/ p = n + 1)
    BY <1>3
  <2>4. \A p \in 1..(n + 1) : m[p] = IF p < n + 1 THEN r[p] ELSE IF p = n + 1 THEN i ELSE r[p - 1]
    BY <2>2, <2>3
  <2>5. /\ Once(m) /\ m[n + 1] = i
        /\ \A p \in DOMAIN m : m[p] = i \/ \E q \in DOMAIN l : l[q] = m[p]
        /\ \A q \in DOMAIN l : \E p \in DOMAIN m : m[p] = l[q]
    BY <1>5, <2>2, <2>3, <2>4
  <2> QED
    BY <1>4, <1>7, <2>2, <2>3, <2>5 DEF m, Moved
<1> QED
  BY <1>6, <1>7
-----------------------------------------------------------------------------
\* Types.

\* What a statement sees is a table.
LEMMA ViewType ==
  ASSUME TypeOK, NEW a \in Admin
  PROVE  /\ View(a) \in [Ids -> Row]
         /\ \A i \in Ids : View(a)[i] = IF i \in DOMAIN dirty[a] THEN dirty[a][i] ELSE rows[i]
  BY DEF TypeOK, View

\* The request's record with other values in it.
LEMMA ReqFacts ==
  /\ ReqType(Idle) /\ Idle.before = 0 /\ Idle.pc = "idle" /\ Idle.at = 1
  /\ \A n \in Name, k \in Nat : ReqType([Idle EXCEPT !.pc = "insert", !.name = n, !.max = k])
  /\ \A i \in Ids, n \in Name : ReqType([Idle EXCEPT !.pc = "rename", !.id = i, !.name = n])
  /\ \A i \in Ids, j \in Nat : ReqType([Idle EXCEPT !.pc = "movelist", !.id = i, !.before = j])
  /\ \A i \in Ids, p \in BOOLEAN : ReqType([Idle EXCEPT !.pc = "name", !.id = i, !.purge = p])
<1>1. Idle \in [pc : ReqPc, id : Nat, before : Nat, name : Name \cup {NoName}, purge : BOOLEAN,
                max : Nat, list : Seq(Ids), at : Nat \ {0}]
  BY DEF Idle, ReqPc
<1>2. Ids \in SUBSET Nat
  BY IdsFinite
<1> QED
  BY <1>1, <1>2, ZenonT(30) DEF ReqType, Idle, ReqPc

\* There is a largest sort_order, and no channel's is larger.
LEMMA MaxOrderFacts ==
  ASSUME NEW view \in [Ids -> Row]
  PROVE  LET S == {view[i].order : i \in Live(view)} \cup {0}
         IN Max(S) \in Nat /\ \A i \in Live(view) : view[i].order <= Max(S)
<1> DEFINE L == Live(view)
           S == {view[i].order : i \in L} \cup {0}
           above(i) == {j \in L : view[j].order > view[i].order}
           T == {above(i) : i \in L}
<1>1. IsFiniteSet(L) /\ \A i \in L : view[i].order \in Nat
  BY RowType, IdsFinite DEF Live
<1>2. \E m \in S : \A n \in S : m >= n
  <2>1. CASE L = {}
    <3>1. S = {0}
      BY <2>1
    <3> QED
      BY <3>1
  <2>2. CASE L # {}
    <3> HIDE DEF L
    <3>1. IsWellFoundedOn(StrictSubsetOrdering(L), SUBSET L)
      BY <1>1, FS_FiniteSubsetsOfFinite, FS_StrictSubsetOrderingWellFounded
    <3>2. T \subseteq SUBSET L /\ T # {}
      BY <2>2
    <3>3. PICK x \in T : \A y \in T : <<y, x>> \notin StrictSubsetOrdering(L)
      BY <3>1, <3>2, WFMin
    <3>4. PICK m \in L : x = above(m)
      BY <3>3
    <3>5. ASSUME NEW j \in L, view[j].order > view[m].order PROVE FALSE
      <4>1. \A k \in L : view[k].order > view[j].order => view[k].order > view[m].order
        BY <1>1, <3>5
      <4>2. above(j) \subseteq above(m) /\ j \in above(m) /\ j \notin above(j)
        BY <1>1, <3>5, <4>1
      <4>3. above(j) \in SUBSET L /\ above(m) \in SUBSET L /\ above(j) # above(m)
        BY <4>2
      <4>4. <<above(j), above(m)>> \in StrictSubsetOrdering(L)
        BY <4>2, <4>3 DEF StrictSubsetOrdering
      <4> QED
        BY <3>3, <3>4, <4>4
    <3>6. \A j \in L : view[m].order >= view[j].order
      BY <1>1, <3>5
    <3>7. view[m].order \in S /\ \A n \in S : view[m].order >= n
      BY <1>1, <3>6
    <3> QED
      BY <3>7
  <2> QED
    BY <2>1, <2>2
<1>3. Max(S) \in S /\ \A n \in S : Max(S) >= n
  BY <1>2 DEF Max
<1>4. Max(S) \in Nat
  BY <1>1, <1>3
<1>5. \A i \in L : view[i].order \in S
  OBVIOUS
<1> QED
  BY <1>1, <1>3, <1>4, <1>5

\* The types of req and of dirty, as functions.
ReqsOK(q) == q = [a \in Admin |-> q[a]] /\ \A a \in Admin : ReqType(q[a])
DirtyOK(d) ==
    /\ d = [a \in Admin |-> d[a]]
    /\ \A a \in Admin : /\ d[a] = [i \in DOMAIN d[a] |-> d[a][i]]
                        /\ DOMAIN d[a] \subseteq Ids
                        /\ \A i \in DOMAIN d[a] : d[a][i] \in Row

LEMMA TypeParts ==
  /\ TypeOK <=> /\ rows \in [Ids -> Row] /\ DirtyOK(dirty) /\ nextId \in 1..(IdMax + 1)
                /\ ReqsOK(req) /\ filed \subseteq Filed /\ wiped \in [Admin -> SUBSET Filed]
                /\ requests \in Nat
  /\ TypeOK' <=> /\ rows' \in [Ids -> Row] /\ DirtyOK(dirty') /\ nextId' \in 1..(IdMax + 1)
                 /\ ReqsOK(req') /\ filed' \subseteq Filed /\ wiped' \in [Admin -> SUBSET Filed]
                 /\ requests' \in Nat
BY DEF TypeOK, ReqsOK, DirtyOK

\* A request changed, or forgotten with all it wrote.
LEMMA ReqsSet ==
  ASSUME ReqsOK(req), NEW a \in Admin, NEW r, ReqType(r)
  PROVE  ReqsOK([req EXCEPT ![a] = r])
BY DEF ReqsOK

LEMMA DirtySet ==
  ASSUME DirtyOK(dirty), NEW a \in Admin
  PROVE  /\ DirtyOK([dirty EXCEPT ![a] = NoWrites])
         /\ \A i \in Ids, r \in Row :
              DirtyOK([dirty EXCEPT ![a] = Write(dirty[a], i, r)])
<1>1. DirtyOK([dirty EXCEPT ![a] = NoWrites])
  BY DEF DirtyOK, NoWrites
<1>2. ASSUME NEW i \in Ids, NEW r \in Row
      PROVE  DirtyOK([dirty EXCEPT ![a] = Write(dirty[a], i, r)])
  <2> DEFINE w == Write(dirty[a], i, r)
             d == [dirty EXCEPT ![a] = w]
  <2>1. /\ w = [j \in DOMAIN w |-> w[j]] /\ DOMAIN w \subseteq Ids
        /\ \A j \in DOMAIN w : w[j] \in Row
    BY DEF Write, DirtyOK
  <2> HIDE DEF w
  <2>2. d = [b \in Admin |-> IF b = a THEN w ELSE dirty[b]]
    BY DEF DirtyOK
  <2> HIDE DEF d
  <2>3. d = [b \in Admin |-> d[b]] /\ \A b \in Admin : d[b] = IF b = a THEN w ELSE dirty[b]
    BY <2>2
  <2>4. DirtyOK(d)
    BY <2>1, <2>3 DEF DirtyOK
  <2> QED
    BY <2>4 DEF d, w
<1> QED
  BY <1>1, <1>2

LEMMA TypeInit ==
  ASSUME Init
  PROVE  TypeOK
<1>1. ReqsOK(req)
  BY ReqFacts DEF Init, ReqsOK
<1>2. DirtyOK(dirty)
  BY DEF Init, DirtyOK, NoWrites
<1>3. rows \in [Ids -> Row] /\ nextId \in 1..(IdMax + 1)
  BY ChannelConstants, RowType DEF Init
<1> QED
  BY <1>1, <1>2, <1>3, TypeParts DEF Init

\* A step of a request keeps to the types when what it writes does.
LEMMA TypeStep ==
  ASSUME TypeOK, Next
  PROVE  TypeOK'
<1>0. /\ rows \in [Ids -> Row] /\ DirtyOK(dirty) /\ nextId \in 1..(IdMax + 1)
      /\ ReqsOK(req) /\ filed \subseteq Filed /\ wiped \in [Admin -> SUBSET Filed]
      /\ requests \in Nat
  BY TypeParts
<1>1. ASSUME NEW a \in Admin PROVE ReqsOK([req EXCEPT ![a] = Idle])
  BY <1>0, ReqFacts, ReqsSet
<1>2. ASSUME NEW a \in Admin PROVE ReqType(req[a])
  BY <1>0 DEF ReqsOK
<1>3. ASSUME NEW a \in Admin PROVE DirtyOK([dirty EXCEPT ![a] = NoWrites])
  BY <1>0, DirtySet
<1>4. ASSUME NEW a \in Admin PROVE [wiped EXCEPT ![a] = {}] \in [Admin -> SUBSET Filed]
  BY <1>0
<1>5. ASSUME NEW a \in Admin, SelectMax(a) PROVE TypeOK'
  <2>1. MaxOrder \in Nat
    BY <1>0, MaxOrderFacts DEF MaxOrder
  <2>2. PICK n \in Name : req' = [req EXCEPT ![a] = [Idle EXCEPT !.pc = "insert", !.name = n,
                                                                 !.max = MaxOrder]]
    BY <1>5 DEF SelectMax
  <2>3. ReqType([Idle EXCEPT !.pc = "insert", !.name = n, !.max = MaxOrder])
    BY <2>1, <2>2, ReqFacts
  <2>4. ReqsOK(req')
    BY <1>0, <2>2, <2>3, ReqsSet
  <2> QED
    BY <1>0, <1>5, <2>4, TypeParts DEF SelectMax
<1>6. ASSUME NEW a \in Admin, Begin(a) PROVE TypeOK'
  <2>1. PICK i \in Known :
          \/ \E n \in Name : Request(a, [Idle EXCEPT !.pc = "rename", !.id = i, !.name = n])
          \/ \E j \in (Known \cup {0}) \ {i} :
               Request(a, [Idle EXCEPT !.pc = "movelist", !.id = i, !.before = j])
          \/ \E purge \in BOOLEAN : Request(a, [Idle EXCEPT !.pc = "name", !.id = i, !.purge = purge])
    BY <1>6 DEF Begin
  <2>2. i \in Ids /\ \A j \in Known \cup {0} : j \in Nat
    <3>1. nextId \in 1..(IdMax + 1) /\ IdMax \in Nat
      BY <1>0, ChannelConstants
    <3>2. i \in 1..(nextId - 1)
      BY <2>1 DEF Known
    <3>3. \A j \in 1..(nextId - 1) : j \in Nat /\ j \in 1..IdMax
      BY <3>1
    <3> QED
      BY <3>2, <3>3 DEF Known, Ids
  <2>3. PICK r : Request(a, r) /\ ReqType(r)
    BY <2>1, <2>2, ReqFacts
  <2>4. ReqsOK(req')
    BY <1>0, <2>3, ReqsSet DEF Request
  <2>5. requests' \in Nat
    BY <1>0, <2>3 DEF Request
  <2> QED
    BY <1>0, <2>3, <2>4, <2>5, TypeParts DEF Request
<1>7. ASSUME NEW a \in Admin, InsertChannel(a) PROVE TypeOK'
  <2>1. req[a].name \in Name /\ req[a].max + 1 \in Nat
    BY <1>2, <1>7 DEF InsertChannel, ReqType
  <2>2. [name |-> req[a].name, order |-> req[a].max + 1] \in Row
    BY <2>1, RowType
  <2>3. rows' \in [Ids -> Row]
    BY <1>0, <1>7, <2>2 DEF InsertChannel
  <2>4. nextId' \in 1..(IdMax + 1)
    BY <1>0, <1>7, ChannelConstants DEF InsertChannel
  <2> QED
    BY <1>0, <1>1, <1>7, <2>3, <2>4, TypeParts DEF InsertChannel
<1>8. ASSUME NEW a \in Admin, UpdateChannel(a) PROVE TypeOK'
  <2>1. req[a].name \in Name /\ req[a].id \in Ids
    BY <1>2, <1>8 DEF UpdateChannel, ReqType
  <2>2. CASE rows' = rows
    BY <1>0, <1>1, <1>8, <2>2, TypeParts DEF UpdateChannel
  <2>3. CASE rows[req[a].id] # NoRow /\ rows' = [rows EXCEPT ![req[a].id].name = req[a].name]
    <3>1. [rows[req[a].id] EXCEPT !.name = req[a].name] \in Row
      BY <1>0, <2>1, <2>3, RowExcept
    <3>2. rows' \in [Ids -> Row]
      BY <1>0, <2>1, <2>3, <3>1
    <3> QED
      BY <1>0, <1>1, <1>8, <3>2, TypeParts DEF UpdateChannel
  <2> QED
    BY <1>8, <2>2, <2>3 DEF UpdateChannel
<1>9. ASSUME NEW a \in Admin, ListForMove(a) PROVE TypeOK'
  <2>1. PICK s \in Sorted(rows) :
          req' = [req EXCEPT ![a].pc = "update", ![a].list = Move(s, req[a].id, req[a].before)]
    BY <1>9 DEF ListForMove
  <2> DEFINE m == Move(s, req[a].id, req[a].before)
  <2>2. s \in Seq(Ids) /\ Once(s)
    BY <1>0, <2>1, SortedFacts DEF Once
  <2>3. req[a].id \in Ids
    BY <1>2, <1>9 DEF ListForMove, ReqType
  <2>4. m \in Seq(Ids)
    BY <2>2, <2>3, MoveFacts DEF Moved
  <2> HIDE DEF m
  <2>5. ReqType([req[a] EXCEPT !.pc = "update", !.list = m])
    BY <1>2, <2>4 DEF ReqType, ReqPc
  <2>6. req' = [req EXCEPT ![a] = [req[a] EXCEPT !.pc = "update", !.list = m]]
    BY <2>1 DEF m
  <2>7. ReqsOK(req')
    BY <1>0, <2>5, <2>6, ReqsSet
  <2> QED
    BY <1>0, <1>9, <2>7, TypeParts DEF ListForMove
<1>10. ASSUME NEW a \in Admin, UpdateOrder(a) PROVE TypeOK'
  <2> DEFINE k == req[a].at
             i == req[a].list[k]
  <2>1. k \in Nat /\ k + 1 \in Nat \ {0} /\ i \in Ids
    BY <1>2, <1>10 DEF UpdateOrder, ReqType
  <2>2. ReqType([req[a] EXCEPT !.at = k + 1])
    BY <1>2, <2>1 DEF ReqType
  <2>3. req' = [req EXCEPT ![a] = [req[a] EXCEPT !.at = k + 1]]
    BY <1>10 DEF UpdateOrder
  <2>4. ReqsOK(req')
    BY <1>0, <2>2, <2>3, ReqsSet
  <2>5. CASE View(a)[i] = NoRow
    BY <1>0, <1>10, <2>4, <2>5, TypeParts DEF UpdateOrder
  <2>6. CASE View(a)[i] # NoRow
    <3>1. [View(a)[i] EXCEPT !.order = k] \in Row
      BY <2>1, <2>6, ViewType, RowExcept
    <3>2. dirty' = [dirty EXCEPT ![a] = Write(dirty[a], i, [View(a)[i] EXCEPT !.order = k])]
      BY <1>10, <2>6 DEF UpdateOrder
    <3>3. DirtyOK(dirty')
      BY <1>0, <2>1, <3>1, <3>2, DirtySet
    <3> QED
      BY <1>0, <1>10, <2>4, <3>3, TypeParts DEF UpdateOrder
  <2> QED
    BY <2>5, <2>6
<1>11. ASSUME NEW a \in Admin, Commit(a) PROVE TypeOK'
  <2>1. rows' \in [Ids -> Row]
    BY <1>11, ViewType DEF Commit
  <2> QED
    BY <1>0, <1>1, <1>3, <1>4, <1>11, <2>1, TypeParts DEF Commit
<1>12. ASSUME NEW a \in Admin, SelectName(a) PROVE TypeOK'
  <2>1. CASE rows[req[a].id] = NoRow
    BY <1>0, <1>1, <1>12, <2>1, TypeParts DEF SelectName
  <2>2. CASE rows[req[a].id] # NoRow
    <3> DEFINE n == rows[req[a].id].name
    <3>1. req[a].id \in Ids
      BY <1>2, <1>12 DEF SelectName, ReqType
    <3>2. n \in Name
      BY <1>0, <2>2, <3>1, RowType
    <3> HIDE DEF n
    <3>3. ReqType([req[a] EXCEPT !.pc = "delete", !.name = n])
      BY <1>2, <3>1, <3>2 DEF ReqType, ReqPc
    <3>4. req' = [req EXCEPT ![a] = [req[a] EXCEPT !.pc = "delete", !.name = n]]
      BY <1>12, <2>2 DEF SelectName, n
    <3>5. ReqsOK(req')
      BY <1>0, <3>3, <3>4, ReqsSet
    <3> QED
      BY <1>0, <1>12, <3>5, TypeParts DEF SelectName
  <2> QED
    BY <2>1, <2>2
<1>13. ASSUME NEW a \in Admin, DeleteRow(a) PROVE TypeOK'
  <2>1. req[a].id \in Ids /\ req[a].name \in Name
    BY <1>2, <1>13 DEF DeleteRow, ReqType
  <2>2. PICK p \in {"purge", "list"} : req' = [req EXCEPT ![a] = [req[a] EXCEPT !.pc = p]]
    BY <1>13 DEF DeleteRow
  <2>3. ReqType([req[a] EXCEPT !.pc = p])
    BY <1>2, <2>1, <2>2 DEF ReqType, ReqPc
  <2>4. ReqsOK(req')
    BY <1>0, <2>2, <2>3, ReqsSet
  <2>5. DirtyOK(dirty')
    BY <1>0, <1>13, <2>1, DirtySet, RowType DEF DeleteRow
  <2> QED
    BY <1>0, <1>13, <2>4, <2>5, TypeParts DEF DeleteRow
<1>14. ASSUME NEW a \in Admin, RemoveMessagesByChannel(a) PROVE TypeOK'
  <2>1. req' = [req EXCEPT ![a] = [req[a] EXCEPT !.pc = "list"]]
    BY <1>14 DEF RemoveMessagesByChannel
  <2>2. ReqType([req[a] EXCEPT !.pc = "list"])
    BY <1>2, <1>14 DEF RemoveMessagesByChannel, ReqType, ReqPc
  <2>3. ReqsOK(req')
    BY <1>0, <2>1, <2>2, ReqsSet
  <2>4. wiped' \in [Admin -> SUBSET Filed]
    BY <1>0, <1>14 DEF RemoveMessagesByChannel
  <2> QED
    BY <1>0, <1>14, <2>3, <2>4, TypeParts DEF RemoveMessagesByChannel
<1>15. ASSUME NEW a \in Admin, ListForRemove(a) PROVE TypeOK'
  <2>1. PICK s \in Sorted(View(a)) :
          req' = [req EXCEPT ![a] = [req[a] EXCEPT !.pc = "update", !.list = s]]
    BY <1>15 DEF ListForRemove
  <2>2. s \in Seq(Ids)
    BY <2>1, ViewType, SortedFacts
  <2>3. ReqType([req[a] EXCEPT !.pc = "update", !.list = s])
    BY <1>2, <2>2 DEF ReqType, ReqPc
  <2>4. ReqsOK(req')
    BY <1>0, <2>1, <2>3, ReqsSet
  <2> QED
    BY <1>0, <1>15, <2>4, TypeParts DEF ListForRemove
<1>16. ASSUME NEW a \in Admin, Rollback(a) PROVE TypeOK'
  BY <1>0, <1>1, <1>3, <1>4, <1>16, TypeParts DEF Rollback
<1>17. ASSUME FileMessage PROVE TypeOK'
  <2>1. filed' \subseteq Filed
    BY <1>0, <1>17 DEF FileMessage, Filed
  <2> QED
    BY <1>0, <1>17, <2>1, TypeParts DEF FileMessage
<1> QED
  BY <1>5, <1>6, <1>7, <1>8, <1>9, <1>10, <1>11, <1>12, <1>13, <1>14, <1>15, <1>16, <1>17
     DEF Next, Step

-----------------------------------------------------------------------------
\* Any number of requests.

\* The rows that a step takes away, puts there or changes: none that is gone comes
\* back, and none that another transaction wrote goes.
LEMMA RowsStay ==
  ASSUME TypeOK, Locks, Issued, Next
  PROVE  /\ nextId' \in Nat /\ nextId <= nextId'
         /\ \A i \in Ids : Gone(i) => i < nextId' /\ rows'[i] = NoRow
         /\ \A i \in Ids : rows'[i] # NoRow => i < nextId'
<1>0. /\ nextId \in Nat /\ rows \in [Ids -> Row] /\ Ids \in SUBSET Nat
      /\ \A i \in Ids : rows[i] # NoRow => i < nextId
      /\ \A i \in Ids : i < nextId + 1 \/ nextId < i
  BY ChannelConstants, IdsFinite DEF TypeOK, Issued, Live
<1>1. CASE UNCHANGED <<rows, nextId>>
  BY <1>0, <1>1 DEF Gone
<1>2. ASSUME NEW a \in Admin, InsertChannel(a), ~UNCHANGED <<rows, nextId>>
      PROVE  /\ nextId' \in Nat /\ nextId <= nextId'
             /\ \A i \in Ids : Gone(i) => i < nextId' /\ rows'[i] = NoRow
             /\ \A i \in Ids : rows'[i] # NoRow => i < nextId'
  <2>1. nextId' = nextId + 1 /\ \A i \in Ids : i # nextId => rows'[i] = rows[i]
    BY <1>0, <1>2 DEF InsertChannel
  <2> QED
    BY <1>0, <2>1 DEF Gone
<1>3. ASSUME NEW a \in Admin, UpdateChannel(a), ~UNCHANGED <<rows, nextId>>
      PROVE  /\ nextId' \in Nat /\ nextId <= nextId'
             /\ \A i \in Ids : Gone(i) => i < nextId' /\ rows'[i] = NoRow
             /\ \A i \in Ids : rows'[i] # NoRow => i < nextId'
  <2>1. nextId' = nextId /\ rows[req[a].id] # NoRow
        /\ \A i \in Ids : i # req[a].id => rows'[i] = rows[i]
    BY <1>0, <1>3 DEF UpdateChannel
  <2>2. \A i \in Ids : rows[i] = NoRow => rows'[i] = NoRow
    BY <2>1
  <2> QED
    BY <1>0, <2>1, <2>2 DEF Gone
<1>4. ASSUME NEW a \in Admin, Commit(a)
      PROVE  /\ nextId' \in Nat /\ nextId <= nextId'
             /\ \A i \in Ids : Gone(i) => i < nextId' /\ rows'[i] = NoRow
             /\ \A i \in Ids : rows'[i] # NoRow => i < nextId'
  <2>1. nextId' = nextId /\ rows' = View(a)
    BY <1>4 DEF Commit
  <2>2. \A i \in Ids : rows[i] = NoRow => rows'[i] = NoRow
    BY <2>1, ViewType DEF Locks
  <2> QED
    BY <1>0, <2>1, <2>2 DEF Gone
<1>5. \/ UNCHANGED <<rows, nextId>>
      \/ \E a \in Admin : InsertChannel(a) \/ UpdateChannel(a) \/ Commit(a)
  BY ZenonT(30) DEF Next, Step, SelectMax, Begin, Request, ListForMove, UpdateOrder, SelectName, DeleteRow,
         RemoveMessagesByChannel, ListForRemove, Rollback, FileMessage
<1> QED
  BY <1>1, <1>2, <1>3, <1>4, <1>5

\* Of the rows that a transaction has written none goes but by its own commit.
LEMMA LocksStep ==
  ASSUME TypeOK, Locks, Next
  PROVE  Locks'
<1>0. /\ rows \in [Ids -> Row] /\ DirtyOK(dirty) /\ ReqsOK(req)
      /\ \A a \in Admin : DOMAIN dirty[a] \subseteq Ids
  BY TypeParts DEF DirtyOK
<1>1. /\ \A a, b \in Admin : a # b => DOMAIN dirty[a] \cap DOMAIN dirty[b] = {}
      /\ \A a \in Admin : \A i \in DOMAIN dirty[a] : rows[i] # NoRow
      /\ \A a \in Admin : req[a].pc \notin {"purge", "list", "update"} => dirty[a] = NoWrites
  BY DEF Locks
\* The transaction of a is over, or has not begun.
<1>2. ASSUME NEW a \in Admin, \A b \in Admin \ {a} : req'[b] = req[b] /\ dirty'[b] = dirty[b],
             dirty'[a] = NoWrites,
             \A i \in Ids : rows[i] # NoRow /\ i \notin DOMAIN dirty[a] => rows'[i] # NoRow
      PROVE  Locks'
  <2>1. DOMAIN NoWrites = {}
    BY DEF NoWrites
  <2>2. \A b, c \in Admin : b # c => DOMAIN dirty'[b] \cap DOMAIN dirty'[c] = {}
    BY <1>1, <1>2, <2>1
  <2>3. ASSUME NEW b \in Admin, NEW i \in DOMAIN dirty'[b] PROVE rows'[i] # NoRow
    <3>1. b # a /\ i \in DOMAIN dirty[b]
      BY <1>2, <2>1, <2>3
    <3>2. i \notin DOMAIN dirty[a] /\ i \in Ids /\ rows[i] # NoRow
      BY <1>0, <1>1, <3>1
    <3> QED
      BY <1>2, <3>2
  <2>4. ASSUME NEW b \in Admin, req'[b].pc \notin {"purge", "list", "update"}
        PROVE  dirty'[b] = NoWrites
    BY <1>1, <1>2, <2>4
  <2> QED
    BY <2>2, <2>3, <2>4 DEF Locks
\* The transaction of a goes on, with the row i, that is there and not locked.
<1>3. ASSUME NEW a \in Admin, \A b \in Admin \ {a} : req'[b] = req[b] /\ dirty'[b] = dirty[b],
             req'[a].pc \in {"purge", "list", "update"}, rows' = rows,
             \/ dirty'[a] = dirty[a]
             \/ \E i \in Ids : /\ DOMAIN dirty'[a] = {i} \cup DOMAIN dirty[a]
                               /\ rows[i] # NoRow /\ ~Locked(a, i)
      PROVE  Locks'
  <2>1. ASSUME NEW i \in DOMAIN dirty'[a]
        PROVE  rows[i] # NoRow /\ \A b \in Admin \ {a} : i \notin DOMAIN dirty[b]
    BY <1>1, <1>3 DEF Locked
  <2>2. \A b, c \in Admin : b # c => DOMAIN dirty'[b] \cap DOMAIN dirty'[c] = {}
    BY <1>1, <1>3, <2>1
  <2>3. ASSUME NEW b \in Admin, NEW i \in DOMAIN dirty'[b] PROVE rows'[i] # NoRow
    BY <1>1, <1>3, <2>1
  <2>4. ASSUME NEW b \in Admin, req'[b].pc \notin {"purge", "list", "update"}
        PROVE  dirty'[b] = NoWrites
    BY <1>1, <1>3, <2>4
  <2> QED
    BY <2>2, <2>3, <2>4 DEF Locks
<1>4. \A a \in Admin : \A r :
        LET q == [req EXCEPT ![a] = r]
        IN q[a] = r /\ \A b \in Admin \ {a} : q[b] = req[b]
  BY <1>0 DEF ReqsOK
<1>5. \A a \in Admin : \A w :
        LET d == [dirty EXCEPT ![a] = w]
        IN d[a] = w /\ \A b \in Admin \ {a} : d[b] = dirty[b]
  BY <1>0 DEF DirtyOK
<1>6. \A a \in Admin : \A r : Request(a, r) => Locks'
  BY <1>1, <1>2, <1>4 DEF Request
<1>7. \A a \in Admin : Begin(a) => Locks'
  BY <1>6 DEF Begin
<1>8. \A a \in Admin : SelectMax(a) => Locks'
  BY <1>1, <1>2, <1>4 DEF SelectMax
<1>9. ASSUME NEW a \in Admin, InsertChannel(a) PROVE Locks'
  <2>1. \A i \in Ids : rows[i] # NoRow => rows'[i] # NoRow
    <3>1. [name |-> req[a].name, order |-> req[a].max + 1] # NoRow
      <4>1. req[a].name \in Name /\ req[a].max + 1 \in Nat
        BY <1>0, <1>9 DEF InsertChannel, ReqsOK, ReqType
      <4> QED
        BY <4>1, RowType
    <3> QED
      BY <1>0, <1>9, <3>1 DEF InsertChannel
  <2> QED
    BY <1>1, <1>2, <1>4, <1>9, <2>1 DEF InsertChannel
<1>10. ASSUME NEW a \in Admin, UpdateChannel(a) PROVE Locks'
  <2>1. \A i \in Ids : rows[i] # NoRow => rows'[i] # NoRow
    <3>1. req[a].name \in Name /\ req[a].id \in Ids
      BY <1>0, <1>10 DEF UpdateChannel, ReqsOK, ReqType
    <3>2. rows[req[a].id] # NoRow => [rows[req[a].id] EXCEPT !.name = req[a].name] # NoRow
      BY <1>0, <3>1, RowExcept
    <3> QED
      BY <1>0, <1>10, <3>1, <3>2 DEF UpdateChannel
  <2> QED
    BY <1>1, <1>2, <1>4, <1>10, <2>1 DEF UpdateChannel
<1>11. ASSUME NEW a \in Admin, ListForMove(a) PROVE Locks'
  <2>1. \E s : req' = [req EXCEPT ![a] = [req[a] EXCEPT !.pc = "update", !.list = s]]
    BY <1>11 DEF ListForMove
  <2>2. \A b \in Admin \ {a} : req'[b] = req[b]
    BY <1>4, <2>1
  <2> QED
    BY <1>1, <1>2, <1>11, <2>2 DEF ListForMove
<1>12. ASSUME NEW a \in Admin, UpdateOrder(a) PROVE Locks'
  <2> DEFINE i == req[a].list[req[a].at]
  <2>1. ReqType(req[a]) /\ req[a].pc = "update" /\ i \in Ids
    BY <1>0, <1>12 DEF UpdateOrder, ReqsOK, ReqType
  <2>2. req'[a].pc = "update" /\ \A b \in Admin \ {a} : req'[b] = req[b]
    <3>1. req' = [req EXCEPT ![a] = [req[a] EXCEPT !.at = req[a].at + 1]]
      BY <1>12 DEF UpdateOrder
    <3>2. [req[a] EXCEPT !.at = req[a].at + 1].pc = "update"
      BY <2>1 DEF ReqType
    <3> QED
      BY <1>4, <3>1, <3>2
  <2>3. CASE View(a)[i] = NoRow
    BY <1>3, <1>12, <2>2, <2>3 DEF UpdateOrder
  <2>4. CASE View(a)[i] # NoRow
    <3>1. rows[i] # NoRow /\ ~Locked(a, i)
      BY <1>1, <1>12, <2>1, <2>4, ViewType DEF UpdateOrder
    <3>2. dirty' = [dirty EXCEPT ![a] = Write(dirty[a], i, [View(a)[i] EXCEPT !.order = req[a].at])]
      BY <1>12, <2>4 DEF UpdateOrder
    <3>3. DOMAIN dirty'[a] = {i} \cup DOMAIN dirty[a] /\ \A b \in Admin \ {a} : dirty'[b] = dirty[b]
      BY <1>5, <3>2 DEF Write
    <3> QED
      BY <1>3, <1>12, <2>1, <2>2, <3>1, <3>3 DEF UpdateOrder
  <2> QED
    BY <2>3, <2>4
<1>13. ASSUME NEW a \in Admin, Commit(a) PROVE Locks'
  <2>1. \A i \in Ids : i \notin DOMAIN dirty[a] => rows'[i] = rows[i]
    BY <1>13, ViewType DEF Commit
  <2> QED
    <3>1. \A b \in Admin \ {a} : req'[b] = req[b] /\ dirty'[b] = dirty[b]
      BY <1>4, <1>5, <1>13 DEF Commit
    <3>2. dirty'[a] = NoWrites
      BY <1>5, <1>13 DEF Commit
    <3>3. \A i \in Ids : rows[i] # NoRow /\ i \notin DOMAIN dirty[a] => rows'[i] # NoRow
      BY <2>1
    <3> QED
      BY <1>2, <3>1, <3>2, <3>3
<1>14. ASSUME NEW a \in Admin, SelectName(a) PROVE Locks'
  <2>1. \E r : req' = [req EXCEPT ![a] = r]
    BY <1>14 DEF SelectName
  <2> QED
    BY <1>1, <1>2, <1>4, <1>14, <2>1 DEF SelectName
<1>15. ASSUME NEW a \in Admin, DeleteRow(a) PROVE Locks'
  <2>1. ReqType(req[a]) /\ req[a].id \in Ids
    BY <1>0, <1>15 DEF DeleteRow, ReqsOK, ReqType
  <2>2. req'[a].pc \in {"purge", "list"} /\ \A b \in Admin \ {a} : req'[b] = req[b]
    <3>1. PICK p \in {"purge", "list"} : req' = [req EXCEPT ![a] = [req[a] EXCEPT !.pc = p]]
      BY <1>15 DEF DeleteRow
    <3>2. [req[a] EXCEPT !.pc = p].pc = p
      BY <2>1 DEF ReqType
    <3> QED
      BY <1>4, <3>1, <3>2
  <2>3. CASE rows[req[a].id] = NoRow
    BY <1>3, <1>15, <2>2, <2>3 DEF DeleteRow
  <2>4. CASE rows[req[a].id] # NoRow
    <3>1. dirty' = [dirty EXCEPT ![a] = Write(dirty[a], req[a].id, NoRow)]
      BY <1>15, <2>4 DEF DeleteRow
    <3>2. /\ DOMAIN dirty'[a] = {req[a].id} \cup DOMAIN dirty[a]
          /\ \A b \in Admin \ {a} : dirty'[b] = dirty[b]
      BY <1>5, <3>1 DEF Write
    <3> QED
      BY <1>3, <1>15, <2>1, <2>2, <2>4, <3>2 DEF DeleteRow
  <2> QED
    BY <2>3, <2>4
<1>16. ASSUME NEW a \in Admin, RemoveMessagesByChannel(a) PROVE Locks'
  <2>1. req'[a].pc = "list" /\ \A b \in Admin \ {a} : req'[b] = req[b]
    <3>1. req' = [req EXCEPT ![a] = [req[a] EXCEPT !.pc = "list"]]
      BY <1>16 DEF RemoveMessagesByChannel
    <3>2. [req[a] EXCEPT !.pc = "list"].pc = "list"
      BY <1>0 DEF ReqsOK, ReqType
    <3> QED
      BY <1>4, <3>1, <3>2
  <2> QED
    BY <1>3, <1>16, <2>1 DEF RemoveMessagesByChannel
<1>17. ASSUME NEW a \in Admin, ListForRemove(a) PROVE Locks'
  <2>1. req'[a].pc = "update" /\ \A b \in Admin \ {a} : req'[b] = req[b]
    <3>1. PICK s : req' = [req EXCEPT ![a] = [req[a] EXCEPT !.pc = "update", !.list = s]]
      BY <1>17 DEF ListForRemove
    <3>2. [req[a] EXCEPT !.pc = "update", !.list = s].pc = "update"
      BY <1>0 DEF ReqsOK, ReqType
    <3> QED
      BY <1>4, <3>1, <3>2
  <2> QED
    BY <1>3, <1>17, <2>1 DEF ListForRemove
<1>18. \A a \in Admin : Rollback(a) => Locks'
  BY <1>2, <1>4, <1>5 DEF Rollback
<1>19. FileMessage => Locks'
  BY DEF FileMessage, Locks
<1> QED
  BY <1>7, <1>8, <1>9, <1>10, <1>11, <1>12, <1>13, <1>14, <1>15, <1>16, <1>17, <1>18, <1>19
     DEF Next, Step

\* What the inductive invariant says of one request.
Fine(r, d) ==
    /\ r.pc \notin {"movelist", "update"} => r.before = 0
    /\ r.pc = "movelist" => /\ r.at = 1 /\ r.id < nextId
                            /\ r.before < nextId /\ r.before # r.id
    /\ Moving(r) => Writes(r, d)

\* It stays true of a request that does nothing.
LEMMA FineKept ==
  ASSUME TypeOK, Locks, Issued, Next, NEW r, NEW d, ReqType(r), Fine(r, d)
  PROVE  Fine(r, d)'
<1>0. /\ nextId' \in Nat /\ nextId \in Nat /\ nextId <= nextId'
      /\ \A i \in Ids : Gone(i) => i < nextId' /\ rows'[i] = NoRow
  BY RowsStay, ChannelConstants DEF TypeOK
<1>1. r.before \in Nat /\ r.id \in Nat /\ r.list \in Seq(Ids) /\ \A p \in DOMAIN r.list : r.list[p] \in Ids
  BY DEF ReqType
<1>2. ASSUME NEW k \in Nat, k < nextId PROVE k < nextId'
  BY <1>0, <1>2
<1>3. r.pc = "movelist" => r.id < nextId' /\ r.before < nextId'
  BY <1>1, <1>2 DEF Fine
<1>4. ASSUME Moving(r), Writes(r, d) PROVE Writes(r, d)'
  <2>1. r.before # 0 /\ (r.before < nextId => r.before \in Ids)
    BY <1>0, <1>1, <1>4, ChannelConstants DEF Moving, TypeOK, Ids
  <2>2. Gone(r.before) => Gone(r.before)'
    BY <1>0, <2>1 DEF Gone
  <2>3. \A p \in DOMAIN r.list : Gone(r.list[p]) => Gone(r.list[p])'
    BY <1>0, <1>1 DEF Gone
  <2>4. \A p \in DOMAIN r.list : r.list[p] < nextId'
    BY <1>1, <1>2, <1>4, IdsFinite DEF Writes
  <2> QED
    BY <1>4, <2>2, <2>3, <2>4 DEF Writes
<1> QED
  BY <1>3, <1>4 DEF Fine, Moving

LEMMA FinePrimed ==
  ASSUME NEW c \in Admin, NEW r, r = req'[c], NEW d, d = dirty'[c], Fine(r, d)'
  PROVE  Fine(req[c], dirty[c])'
BY DEF Fine, Writes, Moving, Gone

\* A move's list puts the channel before its target, and each UPDATE writes one
\* more of its sort_orders.
LEMMA MovesStep ==
  ASSUME TypeOK, Locks, Issued, Moves, Next, TypeOK'
  PROVE  Moves'
<1>0. /\ rows \in [Ids -> Row] /\ DirtyOK(dirty) /\ ReqsOK(req) /\ nextId \in 1..(IdMax + 1)
      /\ IdMax \in Nat
      /\ \A c \in Admin : ReqType(req[c])
  BY TypeParts, ChannelConstants DEF ReqsOK
<1>1. \A c \in Admin : Fine(req[c], dirty[c])
  BY DEF Moves, Fine
<1>2. SUFFICES ASSUME NEW c \in Admin PROVE Fine(req[c], dirty[c])'
  BY DEF Moves, Fine
<1>3. \A a \in Admin : \A r :
        LET q == [req EXCEPT ![a] = r]
        IN q[a] = r /\ \A b \in Admin \ {a} : q[b] = req[b]
  BY <1>0 DEF ReqsOK
<1>4. \A a \in Admin : \A w :
        LET d == [dirty EXCEPT ![a] = w]
        IN d[a] = w /\ \A b \in Admin \ {a} : d[b] = dirty[b]
  BY <1>0 DEF DirtyOK
<1>5. CASE req'[c] = req[c] /\ dirty'[c] = dirty[c]
  <2>1. ASSUME NEW r, r = req[c], NEW d, d = dirty[c] PROVE Fine(req[c], dirty[c])'
    <3>1. Fine(r, d)
      BY <1>1, <2>1
    <3>2. ReqType(r)
      BY <1>0, <2>1
    <3>3. Fine(r, d)'
      BY <3>1, <3>2, FineKept
    <3> QED
      BY <1>5, <2>1, <3>3, FinePrimed
  <2> QED
    BY <2>1
<1>6. CASE req'[c].before = 0 /\ req'[c].pc # "movelist"
  BY <1>6 DEF Fine, Moving
<1>7. ASSUME Begin(c) PROVE Fine(req[c], dirty[c])'
  <2>1. PICK i \in Known :
          \/ \E n \in Name : Request(c, [Idle EXCEPT !.pc = "rename", !.id = i, !.name = n])
          \/ \E j \in (Known \cup {0}) \ {i} :
               Request(c, [Idle EXCEPT !.pc = "movelist", !.id = i, !.before = j])
          \/ \E purge \in BOOLEAN : Request(c, [Idle EXCEPT !.pc = "name", !.id = i, !.purge = purge])
    BY <1>7 DEF Begin
  <2>2. CASE \E j \in (Known \cup {0}) \ {i} :
               Request(c, [Idle EXCEPT !.pc = "movelist", !.id = i, !.before = j])
    <3>1. PICK j \in (Known \cup {0}) \ {i} :
            Request(c, [Idle EXCEPT !.pc = "movelist", !.id = i, !.before = j])
      BY <2>2
    <3>2. i < nextId /\ j < nextId /\ j # i
      <4>1. nextId \in Nat \ {0}
        BY <1>0
      <4>2. i \in Known /\ j \in Known \cup {0} /\ j # i
        BY <2>1, <3>1
      <4>3. \A x \in Known : x < nextId
        BY <4>1 DEF Known
      <4> QED
        BY <4>1, <4>2, <4>3
    <3>3. req'[c] = [Idle EXCEPT !.pc = "movelist", !.id = i, !.before = j] /\ nextId' = nextId
      BY <1>3, <3>1 DEF Request
    <3>4. /\ req'[c].pc = "movelist" /\ req'[c].id = i /\ req'[c].before = j
          /\ req'[c].at = 1
      BY <3>3 DEF Idle
    <3> QED
      BY <3>2, <3>3, <3>4 DEF Fine, Moving
  <2>3. CASE \E n \in Name : Request(c, [Idle EXCEPT !.pc = "rename", !.id = i, !.name = n])
    <3>1. req'[c].before = 0 /\ req'[c].pc = "rename"
      BY <1>3, <2>3 DEF Request, Idle
    <3> QED
      BY <1>6, <3>1
  <2>4. CASE \E p \in BOOLEAN : Request(c, [Idle EXCEPT !.pc = "name", !.id = i, !.purge = p])
    <3>1. req'[c].before = 0 /\ req'[c].pc = "name"
      BY <1>3, <2>4 DEF Request, Idle
    <3> QED
      BY <1>6, <3>1
  <2> QED
    BY <2>1, <2>2, <2>3, <2>4
<1>8. ASSUME ListForMove(c) PROVE Fine(req[c], dirty[c])'
  <2>1. PICK s \in Sorted(rows) :
          req' = [req EXCEPT ![c].pc = "update", ![c].list = Move(s, req[c].id, req[c].before)]
    BY <1>8 DEF ListForMove
  <2> DEFINE m == Move(s, req[c].id, req[c].before)
  <2>2. /\ s \in Seq(Ids) /\ Once(s)
        /\ \A p \in DOMAIN s : s[p] \in Ids /\ rows[s[p]] # NoRow
        /\ \A i \in Ids : rows[i] # NoRow => \E p \in DOMAIN s : s[p] = i
    BY <1>0, <2>1, SortedFacts DEF Once
  <2>3. req[c].id \in Ids /\ req[c].pc = "movelist" /\ req[c].before \in Nat
    BY <1>0, <1>8 DEF ListForMove, ReqType
  <2>4. /\ m \in Seq(Ids) /\ Once(m)
        /\ \E p \in DOMAIN m : m[p] = req[c].id
        /\ \A p \in DOMAIN m : m[p] = req[c].id \/ \E q \in DOMAIN s : s[q] = m[p]
        /\ req[c].before # req[c].id /\ (\E q \in DOMAIN s : s[q] = req[c].before) =>
             \E p, q \in DOMAIN m : p < q /\ m[p] = req[c].id /\ m[q] = req[c].before
    <3>1. Moved(m, s, req[c].id, req[c].before)
      BY <2>2, <2>3, MoveFacts
    <3> QED
      BY <3>1 DEF Moved
  <2> HIDE DEF m
  <2>5. /\ req[c].at = 1 /\ req[c].id < nextId /\ req[c].before < nextId
        /\ req[c].before # req[c].id
    BY <1>1, <2>3 DEF Fine
  <2>6. req'[c] = [req[c] EXCEPT !.pc = "update", !.list = m] /\ UNCHANGED <<rows, nextId, dirty>>
    <3>1. req' = [req EXCEPT ![c] = [req[c] EXCEPT !.pc = "update", !.list = m]]
      BY <2>1 DEF m
    <3> QED
      BY <1>3, <1>8, <3>1 DEF ListForMove
  <2>7. /\ req'[c].pc = "update" /\ req'[c].list = m /\ req'[c].at = 1
        /\ req'[c].id = req[c].id /\ req'[c].before = req[c].before
    BY <1>0, <2>5, <2>6 DEF ReqType
  <2>8. dirty'[c] = NoWrites /\ DOMAIN NoWrites = {}
    BY <2>3, <2>6 DEF Locks, NoWrites
  <2>9. \A p \in DOMAIN m : m[p] < nextId /\ ~(p < 1)
    <3>1. \A q \in DOMAIN s : s[q] < nextId
      BY <2>2 DEF Issued, Live
    <3>2. \A p \in DOMAIN m : ~(p < 1)
      BY <2>4
    <3> QED
      BY <2>4, <2>5, <3>1, <3>2
  <2>10. CASE req[c].before = 0
    BY <2>7, <2>10 DEF Fine, Moving
  <2>11. CASE req[c].before # 0
    <3>1. req[c].before \in Ids
      BY <1>0, <2>3, <2>5, <2>11 DEF Ids
    <3>2. \/ Gone(req[c].before)
          \/ \E p, q \in DOMAIN m : p < q /\ m[p] = req[c].id /\ m[q] = req[c].before
      BY <2>2, <2>4, <2>5, <3>1 DEF Gone
    <3>3. Writes(req[c], dirty[c])'
      BY <2>4, <2>6, <2>7, <2>8, <2>9, <3>2 DEF Writes, Gone, Once
    <3> QED
      BY <2>7, <3>3 DEF Fine
  <2> QED
    BY <2>10, <2>11
<1>9. ASSUME UpdateOrder(c) PROVE Fine(req[c], dirty[c])'
  <2> DEFINE k == req[c].at
             i == req[c].list[k]
  <2>1. /\ req[c].pc = "update" /\ k \in Nat \ {0} /\ k \in DOMAIN req[c].list /\ i \in Ids
        /\ req[c].list \in Seq(Ids)
    BY <1>0, <1>9 DEF UpdateOrder, ReqType
  <2>2. req'[c] = [req[c] EXCEPT !.at = k + 1] /\ UNCHANGED <<rows, nextId>>
    BY <1>3, <1>9 DEF UpdateOrder
  <2>3. /\ req'[c].pc = "update" /\ req'[c].list = req[c].list /\ req'[c].at = k + 1
        /\ req'[c].id = req[c].id /\ req'[c].before = req[c].before
    BY <1>0, <2>1, <2>2 DEF ReqType
  <2>4. CASE req[c].before = 0
    BY <2>3, <2>4 DEF Fine, Moving
  <2>5. CASE req[c].before # 0
    <3>1. Writes(req[c], dirty[c])
      BY <1>1, <2>1, <2>5 DEF Fine, Moving
    <3>2. \A p \in DOMAIN req[c].list : p < k + 1 <=> p < k \/ p = k
      BY <2>1
    <3>3. CASE View(c)[i] = NoRow
      <4>1. i \notin DOMAIN dirty[c] /\ rows[i] = NoRow
        BY <2>1, <3>1, <3>3, ViewType DEF Writes
      <4>2. Gone(i) /\ dirty' = dirty
        BY <1>9, <2>1, <3>1, <3>3, <4>1 DEF Gone, UpdateOrder, Writes
      <4>3. Writes(req[c], dirty[c])'
        BY <2>2, <2>3, <3>1, <3>2, <4>2 DEF Writes, Gone
      <4> QED
        BY <2>3, <4>3 DEF Fine
    <3>4. CASE View(c)[i] # NoRow
      <4> DEFINE r == [View(c)[i] EXCEPT !.order = k]
      <4>1. r # NoRow /\ r.order = k
        <5>1. View(c)[i] \in Row
          BY <2>1, ViewType
        <5> QED
          BY <2>1, <3>4, <5>1, RowExcept
      <4>2. dirty'[c] = Write(dirty[c], i, r)
        <5>1. dirty' = [dirty EXCEPT ![c] = Write(dirty[c], i, r)]
          BY <1>9, <3>4 DEF UpdateOrder
        <5> HIDE DEF r
        <5> QED
          BY <1>4, <5>1
      <4> HIDE DEF r
      <4>3. /\ DOMAIN dirty'[c] = {i} \cup DOMAIN dirty[c] /\ dirty'[c][i] = r
            /\ \A j \in DOMAIN dirty[c] : j # i => dirty'[c][j] = dirty[c][j]
        BY <4>2 DEF Write
      <4>4. \A j \in DOMAIN dirty'[c] : dirty'[c][j] # NoRow
        BY <3>1, <4>1, <4>3 DEF Writes
      <4>5. \A p \in DOMAIN req[c].list :
               p < k + 1 => \/ Gone(req[c].list[p])
                            \/ /\ req[c].list[p] \in DOMAIN dirty'[c]
                               /\ dirty'[c][req[c].list[p]].order = p
        <5> SUFFICES ASSUME NEW p \in DOMAIN req[c].list, p < k + 1, ~Gone(req[c].list[p])
                     PROVE  /\ req[c].list[p] \in DOMAIN dirty'[c]
                            /\ dirty'[c][req[c].list[p]].order = p
          OBVIOUS
        <5>1. CASE p = k
          BY <4>1, <4>3, <5>1
        <5>2. CASE p # k
          <6>1. p < k
            BY <3>2, <5>2
          <6>2. req[c].list[p] # i
            BY <2>1, <3>1, <5>2 DEF Writes
          <6>3. req[c].list[p] \in DOMAIN dirty[c] /\ dirty[c][req[c].list[p]].order = p
            BY <3>1, <6>1 DEF Writes
          <6> QED
            BY <4>3, <6>2, <6>3
        <5> QED
          BY <5>1, <5>2
      <4>6. Writes(req[c], dirty[c])'
        BY <2>2, <2>3, <3>1, <4>4, <4>5, SMTT(30) DEF Writes, Gone
      <4> QED
        BY <2>3, <4>6 DEF Fine
    <3> QED
      BY <3>3, <3>4
  <2> QED
    BY <2>4, <2>5
<1>10. ASSUME NEW a \in Admin, SelectMax(a) \/ Begin(a) \/ Step(a) \/ Rollback(a), a # c
       PROVE  req'[c] = req[c] /\ dirty'[c] = dirty[c]
  BY <1>0, <1>10 DEF SelectMax, Begin, Request, Step, InsertChannel, UpdateChannel, ListForMove, UpdateOrder,
         Commit, SelectName, DeleteRow, RemoveMessagesByChannel, ListForRemove, Rollback, ReqsOK, DirtyOK
<1>11. ASSUME SelectMax(c) \/ InsertChannel(c) \/ UpdateChannel(c) \/ Commit(c) \/ Rollback(c)
       PROVE  req'[c].before = 0 /\ req'[c].pc # "movelist"
  <2>1. Idle.before = 0 /\ Idle.pc # "movelist"
    BY ReqFacts
  <2>2. CASE SelectMax(c)
    <3>1. PICK n \in Name : req' = [req EXCEPT ![c] = [Idle EXCEPT !.pc = "insert", !.name = n,
                                                                   !.max = MaxOrder]]
      BY <2>2 DEF SelectMax
    <3>2. req'[c] = [Idle EXCEPT !.pc = "insert", !.name = n, !.max = MaxOrder]
      BY <1>3, <3>1
    <3> QED
      BY <3>2 DEF Idle
  <2>3. CASE InsertChannel(c) \/ UpdateChannel(c) \/ Commit(c) \/ Rollback(c)
    <3>1. req' = [req EXCEPT ![c] = Idle]
      BY <2>3 DEF InsertChannel, UpdateChannel, Commit, Rollback
    <3>2. req'[c] = Idle
      BY <1>3, <3>1
    <3> QED
      BY <2>1, <3>2
  <2> QED
    BY <1>11, <2>2, <2>3
<1>12. ASSUME SelectName(c) \/ DeleteRow(c) \/ RemoveMessagesByChannel(c) \/ ListForRemove(c)
       PROVE  req'[c].before = 0 /\ req'[c].pc # "movelist"
  <2>1. req[c].before = 0 /\ ReqType(req[c])
    BY <1>0, <1>1, <1>12 DEF Fine, SelectName, DeleteRow, RemoveMessagesByChannel, ListForRemove
  <2>2. Idle.before = 0 /\ Idle.pc # "movelist"
    BY ReqFacts
  <2>3. CASE SelectName(c)
    <3> DEFINE n == rows[req[c].id].name
    <3> HIDE DEF n
    <3>1. req'[c] = Idle \/ req'[c] = [req[c] EXCEPT !.pc = "delete", !.name = n]
      <4>1. \/ req' = [req EXCEPT ![c] = Idle]
            \/ req' = [req EXCEPT ![c] = [req[c] EXCEPT !.pc = "delete", !.name = n]]
        BY <2>3 DEF SelectName, n
      <4> QED
        BY <1>3, <4>1
    <3> QED
      BY <2>1, <2>2, <3>1 DEF ReqType
  <2>4. CASE DeleteRow(c)
    <3>1. \E p \in {"purge", "list"} : req'[c] = [req[c] EXCEPT !.pc = p]
      BY <1>3, <2>4 DEF DeleteRow
    <3> QED
      BY <2>1, <3>1 DEF ReqType
  <2>5. CASE RemoveMessagesByChannel(c)
    <3>1. req'[c] = [req[c] EXCEPT !.pc = "list"]
      BY <1>3, <2>5 DEF RemoveMessagesByChannel
    <3> QED
      BY <2>1, <3>1 DEF ReqType
  <2>6. CASE ListForRemove(c)
    <3>1. PICK s \in Sorted(View(c)) :
            req' = [req EXCEPT ![c] = [req[c] EXCEPT !.pc = "update", !.list = s]]
      BY <2>6 DEF ListForRemove
    <3>2. req'[c] = [req[c] EXCEPT !.pc = "update", !.list = s]
      BY <1>3, <3>1
    <3> QED
      BY <2>1, <3>2 DEF ReqType
  <2> QED
    BY <1>12, <2>3, <2>4, <2>5, <2>6
<1>13. CASE FileMessage
  BY <1>5, <1>13 DEF FileMessage
<1>14. ASSUME SelectMax(c) \/ Begin(c) \/ Step(c) \/ Rollback(c) PROVE Fine(req[c], dirty[c])'
  BY <1>6, <1>7, <1>8, <1>9, <1>11, <1>12, <1>14 DEF Step
<1> QED
  BY <1>5, <1>10, <1>13, <1>14 DEF Next

\* Every variable keeps to its type, and the reason why moves and removals do
\* what they say (Locks, Issued, Moves) holds, whatever requests run at once.
THEOREM Invariant == Spec => [](TypeOK /\ MoveInv)
<1>1. Init => TypeOK /\ MoveInv
  <2>1. Init => Locks /\ Issued
    BY DEF Init, Locks, Issued, Live, NoWrites
  <2>2. Init => Moves
    BY ReqFacts DEF Init, Moves, Moving
  <2> QED
    BY <2>1, <2>2, TypeInit DEF MoveInv
<1>2. TypeOK /\ MoveInv /\ [Next]_vars => (TypeOK /\ MoveInv)'
  <2> SUFFICES ASSUME TypeOK, MoveInv, [Next]_vars PROVE (TypeOK /\ MoveInv)'
    OBVIOUS
  <2>1. CASE Next
    <3>1. TypeOK' /\ Locks'
      BY <2>1, TypeStep, LocksStep DEF MoveInv
    <3>2. Issued'
      <4>1. \A i \in Ids : rows'[i] # NoRow => i < nextId'
        BY <2>1, RowsStay DEF MoveInv
      <4> QED
        BY <4>1 DEF Issued, Live
    <3> QED
      BY <2>1, <3>1, <3>2, MovesStep DEF MoveInv
  <2>2. CASE UNCHANGED vars
    BY <2>2 DEF vars, TypeOK, MoveInv, Locks, Issued, Live, Moves, Moving, Writes, Gone
  <2> QED
    BY <2>1, <2>2
<1> QED
  BY <1>1, <1>2, PTL DEF Spec

THEOREM TypeCorrect == Spec => []TypeOK
  BY Invariant, PTL

\* The table never gets back a channel that was removed, whatever other requests
\* (also a move that listed it before) do meanwhile.
THEOREM RemovedNeverReturns == Spec => RemovedStays
<1>1. TypeOK /\ MoveInv /\ [Next]_vars
      => [\A i \in 1..(nextId - 1) : rows[i] = NoRow => rows'[i] = NoRow]_vars
  <2> SUFFICES ASSUME TypeOK, MoveInv, Next,
                      NEW i \in 1..(nextId - 1), rows[i] = NoRow
               PROVE  rows'[i] = NoRow
    OBVIOUS
  <2>1. i \in Ids /\ i < nextId
    BY ChannelConstants DEF TypeOK, Ids
  <2> QED
    BY <2>1, RowsStay DEF MoveInv, Gone
<1> QED
  BY <1>1, Invariant, PTL DEF Spec, RemovedStays

\* A move that commits leaves its channel before its target, if both are there,
\* whatever other requests did between its statements.
THEOREM MoveLands == Spec => MovedBefore
<1>1. TypeOK /\ MoveInv /\ [Next]_vars
      => [\A a \in Admin :
            (/\ Commit(a) /\ req[a].before # 0
             /\ {req[a].id, req[a].before} \subseteq Live(rows'))
            => rows'[req[a].id].order < rows'[req[a].before].order]_vars
  <2> SUFFICES ASSUME TypeOK, MoveInv, Next, NEW a \in Admin, Commit(a), req[a].before # 0,
                      {req[a].id, req[a].before} \subseteq Live(rows')
               PROVE  rows'[req[a].id].order < rows'[req[a].before].order
    OBVIOUS
  <2> DEFINE list == req[a].list
             i == req[a].id
             j == req[a].before
  <2>1. Writes(req[a], dirty[a]) /\ ReqType(req[a])
    BY DEF MoveInv, Moves, Moving, Commit, TypeOK
  <2>2. i \in Ids /\ j \in Ids /\ rows'[i] # NoRow /\ rows'[j] # NoRow
    BY DEF Live
  <2>3. ~Gone(i) /\ ~Gone(j)
    BY <2>2, RowsStay DEF MoveInv
  <2>4. PICK p \in DOMAIN list, q \in DOMAIN list : p < q /\ list[p] = i /\ list[q] = j
    BY <2>1, <2>3 DEF Writes
  <2>5. \A k \in DOMAIN list : k < req[a].at
    <3>1. list \in Seq(Ids) /\ req[a].at \in Nat /\ req[a].at > Len(list)
      BY <2>1 DEF Commit, ReqType
    <3> QED
      BY <3>1
  <2>6. i \in DOMAIN dirty[a] /\ dirty[a][i].order = p /\ j \in DOMAIN dirty[a] /\ dirty[a][j].order = q
    BY <2>1, <2>3, <2>4, <2>5 DEF Writes
  <2>7. rows'[i] = dirty[a][i] /\ rows'[j] = dirty[a][j]
    BY <2>2, <2>6, ViewType DEF Commit
  <2> QED
    BY <2>4, <2>6, <2>7
<1> QED
  BY <1>1, Invariant, PTL DEF Spec, MovedBefore

-----------------------------------------------------------------------------
\* One request at a time: the request r, having written d over the table t and
\* deleted the messages w.

ViewOf(t, d) == [i \in Ids |-> IF i \in DOMAIN d THEN d[i] ELSE t[i]]

Apart(t) ==
    /\ \A i, j \in Live(t) : i # j => t[i].order # t[j].order
    /\ \A i, j \in Live(t) : i # j => t[i].name # t[j].name

\* The sort_orders of v are those that r writes, as far as r has come.
Renumbers(v, r) ==
    /\ \A p, q \in DOMAIN r.list : r.list[p] = r.list[q] => p = q
    /\ \A i \in Live(v) : \E p \in DOMAIN r.list : r.list[p] = i
    /\ \A p \in DOMAIN r.list : p < r.at => r.list[p] \notin Live(v) \/ v[r.list[p]].order = p

Single(t, v, d, r, w) ==
    /\ \A i \in Live(v) : v[i].name = t[i].name
    /\ r.pc \notin {"purge", "list", "update"} => d = NoWrites
    /\ r.pc # "update" => r.at = 1
    /\ r.pc = "insert" => \A i \in Live(t) : t[i].order <= r.max
    /\ r.pc = "movelist" => r.name = NoName
    /\ r.pc = "delete" => t[r.id].name = r.name
    /\ r.pc = "update" => Renumbers(v, r)
    /\ r.pc \in {"purge", "list", "update"} /\ r.name # NoName =>
         \A i \in Live(v) : v[i].name # r.name
    /\ \A m \in w : r.pc \in {"list", "update"} /\ m.channel = r.name

LEMMA OneParts ==
  ASSUME NEW x, Admin = {x}
  PROVE  /\ OneInv <=> Apart(rows) /\ Single(rows, View(x), dirty[x], req[x], wiped[x])
         /\ OneInv' <=> Apart(rows') /\ Single(rows', View(x)', dirty'[x], req'[x], wiped'[x])
         /\ View(x) = ViewOf(rows, dirty[x]) /\ View(x)' = ViewOf(rows', dirty'[x])
<1>1. View(x) = ViewOf(rows, dirty[x]) /\ View(x)' = ViewOf(rows', dirty'[x])
  BY DEF View, ViewOf
<1>2. OneInv <=> Apart(rows) /\ Single(rows, View(x), dirty[x], req[x], wiped[x])
  BY DEF OneInv, DistinctOrders, Alone, Apart, Single, Renumbers
<1>3. OneInv' <=> Apart(rows') /\ Single(rows', View(x)', dirty'[x], req'[x], wiped'[x])
  BY DEF OneInv, DistinctOrders, Alone, Apart, Single, Renumbers, Live
<1> QED
  BY <1>1, <1>2, <1>3

\* A request that has written nothing sees the table.
LEMMA SeesTable ==
  ASSUME NEW t \in [Ids -> Row]
  PROVE  ViewOf(t, NoWrites) = t
BY DEF ViewOf, NoWrites

LEMMA SingleIdle ==
  ASSUME NEW t \in [Ids -> Row], NEW v, v = t
  PROVE  Single(t, v, NoWrites, Idle, {})
BY ReqFacts DEF Single

\* Every step keeps the channels apart, and a transaction's renumbering whole.
LEMMA OneStep ==
  ASSUME NEW x, Admin = {x}, TypeOK, OneInv, Next, TypeOK'
  PROVE  OneInv'
<1> DEFINE r == req[x]
           v == View(x)
<1>0. /\ rows \in [Ids -> Row] /\ DirtyOK(dirty) /\ ReqsOK(req) /\ x \in Admin
      /\ wiped \in [Admin -> SUBSET Filed] /\ Ids \in SUBSET Nat
      /\ ReqType(r) /\ v \in [Ids -> Row] /\ rows' \in [Ids -> Row]
  BY TypeParts, ViewType, IdsFinite DEF ReqsOK
<1>1. Apart(rows) /\ Single(rows, v, dirty[x], r, wiped[x])
  BY OneParts
<1>2. v = ViewOf(rows, dirty[x]) /\ View(x)' = ViewOf(rows', dirty'[x])
  BY OneParts
<1>3. ASSUME Apart(rows'), Single(rows', View(x)', dirty'[x], req'[x], wiped'[x]) PROVE OneInv'
  BY <1>3, OneParts
<1> HIDE DEF v
<1>4. \A q : [req EXCEPT ![x] = q][x] = q
  BY <1>0 DEF ReqsOK
<1>5. \A w : [dirty EXCEPT ![x] = w][x] = w
  BY <1>0 DEF DirtyOK
<1>6. \A w : [wiped EXCEPT ![x] = w][x] = w
  BY <1>0
\* Nothing is written yet.
<1>7. ASSUME r.pc \notin {"purge", "list", "update"}
      PROVE  dirty[x] = NoWrites /\ wiped[x] = {} /\ r.at = 1 /\ v = rows
  BY <1>0, <1>1, <1>2, <1>7, SeesTable DEF Single
<1>8. ASSUME dirty'[x] = NoWrites PROVE View(x)' = rows'
  BY <1>0, <1>2, <1>8, SeesTable
<1>9. CASE SelectMax(x)
  <2>1. PICK n \in Name : req' = [req EXCEPT ![x] = [Idle EXCEPT !.pc = "insert", !.name = n,
                                                                 !.max = MaxOrder]]
    BY <1>9 DEF SelectMax
  <2> DEFINE q == [Idle EXCEPT !.pc = "insert", !.name = n, !.max = MaxOrder]
  <2>2. req'[x] = q
    BY <1>4, <2>1
  <2>3. q.pc = "insert" /\ q.at = 1 /\ q.max = MaxOrder
    BY DEF Idle
  <2> HIDE DEF q
  <2>4. \A i \in Live(rows) : rows[i].order <= MaxOrder
    BY <1>0, MaxOrderFacts DEF MaxOrder
  <2>5. UNCHANGED <<rows, dirty, wiped>> /\ dirty[x] = NoWrites /\ wiped[x] = {}
    BY <1>7, <1>9 DEF SelectMax
  <2>6. View(x)' = rows'
    BY <1>8, <2>5
  <2> QED
    BY <1>1, <1>3, <2>2, <2>3, <2>4, <2>5, <2>6 DEF Single
<1>10. CASE Begin(x)
  <2>1. PICK i \in Known :
          \/ \E n \in Name : Request(x, [Idle EXCEPT !.pc = "rename", !.id = i, !.name = n])
          \/ \E j \in (Known \cup {0}) \ {i} :
               Request(x, [Idle EXCEPT !.pc = "movelist", !.id = i, !.before = j])
          \/ \E purge \in BOOLEAN : Request(x, [Idle EXCEPT !.pc = "name", !.id = i, !.purge = purge])
    BY <1>10 DEF Begin
  <2>2. PICK q : /\ Request(x, q) /\ q.at = 1
                 /\ q.pc \in {"rename", "movelist", "name"} /\ (q.pc = "movelist" => q.name = NoName)
    <3>1. ASSUME NEW n \in Name
          PROVE  LET q == [Idle EXCEPT !.pc = "rename", !.id = i, !.name = n]
                 IN q.at = 1 /\ q.pc = "rename"
      BY DEF Idle
    <3>2. ASSUME NEW j
          PROVE  LET q == [Idle EXCEPT !.pc = "movelist", !.id = i, !.before = j]
                 IN q.at = 1 /\ q.pc = "movelist" /\ q.name = NoName
      BY DEF Idle
    <3>3. ASSUME NEW purge
          PROVE  LET q == [Idle EXCEPT !.pc = "name", !.id = i, !.purge = purge]
                 IN q.at = 1 /\ q.pc = "name"
      BY DEF Idle
    <3> QED
      BY <2>1, <3>1, <3>2, <3>3
  <2>3. req'[x] = q /\ UNCHANGED <<rows, dirty, wiped>> /\ dirty[x] = NoWrites /\ wiped[x] = {}
    BY <1>4, <1>7, <2>2 DEF Request
  <2>4. View(x)' = rows'
    BY <1>8, <2>3
  <2> QED
    BY <1>1, <1>3, <2>2, <2>3, <2>4 DEF Single
<1>11. ASSUME req'[x] = Idle, dirty'[x] = NoWrites, wiped'[x] = {}, Apart(rows') PROVE OneInv'
  <2>1. View(x)' = rows'
    BY <1>8, <1>11
  <2>2. Single(rows', View(x)', NoWrites, Idle, {})
    BY <1>0, <2>1, SingleIdle
  <2> QED
    BY <1>3, <1>11, <2>2
<1>12. CASE InsertChannel(x)
  <2>1. req'[x] = Idle /\ dirty'[x] = NoWrites /\ wiped'[x] = {}
    BY <1>4, <1>7, <1>12 DEF InsertChannel
  <2>2. CASE rows' = rows
    BY <1>1, <1>11, <2>1, <2>2
  <2>3. CASE ~Taken(r.name) /\ rows' = [rows EXCEPT ![nextId] = [name |-> r.name, order |-> r.max + 1]]
    <3>1. /\ \A i \in Live(rows) : rows[i].order <= r.max /\ rows[i].order \in Nat
          /\ r.max \in Nat
      BY <1>0, <1>1, <1>12, RowType DEF Single, InsertChannel, ReqType, Live
    <3>2. \A i \in Ids : rows'[i] = IF i = nextId THEN [name |-> r.name, order |-> r.max + 1] ELSE rows[i]
      BY <1>0, <2>3
    <3>3. \A i \in Live(rows) : rows[i].order # r.max + 1 /\ rows[i].name # r.name
      <4>1. \A i \in Live(rows) : rows[i].order # r.max + 1
        BY <3>1
      <4> QED
        BY <2>3, <4>1 DEF Taken, Live
    <3>4. \A i \in Live(rows') : i = nextId \/ i \in Live(rows)
      BY <3>2 DEF Live
    <3>5. Apart(rows')
      <4> SUFFICES ASSUME NEW i \in Live(rows'), NEW j \in Live(rows'), i # j
                   PROVE  rows'[i].order # rows'[j].order /\ rows'[i].name # rows'[j].name
        BY DEF Apart
      <4>1. i \in Ids /\ j \in Ids
        BY DEF Live
      <4>2. CASE i = nextId
        BY <3>2, <3>3, <3>4, <4>1, <4>2
      <4>3. CASE j = nextId
        BY <3>2, <3>3, <3>4, <4>1, <4>3
      <4>4. CASE i # nextId /\ j # nextId
        BY <1>1, <3>2, <3>4, <4>1, <4>4 DEF Apart
      <4> QED
        BY <4>2, <4>3, <4>4
    <3> QED
      BY <1>11, <2>1, <3>5
  <2> QED
    BY <1>12, <2>2, <2>3 DEF InsertChannel
<1>13. CASE UpdateChannel(x)
  <2>1. req'[x] = Idle /\ dirty'[x] = NoWrites /\ wiped'[x] = {}
    BY <1>4, <1>7, <1>13 DEF UpdateChannel
  <2>2. CASE rows' = rows
    BY <1>1, <1>11, <2>1, <2>2
  <2>3. CASE rows[r.id] # NoRow /\ ~Taken(r.name) /\ rows' = [rows EXCEPT ![r.id].name = r.name]
    <3>1. r.id \in Ids /\ r.name \in Name
      BY <1>0, <1>13 DEF UpdateChannel, ReqType
    <3>2. LET q == [rows[r.id] EXCEPT !.name = r.name]
          IN q # NoRow /\ q.name = r.name /\ q.order = rows[r.id].order
      BY <1>0, <2>3, <3>1, RowExcept
    <3>3. /\ rows'[r.id].name = r.name /\ rows'[r.id].order = rows[r.id].order
          /\ \A i \in Ids : i # r.id => rows'[i] = rows[i]
      BY <1>0, <2>3, <3>1, <3>2
    <3>4. Live(rows') \subseteq Live(rows)
      BY <2>3, <3>3 DEF Live
    <3>5. \A i \in Live(rows) : rows[i].name # r.name
      BY <2>3 DEF Taken, Live
    <3>6. Apart(rows')
      <4> SUFFICES ASSUME NEW i \in Live(rows'), NEW j \in Live(rows'), i # j
                   PROVE  rows'[i].order # rows'[j].order /\ rows'[i].name # rows'[j].name
        BY DEF Apart
      <4>1. i \in Ids /\ j \in Ids /\ i \in Live(rows) /\ j \in Live(rows)
        BY <3>4 DEF Live
      <4>2. rows[i].order # rows[j].order /\ rows[i].name # rows[j].name
        BY <1>1, <4>1 DEF Apart
      <4>3. rows'[i].order = rows[i].order /\ rows'[j].order = rows[j].order
        BY <3>3, <4>1
      <4>4. rows'[i].name # rows'[j].name
        BY <3>3, <3>5, <4>1, <4>2
      <4> QED
        BY <4>2, <4>3, <4>4
    <3> QED
      BY <1>11, <2>1, <3>6
  <2> QED
    BY <1>13, <2>2, <2>3 DEF UpdateChannel
<1>14. CASE ListForMove(x)
  <2>1. PICK s \in Sorted(rows) :
          req' = [req EXCEPT ![x].pc = "update", ![x].list = Move(s, r.id, r.before)]
    BY <1>14 DEF ListForMove
  <2> DEFINE m == Move(s, r.id, r.before)
  <2>2. /\ s \in Seq(Ids) /\ Once(s)
        /\ \A i \in Ids : rows[i] # NoRow => \E p \in DOMAIN s : s[p] = i
    BY <1>0, <2>1, SortedFacts DEF Once
  <2>3. r.id \in Ids /\ r.pc = "movelist"
    BY <1>0, <1>14 DEF ListForMove, ReqType
  <2>4. /\ m \in Seq(Ids) /\ Once(m)
        /\ \A q \in DOMAIN s : \E p \in DOMAIN m : m[p] = s[q]
    <3>1. Moved(m, s, r.id, r.before)
      BY <2>2, <2>3, MoveFacts
    <3> QED
      BY <3>1 DEF Moved
  <2> HIDE DEF m
  <2>5. req'[x] = [r EXCEPT !.pc = "update", !.list = m]
    <3>1. req' = [req EXCEPT ![x] = [req[x] EXCEPT !.pc = "update", !.list = m]]
      BY <2>1 DEF m
    <3> QED
      BY <1>4, <3>1
  <2>6. UNCHANGED <<rows, dirty, wiped>> /\ dirty[x] = NoWrites /\ wiped[x] = {} /\ r.name = NoName
        /\ r.at = 1
    BY <1>1, <1>7, <1>14, <2>3 DEF ListForMove, Single
  <2>7. /\ req'[x].pc = "update" /\ req'[x].list = m /\ req'[x].at = 1 /\ req'[x].name = NoName
    BY <1>0, <2>5, <2>6 DEF ReqType
  <2>8. View(x)' = rows'
    BY <1>8, <2>6
  <2>9. \A p \in DOMAIN m : ~(p < 1)
    BY <2>4
  <2>10. \A i \in Live(rows) : \E p \in DOMAIN m : m[p] = i
    BY <2>2, <2>4 DEF Live
  <2>11. Renumbers(rows, req'[x])
    BY <2>4, <2>7, <2>9, <2>10 DEF Renumbers, Once
  <2> QED
    BY <1>1, <1>3, <2>6, <2>7, <2>8, <2>11 DEF Single
<1>15. CASE UpdateOrder(x)
  <2> DEFINE k == r.at
             i == r.list[k]
  <2>1. /\ r.pc = "update" /\ k \in Nat \ {0} /\ k \in DOMAIN r.list /\ i \in Ids
        /\ r.list \in Seq(Ids)
    BY <1>0, <1>15 DEF UpdateOrder, ReqType
  <2>2. req'[x] = [r EXCEPT !.at = k + 1] /\ UNCHANGED <<rows, wiped>>
    BY <1>4, <1>15 DEF UpdateOrder
  <2>3. /\ req'[x].pc = "update" /\ req'[x].list = r.list /\ req'[x].at = k + 1
        /\ req'[x].name = r.name
    BY <1>0, <2>1, <2>2 DEF ReqType
  <2>4. Renumbers(v, r)
    BY <1>1, <2>1 DEF Single
  <2>5. \A p \in DOMAIN r.list : p < k + 1 <=> p < k \/ p = k
    BY <2>1
  <2>6. CASE v[i] = NoRow
    <3>1. dirty' = dirty
      BY <1>15, <2>6 DEF UpdateOrder, v
    <3>2. View(x)' = v
      BY <1>2, <2>2, <3>1
    <3>3. Renumbers(v, req'[x])
      BY <2>3, <2>4, <2>5, <2>6 DEF Renumbers, Live
    <3> QED
      BY <1>1, <1>3, <2>1, <2>2, <2>3, <3>1, <3>2, <3>3 DEF Single
  <2>7. CASE v[i] # NoRow
    <3> DEFINE q == [v[i] EXCEPT !.order = k]
    <3>1. q # NoRow /\ q.order = k /\ q.name = v[i].name
      <4>1. v[i] \in Row /\ k \in Nat
        BY <1>0, <2>1
      <4> QED
        BY <2>7, <4>1, RowExcept
    <3>2. dirty'[x] = Write(dirty[x], i, q)
      <4>1. dirty' = [dirty EXCEPT ![x] = Write(dirty[x], i, q)]
        BY <1>15, <2>7 DEF UpdateOrder, v
      <4> QED
        BY <1>5, <4>1
    <3> HIDE DEF q
    <3>3. DOMAIN dirty'[x] = {i} \cup DOMAIN dirty[x]
          /\ \A j \in DOMAIN dirty'[x] : dirty'[x][j] = IF j = i THEN q ELSE dirty[x][j]
      BY <3>2 DEF Write
    <3> DEFINE u == View(x)'
    <3>4. \A j \in Ids : u[j] = IF j = i THEN q ELSE v[j]
      BY <1>2, <2>2, <3>3 DEF ViewOf
    <3> HIDE DEF u
    <3>5. Live(u) = Live(v) /\ \A j \in Live(u) : u[j].name = v[j].name
      BY <2>1, <2>7, <3>1, <3>4 DEF Live
    <3>6. Renumbers(u, req'[x])
      <4>1. ASSUME NEW p \in DOMAIN r.list, p < k + 1, r.list[p] \in Live(v)
            PROVE  u[r.list[p]].order = p
        <5>1. CASE p = k
          BY <2>1, <3>1, <3>4, <5>1
        <5>2. CASE p # k
          <6>1. p < k
            BY <2>5, <4>1, <5>2
          <6>2. r.list[p] # i
            BY <2>1, <2>4, <5>2 DEF Renumbers
          <6>3. v[r.list[p]].order = p
            BY <2>4, <4>1, <6>1 DEF Renumbers
          <6> QED
            BY <3>4, <4>1, <6>2, <6>3 DEF Live
        <5> QED
          BY <5>1, <5>2
      <4> QED
        BY <2>3, <2>4, <3>5, <4>1 DEF Renumbers
    <3>7. Single(rows', u, dirty'[x], req'[x], wiped'[x])
      BY <1>1, <2>1, <2>2, <2>3, <3>5, <3>6 DEF Single
    <3> QED
      BY <1>1, <1>3, <2>2, <3>7 DEF u
  <2> QED
    BY <2>6, <2>7
<1>16. CASE Commit(x)
  <2>1. req'[x] = Idle /\ dirty'[x] = NoWrites /\ wiped'[x] = {} /\ rows' = v /\ r.pc = "update"
    BY <1>4, <1>5, <1>6, <1>16 DEF Commit, v
  <2>2. \A p \in DOMAIN r.list : p < r.at
    <3>1. r.list \in Seq(Ids) /\ r.at \in Nat /\ r.at > Len(r.list)
      BY <1>0, <1>16 DEF Commit, ReqType
    <3> QED
      BY <3>1
  <2>3. \A i \in Live(v) : \E p \in DOMAIN r.list : r.list[p] = i /\ v[i].order = p
    BY <1>1, <2>1, <2>2 DEF Single, Renumbers
  <2>4. \A i \in Live(v) : i \in Live(rows) /\ v[i].name = rows[i].name
    <3>1. \A i \in Live(v) : v[i].name = rows[i].name /\ v[i].name \in Name /\ i \in Ids
      BY <1>0, <1>1, RowType DEF Single, Live
    <3>2. NoRow.name \notin Name
      BY ChannelConstants DEF NoRow
    <3> QED
      BY <3>1, <3>2 DEF Live
  <2>5. \A i, j \in Live(v) : i # j => v[i].order # v[j].order
    BY <2>3
  <2>6. \A i, j \in Live(v) : i # j => v[i].name # v[j].name
    BY <1>1, <2>4 DEF Apart
  <2> QED
    BY <1>11, <2>1, <2>5, <2>6 DEF Apart
<1>17. CASE SelectName(x)
  <2>1. UNCHANGED <<rows, dirty, wiped>> /\ dirty[x] = NoWrites /\ wiped[x] = {} /\ r.at = 1
    BY <1>7, <1>17 DEF SelectName
  <2>2. CASE rows[r.id] = NoRow
    <3>1. req'[x] = Idle
      BY <1>4, <1>17, <2>2 DEF SelectName
    <3> QED
      BY <1>1, <1>11, <2>1, <3>1
  <2>3. CASE rows[r.id] # NoRow
    <3> DEFINE n == rows[r.id].name
    <3> HIDE DEF n
    <3>1. req' = [req EXCEPT ![x] = [r EXCEPT !.pc = "delete", !.name = n]]
      BY <1>17, <2>3 DEF SelectName, n
    <3>2. req'[x] = [r EXCEPT !.pc = "delete", !.name = n]
      BY <1>4, <3>1
    <3>3. req'[x].pc = "delete" /\ req'[x].name = n /\ req'[x].id = r.id /\ req'[x].at = 1
      BY <1>0, <2>1, <3>2 DEF ReqType
    <3>4. View(x)' = rows'
      BY <1>8, <2>1
    <3> QED
      BY <1>1, <1>3, <2>1, <3>3, <3>4 DEF Single, n
  <2> QED
    BY <2>2, <2>3
<1>18. CASE DeleteRow(x)
  <2>1. /\ r.pc = "delete" /\ r.id \in Ids /\ r.name \in Name
        /\ UNCHANGED <<rows, wiped>> /\ dirty[x] = NoWrites /\ wiped[x] = {} /\ r.at = 1
        /\ rows[r.id].name = r.name
    BY <1>0, <1>1, <1>7, <1>18 DEF DeleteRow, ReqType, Single
  <2>2. rows[r.id] # NoRow
    BY <2>1, ChannelConstants DEF NoRow
  <2>3. PICK p \in {"purge", "list"} : req' = [req EXCEPT ![x] = [r EXCEPT !.pc = p]]
    BY <1>18 DEF DeleteRow
  <2>4. req'[x] = [r EXCEPT !.pc = p]
    BY <1>4, <2>3
  <2>5. req'[x].pc = p /\ req'[x].name = r.name /\ req'[x].at = 1
    BY <1>0, <2>1, <2>4 DEF ReqType
  <2>6. dirty' = [dirty EXCEPT ![x] = Write(NoWrites, r.id, NoRow)]
    BY <1>18, <2>1, <2>2 DEF DeleteRow
  <2>7. dirty'[x] = Write(NoWrites, r.id, NoRow)
    BY <1>5, <2>6
  <2>8. DOMAIN dirty'[x] = {r.id} /\ dirty'[x][r.id] = NoRow
    BY <2>7 DEF Write, NoWrites
  <2> DEFINE u == View(x)'
  <2>9. \A j \in Ids : u[j] = IF j = r.id THEN NoRow ELSE rows[j]
    BY <1>2, <2>1, <2>8 DEF ViewOf
  <2> HIDE DEF u
  <2>10. \A j \in Live(u) : j # r.id /\ u[j] = rows[j] /\ j \in Live(rows)
    BY <2>9 DEF Live
  <2>11. \A j \in Live(u) : u[j].name # r.name
    BY <1>1, <2>1, <2>2, <2>10 DEF Apart, Live
  <2>12. Single(rows', u, dirty'[x], req'[x], wiped'[x])
    BY <2>1, <2>3, <2>5, <2>10, <2>11 DEF Single
  <2> QED
    BY <1>1, <1>3, <2>1, <2>12 DEF u
<1>19. CASE RemoveMessagesByChannel(x)
  <2>1. req' = [req EXCEPT ![x] = [r EXCEPT !.pc = "list"]]
    BY <1>19 DEF RemoveMessagesByChannel
  <2>2. req'[x] = [r EXCEPT !.pc = "list"]
    BY <1>4, <2>1
  <2>3. req'[x].pc = "list" /\ req'[x].name = r.name /\ req'[x].at = r.at
    BY <1>0, <2>2 DEF ReqType
  <2>4. UNCHANGED <<rows, dirty>> /\ r.pc = "purge" /\ \A m \in wiped'[x] : m.channel = r.name
    BY <1>0, <1>19 DEF RemoveMessagesByChannel
  <2>5. View(x)' = v
    BY <1>2, <2>4
  <2> QED
    BY <1>1, <1>3, <2>3, <2>4, <2>5 DEF Single
<1>20. CASE ListForRemove(x)
  <2>1. PICK s \in Sorted(v) :
          req' = [req EXCEPT ![x] = [r EXCEPT !.pc = "update", !.list = s]]
    BY <1>20 DEF ListForRemove, v
  <2>2. /\ s \in Seq(Ids) /\ Once(s)
        /\ \A i \in Ids : v[i] # NoRow => \E p \in DOMAIN s : s[p] = i
    BY <1>0, <2>1, SortedFacts DEF Once
  <2>3. req'[x] = [r EXCEPT !.pc = "update", !.list = s]
    BY <1>4, <2>1
  <2>4. UNCHANGED <<rows, dirty, wiped>> /\ r.pc = "list" /\ r.at = 1
    BY <1>1, <1>20 DEF ListForRemove, Single
  <2>5. /\ req'[x].pc = "update" /\ req'[x].list = s /\ req'[x].at = 1 /\ req'[x].name = r.name
    BY <1>0, <2>3, <2>4 DEF ReqType
  <2>6. View(x)' = v
    BY <1>2, <2>4
  <2>7. \A p \in DOMAIN s : ~(p < 1)
    BY <2>2
  <2>8. Renumbers(v, req'[x])
    BY <2>2, <2>5, <2>7 DEF Renumbers, Once, Live
  <2> QED
    BY <1>1, <1>3, <2>4, <2>5, <2>6, <2>8 DEF Single
<1>21. CASE Rollback(x)
  <2>1. req'[x] = Idle /\ dirty'[x] = NoWrites /\ wiped'[x] = {} /\ rows' = rows
    BY <1>4, <1>5, <1>6, <1>21 DEF Rollback
  <2> QED
    BY <1>1, <1>11, <2>1
<1>22. CASE FileMessage
  <2>1. UNCHANGED <<rows, dirty, req, wiped>>
    BY <1>22 DEF FileMessage
  <2>2. View(x)' = v
    BY <1>2, <2>1
  <2> QED
    BY <1>1, <1>3, <2>1, <2>2
<1>23. \/ FileMessage
       \/ SelectMax(x) \/ Begin(x) \/ Step(x) \/ Rollback(x)
  <2>1. \A a \in Admin : a = x
    OBVIOUS
  <2> QED
    BY <2>1 DEF Next
<1> QED
  BY <1>9, <1>10, <1>12, <1>13, <1>14, <1>15, <1>16, <1>17, <1>18, <1>19, <1>20, <1>21, <1>22,
     <1>23 DEF Step

\* With one request at a time the channels have sort_orders and names of their
\* own, and a transaction's statements keep to one renumbering of them all.
THEOREM AloneInvariant ==
  ASSUME NEW x, Admin = {x}
  PROVE  Spec => [](TypeOK /\ OneInv)
<1>1. Init => TypeOK /\ OneInv
  <2> SUFFICES ASSUME Init PROVE TypeOK /\ OneInv
    OBVIOUS
  <2>1. TypeOK
    BY TypeInit
  <2>2. rows \in [Ids -> Row] /\ Live(rows) = {} /\ dirty[x] = NoWrites /\ req[x] = Idle /\ wiped[x] = {}
    BY <2>1 DEF Init, Live, TypeOK
  <2>3. Apart(rows)
    BY <2>2 DEF Apart
  <2>4. View(x) = rows
    BY <2>2, OneParts, SeesTable
  <2>5. Single(rows, View(x), dirty[x], req[x], wiped[x])
    BY <2>2, <2>4, SingleIdle
  <2> QED
    BY <2>1, <2>3, <2>5, OneParts
<1>2. TypeOK /\ OneInv /\ [Next]_vars => (TypeOK /\ OneInv)'
  <2> SUFFICES ASSUME TypeOK, OneInv, [Next]_vars PROVE (TypeOK /\ OneInv)'
    OBVIOUS
  <2>1. CASE Next
    BY <2>1, TypeStep, OneStep
  <2>2. CASE UNCHANGED vars
    <3>1. UNCHANGED <<rows, dirty, nextId, req, filed, wiped, requests>>
      BY <2>2 DEF vars
    <3>2. TypeOK'
      BY <3>1 DEF TypeOK
    <3>3. View(x)' = View(x)
      BY <3>1, OneParts
    <3> QED
      BY <3>1, <3>2, <3>3, OneParts
  <2> QED
    BY <2>1, <2>2
<1> QED
  BY <1>1, <1>2, PTL DEF Spec

\* With one request at a time no two channels ever share a sort_order: not while
\* one is added, and not when a move or a removal has renumbered them.
THEOREM OrdersApart ==
  ASSUME NEW x, Admin = {x}
  PROVE  Spec => []DistinctOrders
<1>1. OneInv => DistinctOrders
  BY DEF OneInv
<1> QED
  BY <1>1, AloneInvariant, PTL

\* With one request at a time a removal deletes only messages filed under a name
\* that no channel that stays has.
THEOREM OwnMessagesOnly ==
  ASSUME NEW x, Admin = {x}
  PROVE  Spec => PurgesOwnMessages
<1>1. TypeOK /\ OneInv /\ [Next]_vars
      => [\A m \in filed \ filed' : \A i \in Ids : rows'[i].name # m.channel]_vars
  <2> SUFFICES ASSUME TypeOK, OneInv, Next, NEW m \in filed \ filed', NEW i \in Ids
               PROVE  rows'[i].name # m.channel
    OBVIOUS
  <2>1. PICK a \in Admin : Commit(a)
    BY DEF Next, Step, SelectMax, Begin, Request, InsertChannel, UpdateChannel, ListForMove, UpdateOrder,
           SelectName, DeleteRow, RemoveMessagesByChannel, ListForRemove, Rollback, FileMessage
  <2>2. a = x
    OBVIOUS
  <2>3. m \in wiped[x] /\ rows' = View(x) /\ req[x].pc = "update"
    BY <2>1, <2>2 DEF Commit
  <2>4. m.channel = req[x].name /\ m.channel \in Name
    BY <2>2, <2>3 DEF OneInv, Alone, TypeOK, Filed
  <2>5. CASE View(x)[i] = NoRow
    BY <2>3, <2>4, <2>5, ChannelConstants DEF NoRow
  <2>6. CASE View(x)[i] # NoRow
    BY <2>2, <2>3, <2>4, <2>6, ChannelConstants DEF OneInv, Alone, Live
  <2> QED
    BY <2>5, <2>6
<1> QED
  BY <1>1, AloneInvariant, PTL DEF Spec, PurgesOwnMessages

-----------------------------------------------------------------------------
\* The one sorted list of a table.

\* A strict order on a finite set, a set of pairs, has a last element.
LEMMA LastExists ==
  ASSUME NEW S, IsFiniteSet(S), S # {}, NEW R,
         \A i \in S : <<i, i>> \notin R,
         \A i, j, k \in S : <<i, j>> \in R /\ <<j, k>> \in R => <<i, k>> \in R
  PROVE  \E m \in S : \A j \in S : <<m, j>> \notin R
<1> DEFINE above(i) == {j \in S : <<i, j>> \in R}
           T == {above(i) : i \in S}
<1>1. IsWellFoundedOn(StrictSubsetOrdering(S), SUBSET S)
  BY FS_FiniteSubsetsOfFinite, FS_StrictSubsetOrderingWellFounded, ZenonT(30)
<1>2. T \subseteq SUBSET S /\ T # {}
  <2>1. \A i \in S : above(i) \in SUBSET S /\ above(i) \in T
    OBVIOUS
  <2>2. \A x \in T : \E i \in S : x = above(i)
    OBVIOUS
  <2> HIDE DEF T, above
  <2> QED
    BY <2>1, <2>2
<1>3. PICK x \in T : \A y \in T : <<y, x>> \notin StrictSubsetOrdering(S)
  BY <1>1, <1>2, WFMin
<1>4. PICK m \in S : x = above(m)
  BY <1>3
<1>5. ASSUME NEW j \in S, <<m, j>> \in R PROVE FALSE
  <2>1. above(j) \subseteq above(m) /\ j \in above(m) /\ j \notin above(j)
    BY <1>5
  <2>2. above(j) \in SUBSET S /\ above(m) \in SUBSET S /\ above(j) # above(m)
    BY <2>1
  <2>3. <<above(j), above(m)>> \in StrictSubsetOrdering(S)
    BY <2>1, <2>2 DEF StrictSubsetOrdering
  <2> QED
    BY <1>3, <1>4, <2>3
<1> QED
  BY <1>5

LEMMA PrecedesFacts ==
  ASSUME NEW t \in [Ids -> Row]
  PROVE  /\ \A i \in Live(t) : ~Precedes(t, i, i)
         /\ \A i, j, k \in Live(t) : Precedes(t, i, j) /\ Precedes(t, j, k) => Precedes(t, i, k)
         /\ \A i, j \in Live(t) : i # j => Precedes(t, i, j) \/ Precedes(t, j, i)
<1>1. \A i \in Live(t) : i \in Nat /\ t[i].order \in Nat
  BY RowType, IdsFinite DEF Live
<1> QED
  BY <1>1 DEF Precedes

\* Any of the channels can be listed in order.
SortedPart(t, S) ==
    {s \in [1..Cardinality(S) -> S] : \A p, q \in DOMAIN s : p < q => Precedes(t, s[p], s[q])}

LEMMA PartExists ==
  ASSUME NEW t \in [Ids -> Row], NEW S \in SUBSET Live(t), S # {},
         \A V \in SUBSET S : V # S => SortedPart(t, V) # {}
  PROVE  SortedPart(t, S) # {}
<1> DEFINE R == {e \in S \X S : Precedes(t, e[1], e[2])}
           n == Cardinality(S)
<1>1. IsFiniteSet(S) /\ n \in Nat
  BY IdsFinite DEF Live
<1>2. \A i, j \in S : <<i, j>> \in R <=> Precedes(t, i, j)
  OBVIOUS
<1> HIDE DEF R
<1>3. PICK m \in S : \A j \in S : ~Precedes(t, m, j)
  <2>1. \A i \in S : <<i, i>> \notin R
    BY <1>2, PrecedesFacts
  <2>2. \A i, j, k \in S : <<i, j>> \in R /\ <<j, k>> \in R => <<i, k>> \in R
    BY <1>2, PrecedesFacts
  <2>3. \E m \in S : \A j \in S : <<m, j>> \notin R
    BY <1>1, <2>1, <2>2, LastExists
  <2> QED
    BY <1>2, <2>3
<1> DEFINE V == S \ {m}
<1>4. V \in SUBSET S /\ V # S
  OBVIOUS
<1>5. Cardinality(V) = n - 1 /\ n \in Nat \ {0}
  <2>1. Cardinality(V) = n - 1
    BY <1>1, FS_RemoveElement
  <2>2. Cardinality(V) \in Nat
    BY <1>1, <1>4, FS_Subset, FS_CardinalityType
  <2> QED
    BY <1>1, <2>1, <2>2
<1>6. PICK s : s \in SortedPart(t, V)
  BY <1>4
<1>7. s \in [1..(n - 1) -> V] /\ \A p, q \in 1..(n - 1) : p < q => Precedes(t, s[p], s[q])
  BY <1>5, <1>6 DEF SortedPart
<1>8. \A j \in V : Precedes(t, j, m)
  BY <1>3, PrecedesFacts
<1> DEFINE r == [k \in 1..n |-> IF k = n THEN m ELSE s[k]]
<1>9. \A k \in 1..n : k # n => k \in 1..(n - 1)
  BY <1>5
<1>10. r \in [1..n -> S]
  BY <1>7, <1>9
<1>11. ASSUME NEW p \in 1..n, NEW q \in 1..n, p < q PROVE Precedes(t, r[p], r[q])
  <2>1. p # n
    BY <1>5, <1>11
  <2>2. CASE q = n
    BY <1>7, <1>8, <1>9, <2>1, <2>2
  <2>3. CASE q # n
    BY <1>7, <1>9, <1>11, <2>1, <2>3
  <2> QED
    BY <2>2, <2>3
<1>12. r \in SortedPart(t, S)
  BY <1>10, <1>11 DEF SortedPart
<1> QED
  BY <1>12

LEMMA SortedExists ==
  ASSUME NEW t \in [Ids -> Row]
  PROVE  Sorted(t) # {}
<1> DEFINE L == Live(t)
           T == {S \in SUBSET L : SortedPart(t, S) = {}}
<1>1. IsFiniteSet(L)
  BY IdsFinite DEF Live
<1>2. T = {}
  <2> SUFFICES ASSUME T # {} PROVE FALSE
    OBVIOUS
  <2>1. IsWellFoundedOn(StrictSubsetOrdering(L), SUBSET L)
    BY <1>1, FS_FiniteSubsetsOfFinite, FS_StrictSubsetOrderingWellFounded
  <2>2. PICK S \in T : \A V \in T : <<V, S>> \notin StrictSubsetOrdering(L)
    <3>1. T \subseteq SUBSET L
      OBVIOUS
    <3> HIDE DEF T
    <3> QED
      BY <2>1, <3>1, WFMin
  <2>3. CASE S = {}
    <3>1. Cardinality({}) = 0
      BY FS_EmptySet
    <3>2. 1..0 = {}
      OBVIOUS
    <3>3. [k \in {} |-> 0] \in SortedPart(t, {})
      BY <3>1, <3>2 DEF SortedPart
    <3> QED
      BY <2>3, <3>3
  <2>4. CASE S # {}
    <3>1. \A V \in SUBSET S : V # S => SortedPart(t, V) # {}
      BY <2>2 DEF StrictSubsetOrdering
    <3> QED
      BY <2>2, <2>4, <3>1, PartExists
  <2> QED
    BY <2>3, <2>4
<1> QED
  BY <1>2 DEF SortedPart, Sorted

\* Two sorted lists first differ at a place where the one has a channel that the
\* other has later, and the other way round.
LEMMA SortedUnique ==
  ASSUME NEW t \in [Ids -> Row], NEW s \in Sorted(t), NEW u \in Sorted(t)
  PROVE  s = u
<1> DEFINE L == Live(t)
           n == Cardinality(L)
           D == {k \in 1..n : s[k] # u[k]}
<1>1. n \in Nat
  BY IdsFinite DEF Live
<1>2. /\ s \in [1..n -> L] /\ \A p, q \in 1..n : p < q => Precedes(t, s[p], s[q])
      /\ u \in [1..n -> L] /\ \A p, q \in 1..n : p < q => Precedes(t, u[p], u[q])
  BY DEF Sorted
<1>3. /\ \A i \in L : \E p \in 1..n : s[p] = i
      /\ \A i \in L : \E p \in 1..n : u[p] = i
  <2>1. DOMAIN s = 1..n /\ DOMAIN u = 1..n
    BY <1>2
  <2> QED
    BY <2>1, SortedFacts, ZenonT(30) DEF Live
<1>4. D = {}
  <2> SUFFICES ASSUME D # {} PROVE FALSE
    OBVIOUS
  <2>1. PICK k \in D : \A j \in D : ~(j < k)
    <3> DEFINE R == {e \in D \X D : e[2] < e[1]}
    <3>1. \A i, j \in D : <<i, j>> \in R <=> j < i
      OBVIOUS
    <3>2. IsFiniteSet(D) /\ \A i \in D : i \in Nat
      <4>1. IsFiniteSet(1..n)
        BY <1>1, FS_Interval
      <4> QED
        BY <1>1, <4>1, FS_Subset
    <3> HIDE DEF R, D
    <3>3. \A i \in D : <<i, i>> \notin R
      BY <3>1, <3>2
    <3>4. \A i, j, k \in D : <<i, j>> \in R /\ <<j, k>> \in R => <<i, k>> \in R
      BY <3>1, <3>2
    <3>5. \E m \in D : \A j \in D : <<m, j>> \notin R
      BY <3>2, <3>3, <3>4, LastExists
    <3> QED
      BY <3>1, <3>5
  <2>2. k \in 1..n /\ s[k] # u[k] /\ s[k] \in L /\ u[k] \in L
    BY <1>2, <2>1
  <2>3. \A j \in 1..n : j < k => s[j] = u[j]
    BY <2>1
  <2>4. \A p \in 1..n : p < k \/ p = k \/ k < p
    BY <1>1, <2>2
  <2>5. \A p, q \in 1..n : p < q => s[p] # s[q] /\ u[p] # u[q]
    BY <1>2, PrecedesFacts
  <2>6. PICK p \in 1..n : s[p] = u[k]
    BY <1>3, <2>2
  <2>7. PICK q \in 1..n : u[q] = s[k]
    BY <1>3, <2>2
  <2>8. k < p
    BY <2>2, <2>3, <2>4, <2>5, <2>6
  <2>9. k < q
    BY <2>2, <2>3, <2>4, <2>5, <2>7
  <2>10. Precedes(t, s[k], u[k]) /\ Precedes(t, u[k], s[k])
    BY <1>2, <2>2, <2>6, <2>7, <2>8, <2>9
  <2> QED
    BY <2>2, <2>10, PrecedesFacts
<1>5. \A k \in 1..n : s[k] = u[k]
  BY <1>4
<1> HIDE DEF D, L, n
<1>6. s = [k \in 1..n |-> s[k]] /\ u = [k \in 1..n |-> u[k]]
  BY <1>2
<1> QED
  BY <1>5, <1>6

\* i comes before j in a list.
Ahead(l, i, j) == \E p, q \in DOMAIN l : p < q /\ l[p] = i /\ l[q] = j

\* A list of the channels in the order of their rows is the sorted one.
LEMMA SortedIntro ==
  ASSUME NEW t \in [Ids -> Row], NEW l \in Seq(Ids), Once(l),
         \A p \in DOMAIN l : l[p] \in Live(t),
         \A i \in Live(t) : \E p \in DOMAIN l : l[p] = i,
         \A i, j \in Live(t) : Ahead(l, i, j) => Precedes(t, i, j)
  PROVE  l \in Sorted(t)
<1> DEFINE L == Live(t)
           n == Len(l)
<1>1. n \in Nat /\ DOMAIN l = 1..n /\ l \in [1..n -> L]
  OBVIOUS
<1> HIDE DEF n
<1>2. IsFiniteSet(1..n) /\ Cardinality(1..n) = n
  BY <1>1, FS_Interval
<1>3. l \in Bijection(1..n, L)
  BY <1>1 DEF Once, Bijection, Injection, Surjection, IsInjective
<1>4. Cardinality(L) = n
  BY <1>2, <1>3, FS_Bijection DEF ExistsBijection
<1>5. \A p, q \in 1..n : p < q => Precedes(t, l[p], l[q])
  BY <1>1 DEF Ahead
<1> QED
  BY <1>1, <1>4, <1>5 DEF Sorted

The(t) == CHOOSE s \in Sorted(t) : TRUE

LEMMA TheSorted ==
  ASSUME NEW t \in [Ids -> Row]
  PROVE  The(t) \in Sorted(t) /\ \A s \in Sorted(t) : The(t) = s
<1>1. The(t) \in Sorted(t)
  BY SortedExists DEF The
<1> QED
  BY <1>1, SortedUnique

\* What comes before what in a sorted list.
LEMMA SortedAhead ==
  ASSUME NEW t \in [Ids -> Row], NEW s \in Sorted(t), NEW i, NEW j, Ahead(s, i, j)
  PROVE  Precedes(t, i, j)
BY DEF Sorted, Ahead

\* Taking an id out of a list, and putting one in, leave the others in their order.
LEMMA RestAhead ==
  ASSUME NEW l \in Seq(Ids), NEW x, NEW i, NEW j, Ahead(Rest(l, x), i, j)
  PROVE  Ahead(l, i, j)
<1>1. CASE ~Contains(l, x)
  BY <1>1 DEF Rest
<1>2. CASE Contains(l, x)
  <2> DEFINE k == At(l, x)
             m == RemoveAt(l, k)
             n == Len(l)
  <2>1. k \in DOMAIN l /\ Rest(l, x) = m
    BY <1>2, AtFacts DEF Rest
  <2> HIDE DEF k
  <2>2. /\ DOMAIN l = 1..n /\ n \in Nat /\ DOMAIN m = 1..(n - 1)
        /\ \A p \in 1..(n - 1) : m[p] = IF p < k THEN l[p] ELSE l[p + 1]
    BY <2>1, RemoveAtFacts
  <2> HIDE DEF m, n
  <2>3. PICK p \in 1..(n - 1), q \in 1..(n - 1) : p < q /\ m[p] = i /\ m[q] = j
    BY <2>1, <2>2 DEF Ahead
  <2> DEFINE y == IF p < k THEN p ELSE p + 1
             z == IF q < k THEN q ELSE q + 1
  <2>4. y \in 1..n /\ z \in 1..n /\ y < z /\ l[y] = i /\ l[z] = j
    BY <2>1, <2>2, <2>3
  <2> QED
    BY <2>2, <2>4 DEF Ahead
<1> QED
  BY <1>1, <1>2

\* m is l with x at place k.
Put(m, l, k, x) ==
    /\ m \in Seq(Ids) /\ DOMAIN l = 1..Len(l) /\ Len(l) \in Nat /\ DOMAIN m = 1..(Len(l) + 1)
    /\ k \in 1..(Len(l) + 1)
    /\ \A p \in 1..(Len(l) + 1) : m[p] = IF p < k THEN l[p] ELSE IF p = k THEN x ELSE l[p - 1]

LEMMA PutAhead ==
  ASSUME NEW l, NEW m, NEW k, NEW x, Put(m, l, k, x), NEW i, NEW j, Ahead(l, i, j)
  PROVE  Ahead(m, i, j)
<1> DEFINE n == Len(l)
<1>1. /\ DOMAIN l = 1..n /\ n \in Nat /\ DOMAIN m = 1..(n + 1) /\ k \in 1..(n + 1)
      /\ \A p \in 1..(n + 1) : m[p] = IF p < k THEN l[p] ELSE IF p = k THEN x ELSE l[p - 1]
  BY DEF Put
<1> HIDE DEF n
<1>2. PICK p \in 1..n, q \in 1..n : p < q /\ l[p] = i /\ l[q] = j
  BY <1>1 DEF Ahead
<1> DEFINE y == IF p < k THEN p ELSE p + 1
           z == IF q < k THEN q ELSE q + 1
<1>3. y \in 1..(n + 1) /\ z \in 1..(n + 1) /\ y < z
  BY <1>1, <1>2
<1>4. m[y] = i /\ m[z] = j
  BY <1>1, <1>2
<1> QED
  BY <1>1, <1>3, <1>4 DEF Ahead

\* Putting an id behind a list is inserting it there.
LEMMA AppendInserts ==
  ASSUME NEW l \in Seq(Ids), NEW i \in Ids
  PROVE  InsertAt(l, Len(l) + 1, i) = Append(l, i) /\ Put(Append(l, i), l, Len(l) + 1, i)
<1> DEFINE n == Len(l)
<1>1. n \in Nat /\ DOMAIN l = 1..n /\ n + 1 - 1 = n
  OBVIOUS
<1>2. SubSeq(l, 1, n) = l /\ SubSeq(l, n + 1, n) = <<>>
  BY <1>1
<1>3. InsertAt(l, n + 1, i) = (SubSeq(l, 1, n) \o <<i>>) \o SubSeq(l, n + 1, n)
  BY <1>1 DEF InsertAt
<1>4. (l \o <<i>>) \o <<>> = Append(l, i)
  OBVIOUS
<1>5. InsertAt(l, n + 1, i) = Append(l, i)
  BY <1>2, <1>3, <1>4
<1>6. /\ Append(l, i) \in Seq(Ids) /\ DOMAIN Append(l, i) = 1..(n + 1)
      /\ \A p \in 1..(n + 1) : Append(l, i)[p] = IF p <= n THEN l[p] ELSE i
  BY <1>1
<1>7. n + 1 \in 1..(n + 1) /\ \A p \in 1..(n + 1) : (p < n + 1 <=> p <= n) /\ (p <= n \/ p = n + 1)
  BY <1>1
<1>8. Put(Append(l, i), l, n + 1, i)
  BY <1>1, <1>6, <1>7 DEF Put
<1> QED
  BY <1>5, <1>8

\* What a move makes of a list: the id is put at some place of the rest, right
\* before its target, or last.
Placed(m, l, i, before) ==
    \E k \in 1..(Len(l) + 1) :
      /\ Put(m, l, k, i) /\ m = InsertAt(l, k, i)
      /\ \/ Contains(l, before) /\ k \in DOMAIN l /\ l[k] = before
         \/ ~Contains(l, before) /\ k = Len(l) + 1

LEMMA MovePlaces ==
  ASSUME NEW l \in Seq(Ids), Once(l), NEW i \in Ids, NEW before
  PROVE  Placed(Move(l, i, before), Rest(l, i), i, before)
<1> DEFINE r == Rest(l, i)
           m == Move(l, i, before)
<1>1. r \in Seq(Ids) /\ m = IF Contains(r, before) THEN InsertAt(r, At(r, before), i) ELSE Append(r, i)
  BY RestFacts DEF Move
<1> HIDE DEF r, m
<1>2. CASE Contains(r, before)
  <2>1. At(r, before) \in DOMAIN r /\ r[At(r, before)] = before
    BY <1>1, <1>2, AtFacts
  <2>2. PICK k \in DOMAIN r : k = At(r, before)
    BY <2>1
  <2>3. m = InsertAt(r, k, i) /\ r[k] = before
    BY <1>1, <1>2, <2>1, <2>2
  <2>4. /\ InsertAt(r, k, i) \in Seq(Ids) /\ DOMAIN r = 1..Len(r) /\ Len(r) \in Nat
        /\ DOMAIN InsertAt(r, k, i) = 1..(Len(r) + 1)
        /\ \A p \in 1..(Len(r) + 1) :
             InsertAt(r, k, i)[p] = IF p < k THEN r[p] ELSE IF p = k THEN i ELSE r[p - 1]
    BY <1>1, InsertAtFacts
  <2>5. k \in 1..(Len(r) + 1)
    BY <2>4
  <2>6. Put(m, r, k, i)
    BY <2>3, <2>4, <2>5 DEF Put
  <2>7. Placed(m, r, i, before)
    BY <1>2, <2>3, <2>5, <2>6 DEF Placed
  <2> QED
    BY <2>7 DEF r, m
<1>3. CASE ~Contains(r, before)
  <2>1. InsertAt(r, Len(r) + 1, i) = m /\ Put(m, r, Len(r) + 1, i)
    BY <1>1, <1>3, AppendInserts
  <2>2. Len(r) + 1 \in 1..(Len(r) + 1)
    BY <2>1 DEF Put
  <2>3. Placed(m, r, i, before)
    BY <1>3, <2>1, <2>2 DEF Placed
  <2> QED
    BY <2>3 DEF r, m
<1> QED
  BY <1>2, <1>3

\* A renumbering that is done has put its list into the table.
LEMMA Renumbered ==
  ASSUME NEW v \in [Ids -> Row], NEW l \in Seq(Ids), Once(l),
         \A p \in DOMAIN l : l[p] \in Live(v) /\ v[l[p]].order = p,
         \A i \in Live(v) : \E p \in DOMAIN l : l[p] = i
  PROVE  The(v) = l
<1>1. \A i, j \in Live(v) : Ahead(l, i, j) => Precedes(v, i, j)
  BY DEF Ahead, Precedes
<1>2. l \in Sorted(v)
  BY <1>1, SortedIntro
<1> QED
  BY <1>2, TheSorted

-----------------------------------------------------------------------------
\* With one request at a time, what it writes is the order that was asked for.

Without(t, i) == [t EXCEPT ![i] = NoRow]

\* The request r, which sees v of the table t.
Following(t, v, r) ==
    /\ r.pc = "movelist" => r.before # r.id
    /\ r.pc \in {"purge", "list"} => r.id \in Live(t) /\ v = Without(t, r.id)
    /\ r.pc = "update" /\ r.name = NoName =>
         /\ Live(v) = Live(t) /\ r.id \in Ids /\ r.before # r.id
         /\ \E s \in Sorted(t) : r.list = Move(s, r.id, r.before)
    /\ r.pc = "update" /\ r.name # NoName =>
         /\ r.id \in Live(t) /\ Live(v) = Live(Without(t, r.id))
         /\ r.list \in Sorted(Without(t, r.id))

LEMMA ListParts ==
  ASSUME NEW x, Admin = {x}
  PROVE  /\ ListInv <=> Following(rows, View(x), req[x])
         /\ ListInv' <=> Following(rows', View(x)', req'[x])
<1>1. ListInv <=> Following(rows, View(x), req[x])
  BY DEF ListInv, Follows, Following, Without
<1>2. ListInv' <=> Following(rows', View(x)', req'[x])
  BY DEF ListInv, Follows, Following, Without, Live, Sorted, Precedes
<1> QED
  BY <1>1, <1>2

LEMMA FollowsStep ==
  ASSUME NEW x, Admin = {x}, TypeOK, OneInv, ListInv, Next
  PROVE  ListInv'
<1> DEFINE r == req[x]
           v == View(x)
<1>0. /\ rows \in [Ids -> Row] /\ DirtyOK(dirty) /\ ReqsOK(req) /\ x \in Admin
      /\ ReqType(r) /\ v \in [Ids -> Row]
  BY TypeParts, ViewType DEF ReqsOK
<1>1. Single(rows, v, dirty[x], r, wiped[x]) /\ Following(rows, v, r)
  BY OneParts, ListParts
<1>2. v = ViewOf(rows, dirty[x]) /\ View(x)' = ViewOf(rows', dirty'[x])
  BY OneParts
<1>3. ASSUME Following(rows', View(x)', req'[x]) PROVE ListInv'
  BY <1>3, ListParts
<1> HIDE DEF v
<1>4. \A q : [req EXCEPT ![x] = q][x] = q
  BY <1>0 DEF ReqsOK
<1>5. \A w : [dirty EXCEPT ![x] = w][x] = w
  BY <1>0 DEF DirtyOK
<1>6. ASSUME req'[x].pc \notin {"movelist", "purge", "list", "update"} PROVE ListInv'
  BY <1>3, <1>6 DEF Following
<1>7. ASSUME rows' = rows, dirty' = dirty PROVE View(x)' = v
  BY <1>2, <1>7
<1>8. ASSUME r.pc \notin {"purge", "list", "update"} PROVE dirty[x] = NoWrites /\ v = rows
  BY <1>0, <1>1, <1>2, <1>8, SeesTable DEF Single
<1>9. CASE SelectMax(x)
  <2>1. PICK n \in Name : req' = [req EXCEPT ![x] = [Idle EXCEPT !.pc = "insert", !.name = n,
                                                                 !.max = MaxOrder]]
    BY <1>9 DEF SelectMax
  <2>2. req'[x].pc = "insert"
    BY <1>4, <2>1 DEF Idle
  <2> QED
    BY <1>6, <2>2
<1>10. CASE Begin(x)
  <2>1. PICK i \in Known :
          \/ \E n \in Name : Request(x, [Idle EXCEPT !.pc = "rename", !.id = i, !.name = n])
          \/ \E j \in (Known \cup {0}) \ {i} :
               Request(x, [Idle EXCEPT !.pc = "movelist", !.id = i, !.before = j])
          \/ \E purge \in BOOLEAN : Request(x, [Idle EXCEPT !.pc = "name", !.id = i, !.purge = purge])
    BY <1>10 DEF Begin
  <2>2. PICK q : /\ Request(x, q)
                 /\ \/ q.pc \in {"rename", "name"}
                    \/ q.pc = "movelist" /\ q.before # q.id
    <3>1. \A n : [Idle EXCEPT !.pc = "rename", !.id = i, !.name = n].pc = "rename"
      BY DEF Idle
    <3>2. \A j : LET q == [Idle EXCEPT !.pc = "movelist", !.id = i, !.before = j]
                 IN q.pc = "movelist" /\ q.id = i /\ q.before = j
      BY DEF Idle
    <3>3. \A p : [Idle EXCEPT !.pc = "name", !.id = i, !.purge = p].pc = "name"
      BY DEF Idle
    <3>4. CASE \E n \in Name : Request(x, [Idle EXCEPT !.pc = "rename", !.id = i, !.name = n])
      BY <3>1, <3>4
    <3>5. CASE \E j \in (Known \cup {0}) \ {i} :
                 Request(x, [Idle EXCEPT !.pc = "movelist", !.id = i, !.before = j])
      <4>1. PICK j \in (Known \cup {0}) \ {i} :
                   Request(x, [Idle EXCEPT !.pc = "movelist", !.id = i, !.before = j])
        BY <3>5
      <4> DEFINE y == [Idle EXCEPT !.pc = "movelist", !.id = i, !.before = j]
      <4>2. y.pc = "movelist" /\ y.before # y.id
        BY <3>2, <4>1
      <4>3. Request(x, y)
        BY <4>1
      <4> HIDE DEF y
      <4> QED
        BY <4>2, <4>3
    <3>6. CASE \E purge \in BOOLEAN :
                 Request(x, [Idle EXCEPT !.pc = "name", !.id = i, !.purge = purge])
      BY <3>3, <3>6
    <3> QED
      BY <2>1, <3>4, <3>5, <3>6
  <2>3. req'[x] = q
    BY <1>4, <2>2 DEF Request
  <2>4. CASE q.pc \in {"rename", "name"}
    BY <1>6, <2>3, <2>4
  <2>5. CASE q.pc = "movelist" /\ q.before # q.id
    BY <1>3, <2>3, <2>5 DEF Following
  <2> QED
    BY <2>2, <2>4, <2>5
<1>11. CASE InsertChannel(x) \/ UpdateChannel(x) \/ Commit(x) \/ Rollback(x)
  <2>1. req' = [req EXCEPT ![x] = Idle]
    BY <1>11 DEF InsertChannel, UpdateChannel, Commit, Rollback
  <2>2. req'[x].pc = "idle"
    BY <1>4, <2>1, ReqFacts
  <2> QED
    BY <1>6, <2>2
<1>12. CASE ListForMove(x)
  <2>1. PICK s \in Sorted(rows) :
          req' = [req EXCEPT ![x].pc = "update", ![x].list = Move(s, r.id, r.before)]
    BY <1>12 DEF ListForMove
  <2> DEFINE m == Move(s, r.id, r.before)
  <2> HIDE DEF m
  <2>2. req'[x] = [r EXCEPT !.pc = "update", !.list = m]
    <3>1. req' = [req EXCEPT ![x] = [req[x] EXCEPT !.pc = "update", !.list = m]]
      BY <2>1 DEF m
    <3> QED
      BY <1>4, <3>1
  <2>3. /\ UNCHANGED <<rows, dirty>> /\ r.pc = "movelist" /\ r.name = NoName /\ r.before # r.id
    BY <1>1, <1>12 DEF ListForMove, Single, Following
  <2>4. /\ req'[x].pc = "update" /\ req'[x].list = m /\ req'[x].name = NoName
        /\ req'[x].id = r.id /\ req'[x].before = r.before /\ r.id \in Ids
    BY <1>0, <2>2, <2>3 DEF ReqType
  <2>5. View(x)' = rows
    BY <1>7, <1>8, <2>3
  <2> QED
    BY <1>3, <2>1, <2>3, <2>4, <2>5 DEF Following, m
<1>13. CASE UpdateOrder(x)
  <2> DEFINE k == r.at
             i == r.list[k]
  <2>1. /\ r.pc = "update" /\ k \in Nat \ {0} /\ i \in Ids
    BY <1>0, <1>13 DEF UpdateOrder, ReqType
  <2>2. req'[x] = [r EXCEPT !.at = k + 1] /\ rows' = rows
    BY <1>4, <1>13 DEF UpdateOrder
  <2>3. /\ req'[x].pc = "update" /\ req'[x].list = r.list /\ req'[x].name = r.name
        /\ req'[x].id = r.id /\ req'[x].before = r.before
    BY <1>0, <2>1, <2>2 DEF ReqType
  <2> DEFINE u == View(x)'
  <2>4. Live(u) = Live(v)
    <3>1. CASE v[i] = NoRow
      <4>1. dirty' = dirty
        BY <1>13, <3>1 DEF UpdateOrder, v
      <4> QED
        BY <1>7, <2>2, <4>1
    <3>2. CASE v[i] # NoRow
      <4> DEFINE q == [v[i] EXCEPT !.order = k]
      <4>1. q # NoRow
        <5>1. v[i] \in Row /\ k \in Nat
          BY <1>0, <2>1
        <5> QED
          BY <3>2, <5>1, RowExcept
      <4>2. dirty'[x] = Write(dirty[x], i, q)
        <5>1. dirty' = [dirty EXCEPT ![x] = Write(dirty[x], i, q)]
          BY <1>13, <3>2 DEF UpdateOrder, v
        <5> QED
          BY <1>5, <5>1
      <4> HIDE DEF q
      <4>3. DOMAIN dirty'[x] = {i} \cup DOMAIN dirty[x]
            /\ \A j \in DOMAIN dirty'[x] : dirty'[x][j] = IF j = i THEN q ELSE dirty[x][j]
        BY <4>2 DEF Write
      <4>4. \A j \in Ids : u[j] = IF j = i THEN q ELSE v[j]
        BY <1>2, <2>2, <4>3 DEF ViewOf
      <4> HIDE DEF u
      <4> QED
        BY <2>1, <3>2, <4>1, <4>4 DEF Live
    <3> QED
      BY <3>1, <3>2
  <2> HIDE DEF u
  <2>5. Following(rows', u, req'[x])
    BY <1>1, <2>1, <2>2, <2>3, <2>4 DEF Following
  <2> QED
    BY <1>3, <2>5 DEF u
<1>14. CASE SelectName(x)
  <2>1. req'[x].pc \in {"idle", "delete"}
    <3>1. CASE rows[r.id] = NoRow
      <4>1. req' = [req EXCEPT ![x] = Idle]
        BY <1>14, <3>1 DEF SelectName
      <4> QED
        BY <1>4, <4>1, ReqFacts
    <3>2. CASE rows[r.id] # NoRow
      <4> DEFINE n == rows[r.id].name
      <4> HIDE DEF n
      <4>1. req' = [req EXCEPT ![x] = [r EXCEPT !.pc = "delete", !.name = n]]
        BY <1>14, <3>2 DEF SelectName, n
      <4>2. req'[x] = [r EXCEPT !.pc = "delete", !.name = n]
        BY <1>4, <4>1
      <4> QED
        BY <1>0, <4>2 DEF ReqType
    <3> QED
      BY <3>1, <3>2
  <2> QED
    BY <1>6, <2>1
<1>15. CASE DeleteRow(x)
  <2>1. /\ r.pc = "delete" /\ r.id \in Ids /\ r.name \in Name /\ rows' = rows /\ dirty[x] = NoWrites
        /\ rows[r.id].name = r.name
    BY <1>0, <1>1, <1>8, <1>15 DEF DeleteRow, ReqType, Single
  <2>2. rows[r.id] # NoRow
    BY <2>1, ChannelConstants DEF NoRow
  <2>3. PICK p \in {"purge", "list"} : req' = [req EXCEPT ![x] = [r EXCEPT !.pc = p]]
    BY <1>15 DEF DeleteRow
  <2>4. req'[x] = [r EXCEPT !.pc = p]
    BY <1>4, <2>3
  <2>5. req'[x].pc = p /\ req'[x].id = r.id
    BY <1>0, <2>1, <2>4 DEF ReqType
  <2>6. dirty' = [dirty EXCEPT ![x] = Write(NoWrites, r.id, NoRow)]
    BY <1>15, <2>1, <2>2 DEF DeleteRow
  <2>7. dirty'[x] = Write(NoWrites, r.id, NoRow)
    BY <1>5, <2>6
  <2>8. DOMAIN dirty'[x] = {r.id} /\ dirty'[x][r.id] = NoRow
    BY <2>7 DEF Write, NoWrites
  <2> DEFINE u == View(x)'
  <2>9. u = [j \in Ids |-> IF j = r.id THEN NoRow ELSE rows[j]]
    BY <1>2, <2>1, <2>8 DEF ViewOf
  <2> HIDE DEF u
  <2>10. u = Without(rows, r.id)
    BY <1>0, <2>1, <2>9 DEF Without
  <2>11. Following(rows', u, req'[x])
    BY <2>1, <2>2, <2>3, <2>5, <2>10 DEF Following, Live
  <2> QED
    BY <1>3, <2>11 DEF u
<1>16. CASE RemoveMessagesByChannel(x)
  <2>1. req' = [req EXCEPT ![x] = [r EXCEPT !.pc = "list"]]
    BY <1>16 DEF RemoveMessagesByChannel
  <2>2. req'[x] = [r EXCEPT !.pc = "list"]
    BY <1>4, <2>1
  <2>3. req'[x].pc = "list" /\ req'[x].id = r.id
    BY <1>0, <2>2 DEF ReqType
  <2>4. rows' = rows /\ View(x)' = v /\ r.pc = "purge"
    BY <1>7, <1>16 DEF RemoveMessagesByChannel
  <2> QED
    BY <1>1, <1>3, <2>3, <2>4 DEF Following
<1>17. CASE ListForRemove(x)
  <2>1. PICK s \in Sorted(v) :
          req' = [req EXCEPT ![x] = [r EXCEPT !.pc = "update", !.list = s]]
    BY <1>17 DEF ListForRemove, v
  <2>2. req'[x] = [r EXCEPT !.pc = "update", !.list = s]
    BY <1>4, <2>1
  <2>3. rows' = rows /\ View(x)' = v /\ r.pc = "list" /\ r.name # NoName
    BY <1>0, <1>7, <1>17, ChannelConstants DEF ListForRemove, ReqType
  <2>4. req'[x].pc = "update" /\ req'[x].list = s /\ req'[x].id = r.id /\ req'[x].name = r.name
    BY <1>0, <2>2 DEF ReqType
  <2> QED
    BY <1>1, <1>3, <2>1, <2>3, <2>4 DEF Following
<1>18. CASE FileMessage
  <2>1. UNCHANGED <<rows, req>> /\ View(x)' = v
    BY <1>7, <1>18 DEF FileMessage
  <2> QED
    BY <1>1, <1>3, <2>1
<1>19. \/ FileMessage
       \/ SelectMax(x) \/ Begin(x) \/ Step(x) \/ Rollback(x)
  <2>1. \A a \in Admin : a = x
    OBVIOUS
  <2> QED
    BY <2>1 DEF Next
<1> QED
  BY <1>9, <1>10, <1>11, <1>12, <1>13, <1>14, <1>15, <1>16, <1>17, <1>18, <1>19 DEF Step

-----------------------------------------------------------------------------
\* What each step makes of the list.

\* The list hangs on the sort_orders alone.
LEMMA SameOrders ==
  ASSUME NEW t, NEW u, Live(t) = Live(u), \A i \in Live(t) : t[i].order = u[i].order
  PROVE  The(t) = The(u)
<1>1. \A i, j \in Live(t) : Precedes(t, i, j) <=> Precedes(u, i, j)
  BY DEF Precedes
<1>2. ASSUME NEW s \in [1..Cardinality(Live(t)) -> Live(t)], NEW p \in DOMAIN s, NEW q \in DOMAIN s
      PROVE  Precedes(t, s[p], s[q]) <=> Precedes(u, s[p], s[q])
  BY <1>1
<1>3. Sorted(t) = Sorted(u)
  BY <1>2 DEF Sorted
<1> QED
  BY <1>3 DEF The

LEMMA ListRenamed ==
  ASSUME TypeOK, NEW a \in Admin, UpdateChannel(a)
  PROVE  The(rows') = The(rows)
<1> DEFINE r == req[a]
<1>1. rows \in [Ids -> Row] /\ r.id \in Ids /\ r.name \in Name
  BY DEF TypeOK, UpdateChannel, ReqType
<1>2. CASE rows' = rows
  BY <1>2
<1>3. CASE rows[r.id] # NoRow /\ rows' = [rows EXCEPT ![r.id].name = r.name]
  <2>1. LET q == [rows[r.id] EXCEPT !.name = r.name]
        IN q # NoRow /\ q.order = rows[r.id].order
    BY <1>1, <1>3, RowExcept
  <2>2. /\ rows'[r.id] # NoRow /\ rows'[r.id].order = rows[r.id].order
        /\ \A i \in Ids : i # r.id => rows'[i] = rows[i]
    BY <1>1, <1>3, <2>1
  <2>3. Live(rows') = Live(rows) /\ \A i \in Live(rows') : rows'[i].order = rows[i].order
    BY <1>1, <1>3, <2>2 DEF Live
  <2> QED
    BY <2>3, SameOrders
<1> QED
  BY <1>2, <1>3 DEF UpdateChannel

LEMMA ListAppended ==
  ASSUME NEW x, Admin = {x}, TypeOK, OneInv, Issued, InsertChannel(x), rows' # rows
  PROVE  \E i \in Ids \ ToSet(The(rows)) : The(rows') = Append(The(rows), i)
<1> DEFINE r == req[x]
           s == The(rows)
           n == nextId
           m == Append(s, n)
<1>1. /\ rows \in [Ids -> Row] /\ x \in Admin /\ ReqType(r) /\ r.max \in Nat /\ r.name \in Name
      /\ nextId \in 1..(IdMax + 1) /\ r.pc = "insert"
  BY DEF TypeOK, InsertChannel, ReqType
<1>2. \A i \in Live(rows) : i \in Ids /\ rows[i].order \in Nat /\ rows[i].order <= r.max /\ i < nextId
  BY <1>1, RowType DEF OneInv, Alone, Issued, Live
<1>3. /\ ~(nextId > IdMax)
      /\ rows' = [rows EXCEPT ![nextId] = [name |-> r.name, order |-> r.max + 1]]
  BY DEF InsertChannel
<1>4. n \in Ids
  BY <1>1, <1>3, ChannelConstants DEF Ids
<1>5. n \notin Live(rows)
  BY <1>1, <1>2
<1> DEFINE q == [name |-> r.name, order |-> r.max + 1]
<1>6. q \in Row /\ q # NoRow /\ q.order = r.max + 1
  <2>1. r.max + 1 \in Nat
    BY <1>1
  <2> QED
    BY <1>1, <2>1, RowType
<1>7. rows' = [rows EXCEPT ![n] = q]
  BY <1>3
<1> HIDE DEF n, q
<1>8. rows' \in [Ids -> Row] /\ \A i \in Ids : rows'[i] = IF i = n THEN q ELSE rows[i]
  BY <1>1, <1>4, <1>6, <1>7
<1>9. Live(rows') = Live(rows) \cup {n}
  BY <1>4, <1>6, <1>8 DEF Live
<1>10. s \in Sorted(rows)
  BY <1>1, TheSorted
<1> HIDE DEF s
<1>11. /\ s \in Seq(Ids) /\ Once(s)
       /\ \A p \in DOMAIN s : s[p] \in Live(rows)
       /\ \A i \in Live(rows) : \E p \in DOMAIN s : s[p] = i
  BY <1>1, <1>10, SortedFacts DEF Live, Once
<1>12. n \notin ToSet(s)
  BY <1>5, <1>11 DEF ToSet
<1>13. Len(s) \in Nat /\ DOMAIN s = 1..Len(s)
  BY <1>11
<1>14. Len(s) + 1 \in 1..(Len(s) + 1) /\ \A p \in 1..(Len(s) + 1) : p \in 1..Len(s) \/ p = Len(s) + 1
  BY <1>13
<1>15. \A p \in 1..Len(s) : p \in 1..(Len(s) + 1)
  BY <1>13
<1>16. /\ m \in Seq(Ids) /\ DOMAIN m = 1..(Len(s) + 1) /\ m[Len(s) + 1] = n
       /\ \A p \in 1..Len(s) : m[p] = s[p]
  BY <1>4, <1>11
<1> HIDE DEF m
<1>17. Once(m)
  BY <1>5, <1>11, <1>13, <1>14, <1>16 DEF Once
<1>18. \A p \in DOMAIN m : m[p] \in Live(rows')
  BY <1>9, <1>11, <1>13, <1>14, <1>16
<1>19. \A i \in Live(rows') : \E p \in DOMAIN m : m[p] = i
  BY <1>9, <1>11, <1>13, <1>14, <1>15, <1>16
<1>20. ASSUME NEW i \in Live(rows'), NEW j \in Live(rows'), Ahead(m, i, j)
       PROVE  Precedes(rows', i, j)
  <2>1. PICK p \in 1..(Len(s) + 1), k \in 1..(Len(s) + 1) : p < k /\ m[p] = i /\ m[k] = j
    BY <1>16, <1>20 DEF Ahead
  <2>2. p \in 1..Len(s) /\ m[p] = s[p]
    BY <1>13, <1>16, <2>1
  <2>3. i \in Live(rows) /\ i # n /\ i \in Ids
    BY <1>2, <1>5, <1>11, <1>13, <2>1, <2>2
  <2>4. CASE k = Len(s) + 1
    <3>1. j = n
      BY <1>16, <2>1, <2>4
    <3>2. rows'[i].order <= r.max /\ rows'[i].order \in Nat /\ rows'[j].order = r.max + 1
      BY <1>2, <1>4, <1>6, <1>8, <2>3, <3>1
    <3> QED
      BY <1>1, <3>2 DEF Precedes
  <2>5. CASE k # Len(s) + 1
    <3>1. k \in 1..Len(s)
      BY <1>14, <2>1, <2>5
    <3>2. Precedes(rows, s[p], s[k])
      BY <1>10, <1>13, <2>1, <2>2, <3>1 DEF Sorted
    <3>3. j \in Live(rows) /\ j # n /\ j \in Ids /\ s[k] = j /\ s[p] = i
      BY <1>2, <1>5, <1>11, <1>13, <1>16, <2>1, <2>2, <3>1
    <3>4. rows'[i] = rows[i] /\ rows'[j] = rows[j]
      BY <1>8, <2>3, <3>3
    <3> QED
      BY <3>2, <3>3, <3>4 DEF Precedes
  <2> QED
    BY <2>4, <2>5
<1>21. m \in Sorted(rows')
  BY <1>8, <1>16, <1>17, <1>18, <1>19, <1>20, SortedIntro
<1>22. The(rows') = m
  BY <1>8, <1>21, TheSorted
<1> QED
  BY <1>4, <1>12, <1>22 DEF s, m

LEMMA ListDropped ==
  ASSUME NEW x, Admin = {x}, TypeOK, OneInv, ListInv, Commit(x), req[x].name # NoName
  PROVE  \E k \in DOMAIN The(rows) : The(rows)[k] = req[x].id /\ The(rows') = RemoveAt(The(rows), k)
<1> DEFINE r == req[x]
           v == View(x)
           s == The(rows)
           l == r.list
           w == Without(rows, r.id)
<1>1. /\ rows \in [Ids -> Row] /\ x \in Admin /\ ReqType(r) /\ v \in [Ids -> Row]
      /\ r.pc = "update" /\ rows' = v
  BY ViewType DEF TypeOK, Commit
<1>2. Single(rows, v, dirty[x], r, wiped[x]) /\ Following(rows, v, r)
  BY OneParts, ListParts
<1> HIDE DEF v
<1>3. r.id \in Live(rows) /\ Live(v) = Live(w) /\ l \in Sorted(w)
  BY <1>1, <1>2 DEF Following
<1>4. w \in [Ids -> Row] /\ r.id \in Ids /\ \A i \in Ids : w[i] = IF i = r.id THEN NoRow ELSE rows[i]
  BY <1>1, <1>3, RowType DEF Without, Live
<1> HIDE DEF w
<1>5. /\ l \in Seq(Ids) /\ Once(l) /\ \A p \in DOMAIN l : l[p] \in Live(v)
      /\ \A i \in Live(v) : \E p \in DOMAIN l : l[p] = i
  BY <1>3, <1>4, SortedFacts DEF Live, Once
<1>6. \A p \in DOMAIN l : v[l[p]].order = p
  <2>1. \A p \in DOMAIN l : p < r.at
    <3>1. r.at \in Nat /\ r.at > Len(l)
      BY <1>1 DEF Commit, ReqType
    <3> QED
      BY <1>5, <3>1
  <2> QED
    BY <1>1, <1>2, <1>5, <2>1 DEF Single, Renumbers
<1>7. The(v) = l
  BY <1>1, <1>5, <1>6, Renumbered, ZenonT(30)
<1>8. s \in Sorted(rows)
  BY <1>1, TheSorted
<1> HIDE DEF s
<1>9. /\ s \in Seq(Ids) /\ Once(s)
      /\ \A p \in DOMAIN s : s[p] \in Live(rows)
      /\ \A i \in Live(rows) : \E p \in DOMAIN s : s[p] = i
  BY <1>1, <1>8, SortedFacts DEF Live, Once
<1> DEFINE m == Rest(s, r.id)
<1>10. m \in Sorted(w)
  <2>1. /\ m \in Seq(Ids) /\ Once(m)
        /\ \A p \in DOMAIN m : m[p] # r.id /\ \E q \in DOMAIN s : s[q] = m[p]
        /\ \A q \in DOMAIN s : s[q] # r.id => \E p \in DOMAIN m : m[p] = s[q]
    BY <1>4, <1>9, RestFacts
  <2>2. ASSUME NEW i \in Live(w), NEW j \in Live(w), Ahead(m, i, j) PROVE Precedes(w, i, j)
    <3>1. Precedes(rows, i, j)
      BY <1>1, <1>8, <1>9, <2>2, RestAhead, SortedAhead
    <3>2. w[i] = rows[i] /\ w[j] = rows[j]
      BY <1>4 DEF Live
    <3> QED
      BY <3>1, <3>2 DEF Precedes
  <2> HIDE DEF m
  <2>3. \A i \in Ids : i \in Live(w) <=> i \in Live(rows) /\ i # r.id
    BY <1>4 DEF Live
  <2>4. \A p \in DOMAIN m : m[p] \in Live(w)
    BY <1>9, <2>1, <2>3
  <2>5. \A i \in Live(w) : \E p \in DOMAIN m : m[p] = i
    <3> SUFFICES ASSUME NEW i \in Live(w) PROVE \E p \in DOMAIN m : m[p] = i
      OBVIOUS
    <3>1. i \in Live(rows) /\ i # r.id
      BY <2>3 DEF Live
    <3>2. PICK q \in DOMAIN s : s[q] = i
      BY <1>9, <3>1
    <3> QED
      BY <2>1, <3>1, <3>2
  <2> QED
    BY <1>4, <2>1, <2>2, <2>4, <2>5, SortedIntro
<1>11. l = m
  BY <1>3, <1>4, <1>10, SortedUnique
<1>12. Contains(s, r.id)
  BY <1>3, <1>9 DEF Contains
<1>13. At(s, r.id) \in DOMAIN s /\ s[At(s, r.id)] = r.id /\ m = RemoveAt(s, At(s, r.id))
  BY <1>9, <1>12, AtFacts DEF Rest
<1> QED
  BY <1>1, <1>7, <1>11, <1>13 DEF s

LEMMA LenIs ==
  ASSUME NEW l \in Seq(Ids), NEW n \in Nat, DOMAIN l = 1..n
  PROVE  Len(l) = n
OBVIOUS

\* A list that has i right before j, or last when j is not there.
Put1(l, i, j) ==
    IF Contains(l, j)
    THEN \E p \in 1..(Len(l) - 1) : l[p] = i /\ l[p + 1] = j
    ELSE Last(l) = i

LEMMA PutBefore ==
  ASSUME NEW m, NEW l, NEW i, NEW j, i # j, Placed(m, l, i, j)
  PROVE  Put1(m, i, j)
<1>1. PICK k \in 1..(Len(l) + 1) :
        /\ Put(m, l, k, i)
        /\ \/ Contains(l, j) /\ k \in DOMAIN l /\ l[k] = j
           \/ ~Contains(l, j) /\ k = Len(l) + 1
  BY DEF Placed
<1>2. /\ DOMAIN l = 1..Len(l) /\ Len(l) \in Nat /\ DOMAIN m = 1..(Len(l) + 1) /\ m \in Seq(Ids)
      /\ \A p \in 1..(Len(l) + 1) : m[p] = IF p < k THEN l[p] ELSE IF p = k THEN i ELSE l[p - 1]
  BY <1>1 DEF Put
<1>3. Len(m) = Len(l) + 1 /\ m[k] = i
  BY <1>1, <1>2
<1>4. CASE Contains(l, j) /\ k \in DOMAIN l /\ l[k] = j
  <2>1. k + 1 \in 1..(Len(l) + 1) /\ ~(k + 1 < k) /\ k + 1 # k /\ k + 1 - 1 = k /\ k \in 1..(Len(m) - 1)
    BY <1>2, <1>3, <1>4
  <2>2. m[k + 1] = j
    BY <1>2, <1>4, <2>1
  <2>3. Contains(m, j)
    BY <1>2, <2>1, <2>2 DEF Contains
  <2> QED
    BY <1>3, <2>1, <2>2, <2>3 DEF Put1
<1>5. CASE ~Contains(l, j) /\ k = Len(l) + 1
  <2>1. \A p \in 1..Len(l) : l[p] # j
    BY <1>2, <1>5 DEF Contains
  <2>2. \A p \in 1..(Len(l) + 1) : p = k \/ (p \in 1..Len(l) /\ p < k)
    BY <1>2, <1>5
  <2>3. ~Contains(m, j)
    BY <1>2, <2>1, <2>2 DEF Contains
  <2>4. Last(m) = i
    BY <1>3, <1>5 DEF Last
  <2> QED
    BY <2>3, <2>4 DEF Put1
<1> QED
  BY <1>1, <1>4, <1>5

LEMMA ListMoved ==
  ASSUME NEW x, Admin = {x}, TypeOK, OneInv, ListInv, Commit(x), req[x].name = NoName
  PROVE  \/ The(rows') = The(rows)
         \/ /\ \E k, p \in DOMAIN The(rows) :
                 /\ The(rows)[k] = req[x].id
                 /\ The(rows') = InsertAt(RemoveAt(The(rows), k), p, req[x].id)
            /\ Put1(The(rows'), req[x].id, req[x].before)
<1> DEFINE r == req[x]
           v == View(x)
           s == The(rows)
           l == r.list
           m == Rest(s, r.id)
<1>1. /\ rows \in [Ids -> Row] /\ x \in Admin /\ ReqType(r) /\ v \in [Ids -> Row]
      /\ r.pc = "update" /\ rows' = v
  BY ViewType DEF TypeOK, Commit
<1>2. Single(rows, v, dirty[x], r, wiped[x]) /\ Following(rows, v, r)
  BY OneParts, ListParts
<1> HIDE DEF v
<1>3. s \in Sorted(rows)
  BY <1>1, TheSorted
<1>4. Live(v) = Live(rows) /\ r.id \in Ids /\ r.before # r.id /\ l = Move(s, r.id, r.before)
  <2>1. PICK u \in Sorted(rows) : l = Move(u, r.id, r.before)
    BY <1>1, <1>2 DEF Following
  <2>2. u = s
    BY <1>1, TheSorted
  <2> QED
    BY <1>1, <1>2, <2>1, <2>2 DEF Following
<1> HIDE DEF s
<1>5. /\ s \in Seq(Ids) /\ Once(s)
      /\ \A p \in DOMAIN s : s[p] \in Live(rows)
      /\ \A i \in Live(rows) : \E p \in DOMAIN s : s[p] = i
  BY <1>1, <1>3, SortedFacts DEF Live, Once
<1>6. Placed(l, m, r.id, r.before) /\ Moved(l, s, r.id, r.before)
  BY <1>4, <1>5, MovePlaces, MoveFacts
<1>7. \A p \in DOMAIN l : l[p] \in Live(v) => v[l[p]].order = p
  <2>1. l \in Seq(Ids) /\ r.at \in Nat /\ r.at > Len(l)
    BY <1>1 DEF Commit, ReqType
  <2>2. \A p \in DOMAIN l : p < r.at
    BY <2>1
  <2> QED
    BY <1>1, <1>2, <2>2 DEF Single, Renumbers
<1>8. CASE r.id \in Live(rows)
  <2>1. Contains(s, r.id)
    BY <1>5, <1>8 DEF Contains
  <2> DEFINE a == At(s, r.id)
  <2>2. a \in DOMAIN s /\ s[a] = r.id /\ m = RemoveAt(s, a)
    BY <1>5, <2>1, AtFacts DEF Rest
  <2> HIDE DEF a, m
  <2>3. The(v) = l
    <3>1. l \in Seq(Ids) /\ Once(l)
      BY <1>6 DEF Moved
    <3>2. \A p \in DOMAIN l : l[p] \in Live(v)
      BY <1>4, <1>5, <1>6, <1>8 DEF Moved
    <3>3. \A i \in Live(v) : \E p \in DOMAIN l : l[p] = i
      BY <1>4, <1>5, <1>6 DEF Moved
    <3> QED
      BY <1>1, <1>7, <3>1, <3>2, <3>3, Renumbered, ZenonT(30)
  <2>4. PICK k \in 1..(Len(m) + 1) : l = InsertAt(m, k, r.id)
    BY <1>6 DEF Placed
  <2>5. k \in DOMAIN s
    <3>1. /\ DOMAIN s = 1..Len(s) /\ Len(s) \in Nat /\ m \in Seq(Ids)
          /\ DOMAIN m = 1..(Len(s) - 1)
      BY <1>5, <2>2, RemoveAtFacts
    <3>2. Len(s) - 1 \in Nat
      BY <2>2, <3>1
    <3>3. Len(m) = Len(s) - 1
      BY <3>1, <3>2, LenIs
    <3> QED
      BY <2>4, <3>1, <3>3
  <2>6. Put1(l, r.id, r.before)
    BY <1>4, <1>6, PutBefore
  <2> QED
    BY <1>1, <2>2, <2>3, <2>4, <2>5, <2>6 DEF s
<1>9. CASE r.id \notin Live(rows)
  <2>1. m = s
    BY <1>5, <1>9 DEF Rest, Contains
  <2> HIDE DEF m
  <2>2. ASSUME NEW i \in Live(v), NEW j \in Live(v), Ahead(s, i, j) PROVE Precedes(v, i, j)
    <3>1. Ahead(l, i, j)
      BY <1>6, <2>1, <2>2, PutAhead DEF Placed
    <3>2. PICK p \in DOMAIN l, q \in DOMAIN l : p < q /\ l[p] = i /\ l[q] = j
      BY <3>1 DEF Ahead
    <3>3. v[i].order = p /\ v[j].order = q
      BY <1>7, <3>2
    <3> QED
      BY <3>2, <3>3 DEF Precedes
  <2>3. s \in Sorted(v)
    BY <1>1, <1>4, <1>5, <2>2, SortedIntro
  <2>4. The(v) = s
    BY <1>1, <2>3, TheSorted
  <2> QED
    BY <1>1, <2>4 DEF s
<1> QED
  BY <1>8, <1>9

\* One request at a time, the channels behave as the list they are promised to be.
THEOREM KeepsList ==
  ASSUME NEW x, Admin = {x}
  PROVE  Spec => ListSpec
<1>1. (CHOOSE a \in Admin : TRUE) = x
  OBVIOUS
<1>0. /\ \A s : List!ToSet(s) = ToSet(s) /\ List!Last(s) = Last(s)
      /\ \A s, i : List!RemoveAt(s, i) = RemoveAt(s, i) /\ List!Contains(s, i) = Contains(s, i)
      /\ \A s, k, i : List!InsertAt(s, k, i) = InsertAt(s, k, i)
  BY DEF List!ToSet, ToSet, List!Last, Last, List!RemoveAt, RemoveAt, List!Contains, Contains,
         List!InsertAt, InsertAt
<1>2. Init => List!ListInit
  <2> SUFFICES ASSUME Init PROVE The(rows) = <<>>
    BY DEF List!ListInit, The
  <2>1. rows \in [Ids -> Row] /\ Live(rows) = {}
    BY TypeInit DEF Init, TypeOK, Live
  <2>2. The(rows) \in Seq(Ids) /\ \A p \in DOMAIN The(rows) : FALSE
    <3>1. The(rows) \in Sorted(rows)
      BY <2>1, TheSorted
    <3> QED
      BY <2>1, <3>1, SortedFacts DEF Live
  <2>3. Len(The(rows)) = 0
    <3>1. DOMAIN The(rows) = 1..0
      <4> DEFINE D == DOMAIN The(rows)
      <4>1. \A p \in D : FALSE
        BY <2>2
      <4> HIDE DEF D
      <4>2. D = {}
        BY <4>1
      <4>3. 1..0 = {}
        OBVIOUS
      <4> QED
        BY <4>2, <4>3 DEF D
    <3> QED
      BY <2>2, <3>1, LenIs
  <2> QED
    BY <2>2, <2>3
<1>3. Init => ListInv
  <2> SUFFICES ASSUME Init PROVE ListInv
    OBVIOUS
  <2>1. req[x].pc = "idle"
    BY ReqFacts DEF Init
  <2> QED
    BY <2>1, ListParts DEF Following
<1>4. TypeOK /\ OneInv /\ ListInv /\ [Next]_vars => ListInv'
  <2> SUFFICES ASSUME TypeOK, OneInv, ListInv, [Next]_vars PROVE ListInv'
    OBVIOUS
  <2>1. CASE Next
    BY <2>1, FollowsStep
  <2>2. CASE UNCHANGED vars
    <3>1. rows' = rows /\ req' = req /\ View(x)' = View(x)
      BY <2>2 DEF vars, View
    <3> QED
      BY <3>1, ListParts
  <2> QED
    BY <2>1, <2>2
<1>5. TypeOK /\ MoveInv /\ OneInv /\ ListInv /\ [Next]_vars
      => [List!Add \/ List!Drop \/ List!Reorder]_(The(rows))
  <2> SUFFICES ASSUME TypeOK, MoveInv, OneInv, ListInv, [Next]_vars, The(rows') # The(rows)
               PROVE  List!Add \/ List!Drop \/ List!Reorder
    OBVIOUS
  <2>1. rows' # rows
    OBVIOUS
  <2>2. InsertChannel(x) \/ UpdateChannel(x) \/ Commit(x)
    <3>1. PICK a \in Admin : InsertChannel(a) \/ UpdateChannel(a) \/ Commit(a)
      BY <2>1 DEF Next, Step, SelectMax, Begin, Request, ListForMove, UpdateOrder,
             SelectName, DeleteRow, RemoveMessagesByChannel, ListForRemove, Rollback, FileMessage, vars
    <3> QED
      BY <3>1
  <2>3. CASE InsertChannel(x)
    <3>1. \E i \in Ids \ ToSet(The(rows)) : The(rows') = Append(The(rows), i)
      BY <2>1, <2>3, ListAppended DEF MoveInv
    <3>2. Asked(req[x]).op = "other"
      BY <2>3 DEF Asked, InsertChannel
    <3> QED
      BY <1>0, <1>1, <3>1, <3>2 DEF List!Add, The
  <2>4. CASE UpdateChannel(x)
    BY <2>4, ListRenamed
  <2>5. CASE Commit(x) /\ req[x].name = NoName
    <3>1. /\ \E k, p \in DOMAIN The(rows) :
               /\ The(rows)[k] = req[x].id
               /\ The(rows') = InsertAt(RemoveAt(The(rows), k), p, req[x].id)
          /\ Put1(The(rows'), req[x].id, req[x].before)
      BY <2>5, ListMoved
    <3>2. Asked(req[x]).op = "move" /\ Asked(req[x]).id = req[x].id
          /\ Asked(req[x]).before = req[x].before
      <4>1. req[x].pc = "update"
        BY <2>5 DEF Commit
      <4> QED
        BY <2>5, <4>1 DEF Asked
    <3> QED
      BY <1>0, <1>1, <3>1, <3>2 DEF List!Reorder, List!Before, Put1, The
  <2>6. CASE Commit(x) /\ req[x].name # NoName
    <3>1. \E k \in DOMAIN The(rows) :
            The(rows)[k] = req[x].id /\ The(rows') = RemoveAt(The(rows), k)
      BY <2>6, ListDropped
    <3>2. Asked(req[x]).op = "remove" /\ Asked(req[x]).id = req[x].id
      <4>1. req[x].pc = "update"
        BY <2>6 DEF Commit
      <4> QED
        BY <2>6, <4>1 DEF Asked
    <3> QED
      BY <1>0, <1>1, <3>1, <3>2 DEF List!Drop, The
  <2> QED
    BY <2>2, <2>3, <2>4, <2>5, <2>6
<1> QED
  BY <1>2, <1>3, <1>4, <1>5, Invariant, AloneInvariant, PTL DEF Spec, ListSpec, List!ListSpec, The
=============================================================================

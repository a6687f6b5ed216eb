------------------------------ MODULE BansProofs ------------------------------
(***************************************************************************)
(* Bans last as they were given and nobody joins past one, for any number  *)
(* of users, connections and bans and any width of a duration.             *)
(***************************************************************************)
EXTENDS BansProperties, TLAPS

\* Hours whose nanoseconds fit a duration are not changed by it.
LEMMA FitsUnchanged ==
  ASSUME NEW n \in Nat, n < Half
  PROVE  Signed(n) = n
<1>1. n % (2 * Half) = n
  BY BanConstants
<1> QED
  BY <1>1 DEF Signed

LEMMA SignedInt == ASSUME NEW n \in Int PROVE Signed(n) \in Int
  BY BanConstants DEF Signed

\* Comparing times in nanoseconds is comparing them in hours.
LEMMA HoursInNs ==
  ASSUME NEW t \in Nat, NEW h \in Nat
  PROVE  (t * NsPerHour + h * NsPerHour > now * NsPerHour <=> now < t + h) \/ now \notin Nat
  BY BanConstants

\* A ban whose hours fit is in force exactly as long as it stands.
LEMMA InForceStands ==
  ASSUME Inv, NEW i \in DOMAIN bans, Fits(bans[i])
  PROVE  InForce(bans[i]) <=> Stands(bans[i])
<1> DEFINE ban == bans[i]
<1>1. ban \in Ban /\ ban.from <= now /\ now \in Nat /\ NsPerHour \in Nat \ {0}
  BY BanConstants DEF Inv, TypeOK, EndsAsMade
<1>2. CASE ban.hours > 0
  <2>1. ban.hours \in Nat /\ ban.hours * NsPerHour \in Nat /\ ban.from \in Nat
    BY <1>1, <1>2 DEF Ban
  <2>2. ban.end = At(ban.from * NsPerHour + ban.hours * NsPerHour)
    BY <1>2, <2>1, FitsUnchanged DEF Inv, EndsAsMade, Fits
  <2>3. ban.from * NsPerHour + ban.hours * NsPerHour > now * NsPerHour <=> now < ban.from + ban.hours
    BY <1>1, <2>1, HoursInNs
  <2>4. ~ban.end.ever /\ ban.end.at = ban.from * NsPerHour + ban.hours * NsPerHour
    BY <2>2 DEF At
  <2>5. ~(ban.hours <= 0)
    BY <1>2, <2>1
  <2> QED
    BY <2>3, <2>4, <2>5 DEF InForce, Stands
<1>3. CASE ~(ban.hours > 0)
  BY <1>1, <1>3 DEF Inv, EndsAsMade, Forever, InForce, Stands, Ban
<1> QED
  BY <1>2, <1>3

\* The invariant holds of an empty table.
LEMMA InitInv == Init => Inv
  BY DEF Init, Inv, TypeOK, EndsAsMade, ClearedRightly, ConnPc

\* A new ban is added behind those that were seen.
LEMMA BanInv ==
  ASSUME Inv, NEW u \in User, NEW h \in Int, BanUser(u, h)
  PROVE  Inv'
<1> DEFINE ban == [user |-> u, end |-> EndTime(h), pardoned |-> FALSE, hours |-> h, from |-> now]
<1>1. UNCHANGED <<now, conn, seen>> /\ bans' = Append(bans, ban)
  BY DEF BanUser
<1>2. ban \in Ban
  <2>1. h \in Int /\ now \in Nat /\ NsPerHour \in Int /\ h * NsPerHour \in Int
    BY BanConstants DEF Inv, TypeOK
  <2>2. EndTime(h) \in [ever : BOOLEAN, at : Int]
    BY <2>1, SignedInt DEF EndTime, At, Forever
  <2> QED
    BY <2>1, <2>2 DEF Ban
<1>3. /\ Len(bans) \in Nat /\ Len(bans') = Len(bans) + 1
      /\ DOMAIN bans = 1..Len(bans) /\ DOMAIN bans' = 1..(Len(bans) + 1)
      /\ bans'[Len(bans) + 1] = ban
      /\ \A i \in 1..Len(bans) : bans'[i] = bans[i]
  BY <1>1 DEF Inv, TypeOK
<1>4. TypeOK'
  BY <1>1, <1>2, <1>3 DEF Inv, TypeOK
<1>5. EndsAsMade'
  <2>1. /\ ban.from <= now
        /\ ban.end = IF ban.hours > 0
                     THEN At(ban.from * NsPerHour + Signed(ban.hours * NsPerHour))
                     ELSE Forever
    BY DEF EndTime, Inv, TypeOK
  <2> QED
    BY <1>1, <1>3, <2>1 DEF Inv, EndsAsMade
<1>6. ClearedRightly'
  <2>1. \A c \in Conn : \A i \in 1..seen[c] : i \in 1..Len(bans)
    BY <1>3 DEF Inv, TypeOK
  <2> QED
    BY <1>1, <1>3, <2>1 DEF Inv, ClearedRightly, Fits, Stands
<1> QED
  BY <1>4, <1>5, <1>6 DEF Inv

\* A pardon changes neither whom a ban is for nor when it ends.
LEMMA PardonInv ==
  ASSUME Inv, NEW i \in DOMAIN bans, PardonUser(i)
  PROVE  Inv'
<1>1. /\ UNCHANGED <<now, conn, seen>>
      /\ Len(bans') = Len(bans) /\ DOMAIN bans' = DOMAIN bans /\ DOMAIN bans = 1..Len(bans)
      /\ bans'[i] = [bans[i] EXCEPT !.pardoned = TRUE]
      /\ \A j \in DOMAIN bans : j # i => bans'[j] = bans[j]
  BY DEF PardonUser, Inv, TypeOK
<1> i \in 1..Len(bans) /\ bans[i] \in Ban
  BY DEF Inv, TypeOK
<1>2. TypeOK'
  <2>1. [bans[i] EXCEPT !.pardoned = TRUE] \in Ban
    BY DEF Ban
  <2>2. bans' = [bans EXCEPT ![i] = [bans[i] EXCEPT !.pardoned = TRUE]]
    BY DEF PardonUser, Inv, TypeOK
  <2> QED
    BY <1>1, <2>1, <2>2 DEF Inv, TypeOK
<1>3. \A j \in DOMAIN bans : /\ bans'[j].user = bans[j].user
                             /\ bans'[j].end = bans[j].end
                             /\ bans'[j].hours = bans[j].hours
                             /\ bans'[j].from = bans[j].from
                             /\ bans[j].pardoned => bans'[j].pardoned
  BY <1>1 DEF Inv, TypeOK, Ban
<1>4. EndsAsMade'
  BY <1>1, <1>3 DEF Inv, EndsAsMade
<1>5. ClearedRightly'
  <2>1. \A c \in Conn : \A j \in 1..seen[c] : j \in DOMAIN bans
    BY <1>1 DEF Inv, TypeOK
  <2> QED
    BY <1>1, <1>3, <2>1 DEF Inv, ClearedRightly, Fits, Stands
<1> QED
  BY <1>2, <1>4, <1>5 DEF Inv

\* Time passes: no ban comes back.
LEMMA HourInv ==
  ASSUME Inv, Hour
  PROVE  Inv'
<1>1. UNCHANGED <<bans, conn, seen>> /\ now' = now + 1 /\ now \in Nat
  BY DEF Hour, Inv, TypeOK
<1>2. \A j \in DOMAIN bans : bans[j].from \in Nat /\ bans[j].hours \in Int
  <2>1. \A j \in DOMAIN bans : bans[j] \in Ban
    BY DEF Inv, TypeOK
  <2> QED
    BY <2>1 DEF Ban
<1>3. TypeOK'
  BY <1>1 DEF Inv, TypeOK
<1>4. EndsAsMade'
  BY <1>1, <1>2 DEF Inv, EndsAsMade
<1>5. ClearedRightly'
  <2>1. \A c \in Conn : \A j \in 1..seen[c] : j \in DOMAIN bans
    BY DEF Inv, TypeOK
  <2> QED
    BY <1>1, <1>2, <2>1 DEF Inv, ClearedRightly, Fits, Stands
<1> QED
  BY <1>3, <1>4, <1>5 DEF Inv

\* A handler lets its user past the check only if no ban is in force.
LEMMA ConnectInv ==
  ASSUME Inv, NEW c \in Conn, Ask(c) \/ CheckBan(c) \/ CheckFails(c) \/ Join(c) \/ Leave(c)
  PROVE  Inv'
<1>1. UNCHANGED <<now, bans>> /\ \A d \in Conn : d # c => conn'[d] = conn[d] /\ seen'[d] = seen[d]
  BY DEF Ask, CheckBan, CheckFails, Join, Leave, Inv, TypeOK
<1>2. TypeOK'
  BY DEF Ask, CheckBan, CheckFails, Join, Leave, Inv, TypeOK, ConnPc
<1>3. EndsAsMade'
  BY <1>1 DEF Inv, EndsAsMade
<1>4. ASSUME conn'[c] = "clear", NEW i \in 1..seen'[c],
             bans[i].user = UserOf[c], Fits(bans[i])
      PROVE  ~Stands(bans[i])
  <2>1. ~IsUserBanned(UserOf[c]) /\ seen'[c] = seen[c]
    BY <1>4 DEF Ask, CheckBan, CheckFails, Join, Leave, Inv, TypeOK
  <2>2. i \in DOMAIN bans
    BY <2>1 DEF Inv, TypeOK
  <2> QED
    BY <1>4, <2>1, <2>2, InForceStands DEF IsUserBanned
<1>5. ClearedRightly'
  BY <1>1, <1>4 DEF Inv, ClearedRightly, Fits, Stands
<1> QED
  BY <1>2, <1>3, <1>5 DEF Inv

LEMMA NextInv == Inv /\ [Next]_vars => Inv'
<1>1. Inv /\ UNCHANGED vars => Inv'
  BY DEF vars, Inv, TypeOK, EndsAsMade, ClearedRightly, Fits, Stands
<1> QED
  BY <1>1, BanInv, PardonInv, HourInv, ConnectInv, BanConstants DEF Next, Connecting

\* The bans keep their inductive invariant.
THEOREM Invariant == Spec => []Inv
  BY InitInv, NextInv, PTL DEF Spec

\* Every variable keeps to its type.
THEOREM TypeCorrect == Spec => []TypeOK
<1>1. Inv => TypeOK
  BY DEF Inv
<1> QED
  BY <1>1, Invariant, PTL

\* As far as the hours of a user's bans fit a duration, the user counts as banned
\* exactly as long as one of the bans stands.
THEOREM BansLast == Spec => []LastsAsGiven
<1>1. Inv => LastsAsGiven
  BY InForceStands DEF LastsAsGiven, IsUserBanned
<1> QED
  BY <1>1, Invariant, PTL

\* Nobody joins past a ban that stood from before the request until the join,
\* whatever bans and pardons came between the steps of the handler.
THEOREM NobodyJoinsPastBan == Spec => NoJoinPastBan
<1>1. Inv => \A c \in Conn : Join(c) =>
        ~\E i \in 1..seen[c] : bans[i].user = UserOf[c] /\ Stands(bans[i]) /\ Fits(bans[i])
  BY DEF Inv, ClearedRightly, Join
<1> QED
  BY <1>1, Invariant, PTL DEF NoJoinPastBan
=============================================================================

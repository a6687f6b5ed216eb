--------------------------- MODULE BansProperties ---------------------------
(***************************************************************************)
(* What bans promise.                                                      *)
(***************************************************************************)
EXTENDS Bans

Ban == [user : User, end : [ever : BOOLEAN, at : Int], pardoned : BOOLEAN, hours : Int, from : Nat]

\* Every variable keeps to its type, and the bans a request has seen are still
\* on record.
TypeOK ==
    /\ now \in Nat
    /\ bans \in Seq(Ban)
    /\ conn \in [Conn -> ConnPc]
    /\ seen \in [Conn -> 0..Len(bans)]

\* The ban as the administrator gave it: without a duration for ever, and
\* otherwise for that many hours, unless it is pardoned.
Stands(ban) == (ban.hours <= 0 \/ now < ban.from + ban.hours) /\ ~ban.pardoned

\* The hours of a ban are nanoseconds that fit a time.Duration; if they do not,
\* the ban may end at any time.
Fits(ban) == ban.hours * NsPerHour < Half

\* The inductive reason for both promises: each ban ends when EndTime said at the
\* hour it was made, and a handler that has let its user past the check found
\* no ban among those it has seen, and none of them has come back since.
EndsAsMade ==
    \A i \in DOMAIN bans :
      LET ban == bans[i]
      IN /\ ban.from <= now
         /\ ban.end = IF ban.hours > 0
                      THEN At(ban.from * NsPerHour + Signed(ban.hours * NsPerHour))
                      ELSE Forever

ClearedRightly ==
    \A c \in Conn : conn[c] = "clear" =>
      \A i \in 1..seen[c] : bans[i].user = UserOf[c] /\ Fits(bans[i]) => ~Stands(bans[i])

Inv == TypeOK /\ EndsAsMade /\ ClearedRightly

\* A ban lasts as long as the administrator said: nobody counts as banned who
\* is not, and nobody as free who is banned, also when several of a user's bans
\* overlap and some of them are pardoned.  This is as far as its hours fit.
LastsAsGiven ==
    \A u \in User :
      LET own == {i \in DOMAIN bans : bans[i].user = u}
      IN (\A i \in own : Fits(bans[i]))
           => (IsUserBanned(u) <=> \E i \in own : Stands(bans[i]))

\* Nobody joins past a ban that stood from before the request until the join:
\* the check and the join are separate steps, and bans may come, end and be
\* pardoned between them, but a failed or a stale check never lets such a user
\* in.
NoJoinPastBan ==
    [][\A c \in Conn :
         Join(c) => ~\E i \in 1..seen[c] :
                       bans[i].user = UserOf[c] /\ Stands(bans[i]) /\ Fits(bans[i])]_vars
=============================================================================

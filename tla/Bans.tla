-------------------------------- MODULE Bans --------------------------------
(***************************************************************************)
(* Bans (chatserver/internal/db/bans.go, server/handlers/users.go) and the *)
(* check the connection handler makes of them (handleConnection) before it *)
(* lets a user in.                                                         *)
(*                                                                         *)
(* An administrator gives a ban a duration in hours.  The server turns it  *)
(* into nanoseconds, as an int64, and stores when the ban ends.  Nobody is *)
(* disconnected by a ban.                                                  *)
(***************************************************************************)
EXTENDS Integers, SequencesExt

CONSTANTS
    User,
    Conn,         \* the requests to connect that may be made
    UserOf,       \* the user of each (claim "sub")
    Hours,        \* the durations administrators give; 0 stands for none given
    NsPerHour,    \* nanoseconds in an hour (3600 * 10^9)
    Half,         \* half the values of a time.Duration (2^63)
    BanMax,       \* bound: bans ever made
    NowMax        \* bound: hours

ASSUME BanConstants ==
    /\ UserOf \in [Conn -> User]
    /\ Hours \subseteq Int
    /\ NsPerHour \in Nat \ {0} /\ Half \in Nat \ {0}
    /\ BanMax \in Nat /\ NowMax \in Nat

VARIABLES
    now,      \* the time, in hours
    bans,     \* the table: the i-th row has id i
    conn,     \* where each connection's handler is
    seen      \* history: how many bans there were when the user asked to connect

vars == <<now, bans, conn, seen>>

ConnPc == {"idle", "check", "clear", "joined"}

\* end_time NULL: for ever.
Forever == [ever |-> TRUE, at |-> 0]
At(ns) == [ever |-> FALSE, at |-> ns]

Init ==
    /\ now = 0
    /\ bans = <<>>
    /\ conn = [c \in Conn |-> "idle"]
    /\ seen = [c \in Conn |-> 0]

Hour ==
    /\ now < NowMax
    /\ now' = now + 1
    /\ UNCHANGED <<bans, conn, seen>>

-----------------------------------------------------------------------------
\* time.Duration(duration) * time.Hour
Signed(n) == LET m == n % (2 * Half) IN IF m < Half THEN m ELSE m - 2 * Half

EndTime(hours) == IF hours > 0 THEN At(now * NsPerHour + Signed(hours * NsPerHour)) ELSE Forever

BanUser(u, h) ==
    /\ Len(bans) < BanMax
    /\ bans' = Append(bans, [user |-> u, end |-> EndTime(h), pardoned |-> FALSE,
                             hours |-> h, from |-> now])
    /\ UNCHANGED <<now, conn, seen>>

\* Mutant: a pardon deletes the record of the ban.
PardonDeleting(i) ==
    /\ i \in DOMAIN bans
    /\ bans' = RemoveAt(bans, i)
    /\ UNCHANGED <<now, conn, seen>>

\* One ban is pardoned, by its id; it may have been already.
PardonUser(i) ==
    /\ i \in DOMAIN bans
    /\ bans' = [bans EXCEPT ![i].pardoned = TRUE]
    /\ UNCHANGED <<now, conn, seen>>

InForce(ban) == (ban.end.ever \/ ban.end.at > now * NsPerHour) /\ ~ban.pardoned

\* Mutant: only the latest ban of the user counts.
IsUserBannedLatest(u) ==
    \E i \in DOMAIN bans :
      /\ bans[i].user = u /\ InForce(bans[i])
      /\ \A j \in DOMAIN bans : bans[j].user = u => j <= i

IsUserBanned(u) == \E i \in DOMAIN bans : bans[i].user = u /\ InForce(bans[i])

-----------------------------------------------------------------------------
\* handleConnection, up to where the connection is upgraded and registered.

\* The token is valid; the bans are looked up next.
Ask(c) ==
    /\ conn[c] = "idle"
    /\ conn' = [conn EXCEPT ![c] = "check"]
    /\ seen' = [seen EXCEPT ![c] = Len(bans)]
    /\ UNCHANGED <<now, bans>>

\* Banned: the request is refused, and its user may ask again.
CheckBan(c) ==
    /\ conn[c] = "check"
    /\ conn' = [conn EXCEPT ![c] = IF IsUserBanned(UserOf[c]) THEN "idle" ELSE "clear"]
    /\ seen' = [seen EXCEPT ![c] = IF IsUserBanned(UserOf[c]) THEN 0 ELSE @]
    /\ UNCHANGED <<now, bans>>

\* Mutant: a check that fails lets the user in.
CheckFailsOpen(c) ==
    /\ conn[c] = "check"
    /\ conn' = [conn EXCEPT ![c] = "clear"]
    /\ UNCHANGED <<now, bans, seen>>

\* The bans cannot be read: the user is turned away.
CheckFails(c) ==
    /\ conn[c] = "check"
    /\ conn' = [conn EXCEPT ![c] = "idle"]
    /\ seen' = [seen EXCEPT ![c] = 0]
    /\ UNCHANGED <<now, bans>>

\* The connection is upgraded, and the client registered with the hub.
Join(c) ==
    /\ conn[c] = "clear"
    /\ conn' = [conn EXCEPT ![c] = "joined"]
    /\ seen' = [seen EXCEPT ![c] = 0]
    /\ UNCHANGED <<now, bans>>

\* A connection ends, and its user may ask for another.
Leave(c) ==
    /\ conn[c] = "joined"
    /\ conn' = [conn EXCEPT ![c] = "idle"]
    /\ UNCHANGED <<now, bans, seen>>

Connecting == \E c \in Conn : Ask(c) \/ CheckBan(c) \/ CheckFails(c) \/ Join(c) \/ Leave(c)

Next ==
    \/ Hour
    \/ \E u \in User, h \in Hours : BanUser(u, h)
    \/ \E i \in DOMAIN bans : PardonUser(i)
    \/ Connecting

Spec == Init /\ [][Next]_vars
=============================================================================

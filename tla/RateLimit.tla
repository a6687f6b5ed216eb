----------------------------- MODULE RateLimit -----------------------------
(***************************************************************************)
(* The rate limiter: the counter per user in Valkey (cache/rate_limit.go), *)
(* and its settings, which live in row 1 of the rate_limiter table         *)
(* (db/rate_limiter.go) and in two fields of the cache that the hub reads  *)
(* and the handler of PATCH /ratelimits (handlers/rate_limiter.go) writes, *)
(* without a lock.                                                         *)
(*                                                                         *)
(* Time passes in ticks; a counter lives for as many ticks as the window   *)
(* had when it was first incremented.                                      *)
(***************************************************************************)
EXTENDS Integers

CONSTANTS
    User,
    Admin,          \* the administrators who may change the settings at the same time
    RowIds,         \* the ids they may name; row 1 is the only row there is
    Limits,         \* the message limits they may set
    Windows,        \* the windows they may set
    DefaultLimit,   \* the settings ensureDefaultRateLimit inserts (10 and 60)
    DefaultWindow,
    CountMax,       \* bound: a counter is counted up to here
    SendMax,        \* bound: messages of one user in one tick
    PatchMax,       \* bound: changes of the settings
    CrashMax        \* bound: restarts of the server

ASSUME RateConstants ==
    /\ RowIds \subseteq Nat
    /\ Limits \subseteq Int /\ Windows \subseteq Int
    /\ DefaultLimit \in Limits /\ DefaultWindow \in Windows
    /\ DefaultLimit >= 0 /\ DefaultWindow > 0
    /\ \A l \in Limits : l < CountMax
    /\ CountMax \in Nat /\ SendMax \in Nat /\ PatchMax \in Nat /\ CrashMax \in Nat

Settings == [limit : Limits, window : Windows]

VARIABLES
    row,       \* PostgreSQL: row 1
    memory,    \* MessageLimit and WindowSeconds of the cache
    counter,   \* Valkey: ratelimit:<userID>, its count and the ticks it has left
    hub,       \* what the hub has read of the settings for the message it handles
    admin,     \* where each administrator's request is
    passed,    \* history: for each user, the messages allowed in the last w ticks, this one included
    burst,     \* history: messages of each user in this tick
    behind,    \* history: the row has what a request wrote that was told it had failed
    patches, crashes

vars == <<row, memory, counter, hub, admin, passed, burst, behind, patches, crashes>>

NoCounter == [count |-> 0, ttl |-> 0]
HubIdle == [pc |-> "idle", user |-> {}, limit |-> DefaultLimit, window |-> DefaultWindow]
AdminIdle == [pc |-> "idle", id |-> 0, to |-> [limit |-> DefaultLimit, window |-> DefaultWindow]]
HubPc == {"idle", "window", "check"}
AdminPc == {"idle", "db", "limit", "window"}

\* How far back the history goes, in ticks.
Spans == 1..DefaultWindow

\* Connect inserts the default row; New copies it to the cache.
Init ==
    /\ row = [limit |-> DefaultLimit, window |-> DefaultWindow]
    /\ memory = row
    /\ counter = [u \in User |-> NoCounter]
    /\ hub = HubIdle
    /\ admin = [a \in Admin |-> AdminIdle]
    /\ passed = [u \in User |-> [w \in Spans |-> 0]]
    /\ burst = [u \in User |-> 0]
    /\ behind = FALSE
    /\ patches = 0
    /\ crashes = 0

-----------------------------------------------------------------------------
\* AttemptCacheWithRateLimit and AttemptCachePrivateWithRateLimit, called by the
\* hub, one message at a time: it reads the limit, then the window.

ReadLimit(u) ==
    /\ hub.pc = "idle"
    /\ burst[u] < SendMax
    /\ hub' = [HubIdle EXCEPT !.pc = "window", !.user = {u}, !.limit = memory.limit]
    /\ burst' = [burst EXCEPT ![u] = @ + 1]
    /\ UNCHANGED <<row, memory, counter, admin, passed, behind, patches, crashes>>

ReadWindow ==
    /\ hub.pc = "window"
    /\ hub' = [hub EXCEPT !.pc = "check", !.window = memory.window]
    /\ UNCHANGED <<row, memory, counter, admin, passed, burst, behind, patches, crashes>>

Count(u) == IF counter[u].count < CountMax THEN counter[u].count + 1 ELSE CountMax

\* Mutant: every message renews the time the counter has left.
IncrementRenewing(u) ==
    IF hub.window <= 0 THEN NoCounter
    ELSE [count |-> Count(u), ttl |-> hub.window]

\* Mutant: no time is set when the window is not positive.
IncrementUnlimited(u) ==
    IF Count(u) > 1 THEN [counter[u] EXCEPT !.count = Count(u)]
    ELSE [count |-> 1, ttl |-> IF hub.window > 0 THEN hub.window ELSE 0]

\* INCR, and EXPIRE on the first; EXPIRE with nothing left deletes the counter.
Increment(u) ==
    IF Count(u) > 1 THEN [counter[u] EXCEPT !.count = Count(u)]
    ELSE IF hub.window <= 0 THEN NoCounter
    ELSE [count |-> 1, ttl |-> hub.window]

\* Mutant: one message more than the limit.
AllowedOffByOne(u) == Count(u) <= hub.limit + 1

Allowed(u) == Count(u) <= hub.limit

CheckRateLimit(u) ==
    /\ hub.pc = "check" /\ hub.user = {u}
    /\ counter' = [counter EXCEPT ![u] = Increment(u)]
    /\ passed' = IF Allowed(u) THEN [passed EXCEPT ![u] = [w \in Spans |-> @[w] + 1]] ELSE passed
    /\ hub' = HubIdle
    /\ UNCHANGED <<row, memory, admin, burst, behind, patches, crashes>>

\* Valkey does not answer: the message is dropped, and may have been counted.
CheckFails(u) ==
    /\ hub.pc = "check" /\ hub.user = {u}
    /\ counter' \in {counter, [counter EXCEPT ![u] = Increment(u)]}
    /\ hub' = HubIdle
    /\ UNCHANGED <<row, memory, admin, passed, burst, behind, patches, crashes>>

\* A counter without a time to live stays.
Aged(c) ==
    CASE c.ttl = 0 -> c
      [] c.ttl = 1 -> NoCounter
      [] OTHER -> [c EXCEPT !.ttl = @ - 1]

\* A second passes.
Tick ==
    /\ counter' = [u \in User |-> Aged(counter[u])]
    /\ passed' = [u \in User |-> [w \in Spans |-> IF w = 1 THEN 0 ELSE passed[u][w - 1]]]
    /\ burst' = [u \in User |-> 0]
    /\ UNCHANGED <<row, memory, hub, admin, behind, patches, crashes>>

-----------------------------------------------------------------------------
\* PATCH /ratelimits: the row, then the two fields of the cache.  Nothing checks
\* the values, or that a row has the id.

Patch(a) ==
    /\ admin[a].pc = "idle"
    /\ patches < PatchMax
    /\ patches' = patches + 1
    /\ \E id \in RowIds, to \in Settings : admin' = [admin EXCEPT ![a] = [pc |-> "db", id |-> id, to |-> to]]
    /\ UNCHANGED <<row, memory, counter, hub, passed, burst, behind, crashes>>

UpdateRateLimiter(a) ==
    /\ admin[a].pc = "db"
    /\ row' = IF admin[a].id = 1 THEN admin[a].to ELSE row
    /\ behind' = (behind /\ admin[a].id # 1)
    /\ admin' = [admin EXCEPT ![a].pc = "limit"]
    /\ UNCHANGED <<memory, counter, hub, passed, burst, patches, crashes>>

\* The statement fails, or is carried out and its answer is lost: 500, and the
\* cache is left alone.
UpdateFails(a) ==
    /\ admin[a].pc = "db"
    /\ \/ UNCHANGED <<row, behind>>
       \/ admin[a].id = 1 /\ row' = admin[a].to /\ behind' = TRUE
    /\ admin' = [admin EXCEPT ![a] = AdminIdle]
    /\ UNCHANGED <<memory, counter, hub, passed, burst, patches, crashes>>

SetLimit(a) ==
    /\ admin[a].pc = "limit"
    /\ memory' = [memory EXCEPT !.limit = admin[a].to.limit]
    /\ admin' = [admin EXCEPT ![a].pc = "window"]
    /\ UNCHANGED <<row, counter, hub, passed, burst, behind, patches, crashes>>

SetWindow(a) ==
    /\ admin[a].pc = "window"
    /\ memory' = [memory EXCEPT !.window = admin[a].to.window]
    /\ admin' = [admin EXCEPT ![a] = AdminIdle]
    /\ UNCHANGED <<row, counter, hub, passed, burst, behind, patches, crashes>>

AdminStep(a) == UpdateRateLimiter(a) \/ UpdateFails(a) \/ SetLimit(a) \/ SetWindow(a)

\* Mutant: the settings are not read back from the database.
RestartWithDefaults ==
    /\ crashes < CrashMax
    /\ crashes' = crashes + 1
    /\ memory' = [limit |-> DefaultLimit, window |-> DefaultWindow]
    /\ hub' = HubIdle
    /\ admin' = [a \in Admin |-> AdminIdle]
    /\ behind' = FALSE
    /\ UNCHANGED <<row, counter, passed, burst, patches>>

\* The server is started again; New reads row 1.
Restart ==
    /\ crashes < CrashMax
    /\ crashes' = crashes + 1
    /\ memory' = row
    /\ hub' = HubIdle
    /\ admin' = [a \in Admin |-> AdminIdle]
    /\ behind' = FALSE
    /\ UNCHANGED <<row, counter, passed, burst, patches>>

HubStep(u) == ReadLimit(u) \/ ReadWindow \/ CheckRateLimit(u) \/ CheckFails(u)

Next ==
    \/ \E u \in User : HubStep(u)
    \/ Tick
    \/ \E a \in Admin : Patch(a) \/ AdminStep(a)
    \/ Restart

Spec == Init /\ [][Next]_vars

\* Time passes.
FairSpec == Spec /\ WF_vars(Tick)
=============================================================================

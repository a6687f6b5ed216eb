------------------------ MODULE RateLimitProperties ------------------------
(***************************************************************************)
(* What the rate limiter promises.                                         *)
(***************************************************************************)
EXTENDS RateLimit

\* The counters are fixed windows: as long as the settings stay as they are, no
\* span of one window sees more than twice the limit of a user's messages.
AtMostTwice ==
    patches = 0 => \A u \in User : passed[u][DefaultWindow] <= 2 * DefaultLimit

\* The inductive reason for AtMostTwice.  A counter that counts has been there for
\* so many ticks, and what was allowed since is no more than it counted; in the rest
\* of a window before, one counter at most has counted.
Default == [limit |-> DefaultLimit, window |-> DefaultWindow]

Age(u) == DefaultWindow + 1 - counter[u].ttl

AsDefault ==
    /\ row = Default /\ memory = Default
    /\ hub.limit = DefaultLimit /\ hub.window = DefaultWindow
    /\ \A a \in Admin : admin[a].pc = "idle"

Windowed(u) ==
    /\ \A v, w \in Spans : v <= w => passed[u][v] <= passed[u][w]
    /\ IF counter[u].count = 0
       THEN passed[u][1] = 0 /\ passed[u][DefaultWindow] <= DefaultLimit
       ELSE /\ Age(u) \in Spans
            /\ passed[u][Age(u)] <= counter[u].count /\ passed[u][Age(u)] <= DefaultLimit
            /\ passed[u][DefaultWindow] - passed[u][Age(u)] <= DefaultLimit

FixedWindows ==
    /\ passed \in [User -> [Spans -> Nat]] /\ patches \in Nat
    /\ patches = 0 => AsDefault /\ \A u \in User : Windowed(u)

\* A counter that counts has time left, whatever the settings become: no user is
\* blocked for good by a counter that does not expire.
CountersExpire == \A u \in User : counter[u].count > 0 => counter[u].ttl > 0

\* A user who is blocked is let through again in the end, also if he keeps
\* sending.
Released ==
    \A u \in User : (counter[u].count > DefaultLimit) ~> (counter[u].count <= DefaultLimit)

\* When no request is under way, the limiter applies what the database says,
\* across restarts and updates that fail.  One kind of failure makes an exception,
\* until the next update or restart: when the row was updated and only the answer
\* was lost, the administrator is told of a failure, and the cache stays as it was.
SettingsAgree == (\A a \in Admin : admin[a].pc = "idle") /\ ~behind => memory = row
=============================================================================

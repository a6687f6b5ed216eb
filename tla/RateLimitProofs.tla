-------------------------- MODULE RateLimitProofs --------------------------
(***************************************************************************)
(* The rate limiter's counters and settings, for any limits and windows,   *)
(* users, ids in requests, and any number of restarts.                     *)
(***************************************************************************)
EXTENDS RateLimitProperties, TLAPS

\* The types of the counters and of the settings, all that the theorems below need.
RateType ==
    /\ row \in Settings /\ memory \in Settings
    /\ counter \in [User -> [count : Nat, ttl : Nat]]
    /\ hub.window \in Windows
    /\ admin \in [Admin -> [pc : AdminPc, id : Nat, to : Settings]]

\* Settings are integers, and there is a default.
LEMMA SettingsInt ==
  /\ \A s \in Settings : s.limit \in Int /\ s.window \in Int
  /\ [limit |-> DefaultLimit, window |-> DefaultWindow] \in Settings
  BY RateConstants DEF Settings

\* The server starts with the types of the rate limiter.
LEMMA InitRate == Init => RateType
  BY SettingsInt, RateConstants DEF Init, RateType, NoCounter, HubIdle, AdminIdle, AdminPc

\* An increment leaves a counter that counts with time, or no counter.
LEMMA IncrementType ==
  ASSUME RateType, NEW u \in User,
         counter[u].count > 0 => counter[u].ttl > 0
  PROVE  /\ Increment(u) \in [count : Nat, ttl : Nat]
         /\ Increment(u).count > 0 => Increment(u).ttl > 0
<1>1. /\ counter[u] \in [count : Nat, ttl : Nat]
      /\ hub.window \in Int
      /\ CountMax \in Nat
  BY RateConstants DEF RateType
<1>2. Count(u) \in Nat
  BY <1>1 DEF Count
<1>3. CASE Count(u) > 1
  <2>1. counter[u].count > 0
    BY <1>1, <1>3, RateConstants DEF Count
  <2>2. Increment(u) = [count |-> Count(u), ttl |-> counter[u].ttl]
    BY <1>1, <1>3 DEF Increment
  <2> QED
    BY <1>1, <1>2, <2>1, <2>2
<1>4. CASE ~(Count(u) > 1)
  BY <1>1, <1>4 DEF Increment, NoCounter
<1> QED
  BY <1>3, <1>4

\* Every step keeps the types and the time of the counters.
LEMMA NextRate == RateType /\ CountersExpire /\ [Next]_vars => RateType' /\ CountersExpire'
<1> SUFFICES ASSUME RateType, CountersExpire, [Next]_vars
             PROVE  RateType' /\ CountersExpire'
  OBVIOUS
<1>1. ASSUME NEW u \in User, HubStep(u) PROVE RateType' /\ CountersExpire'
  <2>. HubIdle.window \in Windows
    BY RateConstants DEF HubIdle
  <2>1. CASE ReadLimit(u)
    BY <2>1 DEF ReadLimit, HubIdle, RateType, CountersExpire
  <2>2. CASE ReadWindow
    <3>1. hub'.window = memory.window \/ hub'.window = hub.window
      BY <2>2 DEF ReadWindow
    <3> QED
      BY <2>2, <3>1 DEF ReadWindow, RateType, Settings, CountersExpire
  <2>3. CASE CheckRateLimit(u) \/ CheckFails(u)
    <3>1. /\ UNCHANGED <<row, memory, admin>> /\ hub'.window \in Windows
          /\ counter' = counter \/ counter' = [counter EXCEPT ![u] = Increment(u)]
      BY <2>3 DEF CheckRateLimit, CheckFails
    <3>2. counter[u].count > 0 => counter[u].ttl > 0
      BY DEF CountersExpire
    <3> QED
      BY <3>1, <3>2, IncrementType DEF RateType, CountersExpire
  <2> QED
    BY <1>1, <2>1, <2>2, <2>3 DEF HubStep
<1>2. CASE Tick
  <2>1. UNCHANGED <<row, memory, hub, admin>>
    BY <1>2 DEF Tick
  <2>2. ASSUME NEW u \in User
        PROVE  /\ counter'[u] \in [count : Nat, ttl : Nat]
               /\ counter'[u].count > 0 => counter'[u].ttl > 0
    <3>1. counter[u] \in [count : Nat, ttl : Nat] /\ (counter[u].count > 0 => counter[u].ttl > 0)
      BY DEF RateType, CountersExpire
    <3>2. counter'[u] = CASE counter[u].ttl = 0 -> counter[u]
                          [] counter[u].ttl = 1 -> NoCounter
                          [] OTHER -> [counter[u] EXCEPT !.ttl = @ - 1]
      BY <1>2 DEF Tick, Aged
    <3> QED
      BY <3>1, <3>2 DEF NoCounter
  <2>3. counter' \in [User -> [count : Nat, ttl : Nat]]
    <3>1. DOMAIN counter' = User /\ counter' = [u \in User |-> counter'[u]]
      BY <1>2 DEF Tick
    <3> QED
      BY <2>2, <3>1
  <2> QED
    BY <2>1, <2>2, <2>3 DEF RateType, CountersExpire
<1>3. ASSUME NEW a \in Admin, Patch(a) \/ AdminStep(a) PROVE RateType' /\ CountersExpire'
  <2>1. counter' = counter /\ hub' = hub
    BY <1>3 DEF Patch, AdminStep, UpdateRateLimiter, UpdateFails, SetLimit, SetWindow
  <2>2. admin[a] \in [pc : AdminPc, id : Nat, to : Settings]
    BY DEF RateType
  <2>3. row' \in Settings /\ memory' \in Settings
    BY <1>3, <2>2
       DEF Patch, AdminStep, UpdateRateLimiter, UpdateFails, SetLimit, SetWindow, RateType, Settings
  <2>4. admin' \in [Admin -> [pc : AdminPc, id : Nat, to : Settings]]
    <3>1. AdminIdle \in [pc : AdminPc, id : Nat, to : Settings]
      BY SettingsInt DEF AdminIdle, AdminPc
    <3>2. CASE Patch(a)
      <4>1. PICK id \in RowIds, to \in Settings :
              admin' = [admin EXCEPT ![a] = [pc |-> "db", id |-> id, to |-> to]]
        BY <3>2 DEF Patch
      <4> QED
        BY <4>1, RateConstants DEF RateType, AdminPc
    <3>3. CASE UpdateRateLimiter(a) \/ SetLimit(a)
      BY <2>2, <3>3 DEF UpdateRateLimiter, SetLimit, RateType, AdminPc
    <3>4. CASE UpdateFails(a) \/ SetWindow(a)
      BY <3>1, <3>4 DEF UpdateFails, SetWindow, RateType
    <3> QED
      BY <1>3, <3>2, <3>3, <3>4 DEF AdminStep
  <2> QED
    BY <2>1, <2>3, <2>4 DEF RateType, CountersExpire
<1>4. CASE Restart
  BY <1>4, SettingsInt, RateConstants DEF Restart, RateType, CountersExpire, HubIdle, AdminIdle, AdminPc
<1>5. CASE UNCHANGED vars
  BY <1>5 DEF vars, RateType, CountersExpire
<1> QED
  BY <1>1, <1>2, <1>3, <1>4, <1>5 DEF Next

\* No user is blocked by a counter that never expires, whatever limits and
\* windows are set, and whenever the server is restarted.
THEOREM NoEndlessBlock == Spec => []CountersExpire
<1>1. Init => CountersExpire
  BY DEF Init, CountersExpire, NoCounter
<1> QED
  BY <1>1, InitRate, NextRate, PTL DEF Spec

-----------------------------------------------------------------------------
(***************************************************************************)
(* One administrator, who names the row there is.  While a request is under*)
(* way, the row is ahead of the cache, field by field; it stays ahead when *)
(* the answer to its update was lost.                                      *)
(***************************************************************************)
InStep ==
    /\ (\A a \in Admin : admin[a].pc \in {"idle", "db"}) /\ ~behind => memory = row
    /\ behind => \A a \in Admin : admin[a].pc \in {"idle", "db"}
    /\ \A a \in Admin :
         /\ admin[a].pc # "idle" => admin[a].id = 1
         /\ admin[a].pc \in {"limit", "window"} => row = admin[a].to
         /\ admin[a].pc = "window" => memory.limit = row.limit

\* Every step keeps the settings of the cache in step with the row, but for what
\* the one request under way has still to write.
LEMMA InStepNext ==
  ASSUME RowIds \subseteq {1}, \A a, b \in Admin : a = b,
         RateType, InStep, [Next]_vars
  PROVE  InStep'
<1>1. ASSUME NEW u \in User, HubStep(u) PROVE InStep'
  BY <1>1 DEF HubStep, ReadLimit, ReadWindow, CheckRateLimit, CheckFails, InStep
<1>2. ASSUME NEW a \in Admin, Patch(a) \/ AdminStep(a) PROVE InStep'
  <2>1. \A b \in Admin : b = a
    OBVIOUS
  <2>2. admin[a] \in [pc : AdminPc, id : Nat, to : Settings] /\ row \in Settings /\ memory \in Settings
    BY DEF RateType
  <2>3. CASE Patch(a)
    <3>1. PICK id \in RowIds, to \in Settings :
            admin' = [admin EXCEPT ![a] = [pc |-> "db", id |-> id, to |-> to]]
      BY <2>3 DEF Patch
    <3>2. admin[a].pc = "idle" /\ admin'[a].pc = "db" /\ admin'[a].id = 1 /\ UNCHANGED <<row, memory, behind>>
      BY <2>3, <3>1 DEF Patch, RateType
    <3> QED
      BY <2>1, <3>2 DEF InStep
  <2>4. CASE UpdateRateLimiter(a)
    <3>1. /\ admin[a].pc = "db" /\ admin'[a].pc = "limit" /\ admin'[a].id = 1
          /\ row' = admin'[a].to /\ ~behind'
      BY <2>2, <2>4 DEF UpdateRateLimiter, RateType, InStep
    <3> QED
      BY <2>1, <3>1 DEF InStep
  <2>5. CASE UpdateFails(a)
    <3>1. admin[a].pc = "db" /\ admin'[a].pc = "idle"
          /\ memory' = memory /\ (behind' \/ UNCHANGED <<row, behind>>)
      BY <2>2, <2>5 DEF UpdateFails, RateType, AdminIdle
    <3> QED
      BY <2>1, <3>1 DEF InStep
  <2>6. CASE SetLimit(a)
    <3>1. /\ admin[a].pc = "limit" /\ admin'[a] = [admin[a] EXCEPT !.pc = "window"]
          /\ row' = row /\ behind' = behind /\ memory'.limit = admin[a].to.limit
      BY <2>2, <2>6 DEF SetLimit, RateType, Settings
    <3> QED
      BY <2>1, <2>2, <3>1 DEF InStep
  <2>7. CASE SetWindow(a)
    <3>1. row = admin[a].to /\ memory.limit = row.limit
      BY <2>7 DEF SetWindow, InStep
    <3>2. memory' = row
      BY <2>2, <2>7, <3>1 DEF SetWindow, Settings
    <3>3. row' = row /\ behind' = behind /\ admin'[a].pc = "idle"
      BY <2>7 DEF SetWindow, RateType, AdminIdle
    <3> QED
      BY <2>1, <3>2, <3>3 DEF InStep
  <2> QED
    BY <1>2, <2>3, <2>4, <2>5, <2>6, <2>7 DEF AdminStep
<1>3. CASE Tick \/ UNCHANGED vars
  BY <1>3 DEF Tick, vars, InStep
<1>4. CASE Restart
  BY <1>4 DEF Restart, InStep, AdminIdle
<1> QED
  BY <1>1, <1>2, <1>3, <1>4 DEF Next

\* With one administrator the cache applies what the database says whenever no
\* request is under way, across restarts and failed updates, but for one that was
\* carried out and whose answer was lost.
THEOREM SettingsInStep ==
  ASSUME RowIds \subseteq {1}, \A a, b \in Admin : a = b
  PROVE  Spec => []SettingsAgree
<1>1. Init => RateType /\ CountersExpire /\ InStep
  BY InitRate DEF Init, CountersExpire, NoCounter, InStep, AdminIdle
<1>2. RateType /\ CountersExpire /\ InStep /\ [Next]_vars => RateType' /\ CountersExpire' /\ InStep'
  BY NextRate, InStepNext
<1>3. InStep => SettingsAgree
  BY DEF InStep, SettingsAgree
<1> QED
  BY <1>1, <1>2, <1>3, PTL DEF Spec

-----------------------------------------------------------------------------
(***************************************************************************)
(* Twice the limit in a window, as long as nobody changes the settings.    *)
(***************************************************************************)
LEMMA LimitFacts ==
  /\ DefaultLimit \in Nat /\ DefaultWindow \in Nat \ {0}
  /\ CountMax \in Nat /\ DefaultLimit < CountMax
  /\ Spans = 1..DefaultWindow /\ 1 \in Spans /\ DefaultWindow \in Spans
<1>1. DefaultLimit \in Int /\ DefaultWindow \in Int
  BY RateConstants
<1> QED
  BY <1>1, RateConstants DEF Spans

\* A message of u is counted, and may be allowed.
LEMMA CountedWindowed ==
  ASSUME RateType, FixedWindows, NEW u \in User, Windowed(u),
         hub.limit = DefaultLimit, hub.window = DefaultWindow,
         counter'[u] = Increment(u),
         passed'[u] = passed[u] \/ (Allowed(u) /\ passed'[u] = [w \in Spans |-> passed[u][w] + 1])
  PROVE  Windowed(u)'
<1> DEFINE p == passed[u]
           c == counter[u]
<1>1. p \in [Spans -> Nat] /\ c \in [count : Nat, ttl : Nat]
  BY DEF FixedWindows, RateType
<1>2. PICK b \in {0, 1} : /\ \A w \in Spans : passed'[u][w] = p[w] + b
                          /\ b = 1 => Count(u) <= DefaultLimit
  <2>1. CASE passed'[u] = passed[u]
    BY <1>1, <2>1
  <2>2. CASE Allowed(u) /\ passed'[u] = [w \in Spans |-> passed[u][w] + 1]
    BY <1>1, <2>2 DEF Allowed
  <2> QED
    BY <2>1, <2>2
<1>3. \A v, w \in Spans : v <= w => p[v] <= p[w]
  BY DEF Windowed
<1>4. \A v, w \in Spans : v <= w => passed'[u][v] <= passed'[u][w]
  BY <1>1, <1>2, <1>3
<1>5. CASE Count(u) > 1
  <2>1. c.count # 0
    BY <1>1, <1>5, LimitFacts DEF Count
  <2>2. /\ Age(u) \in Spans
        /\ p[Age(u)] <= c.count /\ p[Age(u)] <= DefaultLimit
        /\ p[DefaultWindow] - p[Age(u)] <= DefaultLimit
    BY <2>1 DEF Windowed
  <2>3. counter'[u] = [c EXCEPT !.count = Count(u)]
    BY <1>5 DEF Increment
  <2>4. counter'[u].count = Count(u) /\ counter'[u].ttl = c.ttl /\ Count(u) # 0
    BY <1>1, <1>5, <2>3, LimitFacts DEF Count
  <2>5. Age(u)' = Age(u)
    BY <2>4 DEF Age
  <2>6. p[Age(u)] + b <= Count(u) /\ p[Age(u)] + b <= DefaultLimit
    <3>1. p[Age(u)] \in Nat /\ Count(u) \in Nat
      BY <1>1, <2>2, LimitFacts DEF Count
    <3> PICK n \in Nat : n = p[Age(u)]
      BY <3>1
    <3> n <= c.count /\ n <= DefaultLimit /\ c.count \in Nat /\ b \in Int
      BY <1>1, <2>2
    <3>2. CASE c.count < CountMax
      <4>1. Count(u) = c.count + 1
        BY <3>2 DEF Count
      <4> HIDE DEF c, p
      <4>2. CASE b = 1
        BY <1>2, <4>1, <4>2, LimitFacts
      <4>3. CASE b = 0
        BY <4>1, <4>3, LimitFacts
      <4> QED
        BY <4>2, <4>3
    <3>3. CASE ~(c.count < CountMax)
      <4>1. Count(u) = CountMax
        BY <3>3 DEF Count
      <4>2. b = 0
        BY <1>2, <4>1, LimitFacts
      <4> HIDE DEF c, p
      <4> QED
        BY <4>1, <4>2, LimitFacts
    <3> QED
      BY <3>2, <3>3
  <2>7. passed'[u][DefaultWindow] - passed'[u][Age(u)] <= DefaultLimit
    <3>1. PICK m, n \in Nat : m = p[DefaultWindow] /\ n = p[Age(u)]
      BY <1>1, <2>2, LimitFacts
    <3>2. passed'[u][DefaultWindow] = m + b /\ passed'[u][Age(u)] = n + b
      BY <1>2, <2>2, <3>1, LimitFacts
    <3>3. m - n <= DefaultLimit /\ b \in Int /\ (m + b) - (n + b) = m - n
      BY <2>2, <3>1
    <3> HIDE DEF p, c
    <3> QED
      BY <3>2, <3>3
  <2> QED
    BY <1>2, <1>4, <2>2, <2>4, <2>5, <2>6, <2>7 DEF Windowed
<1>6. CASE ~(Count(u) > 1)
  <2>1. counter'[u] = [count |-> 1, ttl |-> DefaultWindow]
    BY <1>6, LimitFacts DEF Increment
  <2>2. Age(u)' = 1 /\ counter'[u].count = 1
    BY <2>1, LimitFacts DEF Age
  <2>3. p[1] = 0 /\ p[DefaultWindow] <= DefaultLimit
    <3>1. CASE c.count = 0
      BY <3>1 DEF Windowed
    <3>2. CASE c.count # 0
      <4>1. /\ Age(u) \in Spans /\ p[Age(u)] <= DefaultLimit
            /\ p[DefaultWindow] - p[Age(u)] <= DefaultLimit
        BY <3>2 DEF Windowed
      <4>2. DefaultLimit = 0
        BY <1>1, <1>6, <3>2, LimitFacts DEF Count
      <4>3. /\ p[1] \in Nat /\ p[Age(u)] \in Nat /\ p[DefaultWindow] \in Nat
            /\ p[1] <= p[Age(u)]
        BY <1>1, <1>3, <4>1, LimitFacts
      <4> QED
        BY <4>1, <4>2, <4>3
    <3> QED
      BY <3>1, <3>2
  <2>4. b <= DefaultLimit
    <3>1. Count(u) \in Nat /\ Count(u) >= 1
      <4>1. PICK n \in Nat : n = counter[u].count
        BY <1>1
      <4>2. Count(u) = IF n < CountMax THEN n + 1 ELSE CountMax
        BY <4>1 DEF Count
      <4> HIDE DEF c, p
      <4> QED
        BY <4>2, LimitFacts
    <3> QED
      BY <1>2, <3>1, LimitFacts
  <2>5. /\ passed'[u][1] <= 1 /\ passed'[u][1] <= DefaultLimit
        /\ passed'[u][DefaultWindow] - passed'[u][1] <= DefaultLimit
    <3>1. passed'[u][1] = b /\ passed'[u][DefaultWindow] = p[DefaultWindow] + b
      BY <1>2, <2>3, LimitFacts
    <3>2. p[DefaultWindow] \in Nat
      BY <1>1, LimitFacts
    <3> QED
      BY <2>3, <2>4, <3>1, <3>2, LimitFacts
  <2> QED
    BY <1>4, <2>2, <2>5, LimitFacts DEF Windowed
<1> QED
  BY <1>5, <1>6

\* Neither the counter of u nor the history of u changes.
LEMMA SameWindowed ==
  ASSUME NEW u \in User, Windowed(u), counter'[u] = counter[u], passed'[u] = passed[u]
  PROVE  Windowed(u)'
BY DEF Windowed, Age

\* A tick: every span moves on, and a counter that ends takes its window with it.
LEMMA TickWindowed ==
  ASSUME RateType, CountersExpire, FixedWindows, NEW u \in User, Windowed(u), Tick
  PROVE  Windowed(u)'
<1> DEFINE p == passed[u]
           c == counter[u]
<1>1. p \in [Spans -> Nat] /\ c \in [count : Nat, ttl : Nat] /\ (c.count > 0 => c.ttl > 0)
  BY DEF FixedWindows, RateType, CountersExpire
<1>2. \A w \in Spans : passed'[u][w] = IF w = 1 THEN 0 ELSE p[w - 1]
  BY DEF Tick
<1>3. \A v, w \in Spans : v <= w => p[v] <= p[w]
  BY DEF Windowed
<1>4. \A w \in Spans : w # 1 => w - 1 \in Spans /\ w \in Nat
  BY LimitFacts
<1>5. ASSUME NEW v \in Spans, NEW w \in Spans, v <= w
      PROVE  passed'[u][v] <= passed'[u][w]
  <2>1. v \in Nat /\ w \in Nat /\ v >= 1 /\ w >= 1
    BY LimitFacts
  <2>2. CASE v = 1
    <3>1. passed'[u][w] \in Nat
      BY <1>1, <1>2, <1>4
    <3> QED
      BY <1>2, <2>2, <3>1
  <2>3. CASE v # 1
    <3>1. w # 1 /\ v - 1 <= w - 1 /\ v - 1 \in Spans /\ w - 1 \in Spans
      BY <1>4, <1>5, <2>1, <2>3
    <3>2. p[v - 1] <= p[w - 1]
      BY <1>3, <3>1
    <3> QED
      BY <1>2, <2>3, <3>1, <3>2
  <2> QED
    BY <2>2, <2>3
<1>6. passed'[u][1] = 0 /\ passed'[u][DefaultWindow] <= p[DefaultWindow]
      /\ passed'[u][DefaultWindow] \in Nat
  BY <1>1, <1>2, <1>3, <1>4, LimitFacts
<1>7. counter'[u] = CASE c.ttl = 0 -> c
                      [] c.ttl = 1 -> NoCounter
                      [] OTHER -> [c EXCEPT !.ttl = c.ttl - 1]
  BY DEF Tick, Aged
<1>8. CASE c.count = 0
  <2>1. counter'[u].count = 0
    BY <1>1, <1>7, <1>8 DEF NoCounter
  <2>2. p[DefaultWindow] <= DefaultLimit
    BY <1>8 DEF Windowed
  <2>3. p[DefaultWindow] \in Nat
    BY <1>1, LimitFacts
  <2>4. passed'[u][DefaultWindow] <= DefaultLimit
    BY <1>6, <2>2, <2>3, LimitFacts
  <2> QED
    BY <1>5, <1>6, <2>1, <2>4 DEF Windowed
<1>9. CASE c.count # 0
  <2>1. /\ Age(u) \in Spans
        /\ p[Age(u)] <= c.count /\ p[Age(u)] <= DefaultLimit
        /\ p[DefaultWindow] - p[Age(u)] <= DefaultLimit
    BY <1>9 DEF Windowed
  <2>2. c.ttl \in 1..DefaultWindow /\ Age(u) = DefaultWindow + 1 - c.ttl
    <3>1. c.ttl \in Nat /\ Age(u) = DefaultWindow + 1 - c.ttl
      BY <1>1 DEF Age
    <3>2. PICK g \in 1..DefaultWindow : g = Age(u)
      BY <2>1, LimitFacts
    <3> HIDE DEF c, p
    <3> QED
      BY <3>1, <3>2, LimitFacts
  <2>3. CASE c.ttl = 1
    <3>1. counter'[u].count = 0
      BY <1>7, <2>3 DEF NoCounter
    <3>2. p[DefaultWindow] <= DefaultLimit
      BY <2>1, <2>2, <2>3, LimitFacts
    <3>3. p[DefaultWindow] \in Nat
      BY <1>1, LimitFacts
    <3>4. passed'[u][DefaultWindow] <= DefaultLimit
      BY <1>6, <3>2, <3>3, LimitFacts
    <3> QED
      BY <1>5, <1>6, <3>1, <3>4 DEF Windowed
  <2>4. CASE c.ttl # 1
    <3>1. counter'[u].count = c.count /\ counter'[u].ttl = c.ttl - 1
      BY <1>1, <1>7, <2>2, <2>4
    <3>2. Age(u)' = Age(u) + 1 /\ Age(u)' \in Spans /\ Age(u)' # 1
      BY <2>2, <2>4, <3>1, LimitFacts DEF Age
    <3>3. PICK g \in Spans : g = Age(u) /\ g + 1 = Age(u)'
      BY <2>1, <3>2
    <3>4. g + 1 \in Spans /\ g + 1 # 1 /\ g \in Nat
      BY <3>2, <3>3, LimitFacts
    <3>5. passed'[u][g + 1] = p[g]
      BY <1>2, <3>4
    <3>6. p[g] \in Nat /\ p[DefaultWindow] \in Nat
      BY <1>1, LimitFacts
    <3>7. passed'[u][DefaultWindow] - p[g] <= DefaultLimit
      BY <1>6, <2>1, <3>3, <3>6, LimitFacts
    <3> QED
      BY <1>5, <1>9, <2>1, <3>1, <3>2, <3>3, <3>5, <3>7 DEF Windowed
  <2> QED
    BY <2>3, <2>4
<1> QED
  BY <1>8, <1>9

\* The history keeps to its type, and the settings stay as they are until a
\* request for others is made.
LEMMA HistoryNext ==
  ASSUME FixedWindows, [Next]_vars
  PROVE  passed' \in [User -> [Spans -> Nat]] /\ patches' \in Nat
<1>1. passed \in [User -> [Spans -> Nat]] /\ patches \in Nat
  BY DEF FixedWindows
<1>2. ASSUME NEW u \in User, HubStep(u)
      PROVE  passed' \in [User -> [Spans -> Nat]] /\ patches' = patches
  <2>1. [w \in Spans |-> passed[u][w] + 1] \in [Spans -> Nat]
    BY <1>1
  <2>2. \/ passed' = passed
        \/ passed' = [passed EXCEPT ![u] = [w \in Spans |-> passed[u][w] + 1]]
    BY <1>2 DEF HubStep, ReadLimit, ReadWindow, CheckRateLimit, CheckFails
  <2>3. patches' = patches
    BY <1>2 DEF HubStep, ReadLimit, ReadWindow, CheckRateLimit, CheckFails
  <2> QED
    BY <1>1, <2>1, <2>2, <2>3
<1>3. CASE Tick
  <2>1. ASSUME NEW u \in User, NEW w \in Spans
        PROVE  (IF w = 1 THEN 0 ELSE passed[u][w - 1]) \in Nat
    <3>1. w # 1 => w - 1 \in Spans
      BY LimitFacts
    <3> QED
      BY <1>1, <3>1
  <2> QED
    BY <1>1, <1>3, <2>1 DEF Tick
<1>4. ASSUME NEW a \in Admin, Patch(a) \/ AdminStep(a)
      PROVE  passed' = passed /\ (patches' = patches \/ patches' = patches + 1)
  BY <1>4 DEF Patch, AdminStep, UpdateRateLimiter, UpdateFails, SetLimit, SetWindow
<1>5. CASE Restart \/ UNCHANGED vars
  BY <1>1, <1>5 DEF Restart, vars
<1> QED
  BY <1>1, <1>2, <1>3, <1>4, <1>5 DEF Next

LEMMA WindowsNext ==
  ASSUME RateType, CountersExpire, FixedWindows, [Next]_vars
  PROVE  FixedWindows'
<1>1. passed' \in [User -> [Spans -> Nat]] /\ patches' \in Nat
  BY HistoryNext
<1>2. ASSUME patches' = 0
      PROVE  AsDefault' /\ \A u \in User : Windowed(u)'
  <2>1. ASSUME patches = 0, AsDefault, \A u \in User : Windowed(u)
        PROVE  AsDefault' /\ \A u \in User : Windowed(u)'
    <3>1. ASSUME NEW u \in User, HubStep(u)
          PROVE  AsDefault' /\ \A x \in User : Windowed(x)'
      <4>1. UNCHANGED <<row, memory, admin>>
        BY <3>1 DEF HubStep, ReadLimit, ReadWindow, CheckRateLimit, CheckFails
      <4>2. hub'.limit = DefaultLimit /\ hub'.window = DefaultWindow
        <5>1. hub' = HubIdle \/ ReadLimit(u) \/ ReadWindow
          BY <3>1 DEF HubStep, CheckRateLimit, CheckFails
        <5>2. memory.limit = DefaultLimit /\ memory.window = DefaultWindow
          BY <2>1 DEF AsDefault, Default
        <5>3. CASE hub' = HubIdle
          BY <5>3 DEF HubIdle
        <5>4. CASE ReadLimit(u)
          BY <5>2, <5>4 DEF ReadLimit, HubIdle
        <5>5. CASE ReadWindow
          <6>1. hub' = [hub EXCEPT !.pc = "check", !.window = memory.window]
            BY <5>5 DEF ReadWindow
          <6>2. hub.limit = DefaultLimit /\ hub.window = DefaultWindow
            BY <2>1 DEF AsDefault
          <6>3. hub'.limit = hub.limit /\ hub'.window \in {hub.window, memory.window}
            BY <6>1
          <6> QED
            BY <5>2, <6>2, <6>3
        <5> QED
          BY <5>1, <5>3, <5>4, <5>5
      <4>3. AsDefault'
        BY <2>1, <4>1, <4>2 DEF AsDefault, Default
      <4>4. ASSUME NEW x \in User
            PROVE  Windowed(x)'
        <5>1. \/ counter'[x] = counter[x] /\ passed'[x] = passed[x]
              \/ /\ counter'[x] = Increment(x)
                 /\ \/ passed'[x] = passed[x]
                    \/ Allowed(x) /\ passed'[x] = [w \in Spans |-> passed[x][w] + 1]
          BY <3>1 DEF HubStep, ReadLimit, ReadWindow, CheckRateLimit, CheckFails, RateType, FixedWindows
        <5>2. hub.limit = DefaultLimit /\ hub.window = DefaultWindow
          BY <2>1 DEF AsDefault
        <5> QED
          BY <2>1, <5>1, <5>2, CountedWindowed, SameWindowed
      <4> QED
        BY <4>3, <4>4
    <3>2. CASE Tick
      <4>1. AsDefault'
        BY <2>1, <3>2 DEF Tick, AsDefault, Default
      <4> QED
        BY <2>1, <3>2, <4>1, TickWindowed
    <3>3. ASSUME NEW a \in Admin, Patch(a) \/ AdminStep(a)
          PROVE  FALSE
      <4>1. admin[a].pc = "idle"
        BY <2>1 DEF AsDefault
      <4>2. Patch(a)
        BY <3>3, <4>1 DEF AdminStep, UpdateRateLimiter, UpdateFails, SetLimit, SetWindow
      <4> QED
        BY <1>2, <2>1, <4>2 DEF Patch
    <3>4. CASE Restart
      <4>1. AsDefault'
        BY <2>1, <3>4 DEF Restart, AsDefault, Default, HubIdle, AdminIdle
      <4> QED
        BY <2>1, <3>4, <4>1, SameWindowed DEF Restart
    <3>5. CASE UNCHANGED vars
      BY <2>1, <3>5, SameWindowed DEF vars, AsDefault, Default
    <3> QED
      BY <3>1, <3>2, <3>3, <3>4, <3>5 DEF Next
  <2>2. patches = 0
    <3>1. patches \in Nat /\ (patches' = patches \/ patches' = patches + 1)
      BY DEF FixedWindows, Next, HubStep, ReadLimit, ReadWindow, CheckRateLimit, CheckFails, Tick,
             Patch, AdminStep, UpdateRateLimiter, UpdateFails, SetLimit, SetWindow, Restart, vars
    <3> QED
      BY <1>2, <3>1
  <2> QED
    BY <2>1, <2>2 DEF FixedWindows
<1> QED
  BY <1>1, <1>2 DEF FixedWindows

LEMMA WindowsInit == Init => FixedWindows
<1> SUFFICES ASSUME Init PROVE FixedWindows
  OBVIOUS
<1>1. passed \in [User -> [Spans -> Nat]] /\ patches \in Nat
  BY DEF Init
<1>2. AsDefault
  BY DEF Init, AsDefault, Default, HubIdle, AdminIdle
<1>3. \A u \in User : Windowed(u)
  <2>1. /\ \A u \in User : counter[u].count = 0
        /\ \A u \in User, w \in Spans : passed[u][w] = 0
    BY DEF Init, NoCounter
  <2>2. 0 <= DefaultLimit /\ 0 <= 0
    BY LimitFacts
  <2> QED
    BY <2>1, <2>2, LimitFacts DEF Windowed
<1> QED
  BY <1>1, <1>2, <1>3 DEF FixedWindows

\* As long as nobody changes the settings, no span of one window sees more than
\* twice the limit of a user's messages, whatever failures and restarts there are.
THEOREM TwiceTheLimit == Spec => []AtMostTwice
<1>1. Init => RateType /\ CountersExpire /\ FixedWindows
  BY InitRate, WindowsInit DEF Init, CountersExpire, NoCounter
<1>2. RateType /\ CountersExpire /\ FixedWindows /\ [Next]_vars
        => RateType' /\ CountersExpire' /\ FixedWindows'
  BY NextRate, WindowsNext
<1>3. ASSUME FixedWindows, patches = 0, NEW u \in User
      PROVE  passed[u][DefaultWindow] <= 2 * DefaultLimit
  <2>1. Windowed(u) /\ passed[u] \in [Spans -> Nat]
    BY <1>3 DEF FixedWindows
  <2>2. passed[u][DefaultWindow] \in Nat
    BY <2>1, LimitFacts
  <2>3. CASE counter[u].count = 0
    BY <2>1, <2>2, <2>3, LimitFacts DEF Windowed
  <2>4. CASE counter[u].count # 0
    <3>1. PICK n \in Nat : n <= DefaultLimit /\ passed[u][DefaultWindow] - n <= DefaultLimit
      BY <2>1, <2>4 DEF Windowed
    <3> QED
      BY <2>2, <3>1, LimitFacts
  <2> QED
    BY <2>3, <2>4
<1>4. FixedWindows => AtMostTwice
  BY <1>3 DEF AtMostTwice
<1> QED
  BY <1>1, <1>2, <1>4, PTL DEF Spec
=============================================================================

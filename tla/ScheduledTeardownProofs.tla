---------------------- MODULE ScheduledTeardownProofs ----------------------
(***************************************************************************)
(* The proofs about ScheduledTeardown, for every value of the constants:   *)
(* any number of requests under way, racing the Worker, with failing       *)
(* queries and over any midnight.                                          *)
(***************************************************************************)
EXTENDS ScheduledTeardown, Integers, TLAPS

\* GrantedWithinLimit is not inductive: what keeps the grants of a day below
\* the limit is that its counter never falls below them.
LimitInv ==
    /\ used \in [AllDays -> Nat]
    /\ granted \in [AllDays -> Nat]
    /\ \A d \in AllDays : granted[d] <= used[d]
    /\ GrantedWithinLimit

\* Nothing is counted and nothing is granted at first.
LEMMA LimitInit == Init => LimitInv
BY LimitAssumption DEF Init, LimitInv, GrantedWithinLimit

\* Only an increment that stays below the limit grants an extension.
LEMMA ExtendKeepsLimit ==
    ASSUME LimitInv, NEW r \in Requests, Extend(r)
    PROVE  LimitInv'
<1> DEFINE today == Day(now)
<1>1. used' = [d \in AllDays |-> IF d = today THEN used[d] + 1 ELSE used[d]]
  <2>1. used' = [used EXCEPT ![today] = used[today] + 1]
    BY DEF Extend
  <2> QED  BY <2>1 DEF LimitInv
<1>2. CASE used'[today] > MaxExtensions
  <2>1. granted' = granted
    BY <1>2 DEF Extend
  <2>2. used' \in [AllDays -> Nat]
    BY <1>1 DEF LimitInv
  <2>3. ASSUME NEW d \in AllDays
        PROVE  granted[d] <= used'[d]
    <3>1. used[d] \in Nat /\ granted[d] \in Nat /\ granted[d] <= used[d]
      BY DEF LimitInv
    <3> QED  BY <1>1, <3>1
  <2> QED  BY <2>1, <2>2, <2>3 DEF LimitInv, GrantedWithinLimit
<1>3. CASE ~(used'[today] > MaxExtensions)
  <2>1. granted' = [d \in AllDays |-> IF d = today THEN granted[d] + 1
                                                  ELSE granted[d]]
    <3>1. granted' = [granted EXCEPT ![today] = granted[today] + 1]
      BY <1>3 DEF Extend
    <3> QED  BY <3>1 DEF LimitInv
  <2>2. /\ used' \in [AllDays -> Nat]
        /\ granted' \in [AllDays -> Nat]
    BY <1>1, <2>1 DEF LimitInv
  <2>3. ASSUME NEW d \in AllDays
        PROVE  granted'[d] <= used'[d] /\ granted'[d] <= MaxExtensions
    <3>1. CASE d = today
      <4>1. used'[today] = used[today] + 1 /\ granted'[today] = granted[today] + 1
        BY <1>1, <2>1, <3>1 DEF LimitInv
      <4>2. used[today] \in Nat /\ granted[today] \in Nat
            /\ granted[today] <= used[today]
        BY <3>1 DEF LimitInv
      <4> QED  BY <1>3, <3>1, <4>1, <4>2, LimitAssumption
    <3>2. CASE d # today
      BY <1>1, <2>1, <3>2 DEF LimitInv, GrantedWithinLimit
    <3> QED  BY <3>1, <3>2
  <2> QED  BY <2>2, <2>3 DEF LimitInv, GrantedWithinLimit
<1> QED  BY <1>2, <1>3

\* The rollback sets a counter to the cap, which no day's grants exceed: not
\* even when midnight has passed and it is another day's counter.
LEMMA RollBackKeepsLimit ==
    ASSUME LimitInv, NEW r \in Requests, RollBack(r)
    PROVE  LimitInv'
<1>1. used' = [used EXCEPT ![Day(now)] = MaxExtensions] /\ granted' = granted
  BY DEF RollBack, historyVars
<1>2. used' \in [AllDays -> Nat]
  BY <1>1, LimitAssumption DEF LimitInv
<1>3. \A d \in AllDays : granted'[d] <= used'[d]
  BY <1>1 DEF LimitInv, GrantedWithinLimit
<1> QED  BY <1>1, <1>2, <1>3 DEF LimitInv, GrantedWithinLimit

\* No other step touches the counters or grants anything.
LEMMA OthersKeepLimit ==
    ASSUME LimitInv, UNCHANGED <<used, granted>>
    PROVE  LimitInv'
BY DEF LimitInv, GrantedWithinLimit

\* Every step of [Next]_vars keeps the invariant.
LEMMA LimitStep == LimitInv /\ [Next]_vars => LimitInv'
<1> SUFFICES ASSUME LimitInv, [Next]_vars
             PROVE  LimitInv'
  OBVIOUS
<1>1. CASE \E r \in Requests : Handler(r)
  <2> PICK r \in Requests : Handler(r)
    BY <1>1
  <2>1. CASE Extend(r)
    BY <2>1, ExtendKeepsLimit
  <2>2. CASE RollBack(r)
    BY <2>2, RollBackKeepsLimit
  <2>3. CASE SetDelay(r) \/ SetEnabled(r) \/ DeleteDelay(r) \/ RequestFails(r)
    <3>1. UNCHANGED <<used, granted>>
      BY <2>3 DEF SetDelay, SetEnabled, DeleteDelay, RequestFails,
                  configVars, historyVars
    <3> QED  BY <3>1, OthersKeepLimit
  <2> QED  BY <2>1, <2>2, <2>3 DEF Handler
<1>2. CASE Worker
  <2>1. UNCHANGED <<used, granted>>
    BY <1>2 DEF Worker, WorkerStarts, ReadEnabled, ReadDelay, ClearDelay,
                CheckInfra, TriggerTeardown, configVars, historyVars
  <2> QED  BY <2>1, OthersKeepLimit
<1>3. CASE Tick \/ SetTime \/ Announce \/ SpinUp \/ UNCHANGED vars
  <2>1. UNCHANGED <<used, granted>>
    BY <1>3 DEF Tick, SetTime, Announce, SpinUp, vars, configVars, historyVars
  <2> QED  BY <2>1, OthersKeepLimit
<1> QED  BY <1>1, <1>2, <1>3 DEF Next

\* No day grants more extensions than MAX_EXTENSIONS_PER_DAY, for any number of
\* concurrent requests and any midnight in between
\* (control-plane/functions/api/scheduled-teardown.js).
THEOREM ExtensionLimit == Spec => []GrantedWithinLimit
<1>1. LimitInv => GrantedWithinLimit
  BY DEF LimitInv
<1> QED  BY <1>1, LimitInit, LimitStep, PTL DEF Spec
-----------------------------------------------------------------------------
\* Arithmetic of the clock, for a day of D ticks.

\* Multiples of D are D apart.
LEMMA Mult ==
    ASSUME NEW D \in Nat \ {0}, NEW p \in Int, NEW q \in Int, p < q
    PROVE  D * p + D <= D * q
<1>1. q - p - 1 \in Nat
  OBVIOUS
<1>2. D * (q - p - 1) >= 0
  BY <1>1
<1>3. D * (q - p - 1) = D * q - D * p - D
  OBVIOUS
<1> QED
  BY <1>2, <1>3

\* Quotient and remainder.
LEMMA DivMod ==
    ASSUME NEW D \in Nat \ {0}, NEW a \in Nat
    PROVE  /\ a = D * (a \div D) + (a % D)
           /\ a % D \in 0 .. D - 1 /\ a \div D \in Nat
<1>1. a \div D \in Int /\ a % D \in 0 .. D - 1 /\ a = D * (a \div D) + (a % D)
  BY SMT
<1> DEFINE q == a \div D
           r == a % D
<1>2. q \in Int /\ r \in 0 .. D - 1 /\ a = D * q + r
  BY <1>1
<1> HIDE DEF q, r
<1>3. q < 0 => D * q + D <= D * 0
  BY <1>2, Mult
<1>4. q >= 0
  BY <1>2, <1>3
<1> QED
  BY <1>1, <1>4 DEF q

\* Two ticks at the same time of the day are a day apart.
LEMMA ModUnique ==
    ASSUME NEW D \in Nat \ {0}, NEW a \in Nat, NEW b \in Nat, a % D = b % D, a < b
    PROVE  a + D <= b
<1> DEFINE p == a \div D
           q == b \div D
           r == a % D
<1>1. a = D * p + r /\ b = D * q + r /\ p \in Nat /\ q \in Nat /\ r \in 0 .. D - 1
  BY DivMod
<1> HIDE DEF p, q, r
<1>2. D * p < D * q
  BY <1>1
<1>3. p < q
  <2>1. q <= p => D * q <= D * p
    <3>1. q < p => D * q + D <= D * p
      BY <1>1, Mult
    <3>2. D * q \in Int /\ D * p \in Int
      BY <1>1
    <3> QED BY <1>1, <3>1, <3>2
  <2> QED
    BY <1>1, <1>2, <2>1
<1>4. D * p + D <= D * q
  BY <1>1, <1>3, Mult
<1> QED
  BY <1>1, <1>4

\* The tick r of the day q.
LEMMA ModOf ==
    ASSUME NEW D \in Nat \ {0}, NEW q \in Nat, NEW r \in 0 .. D - 1
    PROVE  (D * q + r) % D = r /\ D * q + r \in Nat
<1> DEFINE a == D * q + r
<1>1. a \in Nat
  OBVIOUS
<1>2. a = D * (a \div D) + (a % D) /\ a % D \in 0 .. D - 1 /\ a \div D \in Nat
  BY <1>1, DivMod
<1> DEFINE p == a \div D
           s == a % D
<1>3. D * q + r = D * p + s /\ s \in 0 .. D - 1 /\ p \in Nat
  BY <1>2
<1> HIDE DEF p, s, a
<1>4. ~(p < q)
  <2>1. p < q => D * p + D <= D * q
    BY <1>3, Mult
  <2> QED
    BY <1>3, <2>1
<1>5. ~(q < p)
  <2>1. q < p => D * q + D <= D * p
    BY <1>3, Mult
  <2> QED
    BY <1>3, <2>1
<1>6. p = q
  BY <1>3, <1>4, <1>5
<1>7. s = r
  BY <1>3, <1>6
<1> QED
  BY <1>1, <1>7 DEF s, a

\* A time of the day comes once within every day.
LEMMA NextOne ==
    ASSUME NEW D \in Nat \ {0}, NEW n \in Nat, NEW r \in 0 .. D - 1
    PROVE  \E t \in n + 1 .. n + D : t % D = r
<1> DEFINE q == n \div D
           m == n % D
           p == q + 1
<1>1. n = D * q + m /\ m \in 0 .. D - 1 /\ q \in Nat
  BY DivMod
<1> HIDE DEF q, m
<1>2. p \in Nat /\ D * p = D * q + D
  BY <1>1
<1> HIDE DEF p
<1>3. CASE m < r
  <2>1. (D * q + r) % D = r /\ D * q + r \in Nat
    BY <1>1, ModOf
  <2>2. D * q + r \in n + 1 .. n + D
    BY <1>1, <1>3
  <2> QED
    BY <2>1, <2>2
<1>4. CASE ~(m < r)
  <2>1. (D * p + r) % D = r /\ D * p + r \in Nat
    BY <1>2, ModOf
  <2>2. D * p + r \in n + 1 .. n + D
    BY <1>1, <1>4, <1>2
  <2> QED
    BY <2>1, <2>2
<1> QED
  BY <1>3, <1>4

-----------------------------------------------------------------------------
\* What the Worker has read, and what the countdown promises.

\* The Worker has read its settings and does not turn back.
Going == {"clear", "check", "dispatch"}

\* A run of the teardown cron is due, or has not read the delay.
Pending == \/ "teardown" \in due
           \/ worker.cron = "teardown" /\ worker.step \in {"enabled", "delay"}

\* A run of the teardown cron is under way.
Tearing == worker.cron = "teardown" /\ worker.step # "idle"

\* Undisturbed, the Worker acts on the settings as they are: the delay that was
\* acknowledged is the one in D1 until it expires, and a run that goes on past
\* the settings has found the teardown enabled and no delay left.
ReadInv ==
    /\ worker.step = "dispatch" => worker.cron = "teardown"
    /\ Undisturbed =>
          /\ promised > now => delay = promised
          /\ worker.step = "delay" => worker.enabled = enabled
          /\ worker.step \in Going => enabled /\ promised <= now /\ delay <= now

\* A countdown that names a time of the cron: no setting in its way; before
\* that time every teardown cron meets the delay; from then on, once the cron
\* has run, the stack is down.
CountInv == Undisturbed /\ AtCron(announced) =>
    /\ enabled
    /\ delay <= announced
    /\ now < announced =>
          /\ \A t \in Times :
                now < t /\ t < announced /\ t % DayTicks = TeardownAt => t < delay
          /\ Pending => now < delay
          /\ worker.step \in Going => worker.cron = "notify"
    /\ now = announced /\ "teardown" \notin due /\ ~Tearing => ~up
    /\ now > announced => ~up

\* The inductive invariant.
TimedInv == TypeOK /\ LimitInv /\ ReadInv /\ CountInv

\* Every tick of the modelled days, and a day later, is a time of a delay.
LEMMA TimeBounds ==
    /\ \A t \in Times : t \in Nat /\ t \in Delayed /\ 0 \in Times
    /\ \A t \in Times, h \in 0 .. DayTicks : t + h \in Delayed
    /\ \A t \in Delayed : t \in Nat
<1>1. /\ DayTicks * Days \in Nat
      /\ DayTicks * (Days + 1) = DayTicks * Days + DayTicks /\ DayTicks \in Nat
  BY TimeAssumption
<1> DEFINE n == DayTicks * Days
           m == DayTicks * (Days + 1)
<1>2. Times = 0 .. n - 1 /\ Delayed = 0 .. m
  BY DEF Times, MaxTime, Delayed
<1>3. n \in Nat /\ m = n + DayTicks /\ DayTicks \in Nat
  BY <1>1
<1> HIDE DEF n, m
<1>4. QED
  BY <1>2, <1>3

\* There is a first tick.
LEMMA StartTyped == 0 \in Times /\ 0 \in Delayed
<1>1. /\ DayTicks * Days \in Nat /\ DayTicks * (Days + 1) \in Nat
      /\ DayTicks * Days > 0
  <2>1. DayTicks \in Nat /\ Days \in Nat /\ DayTicks > 0 /\ Days > 0
    BY TimeAssumption
  <2>2. QED
    BY ONLY <2>1
<1> DEFINE n == DayTicks * Days
           m == DayTicks * (Days + 1)
<1>2. n \in Nat /\ n > 0 /\ m \in Nat
  BY <1>1
<1>3. Times = 0 .. n - 1 /\ Delayed = 0 .. m
  BY DEF Times, MaxTime, Delayed
<1> HIDE DEF n, m
<1>4. QED
  BY <1>2, <1>3

\* The next teardown_time is the next tick at this time of the day.
LEMMA NextTimeIs ==
    ASSUME TypeOK
    PROVE  /\ NextTime \in Delayed /\ NextTime > now /\ NextTime \in Nat /\ now \in Nat
           /\ NextTime % DayTicks = time
           /\ \A t \in Times : now < t /\ t < NextTime => t % DayTicks # time
<1>1. /\ now \in Nat /\ now \in Times /\ time \in 0 .. DayTicks - 1
      /\ DayTicks \in Nat \ {0}
  BY TimeBounds, TimeAssumption DEF TypeOK
<1>2. \E t \in now + 1 .. now + DayTicks : t % DayTicks = time
  BY <1>1, NextOne
<1>3. NextTime \in now + 1 .. now + DayTicks /\ NextTime % DayTicks = time
  BY <1>2 DEF NextTime
<1> DEFINE next == NextTime
<1>4. next \in now + 1 .. now + DayTicks /\ next % DayTicks = time
  BY <1>3
<1> HIDE DEF next
<1>5. next \in Nat /\ next > now
  BY <1>1, <1>4
<1>6. next \in Delayed
  <2>1. next - now \in 0 .. DayTicks /\ next = now + (next - now)
    BY <1>1, <1>4
  <2>2. QED
    BY <1>1, <2>1, TimeBounds
<1>7. ASSUME NEW t \in Times, now < t, t < next
      PROVE  t % DayTicks # time
  <2>1. t \in Nat
    BY TimeBounds
  <2>2. t % DayTicks = next % DayTicks => t + DayTicks <= next
    BY <1>1, <1>5, <1>7, <2>1, ModUnique
  <2>3. QED
    BY <1>1, <1>4, <1>7, <2>1, <2>2
<1>8. QED
  BY <1>1, <1>4, <1>5, <1>6, <1>7 DEF next

\* The runs of the Worker.
Workers == [step : WorkerSteps, cron : Crons, enabled : BOOLEAN]

\* The types, with what arithmetic needs.
Types ==
    /\ now \in Times /\ now \in Nat /\ due \subseteq Crons /\ enabled \in BOOLEAN
    /\ delay \in Delayed /\ delay \in Nat
    /\ time \in TeardownTimes /\ used \in [AllDays -> Counters]
    /\ request \in [Requests -> RequestSteps]
    /\ worker \in Workers
    /\ worker.step \in WorkerSteps /\ worker.cron \in Crons
    /\ worker.enabled \in BOOLEAN
    /\ up \in BOOLEAN
    /\ announced \in Delayed /\ announced \in Nat /\ promised \in Delayed
    /\ promised \in Nat
    /\ granted \in [AllDays -> Counters] /\ disturbed \subseteq Disturbances

\* The invariant gives them.
LEMMA InvTypes == TimedInv => Types
BY TimeBounds DEF TimedInv, TypeOK, Types, Workers

\* Nothing is read, announced or promised at first.
LEMMA TimedInit == Init => TimedInv
<1> SUFFICES ASSUME Init PROVE TimedInv
  OBVIOUS
<1>1. TypeOK
  BY StartTyped, TimeAssumption, LimitAssumption
     DEF Init, TypeOK, Due, NoRun, Counters, Crons, WorkerSteps, RequestSteps
<1>2. ReadInv /\ CountInv
  BY DEF Init, ReadInv, CountInv, AtCron, Going, NoRun
<1>3. QED
  BY <1>1, <1>2, LimitInit DEF TimedInv

USE DEF Workers, Undisturbed, AtCron, Going, Pending, Tearing, ReadInv, CountInv, Types

\* A step that touches neither the settings nor the Worker keeps both parts.
LEMMA QuietStep ==
    ASSUME TimedInv, UNCHANGED <<now, due, enabled, delay, worker, up, announced,
                                 promised, disturbed>>
    PROVE  ReadInv' /\ CountInv'
BY DEF TimedInv

\* A setting that is stored cancels the countdown, and races a Worker that
\* runs.
LEMMA SettingStep ==
    ASSUME TimedInv, UNCHANGED <<now, worker>>, announced' = 0, Race,
           \/ promised' = promised /\ delay' = delay
           \/ promised' = delay'
           \/ promised' = 0
    PROVE  ReadInv' /\ CountInv'
<1>1. worker.step = "idle" \/ ~Undisturbed'
  BY DEF Race, Disturb
<1>2. worker.step = "idle" /\ Undisturbed' => Undisturbed
  BY DEF Race, Disturb
<1>3. promised' > now' => promised' # 0
  BY InvTypes
<1>4. QED
  BY <1>1, <1>2, <1>3 DEF TimedInv

\* A race is a disturbance.
LEMMA RaceTyped ==
    ASSUME TypeOK, Race
    PROVE  disturbed' \subseteq Disturbances
BY DEF Race, Disturb, Disturbances, TypeOK

\* The clock waits for the cron events, so that a countdown that is reached has
\* its cron due, and one that has passed has had it.
LEMMA TickKeeps == TimedInv /\ Tick => TypeOK' /\ ReadInv' /\ CountInv'
<1> SUFFICES ASSUME TimedInv, Tick PROVE TypeOK' /\ ReadInv' /\ CountInv'
  OBVIOUS
<1>1. Types
  BY InvTypes
<1>2. /\ now < MaxTime /\ due = {} /\ worker.step = "idle" /\ now' = now + 1
      /\ due' = Due(now')
  BY DEF Tick
<1>3. /\ enabled' = enabled /\ delay' = delay /\ time' = time /\ used' = used
      /\ request' = request
      /\ worker' = worker /\ up' = up /\ announced' = announced
      /\ promised' = promised
      /\ granted' = granted /\ disturbed' = disturbed
  BY DEF Tick, configVars, historyVars
<1>4. now' \in Times /\ now' \in Nat /\ now < now'
  <2> DEFINE n == DayTicks * Days
  <2>1. n \in Nat
    BY TimeAssumption
  <2>2. now < n - 1 /\ Times = 0 .. n - 1
    BY <1>2 DEF MaxTime, Times
  <2> HIDE DEF n
  <2>3. QED
    BY <1>1, <1>2, <2>1, <2>2
<1>5. TypeOK'
  BY <1>1, <1>2, <1>3, <1>4 DEF TypeOK, Due
<1>6. ReadInv'
  BY <1>1, <1>2, <1>3 DEF TimedInv
<1>7. "teardown" \in due' <=> now' % DayTicks = TeardownAt
  BY <1>2 DEF Due, Crons
<1>8. CountInv'
  <2> SUFFICES ASSUME Undisturbed, AtCron(announced) PROVE CountInv'
    BY <1>3
  <2>1. CountInv
    BY DEF TimedInv
  <2>2. now' <= announced => now < announced
    BY <1>1, <1>2
  <2>3. now' > announced => now = announced \/ now > announced
    BY <1>1, <1>2
  <2>4. now' < announced /\ "teardown" \in due' => now' < delay
    BY <1>1, <1>2, <1>4, <1>7, <2>1, <2>2
  <2>5. now' = announced => "teardown" \in due'
    BY <1>7
  <2>6. \A t \in Times : now' < t => now < t
    BY <1>1, <1>2, TimeBounds
  <2>7. ~Tearing /\ due = {} /\ now' > announced => ~up
    BY <1>2, <2>1, <2>3
  <2>8. now' < announced =>
          \A t \in Times :
             now' < t /\ t < announced /\ t % DayTicks = TeardownAt => t < delay
    BY <2>1, <2>2, <2>6, <1>1, <1>4
  <2>9. QED
    BY <1>1, <1>2, <1>3, <2>1, <2>4, <2>5, <2>7, <2>8
<1>9. QED
  BY <1>5, <1>6, <1>8

\* An extension is counted below the bounds.
LEMMA ExtendKeeps ==
    ASSUME TimedInv, NEW r \in Requests, Extend(r)
    PROVE  TypeOK' /\ ReadInv' /\ CountInv'
<1>1. Types /\ LimitInv
  BY InvTypes DEF TimedInv
<1>2. ReadInv' /\ CountInv'
  BY QuietStep DEF Extend
<1>3. used' \in [AllDays -> Counters]
  <2> DEFINE today == Day(now)
  <2>1. used' = [used EXCEPT ![today] = @ + 1] /\ used[today] < MaxCounter
    BY DEF Extend
  <2> HIDE DEF today
  <2>2. ASSUME today \in AllDays PROVE used[today] + 1 \in Counters
    BY <1>1, <2>1, <2>2, LimitAssumption DEF Counters
  <2>3. QED
    BY <1>1, <2>1, <2>2
<1>4. granted' \in [AllDays -> Counters] /\ request' \in [Requests -> RequestSteps]
  <2>1. CASE granted' = granted /\ request' = [request EXCEPT ![r] = "over"]
    BY <1>1, <2>1 DEF RequestSteps
  <2>2. CASE /\ granted' = [granted EXCEPT ![Day(now)] = @ + 1]
             /\ request' = [request EXCEPT ![r] = "granted"]
    <3> DEFINE today == Day(now)
    <3>1. granted' = [granted EXCEPT ![today] = @ + 1] /\ used[today] < MaxCounter
      BY <2>2 DEF Extend
    <3> HIDE DEF today
    <3>2. ASSUME today \in AllDays PROVE granted[today] + 1 \in Counters
      <4>1. /\ granted[today] \in Nat /\ used[today] \in Nat
            /\ granted[today] <= used[today]
        BY <1>1, <3>2 DEF LimitInv
      <4>2. QED
        BY <4>1, <3>1, LimitAssumption DEF Counters
    <3>3. granted' \in [AllDays -> Counters]
      BY <1>1, <3>1, <3>2
    <3>4. QED
      BY <1>1, <2>2, <3>3 DEF RequestSteps
  <2>3. QED
    BY <2>1, <2>2 DEF Extend
<1>5. TypeOK'
  BY <1>1, <1>3, <1>4 DEF Extend, TypeOK
<1>6. QED
  BY <1>2, <1>5

\* The cap is a value of the counter.
LEMMA RollBackKeeps ==
    ASSUME TimedInv, NEW r \in Requests, RollBack(r)
    PROVE  TypeOK' /\ ReadInv' /\ CountInv'
<1>1. Types
  BY InvTypes
<1>2. ReadInv' /\ CountInv'
  BY QuietStep DEF RollBack, historyVars
<1>3. MaxExtensions \in Counters
  BY LimitAssumption DEF Counters
<1>4. used' \in [AllDays -> Counters] /\ request' \in [Requests -> RequestSteps]
  BY <1>1, <1>3 DEF RollBack, RequestSteps
<1>5. TypeOK'
  BY <1>1, <1>4 DEF RollBack, TypeOK, historyVars
<1>6. QED
  BY <1>2, <1>5

\* A request that fails leaves the settings.
LEMMA RequestFailsKeeps ==
    ASSUME TimedInv, NEW r \in Requests, RequestFails(r)
    PROVE  TypeOK' /\ ReadInv' /\ CountInv'
<1>1. Types
  BY InvTypes
<1>2. ReadInv' /\ CountInv'
  BY QuietStep DEF RequestFails, configVars, historyVars
<1>3. request' \in [Requests -> RequestSteps]
  BY <1>1 DEF RequestFails, RequestSteps
<1>4. TypeOK'
  BY <1>1, <1>3 DEF RequestFails, TypeOK, configVars, historyVars
<1>5. QED
  BY <1>2, <1>4

\* The delay that is stored is the one that is acknowledged.
LEMMA SetDelayKeeps ==
    ASSUME TimedInv, NEW r \in Requests, SetDelay(r)
    PROVE  TypeOK' /\ ReadInv' /\ CountInv'
<1>1. Types
  BY InvTypes
<1>2. ReadInv' /\ CountInv'
  BY SettingStep DEF SetDelay
<1>3. delay' \in Delayed
  <2>1. PICK hours \in Delays : delay' = now + hours
    BY DEF SetDelay
  <2>2. hours \in 0 .. DayTicks
    BY TimeAssumption
  <2>3. QED
    BY <1>1, <2>1, <2>2, TimeBounds
<1>4. request' \in [Requests -> RequestSteps]
  BY <1>1 DEF SetDelay, RequestSteps
<1>5. disturbed' \subseteq Disturbances
  BY RaceTyped DEF SetDelay, TimedInv
<1>6. TypeOK'
  BY <1>1, <1>3, <1>4, <1>5, StartTyped DEF SetDelay, TypeOK
<1>7. QED
  BY <1>2, <1>6

\* Enabling and disabling are settings.
LEMMA SetEnabledKeeps ==
    ASSUME TimedInv, NEW r \in Requests, SetEnabled(r)
    PROVE  TypeOK' /\ ReadInv' /\ CountInv'
<1>1. Types
  BY InvTypes
<1>2. ReadInv' /\ CountInv'
  BY SettingStep DEF SetEnabled
<1>3. enabled' \in BOOLEAN /\ request' \in [Requests -> RequestSteps]
  BY <1>1 DEF SetEnabled, RequestSteps
<1>4. disturbed' \subseteq Disturbances
  BY RaceTyped DEF SetEnabled, TimedInv
<1>5. TypeOK'
  BY <1>1, <1>3, <1>4, StartTyped DEF SetEnabled, TypeOK
<1>6. QED
  BY <1>2, <1>5

\* With the delay goes the promise.
LEMMA DeleteDelayKeeps ==
    ASSUME TimedInv, NEW r \in Requests, DeleteDelay(r)
    PROVE  TypeOK' /\ ReadInv' /\ CountInv'
<1>1. Types
  BY InvTypes
<1>2. ReadInv' /\ CountInv'
  BY SettingStep DEF DeleteDelay
<1>3. request' \in [Requests -> RequestSteps]
  BY <1>1 DEF DeleteDelay, RequestSteps
<1>4. disturbed' \subseteq Disturbances
  BY RaceTyped DEF DeleteDelay, TimedInv
<1>5. TypeOK'
  BY <1>1, <1>3, <1>4, StartTyped DEF DeleteDelay, TypeOK
<1>6. QED
  BY <1>2, <1>5

\* So is the time.
LEMMA SetTimeKeeps ==
    ASSUME TimedInv, SetTime
    PROVE  TypeOK' /\ ReadInv' /\ CountInv'
<1>1. Types
  BY InvTypes
<1>2. ReadInv' /\ CountInv'
  BY SettingStep DEF SetTime
<1>3. disturbed' \subseteq Disturbances
  BY RaceTyped DEF SetTime, TimedInv
<1>4. TypeOK'
  BY <1>1, <1>3, StartTyped DEF SetTime, TypeOK
<1>5. QED
  BY <1>2, <1>4

\* The countdown starts at the next teardown_time, or at the delay: no time of
\* the cron lies before it that the delay does not cover.
LEMMA AnnounceKeeps ==
    ASSUME TimedInv, Announce
    PROVE  TypeOK' /\ ReadInv' /\ CountInv'
<1>1. Types
  BY InvTypes
<1>2. /\ enabled /\ due = {} /\ worker.step = "idle" /\ announced' = NextTeardown
      /\ now' = now /\ due' = due /\ enabled' = enabled /\ delay' = delay
      /\ time' = time /\ used' = used
      /\ request' = request /\ worker' = worker /\ up' = up /\ promised' = promised
      /\ granted' = granted /\ disturbed' = disturbed
  BY DEF Announce, configVars
<1> DEFINE next == NextTime
<1>3. /\ next \in Delayed /\ next > now /\ next \in Nat
      /\ next % DayTicks = time
      /\ \A t \in Times : now < t /\ t < next => t % DayTicks # time
  BY NextTimeIs DEF TimedInv
<1>4. announced' = IF delay > next THEN delay ELSE next
  BY <1>2 DEF NextTeardown
<1> HIDE DEF next
<1>5. /\ announced' \in Delayed /\ announced' \in Nat /\ now < announced'
      /\ delay <= announced'
  BY <1>1, <1>3, <1>4
<1>6. TypeOK'
  BY <1>1, <1>2, <1>5 DEF TypeOK
<1>7. ASSUME NEW t \in Times, now < t, t < announced', t % DayTicks = TeardownAt,
             AtCron(announced')
      PROVE  t < delay
  <2>1. CASE delay > next
    BY <2>1, <1>4, <1>7
  <2>2. CASE ~(delay > next)
    <3>1. announced' = next /\ time = TeardownAt
      BY <1>3, <1>4, <1>7, <2>2
    <3>2. QED
      BY <1>3, <1>7, <3>1
  <2>3. QED
    BY <2>1, <2>2
<1>8. /\ now' < announced' /\ ~(now' = announced') /\ ~(now' > announced')
      /\ delay' <= announced'
  BY <1>1, <1>2, <1>5
<1>9. CountInv'
  BY <1>1, <1>2, <1>7, <1>8 
<1>10. ReadInv'
  BY <1>2 DEF TimedInv
<1>11. QED
  BY <1>6, <1>9, <1>10

\* A spin-up cancels the countdown.
LEMMA SpinUpKeeps ==
    ASSUME TimedInv, SpinUp
    PROVE  TypeOK' /\ ReadInv' /\ CountInv'
<1>1. Types
  BY InvTypes
<1>2. /\ up' = TRUE /\ announced' = 0
      /\ now' = now /\ due' = due /\ enabled' = enabled /\ delay' = delay
      /\ time' = time /\ used' = used
      /\ request' = request /\ worker' = worker /\ promised' = promised
      /\ granted' = granted /\ disturbed' = disturbed
  BY DEF SpinUp, configVars
<1>3. TypeOK'
  BY <1>1, <1>2, StartTyped DEF TypeOK
<1>4. ReadInv' /\ CountInv'
  BY <1>2 DEF TimedInv
<1>5. QED
  BY <1>3, <1>4

\* A run takes its event over.
LEMMA WorkerStartsKeeps ==
    ASSUME TimedInv, WorkerStarts
    PROVE  TypeOK' /\ ReadInv' /\ CountInv'
<1>1. Types
  BY InvTypes
<1>2. PICK c \in due :
          /\ due' = due \ {c}
          /\ worker' = [step |-> "enabled", cron |-> c, enabled |-> TRUE]
  BY DEF WorkerStarts
<1>3. /\ worker.step = "idle"
      /\ now' = now /\ enabled' = enabled /\ delay' = delay /\ time' = time
      /\ used' = used
      /\ request' = request /\ up' = up /\ announced' = announced
      /\ promised' = promised /\ granted' = granted /\ disturbed' = disturbed
  BY DEF WorkerStarts, configVars, historyVars
<1>4. worker'.step = "enabled" /\ worker'.cron = c /\ worker' \in Workers
  BY <1>1, <1>2 DEF WorkerSteps
<1>5. TypeOK'
  BY <1>1, <1>2, <1>3, <1>4 DEF TypeOK
<1>6. ReadInv'
  BY <1>3, <1>4 DEF TimedInv
<1>7. Pending' => Pending
  BY <1>2, <1>4
<1>8. "teardown" \notin due' /\ ~Tearing' => "teardown" \notin due /\ ~Tearing
  BY <1>2, <1>3, <1>4
<1>9. CountInv'
  BY <1>3, <1>4, <1>7, <1>8 DEF TimedInv
<1>10. QED
  BY <1>5, <1>6, <1>9

\* Undisturbed, teardown_enabled is read as it is.
LEMMA ReadEnabledKeeps ==
    ASSUME TimedInv, ReadEnabled
    PROVE  TypeOK' /\ ReadInv' /\ CountInv'
<1>1. Types
  BY InvTypes
<1>2. /\ worker.step = "enabled"
      /\ now' = now /\ due' = due /\ enabled' = enabled /\ delay' = delay
      /\ time' = time /\ used' = used
      /\ request' = request /\ up' = up /\ announced' = announced
      /\ promised' = promised /\ granted' = granted
  BY DEF ReadEnabled, configVars
<1>3. /\ worker' \in Workers
      /\ worker'.step = "delay" /\ worker'.cron = worker.cron
      /\ disturbed' \subseteq Disturbances
      /\ Undisturbed' => Undisturbed /\ worker'.enabled = enabled
  <2>1. CASE /\ worker' = [worker EXCEPT !.step = "delay", !.enabled = enabled]
             /\ disturbed' = disturbed
    BY <1>1, <2>1 DEF WorkerSteps
  <2>2. CASE worker' = [worker EXCEPT !.step = "delay"] /\ Disturb({"fault"})
    BY <1>1, <2>2 DEF WorkerSteps, Disturb, Disturbances
  <2>3. QED
    BY <2>1, <2>2 DEF ReadEnabled
<1>4. TypeOK'
  BY <1>1, <1>2, <1>3 DEF TypeOK
<1>5. ReadInv' /\ CountInv'
  BY <1>2, <1>3 DEF TimedInv
<1>6. QED
  BY <1>4, <1>5

\* The run ends here when it is delayed, and goes on when the delay is over: a
\* teardown run never goes on before the time of the countdown, and never ends
\* here at it.
LEMMA ReadDelayKeeps ==
    ASSUME TimedInv, ReadDelay
    PROVE  TypeOK' /\ ReadInv' /\ CountInv'
<1>1. Types
  BY InvTypes
<1>2. /\ worker.step = "delay"
      /\ now' = now /\ due' = due /\ enabled' = enabled /\ delay' = delay
      /\ time' = time /\ used' = used
      /\ request' = request /\ up' = up /\ announced' = announced
      /\ promised' = promised /\ granted' = granted
  BY DEF ReadDelay, configVars
<1>3. PICK until \in {delay, 0} :
          /\ Disturb(IF until = delay THEN {} ELSE {"fault"})
          /\ worker' = IF ~worker.enabled \/ StillDelayed(until) THEN NoRun
                       ELSE [worker EXCEPT !.step = IF until = 0 THEN "check"
                                                    ELSE "clear"]
  BY DEF ReadDelay
<1>4. disturbed' \subseteq Disturbances /\ (Undisturbed' => Undisturbed /\ until = delay)
  BY <1>1, <1>3 DEF Disturb, Disturbances
<1>5. \/ /\ ~worker.enabled \/ (until # 0 /\ now < until)
         /\ worker' = NoRun
      \/ /\ worker.enabled /\ ~(until # 0 /\ now < until)
         /\ worker' = [worker EXCEPT !.step = IF until = 0 THEN "check" ELSE "clear"]
  BY <1>1, <1>3 DEF StillDelayed
<1>6. /\ worker' \in Workers
      /\ \/ /\ ~worker.enabled \/ (until # 0 /\ now < until)
            /\ worker'.step = "idle"
         \/ /\ worker.enabled /\ ~(until # 0 /\ now < until)
            /\ worker'.step \in {"check", "clear"} /\ worker'.cron = worker.cron
  <2>1. CASE worker' = NoRun
    BY <1>5, <2>1 DEF NoRun, WorkerSteps, Crons
  <2>2. CASE /\ worker' = [worker EXCEPT !.step = IF until = 0 THEN "check" ELSE "clear"]
    BY <1>1, <1>5, <2>2 DEF WorkerSteps, NoRun
  <2>3. QED
    BY <1>5, <2>1, <2>2
<1>7. TypeOK'
  BY <1>1, <1>2, <1>4, <1>6 DEF TypeOK
<1>8. delay # 0 /\ now < delay <=> now < delay
  BY <1>1
<1>9. ~(now < delay) => delay <= now
  BY <1>1
<1>10. promised > now \/ promised <= now
  BY <1>1
<1>11. ReadInv'
  BY <1>1, <1>2, <1>4, <1>6, <1>8, <1>9, <1>10 DEF TimedInv
<1>12. delay <= announced /\ now < delay => now < announced
  BY <1>1
<1>13. now < announced => ~(now = announced) /\ ~(now > announced)
  BY <1>1
<1>14. CountInv'
  <2> SUFFICES ASSUME Undisturbed', AtCron(announced)' PROVE CountInv'
    OBVIOUS
  <2>1. Undisturbed /\ AtCron(announced) /\ until = delay /\ worker.enabled
    BY <1>2, <1>4 DEF TimedInv
  <2>2. CountInv
    BY DEF TimedInv
  <2>3. CASE now < delay
    <3>1. worker'.step = "idle"
      BY <1>6, <1>8, <2>1, <2>3
    <3>2. now < announced
      BY <1>12, <2>1, <2>2, <2>3
    <3>3. QED
      BY <1>2, <1>13, <2>1, <2>2, <2>3, <3>1, <3>2
  <2>4. CASE ~(now < delay)
    <3>1. worker'.step \in {"check", "clear"} /\ worker'.cron = worker.cron
      BY <1>6, <1>8, <2>1, <2>4
    <3>2. now < announced => worker.cron = "notify"
      BY <1>1, <1>2, <2>1, <2>2, <2>4 DEF Crons
    <3>3. QED
      BY <1>2, <2>1, <2>2, <3>1, <3>2
  <2>5. QED
    BY <2>3, <2>4
<1>15. QED
  BY <1>7, <1>11, <1>14

\* Only an expired delay is deleted.
LEMMA ClearDelayKeeps ==
    ASSUME TimedInv, ClearDelay
    PROVE  TypeOK' /\ ReadInv' /\ CountInv'
<1>1. Types
  BY InvTypes
<1>2. /\ worker.step = "clear"
      /\ now' = now /\ due' = due /\ enabled' = enabled /\ time' = time
      /\ used' = used
      /\ request' = request /\ up' = up /\ announced' = announced
      /\ promised' = promised /\ granted' = granted
  BY DEF ClearDelay
<1>3. \/ /\ delay' = 0 /\ disturbed' = disturbed
         /\ worker'.step = "check" /\ worker'.cron = worker.cron
         /\ worker' \in Workers
      \/ /\ delay' = delay /\ ~Undisturbed' /\ disturbed' \subseteq Disturbances
         /\ worker'.step = "idle"
         /\ worker' \in Workers
  <2>1. CASE /\ delay' = 0
             /\ worker' = [worker EXCEPT !.step = "check"]
             /\ disturbed' = disturbed
    BY <1>1, <2>1 DEF WorkerSteps
  <2>2. CASE delay' = delay /\ worker' = NoRun /\ Disturb({"fault"})
    BY <1>1, <2>2 DEF WorkerSteps, NoRun, Crons, Disturb, Disturbances
  <2>3. QED
    BY <2>1, <2>2 DEF ClearDelay
<1>4. TypeOK'
  BY <1>1, <1>2, <1>3, StartTyped DEF TypeOK
<1>5. promised > now => ~(promised <= now)
  BY <1>1
<1>6. 0 <= now /\ 0 <= announced
  BY <1>1
<1>7. ReadInv'
  BY <1>2, <1>3, <1>5, <1>6 DEF TimedInv
<1>8. \A t \in Times : now < t /\ delay <= now => ~(t < delay)
  BY <1>1, TimeBounds
<1>9. delay <= now => ~(now < delay)
  BY <1>1
<1>10. CountInv'
  BY <1>1, <1>2, <1>3, <1>6, <1>8, <1>9 DEF TimedInv
<1>11. QED
  BY <1>4, <1>7, <1>10

\* Undisturbed, a teardown run goes on unless the stack is down.
LEMMA CheckInfraKeeps ==
    ASSUME TimedInv, CheckInfra
    PROVE  TypeOK' /\ ReadInv' /\ CountInv'
<1>1. Types
  BY InvTypes
<1>2. /\ worker.step = "check"
      /\ now' = now /\ due' = due /\ enabled' = enabled /\ delay' = delay
      /\ time' = time /\ used' = used
      /\ request' = request /\ up' = up /\ announced' = announced
      /\ promised' = promised /\ granted' = granted
  BY DEF CheckInfra, configVars
<1>3. /\ worker' \in Workers
      /\ disturbed' \subseteq Disturbances /\ (Undisturbed' => Undisturbed)
      /\ \/ /\ worker.cron = "teardown" /\ worker'.cron = worker.cron
            /\ worker'.step = "dispatch"
         \/ worker'.step = "idle" /\ (Undisturbed' => worker.cron = "notify" \/ ~up)
  <2>1. CASE /\ worker.cron = "teardown"
             /\ worker' = [worker EXCEPT !.step = "dispatch"]
             /\ disturbed' = disturbed
    BY <1>1, <2>1 DEF WorkerSteps
  <2>2. CASE /\ worker' = NoRun
             /\ Disturb(IF worker.cron = "notify" \/ ~up THEN {} ELSE {"fault"})
    BY <1>1, <2>2 DEF WorkerSteps, NoRun, Crons, Disturb, Disturbances
  <2>3. QED
    BY <2>1, <2>2 DEF CheckInfra
<1>4. TypeOK'
  BY <1>1, <1>2, <1>3 DEF TypeOK
<1>5. ReadInv' /\ CountInv'
  BY <1>1, <1>2, <1>3 DEF TimedInv
<1>6. QED
  BY <1>4, <1>5

\* Undisturbed, the stack is down afterwards.
LEMMA TriggerTeardownKeeps ==
    ASSUME TimedInv, TriggerTeardown
    PROVE  TypeOK' /\ ReadInv' /\ CountInv'
<1>1. Types
  BY InvTypes
<1>2. /\ worker.step = "dispatch"
      /\ now' = now /\ due' = due /\ enabled' = enabled /\ delay' = delay
      /\ time' = time /\ used' = used
      /\ request' = request /\ announced' = announced /\ promised' = promised
      /\ granted' = granted
  BY DEF TriggerTeardown, configVars
<1>3. \/ ~up' /\ disturbed' = disturbed
      \/ up' = up /\ ~Undisturbed'
  BY DEF TriggerTeardown, Disturb
<1>4. up' \in BOOLEAN /\ disturbed' \subseteq Disturbances
  BY <1>1 DEF TriggerTeardown, Disturb, Disturbances
<1>5. worker' \in Workers /\ worker'.step = "idle"
  BY DEF TriggerTeardown, NoRun, WorkerSteps, Crons
<1>6. TypeOK'
  BY <1>1, <1>2, <1>4, <1>5 DEF TypeOK
<1>7. ReadInv' /\ CountInv'
  BY <1>1, <1>2, <1>3, <1>5 DEF TimedInv
<1>8. QED
  BY <1>6, <1>7

\* Every step keeps the invariant.
LEMMA TimedStep == TimedInv /\ [Next]_vars => TimedInv'
<1> SUFFICES ASSUME TimedInv, [Next]_vars PROVE TimedInv'
  OBVIOUS
<1>1. LimitInv'
  BY LimitStep DEF TimedInv
<1>2. CASE \E r \in Requests : Handler(r)
  BY <1>1, <1>2, ExtendKeeps, RollBackKeeps, SetDelayKeeps, SetEnabledKeeps,
     DeleteDelayKeeps, RequestFailsKeeps
     DEF Handler, TimedInv
<1>3. CASE Worker
  BY <1>1, <1>3, WorkerStartsKeeps, ReadEnabledKeeps, ReadDelayKeeps,
     ClearDelayKeeps, CheckInfraKeeps, TriggerTeardownKeeps
     DEF Worker, TimedInv
<1>4. CASE Tick \/ SetTime \/ Announce \/ SpinUp
  BY <1>1, <1>4, TickKeeps, SetTimeKeeps, AnnounceKeeps, SpinUpKeeps DEF TimedInv
<1>5. CASE UNCHANGED vars
  <2>1. ReadInv' /\ CountInv'
    BY <1>5, QuietStep DEF vars, configVars, historyVars
  <2>2. TypeOK'
    BY <1>5 DEF vars, configVars, historyVars, TypeOK, TimedInv
  <2>3. QED
    BY <1>1, <2>1, <2>2 DEF TimedInv
<1>6. QED
  BY <1>2, <1>3, <1>4, <1>5 DEF Next

\* The invariant holds in every state.
LEMMA TimedHolds == Spec => []TimedInv
BY TimedInit, TimedStep, PTL DEF Spec

\* Every variable keeps its type: no counter leaves its bounds, no delay goes
\* beyond a day from now (scheduled-teardown.js, worker/src/index.js).
THEOREM TypeCorrect == Spec => []TypeOK
<1>1. TimedInv => TypeOK
  BY DEF TimedInv
<1> QED  BY <1>1, TimedHolds, PTL

\* The stack is only torn down by a run that has come to its dispatch.
LEMMA OnlyTheTrigger ==
    ASSUME TimedInv, [Next]_vars, TornDown
    PROVE  worker.step = "dispatch" /\ UNCHANGED <<now, announced>>
<1>1. TriggerTeardown
  <2> USE DEF TornDown
  <2>1. ~(UNCHANGED vars \/ Tick \/ SetTime \/ Announce \/ SpinUp)
    BY DEF vars, Tick, SetTime, Announce, SpinUp
  <2>2. ~(\E r \in Requests : Handler(r))
    BY DEF Handler, Extend, RollBack, SetDelay, SetEnabled, DeleteDelay,
           RequestFails
  <2>3. ~(WorkerStarts \/ ReadEnabled \/ ReadDelay \/ ClearDelay \/ CheckInfra)
    BY DEF WorkerStarts, ReadEnabled, ReadDelay, ClearDelay, CheckInfra
  <2>4. QED
    BY <2>1, <2>2, <2>3 DEF Next, Worker
<1>2. QED
  BY <1>1 DEF TriggerTeardown

\* Unless a setting is stored while the Worker runs, or one of its calls fails,
\* the stack is not torn down before the delay that was last acknowledged
\* (worker/src/index.js).
THEOREM DelayHolds == Spec => AcknowledgedDelayHolds
<1>1. TimedInv /\ [Next]_vars => [TornDown /\ Undisturbed => now >= promised]_vars
  <2> SUFFICES ASSUME TimedInv, [Next]_vars, TornDown, Undisturbed PROVE now >= promised
    OBVIOUS
  <2>1. promised <= now
    BY OnlyTheTrigger DEF TimedInv
  <2>2. QED
    BY <2>1, InvTypes
<1> QED  BY <1>1, TimedHolds, PTL DEF Spec, AcknowledgedDelayHolds

\* Nor is a stack whose scheduled teardown is disabled (worker/src/index.js).
THEOREM DisabledHolds == Spec => DisabledIsRespected
<1>1. TimedInv /\ [Next]_vars => [TornDown /\ Undisturbed => enabled]_vars
  BY OnlyTheTrigger DEF TimedInv
<1> QED  BY <1>1, TimedHolds, PTL DEF Spec, DisabledIsRespected

\* A countdown that names a time of the cron is kept to the tick: the stack is
\* torn down then and not before, for any length of the day, any times of the
\* two crons and any delays (scheduled-teardown.js, worker/src/index.js).
THEOREM CountdownHolds == Spec => CountdownIsKept
<1>1. TimedInv /\ [Next]_vars =>
        [Undisturbed /\ AtCron(announced) =>
            /\ TornDown => now = announced
            /\ now' # now /\ now = announced => ~up]_vars
  <2> SUFFICES ASSUME TimedInv, [Next]_vars, Undisturbed, AtCron(announced)
               PROVE  /\ TornDown => now = announced
                      /\ now' # now /\ now = announced => ~up
    OBVIOUS
  <2>1. Types
    BY InvTypes
  <2>2. TornDown => now = announced
    <3> SUFFICES ASSUME TornDown PROVE now = announced
      OBVIOUS
    <3>1. worker.step = "dispatch" /\ worker.cron = "teardown" /\ up
      BY OnlyTheTrigger DEF TornDown, TimedInv
    <3>2. ~(now < announced) /\ ~(now > announced)
      BY <3>1 DEF TimedInv
    <3>3. QED
      BY <2>1, <3>2
  <2>3. ASSUME now' # now, now = announced PROVE ~up
    <3>1. Tick
      <4>1. ~(UNCHANGED vars \/ SetTime \/ Announce \/ SpinUp)
        BY <2>3 DEF vars, SetTime, Announce, SpinUp
      <4>2. ~(\E r \in Requests : Handler(r))
        BY <2>3
           DEF Handler, Extend, RollBack, SetDelay, SetEnabled, DeleteDelay,
               RequestFails
      <4>3. ~Worker
        BY <2>3
           DEF Worker, WorkerStarts, ReadEnabled, ReadDelay, ClearDelay, CheckInfra,
               TriggerTeardown
      <4>4. QED
        BY <4>1, <4>2, <4>3 DEF Next
    <3>2. due = {} /\ worker.step = "idle"
      BY <3>1 DEF Tick
    <3>3. QED
      BY <2>3, <3>2 DEF TimedInv
  <2>4. QED
    BY <2>2, <2>3
<1> QED  BY <1>1, TimedHolds, PTL DEF Spec, CountdownIsKept
=============================================================================

------------------------- MODULE ScheduledTeardown -------------------------
(***************************************************************************)
(* The nightly teardown: the cron Worker (worker/src/index.js) and the     *)
(* settings it reads from D1, which POST /api/scheduled-teardown writes.   *)
(* The Worker reads its settings one query at a time, deletes an expired   *)
(* delay, asks GitHub whether the stack is up and dispatches the teardown; *)
(* a request counts its extension, checks the count and stores the delay.  *)
(* Each is a sequence of D1 queries, and the two interleave.               *)
(*                                                                         *)
(* Time is counted in ticks of a UTC day; the crons fire at fixed ticks.   *)
(***************************************************************************)
EXTENDS Naturals

CONSTANTS
    DayTicks,       \* ticks in a day
    Days,           \* bound on the days
    NotifyAt,       \* NOTIFICATION_CRON, as a tick of the day
    TeardownAt,     \* TEARDOWN_CRON, as a tick of the day
    TeardownTimes,  \* the values of config.teardown_time, in UTC ticks
    Delays,         \* the values of delayHours that pass the validation
    MaxExtensions,  \* MAX_EXTENSIONS_PER_DAY
    AllowDisable,   \* ALLOW_DISABLE_AUTO_SHUTDOWN
    MaxCounter,     \* bound on the daily counter
    Requests        \* bound on the requests handled at a time

MaxTime == DayTicks * Days - 1
Times == 0 .. MaxTime
Day(t) == t \div DayTicks
AllDays == 0 .. Days - 1
\* A delay may end after the modelled days.
Delayed == 0 .. DayTicks * (Days + 1)

ASSUME TimeAssumption ==
    /\ DayTicks \in Nat \ {0} /\ Days \in Nat \ {0}
    /\ NotifyAt \in 0 .. DayTicks - 1 /\ TeardownAt \in 0 .. DayTicks - 1
    /\ TeardownTimes \subseteq 0 .. DayTicks - 1 /\ TeardownAt \in TeardownTimes
    /\ Delays \subseteq 1 .. DayTicks
ASSUME LimitAssumption ==
    MaxExtensions \in Nat /\ MaxCounter \in Nat /\ MaxExtensions < MaxCounter
ASSUME OptionAssumption ==
    AllowDisable \in BOOLEAN

VARIABLES
    now,        \* the current tick
    due,        \* the cron events of this tick that have not fired
    enabled,    \* config.teardown_enabled
    delay,      \* config.delay_until, 0 when there is none
    time,       \* config.teardown_time
    used,       \* [AllDays -> Nat]: the counters extensions_<day>_<admin>
    request,    \* [Requests -> step]
    worker,     \* the Worker's step, its cron event and what it has read
    up,         \* the stack is deployed
    announced,  \* the next teardown as GET last told it, 0 when it told none
    promised,   \* the delay that was last acknowledged, 0 when there is none
    granted,    \* [AllDays -> Nat]: the extensions that were granted, by day
    disturbed   \* what has come between the Worker and its settings

configVars == <<enabled, delay, time, used>>
historyVars == <<announced, promised, granted, disturbed>>
vars == <<now, due, configVars, request, worker, up, historyVars>>

Crons == {"notify", "teardown"}
RequestSteps == {"idle", "granted", "over", "disabled"}
WorkerSteps == {"idle", "enabled", "delay", "clear", "check", "dispatch"}
NoRun == [step |-> "idle", cron |-> "notify", enabled |-> TRUE]
Counters == 0 .. MaxCounter

\* A setting was stored while the Worker ran; a query to D1 or a call to GitHub
\* of the Worker failed.
Disturbances == {"race", "fault"}
Disturb(events) == disturbed' = disturbed \union events
Race == Disturb(IF worker.step = "idle" THEN {} ELSE {"race"})

TypeOK ==
    /\ now \in Times
    /\ due \subseteq Crons
    /\ enabled \in BOOLEAN /\ delay \in Delayed /\ time \in TeardownTimes
    /\ used \in [AllDays -> Counters]
    /\ request \in [Requests -> RequestSteps]
    /\ worker \in [step : WorkerSteps, cron : Crons, enabled : BOOLEAN]
    /\ up \in BOOLEAN
    /\ announced \in Delayed /\ promised \in Delayed
    /\ granted \in [AllDays -> Counters]
    /\ disturbed \subseteq Disturbances

\* The cron events of a tick.
Due(t) == {c \in Crons :
             t % DayTicks = IF c = "notify" THEN NotifyAt ELSE TeardownAt}

Init ==
    /\ now = 0 /\ due = Due(0)
    /\ enabled = TRUE /\ delay = 0 /\ time = TeardownAt
    /\ used = [d \in AllDays |-> 0]
    /\ request = [r \in Requests |-> "idle"]
    /\ worker = NoRun
    /\ up = TRUE
    /\ announced = 0 /\ promised = 0
    /\ granted = [d \in AllDays |-> 0]
    /\ disturbed = {}

\* A Worker run takes seconds, so the clock waits for it; a request may be
\* under way when the clock moves.
Tick ==
    /\ now < MaxTime
    /\ due = {} /\ worker.step = "idle"
    /\ now' = now + 1
    /\ due' = Due(now')
    /\ UNCHANGED <<configVars, request, worker, up, historyVars>>

-----------------------------------------------------------------------------
(* /api/scheduled-teardown                                                 *)

\* delayHours: the counter of today is incremented and then compared.
Extend(r) ==
    /\ request[r] = "idle"
    /\ used[Day(now)] < MaxCounter
    /\ used' = [used EXCEPT ![Day(now)] = @ + 1]
    /\ IF used'[Day(now)] > MaxExtensions
       THEN /\ request' = [request EXCEPT ![r] = "over"]
            /\ UNCHANGED granted
       ELSE /\ request' = [request EXCEPT ![r] = "granted"]
            /\ granted' = [granted EXCEPT ![Day(now)] = @ + 1]
    /\ UNCHANGED <<now, due, enabled, delay, time, worker, up, announced, promised,
                   disturbed>>

\* Mutant: the rejected request takes back more than its own increment.
RollBackBelowTheCap(r) ==
    /\ request[r] = "over"
    /\ used' = [used EXCEPT ![Day(now)] = MaxExtensions - 1]
    /\ request' = [request EXCEPT ![r] = "idle"]
    /\ UNCHANGED <<now, due, enabled, delay, time, worker, up, historyVars>>

\* Mutant: the increment is taken back, from whichever day it is by then.
RollBackByOne(r) ==
    /\ request[r] = "over"
    /\ used' = [used EXCEPT ![Day(now)] = @ - 1]
    /\ request' = [request EXCEPT ![r] = "idle"]
    /\ UNCHANGED <<now, due, enabled, delay, time, worker, up, historyVars>>

\* Over the limit: the counter of the day it is by then is set to the cap.
RollBack(r) ==
    /\ request[r] = "over"
    /\ used' = [used EXCEPT ![Day(now)] = MaxExtensions]
    /\ request' = [request EXCEPT ![r] = "idle"]
    /\ UNCHANGED <<now, due, enabled, delay, time, worker, up, historyVars>>

\* Under the limit: the delay counts from now, not from the next teardown.
SetDelay(r) ==
    /\ request[r] = "granted"
    /\ \E hours \in Delays : delay' = now + hours
    /\ request' = [request EXCEPT ![r] = "idle"]
    /\ promised' = delay'
    /\ announced' = 0
    /\ Race
    /\ UNCHANGED <<now, due, enabled, time, used, worker, up, granted>>

SetEnabled(r) ==
    /\ request[r] = "idle"
    /\ \E value \in BOOLEAN :
          /\ ~value => AllowDisable
          /\ enabled' = value
          /\ request' = [request EXCEPT ![r] = IF value THEN "idle" ELSE "disabled"]
    /\ announced' = 0
    /\ Race
    /\ UNCHANGED <<now, due, delay, time, used, worker, up, promised, granted>>

\* Disabling also deletes the delay, in a query of its own.
DeleteDelay(r) ==
    /\ request[r] = "disabled"
    /\ delay' = 0
    /\ request' = [request EXCEPT ![r] = "idle"]
    /\ promised' = 0 /\ announced' = 0
    /\ Race
    /\ UNCHANGED <<now, due, enabled, time, used, worker, up, granted>>

SetTime ==
    /\ time' \in TeardownTimes
    /\ announced' = 0
    /\ Race
    /\ UNCHANGED <<now, due, enabled, delay, used, request, worker, up,
                   promised, granted>>

\* A query of the handler fails: 500, and what it wrote before stays.
RequestFails(r) ==
    /\ request[r] # "idle"
    /\ request' = [request EXCEPT ![r] = "idle"]
    /\ UNCHANGED <<now, due, configVars, worker, up, historyVars>>

\* The GET handler: the next teardown_time, or the delay when that is later.
\* An answer given in the seconds of a cron event is left out.
NextTime ==
    CHOOSE t \in now + 1 .. now + DayTicks : t % DayTicks = time
NextTeardown == IF delay > NextTime THEN delay ELSE NextTime

Announce ==
    /\ enabled
    /\ due = {} /\ worker.step = "idle"
    /\ announced' = NextTeardown
    /\ UNCHANGED <<now, due, configVars, request, worker, up, promised, granted,
                   disturbed>>

-----------------------------------------------------------------------------
(* The Worker                                                              *)

WorkerStarts ==
    /\ worker.step = "idle"
    /\ \E c \in due :
          /\ due' = due \ {c}
          /\ worker' = [step |-> "enabled", cron |-> c, enabled |-> TRUE]
    /\ UNCHANGED <<now, configVars, request, up, historyVars>>

\* getConfigValue: a query that fails yields the default, TRUE here.
ReadEnabled ==
    /\ worker.step = "enabled"
    /\ \/ worker' = [worker EXCEPT !.step = "delay", !.enabled = enabled]
          /\ UNCHANGED disturbed
       \/ worker' = [worker EXCEPT !.step = "delay"] /\ Disturb({"fault"})
    /\ UNCHANGED <<now, due, configVars, request, up, announced, promised, granted>>

StillDelayedOffByOne(until) == until # 0 /\ now + 1 < until         \* mutant
StillDelayed(until) == until # 0 /\ now < until

\* Mutant: teardown_enabled is read and not looked at.
ReadDelayOnly ==
    /\ worker.step = "delay"
    /\ worker' = IF StillDelayed(delay) THEN NoRun
                 ELSE [worker EXCEPT !.step = IF delay = 0 THEN "check" ELSE "clear"]
    /\ UNCHANGED <<now, due, configVars, request, up, historyVars>>

\* The last setting to be read; a failed query yields no delay.
ReadDelay ==
    /\ worker.step = "delay"
    /\ \E until \in {delay, 0} :
          /\ Disturb(IF until = delay THEN {} ELSE {"fault"})
          /\ worker' = IF ~worker.enabled \/ StillDelayed(until) THEN NoRun
                       ELSE [worker EXCEPT !.step = IF until = 0 THEN "check"
                                                    ELSE "clear"]
    /\ UNCHANGED <<now, due, configVars, request, up, announced, promised, granted>>

\* The expired delay is deleted by its key, whatever it is by then.
ClearDelay ==
    /\ worker.step = "clear"
    /\ \/ delay' = 0 /\ worker' = [worker EXCEPT !.step = "check"]
          /\ UNCHANGED disturbed
       \/ delay' = delay /\ worker' = NoRun /\ Disturb({"fault"})
    /\ UNCHANGED <<now, due, enabled, time, used, request, up, announced, promised,
                   granted>>

\* Mutant: the two cron expressions are compared the wrong way round.
CheckInfraCronsSwapped ==
    /\ worker.step = "check"
    /\ \/ /\ worker.cron = "notify"
          /\ worker' = [worker EXCEPT !.step = "dispatch"]
          /\ UNCHANGED disturbed
       \/ /\ worker' = NoRun
          /\ Disturb(IF worker.cron = "teardown" \/ ~up THEN {} ELSE {"fault"})
    /\ UNCHANGED <<now, due, configVars, request, up, announced, promised, granted>>

\* The teardown cron goes on for a stack that is deployed, and for any state of
\* the stack while a run is in progress.  The notification only sends an e-mail,
\* a stack that is down is skipped, and so is an answer that GitHub does not give.
CheckInfra ==
    /\ worker.step = "check"
    /\ \/ /\ worker.cron = "teardown"
          /\ worker' = [worker EXCEPT !.step = "dispatch"]
          /\ UNCHANGED disturbed
       \/ /\ worker' = NoRun
          /\ Disturb(IF worker.cron = "notify" \/ ~up THEN {} ELSE {"fault"})
    /\ UNCHANGED <<now, due, configVars, request, up, announced, promised, granted>>

\* Dispatched, and in the end torn down; or the mode cannot be determined, the
\* dispatch is refused, or the teardown fails.
TriggerTeardown ==
    /\ worker.step = "dispatch"
    /\ \/ up' = FALSE /\ UNCHANGED disturbed
       \/ up' = up /\ Disturb({"fault"})
    /\ worker' = NoRun
    /\ UNCHANGED <<now, due, configVars, request, announced, promised, granted>>

\* Somebody spins the stack up.
SpinUp ==
    /\ ~up
    /\ up' = TRUE
    /\ announced' = 0
    /\ UNCHANGED <<now, due, configVars, request, worker, promised, granted,
                   disturbed>>

-----------------------------------------------------------------------------
Worker ==
    \/ WorkerStarts \/ ReadEnabled \/ ReadDelay \/ ClearDelay
    \/ CheckInfra \/ TriggerTeardown

Handler(r) ==
    \/ Extend(r) \/ RollBack(r) \/ SetDelay(r)
    \/ SetEnabled(r) \/ DeleteDelay(r) \/ RequestFails(r)

Next ==
    \/ Tick \/ SetTime \/ Announce \/ SpinUp \/ Worker
    \/ \E r \in Requests : Handler(r)

Spec == Init /\ [][Next]_vars

-----------------------------------------------------------------------------
(* Properties                                                              *)

TornDown == up /\ ~up'

\* However many requests are under way at the same time, and whichever of them
\* fail or straddle a midnight, no day grants more extensions than it has.
GrantedWithinLimit == \A d \in AllDays : granted[d] <= MaxExtensions

Undisturbed == disturbed = {}

\* The Worker does not tear the stack down before the delay that the admin was
\* last told, as long as no setting is stored while it runs and its calls succeed.
AcknowledgedDelayHolds == [][TornDown /\ Undisturbed => now >= promised]_vars

\* A delay that was acknowledged and has not expired is the one in D1 ("Pushes
\* the next teardown back").
AcknowledgedDelayIsStored == promised > now => delay = promised

\* Nor does it tear down a stack whose scheduled teardown is disabled ("the single
\* most important place not to guess").
DisabledIsRespected == [][TornDown /\ Undisturbed => enabled]_vars

\* When the countdown of the dashboard names a time of the teardown cron, the
\* stack is torn down then and not before, unless somebody changes a setting.
AtCron(t) == t # 0 /\ t % DayTicks = TeardownAt
CountdownIsKept ==
    [][Undisturbed /\ AtCron(announced) =>
          /\ TornDown => now = announced
          /\ now' # now /\ now = announced => ~up]_vars
=============================================================================

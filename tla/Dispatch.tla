------------------------------ MODULE Dispatch ------------------------------
(***************************************************************************)
(* How the Control Plane learns what runs.  A dispatch to GitHub Actions   *)
(* is answered without a run id, and the new run is listed only after a    *)
(* while; spin-up.yml has no lock, so a second click in between is a       *)
(* second run.  Three parts guard that window: the dispatch marker that    *)
(* POST /api/spin-up and /api/teardown leave in D1, GET /api/status that   *)
(* reads it with the list of runs, and the latch of the browser tab that   *)
(* clicked.  The cron Worker reads the same list, without the markers.     *)
(*                                                                         *)
(* A poll may fail, and D1 may fail it without anybody being told: the     *)
(* markers then read as none.                                              *)
(***************************************************************************)
EXTENDS Naturals, Sequences, FiniteSets

CONSTANTS
    Tabs,       \* the browser tabs with the dashboard open
    MaxRuns,    \* bound on the workflow runs
    MaxTime,    \* bound on the clock
    Lag,        \* a run is listed at most this long after its dispatch
    Timeout,    \* fetchWithTimeout: how long GitHub's answer to a POST may take
    Skew,       \* DISPATCH_SKEW_MS
    Grace,      \* DISPATCH_GRACE_MS, and DISPATCH_LATCH_MS of the tab
    Ttl,        \* DISPATCH_MARKER_TTL_MS
    CronAt,     \* when the Worker's teardown cron fires
    MaxFaults   \* bound on the answers, the markers and the readings lost

Families == {"spinUp", "teardown"}
Times == 0 .. MaxTime

ASSUME TimeAssumption ==
    /\ MaxTime \in Nat /\ CronAt \in Nat /\ Lag \in Nat
    /\ Timeout \in Nat /\ Skew \in Nat /\ Grace \in Nat /\ Ttl \in Nat
    /\ Timeout <= Skew /\ Skew <= Grace /\ Grace <= Ttl
ASSUME BoundAssumption == MaxRuns \in Nat /\ MaxFaults \in Nat

\* A time that has not come: no marker, no latch.
Never == MaxTime + 1

VARIABLES
    now,
    runs,       \* GitHub's workflow runs, in the order of their creation
    marker,     \* [Families -> Times \union {Never}]: dispatched_at:<family>
    tab,        \* the tabs: their request, latch, answer and buttons
    worker,     \* the cron's step
    faults      \* the answers, markers and readings lost so far

vars == <<now, runs, marker, tab, worker, faults>>

\* A run waits while its concurrency group is taken.
Unfinished == {"waiting", "active"}

\* marked is the time of the marker that the dispatch of the run stored; answered,
\* that the tab that asked for it knows of it; missed, that an answer of GET
\* /api/status left out a spin-up.
Run == [family : Families, created : Times, listed : BOOLEAN,
        state : Unfinished \union {"success", "failure"},
        updated : Times, marked : Times \union {Never}, answered : BOOLEAN,
        missed : BOOLEAN]

\* infraState, which is "running" while something is in progress: of an answer, or
\* of the buttons of a tab; "none" without an answer and on a page just loaded.
Infra == {"none", "running", "deployed", "torn-down", "unknown"}
Answers == [infra : Infra, known : BOOLEAN]
NoAnswer == [infra |-> "none", known |-> FALSE]

\* request is the POST under way, run the run GitHub created for it, last the answer
\* delivered last (statusLast) if the server knew of a dispatch, shown what the
\* buttons go by.
Tab == [request : {"none", "sent", "accepted"}, family : Families,
        run : 0 .. MaxRuns, latch : Times \union {Never},
        inflight : Answers, last : Answers, shown : Infra]

TypeOK ==
    /\ now \in Times
    /\ runs \in Seq(Run) /\ Len(runs) <= MaxRuns
    /\ marker \in [Families -> Times \union {Never}]
    /\ tab \in [Tabs -> Tab]
    /\ worker \in {"waiting", "checking", "dispatching", "done"}
    /\ faults \in 0 .. MaxFaults

Init ==
    /\ now = 0
    /\ runs = <<>>
    /\ marker = [f \in Families |-> Never]
    /\ tab = [t \in Tabs |-> [request |-> "none", family |-> "spinUp", run |-> 0,
                              latch |-> Never, inflight |-> NoAnswer,
                              last |-> NoAnswer, shown |-> "none"]]
    /\ worker = "waiting"
    /\ faults = 0

Age(i) == now - runs[i].created
NewRun(family, state) ==
    [family |-> family, created |-> now, listed |-> FALSE, state |-> state,
     updated |-> now, marked |-> Never, answered |-> FALSE, missed |-> FALSE]

\* A poll is answered within its tick, or it fails.
Tick ==
    /\ now < MaxTime
    /\ \A i \in DOMAIN runs : ~runs[i].listed => Age(i) < Lag
    /\ \A t \in Tabs : tab[t].request = "accepted" => Age(tab[t].run) < Timeout
    /\ worker \notin {"checking", "dispatching"}
    /\ now' = now + 1
    /\ worker' = IF worker = "waiting" /\ now' = CronAt THEN "checking" ELSE worker
    /\ tab' = [t \in Tabs |-> [tab[t] EXCEPT !.inflight = NoAnswer]]
    /\ UNCHANGED <<runs, marker, faults>>

-----------------------------------------------------------------------------
(* GitHub Actions                                                          *)

List(i) ==
    /\ ~runs[i].listed
    /\ runs' = [runs EXCEPT ![i].listed = TRUE]
    /\ UNCHANGED <<now, marker, tab, worker, faults>>

\* A run of the group "infrastructure" gets its turn.
Begin(i) ==
    /\ runs[i].state = "waiting"
    /\ runs' = [runs EXCEPT ![i].state = "active"]
    /\ UNCHANGED <<now, marker, tab, worker, faults>>

Complete(i) ==
    /\ runs[i].state = "active"
    /\ \E state \in {"success", "failure"} :
          runs' = [runs EXCEPT ![i].state = state, ![i].updated = now]
    /\ UNCHANGED <<now, marker, tab, worker, faults>>

-----------------------------------------------------------------------------
(* GET /api/status                                                         *)

\* readDispatchMarkers drops a marker older than the TTL; if D1 cannot be read, it
\* answers that there is none.
Fresh(read, f) == read /\ marker[f] # Never /\ now - marker[f] <= Ttl

\* The clock of D1's writer may be ahead of GitHub's.
Cutoff(f) == IF marker[f] < Skew THEN 0 ELSE marker[f] - Skew

\* Mutant: no run predates a dispatch.
SelectableByAnyDate(read, f) ==
    {i \in DOMAIN runs : runs[i].family = f /\ runs[i].listed}

\* The listed runs of a family, without those that predate a fresh dispatch.
Selectable(read, f) ==
    {i \in DOMAIN runs : /\ runs[i].family = f /\ runs[i].listed
                         /\ Fresh(read, f) => runs[i].created >= Cutoff(f)}

\* The newest of them, if there is one.
Selected(read, f) ==
    {i \in Selectable(read, f) : \A k \in Selectable(read, f) : k <= i}

\* Only "in_progress" and "queued" count.
Running(read) ==
    \E f \in Families : \E i \in Selected(read, f) : runs[i].state = "active"

\* Dispatched and not listed yet; the oldest of them is reported.
Pending(read) == {f \in Families : Fresh(read, f) /\ Selectable(read, f) = {}}
Oldest(read) == CHOOSE f \in Pending(read) : \A g \in Pending(read) : marker[f] <= marker[g]
Dispatching(read) == Pending(read) # {} /\ now - marker[Oldest(read)] <= Grace
TimedOut(read) == Pending(read) # {} /\ now - marker[Oldest(read)] > Grace

\* The newest successful one of the selected runs tells the state.
Succeeded(read) ==
    {i \in UNION {Selected(read, f) : f \in Families} : runs[i].state = "success"}
UpLast(read) ==
    \E i \in Succeeded(read) :
        /\ runs[i].family = "spinUp"
        /\ \A k \in Succeeded(read) : runs[k].updated <= runs[i].updated

\* Mutant: the Worker's word for a stack that is down.
IdleInTheWorkersWords(read) ==
    IF Succeeded(read) = {} THEN "unknown" ELSE IF UpLast(read) THEN "deployed" ELSE "offline"
Idle(read) ==
    IF Succeeded(read) = {} THEN "unknown" ELSE IF UpLast(read) THEN "deployed" ELSE "torn-down"

\* The answer, with or without the markers.  known is the tab's serverKnows: it
\* need not latch any longer.
Status(read) ==
    LET busy == Running(read) \/ Dispatching(read) IN
    [infra |-> IF busy THEN "running" ELSE Idle(read),
     known |-> busy \/ TimedOut(read)]

\* The answer says nothing of a spin-up that waits, nor, without the markers, of a
\* marked one that is not listed.
LeftOut(i, read) ==
    /\ runs[i].family = "spinUp"
    /\ IF runs[i].listed THEN runs[i].state = "waiting"
       ELSE ~read /\ runs[i].marked # Never

-----------------------------------------------------------------------------
(* The tabs                                                                *)

Latched(t) == tab[t].latch # Never /\ now - tab[t].latch <= Grace

Poll(t) ==
    \E read \in BOOLEAN :
        /\ faults' = faults + IF read THEN 0 ELSE 1
        /\ faults' <= MaxFaults
        /\ runs' = [i \in DOMAIN runs |->
                      [runs[i] EXCEPT !.missed = @ \/ LeftOut(i, read)]]
        /\ tab' = [tab EXCEPT ![t].inflight = Status(read)]
        /\ UNCHANGED <<now, marker, worker>>

ReleasedByAnyAnswer(t) == TRUE                                      \* mutant
Released(t) == tab[t].inflight.known \/ ~Latched(t)

\* decorate: something is in progress as long as the tab is latched, and the latch
\* is dropped once the server knows of the dispatch or the latch has expired.
Deliver(t) ==
    /\ tab[t].inflight # NoAnswer
    /\ tab' = [tab EXCEPT
           ![t].inflight = NoAnswer,
           ![t].last = IF tab[t].inflight.known THEN tab[t].inflight ELSE NoAnswer,
           ![t].shown = IF Released(t) THEN tab[t].inflight.infra ELSE "running",
           ![t].latch = IF Released(t) THEN Never ELSE @]
    /\ UNCHANGED <<now, runs, marker, worker, faults>>

\* Mutant: a failed poll is taken for the end of the run.
FallBackAlways(t) == "unknown"
FallBack(t) ==
    IF tab[t].shown = "running" \/ Latched(t) THEN tab[t].shown ELSE "unknown"

\* GitHub or the network fails the poll, or the handler answers success: false.
PollFails(t) ==
    /\ tab' = [tab EXCEPT ![t].inflight = NoAnswer, ![t].shown = FallBack(t)]
    /\ UNCHANGED <<now, runs, marker, worker, faults>>

\* The buttons: none while something is in progress, no teardown of a stack that
\* is known to be down; before the first answer there is only the pending bar's.
Offered(t, f) ==
    /\ tab[t].shown # "running"
    /\ f = "teardown" => tab[t].shown \notin {"none", "torn-down"}

\* Latch, and deliver the last answer again: if the server knew of some dispatch
\* then, the latch is dropped at once.
LatchedTab(u) ==
    [u EXCEPT !.latch = IF u.last.known THEN Never ELSE now,
              !.shown = IF u.last.known THEN u.last.infra ELSE "running"]

\* beginDispatch latches before the request is sent.  The model has one request of
\* a tab at a time.
Click(t, f) ==
    /\ tab[t].request = "none"
    /\ Offered(t, f)
    /\ tab' = [tab EXCEPT ![t] = [LatchedTab(@) EXCEPT !.request = "sent", !.family = f]]
    /\ UNCHANGED <<now, runs, marker, worker, faults>>

\* GitHub answers 204 to the handler.
Accept(t) ==
    /\ tab[t].request = "sent"
    /\ Len(runs) < MaxRuns
    /\ \E state \in Unfinished :
          runs' = Append(runs, NewRun(tab[t].family, state))
    /\ tab' = [tab EXCEPT ![t].request = "accepted", ![t].run = Len(runs')]
    /\ UNCHANGED <<now, marker, worker, faults>>

\* A tab whose request is over.
Unasked(u) == [u EXCEPT !.request = "none", !.family = "spinUp", !.run = 0]

\* cancelDispatch, and all buttons come back: the request failed, as far as the
\* tab can tell.
Cancel(t) == tab' = [tab EXCEPT ![t] = Unasked(@), ![t].latch = Never,
                                ![t].shown = "unknown"]

\* GitHub refuses.
Refuse(t) ==
    /\ tab[t].request = "sent"
    /\ Cancel(t)
    /\ UNCHANGED <<now, runs, marker, worker, faults>>

\* markDispatched, which swallows a failing write.
MarkAndAnswer(t, answered, marked) ==
    /\ faults' = faults + (IF answered THEN 0 ELSE 1) + (IF marked THEN 0 ELSE 1)
    /\ faults' <= MaxFaults
    /\ marker' = IF marked THEN [marker EXCEPT ![tab[t].family] = now] ELSE marker
    /\ runs' = [runs EXCEPT ![tab[t].run].answered = answered,
                            ![tab[t].run].marked = IF marked THEN now ELSE Never]

\* The answer of GitHub or of the handler does not arrive.
Lose(t) ==
    /\ tab[t].request = "accepted"
    /\ \E marked \in BOOLEAN : MarkAndAnswer(t, FALSE, marked)
    /\ Cancel(t)
    /\ UNCHANGED <<now, worker>>

\* The answer arrives: noteDispatch latches again and supersedes a poll in flight.
Answer(t) ==
    /\ tab[t].request = "accepted"
    /\ \E marked \in BOOLEAN : MarkAndAnswer(t, TRUE, marked)
    /\ tab' = [tab EXCEPT ![t] = [LatchedTab(Unasked(@)) EXCEPT !.inflight = NoAnswer]]
    /\ UNCHANGED <<now, worker>>

-----------------------------------------------------------------------------
(* The Worker                                                              *)

Listed(f) == {i \in DOMAIN runs : runs[i].listed /\ runs[i].family = f}
Latest == {i \in DOMAIN runs : /\ runs[i].listed
                               /\ \A k \in Listed(runs[i].family) : k <= i}

Completed == {i \in Latest : runs[i].state \in {"success", "failure"}}

\* checkInfraStatus answers "running" while a listed run is active.  Otherwise the
\* run completed last tells: a spin-up, of whatever conclusion, or a teardown that
\* failed count as "deployed".  Neither answer is skipped.
GoesOn ==
    \/ \E i \in Latest : runs[i].state = "active"
    \/ \E i \in Completed :
          /\ \A k \in Completed : runs[k].updated <= runs[i].updated
          /\ runs[i].family = "spinUp" \/ runs[i].state = "failure"

WorkerCheck ==
    /\ worker = "checking"
    /\ worker' = IF GoesOn THEN "dispatching" ELSE "done"
    /\ UNCHANGED <<now, runs, marker, tab, faults>>

\* The Worker's dispatch leaves no marker.
WorkerDispatch ==
    /\ worker = "dispatching"
    /\ Len(runs) < MaxRuns
    /\ \E state \in Unfinished :
          runs' = Append(runs, NewRun("teardown", state))
    /\ worker' = "done"
    /\ UNCHANGED <<now, marker, tab, faults>>

-----------------------------------------------------------------------------
TabStep(t) ==
    \/ Poll(t) \/ Deliver(t) \/ PollFails(t)
    \/ \E f \in Families : Click(t, f)
    \/ Accept(t) \/ Refuse(t) \/ Lose(t) \/ Answer(t)

Next ==
    \/ Tick
    \/ \E i \in DOMAIN runs : List(i) \/ Begin(i) \/ Complete(i)
    \/ \E t \in Tabs : TabStep(t)
    \/ WorkerCheck \/ WorkerDispatch

Spec == Init /\ [][Next]_vars

-----------------------------------------------------------------------------
(* Properties                                                              *)

Active(f) == {i \in DOMAIN runs : runs[i].family = f /\ runs[i].state \in Unfinished}

\* "a second click is a second provisioning run": a tab that is not reloaded does
\* not start a spin-up beside another one, however the polls, good and failed, the
\* listing, the answers and the Worker interleave, unless an earlier spin-up was not
\* acknowledged: its answer got lost; or a run of another family made the tab drop
\* its latch and D1 did not tell the two spin-ups apart (the marker got lost, or the
\* run before was younger than the clock skew); or an answer of GET /api/status
\* left it out, because the markers could not be read or the run was waiting.
Marked(i) ==
    /\ runs[i].marked # Never
    /\ \A k \in 1 .. i - 1 : runs[k].family = "spinUp" =>
          runs[k].created + Skew < runs[i].marked
Tracked(i) ==
    /\ runs[i].answered
    /\ Marked(i) \/ \A k \in DOMAIN runs : runs[k].family = "spinUp"
Acknowledged(i) == Tracked(i) /\ ~runs[i].missed
AtMostOneSpinUp ==
    \A i, k \in Active("spinUp") :
        i < k => \E j \in 1 .. k - 1 : runs[j].family = "spinUp" /\ ~Acknowledged(j)

\* "The server has taken over [...].  Either way it will keep the controls locked
\* without our help": no second spin-up after an answer left the first one out.
\* Not so: the markers may not be readable at a later poll, and a run that waits
\* for its turn does not count.
AtMostOneTrackedSpinUp ==
    \A i, k \in Active("spinUp") :
        i < k => \E j \in 1 .. k - 1 : runs[j].family = "spinUp" /\ ~Tracked(j)

\* A dispatch that D1 knows of is in progress for everybody who asks and for whom
\* the markers could be read, from the marker until GitHub lists its run, for the
\* grace period.  Left out are runs of the same family that are younger than the
\* clock skew.
TrackedDispatchIsShown ==
    \A i \in DOMAIN runs :
        LET f == runs[i].family IN
        /\ ~runs[i].listed
        /\ runs[i].marked # Never /\ marker[f] = runs[i].marked
        /\ now - marker[f] <= Grace
        /\ \A k \in DOMAIN runs \ {i} :
              runs[k].family = f => runs[k].created < Cutoff(f)
        => Status(TRUE).infra = "running"

\* The Worker's fail-closed check: no scheduled teardown is dispatched on top of
\* a spin-up.
WorkerWaitsForSpinUps ==
    [][worker = "dispatching" /\ worker' = "done" => Active("spinUp") = {}]_vars
=============================================================================

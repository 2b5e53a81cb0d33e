------------------------ MODULE ControlPlaneProofs ------------------------
(***************************************************************************)
(* The proofs about the two components the Control Plane keeps its state   *)
(* for, for every value of the constants.                                  *)
(*                                                                         *)
(* Dispatch: a marked dispatch is shown with any number of tabs; that no   *)
(* spin-up is started beside another one is a matter of one tab, its latch *)
(* and the marker.                                                         *)
(*                                                                         *)
(* DesiredState: what spin-up opens, what it takes down and what it        *)
(* records, with any number of spin-ups under way beside each other, a     *)
(* teardown and a setup, and toggles and updates at any time.  The two     *)
(* share no variable and no action: a run is a GitHub run in the one and   *)
(* the steps of a workflow in the other.                                   *)
(***************************************************************************)
EXTENDS Dispatch, DesiredState, SequenceTheorems, TLAPS

-----------------------------------------------------------------------------
(* Dispatch                                                                *)

\* The list of runs is in the order of creation, a marker is the one of a run of
\* its family, and a run that GitHub accepted is marked at once.
RunsInv ==
    /\ \A i \in DOMAIN runs :
          /\ runs[i].created <= now
          /\ ~runs[i].listed => now - runs[i].created <= Lag
          /\ runs[i].marked # Never =>
                /\ runs[i].created <= runs[i].marked
                /\ runs[i].marked <= now
                /\ runs[i].marked <= runs[i].created + Timeout
    /\ \A i, k \in DOMAIN runs : i < k => runs[i].created <= runs[k].created
    /\ \A f \in Families : marker[f] # Never =>
          \E i \in DOMAIN runs : runs[i].family = f /\ runs[i].marked = marker[f]

\* A request that GitHub accepted has a run of its own, not yet marked.
RequestInv ==
    /\ \A t \in Tabs : tab[t].request = "accepted" =>
          /\ tab[t].run \in DOMAIN runs
          /\ runs[tab[t].run].family = tab[t].family
          /\ runs[tab[t].run].marked = Never
          /\ now - runs[tab[t].run].created <= Timeout
    /\ \A t, u \in Tabs :
          tab[t].request = "accepted" /\ tab[u].request = "accepted"
          /\ tab[t].run = tab[u].run => t = u

-----------------------------------------------------------------------------
(* The shapes of runs and tabs                                             *)

\* What TypeOK says of each run, marker and tab.
LEMMA RunTypes ==
    ASSUME TypeOK
    PROVE  /\ now \in Nat /\ now <= MaxTime /\ MaxTime \in Nat
           /\ Len(runs) \in Nat /\ DOMAIN runs = 1 .. Len(runs)
           /\ \A i \in DOMAIN runs : runs[i] \in Run
           /\ \A i \in DOMAIN runs :
                 /\ i \in Nat
                 /\ runs[i].family \in Families /\ runs[i].created \in Nat
                 /\ runs[i].listed \in BOOLEAN /\ runs[i].updated \in Times
                 /\ runs[i].marked \in Nat /\ runs[i].answered \in BOOLEAN
                 /\ runs[i].missed \in BOOLEAN
           /\ \A f \in Families : marker[f] \in Nat
           /\ \A t \in Tabs :
                 /\ tab[t].request \in {"none", "sent", "accepted"}
                 /\ tab[t].family \in Families /\ tab[t].run \in Nat
                 /\ tab[t].latch \in Nat
                 /\ tab[t].inflight \in Answers /\ tab[t].shown \in Infra
<1>1. now \in Nat /\ now <= MaxTime /\ MaxTime \in Nat
  BY TimeAssumption DEF TypeOK, Times
<1>2. Len(runs) \in Nat /\ DOMAIN runs = 1 .. Len(runs)
  BY LenProperties DEF TypeOK
<1>3. \A i \in DOMAIN runs : runs[i] \in Run
  BY <1>2, ElementOfSeq DEF TypeOK
<1>4. Never \in Nat /\ Times \subseteq Nat
  BY TimeAssumption DEF Never, Times
<1>5. ASSUME NEW i \in DOMAIN runs
      PROVE  /\ i \in Nat
             /\ runs[i].family \in Families /\ runs[i].created \in Nat
             /\ runs[i].listed \in BOOLEAN /\ runs[i].updated \in Times
             /\ runs[i].marked \in Nat /\ runs[i].answered \in BOOLEAN
             /\ runs[i].missed \in BOOLEAN
  <2>1. i \in Nat
    BY <1>2
  <2>2. runs[i] \in Run
    BY <1>3
  <2>3. runs[i].created \in Times /\ runs[i].marked \in Times \cup {Never}
    BY <2>2 DEF Run
  <2>4. /\ runs[i].family \in Families /\ runs[i].listed \in BOOLEAN
        /\ runs[i].updated \in Times /\ runs[i].answered \in BOOLEAN
        /\ runs[i].missed \in BOOLEAN
    BY <2>2 DEF Run
  <2>5. QED
    BY <1>4, <2>1, <2>3, <2>4
<1>6. \A f \in Families : marker[f] \in Nat
  BY <1>4 DEF TypeOK
<1>7. ASSUME NEW t \in Tabs
      PROVE  /\ tab[t].request \in {"none", "sent", "accepted"}
             /\ tab[t].family \in Families /\ tab[t].run \in Nat
             /\ tab[t].latch \in Nat
             /\ tab[t].inflight \in Answers /\ tab[t].shown \in Infra
  <2>1. tab[t] \in Tab
    BY DEF TypeOK
  <2>2. tab[t].run \in 0 .. MaxRuns /\ tab[t].latch \in Times \cup {Never}
    BY <2>1 DEF Tab
  <2>3. /\ tab[t].request \in {"none", "sent", "accepted"}
        /\ tab[t].family \in Families
        /\ tab[t].inflight \in Answers /\ tab[t].shown \in Infra
    BY <2>1 DEF Tab
  <2>4. tab[t].run \in Nat
    BY <2>2, BoundAssumption
  <2>5. tab[t].latch \in Nat
    BY <1>4, <2>2
  <2>6. QED
    BY <2>3, <2>4, <2>5
<1>8. QED
  BY <1>1, <1>2, <1>3, <1>5, <1>6, <1>7

\* GitHub's new run is the last of the list; the others stay as they are.
LEMMA Appended ==
    ASSUME TypeOK, Len(runs) < MaxRuns, NEW f \in Families, NEW s \in Unfinished,
           runs' = Append(runs, NewRun(f, s))
    PROVE  /\ runs' \in Seq(Run) /\ Len(runs') = Len(runs) + 1
           /\ Len(runs') <= MaxRuns
           /\ DOMAIN runs' = DOMAIN runs \cup {Len(runs')}
           /\ Len(runs') \notin DOMAIN runs
           /\ \A i \in DOMAIN runs : runs'[i] = runs[i] /\ i < Len(runs')
           /\ runs'[Len(runs')] = NewRun(f, s)
<1>1. NewRun(f, s) \in Run
  BY DEF NewRun, Run, TypeOK
<1>2. Len(runs) \in Nat /\ DOMAIN runs = 1 .. Len(runs) /\ runs \in Seq(Run)
  BY RunTypes DEF TypeOK
<1>3. runs' \in Seq(Run) /\ Len(runs') = Len(runs) + 1
  BY <1>1, <1>2
<1>4. DOMAIN runs' = 1 .. Len(runs')
  BY <1>3, LenProperties
<1>5. \A i \in 1 .. Len(runs) : runs'[i] = runs[i]
  BY <1>1, <1>2
<1>6. runs'[Len(runs) + 1] = NewRun(f, s)
  BY <1>1, <1>2
<1>7. QED
  BY <1>2, <1>3, <1>4, <1>5, <1>6, BoundAssumption

\* One run of the list changes.
LEMMA Changed ==
    ASSUME TypeOK, NEW i \in DOMAIN runs, NEW r \in Run,
           runs' = [runs EXCEPT ![i] = r]
    PROVE  /\ runs' \in Seq(Run) /\ Len(runs') = Len(runs)
           /\ DOMAIN runs' = DOMAIN runs
           /\ runs'[i] = r
           /\ \A k \in DOMAIN runs : k # i => runs'[k] = runs[k]
<1>1. DOMAIN runs = 1 .. Len(runs) /\ runs \in Seq(Run)
  BY RunTypes DEF TypeOK
<1>2. /\ runs' \in Seq(Run) /\ Len(runs') = Len(runs)
      /\ \A k \in 1 .. Len(runs) : runs'[k] = IF k = i THEN r ELSE runs[k]
  BY <1>1, ExceptSeq
<1>3. DOMAIN runs' = 1 .. Len(runs')
  BY <1>2, LenProperties
<1>4. QED
  BY <1>1, <1>2, <1>3

\* The answer of GET /api/status.
LEMMA StatusTypes ==
    ASSUME TypeOK, NEW read \in BOOLEAN
    PROVE  Status(read) \in Answers /\ Status(read).infra # "none"
<1>1. Idle(read) \in {"unknown", "deployed", "torn-down"}
  BY DEF Idle
<1>2. QED
  BY <1>1 DEF Status, Answers, Infra

\* A poll changes of the runs only what its answer left out.
LEMMA PolledRuns ==
    ASSUME TypeOK, NEW read \in BOOLEAN,
           runs' = [i \in DOMAIN runs |->
                      [runs[i] EXCEPT !.missed = @ \/ LeftOut(i, read)]]
    PROVE  /\ runs' \in Seq(Run) /\ Len(runs') = Len(runs)
           /\ DOMAIN runs' = DOMAIN runs
           /\ \A i \in DOMAIN runs :
                 /\ runs'[i].family = runs[i].family
                 /\ runs'[i].created = runs[i].created
                 /\ runs'[i].listed = runs[i].listed
                 /\ runs'[i].state = runs[i].state
                 /\ runs'[i].marked = runs[i].marked
                 /\ runs'[i].answered = runs[i].answered
                 /\ runs'[i].missed <=> runs[i].missed \/ LeftOut(i, read)
<1>1. DOMAIN runs = 1 .. Len(runs) /\ Len(runs) \in Nat
  BY RunTypes
<1>2. ASSUME NEW i \in DOMAIN runs
      PROVE  /\ runs'[i] \in Run
             /\ runs'[i].family = runs[i].family
             /\ runs'[i].created = runs[i].created
             /\ runs'[i].listed = runs[i].listed
             /\ runs'[i].state = runs[i].state
             /\ runs'[i].marked = runs[i].marked
             /\ runs'[i].answered = runs[i].answered
             /\ runs'[i].missed <=> runs[i].missed \/ LeftOut(i, read)
  <2>1. runs[i] \in Run
    BY RunTypes
  <2>2. (runs[i].missed \/ LeftOut(i, read)) \in BOOLEAN
    OBVIOUS
  <2>3. runs'[i] = [runs[i] EXCEPT !.missed = @ \/ LeftOut(i, read)]
    OBVIOUS
  <2>4. QED
    BY <2>1, <2>2, <2>3 DEF Run
<1>3. DOMAIN runs' = 1 .. Len(runs)
  BY <1>1
<1>4. runs' \in Seq(Run) /\ Len(runs') = Len(runs)
  <2>1. runs' \in [1 .. Len(runs) -> Run]
    BY <1>1, <1>2
  <2>2. QED
    BY <1>1, <2>1, LenProperties
<1>5. QED
  BY <1>1, <1>2, <1>3, <1>4

\* One tab changes.
LEMMA NewTab ==
    ASSUME TypeOK, NEW t \in Tabs, NEW r \in Tab, tab' = [tab EXCEPT ![t] = r]
    PROVE  /\ tab' \in [Tabs -> Tab] /\ tab'[t] = r
           /\ \A u \in Tabs \ {t} : tab'[u] = tab[u]
BY DEF TypeOK

-----------------------------------------------------------------------------
(* Any number of tabs                                                      *)

\* Holds with any number of tabs.
BaseInv == TypeOK /\ RunsInv /\ RequestInv

\* What markDispatched changes: the marker of the family and the run that the
\* request created.
LEMMA MarkedRuns ==
    ASSUME TypeOK, NEW t \in Tabs, NEW answered \in BOOLEAN, NEW marked \in BOOLEAN,
           tab[t].run \in DOMAIN runs, MarkAndAnswer(t, answered, marked)
    PROVE  /\ runs' \in Seq(Run) /\ Len(runs') = Len(runs)
           /\ DOMAIN runs' = DOMAIN runs
           /\ \A k \in DOMAIN runs : k # tab[t].run => runs'[k] = runs[k]
           /\ runs'[tab[t].run].family = runs[tab[t].run].family
           /\ runs'[tab[t].run].created = runs[tab[t].run].created
           /\ runs'[tab[t].run].listed = runs[tab[t].run].listed
           /\ runs'[tab[t].run].state = runs[tab[t].run].state
           /\ runs'[tab[t].run].answered = answered
           /\ runs'[tab[t].run].missed = runs[tab[t].run].missed
           /\ runs'[tab[t].run].marked = (IF marked THEN now ELSE Never)
           /\ marker' = IF marked THEN [marker EXCEPT ![tab[t].family] = now]
                                  ELSE marker
           /\ faults' \in 0 .. MaxFaults
<1> DEFINE i == tab[t].run
           r == [runs[i] EXCEPT !.answered = answered,
                                !.marked = IF marked THEN now ELSE Never]
<1>1. runs[i] \in Run
  BY RunTypes
<1>2. r \in Run
  BY <1>1 DEF Run, TypeOK
<1>3. runs' = [runs EXCEPT ![i] = r]
  BY DEF MarkAndAnswer
<1>4. /\ runs' \in Seq(Run) /\ Len(runs') = Len(runs)
      /\ DOMAIN runs' = DOMAIN runs
      /\ runs'[i] = r
      /\ \A k \in DOMAIN runs : k # i => runs'[k] = runs[k]
  <2> HIDE DEF r, i
  <2>1. QED
    BY <1>2, <1>3, Changed DEF i
<1>5. /\ r.family = runs[i].family /\ r.created = runs[i].created
      /\ r.listed = runs[i].listed /\ r.state = runs[i].state
      /\ r.answered = answered /\ r.marked = (IF marked THEN now ELSE Never)
      /\ r.missed = runs[i].missed
  BY <1>1 DEF Run
<1>6. marker' = IF marked THEN [marker EXCEPT ![tab[t].family] = now] ELSE marker
  BY DEF MarkAndAnswer
<1>7. faults' \in 0 .. MaxFaults
  BY BoundAssumption DEF MarkAndAnswer, TypeOK
<1>8. QED
  BY <1>4, <1>5, <1>6, <1>7

\* As long as no request becomes an accepted one, the tabs do as they please.
LEMMA QuietTabs ==
    ASSUME BaseInv, now' = now, runs' = runs, marker' = marker,
           \A u \in Tabs : tab'[u].request = "accepted" =>
              /\ tab[u].request = "accepted"
              /\ tab'[u].run = tab[u].run /\ tab'[u].family = tab[u].family
    PROVE  RunsInv' /\ RequestInv'
<1>1. RunsInv'
  BY DEF BaseInv, RunsInv
<1>2. RequestInv'
  BY DEF BaseInv, RequestInv
<1>3. QED
  BY <1>1, <1>2

\* A tick waits for runs that must be listed and for requests that must be
\* answered.
LEMMA TickBase == ASSUME BaseInv, Tick PROVE BaseInv'
<1>1. TypeOK /\ RunsInv /\ RequestInv
  BY DEF BaseInv
<1>2. runs' = runs /\ marker' = marker /\ faults' = faults /\ now' = now + 1
  BY DEF Tick
<1>3. now < MaxTime
  BY DEF Tick
<1>4. \A i \in DOMAIN runs : ~runs[i].listed => now - runs[i].created < Lag
  BY DEF Tick, Age
<1>5. \A t \in Tabs : tab[t].request = "accepted" =>
            now - runs[tab[t].run].created < Timeout
  BY DEF Tick, Age
<1>6. tab' = [t \in Tabs |-> [tab[t] EXCEPT !.inflight = NoAnswer]]
  BY DEF Tick
<1>7. worker' \in {"waiting", "checking", "done"}
  BY <1>1 DEF Tick, TypeOK
<1>8. now' \in Times /\ now \in Nat /\ Lag \in Nat /\ Timeout \in Nat
  <2>1. now \in Nat /\ MaxTime \in Nat /\ Lag \in Nat /\ Timeout \in Nat
    BY <1>1, RunTypes, TimeAssumption
  <2>2. now + 1 \in 0 .. MaxTime
    BY <1>3, <2>1
  <2>3. QED
    BY <1>2, <2>1, <2>2 DEF Times
<1>9. tab' \in [Tabs -> Tab]
  <2>1. NoAnswer \in Answers
    BY DEF NoAnswer, Answers, Infra
  <2>2. ASSUME NEW t \in Tabs
        PROVE  [tab[t] EXCEPT !.inflight = NoAnswer] \in Tab
    BY <1>1, <2>1 DEF TypeOK, Tab
  <2>3. QED
    BY <1>6, <2>2
<1>10. TypeOK'
  BY <1>1, <1>2, <1>8, <1>9, <1>7 DEF TypeOK
<1>11. \A t \in Tabs : /\ tab'[t].request = tab[t].request
                      /\ tab'[t].run = tab[t].run /\ tab'[t].family = tab[t].family
  BY <1>1, <1>6 DEF TypeOK, Tab
<1>12. \A i \in DOMAIN runs : runs[i].created \in Nat /\ runs[i].marked \in Nat
  BY <1>1, RunTypes
<1>13. RunsInv'
  <2>1. ASSUME NEW i \in DOMAIN runs'
        PROVE  /\ runs'[i].created <= now'
               /\ ~runs'[i].listed => now' - runs'[i].created <= Lag
               /\ runs'[i].marked # Never =>
                     /\ runs'[i].created <= runs'[i].marked
                     /\ runs'[i].marked <= now'
                     /\ runs'[i].marked <= runs'[i].created + Timeout
    <3>1. i \in DOMAIN runs /\ runs'[i] = runs[i]
      BY <1>2
    <3>2. /\ runs[i].created <= now
          /\ ~runs[i].listed => now - runs[i].created < Lag
          /\ runs[i].marked # Never =>
                /\ runs[i].created <= runs[i].marked
                /\ runs[i].marked <= now
                /\ runs[i].marked <= runs[i].created + Timeout
      BY <1>1, <1>4, <3>1 DEF RunsInv
    <3>3. runs[i].created \in Nat /\ runs[i].marked \in Nat
      BY <1>12, <3>1
    <3>4. QED
      BY <1>2, <1>8, <3>1, <3>2, <3>3
  <2>2. \A i, k \in DOMAIN runs' : i < k => runs'[i].created <= runs'[k].created
    BY <1>1, <1>2 DEF RunsInv
  <2>3. \A f \in Families : marker'[f] # Never =>
          \E i \in DOMAIN runs' : runs'[i].family = f /\ runs'[i].marked = marker'[f]
    BY <1>1, <1>2 DEF RunsInv
  <2>4. QED
    BY <2>1, <2>2, <2>3 DEF RunsInv
<1>14. RequestInv'
  <2>1. ASSUME NEW t \in Tabs, tab'[t].request = "accepted"
        PROVE  /\ tab'[t].run \in DOMAIN runs'
               /\ runs'[tab'[t].run].family = tab'[t].family
               /\ runs'[tab'[t].run].marked = Never
               /\ now' - runs'[tab'[t].run].created <= Timeout
    <3>1. /\ tab[t].request = "accepted" /\ tab'[t].run = tab[t].run
          /\ tab'[t].family = tab[t].family
      BY <1>11, <2>1
    <3>2. /\ tab[t].run \in DOMAIN runs
          /\ runs[tab[t].run].family = tab[t].family
          /\ runs[tab[t].run].marked = Never
      BY <1>1, <3>1 DEF RequestInv
    <3>3. now - runs[tab[t].run].created < Timeout
      BY <1>5, <3>1
    <3>4. runs[tab[t].run].created \in Nat
      BY <1>12, <3>2
    <3>5. now + 1 - runs[tab[t].run].created <= Timeout
      BY <1>8, <3>3, <3>4
    <3>6. runs'[tab'[t].run] = runs[tab[t].run]
      BY <1>2, <3>1
    <3>7. now' - runs'[tab'[t].run].created = now + 1 - runs[tab[t].run].created
      BY <1>2, <1>8, <3>4, <3>6
    <3>8. QED
      BY <1>2, <3>1, <3>2, <3>5, <3>6, <3>7
  <2>2. \A t, u \in Tabs :
           tab'[t].request = "accepted" /\ tab'[u].request = "accepted"
           /\ tab'[t].run = tab'[u].run => t = u
    BY <1>1, <1>11 DEF RequestInv
  <2>3. QED
    BY <2>1, <2>2 DEF RequestInv
<1>15. QED
  BY <1>10, <1>13, <1>14 DEF BaseInv

\* A run of the same place and time, listed or completed.
LEMMA RunUpdated ==
    ASSUME BaseInv, NEW i \in DOMAIN runs, NEW r \in Run,
           runs' = [runs EXCEPT ![i] = r],
           r.family = runs[i].family, r.created = runs[i].created,
           r.marked = runs[i].marked, r.listed \/ ~runs[i].listed,
           UNCHANGED <<now, marker, tab, worker, faults>>
    PROVE  BaseInv'
<1>1. TypeOK /\ RunsInv /\ RequestInv
  BY DEF BaseInv
<1>2. /\ runs' \in Seq(Run) /\ Len(runs') = Len(runs)
      /\ DOMAIN runs' = DOMAIN runs /\ runs'[i] = r
      /\ \A k \in DOMAIN runs : k # i => runs'[k] = runs[k]
  BY <1>1, Changed
<1>3. \A k \in DOMAIN runs :
         /\ runs'[k].family = runs[k].family /\ runs'[k].created = runs[k].created
         /\ runs'[k].marked = runs[k].marked
         /\ ~runs'[k].listed => ~runs[k].listed
  BY <1>2
<1>4. TypeOK'
  BY <1>1, <1>2 DEF TypeOK
<1>5. RunsInv'
  BY <1>1, <1>2, <1>3 DEF RunsInv
<1>6. RequestInv'
  BY <1>1, <1>2, <1>3 DEF RequestInv
<1>7. QED
  BY <1>4, <1>5, <1>6 DEF BaseInv

\* GitHub lists a run.
LEMMA ListBase ==
    ASSUME BaseInv, NEW i \in DOMAIN runs, List(i)
    PROVE  BaseInv'
<1> DEFINE r == [runs[i] EXCEPT !.listed = TRUE]
<1>1. runs[i] \in Run
  BY RunTypes DEF BaseInv
<1>2. /\ r \in Run /\ r.family = runs[i].family /\ r.created = runs[i].created
      /\ r.marked = runs[i].marked /\ r.listed
  BY <1>1 DEF Run
<1>3. runs' = [runs EXCEPT ![i] = r]
  BY DEF List
<1>4. UNCHANGED <<now, marker, tab, worker, faults>>
  BY DEF List
<1> HIDE DEF r
<1>5. QED
  BY <1>2, <1>3, <1>4, RunUpdated

\* A run gets its turn.
LEMMA BeginBase ==
    ASSUME BaseInv, NEW i \in DOMAIN runs, Begin(i)
    PROVE  BaseInv'
<1> DEFINE r == [runs[i] EXCEPT !.state = "active"]
<1>1. runs[i] \in Run
  BY RunTypes DEF BaseInv
<1>2. /\ r \in Run /\ r.family = runs[i].family /\ r.created = runs[i].created
      /\ r.marked = runs[i].marked /\ r.listed = runs[i].listed
  BY <1>1 DEF Run, Unfinished
<1>3. runs' = [runs EXCEPT ![i] = r]
  BY DEF Begin
<1>4. UNCHANGED <<now, marker, tab, worker, faults>>
  BY DEF Begin
<1>5. r.listed \/ ~runs[i].listed
  BY <1>2
<1> HIDE DEF r
<1>6. QED
  BY <1>2, <1>3, <1>4, <1>5, RunUpdated

\* A run completes.
LEMMA CompleteBase ==
    ASSUME BaseInv, NEW i \in DOMAIN runs, Complete(i)
    PROVE  BaseInv'
<1>1. PICK state \in {"success", "failure"} :
          runs' = [runs EXCEPT ![i].state = state, ![i].updated = now]
  BY DEF Complete
<1> DEFINE r == [runs[i] EXCEPT !.state = state, !.updated = now]
<1>2. runs[i] \in Run
  BY RunTypes DEF BaseInv
<1>3. /\ r \in Run /\ r.family = runs[i].family /\ r.created = runs[i].created
      /\ r.marked = runs[i].marked /\ r.listed = runs[i].listed
  BY <1>2 DEF Run, BaseInv, TypeOK
<1>4. runs' = [runs EXCEPT ![i] = r]
  BY <1>1
<1>5. UNCHANGED <<now, marker, tab, worker, faults>>
  BY DEF Complete
<1>6. r.listed \/ ~runs[i].listed
  BY <1>3
<1> HIDE DEF r
<1>7. QED
  BY <1>3, <1>4, <1>5, <1>6, RunUpdated

\* The steps of a tab alone: nothing of GitHub's, and no request is accepted.
LEMMA TabAlone ==
    ASSUME BaseInv, NEW t \in Tabs, NEW r \in Tab,
           tab' = [tab EXCEPT ![t] = r],
           r.request = "accepted" =>
              /\ tab[t].request = "accepted"
              /\ r.run = tab[t].run /\ r.family = tab[t].family,
           UNCHANGED <<now, runs, marker, worker, faults>>
    PROVE  BaseInv'
<1>1. /\ tab' \in [Tabs -> Tab] /\ tab'[t] = r
      /\ \A u \in Tabs \ {t} : tab'[u] = tab[u]
  BY NewTab DEF BaseInv
<1>2. TypeOK'
  BY <1>1 DEF BaseInv, TypeOK
<1>3. RunsInv' /\ RequestInv'
  BY <1>1, QuietTabs
<1>4. QED
  BY <1>2, <1>3 DEF BaseInv

\* A poll is computed, and maybe leaves a run out.
LEMMA PollBase == ASSUME BaseInv, NEW t \in Tabs, Poll(t) PROVE BaseInv'
<1>1. TypeOK /\ RunsInv /\ RequestInv
  BY DEF BaseInv
<1>2. PICK read \in BOOLEAN :
          /\ faults' = faults + IF read THEN 0 ELSE 1
          /\ faults' <= MaxFaults
          /\ runs' = [i \in DOMAIN runs |->
                        [runs[i] EXCEPT !.missed = @ \/ LeftOut(i, read)]]
          /\ tab' = [tab EXCEPT ![t].inflight = Status(read)]
          /\ UNCHANGED <<now, marker, worker>>
  BY DEF Poll
<1> DEFINE r == [tab[t] EXCEPT !.inflight = Status(read)]
<1>3. tab[t] \in Tab /\ Status(read) \in Answers
  BY <1>1, StatusTypes DEF TypeOK
<1>4. /\ r \in Tab /\ r.request = tab[t].request /\ r.run = tab[t].run
      /\ r.family = tab[t].family
  BY <1>3 DEF Tab
<1>5. tab' = [tab EXCEPT ![t] = r]
  BY <1>2
<1> HIDE DEF r
<1>6. /\ tab' \in [Tabs -> Tab]
      /\ \A u \in Tabs : /\ tab'[u].request = tab[u].request
                         /\ tab'[u].run = tab[u].run
                         /\ tab'[u].family = tab[u].family
  <2>1. /\ tab' \in [Tabs -> Tab] /\ tab'[t] = r
        /\ \A u \in Tabs \ {t} : tab'[u] = tab[u]
    BY <1>1, <1>4, <1>5, NewTab
  <2>2. QED
    BY <1>4, <2>1
<1>7. /\ runs' \in Seq(Run) /\ Len(runs') = Len(runs)
      /\ DOMAIN runs' = DOMAIN runs
      /\ \A i \in DOMAIN runs :
            /\ runs'[i].family = runs[i].family
            /\ runs'[i].created = runs[i].created
            /\ runs'[i].listed = runs[i].listed
            /\ runs'[i].marked = runs[i].marked
  BY <1>1, <1>2, PolledRuns
<1>8. faults' \in 0 .. MaxFaults
  BY <1>1, <1>2, BoundAssumption DEF TypeOK
<1>9. TypeOK'
  BY <1>1, <1>2, <1>6, <1>7, <1>8 DEF TypeOK
<1>10. RunsInv'
  BY <1>1, <1>2, <1>7 DEF RunsInv
<1>11. RequestInv'
  BY <1>1, <1>2, <1>6, <1>7 DEF RequestInv
<1>12. QED
  BY <1>9, <1>10, <1>11 DEF BaseInv

\* What decorate leaves in the tab.
LEMMA DeliverTab ==
    ASSUME TypeOK, NEW t \in Tabs, Deliver(t)
    PROVE  \E r \in Tab :
              /\ tab' = [tab EXCEPT ![t] = r]
              /\ r.request = tab[t].request /\ r.run = tab[t].run
              /\ r.family = tab[t].family
              /\ r.inflight = NoAnswer
              /\ r.last = IF tab[t].inflight.known THEN tab[t].inflight ELSE NoAnswer
              /\ r.shown = IF Released(t) THEN tab[t].inflight.infra ELSE "running"
              /\ r.latch = IF Released(t) THEN Never ELSE tab[t].latch
<1> DEFINE r == [tab[t] EXCEPT !.inflight = NoAnswer,
                               !.last = IF tab[t].inflight.known THEN tab[t].inflight
                                        ELSE NoAnswer,
                               !.shown = IF Released(t) THEN tab[t].inflight.infra
                                         ELSE "running",
                               !.latch = IF Released(t) THEN Never ELSE tab[t].latch]
<1>1. tab[t] \in Tab
  BY DEF TypeOK
<1>2. /\ NoAnswer \in Answers /\ "running" \in Infra
      /\ tab[t].inflight \in Answers /\ tab[t].inflight.infra \in Infra
  BY <1>1 DEF NoAnswer, Answers, Infra, Tab
<1>3. /\ r \in Tab /\ r.request = tab[t].request /\ r.run = tab[t].run
      /\ r.family = tab[t].family
      /\ r.inflight = NoAnswer
      /\ r.last = IF tab[t].inflight.known THEN tab[t].inflight ELSE NoAnswer
      /\ r.shown = IF Released(t) THEN tab[t].inflight.infra ELSE "running"
      /\ r.latch = IF Released(t) THEN Never ELSE tab[t].latch
  BY <1>1, <1>2 DEF Tab
<1>4. tab' = [tab EXCEPT ![t] = r]
  BY <1>1 DEF Deliver, TypeOK
<1> HIDE DEF r
<1>5. QED
  BY <1>3, <1>4

\* An answer is delivered.
LEMMA DeliverBase == ASSUME BaseInv, NEW t \in Tabs, Deliver(t) PROVE BaseInv'
<1>1. PICK r \in Tab :
              /\ tab' = [tab EXCEPT ![t] = r]
              /\ r.request = tab[t].request /\ r.run = tab[t].run
              /\ r.family = tab[t].family
  BY DeliverTab DEF BaseInv
<1>2. UNCHANGED <<now, runs, marker, worker, faults>>
  BY DEF Deliver
<1>3. QED
  BY <1>1, <1>2, TabAlone

\* A poll fails.
LEMMA FailTab ==
    ASSUME TypeOK, NEW t \in Tabs, PollFails(t)
    PROVE  \E r \in Tab :
              /\ tab' = [tab EXCEPT ![t] = r]
              /\ r.request = tab[t].request /\ r.run = tab[t].run
              /\ r.family = tab[t].family /\ r.latch = tab[t].latch
              /\ r.inflight = NoAnswer /\ r.shown = FallBack(t)
              /\ r.last = tab[t].last
<1> DEFINE r == [tab[t] EXCEPT !.inflight = NoAnswer, !.shown = FallBack(t)]
<1>1. tab[t] \in Tab
  BY DEF TypeOK
<1>2. NoAnswer \in Answers /\ FallBack(t) \in Infra
  BY <1>1 DEF NoAnswer, Answers, Infra, FallBack, Tab
<1>3. /\ r \in Tab /\ r.request = tab[t].request /\ r.run = tab[t].run
      /\ r.family = tab[t].family /\ r.latch = tab[t].latch
      /\ r.inflight = NoAnswer /\ r.shown = FallBack(t) /\ r.last = tab[t].last
  BY <1>1, <1>2 DEF Tab
<1>4. tab' = [tab EXCEPT ![t] = r]
  BY <1>1 DEF PollFails, TypeOK
<1> HIDE DEF r
<1>5. QED
  BY <1>3, <1>4

\* A failed poll leaves GitHub and the request alone.
LEMMA FailBase == ASSUME BaseInv, NEW t \in Tabs, PollFails(t) PROVE BaseInv'
<1>1. PICK r \in Tab :
              /\ tab' = [tab EXCEPT ![t] = r]
              /\ r.request = tab[t].request /\ r.run = tab[t].run
              /\ r.family = tab[t].family
  BY FailTab DEF BaseInv
<1>2. UNCHANGED <<now, runs, marker, worker, faults>>
  BY DEF PollFails
<1>3. QED
  BY <1>1, <1>2, TabAlone

\* What the delivery of the last answer leaves in a tab that has latched.
LEMMA LatchedTabs ==
    ASSUME TypeOK, NEW u \in Tab
    PROVE  /\ LatchedTab(u) \in Tab
           /\ LatchedTab(u).request = u.request /\ LatchedTab(u).family = u.family
           /\ LatchedTab(u).run = u.run /\ LatchedTab(u).inflight = u.inflight
           /\ LatchedTab(u).last = u.last
           /\ LatchedTab(u).latch = IF u.last.known THEN Never ELSE now
           /\ LatchedTab(u).shown = IF u.last.known THEN u.last.infra ELSE "running"
<1>1. /\ u.last.infra \in Infra /\ "running" \in Infra
      /\ now \in Times
  BY DEF Tab, Answers, Infra, TypeOK
<1>2. QED
  BY <1>1 DEF LatchedTab, Tab

\* What beginDispatch leaves in the tab.
LEMMA ClickTab ==
    ASSUME TypeOK, NEW t \in Tabs, NEW f \in Families, Click(t, f)
    PROVE  \E r \in Tab :
              /\ tab' = [tab EXCEPT ![t] = r]
              /\ r.request = "sent" /\ r.family = f /\ r.run = tab[t].run
              /\ r.inflight = tab[t].inflight /\ r.last = tab[t].last
<1> DEFINE r == [LatchedTab(tab[t]) EXCEPT !.request = "sent", !.family = f]
<1>1. tab[t] \in Tab
  BY DEF TypeOK
<1>2. /\ LatchedTab(tab[t]) \in Tab
      /\ LatchedTab(tab[t]).run = tab[t].run
      /\ LatchedTab(tab[t]).inflight = tab[t].inflight
      /\ LatchedTab(tab[t]).last = tab[t].last
  BY <1>1, LatchedTabs
<1>3. /\ r \in Tab /\ r.request = "sent" /\ r.family = f /\ r.run = tab[t].run
      /\ r.inflight = tab[t].inflight /\ r.last = tab[t].last
  BY <1>2 DEF Tab
<1>4. tab' = [tab EXCEPT ![t] = r]
  BY <1>1 DEF Click, TypeOK
<1> HIDE DEF r
<1>5. QED
  BY <1>3, <1>4

\* A button is pressed.
LEMMA ClickBase ==
    ASSUME BaseInv, NEW t \in Tabs, NEW f \in Families, Click(t, f)
    PROVE  BaseInv'
<1>1. PICK r \in Tab : tab' = [tab EXCEPT ![t] = r] /\ r.request = "sent"
  BY ClickTab DEF BaseInv
<1>2. UNCHANGED <<now, runs, marker, worker, faults>>
  BY DEF Click
<1>3. QED
  BY <1>1, <1>2, TabAlone

\* What cancelDispatch leaves in the tab.
LEMMA CancelTab ==
    ASSUME TypeOK, NEW t \in Tabs, Cancel(t)
    PROVE  \E r \in Tab :
              /\ tab' = [tab EXCEPT ![t] = r]
              /\ r.request = "none" /\ r.family = "spinUp" /\ r.run = 0
              /\ r.latch = Never /\ r.inflight = tab[t].inflight
              /\ r.last = tab[t].last
<1> DEFINE r == [Unasked(tab[t]) EXCEPT !.latch = Never, !.shown = "unknown"]
<1>1. tab[t] \in Tab
  BY DEF TypeOK
<1>2. /\ r \in Tab /\ r.request = "none" /\ r.family = "spinUp" /\ r.run = 0
      /\ r.latch = Never /\ r.inflight = tab[t].inflight
      /\ r.last = tab[t].last
  <2>1. 0 \in 0 .. MaxRuns /\ "spinUp" \in Families /\ "unknown" \in Infra
    BY BoundAssumption DEF Families, Infra
  <2>2. QED
    BY <1>1, <2>1 DEF Tab, Unasked
<1>3. tab' = [tab EXCEPT ![t] = r]
  BY <1>1 DEF Cancel, TypeOK
<1> HIDE DEF r
<1>4. QED
  BY <1>2, <1>3

\* GitHub refuses.
LEMMA RefuseBase == ASSUME BaseInv, NEW t \in Tabs, Refuse(t) PROVE BaseInv'
<1>1. PICK r \in Tab : tab' = [tab EXCEPT ![t] = r] /\ r.request = "none"
  BY CancelTab DEF BaseInv, Refuse
<1>2. UNCHANGED <<now, runs, marker, worker, faults>>
  BY DEF Refuse
<1>3. QED
  BY <1>1, <1>2, TabAlone

\* What the tab waits for once GitHub accepted.
LEMMA AcceptTab ==
    ASSUME TypeOK, NEW t \in Tabs, Accept(t)
    PROVE  \E r \in Tab :
              /\ tab' = [tab EXCEPT ![t] = r]
              /\ r.request = "accepted" /\ r.family = tab[t].family
              /\ r.run = Len(runs') /\ r.latch = tab[t].latch
              /\ r.inflight = tab[t].inflight /\ r.last = tab[t].last
<1> DEFINE r == [tab[t] EXCEPT !.request = "accepted", !.run = Len(runs')]
<1>1. tab[t] \in Tab
  BY DEF TypeOK
<1>2. Len(runs') \in 0 .. MaxRuns
  <2>1. tab[t].family \in Families
    BY <1>1 DEF Tab
  <2>2. Len(runs') = Len(runs) + 1 /\ Len(runs') <= MaxRuns
    BY <2>1, Appended DEF Accept
  <2>3. QED
    BY <2>2, RunTypes, BoundAssumption
<1>3. /\ r \in Tab /\ r.request = "accepted" /\ r.family = tab[t].family
      /\ r.run = Len(runs') /\ r.latch = tab[t].latch
      /\ r.inflight = tab[t].inflight /\ r.last = tab[t].last
  BY <1>1, <1>2 DEF Tab
<1>4. tab' = [tab EXCEPT ![t] = r]
  BY <1>1 DEF Accept, TypeOK
<1> HIDE DEF r
<1>5. QED
  BY <1>3, <1>4

\* GitHub creates a run.
LEMMA AppendedBase ==
    ASSUME BaseInv, Len(runs) < MaxRuns, NEW f \in Families, NEW s \in Unfinished,
           runs' = Append(runs, NewRun(f, s)), now' = now, marker' = marker
    PROVE  RunsInv'
<1>1. TypeOK /\ RunsInv
  BY DEF BaseInv
<1>2. /\ DOMAIN runs' = DOMAIN runs \cup {Len(runs')}
      /\ Len(runs') \notin DOMAIN runs
      /\ \A i \in DOMAIN runs : runs'[i] = runs[i] /\ i < Len(runs')
      /\ runs'[Len(runs')] = NewRun(f, s)
  BY <1>1, Appended
<1>3. /\ NewRun(f, s).created = now /\ NewRun(f, s).marked = Never
      /\ NewRun(f, s).family = f
  BY DEF NewRun
<1>4. now \in Nat /\ Lag \in Nat /\ \A i \in DOMAIN runs : i \in Nat
  BY <1>1, RunTypes, TimeAssumption
<1>5. ASSUME NEW i \in DOMAIN runs'
      PROVE  /\ runs'[i].created <= now'
             /\ ~runs'[i].listed => now' - runs'[i].created <= Lag
             /\ runs'[i].marked # Never =>
                   /\ runs'[i].created <= runs'[i].marked
                   /\ runs'[i].marked <= now'
                   /\ runs'[i].marked <= runs'[i].created + Timeout
  <2>1. CASE i = Len(runs')
    BY <1>2, <1>3, <1>4, <2>1
  <2>2. CASE i \in DOMAIN runs
    BY <1>1, <1>2, <2>2 DEF RunsInv
  <2>3. QED
    BY <1>2, <2>1, <2>2
<1>6. ASSUME NEW i \in DOMAIN runs', NEW k \in DOMAIN runs', i < k
      PROVE  runs'[i].created <= runs'[k].created
  <2>1. Len(runs') \in Nat
    BY <1>1, Appended, RunTypes
  <2>2. i \in DOMAIN runs
    BY <1>2, <1>4, <1>6, <2>1
  <2>3. CASE k = Len(runs')
    BY <1>1, <1>2, <1>3, <2>2, <2>3 DEF RunsInv
  <2>4. CASE k \in DOMAIN runs
    BY <1>1, <1>2, <1>6, <2>2, <2>4 DEF RunsInv
  <2>5. QED
    BY <1>2, <2>3, <2>4
<1>7. \A g \in Families : marker'[g] # Never =>
        \E i \in DOMAIN runs' : runs'[i].family = g /\ runs'[i].marked = marker'[g]
  BY <1>1, <1>2 DEF RunsInv
<1>8. QED
  BY <1>5, <1>6, <1>7 DEF RunsInv

\* GitHub accepts.
LEMMA AcceptBase == ASSUME BaseInv, NEW t \in Tabs, Accept(t) PROVE BaseInv'
<1> DEFINE f == tab[t].family
<1>1. TypeOK /\ RunsInv /\ RequestInv
  BY DEF BaseInv
<1>2. f \in Families
  BY <1>1, RunTypes
<1>3. Len(runs) < MaxRuns /\ UNCHANGED <<now, marker, worker, faults>>
  BY DEF Accept
<1>4. PICK s \in Unfinished : runs' = Append(runs, NewRun(f, s))
  BY DEF Accept
<1>5. PICK r \in Tab :
          /\ tab' = [tab EXCEPT ![t] = r]
          /\ r.request = "accepted" /\ r.family = f /\ r.run = Len(runs')
  BY <1>1, AcceptTab
<1>6. /\ tab' \in [Tabs -> Tab] /\ tab'[t] = r
      /\ \A u \in Tabs \ {t} : tab'[u] = tab[u]
  BY <1>1, <1>5, NewTab
<1> HIDE DEF f
<1>7. /\ runs' \in Seq(Run) /\ Len(runs') <= MaxRuns
      /\ DOMAIN runs' = DOMAIN runs \cup {Len(runs')}
      /\ Len(runs') \notin DOMAIN runs
      /\ \A i \in DOMAIN runs : runs'[i] = runs[i]
      /\ runs'[Len(runs')] = NewRun(f, s)
  BY <1>1, <1>2, <1>3, <1>4, Appended
<1>8. TypeOK'
  BY <1>1, <1>3, <1>6, <1>7 DEF TypeOK
<1>9. RunsInv'
  BY <1>2, <1>3, <1>4, AppendedBase
<1>10. RequestInv'
  <2>1. /\ NewRun(f, s).created = now /\ NewRun(f, s).marked = Never
        /\ NewRun(f, s).family = f
    BY DEF NewRun
  <2>2. now \in Nat /\ Timeout \in Nat
    BY <1>1, RunTypes, TimeAssumption
  <2>3. ASSUME NEW u \in Tabs, tab'[u].request = "accepted"
        PROVE  /\ tab'[u].run \in DOMAIN runs'
               /\ runs'[tab'[u].run].family = tab'[u].family
               /\ runs'[tab'[u].run].marked = Never
               /\ now' - runs'[tab'[u].run].created <= Timeout
    <3>1. CASE u = t
      <4>1. tab'[u].run = Len(runs') /\ tab'[u].family = f
        BY <1>5, <1>6, <3>1
      <4>2. Len(runs') \in DOMAIN runs' /\ runs'[Len(runs')] = NewRun(f, s)
        BY <1>7
      <4>3. now' = now /\ now - now <= Timeout
        BY <1>3, <2>2
      <4>4. QED
        BY <2>1, <4>1, <4>2, <4>3
    <3>2. CASE u # t
      BY <1>1, <1>3, <1>6, <1>7, <2>3, <3>2 DEF RequestInv
    <3>3. QED
      BY <3>1, <3>2
  <2>4. ASSUME NEW u \in Tabs, NEW v \in Tabs, tab'[u].request = "accepted",
               tab'[v].request = "accepted", tab'[u].run = tab'[v].run
        PROVE  u = v
    <3>1. \A w \in Tabs \ {t} : tab'[w].request = "accepted" =>
             tab'[w].run # Len(runs')
      BY <1>1, <1>6, <1>7 DEF RequestInv
    <3>2. tab'[t].run = Len(runs')
      BY <1>5, <1>6
    <3>3. CASE u = t \/ v = t
      BY <2>4, <3>1, <3>2, <3>3
    <3>4. CASE u # t /\ v # t
      <4>1. tab'[u] = tab[u] /\ tab'[v] = tab[v]
        BY <1>6, <3>4
      <4>2. QED
        BY <1>1, <2>4, <4>1 DEF RequestInv
    <3>5. QED
      BY <3>3, <3>4
  <2>5. QED
    BY <2>3, <2>4 DEF RequestInv
<1>11. QED
  BY <1>8, <1>9, <1>10 DEF BaseInv

\* The marker is stored, or not.
LEMMA MarkedBase ==
    ASSUME BaseInv, NEW t \in Tabs, NEW answered \in BOOLEAN, NEW marked \in BOOLEAN,
           tab[t].request = "accepted", MarkAndAnswer(t, answered, marked),
           NEW r \in Tab, tab' = [tab EXCEPT ![t] = r], r.request = "none",
           UNCHANGED <<now, worker>>
    PROVE  BaseInv'
<1> DEFINE i == tab[t].run
<1>1. TypeOK /\ RunsInv /\ RequestInv
  BY DEF BaseInv
<1>2. /\ i \in DOMAIN runs /\ runs[i].family = tab[t].family
      /\ runs[i].marked = Never /\ now - runs[i].created <= Timeout
  BY <1>1 DEF RequestInv
<1>3. /\ runs' \in Seq(Run) /\ Len(runs') = Len(runs)
      /\ DOMAIN runs' = DOMAIN runs
      /\ \A k \in DOMAIN runs : k # i => runs'[k] = runs[k]
      /\ runs'[i].family = runs[i].family
      /\ runs'[i].created = runs[i].created
      /\ runs'[i].listed = runs[i].listed
      /\ runs'[i].marked = (IF marked THEN now ELSE Never)
      /\ marker' = IF marked THEN [marker EXCEPT ![tab[t].family] = now]
                             ELSE marker
      /\ faults' \in 0 .. MaxFaults
  BY <1>1, <1>2, MarkedRuns
<1>4. /\ tab' \in [Tabs -> Tab] /\ tab'[t] = r
      /\ \A u \in Tabs \ {t} : tab'[u] = tab[u]
  BY <1>1, NewTab
<1> HIDE DEF i
<1>5. tab[t].family \in Families /\ now \in Nat /\ runs[i].created \in Nat
      /\ Timeout \in Nat
  BY <1>1, <1>2, RunTypes, TimeAssumption
<1>6. TypeOK'
  <2>1. marker' \in [Families -> Times \cup {Never}]
    BY <1>1, <1>3, <1>5 DEF TypeOK
  <2>2. QED
    BY <1>1, <1>3, <1>4, <2>1 DEF TypeOK
<1>7. RunsInv'
  <2>1. ASSUME NEW k \in DOMAIN runs'
        PROVE  /\ runs'[k].created <= now'
               /\ ~runs'[k].listed => now' - runs'[k].created <= Lag
               /\ runs'[k].marked # Never =>
                     /\ runs'[k].created <= runs'[k].marked
                     /\ runs'[k].marked <= now'
                     /\ runs'[k].marked <= runs'[k].created + Timeout
    <3>1. CASE k # i
      BY <1>1, <1>3, <3>1 DEF RunsInv
    <3>2. CASE k = i
      <4>1. /\ runs[i].created <= now
            /\ ~runs[i].listed => now - runs[i].created <= Lag
        BY <1>1, <1>2 DEF RunsInv
      <4>2. now <= runs[i].created + Timeout
        BY <1>2, <1>5
      <4>3. QED
        BY <1>3, <1>5, <3>2, <4>1, <4>2
    <3>3. QED
      BY <3>1, <3>2
  <2>2. \A k, l \in DOMAIN runs' : k < l => runs'[k].created <= runs'[l].created
    BY <1>1, <1>3 DEF RunsInv
  <2>3. ASSUME NEW f \in Families, marker'[f] # Never
        PROVE  \E k \in DOMAIN runs' :
                  runs'[k].family = f /\ runs'[k].marked = marker'[f]
    <3>1. CASE marked /\ f = tab[t].family
      BY <1>1, <1>2, <1>3, <3>1 DEF TypeOK
    <3>2. CASE ~marked \/ f # tab[t].family
      <4>1. marker'[f] = marker[f]
        BY <1>1, <1>3, <1>5, <3>2 DEF TypeOK
      <4>2. PICK k \in DOMAIN runs : runs[k].family = f /\ runs[k].marked = marker[f]
        BY <1>1, <2>3, <4>1 DEF RunsInv
      <4>3. k # i
        BY <1>2, <2>3, <4>1, <4>2
      <4>4. QED
        BY <1>3, <4>1, <4>2, <4>3
    <3>3. QED
      BY <3>1, <3>2
  <2>4. QED
    BY <2>1, <2>2, <2>3 DEF RunsInv
<1>8. RequestInv'
  <2>1. ASSUME NEW u \in Tabs, tab'[u].request = "accepted"
        PROVE  /\ tab'[u].run \in DOMAIN runs'
               /\ runs'[tab'[u].run].family = tab'[u].family
               /\ runs'[tab'[u].run].marked = Never
               /\ now' - runs'[tab'[u].run].created <= Timeout
    <3>1. u # t /\ tab'[u] = tab[u]
      BY <1>4, <2>1
    <3>2. tab[u].run # i
      BY <1>1, <2>1, <3>1 DEF RequestInv, i
    <3>3. QED
      BY <1>1, <1>3, <2>1, <3>1, <3>2 DEF RequestInv
  <2>2. \A u, v \in Tabs :
           tab'[u].request = "accepted" /\ tab'[v].request = "accepted"
           /\ tab'[u].run = tab'[v].run => u = v
    BY <1>1, <1>4 DEF RequestInv
  <2>3. QED
    BY <2>1, <2>2 DEF RequestInv
<1>9. QED
  BY <1>6, <1>7, <1>8 DEF BaseInv

\* The answer is lost.
LEMMA LoseBase == ASSUME BaseInv, NEW t \in Tabs, Lose(t) PROVE BaseInv'
<1>1. PICK r \in Tab : tab' = [tab EXCEPT ![t] = r] /\ r.request = "none"
  BY CancelTab DEF BaseInv, Lose
<1>2. PICK marked \in BOOLEAN : MarkAndAnswer(t, FALSE, marked)
  BY DEF Lose
<1>3. tab[t].request = "accepted" /\ UNCHANGED <<now, worker>>
  BY DEF Lose
<1>4. QED
  BY <1>1, <1>2, <1>3, MarkedBase

\* What noteDispatch leaves in the tab.
LEMMA AnswerTab ==
    ASSUME TypeOK, NEW t \in Tabs, Answer(t)
    PROVE  \E r \in Tab :
              /\ tab' = [tab EXCEPT ![t] = r]
              /\ r.request = "none" /\ r.family = "spinUp" /\ r.run = 0
              /\ r.inflight = NoAnswer /\ r.last = tab[t].last
              /\ r.latch = IF tab[t].last.known THEN Never ELSE now
              /\ r.shown = IF tab[t].last.known THEN tab[t].last.infra ELSE "running"
<1> DEFINE u == Unasked(tab[t])
           r == [LatchedTab(u) EXCEPT !.inflight = NoAnswer]
<1>1. tab[t] \in Tab
  BY DEF TypeOK
<1>2. NoAnswer \in Answers
  BY DEF NoAnswer, Answers, Infra
<1>3. /\ u \in Tab /\ u.request = "none" /\ u.family = "spinUp" /\ u.run = 0
      /\ u.last = tab[t].last
  <2>1. 0 \in 0 .. MaxRuns /\ "spinUp" \in Families
    BY BoundAssumption DEF Families
  <2>2. QED
    BY <1>1, <2>1 DEF Tab, Unasked
<1> HIDE DEF u
<1>4. /\ LatchedTab(u) \in Tab
      /\ LatchedTab(u).request = "none" /\ LatchedTab(u).family = "spinUp"
      /\ LatchedTab(u).run = 0 /\ LatchedTab(u).last = tab[t].last
      /\ LatchedTab(u).latch = IF tab[t].last.known THEN Never ELSE now
      /\ LatchedTab(u).shown = IF tab[t].last.known THEN tab[t].last.infra
                               ELSE "running"
  BY <1>3, LatchedTabs
<1>5. /\ r \in Tab /\ r.request = "none" /\ r.family = "spinUp" /\ r.run = 0
      /\ r.inflight = NoAnswer /\ r.last = tab[t].last
      /\ r.latch = IF tab[t].last.known THEN Never ELSE now
      /\ r.shown = IF tab[t].last.known THEN tab[t].last.infra ELSE "running"
  BY <1>2, <1>4 DEF Tab
<1>6. tab' = [tab EXCEPT ![t] = r]
  BY <1>1 DEF Answer, TypeOK, u
<1> HIDE DEF r
<1>7. QED
  BY <1>5, <1>6

\* The answer arrives.
LEMMA AnswerBase == ASSUME BaseInv, NEW t \in Tabs, Answer(t) PROVE BaseInv'
<1>1. PICK r \in Tab : tab' = [tab EXCEPT ![t] = r] /\ r.request = "none"
  BY AnswerTab DEF BaseInv
<1>2. PICK marked \in BOOLEAN : MarkAndAnswer(t, TRUE, marked)
  BY DEF Answer
<1>3. tab[t].request = "accepted" /\ UNCHANGED <<now, worker>>
  BY DEF Answer
<1>4. QED
  BY <1>1, <1>2, <1>3, MarkedBase

\* The Worker reads the list.
LEMMA WorkerCheckBase == ASSUME BaseInv, WorkerCheck PROVE BaseInv'
<1>1. UNCHANGED <<now, runs, marker, tab, faults>>
      /\ worker' \in {"dispatching", "done"}
  BY DEF WorkerCheck
<1>2. TypeOK'
  BY <1>1 DEF BaseInv, TypeOK
<1>3. RunsInv' /\ RequestInv'
  BY <1>1, QuietTabs
<1>4. QED
  BY <1>2, <1>3 DEF BaseInv

\* The Worker's dispatch leaves no marker.
LEMMA WorkerDispatchBase == ASSUME BaseInv, WorkerDispatch PROVE BaseInv'
<1>1. TypeOK /\ RunsInv /\ RequestInv
  BY DEF BaseInv
<1>2. /\ Len(runs) < MaxRuns
      /\ \E s \in Unfinished : runs' = Append(runs, NewRun("teardown", s))
      /\ UNCHANGED <<now, marker, tab, faults>> /\ worker' = "done"
      /\ "teardown" \in Families
  BY DEF WorkerDispatch, Families
<1>3. /\ runs' \in Seq(Run) /\ Len(runs') <= MaxRuns
      /\ DOMAIN runs' = DOMAIN runs \cup {Len(runs')}
      /\ \A i \in DOMAIN runs : runs'[i] = runs[i]
  BY <1>1, <1>2, Appended
<1>4. TypeOK'
  BY <1>1, <1>2, <1>3 DEF TypeOK
<1>5. RunsInv'
  BY <1>2, AppendedBase
<1>6. RequestInv'
  BY <1>1, <1>2, <1>3 DEF RequestInv
<1>7. QED
  BY <1>4, <1>5, <1>6 DEF BaseInv

\* Nothing is dispatched at first.
LEMMA BaseInit == Init => BaseInv
<1> SUFFICES ASSUME Init PROVE BaseInv
  OBVIOUS
<1>1. TypeOK
  <2>1. /\ 0 \in Times /\ 0 \in 0 .. MaxRuns /\ 0 \in 0 .. MaxFaults
    BY TimeAssumption, BoundAssumption DEF Times
  <2>2. NoAnswer \in Answers
    BY DEF NoAnswer, Answers, Infra
  <2>3. runs \in Seq(Run) /\ Len(runs) <= MaxRuns
    BY EmptySeq, BoundAssumption DEF Init
  <2>4. ASSUME NEW t \in Tabs
        PROVE  tab[t] \in Tab
    <3>1. tab[t] = [request |-> "none", family |-> "spinUp", run |-> 0, latch |-> Never,
                    inflight |-> NoAnswer, last |-> NoAnswer, shown |-> "none"]
      BY DEF Init
    <3>2. "spinUp" \in Families /\ "none" \in Infra
      BY DEF Families, Infra
    <3>3. Never \in Times \cup {Never} /\ 0 \in 0 .. MaxRuns
      BY <2>1
    <3>4. QED
      BY <2>2, <3>1, <3>2, <3>3 DEF Tab
  <2>5. tab \in [Tabs -> Tab]
    BY <2>4 DEF Init
  <2>6. QED
    BY <2>1, <2>3, <2>5 DEF Init, TypeOK, Families
<1>2. DOMAIN runs = {}
  BY DEF Init
<1>3. RunsInv
  BY <1>2 DEF Init, RunsInv
<1>4. RequestInv
  BY <1>2 DEF Init, RequestInv
<1>5. QED
  BY <1>1, <1>3, <1>4 DEF BaseInv

\* Every step keeps the invariant.
LEMMA BaseStep == BaseInv /\ [Next]_vars => BaseInv'
<1> SUFFICES ASSUME BaseInv, [Next]_vars PROVE BaseInv'
  OBVIOUS
<1>1. CASE Tick
  BY <1>1, TickBase
<1>2. CASE \E i \in DOMAIN runs : List(i) \/ Begin(i) \/ Complete(i)
  BY <1>2, ListBase, BeginBase, CompleteBase
<1>3. CASE \E t \in Tabs : TabStep(t)
  BY <1>3, PollBase, DeliverBase, FailBase, ClickBase, AcceptBase, RefuseBase, LoseBase,
     AnswerBase
     DEF TabStep
<1>4. CASE WorkerCheck \/ WorkerDispatch
  BY <1>4, WorkerCheckBase, WorkerDispatchBase
<1>5. CASE UNCHANGED vars
  <2>1. UNCHANGED <<now, runs, marker, tab, worker, faults>>
    BY <1>5 DEF vars
  <2>2. TypeOK'
    BY <2>1 DEF BaseInv, TypeOK
  <2>3. QED
    BY <2>1, <2>2, QuietTabs DEF BaseInv
<1>6. QED
  BY <1>1, <1>2, <1>3, <1>4, <1>5 DEF Next

\* Every variable keeps its type: the answers of GET /api/status are of the
\* known kinds, and the list never holds more than GitHub created (status.js).
THEOREM TypeCorrect == Spec => []TypeOK
<1>1. BaseInv => TypeOK
  BY DEF BaseInv
<1> QED  BY <1>1, BaseInit, BaseStep, PTL DEF Spec

-----------------------------------------------------------------------------
(* What GET /api/status answers                                            *)

\* Of two families, one was dispatched first.
LEMMA OldestPending ==
    ASSUME TypeOK, NEW read \in BOOLEAN, Pending(read) # {}
    PROVE  Oldest(read) \in Pending(read)
<1>1. Pending(read) \subseteq {"spinUp", "teardown"}
  BY DEF Pending, Families
<1>2. /\ marker["spinUp"] \in Nat /\ marker["teardown"] \in Nat
  BY RunTypes DEF Families
<1>3. \E f \in Pending(read) : \A g \in Pending(read) : marker[f] <= marker[g]
  <2>1. CASE "spinUp" \notin Pending(read)
    <3>1. Pending(read) = {"teardown"}
      BY <1>1, <2>1
    <3>2. QED
      BY <1>2, <3>1
  <2>2. CASE "teardown" \notin Pending(read)
    <3>1. Pending(read) = {"spinUp"}
      BY <1>1, <2>2
    <3>2. QED
      BY <1>2, <3>1
  <2>3. CASE "spinUp" \in Pending(read) /\ "teardown" \in Pending(read)
    <3>1. CASE marker["spinUp"] <= marker["teardown"]
      BY <1>1, <1>2, <2>3, <3>1
    <3>2. CASE marker["teardown"] <= marker["spinUp"]
      BY <1>1, <1>2, <2>3, <3>2
    <3>3. QED
      BY <1>2, <3>1, <3>2
  <2>4. QED
    BY <2>1, <2>2, <2>3
<1>4. QED
  BY <1>3 DEF Oldest

\* The run that a marker stands for: younger than the cutoff.
LEMMA MarkedRun ==
    ASSUME BaseInv, NEW f \in Families, marker[f] # Never
    PROVE  \E i \in DOMAIN runs :
              /\ runs[i].family = f /\ runs[i].marked = marker[f]
              /\ runs[i].created <= marker[f] /\ marker[f] <= now
              /\ marker[f] <= runs[i].created + Timeout
              /\ Cutoff(f) <= runs[i].created
<1>1. TypeOK /\ RunsInv
  BY DEF BaseInv
<1>2. PICK i \in DOMAIN runs : runs[i].family = f /\ runs[i].marked = marker[f]
  BY <1>1 DEF RunsInv
<1>3. /\ runs[i].created <= marker[f] /\ marker[f] <= now
      /\ marker[f] <= runs[i].created + Timeout
  BY <1>1, <1>2 DEF RunsInv
<1>4. runs[i].created \in Nat /\ marker[f] \in Nat
  BY <1>1, RunTypes
<1>5. Cutoff(f) <= runs[i].created
  <2>1. Timeout \in Nat /\ Skew \in Nat /\ Timeout <= Skew
    BY TimeAssumption
  <2>2. QED
    BY <1>3, <1>4, <2>1 DEF Cutoff
<1>6. QED
  BY <1>2, <1>3, <1>5

\* With GitHub's list on time, no dispatch is pending for longer than the grace
\* period: the run of the marker is listed by then.
LEMMA PendingInGrace ==
    ASSUME BaseInv, Lag <= Grace, NEW read \in BOOLEAN, NEW f \in Pending(read)
    PROVE  now - marker[f] <= Grace
<1>1. TypeOK /\ RunsInv
  BY DEF BaseInv
<1>2. f \in Families /\ Fresh(read, f) /\ Selectable(read, f) = {}
  BY DEF Pending
<1>3. PICK i \in DOMAIN runs :
              /\ runs[i].family = f /\ runs[i].marked = marker[f]
              /\ runs[i].created <= marker[f] /\ marker[f] <= now
              /\ Cutoff(f) <= runs[i].created
  BY <1>2, MarkedRun DEF Fresh
<1>4. ~runs[i].listed
  BY <1>2, <1>3 DEF Selectable
<1>5. now - runs[i].created <= Lag
  BY <1>1, <1>4 DEF RunsInv
<1>6. /\ runs[i].created \in Nat /\ marker[f] \in Nat /\ now \in Nat
      /\ Lag \in Nat /\ Grace \in Nat
  BY <1>1, <1>2, RunTypes, TimeAssumption
<1>7. QED
  BY <1>3, <1>5, <1>6

\* While a dispatch is pending the server says so, and never that it timed out.
LEMMA PendingIsShown ==
    ASSUME BaseInv, Lag <= Grace, NEW read \in BOOLEAN
    PROVE  /\ Dispatching(read) <=> Pending(read) # {}
           /\ ~TimedOut(read)
<1>1. CASE Pending(read) = {}
  BY <1>1 DEF Dispatching, TimedOut
<1>2. CASE Pending(read) # {}
  <2>1. Oldest(read) \in Pending(read)
    BY <1>2, OldestPending DEF BaseInv
  <2>2. now - marker[Oldest(read)] <= Grace
    BY <2>1, PendingInGrace
  <2>3. now - marker[Oldest(read)] \in Int /\ Grace \in Int
    BY <2>1, RunTypes, TimeAssumption DEF BaseInv, Pending
  <2>4. QED
    BY <1>2, <2>2, <2>3 DEF Dispatching, TimedOut
<1>3. QED
  BY <1>1, <1>2

\* The fields of the answer.
LEMMA StatusFields ==
    ASSUME NEW read \in BOOLEAN
    PROVE  /\ Status(read).infra = "running" <=> Running(read) \/ Dispatching(read)
           /\ Status(read).known <=>
                 Running(read) \/ Dispatching(read) \/ TimedOut(read)
BY DEF Status, Idle

\* A dispatch that D1 knows of keeps its family pending.
LEMMA BaseShows ==
    ASSUME BaseInv, Lag <= Grace
    PROVE  TrackedDispatchIsShown
<1>1. TypeOK /\ RunsInv
  BY DEF BaseInv
<1>2. SUFFICES ASSUME NEW i \in DOMAIN runs, ~runs[i].listed,
                      runs[i].marked # Never,
                      marker[runs[i].family] = runs[i].marked,
                      now - marker[runs[i].family] <= Grace,
                      \A k \in DOMAIN runs \ {i} :
                         runs[k].family = runs[i].family =>
                            runs[k].created < Cutoff(runs[i].family)
               PROVE  Status(TRUE).infra = "running"
  BY DEF TrackedDispatchIsShown
<1> DEFINE f == runs[i].family
<1>3. f \in Families /\ marker[f] \in Nat /\ now \in Nat
      /\ \A k \in DOMAIN runs : runs[k].created \in Nat
  BY <1>1, RunTypes
<1>4. Cutoff(f) \in Nat
  BY <1>3, TimeAssumption DEF Cutoff
<1>5. now - marker[f] <= Ttl
  BY <1>2, <1>3, TimeAssumption
<1>6. Fresh(TRUE, f)
  BY <1>2, <1>5 DEF Fresh
<1>7. Selectable(TRUE, f) = {}
  <2>1. SUFFICES ASSUME NEW k \in Selectable(TRUE, f) PROVE FALSE
    OBVIOUS
  <2>2. /\ k \in DOMAIN runs /\ runs[k].family = f /\ runs[k].listed
        /\ runs[k].created >= Cutoff(f)
    BY <1>6 DEF Selectable
  <2>3. k # i
    BY <1>2, <2>2
  <2>4. runs[k].created < Cutoff(f) /\ runs[k].created \in Nat
    BY <1>2, <1>3, <2>2, <2>3
  <2>5. QED
    BY <1>4, <2>2, <2>4
<1>8. Pending(TRUE) # {}
  BY <1>3, <1>6, <1>7 DEF Pending
<1>9. QED
  BY <1>8, PendingIsShown, StatusFields

\* From its marker until GitHub lists its run, a dispatch is in progress for
\* everybody who asks and for whom the markers can be read, whatever the number
\* of tabs and of runs, provided that GitHub lists a run within the grace period
\* (dispatch-marker.js, status.js).
THEOREM TrackedShown ==
    ASSUME Lag <= Grace
    PROVE  Spec => []TrackedDispatchIsShown
<1>1. BaseInv => TrackedDispatchIsShown
  BY BaseShows
<1> QED  BY <1>1, BaseInit, BaseStep, PTL DEF Spec

-----------------------------------------------------------------------------
(* One tab                                                                 *)

\* The runs of the family that must not run twice.
SpinUpRuns == {i \in DOMAIN runs : runs[i].family = "spinUp"}

\* The spin-ups that a second one would run beside, or might.
OpenRuns == {i \in SpinUpRuns : ~runs[i].listed \/ runs[i].state \in Unfinished}

\* Every spin-up but the one that the tab is asking for is acknowledged.
Clear(t) == \A i \in SpinUpRuns \ {tab[t].run} : Acknowledged(i)

\* With one tab, the run of its request is the last spin-up, and the marker is
\* the one of the last spin-up that got one.
LastInv(t) ==
    /\ tab[t].request # "accepted" => tab[t].run = 0
    /\ tab[t].request = "accepted" /\ tab[t].family = "spinUp" =>
          \A i \in SpinUpRuns : i <= tab[t].run
    /\ \A i \in SpinUpRuns :
          (\A k \in SpinUpRuns : k <= i) /\ runs[i].marked # Never =>
             marker["spinUp"] = runs[i].marked

\* An answer in flight knows of a dispatch only if something is in progress.
AnswerInv(t) ==
    \/ tab[t].inflight = NoAnswer
    \/ /\ tab[t].inflight.infra # "none"
       /\ tab[t].inflight.known <=> tab[t].inflight.infra = "running"

\* What keeps the tab from a second click beside an open spin-up: it is the
\* last one; something is shown to be in progress; an answer without anything in
\* progress is powerless because of the latch; and if D1 cannot tell it from an
\* earlier one, no answer in flight drops the latch.
Watched(t, i) ==
    /\ \A k \in SpinUpRuns : k <= i
    /\ tab[t].shown = "running"
    /\ tab[t].inflight.infra \notin {"none", "running"} => Latched(t)
    /\ ~runs[i].listed /\ ~Marked(i) =>
          /\ tab[t].latch # Never /\ runs[i].created <= tab[t].latch
          /\ tab[t].inflight.infra # "none" => ~tab[t].inflight.known

\* Unless an acknowledgement is missing, a request goes out only when no spin-
\* up is open, and an open one is watched.
GuardInv(t) ==
    Clear(t) =>
        /\ tab[t].request # "none" => OpenRuns \subseteq {tab[t].run}
        /\ tab[t].request = "none" => \A i \in OpenRuns : Watched(t, i)

\* No family but this one.
OnlySpinUps == \A i \in DOMAIN runs : runs[i].family = "spinUp"

\* The answer delivered last knows of a dispatch only if it showed something in
\* progress.  Where there are only spin-ups, the tab has heard of a dispatch, or is
\* about to, only while it shows it, or once the run it asked for is listed: so that
\* noteDispatch does latch before that.
KnownInv(t) ==
    /\ tab[t].last.known => tab[t].last.infra = "running"
    /\ Clear(t) /\ OnlySpinUps /\ (tab[t].last.known \/ tab[t].inflight.known) =>
          \/ tab[t].request = "none" /\ tab[t].shown = "running"
          \/ tab[t].request = "accepted" /\ runs[tab[t].run].listed

\* The invariant of one tab.
TabInv(t) ==
    BaseInv /\ LastInv(t) /\ AnswerInv(t) /\ GuardInv(t) /\ KnownInv(t) /\ AtMostOneSpinUp

-----------------------------------------------------------------------------
(* An open spin-up is shown, or the tab holds its latch                    *)

\* A spin-up that GitHub lists and that runs is shown.
LEMMA ListedIsShown ==
    ASSUME BaseInv, NEW read \in BOOLEAN, NEW i \in SpinUpRuns, runs[i].listed,
           runs[i].state = "active",
           \A k \in SpinUpRuns : k <= i
    PROVE  Running(read)
<1>1. TypeOK /\ RunsInv
  BY DEF BaseInv
<1>2. i \in DOMAIN runs /\ runs[i].family = "spinUp" /\ "spinUp" \in Families
  BY DEF SpinUpRuns, Families
<1>3. Fresh(read, "spinUp") => Cutoff("spinUp") <= runs[i].created
  <2>1. SUFFICES ASSUME marker["spinUp"] # Never
                 PROVE  Cutoff("spinUp") <= runs[i].created
    BY DEF Fresh
  <2>2. PICK k \in DOMAIN runs : /\ runs[k].family = "spinUp"
                                 /\ Cutoff("spinUp") <= runs[k].created
    BY <1>2, <2>1, MarkedRun
  <2>3. k <= i
    BY <2>2 DEF SpinUpRuns
  <2>4. runs[k].created <= runs[i].created
    BY <1>1, <1>2, <2>2, <2>3, RunTypes DEF RunsInv
  <2>5. /\ runs[k].created \in Nat /\ runs[i].created \in Nat
        /\ marker["spinUp"] \in Nat
    BY <1>1, <1>2, <2>2, RunTypes
  <2>6. Cutoff("spinUp") \in Int
    BY <2>5, TimeAssumption DEF Cutoff
  <2>7. QED
    BY <2>2, <2>4, <2>5, <2>6
<1>4. i \in Selectable(read, "spinUp")
  <2>1. runs[i].created \in Nat /\ Cutoff("spinUp") \in Int
    BY <1>1, <1>2, RunTypes, TimeAssumption DEF Cutoff
  <2>2. QED
    BY <1>2, <1>3, <2>1 DEF Selectable
<1>5. \A k \in Selectable(read, "spinUp") : k <= i
  BY DEF Selectable, SpinUpRuns
<1>6. QED
  BY <1>2, <1>4, <1>5 DEF Selected, Running

\* One that D1 tells apart from those before it is shown as dispatching.
LEMMA MarkedIsShown ==
    ASSUME BaseInv, Lag <= Grace, NEW i \in SpinUpRuns, ~runs[i].listed, Marked(i),
           \A k \in SpinUpRuns : k <= i, marker["spinUp"] = runs[i].marked
    PROVE  Dispatching(TRUE)
<1>1. TypeOK /\ RunsInv
  BY DEF BaseInv
<1>2. i \in DOMAIN runs /\ runs[i].family = "spinUp" /\ "spinUp" \in Families
  BY DEF SpinUpRuns, Families
<1>3. /\ now \in Nat /\ runs[i].marked \in Nat /\ runs[i].created \in Nat
      /\ Lag \in Nat /\ Grace \in Nat /\ Ttl \in Nat /\ Skew \in Nat /\ Grace <= Ttl
      /\ \A k \in DOMAIN runs : runs[k].created \in Nat
  BY <1>1, <1>2, RunTypes, TimeAssumption
<1>4. Fresh(TRUE, "spinUp")
  <2>1. runs[i].marked # Never
    BY DEF Marked
  <2>2. now - runs[i].created <= Lag /\ runs[i].created <= runs[i].marked
    BY <1>1, <1>2, <2>1 DEF RunsInv
  <2>3. now - runs[i].marked <= Ttl
    BY <1>3, <2>2
  <2>4. QED
    BY <2>1, <2>3 DEF Fresh
<1>5. Selectable(TRUE, "spinUp") = {}
  <2>1. SUFFICES ASSUME NEW k \in Selectable(TRUE, "spinUp") PROVE FALSE
    OBVIOUS
  <2>2. /\ k \in DOMAIN runs /\ runs[k].family = "spinUp" /\ runs[k].listed
        /\ runs[k].created >= Cutoff("spinUp")
    BY <1>4 DEF Selectable
  <2>3. k # i /\ k <= i
    BY <2>2 DEF SpinUpRuns
  <2>4. k \in 1 .. i - 1
    BY <1>1, <1>2, <2>2, <2>3, RunTypes
  <2>5. runs[k].created + Skew < runs[i].marked
    BY <2>2, <2>4 DEF Marked
  <2>6. runs[k].created < Cutoff("spinUp")
    BY <1>3, <2>2, <2>5 DEF Cutoff
  <2>7. Cutoff("spinUp") \in Int
    BY <1>3 DEF Cutoff
  <2>8. QED
    BY <1>3, <2>2, <2>6, <2>7
<1>6. Pending(TRUE) # {}
  BY <1>2, <1>4, <1>5 DEF Pending
<1>7. QED
  BY <1>6, PendingIsShown

\* While there are only spin-ups, and all but the last are listed and over, the
\* server does not know of the last one, so that the tab keeps its latch.
LEMMA UnmarkedIsUnknown ==
    ASSUME BaseInv, NEW read \in BOOLEAN, NEW i \in SpinUpRuns, ~runs[i].listed,
           ~Marked(i),
           \A k \in DOMAIN runs : runs[k].family = "spinUp",
           \A k \in SpinUpRuns \ {i} :
              k < i /\ runs[k].listed /\ runs[k].state # "active"
    PROVE  ~Running(read) /\ Pending(read) = {}
<1>1. TypeOK /\ RunsInv
  BY DEF BaseInv
<1>2. i \in DOMAIN runs /\ DOMAIN runs = SpinUpRuns
  BY DEF SpinUpRuns
<1>3. \A f \in Families : \A k \in Selectable(read, f) :
         k \in SpinUpRuns /\ k # i /\ runs[k].state # "active"
  BY <1>2 DEF Selectable
<1>4. ~Running(read)
  BY <1>3 DEF Running, Selected
<1>5. ASSUME NEW f \in Pending(read)
      PROVE  FALSE
  <2>1. f \in Families /\ marker[f] # Never /\ Fresh(read, f) /\ Selectable(read, f) = {}
    BY DEF Pending, Fresh
  <2>2. PICK k \in DOMAIN runs :
              /\ runs[k].family = f /\ runs[k].marked = marker[f]
              /\ Cutoff(f) <= runs[k].created
    BY <1>1, <2>1, MarkedRun
  <2>3. f = "spinUp"
    BY <2>2
  <2>4. Cutoff(f) \in Int /\ \A l \in DOMAIN runs : runs[l].created \in Nat
        /\ marker[f] \in Nat /\ Skew \in Nat
    BY <1>1, <2>1, RunTypes, TimeAssumption DEF Cutoff
  <2>5. CASE k # i
    <3>1. runs[k].listed
      BY <1>2, <2>5
    <3>2. k \in Selectable(read, f)
      BY <2>2, <2>4, <3>1 DEF Selectable
    <3>3. QED
      BY <2>1, <3>2
  <2>6. CASE k = i
    <3>1. runs[i].marked # Never
      BY <2>1, <2>2, <2>6
    <3>2. PICK l \in 1 .. i - 1 :
              runs[l].family = "spinUp" /\ ~(runs[l].created + Skew < runs[i].marked)
      BY <3>1 DEF Marked
    <3>3. l \in DOMAIN runs /\ l # i
      BY <1>1, <1>2, RunTypes
    <3>4. runs[l].listed
      BY <1>2, <3>3
    <3>5. Cutoff(f) <= runs[l].created
      BY <2>2, <2>4, <2>6, <3>2, <3>3 DEF Cutoff
    <3>6. l \in Selectable(read, f)
      BY <2>3, <2>4, <3>2, <3>3, <3>4, <3>5 DEF Selectable
    <3>7. QED
      BY <2>1, <3>6
  <2>7. QED
    BY <2>5, <2>6
<1>6. QED
  BY <1>4, <1>5

-----------------------------------------------------------------------------
(* The steps, seen by one tab                                              *)

\* What the invariants see of the runs.
LEMMA SameRuns ==
    ASSUME runs' = runs
    PROVE  /\ SpinUpRuns' = SpinUpRuns /\ OpenRuns' = OpenRuns
           /\ \A i : Acknowledged(i)' <=> Acknowledged(i)
           /\ \A i : Marked(i)' <=> Marked(i)
           /\ AtMostOneSpinUp => AtMostOneSpinUp'
<1>1. SpinUpRuns' = SpinUpRuns /\ OpenRuns' = OpenRuns
  BY DEF SpinUpRuns, OpenRuns
<1>2. \A i : Marked(i)' <=> Marked(i)
  BY DEF Marked
<1>3. \A i : Acknowledged(i)' <=> Acknowledged(i)
  BY <1>2 DEF Acknowledged, Tracked
<1>4. AtMostOneSpinUp => AtMostOneSpinUp'
  BY <1>3 DEF AtMostOneSpinUp, Active
<1>5. QED
  BY <1>1, <1>2, <1>3, <1>4

\* A new run takes nothing from what was acknowledged, and gives nothing to it.
LEMMA GrownRuns ==
    ASSUME TypeOK, Len(runs) < MaxRuns, NEW f \in Families, NEW s \in Unfinished,
           runs' = Append(runs, NewRun(f, s))
    PROVE  /\ SpinUpRuns' = SpinUpRuns \cup (IF f = "spinUp" THEN {Len(runs')} ELSE {})
           /\ OpenRuns' = OpenRuns \cup (IF f = "spinUp" THEN {Len(runs')} ELSE {})
           /\ \A i \in DOMAIN runs : Marked(i)' <=> Marked(i)
           /\ \A i \in DOMAIN runs : Acknowledged(i)' => Acknowledged(i)
           /\ \A i \in DOMAIN runs : runs'[i] = runs[i] /\ i < Len(runs')
           /\ runs'[Len(runs')] = NewRun(f, s)
           /\ DOMAIN runs' = DOMAIN runs \cup {Len(runs')}
           /\ Len(runs') \in Nat /\ Len(runs') \notin DOMAIN runs
<1>1. /\ DOMAIN runs' = DOMAIN runs \cup {Len(runs')}
      /\ Len(runs') \notin DOMAIN runs
      /\ \A i \in DOMAIN runs : runs'[i] = runs[i] /\ i < Len(runs')
      /\ runs'[Len(runs')] = NewRun(f, s)
      /\ Len(runs') = Len(runs) + 1
  BY Appended
<1>2. /\ NewRun(f, s).family = f /\ ~NewRun(f, s).listed
  BY DEF NewRun
<1>3. SpinUpRuns' = SpinUpRuns \cup (IF f = "spinUp" THEN {Len(runs')} ELSE {})
  BY <1>1, <1>2 DEF SpinUpRuns
<1>4. OpenRuns' = OpenRuns \cup (IF f = "spinUp" THEN {Len(runs')} ELSE {})
  BY <1>1, <1>2, <1>3 DEF OpenRuns, SpinUpRuns
<1>5. ASSUME NEW i \in DOMAIN runs
      PROVE  Marked(i)' <=> Marked(i)
  <2>1. \A k \in 1 .. i - 1 : k \in DOMAIN runs
    BY RunTypes
  <2>2. \A k \in 1 .. i - 1 : runs'[k] = runs[k]
    BY <1>1, <2>1
  <2>3. QED
    BY <1>1, <2>2 DEF Marked
<1>6. \A i \in DOMAIN runs : Acknowledged(i)' => Acknowledged(i)
  BY <1>1, <1>5 DEF Acknowledged, Tracked
<1>7. Len(runs') \in Nat
  BY <1>1, RunTypes
<1>8. QED
  BY <1>1, <1>3, <1>4, <1>5, <1>6, <1>7

\* A run is listed or completes.
LEMMA UpdatedRuns ==
    ASSUME TypeOK, NEW i \in DOMAIN runs, NEW r \in Run,
           runs' = [runs EXCEPT ![i] = r],
           r.family = runs[i].family, r.created = runs[i].created,
           r.marked = runs[i].marked, r.answered = runs[i].answered,
           r.missed = runs[i].missed, r.listed \/ ~runs[i].listed,
           r.state \in Unfinished => runs[i].state \in Unfinished
    PROVE  /\ SpinUpRuns' = SpinUpRuns /\ OpenRuns' \subseteq OpenRuns
           /\ \A k \in DOMAIN runs : Marked(k)' <=> Marked(k)
           /\ \A k \in DOMAIN runs : Acknowledged(k)' <=> Acknowledged(k)
           /\ \A k \in DOMAIN runs :
                 /\ runs'[k].created = runs[k].created
                 /\ runs'[k].marked = runs[k].marked
                 /\ ~runs'[k].listed => ~runs[k].listed
           /\ AtMostOneSpinUp => AtMostOneSpinUp'
<1>1. DOMAIN runs' = DOMAIN runs
  BY Changed
<1>2. \A k \in DOMAIN runs :
         /\ runs'[k].family = runs[k].family /\ runs'[k].created = runs[k].created
         /\ runs'[k].marked = runs[k].marked
         /\ runs'[k].answered = runs[k].answered
         /\ runs'[k].missed = runs[k].missed
         /\ ~runs'[k].listed => ~runs[k].listed
         /\ runs'[k].state \in Unfinished => runs[k].state \in Unfinished
  BY Changed
<1>3. SpinUpRuns' = SpinUpRuns /\ OpenRuns' \subseteq OpenRuns
  BY <1>1, <1>2 DEF SpinUpRuns, OpenRuns
<1>4. ASSUME NEW k \in DOMAIN runs
      PROVE  /\ Marked(k)' <=> Marked(k)
             /\ Acknowledged(k)' <=> Acknowledged(k)
  <2>1. \A l \in 1 .. k - 1 : l \in DOMAIN runs
    BY RunTypes
  <2>2. Marked(k)' <=> Marked(k)
    BY <1>2, <2>1 DEF Marked
  <2>3. QED
    BY <1>1, <1>2, <2>2 DEF Acknowledged, Tracked
<1>5. AtMostOneSpinUp => AtMostOneSpinUp'
  <2>1. SUFFICES ASSUME AtMostOneSpinUp, NEW a \in Active("spinUp")',
                        NEW b \in Active("spinUp")', a < b
                 PROVE  \E j \in 1 .. b - 1 :
                           runs'[j].family = "spinUp" /\ ~Acknowledged(j)'
    BY DEF AtMostOneSpinUp
  <2>2. a \in Active("spinUp") /\ b \in Active("spinUp")
    BY <1>1, <1>2 DEF Active
  <2>3. PICK j \in 1 .. b - 1 : runs[j].family = "spinUp" /\ ~Acknowledged(j)
    BY <2>1, <2>2 DEF AtMostOneSpinUp
  <2>4. j \in DOMAIN runs
    BY <2>2, RunTypes DEF Active
  <2>5. QED
    BY <1>2, <1>4, <2>3, <2>4
<1>6. QED
  BY <1>1, <1>2, <1>3, <1>4, <1>5

\* A poll in flight ends with the tick.
LEMMA TickTab ==
    ASSUME NEW t, Tabs = {t}, TabInv(t), Tick
    PROVE  LastInv(t)' /\ AnswerInv(t)' /\ GuardInv(t)' /\ AtMostOneSpinUp'
<1>1. /\ TypeOK /\ LastInv(t) /\ AnswerInv(t) /\ GuardInv(t) /\ AtMostOneSpinUp
  BY DEF TabInv, BaseInv
<1>2. runs' = runs /\ marker' = marker
      /\ tab' = [u \in Tabs |-> [tab[u] EXCEPT !.inflight = NoAnswer]]
  BY DEF Tick
<1>3. tab[t] \in Tab
  BY <1>1 DEF TypeOK
<1>4. /\ tab'[t].request = tab[t].request /\ tab'[t].run = tab[t].run
      /\ tab'[t].family = tab[t].family /\ tab'[t].latch = tab[t].latch
      /\ tab'[t].inflight = NoAnswer /\ tab'[t].shown = tab[t].shown
  BY <1>2, <1>3 DEF Tab
<1>5. /\ SpinUpRuns' = SpinUpRuns /\ OpenRuns' = OpenRuns /\ AtMostOneSpinUp'
      /\ \A i : Acknowledged(i)' <=> Acknowledged(i)
      /\ \A i : Marked(i)' <=> Marked(i)
  BY <1>1, <1>2, SameRuns
<1>6. LastInv(t)'
  BY <1>1, <1>2, <1>4, <1>5 DEF LastInv
<1>7. AnswerInv(t)'
  BY <1>4 DEF AnswerInv
<1>8. NoAnswer.infra = "none"
  BY DEF NoAnswer
<1>9. \A i : Watched(t, i) => Watched(t, i)'
  BY <1>2, <1>4, <1>5, <1>8 DEF Watched
<1>10. Clear(t)' => Clear(t)
  BY <1>4, <1>5 DEF Clear
<1>11. GuardInv(t)'
  BY <1>1, <1>4, <1>5, <1>9, <1>10 DEF GuardInv
<1>12. QED
  BY <1>5, <1>6, <1>7, <1>11

\* A run that is listed or completes opens nothing.
LEMMA UpdatedTab ==
    ASSUME NEW t, Tabs = {t}, TabInv(t), NEW i \in DOMAIN runs, NEW r \in Run,
           runs' = [runs EXCEPT ![i] = r],
           r.family = runs[i].family, r.created = runs[i].created,
           r.marked = runs[i].marked, r.answered = runs[i].answered,
           r.missed = runs[i].missed, r.listed \/ ~runs[i].listed,
           r.state \in Unfinished => runs[i].state \in Unfinished,
           now' = now, marker' = marker, tab' = tab
    PROVE  LastInv(t)' /\ AnswerInv(t)' /\ GuardInv(t)' /\ AtMostOneSpinUp'
<1>1. /\ TypeOK /\ LastInv(t) /\ AnswerInv(t) /\ GuardInv(t) /\ AtMostOneSpinUp
  BY DEF TabInv, BaseInv
<1>2. /\ SpinUpRuns' = SpinUpRuns /\ OpenRuns' \subseteq OpenRuns /\ AtMostOneSpinUp'
      /\ \A k \in DOMAIN runs : Marked(k)' <=> Marked(k)
      /\ \A k \in DOMAIN runs : Acknowledged(k)' <=> Acknowledged(k)
      /\ \A k \in DOMAIN runs :
            /\ runs'[k].created = runs[k].created
            /\ runs'[k].marked = runs[k].marked
            /\ ~runs'[k].listed => ~runs[k].listed
  BY <1>1, UpdatedRuns
<1>3. SpinUpRuns \subseteq DOMAIN runs /\ OpenRuns \subseteq SpinUpRuns
  BY DEF SpinUpRuns, OpenRuns
<1>4. LastInv(t)'
  BY <1>1, <1>2, <1>3 DEF LastInv
<1>5. AnswerInv(t)'
  BY <1>1 DEF AnswerInv
<1>6. ASSUME NEW k \in SpinUpRuns, Watched(t, k)
      PROVE  Watched(t, k)'
  <2>1. Latched(t)' <=> Latched(t)
    BY DEF Latched
  <2>2. QED
    BY <1>2, <1>3, <1>6, <2>1 DEF Watched
<1>7. Clear(t)' => Clear(t)
  BY <1>2, <1>3 DEF Clear
<1>8. GuardInv(t)'
  BY <1>1, <1>2, <1>3, <1>6, <1>7 DEF GuardInv
<1>9. QED
  BY <1>2, <1>4, <1>5, <1>8

\* GitHub lists a run.
LEMMA ListTab ==
    ASSUME NEW t, Tabs = {t}, TabInv(t), NEW i \in DOMAIN runs, List(i)
    PROVE  LastInv(t)' /\ AnswerInv(t)' /\ GuardInv(t)' /\ AtMostOneSpinUp'
<1> DEFINE r == [runs[i] EXCEPT !.listed = TRUE]
<1>1. runs[i] \in Run
  BY RunTypes DEF TabInv, BaseInv
<1>2. /\ r \in Run /\ r.family = runs[i].family /\ r.created = runs[i].created
      /\ r.marked = runs[i].marked /\ r.answered = runs[i].answered
      /\ r.missed = runs[i].missed
      /\ r.listed /\ r.state = runs[i].state
  BY <1>1 DEF Run
<1>3. /\ runs' = [runs EXCEPT ![i] = r]
      /\ now' = now /\ marker' = marker /\ tab' = tab
  BY DEF List
<1> HIDE DEF r
<1>4. QED
  BY <1>2, <1>3, UpdatedTab

\* A run gets its turn.
LEMMA BeginTab ==
    ASSUME NEW t, Tabs = {t}, TabInv(t), NEW i \in DOMAIN runs, Begin(i)
    PROVE  LastInv(t)' /\ AnswerInv(t)' /\ GuardInv(t)' /\ AtMostOneSpinUp'
<1> DEFINE r == [runs[i] EXCEPT !.state = "active"]
<1>1. runs[i] \in Run /\ runs[i].state \in Unfinished
  BY RunTypes DEF TabInv, BaseInv, Begin, Unfinished
<1>2. /\ r \in Run /\ r.family = runs[i].family /\ r.created = runs[i].created
      /\ r.marked = runs[i].marked /\ r.answered = runs[i].answered
      /\ r.missed = runs[i].missed /\ r.listed = runs[i].listed
  BY <1>1 DEF Run, Unfinished
<1>3. /\ runs' = [runs EXCEPT ![i] = r]
      /\ now' = now /\ marker' = marker /\ tab' = tab
  BY DEF Begin
<1>4. r.listed \/ ~runs[i].listed
  BY <1>2
<1> HIDE DEF r
<1>5. QED
  BY <1>1, <1>2, <1>3, <1>4, UpdatedTab

\* A run completes.
LEMMA CompleteTab ==
    ASSUME NEW t, Tabs = {t}, TabInv(t), NEW i \in DOMAIN runs, Complete(i)
    PROVE  LastInv(t)' /\ AnswerInv(t)' /\ GuardInv(t)' /\ AtMostOneSpinUp'
<1>1. PICK state \in {"success", "failure"} :
          runs' = [runs EXCEPT ![i].state = state, ![i].updated = now]
  BY DEF Complete
<1> DEFINE r == [runs[i] EXCEPT !.state = state, !.updated = now]
<1>2. runs[i] \in Run
  BY RunTypes DEF TabInv, BaseInv
<1>3. /\ r \in Run /\ r.family = runs[i].family /\ r.created = runs[i].created
      /\ r.marked = runs[i].marked /\ r.answered = runs[i].answered
      /\ r.missed = runs[i].missed
      /\ r.listed = runs[i].listed /\ r.state \notin Unfinished
  BY <1>2 DEF Run, TabInv, BaseInv, TypeOK, Unfinished
<1>4. /\ runs' = [runs EXCEPT ![i] = r]
      /\ now' = now /\ marker' = marker /\ tab' = tab
  BY <1>1 DEF Complete
<1>5. r.listed \/ ~runs[i].listed
  BY <1>3
<1> HIDE DEF r
<1>6. QED
  BY <1>3, <1>4, <1>5, UpdatedTab

\* The answer to a poll: in progress, unless the tab holds its latch.
LEMMA PollAnswers ==
    ASSUME NEW t, Tabs = {t}, Lag <= Grace, TabInv(t), Clear(t),
           tab[t].request = "none", NEW i \in OpenRuns,
           NEW read \in BOOLEAN, ~LeftOut(i, read)
    PROVE  /\ Status(read).infra # "running" => Latched(t)
           /\ ~runs[i].listed /\ ~Marked(i) => ~Status(read).known
<1>1. BaseInv /\ TypeOK /\ RunsInv /\ LastInv(t) /\ GuardInv(t)
  BY DEF TabInv, BaseInv
<1>2. Watched(t, i)
  BY <1>1 DEF GuardInv
<1>3. i \in SpinUpRuns /\ i \in DOMAIN runs /\ runs[i].family = "spinUp"
      /\ (~runs[i].listed \/ runs[i].state \in Unfinished)
  BY DEF OpenRuns, SpinUpRuns
<1>4. \A k \in SpinUpRuns : k <= i
  BY <1>2 DEF Watched
<1>5. CASE runs[i].listed
  <2>1. runs[i].state = "active"
    BY <1>3, <1>5 DEF LeftOut, Unfinished
  <2>2. Running(read)
    BY <1>1, <1>3, <1>4, <1>5, <2>1, ListedIsShown
  <2>3. QED
    BY <1>5, <2>2, StatusFields
<1>6. CASE ~runs[i].listed /\ Marked(i)
  <2>1. marker["spinUp"] = runs[i].marked
    BY <1>1, <1>3, <1>4, <1>6 DEF LastInv, Marked
  <2>2. read
    BY <1>3, <1>6 DEF LeftOut, Marked
  <2>3. Dispatching(read)
    BY <1>1, <1>3, <1>4, <1>6, <2>1, <2>2, MarkedIsShown
  <2>4. QED
    BY <1>6, <2>3, StatusFields
<1>7. CASE ~runs[i].listed /\ ~Marked(i)
  <2>1. Acknowledged(i)
    <3>1. tab[t].run = 0
      BY <1>1 DEF LastInv
    <3>2. i # 0
      BY <1>1, <1>3, RunTypes
    <3>3. QED
      BY <1>3, <3>1, <3>2 DEF Clear
  <2>2. \A k \in DOMAIN runs : runs[k].family = "spinUp"
    BY <1>7, <2>1 DEF Acknowledged, Tracked
  <2>3. ASSUME NEW k \in SpinUpRuns \ {i}
        PROVE  k < i /\ runs[k].listed /\ runs[k].state \notin Unfinished
    <3>1. k \in DOMAIN runs /\ k <= i /\ k \in Nat /\ i \in Nat
      BY <1>1, <1>3, <1>4, RunTypes DEF SpinUpRuns
    <3>2. k < i
      BY <3>1
    <3>3. k \notin OpenRuns
      <4>1. SUFFICES ASSUME k \in OpenRuns PROVE FALSE
        OBVIOUS
      <4>2. i <= k
        BY <1>1, <1>3, <4>1 DEF GuardInv, Watched
      <4>3. QED
        BY <3>1, <3>2, <4>2
    <3>4. QED
      BY <3>2, <3>3 DEF OpenRuns
  <2>4. ~Running(read) /\ Pending(read) = {}
    <3>1. \A k \in SpinUpRuns \ {i} :
             k < i /\ runs[k].listed /\ runs[k].state # "active"
      BY <2>3 DEF Unfinished
    <3>2. QED
      BY <1>1, <1>3, <1>7, <2>2, <3>1, UnmarkedIsUnknown
  <2>5. ~Status(read).known
    BY <1>1, <2>4, PendingIsShown, StatusFields
  <2>6. Latched(t)
    <3>1. tab[t].latch # Never /\ runs[i].created <= tab[t].latch
      BY <1>2, <1>7 DEF Watched
    <3>2. now - runs[i].created <= Lag
      BY <1>1, <1>3, <1>7 DEF RunsInv
    <3>3. /\ now \in Nat /\ runs[i].created \in Nat /\ tab[t].latch \in Nat
          /\ Lag \in Nat /\ Grace \in Nat
      BY <1>1, <1>3, RunTypes, TimeAssumption
    <3>4. now - tab[t].latch <= Grace
      BY <3>1, <3>2, <3>3
    <3>5. QED
      BY <3>1, <3>4 DEF Latched
  <2>7. QED
    BY <2>5, <2>6
<1>8. QED
  BY <1>5, <1>6, <1>7

\* A poll leaves out no run that it acknowledges.
LEMMA PolledTab ==
    ASSUME TypeOK, NEW read \in BOOLEAN,
           runs' = [i \in DOMAIN runs |->
                      [runs[i] EXCEPT !.missed = @ \/ LeftOut(i, read)]]
    PROVE  /\ SpinUpRuns' = SpinUpRuns /\ OpenRuns' = OpenRuns
           /\ \A i \in DOMAIN runs :
                 /\ runs'[i].created = runs[i].created
                 /\ runs'[i].listed = runs[i].listed
                 /\ runs'[i].marked = runs[i].marked
                 /\ Marked(i)' <=> Marked(i)
                 /\ Acknowledged(i)' => Acknowledged(i) /\ ~LeftOut(i, read)
           /\ AtMostOneSpinUp => AtMostOneSpinUp'
<1>1. /\ DOMAIN runs' = DOMAIN runs
      /\ \A i \in DOMAIN runs :
            /\ runs'[i].family = runs[i].family
            /\ runs'[i].created = runs[i].created
            /\ runs'[i].listed = runs[i].listed
            /\ runs'[i].state = runs[i].state
            /\ runs'[i].marked = runs[i].marked
            /\ runs'[i].answered = runs[i].answered
            /\ runs'[i].missed <=> runs[i].missed \/ LeftOut(i, read)
  BY PolledRuns
<1>2. SpinUpRuns' = SpinUpRuns /\ OpenRuns' = OpenRuns
  BY <1>1 DEF SpinUpRuns, OpenRuns
<1>3. ASSUME NEW i \in DOMAIN runs
      PROVE  /\ Marked(i)' <=> Marked(i)
             /\ Acknowledged(i)' => Acknowledged(i) /\ ~LeftOut(i, read)
  <2>1. \A k \in 1 .. i - 1 : k \in DOMAIN runs
    BY RunTypes
  <2>2. Marked(i)' <=> Marked(i)
    BY <1>1, <2>1 DEF Marked
  <2>3. Tracked(i)' <=> Tracked(i)
    BY <1>1, <2>2 DEF Tracked
  <2>4. QED
    BY <1>1, <2>2, <2>3 DEF Acknowledged
<1>4. AtMostOneSpinUp => AtMostOneSpinUp'
  <2>1. SUFFICES ASSUME AtMostOneSpinUp, NEW a \in Active("spinUp")',
                        NEW b \in Active("spinUp")', a < b
                 PROVE  \E j \in 1 .. b - 1 :
                           runs'[j].family = "spinUp" /\ ~Acknowledged(j)'
    BY DEF AtMostOneSpinUp
  <2>2. a \in Active("spinUp") /\ b \in Active("spinUp")
    BY <1>1 DEF Active
  <2>3. PICK j \in 1 .. b - 1 : runs[j].family = "spinUp" /\ ~Acknowledged(j)
    BY <2>1, <2>2 DEF AtMostOneSpinUp
  <2>4. j \in DOMAIN runs
    BY <2>2, RunTypes DEF Active
  <2>5. QED
    BY <1>1, <1>3, <2>3, <2>4
<1>5. QED
  BY <1>1, <1>2, <1>3, <1>4

\* The answer to a poll is computed now and delivered later.
LEMMA PollTab ==
    ASSUME NEW t, Tabs = {t}, Lag <= Grace, TabInv(t), Poll(t)
    PROVE  LastInv(t)' /\ AnswerInv(t)' /\ GuardInv(t)' /\ AtMostOneSpinUp'
<1>1. /\ BaseInv /\ TypeOK /\ LastInv(t) /\ AnswerInv(t) /\ GuardInv(t)
      /\ AtMostOneSpinUp
  BY DEF TabInv, BaseInv
<1>2. PICK read \in BOOLEAN :
          /\ runs' = [i \in DOMAIN runs |->
                        [runs[i] EXCEPT !.missed = @ \/ LeftOut(i, read)]]
          /\ tab' = [tab EXCEPT ![t].inflight = Status(read)]
          /\ marker' = marker /\ now' = now
  BY DEF Poll
<1>3. tab[t] \in Tab
  BY <1>1 DEF TypeOK
<1>4. /\ tab'[t].request = tab[t].request /\ tab'[t].run = tab[t].run
      /\ tab'[t].family = tab[t].family /\ tab'[t].latch = tab[t].latch
      /\ tab'[t].inflight = Status(read) /\ tab'[t].shown = tab[t].shown
  <2>1. tab'[t] = [tab[t] EXCEPT !.inflight = Status(read)]
    BY <1>1, <1>2 DEF TypeOK
  <2>2. QED
    BY <1>3, <2>1 DEF Tab
<1>5. /\ SpinUpRuns' = SpinUpRuns /\ OpenRuns' = OpenRuns /\ AtMostOneSpinUp'
      /\ \A i \in DOMAIN runs :
            /\ runs'[i].created = runs[i].created
            /\ runs'[i].listed = runs[i].listed
            /\ runs'[i].marked = runs[i].marked
            /\ Marked(i)' <=> Marked(i)
            /\ Acknowledged(i)' => Acknowledged(i) /\ ~LeftOut(i, read)
  BY <1>1, <1>2, PolledTab
<1>6. SpinUpRuns \subseteq DOMAIN runs /\ OpenRuns \subseteq SpinUpRuns
  BY DEF SpinUpRuns, OpenRuns
<1>7. LastInv(t)'
  BY <1>1, <1>2, <1>4, <1>5, <1>6 DEF LastInv
<1>8. AnswerInv(t)'
  <2>1. /\ Status(read).infra # "none"
        /\ Status(read).known <=> Status(read).infra = "running"
    BY <1>1, PendingIsShown, StatusFields, StatusTypes
  <2>2. QED
    BY <1>4, <2>1 DEF AnswerInv
<1>9. GuardInv(t)'
  <2>1. SUFFICES ASSUME Clear(t)'
                 PROVE  /\ tab'[t].request # "none" => OpenRuns' \subseteq {tab'[t].run}
                        /\ tab'[t].request = "none" =>
                              \A i \in OpenRuns' : Watched(t, i)'
    BY DEF GuardInv
  <2>2. Clear(t)
    BY <1>4, <1>5, <1>6, <2>1 DEF Clear
  <2>3. tab'[t].request # "none" => OpenRuns' \subseteq {tab'[t].run}
    BY <1>1, <1>4, <1>5, <2>2 DEF GuardInv
  <2>4. ASSUME tab[t].request = "none", NEW i \in OpenRuns
        PROVE  Watched(t, i)'
    <3>1. Watched(t, i)
      BY <1>1, <2>2, <2>4 DEF GuardInv
    <3>2. ~LeftOut(i, read)
      <4>1. i \in SpinUpRuns /\ i \in DOMAIN runs /\ i # tab[t].run
        BY <1>1, <1>6, <2>4, RunTypes DEF LastInv
      <4>2. Acknowledged(i)'
        BY <1>4, <1>5, <2>1, <4>1 DEF Clear
      <4>3. QED
        BY <1>5, <4>1, <4>2
    <3>3. /\ Status(read).infra # "running" => Latched(t)
          /\ ~runs[i].listed /\ ~Marked(i) => ~Status(read).known
      BY <2>2, <2>4, <3>2, PollAnswers
    <3>4. Latched(t)' <=> Latched(t)
      BY <1>2, <1>4 DEF Latched
    <3>5. QED
      BY <1>4, <1>5, <1>6, <3>1, <3>3, <3>4 DEF Watched
  <2>5. QED
    BY <1>4, <1>5, <2>3, <2>4
<1>10. QED
  BY <1>5, <1>7, <1>8, <1>9

\* An answer drops the latch only if it shows something in progress.
LEMMA DeliverGuard ==
    ASSUME NEW t, Tabs = {t}, TabInv(t), Deliver(t)
    PROVE  LastInv(t)' /\ AnswerInv(t)' /\ GuardInv(t)' /\ AtMostOneSpinUp'
<1>1. /\ TypeOK /\ LastInv(t) /\ AnswerInv(t) /\ GuardInv(t) /\ AtMostOneSpinUp
  BY DEF TabInv, BaseInv
<1>2. /\ runs' = runs /\ marker' = marker /\ now' = now
      /\ tab[t].inflight # NoAnswer
  BY DEF Deliver
<1>3. PICK r \in Tab :
          /\ tab' = [tab EXCEPT ![t] = r]
          /\ r.request = tab[t].request /\ r.run = tab[t].run
          /\ r.family = tab[t].family
          /\ r.inflight = NoAnswer
          /\ r.shown = IF Released(t) THEN tab[t].inflight.infra ELSE "running"
          /\ r.latch = IF Released(t) THEN Never ELSE tab[t].latch
  BY <1>1, DeliverTab
<1>4. tab'[t] = r
  BY <1>1, <1>3, NewTab
<1>5. /\ SpinUpRuns' = SpinUpRuns /\ OpenRuns' = OpenRuns /\ AtMostOneSpinUp'
      /\ \A i : Acknowledged(i)' <=> Acknowledged(i)
      /\ \A i : Marked(i)' <=> Marked(i)
  BY <1>1, <1>2, SameRuns
<1>6. LastInv(t)'
  BY <1>1, <1>2, <1>3, <1>4, <1>5 DEF LastInv
<1>7. AnswerInv(t)'
  BY <1>3, <1>4 DEF AnswerInv
<1>8. /\ tab[t].inflight.infra # "none"
      /\ tab[t].inflight.known <=> tab[t].inflight.infra = "running"
  BY <1>1, <1>2 DEF AnswerInv
<1>9. Clear(t)' => Clear(t)
  BY <1>3, <1>4, <1>5 DEF Clear
<1>10. ASSUME NEW i, Watched(t, i)
       PROVE  Watched(t, i)'
  <2>1. /\ \A k \in SpinUpRuns : k <= i
        /\ tab[t].inflight.infra # "running" => Latched(t)
        /\ ~runs[i].listed /\ ~Marked(i) =>
              /\ tab[t].latch # Never /\ runs[i].created <= tab[t].latch
              /\ ~tab[t].inflight.known
    BY <1>8, <1>10 DEF Watched
  <2>2. r.shown = "running"
    BY <1>3, <1>8, <2>1 DEF Released
  <2>3. ~tab[t].inflight.known => r.latch = tab[t].latch
    BY <1>3, <1>8, <2>1 DEF Released
  <2>4. NoAnswer.infra = "none"
    BY DEF NoAnswer
  <2>5. QED
    BY <1>2, <1>3, <1>4, <1>5, <1>8, <2>1, <2>2, <2>3, <2>4 DEF Watched
<1>11. GuardInv(t)'
  BY <1>1, <1>3, <1>4, <1>5, <1>9, <1>10 DEF GuardInv
<1>12. QED
  BY <1>5, <1>6, <1>7, <1>11

\* A failed poll is no evidence that the run finished.
LEMMA FailGuard ==
    ASSUME NEW t, Tabs = {t}, TabInv(t), PollFails(t)
    PROVE  LastInv(t)' /\ AnswerInv(t)' /\ GuardInv(t)' /\ AtMostOneSpinUp'
<1>1. /\ TypeOK /\ LastInv(t) /\ AnswerInv(t) /\ GuardInv(t) /\ AtMostOneSpinUp
  BY DEF TabInv, BaseInv
<1>2. runs' = runs /\ marker' = marker /\ now' = now
  BY DEF PollFails
<1>3. PICK r \in Tab :
          /\ tab' = [tab EXCEPT ![t] = r]
          /\ r.request = tab[t].request /\ r.run = tab[t].run
          /\ r.family = tab[t].family /\ r.latch = tab[t].latch
          /\ r.inflight = NoAnswer /\ r.shown = FallBack(t)
  BY <1>1, FailTab
<1>4. tab'[t] = r
  BY <1>1, <1>3, NewTab
<1>5. /\ SpinUpRuns' = SpinUpRuns /\ OpenRuns' = OpenRuns /\ AtMostOneSpinUp'
      /\ \A i : Acknowledged(i)' <=> Acknowledged(i)
      /\ \A i : Marked(i)' <=> Marked(i)
  BY <1>1, <1>2, SameRuns
<1>6. LastInv(t)'
  BY <1>1, <1>2, <1>3, <1>4, <1>5 DEF LastInv
<1>7. AnswerInv(t)'
  BY <1>3, <1>4 DEF AnswerInv
<1>8. Clear(t)' => Clear(t)
  BY <1>3, <1>4, <1>5 DEF Clear
<1>9. ASSUME NEW i, Watched(t, i)
      PROVE  Watched(t, i)'
  <2>1. r.shown = "running"
    BY <1>3, <1>9 DEF Watched, FallBack
  <2>2. NoAnswer.infra = "none"
    BY DEF NoAnswer
  <2>3. QED
    BY <1>2, <1>3, <1>4, <1>5, <1>9, <2>1, <2>2 DEF Watched
<1>10. GuardInv(t)'
  BY <1>1, <1>3, <1>4, <1>5, <1>8, <1>9 DEF GuardInv
<1>11. QED
  BY <1>5, <1>6, <1>7, <1>10

\* The buttons are offered only when every earlier spin-up is listed and over.
LEMMA ClickGuard ==
    ASSUME NEW t, Tabs = {t}, TabInv(t), NEW f \in Families, Click(t, f)
    PROVE  LastInv(t)' /\ AnswerInv(t)' /\ GuardInv(t)' /\ AtMostOneSpinUp'
<1>1. /\ TypeOK /\ LastInv(t) /\ AnswerInv(t) /\ GuardInv(t) /\ AtMostOneSpinUp
  BY DEF TabInv, BaseInv
<1>2. /\ runs' = runs /\ marker' = marker /\ now' = now
      /\ tab[t].request = "none" /\ tab[t].shown # "running"
  BY DEF Click, Offered
<1>3. PICK r \in Tab :
          /\ tab' = [tab EXCEPT ![t] = r]
          /\ r.request = "sent" /\ r.family = f /\ r.run = tab[t].run
          /\ r.inflight = tab[t].inflight
  BY <1>1, ClickTab
<1>4. tab'[t] = r
  BY <1>1, <1>3, NewTab
<1>5. /\ SpinUpRuns' = SpinUpRuns /\ OpenRuns' = OpenRuns /\ AtMostOneSpinUp'
      /\ \A i : Acknowledged(i)' <=> Acknowledged(i)
  BY <1>1, <1>2, SameRuns
<1>6. LastInv(t)'
  BY <1>1, <1>2, <1>3, <1>4, <1>5 DEF LastInv
<1>7. AnswerInv(t)'
  BY <1>1, <1>3, <1>4 DEF AnswerInv
<1>8. Clear(t)' => Clear(t)
  BY <1>3, <1>4, <1>5 DEF Clear
<1>9. Clear(t) => OpenRuns = {}
  BY <1>1, <1>2 DEF GuardInv, Watched
<1>10. GuardInv(t)'
  BY <1>3, <1>4, <1>5, <1>8, <1>9 DEF GuardInv
<1>11. QED
  BY <1>5, <1>6, <1>7, <1>10

\* The latch is dropped, but no spin-up was open.
LEMMA RefuseGuard ==
    ASSUME NEW t, Tabs = {t}, TabInv(t), Refuse(t)
    PROVE  LastInv(t)' /\ AnswerInv(t)' /\ GuardInv(t)' /\ AtMostOneSpinUp'
<1>1. /\ TypeOK /\ LastInv(t) /\ AnswerInv(t) /\ GuardInv(t) /\ AtMostOneSpinUp
  BY DEF TabInv, BaseInv
<1>2. /\ runs' = runs /\ marker' = marker /\ now' = now
      /\ tab[t].request = "sent" /\ Cancel(t)
  BY DEF Refuse
<1>3. PICK r \in Tab :
          /\ tab' = [tab EXCEPT ![t] = r]
          /\ r.request = "none" /\ r.run = 0
          /\ r.inflight = tab[t].inflight
  BY <1>1, <1>2, CancelTab
<1>4. tab'[t] = r
  BY <1>1, <1>3, NewTab
<1>5. /\ SpinUpRuns' = SpinUpRuns /\ OpenRuns' = OpenRuns /\ AtMostOneSpinUp'
      /\ \A i : Acknowledged(i)' <=> Acknowledged(i)
  BY <1>1, <1>2, SameRuns
<1>6. LastInv(t)'
  BY <1>1, <1>2, <1>3, <1>4, <1>5 DEF LastInv
<1>7. AnswerInv(t)'
  BY <1>1, <1>3, <1>4 DEF AnswerInv
<1>8. tab[t].run = 0 /\ 0 \notin SpinUpRuns
  BY <1>1, <1>2, RunTypes DEF LastInv, SpinUpRuns
<1>9. Clear(t)' => Clear(t)
  BY <1>3, <1>4, <1>5, <1>8 DEF Clear
<1>10. Clear(t) => OpenRuns = {}
  BY <1>1, <1>2, <1>8 DEF GuardInv, OpenRuns
<1>11. GuardInv(t)'
  BY <1>3, <1>4, <1>5, <1>9, <1>10 DEF GuardInv
<1>12. QED
  BY <1>5, <1>6, <1>7, <1>11

\* A spin-up is created beside no open one, unless an earlier one is not
\* acknowledged.
LEMMA AcceptGuard ==
    ASSUME NEW t, Tabs = {t}, TabInv(t), Accept(t)
    PROVE  LastInv(t)' /\ AnswerInv(t)' /\ GuardInv(t)' /\ AtMostOneSpinUp'
<1> DEFINE f == tab[t].family
           n == Len(runs')
<1>1. /\ TypeOK /\ LastInv(t) /\ AnswerInv(t) /\ GuardInv(t) /\ AtMostOneSpinUp
  BY DEF TabInv, BaseInv
<1>2. /\ tab[t].request = "sent" /\ Len(runs) < MaxRuns
      /\ marker' = marker /\ now' = now /\ f \in Families
  BY <1>1, RunTypes DEF Accept
<1>3. PICK s \in Unfinished : runs' = Append(runs, NewRun(f, s))
  BY DEF Accept
<1>4. PICK r \in Tab :
          /\ tab' = [tab EXCEPT ![t] = r]
          /\ r.request = "accepted" /\ r.family = f /\ r.run = n
          /\ r.inflight = tab[t].inflight
  BY <1>1, AcceptTab
<1>5. tab'[t] = r
  BY <1>1, <1>4, NewTab
<1>6. /\ SpinUpRuns' = SpinUpRuns \cup (IF f = "spinUp" THEN {n} ELSE {})
      /\ OpenRuns' = OpenRuns \cup (IF f = "spinUp" THEN {n} ELSE {})
      /\ \A i \in DOMAIN runs : Acknowledged(i)' => Acknowledged(i)
      /\ \A i \in DOMAIN runs : runs'[i] = runs[i] /\ i < n
      /\ runs'[n] = NewRun(f, s)
      /\ DOMAIN runs' = DOMAIN runs \cup {n}
      /\ n \in Nat /\ n \notin DOMAIN runs
  BY <1>1, <1>2, <1>3, GrownRuns
<1>7. /\ NewRun(f, s).marked = Never
  BY DEF NewRun
<1>8. SpinUpRuns \subseteq DOMAIN runs /\ DOMAIN runs \subseteq Nat
  BY <1>1, RunTypes DEF SpinUpRuns
<1>9. tab[t].run = 0 /\ 0 \notin SpinUpRuns
  BY <1>1, <1>2, RunTypes DEF LastInv, SpinUpRuns
<1> HIDE DEF f, n
<1>10. LastInv(t)'
  <2>1. tab'[t].request # "accepted" => tab'[t].run = 0
    BY <1>4, <1>5
  <2>2. \A i \in SpinUpRuns' : i <= tab'[t].run
    BY <1>4, <1>5, <1>6, <1>8
  <2>3. ASSUME NEW i \in SpinUpRuns', \A k \in SpinUpRuns' : k <= i,
               runs'[i].marked # Never
        PROVE  marker'["spinUp"] = runs'[i].marked
    <3>1. i # n
      BY <1>6, <1>7, <2>3
    <3>2. i \in SpinUpRuns /\ runs'[i] = runs[i]
      BY <1>6, <1>8, <2>3, <3>1
    <3>3. \A k \in SpinUpRuns : k <= i
      BY <1>6, <2>3
    <3>4. QED
      BY <1>1, <1>2, <2>3, <3>2, <3>3 DEF LastInv
  <2>4. QED
    BY <2>1, <2>2, <2>3 DEF LastInv
<1>11. AnswerInv(t)'
  BY <1>1, <1>4, <1>5 DEF AnswerInv
<1>12. (\A i \in SpinUpRuns : Acknowledged(i)') => OpenRuns = {}
  <2>1. SUFFICES ASSUME \A i \in SpinUpRuns : Acknowledged(i)'
                 PROVE  OpenRuns = {}
    OBVIOUS
  <2>2. Clear(t)
    BY <1>6, <1>8, <2>1 DEF Clear
  <2>3. QED
    BY <1>1, <1>2, <1>9, <2>2 DEF GuardInv, OpenRuns
<1>13. GuardInv(t)'
  <2>1. SUFFICES ASSUME Clear(t)'
                 PROVE  OpenRuns' \subseteq {n}
    BY <1>4, <1>5 DEF GuardInv
  <2>2. \A i \in SpinUpRuns : Acknowledged(i)'
    BY <1>4, <1>5, <1>6, <1>8, <2>1 DEF Clear
  <2>3. QED
    BY <1>6, <1>12, <2>2
<1>14. AtMostOneSpinUp'
  <2>1. SUFFICES ASSUME NEW a \in Active("spinUp")', NEW b \in Active("spinUp")',
                        a < b
                 PROVE  \E j \in 1 .. b - 1 :
                           runs'[j].family = "spinUp" /\ ~Acknowledged(j)'
    BY DEF AtMostOneSpinUp
  <2>2. /\ a \in DOMAIN runs' /\ b \in DOMAIN runs'
        /\ a \in SpinUpRuns' /\ b \in SpinUpRuns'
        /\ runs'[a].state \in Unfinished /\ runs'[b].state \in Unfinished
    BY DEF Active, SpinUpRuns
  <2>3. a # n
    BY <1>6, <1>8, <2>1, <2>2
  <2>4. a \in SpinUpRuns /\ runs'[a] = runs[a]
    BY <1>6, <1>8, <2>2, <2>3
  <2>5. CASE b = n
    <3>1. a \in OpenRuns
      BY <2>2, <2>4 DEF OpenRuns
    <3>2. PICK j \in SpinUpRuns : ~Acknowledged(j)'
      BY <1>12, <3>1
    <3>3. j \in 1 .. Len(runs) /\ j < n /\ runs'[j].family = "spinUp"
      BY <1>1, <1>6, <1>8, RunTypes DEF SpinUpRuns
    <3>4. j \in 1 .. n - 1
      BY <1>1, <1>6, <3>3, RunTypes
    <3>5. QED
      BY <2>5, <3>2, <3>3, <3>4
  <2>6. CASE b # n
    <3>1. b \in SpinUpRuns /\ runs'[b] = runs[b]
      BY <1>6, <1>8, <2>2, <2>6
    <3>2. a \in Active("spinUp") /\ b \in Active("spinUp")
      BY <2>2, <2>4, <3>1 DEF Active, SpinUpRuns
    <3>3. PICK j \in 1 .. b - 1 : runs[j].family = "spinUp" /\ ~Acknowledged(j)
      BY <1>1, <2>1, <3>2 DEF AtMostOneSpinUp
    <3>4. j \in DOMAIN runs
      BY <1>1, <3>2, RunTypes DEF Active
    <3>5. QED
      BY <1>6, <3>3, <3>4
  <2>7. QED
    BY <2>5, <2>6
<1>15. QED
  BY <1>10, <1>11, <1>13, <1>14

\* The Worker's teardown is no spin-up.
LEMMA WorkerDispatchGuard ==
    ASSUME NEW t, Tabs = {t}, TabInv(t), WorkerDispatch
    PROVE  LastInv(t)' /\ AnswerInv(t)' /\ GuardInv(t)' /\ AtMostOneSpinUp'
<1> DEFINE n == Len(runs')
<1>1. /\ TypeOK /\ LastInv(t) /\ AnswerInv(t) /\ GuardInv(t) /\ AtMostOneSpinUp
  BY DEF TabInv, BaseInv
<1>2. /\ Len(runs) < MaxRuns
      /\ \E s \in Unfinished : runs' = Append(runs, NewRun("teardown", s))
      /\ marker' = marker /\ now' = now /\ tab' = tab
      /\ "teardown" \in Families
  BY DEF WorkerDispatch, Families
<1>3. /\ SpinUpRuns' = SpinUpRuns /\ OpenRuns' = OpenRuns
      /\ \A i \in DOMAIN runs : Marked(i)' <=> Marked(i)
      /\ \A i \in DOMAIN runs : Acknowledged(i)' => Acknowledged(i)
      /\ \A i \in DOMAIN runs : runs'[i] = runs[i]
  <2>1. "teardown" # "spinUp"
    OBVIOUS
  <2>2. QED
    BY <1>1, <1>2, <2>1, GrownRuns
<1>4. SpinUpRuns \subseteq DOMAIN runs /\ OpenRuns \subseteq SpinUpRuns
  BY DEF SpinUpRuns, OpenRuns
<1>5. LastInv(t)'
  BY <1>1, <1>2, <1>3, <1>4 DEF LastInv
<1>6. AnswerInv(t)'
  BY <1>1, <1>2 DEF AnswerInv
<1>7. Clear(t)' => Clear(t)
  BY <1>2, <1>3, <1>4 DEF Clear
<1>8. ASSUME NEW i \in SpinUpRuns, Watched(t, i)
      PROVE  Watched(t, i)'
  <2>1. Latched(t)' <=> Latched(t)
    BY <1>2 DEF Latched
  <2>2. QED
    BY <1>2, <1>3, <1>4, <1>8, <2>1 DEF Watched
<1>9. GuardInv(t)'
  BY <1>1, <1>2, <1>3, <1>4, <1>7, <1>8 DEF GuardInv
<1>10. AtMostOneSpinUp'
  <2>1. SUFFICES ASSUME NEW a \in Active("spinUp")', NEW b \in Active("spinUp")',
                        a < b
                 PROVE  \E j \in 1 .. b - 1 :
                           runs'[j].family = "spinUp" /\ ~Acknowledged(j)'
    BY DEF AtMostOneSpinUp
  <2>2. a \in SpinUpRuns' /\ b \in SpinUpRuns'
        /\ runs'[a].state \in Unfinished /\ runs'[b].state \in Unfinished
    BY DEF Active, SpinUpRuns
  <2>3. a \in Active("spinUp") /\ b \in Active("spinUp")
    BY <1>3, <1>4, <2>2 DEF Active, SpinUpRuns
  <2>4. PICK j \in 1 .. b - 1 : runs[j].family = "spinUp" /\ ~Acknowledged(j)
    BY <1>1, <2>1, <2>3 DEF AtMostOneSpinUp
  <2>5. j \in DOMAIN runs
    BY <1>1, <2>3, RunTypes DEF Active
  <2>6. QED
    BY <1>3, <2>4, <2>5
<1>11. QED
  BY <1>5, <1>6, <1>9, <1>10

\* The request is over: what it marks is the last spin-up, or no spin-up.
LEMMA MarkedGuard ==
    ASSUME NEW t, Tabs = {t}, TabInv(t), NEW answered \in BOOLEAN,
           NEW marked \in BOOLEAN, tab[t].request = "accepted",
           MarkAndAnswer(t, answered, marked), now' = now,
           NEW r \in Tab, tab' = [tab EXCEPT ![t] = r],
           r.request = "none", r.run = 0,
           r.inflight = tab[t].inflight \/ r.inflight = NoAnswer,
           answered => /\ r.latch = IF tab[t].last.known THEN Never ELSE now
                       /\ r.inflight = NoAnswer /\ r.shown = "running"
    PROVE  LastInv(t)' /\ AnswerInv(t)' /\ GuardInv(t)' /\ AtMostOneSpinUp'
<1> DEFINE n == tab[t].run
<1>1. /\ TypeOK /\ RunsInv /\ LastInv(t) /\ AnswerInv(t) /\ GuardInv(t)
      /\ AtMostOneSpinUp
      /\ n \in DOMAIN runs /\ runs[n].family = tab[t].family
  BY DEF TabInv, BaseInv, RequestInv
<1>2. tab'[t] = r
  BY <1>1, NewTab
<1>3. /\ DOMAIN runs' = DOMAIN runs
      /\ \A k \in DOMAIN runs : k # n => runs'[k] = runs[k]
      /\ runs'[n].family = runs[n].family
      /\ runs'[n].created = runs[n].created
      /\ runs'[n].listed = runs[n].listed
      /\ runs'[n].state = runs[n].state
      /\ runs'[n].answered = answered
      /\ runs'[n].marked = (IF marked THEN now ELSE Never)
      /\ marker' = IF marked THEN [marker EXCEPT ![tab[t].family] = now]
                             ELSE marker
  BY <1>1, MarkedRuns
<1> HIDE DEF n
<1>4. \A k \in DOMAIN runs :
         /\ runs'[k].family = runs[k].family /\ runs'[k].created = runs[k].created
         /\ runs'[k].listed = runs[k].listed /\ runs'[k].state = runs[k].state
  BY <1>3
<1>5. SpinUpRuns' = SpinUpRuns /\ OpenRuns' = OpenRuns
  BY <1>3, <1>4 DEF SpinUpRuns, OpenRuns
<1>6. SpinUpRuns \subseteq DOMAIN runs /\ OpenRuns \subseteq SpinUpRuns
      /\ DOMAIN runs \subseteq Nat /\ 0 \notin DOMAIN runs
  BY <1>1, RunTypes DEF SpinUpRuns, OpenRuns
<1>7. ASSUME NEW k \in DOMAIN runs, k # n
      PROVE  Acknowledged(k)' => Acknowledged(k)
  <2>1. \A l \in 1 .. k - 1 : l \in DOMAIN runs
    BY <1>1, RunTypes
  <2>2. Marked(k)' => Marked(k)
    BY <1>3, <1>4, <1>7, <2>1 DEF Marked
  <2>3. QED
    BY <1>3, <1>4, <1>7, <2>2 DEF Acknowledged, Tracked
<1>8. n \in SpinUpRuns => \A i \in SpinUpRuns : i <= n
  BY <1>1 DEF LastInv, SpinUpRuns, n
<1>9. LastInv(t)'
  <2>1. ASSUME NEW i \in SpinUpRuns, \A k \in SpinUpRuns : k <= i, runs'[i].marked # Never
        PROVE  marker'["spinUp"] = runs'[i].marked
    <3>1. CASE i = n
      <4>1. marked /\ runs'[i].marked = now /\ tab[t].family = "spinUp"
        BY <1>1, <1>3, <2>1, <3>1 DEF SpinUpRuns
      <4>2. marker' = [marker EXCEPT !["spinUp"] = now]
        BY <1>3, <4>1
      <4>3. QED
        BY <1>1, <4>1, <4>2 DEF TypeOK, Families
    <3>2. CASE i # n
      <4>1. n \notin SpinUpRuns
        BY <1>6, <1>8, <2>1, <3>2
      <4>2. tab[t].family # "spinUp"
        BY <1>1, <4>1 DEF SpinUpRuns
      <4>3. marker'["spinUp"] = marker["spinUp"]
        BY <1>1, <1>3, <4>2 DEF TypeOK, Families
      <4>4. runs'[i] = runs[i]
        BY <1>3, <1>6, <3>2
      <4>5. QED
        BY <1>1, <2>1, <4>3, <4>4 DEF LastInv
    <3>3. QED
      BY <3>1, <3>2
  <2>2. QED
    BY <1>2, <1>5, <2>1 DEF LastInv
<1>10. AnswerInv(t)'
  BY <1>1, <1>2 DEF AnswerInv
<1>11. GuardInv(t)'
  <2>1. SUFFICES ASSUME Clear(t)', NEW i \in OpenRuns
                 PROVE  Watched(t, i)'
    BY <1>2, <1>5 DEF GuardInv
  <2>2. \A k \in SpinUpRuns : Acknowledged(k)'
    BY <1>2, <1>5, <1>6, <2>1 DEF Clear
  <2>3. Clear(t)
    BY <1>6, <1>7, <2>2 DEF Clear, n
  <2>4. i = n
    BY <1>1, <2>1, <2>3 DEF GuardInv, n
  <2>5. n \in SpinUpRuns
    BY <1>6, <2>4
  <2>6. answered
    BY <1>3, <2>2, <2>5 DEF Acknowledged, Tracked
  <2>7. r.inflight = NoAnswer /\ r.shown = "running"
    BY <2>6
  <2>8. now \in Nat /\ Grace \in Nat /\ now # Never
    <3>1. now \in Nat /\ now <= MaxTime /\ MaxTime \in Nat /\ Grace \in Nat
      BY <1>1, RunTypes, TimeAssumption
    <3>2. QED
      BY <3>1 DEF Never
  <2>9. ~runs'[i].listed /\ ~Marked(i)' => r.latch = now
    <3>1. SUFFICES ASSUME ~runs'[i].listed, ~Marked(i)'
                   PROVE  ~tab[t].last.known
      BY <2>6
    <3>2. Acknowledged(i)'
      BY <2>2, <2>4, <2>5
    <3>3. OnlySpinUps
      BY <1>3, <1>4, <3>1, <3>2 DEF Acknowledged, Tracked, OnlySpinUps
    <3>4. ~runs[n].listed
      BY <1>3, <2>4, <3>1
    <3>5. QED
      BY <2>3, <3>3, <3>4 DEF KnownInv, TabInv, n
  <2>10. NoAnswer.infra = "none"
    BY DEF NoAnswer
  <2>11. runs'[n].created <= now
    BY <1>1, <1>3 DEF RunsInv
  <2>12. QED
    BY <1>2, <1>5, <1>8, <2>4, <2>5, <2>7, <2>8, <2>9, <2>10, <2>11 DEF Watched
<1>12. AtMostOneSpinUp'
  <2>1. SUFFICES ASSUME NEW a \in Active("spinUp")', NEW b \in Active("spinUp")',
                        a < b
                 PROVE  \E j \in 1 .. b - 1 :
                           runs'[j].family = "spinUp" /\ ~Acknowledged(j)'
    BY DEF AtMostOneSpinUp
  <2>2. a \in Active("spinUp") /\ b \in Active("spinUp")
    BY <1>3, <1>4 DEF Active
  <2>3. PICK j \in 1 .. b - 1 : runs[j].family = "spinUp" /\ ~Acknowledged(j)
    BY <1>1, <2>1, <2>2 DEF AtMostOneSpinUp
  <2>4. j \in DOMAIN runs /\ b \in DOMAIN runs
    BY <1>1, <2>2, RunTypes DEF Active
  <2>5. j # n
    <3>1. b \in SpinUpRuns /\ j \in SpinUpRuns
      BY <2>2, <2>3, <2>4 DEF Active, SpinUpRuns
    <3>2. j < b
      BY <1>6, <2>3, <2>4
    <3>3. QED
      BY <1>6, <1>8, <2>4, <3>1, <3>2
  <2>6. QED
    BY <1>4, <1>7, <2>3, <2>4, <2>5
<1>13. QED
  BY <1>9, <1>10, <1>11, <1>12

\* A spin-up whose answer is lost is not acknowledged.
LEMMA LoseGuard ==
    ASSUME NEW t, Tabs = {t}, TabInv(t), Lose(t)
    PROVE  LastInv(t)' /\ AnswerInv(t)' /\ GuardInv(t)' /\ AtMostOneSpinUp'
<1>1. PICK r \in Tab :
          /\ tab' = [tab EXCEPT ![t] = r]
          /\ r.request = "none" /\ r.run = 0 /\ r.inflight = tab[t].inflight
  BY CancelTab DEF TabInv, BaseInv, Lose
<1>2. PICK marked \in BOOLEAN : MarkAndAnswer(t, FALSE, marked)
  BY DEF Lose
<1>3. tab[t].request = "accepted" /\ now' = now
  BY DEF Lose
<1>4. QED
  BY <1>1, <1>2, <1>3, MarkedGuard

\* The tab latches again, and forgets what it has in flight.
LEMMA AnswerGuard ==
    ASSUME NEW t, Tabs = {t}, TabInv(t), Answer(t)
    PROVE  LastInv(t)' /\ AnswerInv(t)' /\ GuardInv(t)' /\ AtMostOneSpinUp'
<1>1. PICK r \in Tab :
          /\ tab' = [tab EXCEPT ![t] = r]
          /\ r.request = "none" /\ r.run = 0
          /\ r.latch = IF tab[t].last.known THEN Never ELSE now
          /\ r.inflight = NoAnswer /\ r.shown = "running"
  <2>1. tab[t].last.known => tab[t].last.infra = "running"
    BY DEF TabInv, KnownInv
  <2>2. QED
    BY <2>1, AnswerTab DEF TabInv, BaseInv
<1>2. PICK marked \in BOOLEAN : MarkAndAnswer(t, TRUE, marked)
  BY DEF Answer
<1>3. tab[t].request = "accepted" /\ now' = now
  BY DEF Answer
<1>4. QED
  BY <1>1, <1>2, <1>3, MarkedGuard

\* What happens elsewhere.
LEMMA StutterGuard ==
    ASSUME NEW t, Tabs = {t}, TabInv(t),
           now' = now, runs' = runs, marker' = marker, tab' = tab
    PROVE  LastInv(t)' /\ AnswerInv(t)' /\ GuardInv(t)' /\ AtMostOneSpinUp'
<1>1. /\ SpinUpRuns' = SpinUpRuns /\ OpenRuns' = OpenRuns /\ AtMostOneSpinUp'
      /\ \A i : Acknowledged(i)' <=> Acknowledged(i)
      /\ \A i : Marked(i)' <=> Marked(i)
  BY SameRuns DEF TabInv
<1>2. LastInv(t)' /\ AnswerInv(t)'
  BY <1>1 DEF TabInv, LastInv, AnswerInv
<1>3. \A i : Watched(t, i)' <=> Watched(t, i)
  BY <1>1 DEF Watched, Latched
<1>4. GuardInv(t)'
  BY <1>1, <1>3 DEF TabInv, GuardInv, Clear
<1>5. QED
  BY <1>1, <1>2, <1>4

-----------------------------------------------------------------------------
(* Whether the tab has heard of a dispatch                                 *)

\* A step that tells the tab nothing.
LEMMA KnownQuiet ==
    ASSUME NEW t, KnownInv(t), Clear(t)' => Clear(t), OnlySpinUps' => OnlySpinUps,
           tab'[t].last = tab[t].last,
           tab'[t].inflight = tab[t].inflight \/ tab'[t].inflight = NoAnswer,
           tab'[t].request = tab[t].request, tab'[t].run = tab[t].run,
           tab[t].shown = "running" => tab'[t].shown = "running",
           tab[t].request = "accepted" /\ runs[tab[t].run].listed =>
              runs'[tab[t].run].listed
    PROVE  KnownInv(t)'
<1>1. ~NoAnswer.known
  BY DEF NoAnswer
<1>2. QED
  BY <1>1 DEF KnownInv

\* The tick takes the poll in flight away.
LEMMA TickKnown ==
    ASSUME NEW t, Tabs = {t}, TabInv(t), Tick
    PROVE  KnownInv(t)'
<1>1. runs' = runs /\ tab' = [u \in Tabs |-> [tab[u] EXCEPT !.inflight = NoAnswer]]
  BY DEF Tick
<1>2. tab[t] \in Tab
  BY DEF TabInv, BaseInv, TypeOK
<1>3. /\ tab'[t].request = tab[t].request /\ tab'[t].run = tab[t].run
      /\ tab'[t].inflight = NoAnswer /\ tab'[t].shown = tab[t].shown
      /\ tab'[t].last = tab[t].last
  BY <1>1, <1>2 DEF Tab
<1>4. /\ SpinUpRuns' = SpinUpRuns
      /\ \A i : Acknowledged(i)' <=> Acknowledged(i)
  BY <1>1, SameRuns
<1>5. (Clear(t)' => Clear(t)) /\ (OnlySpinUps' => OnlySpinUps)
  BY <1>1, <1>3, <1>4 DEF Clear, OnlySpinUps
<1>6. KnownInv(t)
  BY DEF TabInv
<1>7. QED
  BY <1>1, <1>3, <1>5, <1>6, KnownQuiet

\* GitHub lists a run, starts it or completes it.
LEMMA UpdatedKnown ==
    ASSUME NEW t, Tabs = {t}, TabInv(t), NEW i \in DOMAIN runs,
           List(i) \/ Begin(i) \/ Complete(i)
    PROVE  KnownInv(t)'
<1>1. /\ DOMAIN runs' = DOMAIN runs
      /\ \A k \in DOMAIN runs :
            /\ runs'[k].family = runs[k].family
            /\ runs'[k].marked = runs[k].marked
            /\ runs'[k].created = runs[k].created
            /\ runs'[k].answered = runs[k].answered
            /\ runs'[k].missed = runs[k].missed
            /\ runs[k].listed => runs'[k].listed
  <2>1. runs \in Seq(Run) /\ runs[i] \in Run
    BY RunTypes DEF TabInv, BaseInv, TypeOK
  <2>2. CASE List(i)
    BY <2>1, <2>2 DEF List, Run
  <2>3. CASE Begin(i)
    BY <2>1, <2>3 DEF Begin, Run
  <2>4. CASE Complete(i)
    BY <2>1, <2>4 DEF Complete, Run
  <2>5. QED
    BY <2>2, <2>3, <2>4
<1>2. tab' = tab
  BY DEF List, Begin, Complete
<1>3. SpinUpRuns' = SpinUpRuns
  BY <1>1 DEF SpinUpRuns
<1>4. ASSUME NEW k \in DOMAIN runs
      PROVE  Acknowledged(k)' => Acknowledged(k)
  <2>1. \A l \in 1 .. k - 1 : l \in DOMAIN runs
    BY RunTypes DEF TabInv, BaseInv
  <2>2. Marked(k)' => Marked(k)
    BY <1>1, <2>1 DEF Marked
  <2>3. QED
    BY <1>1, <2>2 DEF Acknowledged, Tracked
<1>5. (Clear(t)' => Clear(t)) /\ (OnlySpinUps' => OnlySpinUps)
  BY <1>1, <1>2, <1>3, <1>4 DEF Clear, OnlySpinUps, SpinUpRuns
<1>6. tab[t].request = "accepted" => tab[t].run \in DOMAIN runs
  BY DEF TabInv, BaseInv, RequestInv
<1>7. KnownInv(t)
  BY DEF TabInv
<1>8. QED
  BY <1>1, <1>2, <1>5, <1>6, <1>7, KnownQuiet

\* With nothing but spin-ups that are listed and over, GET /api/status knows of
\* no dispatch.
LEMMA OverIsUnknown ==
    ASSUME BaseInv, NEW read \in BOOLEAN, OnlySpinUps, OpenRuns = {}
    PROVE  ~Running(read) /\ Pending(read) = {}
<1>1. TypeOK /\ DOMAIN runs = SpinUpRuns
  BY DEF BaseInv, SpinUpRuns, OnlySpinUps
<1>2. \A k \in DOMAIN runs : runs[k].listed /\ runs[k].state \notin Unfinished
  BY <1>1 DEF OpenRuns
<1>3. ~Running(read)
  BY <1>2 DEF Running, Selected, Selectable, Unfinished
<1>4. ASSUME NEW f \in Pending(read)
      PROVE  FALSE
  <2>1. f \in Families /\ marker[f] # Never /\ Selectable(read, f) = {}
    BY DEF Pending, Fresh
  <2>2. PICK k \in DOMAIN runs :
              runs[k].family = f /\ Cutoff(f) <= runs[k].created
    BY <2>1, MarkedRun
  <2>3. Cutoff(f) \in Int /\ runs[k].created \in Nat
    BY <1>1, <2>1, RunTypes, TimeAssumption DEF Cutoff
  <2>4. k \in Selectable(read, f)
    BY <1>2, <2>2, <2>3 DEF Selectable
  <2>5. QED
    BY <2>1, <2>4
<1>5. QED
  BY <1>3, <1>4

\* The answer to a poll knows of a spin-up only if the tab shows one, or waits for
\* one that is listed.
LEMMA PollKnows ==
    ASSUME NEW t, Tabs = {t}, Lag <= Grace, TabInv(t), Clear(t), OnlySpinUps,
           NEW read \in BOOLEAN, Status(read).known
    PROVE  \/ tab[t].request = "none" /\ tab[t].shown = "running"
           \/ tab[t].request = "accepted" /\ runs[tab[t].run].listed
<1>1. BaseInv /\ TypeOK /\ LastInv(t) /\ GuardInv(t) /\ tab[t] \in Tab
  BY DEF TabInv, BaseInv, TypeOK
<1>2. Running(read) \/ Pending(read) # {}
  BY <1>1, StatusFields, PendingIsShown
<1>3. OpenRuns # {}
  BY <1>1, <1>2, OverIsUnknown
<1>4. PICK i \in OpenRuns : TRUE
  BY <1>3
<1>5. CASE tab[t].request = "none"
  BY <1>1, <1>4, <1>5 DEF GuardInv, Watched
<1>6. CASE tab[t].request = "sent"
  <2>1. tab[t].run = 0 /\ i = tab[t].run
    BY <1>1, <1>4, <1>6 DEF LastInv, GuardInv
  <2>2. i \in DOMAIN runs
    BY <1>4 DEF OpenRuns, SpinUpRuns
  <2>3. QED
    BY <1>1, <2>1, <2>2, RunTypes
<1>7. CASE tab[t].request = "accepted" /\ ~runs[tab[t].run].listed
  <2> DEFINE n == tab[t].run
  <2>1. n \in DOMAIN runs /\ runs[n].marked = Never /\ runs[n].family = tab[t].family
    BY <1>7 DEF TabInv, BaseInv, RequestInv
  <2>2. n \in SpinUpRuns /\ tab[t].family = "spinUp"
    BY <2>1 DEF SpinUpRuns, OnlySpinUps
  <2>3. ~Marked(n)
    BY <2>1 DEF Marked
  <2>4. ASSUME NEW k \in SpinUpRuns \ {n}
        PROVE  k < n /\ runs[k].listed /\ runs[k].state # "active"
    <3>1. k <= n /\ k \in Nat /\ n \in Nat
      BY <1>1, <1>7, <2>1, <2>2, RunTypes DEF LastInv, SpinUpRuns
    <3>2. k \notin OpenRuns
      BY <1>1, <1>7 DEF GuardInv
    <3>3. QED
      BY <3>1, <3>2 DEF OpenRuns, Unfinished
  <2> HIDE DEF n
  <2>5. ~runs[n].listed
    BY <1>7 DEF n
  <2>6. \A k \in DOMAIN runs : runs[k].family = "spinUp"
    BY DEF OnlySpinUps
  <2>7. ~Running(read) /\ Pending(read) = {}
    BY <1>1, <2>2, <2>3, <2>4, <2>5, <2>6, UnmarkedIsUnknown
  <2>8. QED
    BY <1>2, <2>7
<1>8. tab[t].request \in {"none", "sent", "accepted"}
  BY <1>1 DEF Tab
<1>9. QED
  BY <1>5, <1>6, <1>7, <1>8

\* A poll is answered.
LEMMA PollKnown ==
    ASSUME NEW t, Tabs = {t}, Lag <= Grace, TabInv(t), Poll(t)
    PROVE  KnownInv(t)'
<1>1. TypeOK /\ KnownInv(t) /\ tab[t] \in Tab
  BY DEF TabInv, BaseInv, TypeOK
<1>2. PICK read \in BOOLEAN :
          /\ runs' = [i \in DOMAIN runs |->
                        [runs[i] EXCEPT !.missed = @ \/ LeftOut(i, read)]]
          /\ tab' = [tab EXCEPT ![t].inflight = Status(read)]
  BY DEF Poll
<1>3. tab'[t] = [tab[t] EXCEPT !.inflight = Status(read)]
  BY <1>1, <1>2 DEF TypeOK
<1>4. /\ tab'[t].request = tab[t].request /\ tab'[t].run = tab[t].run
      /\ tab'[t].inflight = Status(read) /\ tab'[t].shown = tab[t].shown
      /\ tab'[t].last = tab[t].last
  BY <1>1, <1>3 DEF Tab
<1>5. /\ SpinUpRuns' = SpinUpRuns
      /\ \A i \in DOMAIN runs : /\ runs'[i].listed = runs[i].listed
                                /\ Acknowledged(i)' => Acknowledged(i)
  BY <1>1, <1>2, PolledTab
<1>6. DOMAIN runs' = DOMAIN runs
      /\ \A i \in DOMAIN runs : runs'[i].family = runs[i].family
  BY <1>1, <1>2, PolledRuns
<1>7. (Clear(t)' => Clear(t)) /\ (OnlySpinUps' => OnlySpinUps)
  BY <1>4, <1>5, <1>6 DEF Clear, OnlySpinUps, SpinUpRuns
<1>8. tab[t].request = "accepted" => tab[t].run \in DOMAIN runs
  BY DEF TabInv, BaseInv, RequestInv
<1>9. Clear(t) /\ OnlySpinUps /\ (tab[t].last.known \/ Status(read).known) =>
        \/ tab[t].request = "none" /\ tab[t].shown = "running"
        \/ tab[t].request = "accepted" /\ runs[tab[t].run].listed
  BY <1>1, PollKnows DEF KnownInv
<1>10. QED
  BY <1>1, <1>4, <1>5, <1>7, <1>8, <1>9 DEF KnownInv

\* The answer is delivered, and kept.
LEMMA DeliverKnown ==
    ASSUME NEW t, Tabs = {t}, TabInv(t), Deliver(t)
    PROVE  KnownInv(t)'
<1>1. TypeOK /\ KnownInv(t) /\ AnswerInv(t)
  BY DEF TabInv, BaseInv
<1>2. runs' = runs /\ tab[t].inflight # NoAnswer
  BY DEF Deliver
<1>3. PICK r \in Tab :
          /\ tab' = [tab EXCEPT ![t] = r]
          /\ r.request = tab[t].request /\ r.run = tab[t].run
          /\ r.inflight = NoAnswer
          /\ r.last = IF tab[t].inflight.known THEN tab[t].inflight ELSE NoAnswer
          /\ r.shown = IF Released(t) THEN tab[t].inflight.infra ELSE "running"
  BY <1>1, DeliverTab
<1>4. tab'[t] = r
  BY <1>1, <1>3, NewTab
<1>5. /\ SpinUpRuns' = SpinUpRuns
      /\ \A i : Acknowledged(i)' <=> Acknowledged(i)
  BY <1>2, SameRuns
<1>6. (Clear(t)' => Clear(t)) /\ (OnlySpinUps' => OnlySpinUps)
  BY <1>2, <1>3, <1>4, <1>5 DEF Clear, OnlySpinUps
<1>7. tab[t].inflight.known => tab[t].inflight.infra = "running"
  BY <1>1, <1>2 DEF AnswerInv
<1>8. ~NoAnswer.known
  BY DEF NoAnswer
<1>9. r.shown = "running" \/ ~tab[t].inflight.known
  BY <1>3, <1>7
<1>10. QED
  BY <1>1, <1>2, <1>3, <1>4, <1>6, <1>7, <1>8, <1>9 DEF KnownInv

\* A failed poll tells nothing.
LEMMA FailKnown ==
    ASSUME NEW t, Tabs = {t}, TabInv(t), PollFails(t)
    PROVE  KnownInv(t)'
<1>1. TypeOK /\ KnownInv(t)
  BY DEF TabInv, BaseInv
<1>2. runs' = runs
  BY DEF PollFails
<1>3. PICK r \in Tab :
          /\ tab' = [tab EXCEPT ![t] = r]
          /\ r.request = tab[t].request /\ r.run = tab[t].run
          /\ r.inflight = NoAnswer /\ r.shown = FallBack(t)
          /\ r.last = tab[t].last
  BY <1>1, FailTab
<1>4. tab'[t] = r
  BY <1>1, <1>3, NewTab
<1>5. /\ SpinUpRuns' = SpinUpRuns
      /\ \A i : Acknowledged(i)' <=> Acknowledged(i)
  BY <1>2, SameRuns
<1>6. (Clear(t)' => Clear(t)) /\ (OnlySpinUps' => OnlySpinUps)
  BY <1>2, <1>3, <1>4, <1>5 DEF Clear, OnlySpinUps
<1>7. tab[t].shown = "running" => r.shown = "running"
  BY <1>3 DEF FallBack
<1>8. QED
  BY <1>1, <1>2, <1>3, <1>4, <1>6, <1>7, KnownQuiet

\* A tab that has heard of a spin-up offers no button, unless another family runs.
LEMMA ClickKnown ==
    ASSUME NEW t, Tabs = {t}, TabInv(t), NEW f \in Families, Click(t, f)
    PROVE  KnownInv(t)'
<1>1. TypeOK /\ KnownInv(t)
  BY DEF TabInv, BaseInv
<1>2. runs' = runs /\ tab[t].request = "none" /\ tab[t].shown # "running"
  BY DEF Click, Offered
<1>3. PICK r \in Tab :
          /\ tab' = [tab EXCEPT ![t] = r]
          /\ r.run = tab[t].run
          /\ r.inflight = tab[t].inflight /\ r.last = tab[t].last
  BY <1>1, ClickTab
<1>4. tab'[t] = r
  BY <1>1, <1>3, NewTab
<1>5. /\ SpinUpRuns' = SpinUpRuns
      /\ \A i : Acknowledged(i)' <=> Acknowledged(i)
  BY <1>2, SameRuns
<1>6. (Clear(t)' => Clear(t)) /\ (OnlySpinUps' => OnlySpinUps)
  BY <1>2, <1>3, <1>4, <1>5 DEF Clear, OnlySpinUps
<1>7. QED
  BY <1>1, <1>2, <1>3, <1>4, <1>6 DEF KnownInv

\* Nothing is refused to a tab that has heard of a spin-up.
LEMMA RefuseKnown ==
    ASSUME NEW t, Tabs = {t}, TabInv(t), Refuse(t)
    PROVE  KnownInv(t)'
<1>1. TypeOK /\ KnownInv(t) /\ LastInv(t)
  BY DEF TabInv, BaseInv
<1>2. runs' = runs /\ tab[t].request = "sent" /\ Cancel(t)
  BY DEF Refuse
<1>3. PICK r \in Tab :
          /\ tab' = [tab EXCEPT ![t] = r]
          /\ r.run = 0
          /\ r.inflight = tab[t].inflight /\ r.last = tab[t].last
  BY <1>1, <1>2, CancelTab
<1>4. tab'[t] = r
  BY <1>1, <1>3, NewTab
<1>5. /\ SpinUpRuns' = SpinUpRuns
      /\ \A i : Acknowledged(i)' <=> Acknowledged(i)
  BY <1>2, SameRuns
<1>6. tab[t].run = 0
  BY <1>1, <1>2 DEF LastInv
<1>7. (Clear(t)' => Clear(t)) /\ (OnlySpinUps' => OnlySpinUps)
  BY <1>2, <1>3, <1>4, <1>5, <1>6 DEF Clear, OnlySpinUps
<1>8. QED
  BY <1>1, <1>2, <1>3, <1>4, <1>7 DEF KnownInv

\* Nor is anything created for it.
LEMMA AcceptKnown ==
    ASSUME NEW t, Tabs = {t}, TabInv(t), Accept(t)
    PROVE  KnownInv(t)'
<1> DEFINE f == tab[t].family
           n == Len(runs')
<1>1. TypeOK /\ KnownInv(t) /\ LastInv(t)
  BY DEF TabInv, BaseInv
<1>2. tab[t].request = "sent" /\ Len(runs) < MaxRuns /\ f \in Families
  BY <1>1, RunTypes DEF Accept
<1>3. PICK s \in Unfinished : runs' = Append(runs, NewRun(f, s))
  BY DEF Accept
<1>4. PICK r \in Tab :
          /\ tab' = [tab EXCEPT ![t] = r]
          /\ r.run = n /\ r.inflight = tab[t].inflight /\ r.last = tab[t].last
  BY <1>1, AcceptTab
<1>5. tab'[t] = r
  BY <1>1, <1>4, NewTab
<1>6. /\ SpinUpRuns \subseteq SpinUpRuns'
      /\ \A i \in DOMAIN runs : Acknowledged(i)' => Acknowledged(i)
      /\ \A i \in DOMAIN runs : runs'[i] = runs[i]
      /\ DOMAIN runs \subseteq DOMAIN runs'
      /\ n \notin DOMAIN runs
  BY <1>1, <1>2, <1>3, GrownRuns
<1> HIDE DEF f, n
<1>7. (Clear(t)' => Clear(t)) /\ (OnlySpinUps' => OnlySpinUps)
  BY <1>4, <1>5, <1>6 DEF Clear, OnlySpinUps, SpinUpRuns
<1>8. QED
  BY <1>1, <1>2, <1>4, <1>5, <1>7 DEF KnownInv

\* The spin-up whose answer is lost is not acknowledged.
LEMMA LoseKnown ==
    ASSUME NEW t, Tabs = {t}, TabInv(t), Lose(t)
    PROVE  KnownInv(t)'
<1>1. /\ TypeOK /\ KnownInv(t) /\ tab[t].run \in DOMAIN runs
      /\ tab[t].request = "accepted"
  BY DEF TabInv, BaseInv, RequestInv, Lose
<1> PICK n \in DOMAIN runs : n = tab[t].run
  BY <1>1
<1>2. PICK marked \in BOOLEAN : MarkAndAnswer(t, FALSE, marked)
  BY DEF Lose
<1>3. PICK r \in Tab :
          tab' = [tab EXCEPT ![t] = r] /\ r.run = 0 /\ r.last = tab[t].last
  BY <1>1, CancelTab DEF Lose
<1>4. tab'[t] = r
  BY <1>1, <1>3, NewTab
<1>5. DOMAIN runs' = DOMAIN runs /\ runs'[n].answered = FALSE
  BY <1>1, <1>2, MarkedRuns
<1>6. 0 \notin DOMAIN runs
  BY <1>1, RunTypes
<1>7. ~(Clear(t)' /\ OnlySpinUps')
  <2>1. SUFFICES ASSUME Clear(t)', OnlySpinUps' PROVE FALSE
    OBVIOUS
  <2>2. n \in SpinUpRuns' /\ n # 0
    BY <1>1, <1>5, <1>6, <2>1 DEF SpinUpRuns, OnlySpinUps
  <2>3. Acknowledged(n)'
    BY <1>3, <1>4, <2>1, <2>2 DEF Clear
  <2>4. QED
    BY <1>5, <2>3 DEF Acknowledged, Tracked
<1>8. QED
  BY <1>1, <1>3, <1>4, <1>7 DEF KnownInv

\* The tab shows the spin-up, with its latch or with the answer that knew of it.
LEMMA AnswerKnown ==
    ASSUME NEW t, Tabs = {t}, TabInv(t), Answer(t)
    PROVE  KnownInv(t)'
<1>1. TypeOK /\ KnownInv(t)
  BY DEF TabInv, BaseInv
<1>2. PICK r \in Tab :
          /\ tab' = [tab EXCEPT ![t] = r]
          /\ r.request = "none" /\ r.inflight = NoAnswer /\ r.last = tab[t].last
          /\ r.shown = IF tab[t].last.known THEN tab[t].last.infra ELSE "running"
  BY <1>1, AnswerTab
<1>3. tab'[t] = r
  BY <1>1, <1>2, NewTab
<1>4. tab[t].last.known => tab[t].last.infra = "running"
  BY <1>1 DEF KnownInv
<1>5. QED
  BY <1>2, <1>3, <1>4 DEF KnownInv

\* The Worker's teardown is of the other family.
LEMMA WorkerDispatchKnown ==
    ASSUME NEW t, Tabs = {t}, TabInv(t), WorkerDispatch
    PROVE  KnownInv(t)'
<1>1. TypeOK /\ KnownInv(t)
  BY DEF TabInv, BaseInv
<1>2. /\ Len(runs) < MaxRuns
      /\ \E s \in Unfinished : runs' = Append(runs, NewRun("teardown", s))
      /\ tab' = tab /\ "teardown" \in Families
  BY DEF WorkerDispatch, Families
<1>3. PICK s \in Unfinished : /\ Len(runs') \in DOMAIN runs'
                              /\ runs'[Len(runs')] = NewRun("teardown", s)
  BY <1>1, <1>2, GrownRuns
<1>4. ~OnlySpinUps'
  BY <1>3 DEF OnlySpinUps, NewRun
<1>5. QED
  BY <1>1, <1>2, <1>4 DEF KnownInv

\* What happens elsewhere.
LEMMA StutterKnown ==
    ASSUME NEW t, TabInv(t), runs' = runs, tab' = tab
    PROVE  KnownInv(t)'
<1>1. /\ SpinUpRuns' = SpinUpRuns
      /\ \A i : Acknowledged(i)' <=> Acknowledged(i)
  BY SameRuns
<1>2. (Clear(t)' => Clear(t)) /\ (OnlySpinUps' => OnlySpinUps)
  BY <1>1 DEF Clear, OnlySpinUps
<1>3. KnownInv(t)
  BY DEF TabInv
<1>4. QED
  BY <1>2, <1>3, KnownQuiet

\* There is no run at first.
LEMMA TabInit ==
    ASSUME NEW t, Tabs = {t}, Init
    PROVE  TabInv(t)
<1>1. DOMAIN runs = {}
  BY DEF Init
<1>2. SpinUpRuns = {} /\ OpenRuns = {} /\ Active("spinUp") = {}
  BY <1>1 DEF SpinUpRuns, OpenRuns, Active
<1>3. /\ tab[t].request = "none" /\ tab[t].run = 0
      /\ tab[t].inflight = NoAnswer /\ tab[t].last = NoAnswer
  BY DEF Init
<1>4. LastInv(t) /\ AnswerInv(t) /\ GuardInv(t)
  BY <1>2, <1>3 DEF LastInv, AnswerInv, GuardInv
<1>5. AtMostOneSpinUp
  BY <1>2 DEF AtMostOneSpinUp
<1>6. KnownInv(t)
  BY <1>3 DEF KnownInv, NoAnswer
<1>7. QED
  BY <1>4, <1>5, <1>6, BaseInit DEF TabInv

\* Every step keeps the invariant.
LEMMA TabInvStep ==
    ASSUME NEW t, Tabs = {t}, Lag <= Grace, TabInv(t), [Next]_vars
    PROVE  TabInv(t)'
<1>1. BaseInv'
  BY BaseStep DEF TabInv
<1>2. LastInv(t)' /\ AnswerInv(t)' /\ GuardInv(t)' /\ AtMostOneSpinUp'
  <2>1. CASE Tick
    BY <2>1, TickTab
  <2>2. CASE \E i \in DOMAIN runs : List(i) \/ Begin(i) \/ Complete(i)
    BY <2>2, ListTab, BeginTab, CompleteTab
  <2>3. CASE \E u \in Tabs : TabStep(u)
    BY <2>3, PollTab, DeliverGuard, FailGuard, ClickGuard, AcceptGuard, RefuseGuard,
       LoseGuard, AnswerGuard
       DEF TabStep
  <2>4. CASE WorkerCheck
    BY <2>4, StutterGuard DEF WorkerCheck
  <2>5. CASE WorkerDispatch
    BY <2>5, WorkerDispatchGuard
  <2>6. CASE UNCHANGED vars
    BY <2>6, StutterGuard DEF vars
  <2>7. QED
    BY <2>1, <2>2, <2>3, <2>4, <2>5, <2>6 DEF Next
<1>3. KnownInv(t)'
  <2>1. CASE Tick
    BY <2>1, TickKnown
  <2>2. CASE \E i \in DOMAIN runs : List(i) \/ Begin(i) \/ Complete(i)
    BY <2>2, UpdatedKnown
  <2>3. CASE \E u \in Tabs : TabStep(u)
    BY <2>3, PollKnown, DeliverKnown, FailKnown, ClickKnown, AcceptKnown, RefuseKnown,
       LoseKnown, AnswerKnown
       DEF TabStep
  <2>4. CASE WorkerCheck
    BY <2>4, StutterKnown DEF WorkerCheck
  <2>5. CASE WorkerDispatch
    BY <2>5, WorkerDispatchKnown
  <2>6. CASE UNCHANGED vars
    BY <2>6, StutterKnown DEF vars
  <2>7. QED
    BY <2>1, <2>2, <2>3, <2>4, <2>5, <2>6 DEF Next
<1>4. QED
  BY <1>1, <1>2, <1>3 DEF TabInv

\* A tab starts no second spin-up beside one that every answer showed: for any
\* number of runs and faults, any clock skew and any length of the grace period, with the
\* Worker's teardowns in between, provided that GitHub lists a run within the
\* grace period. The latch of another tab is not seen, so it is one tab
\* (StacksShared.astro, dispatch-marker.js, status.js).
THEOREM OneSpinUp ==
    ASSUME NEW t, Tabs = {t}, Lag <= Grace
    PROVE  Spec => []AtMostOneSpinUp
<1>1. Init => TabInv(t)
  BY TabInit
<1>2. TabInv(t) /\ [Next]_vars => TabInv(t)'
  BY TabInvStep
<1>3. TabInv(t) => AtMostOneSpinUp
  BY DEF TabInv
<1> QED  BY <1>1, <1>2, <1>3, PTL DEF Spec

-----------------------------------------------------------------------------
(* DesiredState                                                            *)

\* PortsAreAskedFor is about the server; it holds because the rules that D1 and
\* the spin-ups hold were asked for, or else are held by a spin-up that has the
\* teardown beside it, and because between the destruction of the server and the reset
\* that forgets what was asked only such a spin-up opens a port.
PortsInv ==
    /\ open \subseteq asked \cup strayed
    /\ ruleEnabled \subseteq asked
    /\ \A r \in SpinUps : step[r] = "apply" =>
          /\ job[r].beside \/ job[r].ports \subseteq asked
          /\ job[r].beside \/ Free("teardown")
    /\ step["teardown"] = "reset" => open \subseteq strayed

\* Whatever list a spin-up works with, the services that stayed enabled since
\* its dispatch are in it; an empty list will be replaced by the one in D1.
KeptInv ==
    \A r \in SpinUps :
       /\ step[r] = "config" =>
             /\ job[r].kept \subseteq enabled
             /\ job[r].list = {} \/ job[r].kept \subseteq job[r].list
       /\ step[r] \in {"apply", "deploy"} => job[r].kept \subseteq job[r].list

\* "due" and "done": but for the services toggled since, the list is from the dispatch
\* on what is enabled and core, then the server runs the list, then D1 has the rows of
\* what runs.
RecordInv ==
    /\ ~Free("setup") => record.status = "no"
    /\ record.status = "due" =>
          \A r \in SpinUps :
             /\ \A q \in SpinUps : Free(r) \/ Free(q) \/ q = r
             /\ step[r] \in {"config", "apply", "deploy", "rows"} =>
                   (core \cap rows) \ record.but \subseteq enabled
             /\ step[r] = "config" =>
                   job[r].list = {} \/ job[r].list \ record.but = enabled \ record.but
             /\ step[r] \in {"apply", "deploy"} =>
                   job[r].list \ record.but = (core \cup enabled) \ record.but
             /\ step[r] = "rows" =>
                   live \ record.but = (core \cup enabled) \ record.but
             /\ step[r] = "deployed" =>
                   (live \cap rows) \ record.but = enabled \ record.but
    /\ record.status = "done" =>
          /\ \A r \in SpinUps : step[r] \in {"idle", "rules", "core"}
          /\ deployed \ record.but = (live \cap rows) \ record.but

\* The inductive invariant.
StateInv == FlagsTypeOK /\ PortsInv /\ KeptInv /\ RecordInv

USE RunAssumption DEF Runs, Steps, Free

\* A run that is at the step s leaves the steps of the others alone.
LEMMA GotoStep ==
    ASSUME step \in [Runs -> Steps], NEW r \in Runs, NEW s \in Steps, Goto(r, s)
    PROVE  /\ step' \in [Runs -> Steps] /\ step'[r] = s
           /\ \A q \in Runs \ {r} : step'[q] = step[q]
BY DEF Goto

\* So does a spin-up that gets something to work with.
LEMMA JobStep ==
    ASSUME job \in [SpinUps -> Job], NEW r \in SpinUps, NEW j \in Job,
           job' = [job EXCEPT ![r] = j]
    PROVE  /\ job' \in [SpinUps -> Job] /\ job'[r] = j
           /\ \A q \in SpinUps \ {r} : job'[q] = job[q]
OBVIOUS

\* A run that gives up forgets what it worked with.
LEMMA GiveUpStep ==
    ASSUME step \in [Runs -> Steps], job \in [SpinUps -> Job], NEW r \in SpinUps,
           GiveUp(r)
    PROVE  /\ step' \in [Runs -> Steps] /\ step'[r] = "idle"
           /\ \A q \in Runs \ {r} : step'[q] = step[q]
           /\ job' \in [SpinUps -> Job] /\ job'[r] = NoJob
           /\ \A q \in SpinUps \ {r} : job'[q] = job[q]
<1>1. NoJob \in Job
  BY DEF NoJob, Job
<1>2. QED
  BY <1>1, GotoStep, JobStep DEF GiveUp

-----------------------------------------------------------------------------
(* The steps                                                               *)

\* A toggle leaves the runs where they are and takes services from what they keep.
LEMMA ToggleJobs ==
    ASSUME job \in [SpinUps -> Job], NEW s,
           job' = [r \in SpinUps |-> [job[r] EXCEPT !.kept = @ \ {s}]]
    PROVE  /\ job' \in [SpinUps -> Job]
           /\ \A r \in SpinUps :
                 /\ job'[r].list = job[r].list /\ job'[r].ports = job[r].ports
                 /\ job'[r].beside = job[r].beside
                 /\ job'[r].kept = job[r].kept \ {s}
<1>1. ASSUME NEW r \in SpinUps
      PROVE  /\ [job[r] EXCEPT !.kept = @ \ {s}] \in Job
             /\ job'[r] = [job[r] EXCEPT !.kept = @ \ {s}]
  BY DEF Job
<1>2. \A r \in SpinUps : job[r] \in Job
  OBVIOUS
<1>3. QED
  BY <1>1, <1>2 DEF Job

\* D1 is filled, nothing is recorded.
LEMMA StateInit == FlagsInit => StateInv
<1> SUFFICES ASSUME FlagsInit PROVE StateInv
  OBVIOUS
<1>1. /\ NoJob \in Job /\ NoJob.list = {} /\ NoRecord \in Record
      /\ NoRecord.status = "no"
  BY DEF NoJob, Job, NoRecord, Record
<1>2. job \in [SpinUps -> Job] /\ \A r \in SpinUps : job[r].list = {}
  BY <1>1 DEF FlagsInit
<1>3. \A r \in Runs : step[r] = "idle"
  BY DEF FlagsInit
<1>4. FlagsTypeOK
  BY <1>1, <1>2, ServiceAssumption DEF FlagsInit, FlagsTypeOK
<1>5. PortsInv /\ KeptInv
  BY <1>3 DEF FlagsInit, PortsInv, KeptInv
<1>6. RecordInv
  BY <1>1, <1>3 DEF FlagsInit, RecordInv
<1>7. QED
  BY <1>4, <1>5, <1>6 DEF StateInv

\* Toggled after the dispatch, a service is no matter of the record.
LEMMA ToggleServiceInv ==
    ASSUME StateInv, NEW s \in Services, ToggleService(s)
    PROVE  StateInv'
<1>1. FlagsTypeOK /\ PortsInv /\ KeptInv /\ RecordInv
  BY DEF StateInv
<1>2. /\ shipped' = shipped /\ core' = core /\ rows' = rows
      /\ coreRow' = coreRow /\ deployed' = deployed
      /\ ruleEnabled' = ruleEnabled /\ ruleDeployed' = ruleDeployed
      /\ up' = up /\ live' = live /\ open' = open /\ step' = step
      /\ asked' = asked /\ strayed' = strayed
  BY DEF ToggleService, yamlVars, flagVars, ruleVars, serverVars,
         historyVars
<1>3. /\ s \in rows /\ enabled' \subseteq rows
      /\ enabled' \ {s} = enabled \ {s}
  BY <1>1 DEF ToggleService, FlagsTypeOK
<1>4. \/ job' = job /\ enabled \subseteq enabled'
      \/ job' = [r \in SpinUps |-> [job[r] EXCEPT !.kept = @ \ {s}]]
  BY DEF ToggleService
<1>5. /\ job' \in [SpinUps -> Job]
      /\ \A r \in SpinUps :
            /\ job'[r].list = job[r].list /\ job'[r].ports = job[r].ports
            /\ job'[r].beside = job[r].beside
            /\ job'[r].kept \subseteq job[r].kept
            /\ job[r].kept \subseteq enabled => job'[r].kept \subseteq enabled'
  <2>1. job \in [SpinUps -> Job]
    BY <1>1 DEF FlagsTypeOK
  <2>2. CASE job' = job /\ enabled \subseteq enabled'
    BY <2>1, <2>2
  <2>3. CASE job' = [r \in SpinUps |-> [job[r] EXCEPT !.kept = @ \ {s}]]
    <3>1. /\ job' \in [SpinUps -> Job]
          /\ \A r \in SpinUps :
                /\ job'[r].list = job[r].list /\ job'[r].ports = job[r].ports
                /\ job'[r].beside = job[r].beside
                /\ job'[r].kept = job[r].kept \ {s}
      BY <2>1, <2>3, ToggleJobs
    <3>2. QED
      BY <1>3, <3>1
  <2>4. QED
    BY <1>4, <2>2, <2>3
<1>6. /\ record' \in Record /\ record'.status = record.status
      /\ record.status = "due" => record'.but = record.but \cup {s}
      /\ record.status = "done" => record'.but = record.but
  BY <1>1 DEF ToggleService, FlagsTypeOK, Record
<1>7. FlagsTypeOK'
  BY <1>1, <1>2, <1>3, <1>5, <1>6 DEF FlagsTypeOK
<1>8. PortsInv'
  BY <1>1, <1>2, <1>5 DEF PortsInv
<1>9. KeptInv'
  BY <1>1, <1>2, <1>5 DEF KeptInv
<1>10. RecordInv'
  <2>1. CASE record.status = "due"
    <3>1. /\ record'.but = record.but \cup {s}
          /\ enabled' \ record'.but = enabled \ record'.but
      BY <1>3, <1>6, <2>1
    <3>2. ASSUME NEW r \in SpinUps
          PROVE  /\ \A q \in SpinUps : Free(r)' \/ Free(q)' \/ q = r
                 /\ step'[r] \in {"config", "apply", "deploy", "rows"} =>
                       (core' \cap rows') \ record'.but \subseteq enabled'
                 /\ step'[r] = "config" =>
                       \/ job'[r].list = {}
                       \/ job'[r].list \ record'.but = enabled' \ record'.but
                 /\ step'[r] \in {"apply", "deploy"} =>
                       job'[r].list \ record'.but = (core' \cup enabled') \ record'.but
                 /\ step'[r] = "rows" =>
                       live' \ record'.but = (core' \cup enabled') \ record'.but
                 /\ step'[r] = "deployed" =>
                       (live' \cap rows') \ record'.but = enabled' \ record'.but
      BY <1>1, <1>2, <1>5, <2>1, <3>1 DEF RecordInv
    <3>3. QED
      BY <1>1, <1>2, <1>6, <2>1, <3>2 DEF RecordInv
  <2>2. CASE record.status # "due"
    BY <1>1, <1>2, <1>6, <2>2 DEF RecordInv
  <2>3. QED
    BY <2>1, <2>2
<1>11. QED
  BY <1>7, <1>8, <1>9, <1>10 DEF StateInv

\* No run is under way when services.yaml changes.
LEMMA UpdateInv ==
    ASSUME StateInv, NEW s \in Services, Update(s)
    PROVE  StateInv'
<1>1. FlagsTypeOK /\ PortsInv /\ KeptInv /\ RecordInv
  BY DEF StateInv
<1>2. /\ rows' = rows /\ coreRow' = coreRow /\ enabled' = enabled
      /\ deployed' = deployed /\ ruleEnabled' = ruleEnabled
      /\ ruleDeployed' = ruleDeployed /\ up' = up /\ live' = live
      /\ open' = open /\ step' = step /\ job' = job /\ record' = record
      /\ asked' = asked /\ strayed' = strayed
  BY DEF Update, yamlVars, flagVars, ruleVars, serverVars,
         historyVars
<1>3. /\ shipped \subseteq shipped' /\ shipped' \subseteq Services
      /\ core' \subseteq shipped'
  BY <1>1 DEF Update, FlagsTypeOK
<1>4. \A r \in SpinUps : step[r] = "idle"
  BY DEF Update
<1>5. FlagsTypeOK'
  BY <1>1, <1>2, <1>3 DEF FlagsTypeOK
<1>6. PortsInv'
  BY <1>1, <1>2 DEF PortsInv
<1>7. KeptInv'
  BY <1>1, <1>2 DEF KeptInv
<1>8. RecordInv'
  BY <1>1, <1>2, <1>4 DEF RecordInv
<1>9. QED
  BY <1>5, <1>6, <1>7, <1>8 DEF StateInv

\* A rule is asked for when it is enabled.
LEMMA ToggleRuleInv ==
    ASSUME StateInv, NEW r \in Rules, ToggleRule(r)
    PROVE  StateInv'
<1>1. FlagsTypeOK /\ PortsInv /\ KeptInv /\ RecordInv
  BY DEF StateInv
<1>2. /\ shipped' = shipped /\ core' = core /\ rows' = rows
      /\ coreRow' = coreRow /\ enabled' = enabled
      /\ deployed' = deployed /\ ruleDeployed' = ruleDeployed
      /\ up' = up /\ live' = live /\ open' = open /\ step' = step
      /\ job' = job /\ record' = record /\ strayed' = strayed
  BY DEF ToggleRule, yamlVars, flagVars, ruleVars, serverVars,
         historyVars
<1>3. /\ ruleEnabled' \subseteq Rules /\ asked' \subseteq Rules
      /\ asked \subseteq asked' /\ ruleEnabled' \subseteq asked'
  BY <1>1 DEF ToggleRule, FlagsTypeOK, PortsInv
<1>4. FlagsTypeOK'
  BY <1>1, <1>2, <1>3 DEF FlagsTypeOK
<1>5. PortsInv'
  BY <1>1, <1>2, <1>3 DEF PortsInv
<1>6. KeptInv'
  BY <1>1, <1>2 DEF KeptInv
<1>7. RecordInv'
  BY <1>1, <1>2 DEF RecordInv
<1>8. QED
  BY <1>4, <1>5, <1>6, <1>7 DEF StateInv

\* A dispatch takes the list of what is enabled, or none.
LEMMA StartSpinUpInv ==
    ASSUME StateInv, NEW r \in SpinUps, StartSpinUp(r)
    PROVE  StateInv'
<1>1. FlagsTypeOK /\ PortsInv /\ KeptInv /\ RecordInv
  BY DEF StateInv
<1>2. /\ shipped' = shipped /\ core' = core /\ rows' = rows
      /\ coreRow' = coreRow /\ enabled' = enabled
      /\ deployed' = deployed /\ ruleEnabled' = ruleEnabled
      /\ ruleDeployed' = ruleDeployed /\ up' = up /\ live' = live
      /\ open' = open /\ asked' = asked /\ strayed' = strayed
  BY DEF StartSpinUp, yamlVars, flagVars, ruleVars, serverVars,
         historyVars
<1>3. /\ step' \in [Runs -> Steps] /\ step'[r] = "config"
      /\ \A q \in Runs \ {r} : step'[q] = step[q]
  BY <1>1, GotoStep DEF StartSpinUp, FlagsTypeOK
<1>4. PICK list \in {enabled, {}} :
          job' = [job EXCEPT ![r] = [list |-> list, ports |-> {}, kept |-> enabled,
                                    beside |-> FALSE]]
  BY DEF StartSpinUp
<1>5. /\ job' \in [SpinUps -> Job]
      /\ job'[r] = [list |-> list, ports |-> {}, kept |-> enabled, beside |-> FALSE]
      /\ \A q \in SpinUps \ {r} : job'[q] = job[q]
  <2>1. [list |-> list, ports |-> {}, kept |-> enabled, beside |-> FALSE] \in Job
    BY <1>1, ServiceAssumption DEF FlagsTypeOK, Job
  <2>2. job \in [SpinUps -> Job]
    BY <1>1 DEF FlagsTypeOK
  <2>3. QED
    BY <1>4, <2>1, <2>2, JobStep
<1>6. /\ record' \in Record
      /\ \/ record'.status = "no"
         \/ /\ record'.status = "due" /\ record'.but = {}
            /\ \A q \in Runs : step[q] = "idle"
            /\ core \cap rows \subseteq enabled
  BY DEF StartSpinUp, Record, NoRecord
<1>7. FlagsTypeOK'
  BY <1>1, <1>2, <1>3, <1>5, <1>6 DEF FlagsTypeOK
<1>8. PortsInv'
  BY <1>1, <1>2, <1>3, <1>5 DEF PortsInv
<1>9. KeptInv'
  BY <1>1, <1>2, <1>3, <1>5 DEF KeptInv
<1>10. RecordInv'
  BY <1>1, <1>2, <1>3, <1>5, <1>6 DEF RecordInv
<1>11. QED
  BY <1>7, <1>8, <1>9, <1>10 DEF StateInv

\* A spin-up that gives up leaves no trace in what the others rely on.
LEMMA GivenUp ==
    ASSUME StateInv, NEW r \in SpinUps, GiveUp(r),
           UNCHANGED <<yamlVars, flagVars, ruleVars, serverVars, historyVars>>
    PROVE  StateInv'
<1>1. FlagsTypeOK /\ PortsInv /\ KeptInv /\ RecordInv
  BY DEF StateInv
<1>2. /\ shipped' = shipped /\ core' = core /\ rows' = rows
      /\ coreRow' = coreRow /\ enabled' = enabled
      /\ deployed' = deployed /\ ruleEnabled' = ruleEnabled
      /\ ruleDeployed' = ruleDeployed /\ up' = up /\ live' = live
      /\ open' = open /\ record' = record /\ asked' = asked
      /\ strayed' = strayed
  BY DEF yamlVars, flagVars, ruleVars, serverVars,
         historyVars
<1>3. /\ step' \in [Runs -> Steps] /\ step'[r] = "idle"
      /\ \A q \in Runs \ {r} : step'[q] = step[q]
      /\ job' \in [SpinUps -> Job] /\ job'[r] = NoJob
      /\ \A q \in SpinUps \ {r} : job'[q] = job[q]
  BY <1>1, GiveUpStep DEF FlagsTypeOK
<1>4. NoJob.list = {}
  BY DEF NoJob
<1>5. FlagsTypeOK'
  BY <1>1, <1>2, <1>3, <1>4 DEF FlagsTypeOK
<1>6. PortsInv'
  BY <1>1, <1>2, <1>3 DEF PortsInv
<1>7. KeptInv'
  BY <1>1, <1>2, <1>3 DEF KeptInv
<1>8. RecordInv'
  BY <1>1, <1>2, <1>3 DEF RecordInv
<1>9. QED
  BY <1>5, <1>6, <1>7, <1>8 DEF StateInv

\* An empty list is replaced by the one in D1.
LEMMA WriteConfigInv ==
    ASSUME StateInv, NEW r \in SpinUps, WriteConfig(r)
    PROVE  StateInv'
<1>1. FlagsTypeOK /\ PortsInv /\ KeptInv /\ RecordInv
  BY DEF StateInv
<1>2. /\ shipped' = shipped /\ core' = core /\ rows' = rows
      /\ coreRow' = coreRow /\ enabled' = enabled
      /\ deployed' = deployed /\ ruleEnabled' = ruleEnabled
      /\ ruleDeployed' = ruleDeployed /\ up' = up /\ live' = live
      /\ open' = open /\ record' = record /\ asked' = asked
      /\ strayed' = strayed
  BY DEF WriteConfig, yamlVars, flagVars, ruleVars, serverVars,
         historyVars
<1>3. step[r] = "config" /\ step \in [Runs -> Steps] /\ job \in [SpinUps -> Job]
  BY <1>1 DEF WriteConfig, FlagsTypeOK
<1>4. CASE GiveUp(r)
  BY <1>4, GivenUp DEF WriteConfig
<1> DEFINE j == [list |-> ListOf(r, enabled), ports |-> ruleEnabled,
                 kept |-> job[r].kept, beside |-> ~Free("teardown")]
<1>5. CASE job' = [job EXCEPT ![r] = j] /\ Goto(r, "apply")
  <2>1. ListOf(r, enabled) \subseteq shipped
    BY <1>1 DEF ListOf, FlagsTypeOK
  <2>2. j \in Job
    BY <1>1, <1>3, <2>1 DEF FlagsTypeOK, Job
  <2> HIDE DEF j
  <2>3. /\ job' \in [SpinUps -> Job] /\ job'[r] = j
        /\ \A q \in SpinUps \ {r} : job'[q] = job[q]
    BY <1>3, <1>5, <2>2, JobStep
  <2>4. /\ step' \in [Runs -> Steps] /\ step'[r] = "apply"
        /\ \A q \in Runs \ {r} : step'[q] = step[q]
    BY <1>3, <1>5, GotoStep
  <2>5. /\ j.list = core \cup (IF job[r].list = {} THEN enabled ELSE job[r].list)
        /\ j.ports = ruleEnabled /\ j.kept = job[r].kept
        /\ j.beside = ~Free("teardown")
    BY DEF j, ListOf
  <2>6. FlagsTypeOK'
    BY <1>1, <1>2, <2>1, <2>3, <2>4, <2>5 DEF FlagsTypeOK, ListOf
  <2>7. PortsInv'
    BY <1>1, <1>2, <2>3, <2>4, <2>5 DEF PortsInv
  <2>8. KeptInv'
    BY <1>1, <1>2, <1>3, <2>3, <2>4, <2>5 DEF KeptInv
  <2>9. RecordInv'
    <3>1. record.status # "done"
      BY <1>1, <1>3 DEF RecordInv
    <3>2. CASE record.status = "no"
      BY <1>1, <1>2, <2>4, <3>1, <3>2 DEF RecordInv
    <3>3. CASE record.status = "due"
      <4>1. /\ (core \cap rows) \ record.but \subseteq enabled
            /\ j.list \ record.but = (core \cup enabled) \ record.but
        BY <1>1, <1>3, <2>5, <3>3 DEF RecordInv
      <4>2. QED
        BY <1>1, <1>2, <1>3, <2>3, <2>4, <3>3, <4>1 DEF RecordInv
    <3>4. QED
      BY <1>1, <3>1, <3>2, <3>3 DEF FlagsTypeOK, Record
  <2>10. QED
    BY <2>6, <2>7, <2>8, <2>9 DEF StateInv
<1>6. QED
  BY <1>4, <1>5 DEF WriteConfig

\* OpenTofu opens what the run has read, and starts no service.
LEMMA ApplyInv ==
    ASSUME StateInv, NEW r \in SpinUps, Apply(r)
    PROVE  StateInv'
<1>1. FlagsTypeOK /\ PortsInv /\ KeptInv /\ RecordInv
  BY DEF StateInv
<1>2. /\ shipped' = shipped /\ core' = core /\ rows' = rows
      /\ coreRow' = coreRow /\ enabled' = enabled
      /\ deployed' = deployed /\ ruleEnabled' = ruleEnabled
      /\ ruleDeployed' = ruleDeployed /\ live' = live
      /\ record' = record /\ asked' = asked
  BY DEF Apply, yamlVars, flagVars, ruleVars, serverVars,
         historyVars
<1>3. step[r] = "apply" /\ step \in [Runs -> Steps] /\ job \in [SpinUps -> Job]
  BY <1>1 DEF Apply, FlagsTypeOK
<1>4. /\ step' \in [Runs -> Steps] /\ job' \in [SpinUps -> Job]
      /\ \/ step'[r] = "deploy" /\ job'[r] = job[r]
         \/ step'[r] = "idle" /\ job'[r] = NoJob
      /\ \A q \in Runs \ {r} : step'[q] = step[q]
      /\ \A q \in SpinUps \ {r} : job'[q] = job[q]
  <2>1. CASE Goto(r, "deploy") /\ UNCHANGED job
    BY <1>3, <2>1, GotoStep
  <2>2. CASE GiveUp(r)
    BY <1>3, <2>2, GiveUpStep
  <2>3. QED
    BY <2>1, <2>2 DEF Apply
<1>5. up' \in BOOLEAN
  BY <1>1 DEF Apply, FlagsTypeOK
<1>6. /\ open' \subseteq Rules /\ strayed' \subseteq Rules
      /\ open' \subseteq asked \cup strayed'
      /\ step["teardown"] = "reset" => open' \subseteq strayed'
  <2>1. CASE UNCHANGED <<open, strayed>>
    BY <1>1, <2>1 DEF PortsInv, FlagsTypeOK
  <2>2. CASE Open(r)
    <3>1. job[r].ports \subseteq Rules
      BY <1>3 DEF Job
    <3>2. /\ job[r].beside \/ job[r].ports \subseteq asked
          /\ job[r].beside \/ Free("teardown")
      BY <1>1, <1>3 DEF PortsInv
    <3>3. QED
      BY <2>2, <3>1, <3>2 DEF Open
  <2>3. QED
    BY <2>1, <2>2 DEF Apply
<1>7. FlagsTypeOK'
  <2>1. NoJob.list = {}
    BY DEF NoJob
  <2>2. QED
    BY <1>1, <1>2, <1>4, <1>5, <1>6, <2>1 DEF FlagsTypeOK
<1>8. PortsInv'
  BY <1>1, <1>2, <1>3, <1>4, <1>6 DEF PortsInv
<1>9. KeptInv'
  BY <1>1, <1>2, <1>3, <1>4 DEF KeptInv
<1>10. RecordInv'
  BY <1>1, <1>2, <1>3, <1>4 DEF RecordInv
<1>11. QED
  BY <1>7, <1>8, <1>9, <1>10 DEF StateInv

\* A run that completes its deployment runs the list.
LEMMA DeployInv ==
    ASSUME StateInv, NEW r \in SpinUps, Deploy(r)
    PROVE  StateInv'
<1>1. FlagsTypeOK /\ PortsInv /\ KeptInv /\ RecordInv
  BY DEF StateInv
<1>2. /\ shipped' = shipped /\ core' = core /\ rows' = rows
      /\ coreRow' = coreRow /\ enabled' = enabled
      /\ deployed' = deployed /\ ruleEnabled' = ruleEnabled
      /\ ruleDeployed' = ruleDeployed /\ up' = up /\ open' = open
      /\ record' = record /\ asked' = asked /\ strayed' = strayed
  BY DEF Deploy, yamlVars, flagVars, ruleVars, serverVars,
         historyVars
<1>3. step[r] = "deploy" /\ step \in [Runs -> Steps] /\ job \in [SpinUps -> Job]
  BY <1>1 DEF Deploy, FlagsTypeOK
<1>4. /\ step' \in [Runs -> Steps] /\ job' \in [SpinUps -> Job] /\ job'[r] = NoJob
      /\ \/ step'[r] = "rows" /\ live' = job[r].list
         \/ step'[r] = "idle"
      /\ \A q \in Runs \ {r} : step'[q] = step[q]
      /\ \A q \in SpinUps \ {r} : job'[q] = job[q]
  <2>1. NoJob \in Job
    BY DEF NoJob, Job
  <2>2. CASE live' = job[r].list /\ Goto(r, "rows") /\ job' = [job EXCEPT ![r] = NoJob]
    BY <1>3, <2>1, <2>2, GotoStep, JobStep
  <2>3. CASE GiveUp(r)
    BY <1>3, <2>3, GiveUpStep
  <2>4. QED
    BY <2>2, <2>3 DEF Deploy
<1>5. live' \subseteq shipped
  BY <1>1 DEF Deploy, FlagsTypeOK
<1>6. FlagsTypeOK'
  <2>1. NoJob.list = {}
    BY DEF NoJob
  <2>2. QED
    BY <1>1, <1>2, <1>4, <1>5, <2>1 DEF FlagsTypeOK
<1>7. PortsInv'
  BY <1>1, <1>2, <1>4 DEF PortsInv
<1>8. KeptInv'
  BY <1>1, <1>2, <1>4 DEF KeptInv
<1>9. RecordInv'
  <2>1. record.status # "done"
    BY <1>1, <1>3 DEF RecordInv
  <2>2. CASE record.status = "no"
    BY <1>1, <1>2, <1>4, <2>2 DEF RecordInv
  <2>3. CASE record.status = "due"
    <3>1. \A q \in SpinUps \ {r} : step[q] = "idle"
      BY <1>1, <1>3, <2>3 DEF RecordInv
    <3>2. QED
      BY <1>1, <1>2, <1>3, <1>4, <2>3, <3>1 DEF RecordInv
  <2>4. QED
    BY <1>1, <2>1, <2>2, <2>3 DEF FlagsTypeOK, Record
<1>10. QED
  BY <1>6, <1>7, <1>8, <1>9 DEF StateInv

\* A setup records for itself.
LEMMA StartSetupInv ==
    ASSUME StateInv, StartSetup
    PROVE  StateInv'
<1>1. FlagsTypeOK /\ PortsInv /\ KeptInv /\ RecordInv
  BY DEF StateInv
<1>2. /\ shipped' = shipped /\ core' = core /\ rows' = rows
      /\ coreRow' = coreRow /\ enabled' = enabled
      /\ deployed' = deployed /\ ruleEnabled' = ruleEnabled
      /\ ruleDeployed' = ruleDeployed /\ up' = up /\ live' = live
      /\ open' = open /\ job' = job /\ asked' = asked
      /\ strayed' = strayed
  BY DEF StartSetup, yamlVars, flagVars, ruleVars, serverVars,
         historyVars
<1>3. /\ step' \in [Runs -> Steps] /\ step'["setup"] = "rows"
      /\ \A q \in Runs \ {"setup"} : step'[q] = step[q]
  BY <1>1, GotoStep DEF StartSetup, FlagsTypeOK
<1>4. record' \in Record /\ record'.status = "no"
  BY DEF StartSetup, NoRecord, Record
<1>5. FlagsTypeOK'
  BY <1>1, <1>2, <1>3, <1>4 DEF FlagsTypeOK
<1>6. PortsInv'
  BY <1>1, <1>2, <1>3 DEF PortsInv
<1>7. KeptInv'
  BY <1>1, <1>2, <1>3 DEF KeptInv
<1>8. RecordInv'
  BY <1>1, <1>2, <1>3, <1>4 DEF RecordInv
<1>9. QED
  BY <1>5, <1>6, <1>7, <1>8 DEF StateInv

\* A new row is enabled when it is core, and what runs is core or enabled.
LEMMA SyncRowsInv ==
    ASSUME StateInv, NEW r \in SpinUps \cup {"setup"}, SyncRows(r)
    PROVE  StateInv'
<1>1. FlagsTypeOK /\ PortsInv /\ KeptInv /\ RecordInv
  BY DEF StateInv
<1>2. /\ shipped' = shipped /\ core' = core
      /\ ruleEnabled' = ruleEnabled /\ ruleDeployed' = ruleDeployed
      /\ up' = up /\ live' = live /\ open' = open /\ job' = job
      /\ record' = record /\ asked' = asked /\ strayed' = strayed
  BY DEF SyncRows, yamlVars, flagVars, ruleVars, serverVars,
         historyVars
<1>3. step[r] = "rows"
  BY DEF SyncRows
<1>4. /\ step' \in [Runs -> Steps] /\ step'[r] = "deployed"
      /\ \A q \in Runs \ {r} : step'[q] = step[q]
  BY <1>1, GotoStep DEF SyncRows, FlagsTypeOK
<1>5. PICK inserted \in {shipped, rows} :
          /\ rows' = inserted
          /\ enabled' = enabled \cup (core \cap (inserted \ rows))
          /\ deployed' = deployed \cup (core \cap (inserted \ rows))
  BY DEF SyncRows
<1>6. rows \subseteq rows' /\ rows' \subseteq shipped /\ enabled \subseteq enabled'
  BY <1>1, <1>5 DEF FlagsTypeOK
<1>7. coreRow' \subseteq rows'
  <2>1. coreRow' \in {core \cap rows', coreRow \cup (core \cap (rows' \ rows))}
    BY DEF SyncRows
  <2>2. QED
    BY <1>1, <1>6, <2>1 DEF FlagsTypeOK
<1>8. FlagsTypeOK'
  BY <1>1, <1>2, <1>4, <1>5, <1>6, <1>7 DEF FlagsTypeOK
<1>9. PortsInv'
  BY <1>1, <1>2, <1>3, <1>4 DEF PortsInv
<1>10. KeptInv'
  BY <1>1, <1>2, <1>3, <1>4, <1>6 DEF KeptInv
<1>11. RecordInv'
  <2>1. CASE r = "setup"
    BY <1>1, <1>2, <1>3, <1>4, <2>1 DEF RecordInv
  <2>2. CASE r \in SpinUps /\ record.status = "due"
    <3>1. /\ live \ record.but = (core \cup enabled) \ record.but
          /\ (core \cap rows) \ record.but \subseteq enabled /\ enabled \subseteq rows
      BY <1>1, <1>3, <2>2 DEF RecordInv, FlagsTypeOK
    <3>2. (live \cap rows') \ record.but = enabled' \ record.but
      BY <1>5, <1>6, <3>1
    <3>3. \A q \in SpinUps \ {r} : step[q] = "idle"
      BY <1>1, <1>3, <2>2 DEF RecordInv
    <3>4. QED
      BY <1>1, <1>2, <1>3, <1>4, <2>2, <3>2, <3>3 DEF RecordInv
  <2>3. CASE r \in SpinUps /\ record.status # "due"
    BY <1>1, <1>2, <1>3, <1>4, <2>3 DEF RecordInv
  <2>4. QED
    BY <2>1, <2>2, <2>3
<1>12. QED
  BY <1>8, <1>9, <1>10, <1>11 DEF StateInv

\* What is enabled is recorded, and it is what runs.
LEMMA SyncDeployedInv ==
    ASSUME StateInv, NEW r \in SpinUps \cup {"setup"}, SyncDeployed(r)
    PROVE  StateInv'
<1>1. FlagsTypeOK /\ PortsInv /\ KeptInv /\ RecordInv
  BY DEF StateInv
<1>2. /\ shipped' = shipped /\ core' = core /\ rows' = rows
      /\ coreRow' = coreRow /\ enabled' = enabled
      /\ ruleEnabled' = ruleEnabled /\ ruleDeployed' = ruleDeployed
      /\ up' = up /\ live' = live /\ open' = open /\ job' = job
      /\ asked' = asked /\ strayed' = strayed
  BY DEF SyncDeployed, yamlVars, flagVars, ruleVars, serverVars,
         historyVars
<1>3. step[r] = "deployed"
  BY DEF SyncDeployed
<1>4. /\ step' \in [Runs -> Steps] /\ step'[r] \in {"rules", "idle"}
      /\ \A q \in Runs \ {r} : step'[q] = step[q]
  BY <1>1, GotoStep DEF SyncDeployed, FlagsTypeOK
<1>5. \/ /\ deployed' = enabled /\ step'[r] = "rules"
         /\ record' = IF record.status = "due" THEN [record EXCEPT !.status = "done"]
                                               ELSE record
      \/ step'[r] = "idle" /\ deployed' = deployed /\ record' = record
  BY <1>1, GotoStep DEF SyncDeployed, FlagsTypeOK
<1>6. record' \in Record /\ deployed' \subseteq rows
  BY <1>1, <1>5 DEF FlagsTypeOK, Record
<1>7. FlagsTypeOK'
  BY <1>1, <1>2, <1>4, <1>6 DEF FlagsTypeOK
<1>8. PortsInv'
  BY <1>1, <1>2, <1>3, <1>4 DEF PortsInv
<1>9. KeptInv'
  BY <1>1, <1>2, <1>3, <1>4 DEF KeptInv
<1>10. RecordInv'
  <2>1. CASE r = "setup"
    <3>1. record.status = "no"
      BY <1>1, <1>3, <2>1 DEF RecordInv
    <3>2. QED
      BY <1>1, <1>2, <1>4, <1>5, <2>1, <3>1 DEF RecordInv
  <2>2. CASE r \in SpinUps /\ record.status = "due"
    <3>1. /\ (live \cap rows) \ record.but = enabled \ record.but
          /\ \A q \in SpinUps \ {r} : step[q] = "idle"
      BY <1>1, <1>3, <2>2 DEF RecordInv
    <3>2. record \in Record
      BY <1>1 DEF FlagsTypeOK
    <3>3. CASE /\ deployed' = enabled /\ step'[r] = "rules"
               /\ record' = [record EXCEPT !.status = "done"]
      <4>1. record'.status = "done" /\ record'.but = record.but
        BY <3>2, <3>3 DEF Record
      <4>2. QED
        BY <1>1, <1>2, <1>4, <2>2, <3>1, <3>3, <4>1 DEF RecordInv
    <3>4. CASE step'[r] = "idle" /\ deployed' = deployed /\ record' = record
      BY <1>1, <1>2, <1>4, <2>2, <3>1, <3>4 DEF RecordInv
    <3>5. QED
      BY <1>5, <2>2, <3>3, <3>4
  <2>3. CASE r \in SpinUps /\ record.status # "due"
    <3>1. record.status # "done" /\ record' = record
      BY <1>1, <1>3, <1>5, <2>3 DEF RecordInv
    <3>2. QED
      BY <1>1, <1>2, <1>4, <2>3, <3>1 DEF RecordInv
  <2>4. QED
    BY <2>1, <2>2, <2>3
<1>11. QED
  BY <1>7, <1>8, <1>9, <1>10 DEF StateInv

\* The rules have no part in it.
LEMMA SyncRulesInv ==
    ASSUME StateInv, NEW r \in SpinUps \cup {"setup"}, SyncRules(r)
    PROVE  StateInv'
<1>1. FlagsTypeOK /\ PortsInv /\ KeptInv /\ RecordInv
  BY DEF StateInv
<1>2. /\ shipped' = shipped /\ core' = core /\ rows' = rows
      /\ coreRow' = coreRow /\ enabled' = enabled
      /\ deployed' = deployed /\ ruleEnabled' = ruleEnabled /\ up' = up
      /\ live' = live /\ open' = open /\ job' = job /\ record' = record
      /\ asked' = asked /\ strayed' = strayed
  BY DEF SyncRules, yamlVars, flagVars, ruleVars, serverVars,
         historyVars
<1>3. step[r] = "rules"
  BY DEF SyncRules
<1>4. /\ step' \in [Runs -> Steps] /\ step'[r] \in {"core", "idle"}
      /\ \A q \in Runs \ {r} : step'[q] = step[q]
  BY <1>1, GotoStep DEF SyncRules, FlagsTypeOK
<1>5. ruleDeployed' \subseteq Rules
  BY <1>1 DEF SyncRules, FlagsTypeOK
<1>6. FlagsTypeOK'
  BY <1>1, <1>2, <1>4, <1>5 DEF FlagsTypeOK
<1>7. PortsInv'
  BY <1>1, <1>2, <1>3, <1>4 DEF PortsInv
<1>8. KeptInv'
  BY <1>1, <1>2, <1>3, <1>4 DEF KeptInv
<1>9. RecordInv'
  <2>1. CASE r = "setup"
    BY <1>1, <1>2, <1>3, <1>4, <2>1 DEF RecordInv
  <2>2. CASE r \in SpinUps /\ record.status = "due"
    <3>1. \A q \in SpinUps \ {r} : step[q] = "idle"
      BY <1>1, <1>3, <2>2 DEF RecordInv
    <3>2. QED
      BY <1>1, <1>2, <1>4, <2>2, <3>1 DEF RecordInv
  <2>3. CASE r \in SpinUps /\ record.status # "due"
    BY <1>1, <1>2, <1>4, <2>3 DEF RecordInv
  <2>4. QED
    BY <2>1, <2>2, <2>3
<1>10. QED
  BY <1>6, <1>7, <1>8, <1>9 DEF StateInv

\* The flags of what runs were recorded before.
LEMMA EnforceCoreInv ==
    ASSUME StateInv, NEW r \in SpinUps \cup {"setup"}, EnforceCore(r)
    PROVE  StateInv'
<1>1. FlagsTypeOK /\ PortsInv /\ KeptInv /\ RecordInv
  BY DEF StateInv
<1>2. /\ shipped' = shipped /\ core' = core /\ rows' = rows
      /\ coreRow' = coreRow /\ deployed' = deployed
      /\ ruleEnabled' = ruleEnabled /\ ruleDeployed' = ruleDeployed
      /\ up' = up /\ live' = live /\ open' = open /\ job' = job
      /\ record' = record /\ asked' = asked /\ strayed' = strayed
  BY DEF EnforceCore, yamlVars, flagVars, ruleVars, serverVars,
         historyVars
<1>3. step[r] = "core"
  BY DEF EnforceCore
<1>4. /\ step' \in [Runs -> Steps] /\ step'[r] = "idle"
      /\ \A q \in Runs \ {r} : step'[q] = step[q]
  BY <1>1, GotoStep DEF EnforceCore, FlagsTypeOK
<1>5. enabled \subseteq enabled' /\ enabled' \subseteq rows
  BY <1>1 DEF EnforceCore, FlagsTypeOK
<1>6. FlagsTypeOK'
  BY <1>1, <1>2, <1>4, <1>5 DEF FlagsTypeOK
<1>7. PortsInv'
  BY <1>1, <1>2, <1>3, <1>4 DEF PortsInv
<1>8. KeptInv'
  BY <1>1, <1>2, <1>3, <1>4, <1>5 DEF KeptInv
<1>9. RecordInv'
  <2>1. CASE r = "setup"
    BY <1>1, <1>2, <1>3, <1>4, <2>1 DEF RecordInv
  <2>2. CASE r \in SpinUps /\ record.status = "due"
    <3>1. \A q \in SpinUps \ {r} : step[q] = "idle"
      BY <1>1, <1>3, <2>2 DEF RecordInv
    <3>2. QED
      BY <1>1, <1>2, <1>4, <2>2, <3>1 DEF RecordInv
  <2>3. CASE r \in SpinUps /\ record.status # "due"
    BY <1>1, <1>2, <1>4, <2>3 DEF RecordInv
  <2>4. QED
    BY <2>1, <2>2, <2>3
<1>10. QED
  BY <1>6, <1>7, <1>8, <1>9 DEF StateInv

\* The spin-ups that have read their ports are marked, nothing is destroyed yet.
LEMMA StartTeardownInv ==
    ASSUME StateInv, StartTeardown
    PROVE  StateInv'
<1>1. FlagsTypeOK /\ PortsInv /\ KeptInv /\ RecordInv
  BY DEF StateInv
<1>2. /\ shipped' = shipped /\ core' = core /\ rows' = rows
      /\ coreRow' = coreRow /\ enabled' = enabled
      /\ deployed' = deployed /\ ruleEnabled' = ruleEnabled
      /\ ruleDeployed' = ruleDeployed /\ up' = up /\ live' = live
      /\ open' = open /\ asked' = asked /\ strayed' = strayed
  BY DEF StartTeardown, yamlVars, flagVars, ruleVars, serverVars,
         historyVars
<1>3. /\ step' \in [Runs -> Steps] /\ step'["teardown"] = "destroy"
      /\ \A q \in Runs \ {"teardown"} : step'[q] = step[q]
  BY <1>1, GotoStep DEF StartTeardown, FlagsTypeOK
<1>4. /\ job' \in [SpinUps -> Job]
      /\ \A r \in SpinUps :
            /\ job'[r].list = job[r].list /\ job'[r].ports = job[r].ports
            /\ job'[r].kept = job[r].kept
            /\ step[r] = "apply" => job'[r].beside
  <2>1. ASSUME NEW r \in SpinUps
        PROVE  /\ [job[r] EXCEPT !.beside = (step[r] = "apply")] \in Job
               /\ job'[r] = [job[r] EXCEPT !.beside = (step[r] = "apply")]
    <3>1. job[r] \in Job /\ (step[r] = "apply") \in BOOLEAN
      BY <1>1 DEF FlagsTypeOK
    <3>2. job'[r] = [job[r] EXCEPT !.beside = (step[r] = "apply")]
      BY DEF StartTeardown
    <3>3. QED
      BY <3>1, <3>2 DEF Job
  <2>2. \A r \in SpinUps : job[r] \in Job
    BY <1>1 DEF FlagsTypeOK
  <2>3. job' = [r \in SpinUps |-> [job[r] EXCEPT !.beside = (step[r] = "apply")]]
    BY DEF StartTeardown
  <2>4. job' \in [SpinUps -> Job]
    BY <2>1, <2>3
  <2>5. QED
    BY <2>1, <2>2, <2>4 DEF Job
<1>5. record' \in Record /\ (record' = record \/ record'.status = "no")
  BY <1>1 DEF StartTeardown, Disturbed, NoRecord, Record, FlagsTypeOK
<1>6. FlagsTypeOK'
  BY <1>1, <1>2, <1>3, <1>4, <1>5 DEF FlagsTypeOK
<1>7. PortsInv'
  BY <1>1, <1>2, <1>3, <1>4 DEF PortsInv
<1>8. KeptInv'
  BY <1>1, <1>2, <1>3, <1>4 DEF KeptInv
<1>9. RecordInv'
  BY <1>1, <1>2, <1>3, <1>4, <1>5 DEF RecordInv
<1>10. QED
  BY <1>6, <1>7, <1>8, <1>9 DEF StateInv

\* With the server go its ports and what was recorded.
LEMMA DestroyInv ==
    ASSUME StateInv, Destroy
    PROVE  StateInv'
<1>1. FlagsTypeOK /\ PortsInv /\ KeptInv /\ RecordInv
  BY DEF StateInv
<1>2. /\ shipped' = shipped /\ core' = core /\ rows' = rows
      /\ coreRow' = coreRow /\ enabled' = enabled
      /\ deployed' = deployed /\ ruleEnabled' = ruleEnabled
      /\ ruleDeployed' = ruleDeployed /\ job' = job /\ asked' = asked
  BY DEF Destroy, yamlVars, flagVars, ruleVars, serverVars,
         historyVars
<1>3. /\ step' \in [Runs -> Steps] /\ step["teardown"] = "destroy"
      /\ \A q \in Runs \ {"teardown"} : step'[q] = step[q]
      /\ \/ step'["teardown"] = "reset" /\ open' = {}
         \/ step'["teardown"] = "idle"
  BY <1>1, GotoStep DEF Destroy, FlagsTypeOK
<1>4. /\ record' \in Record /\ record'.status = "no"
      /\ up' \in BOOLEAN /\ live' \subseteq shipped
      /\ open' \subseteq Rules /\ strayed' \subseteq Rules
      /\ \/ open' = {}
         \/ open' = open /\ strayed' = strayed
  BY <1>1 DEF Destroy, FlagsTypeOK, NoRecord, Record
<1>5. FlagsTypeOK'
  BY <1>1, <1>2, <1>3, <1>4 DEF FlagsTypeOK
<1>6. PortsInv'
  BY <1>1, <1>2, <1>3, <1>4 DEF PortsInv
<1>7. KeptInv'
  BY <1>1, <1>2, <1>3 DEF KeptInv
<1>8. RecordInv'
  BY <1>1, <1>2, <1>3, <1>4 DEF RecordInv
<1>9. QED
  BY <1>5, <1>6, <1>7, <1>8 DEF StateInv

\* The reset forgets the rules; a spin-up that still holds some is marked.
LEMMA ResetRulesInv ==
    ASSUME StateInv, ResetRules
    PROVE  StateInv'
<1>1. FlagsTypeOK /\ PortsInv /\ KeptInv /\ RecordInv
  BY DEF StateInv
<1>2. /\ shipped' = shipped /\ core' = core /\ rows' = rows
      /\ coreRow' = coreRow /\ enabled' = enabled
      /\ deployed' = deployed /\ up' = up /\ live' = live
      /\ open' = open /\ job' = job /\ record' = record
      /\ strayed' = strayed
  BY DEF ResetRules, yamlVars, flagVars, ruleVars, serverVars,
         historyVars
<1>3. /\ step' \in [Runs -> Steps] /\ step'["teardown"] = "idle"
      /\ step["teardown"] = "reset"
      /\ \A q \in Runs \ {"teardown"} : step'[q] = step[q]
  BY <1>1, GotoStep DEF ResetRules, FlagsTypeOK
<1>4. /\ ruleEnabled' \subseteq Rules /\ ruleDeployed' \subseteq Rules
      /\ asked' \subseteq Rules /\ ruleEnabled' \subseteq asked'
  BY <1>1 DEF ResetRules, FlagsTypeOK, PortsInv, ruleVars
<1>5. FlagsTypeOK'
  BY <1>1, <1>2, <1>3, <1>4 DEF FlagsTypeOK
<1>6. PortsInv'
  BY <1>1, <1>2, <1>3, <1>4 DEF PortsInv
<1>7. KeptInv'
  BY <1>1, <1>2, <1>3 DEF KeptInv
<1>8. RecordInv'
  BY <1>1, <1>2, <1>3 DEF RecordInv
<1>9. QED
  BY <1>5, <1>6, <1>7, <1>8 DEF StateInv

\* Every step keeps the invariant.
LEMMA StateStep == StateInv /\ [FlagsNext]_allVars => StateInv'
<1> SUFFICES ASSUME StateInv, [FlagsNext]_allVars PROVE StateInv'
  OBVIOUS
<1>1. CASE \E s \in Services : ToggleService(s) \/ Update(s)
  BY <1>1, ToggleServiceInv, UpdateInv
<1>2. CASE \E r \in Rules : ToggleRule(r)
  BY <1>2, ToggleRuleInv
<1>3. CASE \E r \in SpinUps : SpinUp(r)
  BY <1>3, StartSpinUpInv, WriteConfigInv, ApplyInv, DeployInv DEF SpinUp
<1>4. CASE StartSetup
  BY <1>4, StartSetupInv
<1>5. CASE \E r \in SpinUps \cup {"setup"} : Sync(r)
  BY <1>5, SyncRowsInv, SyncDeployedInv, SyncRulesInv, EnforceCoreInv DEF Sync
<1>6. CASE Teardown
  BY <1>6, StartTeardownInv, DestroyInv, ResetRulesInv DEF Teardown
<1>7. CASE UNCHANGED allVars
  <2>1. /\ shipped' = shipped /\ core' = core /\ rows' = rows
        /\ coreRow' = coreRow /\ enabled' = enabled
        /\ deployed' = deployed /\ ruleEnabled' = ruleEnabled
        /\ ruleDeployed' = ruleDeployed /\ up' = up /\ live' = live
        /\ open' = open /\ step' = step /\ job' = job /\ record' = record
        /\ asked' = asked /\ strayed' = strayed
    BY <1>7 DEF allVars, yamlVars, flagVars, ruleVars, serverVars,
           historyVars
  <2>2. QED
    BY <2>1 DEF StateInv, FlagsTypeOK, PortsInv, KeptInv, RecordInv
<1>8. QED
  BY <1>1, <1>2, <1>3, <1>4, <1>5, <1>6, <1>7 DEF FlagsNext

-----------------------------------------------------------------------------
(* The theorems                                                            *)

\* Every variable keeps its type: no flag without a row, no row, no list and no
\* stack of a service that services.yaml does not ship (sync-deployed-state.sh).
THEOREM FlagsTyped == FlagsSpec => []FlagsTypeOK
<1>1. StateInv => FlagsTypeOK
  BY DEF StateInv
<1> QED  BY <1>1, StateInit, StateStep, PTL DEF FlagsSpec

\* With any number of spin-ups under way together, and a teardown beside them, a port is
\* open only if its rule was enabled after the rules were last reset, unless the
\* spin-up that opened it had read the rules before or while the teardown ran
\* (teardown.yml, the firewall reset; generate-services-tfvars.py).
THEOREM PortsAskedFor == FlagsSpec => []PortsAreAskedFor
<1>1. StateInv => PortsAreAskedFor
  BY DEF StateInv, PortsInv, PortsAreAskedFor
<1> QED  BY <1>1, StateInit, StateStep, PTL DEF FlagsSpec

\* Once a spin-up has recorded what it deployed, met by no other run since its
\* dispatch, the deployed flags of the services that nobody toggled meanwhile are
\* what runs: through new services, new core services, rows that could not be
\* inserted, and setups, teardowns and other spin-ups before and after
\* (sync-deployed-state.sh).
THEOREM DeployedRuns == FlagsSpec => []DeployedIsRunning
<1>1. StateInv => DeployedIsRunning
  BY DEF StateInv, RecordInv, DeployedIsRunning
<1> QED  BY <1>1, StateInit, StateStep, PTL DEF FlagsSpec

\* stack-sync removes from the server nothing that is in the run's list.
LEMMA DeployKeepsWanted ==
    ASSUME StateInv, [FlagsNext]_allVars, NEW r \in SpinUps,
           step[r] = "deploy", step'[r] # "deploy"
    PROVE  job[r].kept \cap live \subseteq live'
<1>1. FlagsTypeOK /\ job[r].kept \subseteq job[r].list
  BY DEF StateInv, KeptInv
<1>2. CASE Deploy(r)
  <2>1. CASE live' = job[r].list
    BY <1>1, <2>1
  <2>2. CASE \E changed \in SUBSET ((live \ job[r].list) \cup (job[r].list \ live)) :
                live' = (live \ changed) \cup (changed \cap job[r].list)
    BY <1>1, <2>2
  <2>3. QED
    BY <1>2, <2>1, <2>2 DEF Deploy
<1>3. CASE \/ \E s \in Services : ToggleService(s) \/ Update(s)
           \/ \E q \in Rules : ToggleRule(q)
           \/ StartSetup \/ UNCHANGED allVars
  BY <1>1, <1>3
     DEF ToggleService, Update, ToggleRule, StartSetup, allVars, Goto, FlagsTypeOK
<1>4. CASE Teardown
  BY <1>1, <1>4 DEF Teardown, StartTeardown, Destroy, ResetRules, Goto, FlagsTypeOK
<1>5. ASSUME NEW q \in SpinUps, SpinUp(q)
      PROVE  q = r /\ Deploy(r)
  <2>1. q = r
    BY <1>1, <1>5
       DEF SpinUp, StartSpinUp, WriteConfig, Apply, Deploy, GiveUp, Goto, FlagsTypeOK
  <2>2. QED
    BY <1>5, <2>1 DEF SpinUp, StartSpinUp, WriteConfig, Apply
<1>6. ASSUME NEW q \in SpinUps \cup {"setup"}, Sync(q)
      PROVE  FALSE
  <2>1. q = r
    BY <1>1, <1>6
       DEF Sync, SyncRows, SyncDeployed, SyncRules, EnforceCore, Goto, FlagsTypeOK
  <2>2. QED
    BY <1>6, <2>1 DEF Sync, SyncRows, SyncDeployed, SyncRules, EnforceCore
<1>7. QED
  BY <1>2, <1>3, <1>4, <1>5, <1>6 DEF FlagsNext

\* No spin-up takes a running service down that stayed enabled since its
\* dispatch, whichever query failed, whoever toggled what in the meantime and
\* whatever runs beside it (spin-up.js, nexus-config-tfvars/action.yml,
\* stack_sync.py).
THEOREM WantedStay == FlagsSpec => WantedServicesStay
<1>1. StateInv /\ [FlagsNext]_allVars =>
        [\A r \in SpinUps :
            step[r] = "deploy" /\ step'[r] # "deploy" =>
                job[r].kept \cap live \subseteq live']_allVars
  BY DeployKeepsWanted
<1> QED  BY <1>1, StateInit, StateStep, PTL DEF FlagsSpec, WantedServicesStay
=============================================================================

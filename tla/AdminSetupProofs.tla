-------------------------- MODULE AdminSetupProofs --------------------------
(* The proofs about AdminSetup, for any set of runs at once, any lists of   *)
(* enabled hooks, any number of runs and faults. The steps of the hooks     *)
(* are first shown to be one of two abstract steps, HookStep and KcStep,    *)
(* and the invariant is kept by those. What a run without a fault           *)
(* achieves has an invariant of its own, CleanInv, and abstract steps that  *)
(* say more, Advance and KcAdvance.                                         *)
EXTENDS AdminSetup, TLAPS, WellFoundedInduction, SequenceTheorems

\* What a keycloak run holds between its steps: it deletes the bootstrap
\* account only signed in as the administrator and the other way round; it
\* resets or grants only an account it has found; and what it grants the role
\* has the configured password, if it exists at all.
ActsSafely(r) ==
  /\ \A s \in {"flag", "last", "drop-boot"} :
       At(r, "keycloak", s) => run[r].tok.who = "admin"
  /\ At(r, "keycloak", "drop-temporary") => run[r].tok.who = "boot"
  /\ At(r, "keycloak", "reset") \/ At(r, "keycloak", "grant") => run[r].id # 0
  /\ At(r, "keycloak", "grant") \/ (At(r, "keycloak", "lookup") /\ run[r].got = "201") =>
       (realm.user[run[r].user].id # 0 => realm.user[run[r].user].pw)

\* What the later steps of the LakeFS, HedgeDoc, Lakekeeper and Windmill hooks
\* rely on of the earlier ones.
Prepared(r) ==
  /\ \A s \in {"repo", "repo-done"} : At(r, "lakefs", s) => Has("lakefs", "setup")
  /\ At(r, "hedgedoc", "reset") => Has("hedgedoc", "admin")
  /\ At(r, "lakekeeper", "fix") => Has("lakekeeper", "warehouse")
  /\ At(r, "windmill", "rotate") => run[r].got \in Statuses

\* A run that is past its first step has a hook to work on.
Working(r) == run[r].step \notin {"idle", "parse"} => run[r].todo # {}

\* The results that say a hook has done its work.
Good == {"configured", "already-configured"}

-----------------------------------------------------------------------------
\* The operators the hooks share.

\* A nonempty set of numbers contains its minimum.
LEMMA MinIsIn == ASSUME NEW S \in SUBSET Nat, S # {} PROVE Min(S) \in S
<1> DEFINE R == OpToRel(<, Nat)
<1>1. \A x, y \in Nat : <<y, x>> \in R <=> y < x
  BY DEF OpToRel
<1>2. IsWellFoundedOn(R, Nat)
  BY NatLessThanWellFounded, Zenon
<1> HIDE DEF R
<1>3. \E x \in S : \A y \in S : ~ (<<y, x>> \in R)
  BY <1>2, WFMin
<1>4. PICK x \in S : \A y \in S : ~ (<<y, x>> \in R)
  BY <1>3
<1>5. \A y \in S : <<y, x>> \in R <=> y < x
  BY <1>1
<1>6. \A y \in S : ~(y < x)
  BY <1>4, <1>5
<1>7. \A y \in S : x <= y
  BY <1>6
<1> QED  BY <1>7 DEF Min

\* The turn is one of those left.
LEMMA TurnIsLeft ==
  ASSUME NEW todo \in SUBSET Nat, todo # {}
  PROVE  Turn(todo) \in todo
<1> DEFINE shell == {i \in todo : enabled.list[i] \in BashHooks}
           S == IF shell # {} THEN shell ELSE todo
<1>1. S \in SUBSET Nat /\ S # {} /\ S \subseteq todo
  OBVIOUS
<1>2. Turn(todo) = Min(S)
  BY DEF Turn
<1> HIDE DEF S
<1> QED  BY <1>1, <1>2, MinIsIn

\* The hook whose turn it is, is one of the hooks.
LEMMA ItsTurn ==
  ASSUME TypeOK, NEW r \in Runners, run[r].todo # {}
  PROVE  Current(r) \in Hooks
<1>1. enabled.list \in Seq(Hooks)
  BY AdminAssumption DEF TypeOK
<1>2. run[r].todo \subseteq DOMAIN enabled.list /\ run[r].todo \in SUBSET Nat
  BY <1>1 DEF TypeOK, RunRecords
<1>3. Turn(run[r].todo) \in DOMAIN enabled.list
  BY <1>2, TurnIsLeft
<1> QED  BY <1>1, <1>3 DEF Current

\* Ending a hook keeps the run's record typed, moves it on to the next hook or
\* to the report, and changes the result of no other hook.
LEMMA EndedIsTyped ==
  ASSUME NEW rec \in RunRecords, NEW s \in Statuses
  PROVE  /\ Ended(rec, s) \in RunRecords
         /\ Ended(rec, s).step \in {"ready", "parse"}
         /\ rec.todo # {} /\ Ended(rec, s).step = "ready" => Ended(rec, s).todo # {}
         /\ Ended(rec, s).got = "none"
         /\ \A h \in Hooks : Ended(rec, s).res[h] = rec.res[h]
                            \/ (h = enabled.list[Turn(rec.todo)] /\ Ended(rec, s).res[h] = s)
<1> DEFINE t == Turn(rec.todo)
           h0 == enabled.list[t]
           left == rec.todo \ {t}
           next == IF rec.todo = {t} THEN "parse" ELSE "ready"
<1> HIDE DEF t
<1>1. Ended(rec, s) = [rec EXCEPT !.todo = left, !.got = "none", !.tok = NoToken,
                         !.user = "admin", !.id = 0, !.old = 0,
                         !.res[h0] = s, !.step = next]
  BY DEF Ended, t, RunRecords
<1>2. left \in SUBSET (DOMAIN enabled.list) /\ next \in {"ready", "parse"}
  BY DEF RunRecords
<1> DEFINE res == [rec.res EXCEPT ![h0] = s]
<1>3. NoToken \in [who : KcNames, id : Nat] /\ "admin" \in KcNames
  BY DEF NoToken, KcNames
<1>4. /\ res \in [Hooks -> Statuses \cup {"none"}]
      /\ \A h \in Hooks : res[h] = rec.res[h] \/ (h = h0 /\ res[h] = s)
  BY DEF RunRecords
<1>5. "none" \in Notes /\ next \in HookSteps \cup {"idle", "ready", "parse"}
  BY <1>2 DEF Notes
<1> HIDE DEF left, next, h0, res
<1>6. Ended(rec, s) = [rec EXCEPT !.todo = left, !.got = "none", !.tok = NoToken,
                         !.user = "admin", !.id = 0, !.old = 0,
                         !.res = res, !.step = next]
  BY <1>1 DEF res, RunRecords
<1>7. Ended(rec, s) \in RunRecords
  <2>1. Ended(rec, s) = [todo |-> left, step |-> next, got |-> "none", tok |-> NoToken,
                         user |-> "admin", id |-> 0, old |-> 0, res |-> res,
                         clean |-> rec.clean, stuck |-> rec.stuck, phase |-> rec.phase]
    BY <1>6 DEF RunRecords
  <2>2. rec.clean \in BOOLEAN /\ rec.stuck \in SUBSET Hooks
        /\ rec.phase \in {"none", "ok", "partial", "failed"}
    BY DEF RunRecords
  <2> QED  BY <2>1, <2>2, <1>2, <1>3, <1>4, <1>5 DEF RunRecords
<1>8. /\ Ended(rec, s).step = next /\ Ended(rec, s).got = "none"
      /\ Ended(rec, s).res = res /\ Ended(rec, s).todo = left
  BY <1>6 DEF RunRecords
<1>9. rec.todo # {} /\ next = "ready" => left # {}
  BY DEF left, next
<1> QED  BY <1>2, <1>4, <1>7, <1>8, <1>9 DEF h0, t

\* A run that is no longer clean is the same run otherwise.
LEMMA UncleanIsTyped ==
  ASSUME NEW rec \in RunRecords
  PROVE  /\ Unclean(rec) \in RunRecords
         /\ \A f \in {"todo", "step", "got", "tok", "user", "id", "old", "res", "stuck", "phase"} :
               Unclean(rec)[f] = rec[f]
BY DEF Unclean, RunRecords

\* A record of the run with the hooks to do and the results it has now.
Same(rec, r) == rec \in RunRecords /\ rec.todo = run[r].todo /\ rec.res = run[r].res

\* What taking a step does to the runs: the others stay, and the result of no
\* hook but the current one changes, and that to the status the step ends with.
LEMMA Went ==
  ASSUME TypeOK, NEW r \in Runners, Current(r) \in Hooks, enabled' = enabled,
         NEW rec, Same(rec, r), NEW s \in HookSteps \cup Statuses, Go(r, rec, s)
  PROVE  /\ run' \in [Runners -> RunRecords']
         /\ \A o \in Runners : run'[o].step \in {"ready", "idle", "parse"} => run'[o].got = "none"
         /\ \A o \in Runners \ {r} : run'[o] = run[o]
         /\ s \in HookSteps => run'[r] = [rec EXCEPT !.step = s]
         /\ s \in Statuses => run'[r].step \in {"ready", "parse"}
         /\ s \in Statuses /\ run'[r].step = "ready" => run'[r].todo # {}
         /\ \A h \in Hooks : run'[r].res[h] # run[r].res[h] => h = Current(r)
         /\ \A h \in Hooks : run'[r].res[h] \in {s, run[r].res[h]}
<1> DEFINE new == Onward(rec, s)
<1>1. run' = [run EXCEPT ![r] = new] /\ run \in [Runners -> RunRecords]
  BY DEF Go, TypeOK
<1>2. RunRecords' = RunRecords
  BY DEF RunRecords
<1>3. rec \in RunRecords
  BY DEF Same
<1>4. CASE s \in Statuses
  <2>1. new = Ended(rec, s) /\ s \notin HookSteps
    BY <1>4 DEF Onward, HookSteps, Statuses
  <2>2. Current(r) = enabled.list[Turn(rec.todo)] /\ rec.todo # {}
    BY DEF Same, Current, Hooks, BashHooks, PythonHooks
  <2> HIDE DEF new
  <2>3. /\ new \in RunRecords /\ new.step \in {"ready", "parse"} /\ new.got = "none"
        /\ new.step = "ready" => new.todo # {}
    BY <1>3, <1>4, <2>1, <2>2, EndedIsTyped
  <2>4. \A h \in Hooks : new.res[h] = rec.res[h] \/ (h = Current(r) /\ new.res[h] = s)
    BY <1>3, <1>4, <2>1, <2>2, EndedIsTyped
  <2> QED  BY <1>1, <1>2, <1>4, <2>1, <2>3, <2>4 DEF Same, TypeOK
<1>5. CASE s \in HookSteps
  <2>1. new = [rec EXCEPT !.step = s] /\ s \notin Statuses
        /\ s \notin {"ready", "idle", "parse"}
    BY <1>5 DEF Onward, HookSteps, Statuses
  <2> HIDE DEF new
  <2>2. new \in RunRecords /\ new.step = s /\ new.res = rec.res
    BY <1>3, <1>5, <2>1 DEF RunRecords
  <2> QED  BY <1>1, <1>2, <1>5, <2>1, <2>2 DEF Same, TypeOK
<1> QED  BY <1>4, <1>5

-----------------------------------------------------------------------------
\* The hooks other than Keycloak. They share one abstract step: whatever the
\* hook, what it reports done is in the service, and it takes away nothing but
\* a default account, or what Filestash's configuration replaces.

\* With S in its service, the hook h may go on to the step, or end with the
\* status, s.
Leaves(h, s, S) ==
  /\ s \in Good /\ h \notin Blind => Promised(h) \subseteq S
  /\ h = "lakefs" /\ s \in {"repo", "repo-done"} => "setup" \in S
  /\ h = "hedgedoc" /\ s = "reset" => "admin" \in S
  /\ h = "lakekeeper" /\ s = "fix" => "warehouse" \in S
  /\ h = "keycloak" => s \in {"first", "skipped-not-ready"}

\* The abstract step of a hook that is not Keycloak.
HookStep(r) ==
  /\ Current(r) \in Hooks
  /\ UNCHANGED <<enabled, realm, runs>> /\ faults' \in 0 .. MaxFaults
  /\ svc' \in [Hooks -> SUBSET Things]
  /\ svc'["neo4j"] # {} /\ svc'["cassandra"] # {}
  /\ \A h \in Hooks \ {"filestash"} : svc[h] \ {"default"} \subseteq svc'[h]
  /\ \E s \in HookSteps \cup Statuses :
        /\ Leaves(Current(r), s, svc'[Current(r)])
        /\ \E rec \in RunRecords :
              /\ Same(rec, r) /\ Go(r, rec, s)
              /\ Current(r) = "windmill" /\ s = "rotate" => rec.got \in Statuses

\* A run takes the step s, with or without a fault.
Moves(r, s) == /\ NoFault \/ Fault
               /\ Go(r, run[r], s) \/ Go(r, Unclean(run[r]), s)

\* Counting the faults and the run's record.
LEMMA Moved ==
  ASSUME TypeOK, NEW r \in Runners, NEW s, Moves(r, s)
  PROVE  /\ faults' \in 0 .. MaxFaults
         /\ \E rec \in RunRecords : Same(rec, r) /\ Go(r, rec, s)
<1>1. faults' \in 0 .. MaxFaults
  BY AdminAssumption DEF Moves, NoFault, Fault, TypeOK
<1>2. run[r] \in RunRecords /\ Same(run[r], r)
  BY DEF TypeOK, Same
<1>3. Unclean(run[r]) \in RunRecords /\ Same(Unclean(run[r]), r)
  BY <1>2, UncleanIsTyped DEF Same
<1> QED  BY <1>1, <1>2, <1>3 DEF Moves

\* A step that only reads is a HookStep.
LEMMA ReadStep ==
  ASSUME TypeOK, NeverLockedOut, NEW r \in Runners, Current(r) \in Hooks,
         NEW s \in HookSteps \cup Statuses, Moves(r, s),
         Leaves(Current(r), s, svc[Current(r)]), s # "rotate",
         UNCHANGED <<enabled, svc, realm, runs>>
  PROVE  HookStep(r)
BY Moved DEF HookStep, TypeOK, NeverLockedOut

\* A step that adds to the current service is a HookStep.
LEMMA WriteStep ==
  ASSUME TypeOK, NeverLockedOut, NEW r \in Runners, Current(r) \in Hooks,
         NEW s \in HookSteps \cup Statuses, Moves(r, s),
         NEW things \in SUBSET Things,
         svc' = [svc EXCEPT ![Current(r)] = @ \cup things],
         Leaves(Current(r), s, svc[Current(r)] \cup things), s # "rotate",
         UNCHANGED <<enabled, realm, runs>>
  PROVE  HookStep(r)
<1>1. /\ svc' \in [Hooks -> SUBSET Things]
      /\ svc'[Current(r)] = svc[Current(r)] \cup things
      /\ \A h \in Hooks : svc[h] \subseteq svc'[h]
  BY DEF TypeOK
<1> QED  BY <1>1, Moved DEF HookStep, NeverLockedOut, Hooks, BashHooks, PythonHooks

\* The two together: a write that may be lost, or done and not heard of.
LEMMA Written ==
  ASSUME TypeOK, NeverLockedOut, NEW r \in Runners, Current(r) \in Hooks,
         NEW things \in SUBSET Things,
         NEW ok \in (HookSteps \cup Statuses) \ {"rotate"},
         NEW bad \in (HookSteps \cup Statuses) \ {"rotate"},
         Leaves(Current(r), ok, svc[Current(r)] \cup things),
         Leaves(Current(r), bad, svc[Current(r)]),
         Write(r, things, ok, bad)
  PROVE  HookStep(r)
<1>1. Leaves(Current(r), bad, svc[Current(r)] \cup things)
  BY DEF Leaves
<1>2. CASE Moves(r, bad) /\ svc' = svc
  BY <1>2, ReadStep DEF Write
<1>3. CASE Moves(r, bad) /\ svc' = [svc EXCEPT ![Current(r)] = @ \cup things]
  BY <1>1, <1>3, WriteStep DEF Write
<1>4. CASE Moves(r, ok) /\ svc' = [svc EXCEPT ![Current(r)] = @ \cup things]
  BY <1>4, WriteStep DEF Write
<1> QED  BY <1>2, <1>3, <1>4 DEF Write, Moves

\* What each hook promises, one fact for the SMT solver.
LEMMA Promises ==
  /\ \A h \in {"portainer", "n8n", "metabase", "wikijs", "dify"} : Promised(h) = {"admin"}
  /\ \A h \in {"superset", "hedgedoc", "hue"} : Promised(h) = {"admin", "password"}
  /\ Promised("lakefs") = {"setup", "repo"} /\ Promised("openmetadata") = {"password"}
  /\ Promised("unity-catalog") = {"catalog"} /\ Promised("filestash") = {"backends"}
  /\ \A h \in {"neo4j", "cassandra"} : Promised(h) = {"ours"}
BY DEF Promised

\* Noting an answer keeps the run's record typed.
LEMMA NotedIsTyped ==
  ASSUME TypeOK, NEW r \in Runners, NEW got \in Notes
  PROVE  /\ Note(r, got) \in RunRecords /\ Same(Note(r, got), r) /\ Note(r, got).got = got
         /\ Unclean(Note(r, got)) \in RunRecords /\ Same(Unclean(Note(r, got)), r)
         /\ Unclean(Note(r, got)).got = got
<1>1. run[r] \in RunRecords
  BY DEF TypeOK
<1>2. Note(r, got) \in RunRecords /\ Same(Note(r, got), r) /\ Note(r, got).got = got
  BY <1>1 DEF Note, Same, RunRecords
<1> QED  BY <1>2, UncleanIsTyped DEF Same

\* A service that only gains things keeps the databases' accounts.
LEMMA GrowStep ==
  ASSUME TypeOK, NeverLockedOut, NEW r \in Runners, NEW h \in Hooks, Current(r) = h,
         NEW things \in SUBSET Things, svc' \in {svc, [svc EXCEPT ![h] = @ \cup things]}
  PROVE  /\ svc' \in [Hooks -> SUBSET Things]
         /\ svc'["neo4j"] # {} /\ svc'["cassandra"] # {}
         /\ \A g \in Hooks : svc[g] \subseteq svc'[g]
<1>1. /\ svc' \in [Hooks -> SUBSET Things] /\ \A g \in Hooks : svc[g] \subseteq svc'[g]
  BY DEF TypeOK
<1> QED  BY <1>1 DEF NeverLockedOut, Hooks, BashHooks

\* The faults stay within their bound.
LEMMA Counted ==
  ASSUME TypeOK, NoFault \/ Fault
  PROVE  faults' \in 0 .. MaxFaults
BY AdminAssumption DEF NoFault, Fault, TypeOK

\* Windmill's workspace request, whose answer the run keeps for its result.
LEMMA WindmillWorkspaceStep ==
  ASSUME TypeOK, NeverLockedOut, NEW r \in Runners, WindmillWorkspace(r)
  PROVE  HookStep(r)
<1>1. Current(r) = "windmill" /\ "windmill" \in Hooks
  BY DEF WindmillWorkspace, At, Hooks, BashHooks
<1>2. PICK got \in Statuses :
        Go(r, Note(r, got), "rotate") \/ Go(r, Unclean(Note(r, got)), "rotate")
  BY DEF WindmillWorkspace, Statuses
<1>3. \E rec \in RunRecords : Same(rec, r) /\ Go(r, rec, "rotate") /\ rec.got \in Statuses
  BY <1>2, NotedIsTyped DEF Notes
<1>4. /\ {"workspace"} \in SUBSET Things
      /\ svc' \in {svc, [svc EXCEPT !["windmill"] = @ \cup {"workspace"}]}
  BY DEF WindmillWorkspace, Things
<1>5. faults' \in 0 .. MaxFaults /\ UNCHANGED <<enabled, realm, runs>>
  BY Counted DEF WindmillWorkspace
<1>6. Leaves("windmill", "rotate", svc'["windmill"]) /\ "rotate" \in HookSteps
  BY DEF Leaves, Good, HookSteps
<1> QED  BY <1>1, <1>3, <1>4, <1>5, <1>6, GrowStep DEF HookStep

\* SFTPGo's request for the folder on the object storage.
LEMMA SftpgoHetznerStep ==
  ASSUME TypeOK, NeverLockedOut, NEW r \in Runners, SftpgoHetzner(r)
  PROVE  HookStep(r)
<1>1. Current(r) = "sftpgo" /\ "sftpgo" \in Hooks
  BY DEF SftpgoHetzner, At, Hooks, BashHooks
<1>2. Go(r, Note(r, "both"), "link") \/ Go(r, Unclean(run[r]), "link")
  BY DEF SftpgoHetzner
<1>3. \E rec \in RunRecords : Same(rec, r) /\ Go(r, rec, "link")
  BY <1>2, NotedIsTyped, UncleanIsTyped DEF Notes, TypeOK, Same
<1>4. /\ {"hetzner"} \in SUBSET Things
      /\ svc' \in {svc, [svc EXCEPT !["sftpgo"] = @ \cup {"hetzner"}]}
  BY DEF SftpgoHetzner, Things
<1>5. faults' \in 0 .. MaxFaults /\ UNCHANGED <<enabled, realm, runs>>
  BY Counted DEF SftpgoHetzner
<1>6. Leaves("sftpgo", "link", svc'["sftpgo"]) /\ "link" \in HookSteps
  BY DEF Leaves, Good, HookSteps
<1> QED  BY <1>1, <1>3, <1>4, <1>5, <1>6, GrowStep DEF HookStep

\* Filestash reads its configuration and writes it back: what it had is
\* replaced, and a write that is cut off leaves it torn.
LEMMA FilestashStep ==
  ASSUME TypeOK, NeverLockedOut, NEW r \in Runners, Filestash(r)
  PROVE  HookStep(r)
<1>1. Current(r) = "filestash" /\ "filestash" \in Hooks
  BY DEF Filestash, FilestashPull, FilestashPush, At, Hooks, PythonHooks
<1>2. faults' \in 0 .. MaxFaults /\ UNCHANGED <<enabled, realm, runs>>
  BY Counted DEF Filestash, FilestashPull, FilestashPush
<1>3. CASE FilestashPull(r)
  <2>1. PICK s \in {"failed", "push", "skipped-not-ready"} :
          \E got \in {"edit", "plain"} : Go(r, Note(r, got), s) \/ Go(r, Unclean(run[r]), s)
    BY <1>3 DEF FilestashPull
  <2>2. \E rec \in RunRecords : Same(rec, r) /\ Go(r, rec, s)
    BY <2>1, NotedIsTyped, UncleanIsTyped DEF Notes, TypeOK, Same
  <2>3. /\ svc' \in [Hooks -> SUBSET Things] /\ svc' = svc
        /\ svc'["neo4j"] # {} /\ svc'["cassandra"] # {}
    BY <1>3 DEF FilestashPull, TypeOK, NeverLockedOut
  <2>4. s \in HookSteps \cup Statuses /\ Leaves("filestash", s, svc'["filestash"])
    BY DEF Leaves, Good, HookSteps, Statuses
  <2> QED  BY <1>1, <1>2, <2>2, <2>3, <2>4 DEF HookStep
<1>4. CASE FilestashPush(r)
  <2> DEFINE new == {"backends"} \cup (IF run[r].got = "edit" THEN {"edit"} ELSE {})
             Put(f) == [svc EXCEPT !["filestash"] = f]
  <2>1. PICK s \in {"configured", "failed"} :
          /\ Go(r, run[r], s) \/ Go(r, Unclean(run[r]), s)
          /\ svc' \in {svc, Put(new), Put({"torn"})}
          /\ s = "configured" => svc' = Put(new)
    BY <1>4 DEF FilestashPush
  <2>2. \E rec \in RunRecords : Same(rec, r) /\ Go(r, rec, s)
    BY <2>1, UncleanIsTyped DEF TypeOK, Same
  <2>3. new \in SUBSET Things /\ {"torn"} \in SUBSET Things /\ "backends" \in new
    BY DEF Things
  <2> HIDE DEF new
  <2>4. /\ svc' \in [Hooks -> SUBSET Things] /\ \A h \in Hooks \ {"filestash"} : svc'[h] = svc[h]
        /\ s = "configured" => "backends" \in svc'["filestash"]
    BY <1>1, <2>1, <2>3 DEF TypeOK
  <2>5. svc'["neo4j"] # {} /\ svc'["cassandra"] # {}
    BY <2>4 DEF NeverLockedOut, Hooks, BashHooks
  <2>6. s \in HookSteps \cup Statuses /\ Leaves("filestash", s, svc'["filestash"])
    BY <2>4, Promises DEF Leaves, Good, Statuses
  <2> QED  BY <1>1, <1>2, <2>2, <2>4, <2>5, <2>6 DEF HookStep
<1> QED  BY <1>3, <1>4 DEF Filestash

\* Neo4j and Cassandra: the default account is dropped only when ours exists.
LEMMA DatabasesStep ==
  ASSUME TypeOK, NeverLockedOut, NEW r \in Runners, Databases(r)
  PROVE  HookStep(r)
<1>1. Current(r) \in {"neo4j", "cassandra"} /\ {"neo4j", "cassandra"} \subseteq Hooks
  BY DEF Databases, Neo4jSignIn, CassandraSignIn, DbMake, DbRetry, DbDrop, DbStep, At,
         Hooks, BashHooks
<1>2. ASSUME DbDrop(r) PROVE HookStep(r)
  <2> DEFINE d == Current(r)
             done == [svc EXCEPT ![d] = @ \ {"default"}]
  <2>1. PICK s \in {"already-configured", "configured", "failed"} :
          /\ Go(r, run[r], s) \/ Go(r, Unclean(run[r]), s)
          /\ svc' \in {svc, done} /\ (svc' = svc \/ "ours" \in svc[d])
          /\ s # "failed" => "ours" \in svc[d]
    BY <1>2 DEF DbDrop, Has
  <2>2. \E rec \in RunRecords : Same(rec, r) /\ Go(r, rec, s)
    BY <2>1, UncleanIsTyped DEF TypeOK, Same
  <2> HIDE DEF d
  <2>3. /\ svc' \in [Hooks -> SUBSET Things]
        /\ \A h \in Hooks : svc[h] \ {"default"} \subseteq svc'[h]
        /\ \A h \in Hooks : svc'[h] = svc[h] \/ (h = d /\ "ours" \in svc'[h])
    BY <1>1, <2>1 DEF TypeOK, d
  <2>4. svc'["neo4j"] # {} /\ svc'["cassandra"] # {}
    BY <1>1, <2>3 DEF NeverLockedOut
  <2>5. s \in Statuses /\ Leaves(d, s, svc'[d])
    BY <1>1, <2>1, <2>3, Promises DEF Leaves, Good, Statuses, d
  <2>6. faults' \in 0 .. MaxFaults /\ UNCHANGED <<enabled, realm, runs>>
    BY <1>2, Counted DEF DbDrop
  <2> QED  BY <1>1, <2>2, <2>3, <2>4, <2>5, <2>6 DEF HookStep, d
<1> USE <1>1, ReadStep, Written, Promises
    DEF DbStep, DbHas, At, Has, Ask, Moves, Leaves, Good, Blind, HookSteps, Statuses, Things
<1>3. ASSUME Neo4jSignIn(r) PROVE HookStep(r)
  BY <1>3 DEF Neo4jSignIn
<1>4. ASSUME CassandraSignIn(r) PROVE HookStep(r)
  BY <1>4 DEF CassandraSignIn
<1>5. ASSUME DbMake(r) PROVE HookStep(r)
  BY <1>5 DEF DbMake
<1>6. ASSUME DbRetry(r) PROVE HookStep(r)
  BY <1>6 DEF DbRetry
<1> QED  BY <1>2, <1>3, <1>4, <1>5, <1>6 DEF Databases

\* Every action of every hook but Keycloak is a HookStep.
LEMMA EveryHook ==
  ASSUME TypeOK, NeverLockedOut, NEW r \in Runners, Prepared(r), Working(r)
  PROVE  WaitReady(r) \/ Portainer(r) \/ N8n(r) \/ Metabase(r) \/ LakeFS(r)
         \/ OpenMetadata(r) \/ RedPanda(r) \/ Superset(r) \/ HedgeDoc(r) \/ Hue(r)
         \/ Garage(r) \/ Wikijs(r) \/ Dify(r) \/ Windmill(r) \/ Sftpgo(r)
         \/ PgDucklake(r) \/ UnityCatalog(r) \/ Lakekeeper(r) \/ Filestash(r)
         \/ Databases(r) => HookStep(r)
<1>1. ASSUME WaitReady(r) PROVE HookStep(r)
  <2>1. Current(r) \in Hooks
    BY <1>1, ItsTurn DEF WaitReady, Working
  <2> QED  BY <1>1, <2>1, ReadStep DEF WaitReady, Ask, Moves, Leaves, Good, HookSteps, Statuses
<1>2. {"portainer", "n8n", "metabase", "lakefs", "openmetadata", "redpanda", "superset", "hedgedoc", "hue", "garage", "wikijs", "dify", "windmill", "sftpgo", "pg-ducklake", "unity-catalog", "lakekeeper"}
      \subseteq Hooks
  BY DEF Hooks, BashHooks, PythonHooks
<1> USE <1>2, ReadStep, Written, Promises
    DEF At, In, Has, Ask, Create, Moves, Leaves, Good, Blind, HookSteps, Statuses, Things
<1>3. ASSUME Portainer(r) PROVE HookStep(r)
  BY <1>3 DEF Portainer
<1>4. ASSUME N8n(r) PROVE HookStep(r)
  BY <1>4 DEF N8n
<1>5. ASSUME Metabase(r) PROVE HookStep(r)
  BY <1>5 DEF Metabase
<1>6. ASSUME LakeFS(r) PROVE HookStep(r)
  <2>1. CASE At(r, "lakefs", "first")
    BY <1>6, <2>1 DEF LakeFS
  <2>2. CASE At(r, "lakefs", "setup")
    BY <1>6, <2>2 DEF LakeFS
  <2>3. CASE At(r, "lakefs", "repo") \/ At(r, "lakefs", "repo-done")
    <3>1. "setup" \in svc["lakefs"]
      BY <2>3 DEF Prepared
    <3>2. PICK s \in {"configured", "already-configured"} : Create(r, {"repo"}, "configured", s, "failed")
      BY <1>6, <2>3 DEF LakeFS
    <3>3. CASE "repo" \in svc["lakefs"]
      <4>1. Promised("lakefs") \subseteq svc["lakefs"]
        BY <3>1, <3>3
      <4>2. PICK t \in {s, "failed"} : Moves(r, t) /\ UNCHANGED <<enabled, svc, realm, runs>>
        BY <2>3, <3>2, <3>3
      <4> QED  BY <2>3, <4>1, <4>2
    <3>4. CASE "repo" \notin svc["lakefs"]
      BY <2>3, <3>1, <3>2, <3>4
    <3> QED  BY <3>3, <3>4
  <2> QED  BY <1>6, <2>1, <2>2, <2>3 DEF LakeFS
<1>7. ASSUME OpenMetadata(r) PROVE HookStep(r)
  <2>1. CASE At(r, "openmetadata", "first")
    BY <1>7, <2>1 DEF OpenMetadata
  <2>2. CASE At(r, "openmetadata", "change")
    BY <1>7, <2>2 DEF OpenMetadata
  <2>3. CASE At(r, "openmetadata", "verify")
    BY <1>7, <2>3 DEF OpenMetadata
  <2> QED  BY <1>7, <2>1, <2>2, <2>3 DEF OpenMetadata
<1>8. ASSUME RedPanda(r) PROVE HookStep(r)
  BY <1>8 DEF RedPanda
<1>9. ASSUME Superset(r) PROVE HookStep(r)
  <2>1. CASE At(r, "superset", "first")
    BY <1>9, <2>1 DEF Superset
  <2>2. CASE At(r, "superset", "reset")
    <3>1. PICK bad \in {"failed", "already-configured"} :
            IF "admin" \in svc["superset"]
            THEN Write(r, {"password"}, "already-configured", bad)
            ELSE Ask(r, FALSE, bad, bad, bad)
      BY <1>9, <2>2 DEF Superset
    <3> QED  BY <2>2, <3>1
  <2> QED  BY <1>9, <2>1, <2>2 DEF Superset
<1>10. ASSUME HedgeDoc(r) PROVE HookStep(r)
  BY <1>10 DEF HedgeDoc, Prepared
<1>11. ASSUME Hue(r) PROVE HookStep(r)
  BY <1>11 DEF Hue
<1>12. ASSUME Garage(r) PROVE HookStep(r)
  BY <1>12 DEF Garage
<1>13. ASSUME Wikijs(r) PROVE HookStep(r)
  BY <1>13 DEF Wikijs
<1>14. ASSUME Dify(r) PROVE HookStep(r)
  BY <1>14 DEF Dify
<1>15. ASSUME PgDucklake(r) PROVE HookStep(r)
  BY <1>15 DEF PgDucklake
<1>16. ASSUME UnityCatalog(r) PROVE HookStep(r)
  <2>1. CASE At(r, "unity-catalog", "first")
    BY <1>16, <2>1 DEF UnityCatalog
  <2>2. CASE At(r, "unity-catalog", "create")
    BY <1>16, <2>2 DEF UnityCatalog
  <2>3. CASE At(r, "unity-catalog", "look")
    BY <1>16, <2>3 DEF UnityCatalog
  <2> QED  BY <1>16, <2>1, <2>2, <2>3 DEF UnityCatalog
<1>17. ASSUME Lakekeeper(r) PROVE HookStep(r)
  BY <1>17 DEF Lakekeeper
<1>18. ASSUME Windmill(r) PROVE HookStep(r)
  <2>1. ASSUME WindmillWorkspace(r) PROVE HookStep(r)
    BY <2>1, WindmillWorkspaceStep
  <2> QED  BY <1>18, <2>1 DEF Windmill, Prepared
<1>19. ASSUME Sftpgo(r) PROVE HookStep(r)
  <2>1. ASSUME SftpgoHetzner(r) PROVE HookStep(r)
    BY <2>1, SftpgoHetznerStep
  <2>2. ASSUME SftpgoUser(r) PROVE HookStep(r)
    BY <2>2 DEF SftpgoUser
  <2> QED  BY <1>19, <2>1, <2>2 DEF Sftpgo
<1>20. ASSUME Filestash(r) PROVE HookStep(r)
  BY <1>20, FilestashStep
<1>21. ASSUME Databases(r) PROVE HookStep(r)
  BY <1>21, DatabasesStep
<1> QED
  BY <1>1, <1>3, <1>4, <1>5, <1>6, <1>7, <1>8, <1>9, <1>10, <1>11, <1>12, <1>13, <1>14,
     <1>18, <1>15, <1>16, <1>17, <1>19, <1>20, <1>21

-----------------------------------------------------------------------------
\* Keycloak. Its steps share an abstract step of their own, KcStep, that keeps
\* an administrator who can sign in.

\* What ActsSafely asks of a run with the record rec that goes on to the step
\* s.
Armed(rec, s) ==
  /\ s \in {"flag", "last", "drop-boot"} => rec.tok.who = "admin"
  /\ s = "drop-temporary" => rec.tok.who = "boot"
  /\ s \in {"reset", "grant"} => rec.id # 0
  /\ s = "grant" \/ (s = "lookup" /\ rec.got = "201") =>
       (realm.user[rec.user].id # 0 => realm.user[rec.user].pw)

\* No step leaves an account without the configured password that had it, or
\* was not there, before.
Warranted == \A u \in KcNames : (realm.user[u].id # 0 => realm.user[u].pw)
                                => (realm'.user[u].id # 0 => realm'.user[u].pw)

\* What the later steps of LakeFS, HedgeDoc and Lakekeeper rely on stays.
Kept == /\ "setup" \in svc["lakefs"] => "setup" \in svc'["lakefs"]
        /\ "admin" \in svc["hedgedoc"] => "admin" \in svc'["hedgedoc"]
        /\ "warehouse" \in svc["lakekeeper"] => "warehouse" \in svc'["lakekeeper"]

\* The three parts of a run's own invariant.
Safe(r) == ActsSafely(r) /\ Prepared(r) /\ Working(r)

\* A run that is not stepping stays safe.
LEMMA StaysSafe ==
  ASSUME NEW o, Safe(o), enabled' = enabled, Warranted, Kept, run[o].user \in KcNames,
         \A f \in {"todo", "step", "got", "tok", "user", "id"} : run'[o][f] = run[o][f]
  PROVE  Safe(o)'
<1>1. Current(o)' = Current(o)
  BY DEF Current, Turn
<1>2. ActsSafely(o)'
  BY <1>1 DEF Safe, ActsSafely, At, Warranted
<1> QED  BY <1>1, <1>2 DEF Safe, Prepared, Working, At, Has, Kept

\* A run that takes a step stays safe.
LEMMA GoesSafely ==
  ASSUME TypeOK, NEW r \in Runners, Current(r) \in Hooks, enabled' = enabled,
         NEW rec \in RunRecords, Same(rec, r), NEW s \in HookSteps \cup Statuses,
         Go(r, rec, s), Current(r) = "keycloak" => Armed(rec, s)',
         Leaves(Current(r), s, svc'[Current(r)]) \/ Current(r) = "keycloak",
         Current(r) = "windmill" /\ s = "rotate" => rec.got \in Statuses
  PROVE  Safe(r)'
<1>1. CASE s \in Statuses
  <2>1. run'[r].step \in {"ready", "parse"} /\ (run'[r].step = "ready" => run'[r].todo # {})
    BY <1>1, Went
  <2> QED  BY <2>1 DEF Safe, ActsSafely, Prepared, Working, At
<1>2. CASE s \in HookSteps
  <2>1. run'[r] = [rec EXCEPT !.step = s]
    BY <1>2, Went
  <2>2. /\ run'[r].step = s /\ run'[r].todo = run[r].todo /\ run'[r].got = rec.got
        /\ run'[r].tok = rec.tok /\ run'[r].user = rec.user /\ run'[r].id = rec.id
    BY <2>1 DEF Same, RunRecords
  <2>3. Current(r)' = Current(r) /\ run[r].todo # {}
    BY <2>2 DEF Current, Turn, Hooks, BashHooks, PythonHooks
  <2>4. CASE Current(r) = "keycloak"
    BY <2>2, <2>3, <2>4 DEF Safe, ActsSafely, Prepared, Working, At, Armed
  <2>5. CASE Current(r) # "keycloak"
    BY <2>2, <2>3, <2>5 DEF Safe, ActsSafely, Prepared, Working, At, Has, Leaves
  <2> QED  BY <2>4, <2>5
<1> QED  BY <1>1, <1>2

\* The accounts Keycloak may hold.
Accounts == [id : Nat, pw : BOOLEAN, role : BOOLEAN, temp : BOOLEAN]
\* The states of Keycloak's realm.
Realms == [user : [KcNames -> Accounts], next : Nat \ {0}]
\* An account with the role has the configured password: the hook grants the
\* role last.
Earned == \A n \in KcNames : realm.user[n].role => realm.user[n].pw

\* The abstract step of the Keycloak hook.
KcStep(r) ==
  /\ Current(r) = "keycloak"
  /\ UNCHANGED <<enabled, svc, runs>> /\ faults' \in 0 .. MaxFaults
  /\ realm' \in Realms /\ Warranted /\ Earned' /\ \E n \in KcNames : Administers(n)'
  /\ \E s \in HookSteps \cup Statuses, rec \in RunRecords :
       /\ Same(rec, r) /\ Go(r, rec, s) /\ Armed(rec, s)'
       /\ s \in Good => Administers("admin")'

\* What a step of the Keycloak hook starts from.
KcInv == TypeOK /\ NeverLockedOut /\ Earned

\* A change of one account: what it must keep for Warranted and Earned.
LEMMA OneAccount ==
  ASSUME KcInv, NEW u \in KcNames, NEW a \in Accounts, NEW n \in Nat \ {0},
         realm' = [user |-> [realm.user EXCEPT ![u] = a], next |-> n],
         a.role => a.pw,
         (realm.user[u].id # 0 => realm.user[u].pw) => (a.id # 0 => a.pw)
  PROVE  /\ realm' \in Realms /\ Warranted /\ Earned'
         /\ realm'.user = [realm.user EXCEPT ![u] = a]
         /\ realm'.user[u] = a /\ \A v \in KcNames \ {u} : realm'.user[v] = realm.user[v]
<1>1. realm.user \in [KcNames -> Accounts] /\ realm'.user = [realm.user EXCEPT ![u] = a]
  BY DEF KcInv, TypeOK, Accounts
<1>2. realm'.user \in [KcNames -> Accounts]
  BY <1>1
<1>3. /\ realm'.user[u] = a
      /\ \A v \in KcNames : v # u => realm'.user[v] = realm.user[v]
  BY <1>1
<1>4. realm' \in Realms
  BY <1>2 DEF Realms
<1>5. \A v \in KcNames : realm.user[v].role => realm.user[v].pw
  BY DEF KcInv, Earned
<1>6. Warranted
  BY <1>3 DEF Warranted
<1>7. Earned'
  BY <1>3, <1>5 DEF Earned
<1> QED  BY <1>1, <1>3, <1>4, <1>6, <1>7

\* No change of the realm keeps both.
LEMMA SameRealm ==
  ASSUME KcInv, realm' = realm
  PROVE  realm' \in Realms /\ Warranted /\ Earned'
BY DEF KcInv, TypeOK, Realms, Accounts, Warranted, Earned

\* A step that only reads is a KcStep.
LEMMA KcReads ==
  ASSUME KcInv, NEW r \in Runners, Current(r) = "keycloak",
         UNCHANGED <<enabled, svc, realm, runs>>, NoFault \/ Fault,
         NEW s \in HookSteps \cup Statuses, NEW rec \in RunRecords,
         Same(rec, r), Go(r, rec, s), Armed(rec, s), s \in Good => Administers("admin")
  PROVE  KcStep(r)
<1>1. realm' \in Realms /\ Warranted /\ Earned' /\ \E n \in KcNames : Administers(n)'
  BY DEF KcInv, TypeOK, Realms, Accounts, Warranted, Earned, NeverLockedOut, Administers, SignsIn
<1>2. Armed(rec, s)' /\ (s \in Good => Administers("admin")')
  BY DEF Armed, Administers, SignsIn
<1> QED  BY <1>1, <1>2, Counted DEF KcStep, KcInv

\* A step that changes the realm is a KcStep when it keeps what KcStep asks.
LEMMA KcWrites ==
  ASSUME KcInv, NEW r \in Runners, Current(r) = "keycloak",
         UNCHANGED <<enabled, svc, runs>>, NoFault \/ Fault,
         realm' \in Realms, Warranted, Earned', \E n \in KcNames : Administers(n)',
         NEW s \in HookSteps \cup Statuses, NEW rec \in RunRecords,
         Same(rec, r), Go(r, rec, s), Armed(rec, s)', s \in Good => Administers("admin")'
  PROVE  KcStep(r)
BY Counted DEF KcStep, KcInv

\* A token names the account it was issued to.
LEMMA Tokens ==
  ASSUME TypeOK, NEW n \in KcNames
  PROVE  TokenOf(n) \in [who : KcNames, id : Nat] /\ TokenOf(n).who = n
BY DEF TokenOf, TypeOK

\* The run's own record is a record of the run.
LEMMA OwnRecord ==
  ASSUME TypeOK, NEW r \in Runners
  PROVE  run[r] \in RunRecords /\ Same(run[r], r)
BY DEF TypeOK, Same

\* Asking for an administrator's token is a KcStep.
LEMMA KcSigningIn ==
  ASSUME KcInv, NEW r \in Runners, NEW n \in KcNames, Current(r) = "keycloak",
         NEW yes \in HookSteps, NEW no \in (HookSteps \cup Statuses) \ Good,
         KcAdminToken(r, n, yes, no), yes \notin {"reset", "grant", "lookup"},
         yes \in {"flag", "last", "drop-boot"} => n = "admin", yes = "drop-temporary" => n = "boot",
         no \notin {"reset", "grant", "lookup", "flag", "last", "drop-boot", "drop-temporary"}
  PROVE  KcStep(r)
<1> USE DEF KcInv, KcAdminToken
<1>1. CASE NoFault /\ Administers(n) /\ Go(r, [run[r] EXCEPT !.tok = TokenOf(n)], yes)
  <2> DEFINE rec == [run[r] EXCEPT !.tok = TokenOf(n)]
  <2>1. rec \in RunRecords /\ Same(rec, r) /\ rec.tok.who = n
    BY OwnRecord, Tokens DEF RunRecords, Same
  <2>2. Armed(rec, yes)
    BY <2>1 DEF Armed
  <2>3. yes \notin Good
    BY DEF HookSteps, Good
  <2> QED  BY <1>1, <2>1, <2>2, <2>3, KcReads
<1>2. CASE NoFault /\ Go(r, run[r], no)
  BY <1>2, OwnRecord, KcReads DEF Armed
<1>3. CASE Fault /\ Go(r, Unclean(run[r]), no)
  BY <1>3, OwnRecord, UncleanIsTyped, KcReads DEF Armed, Same
<1> QED  BY <1>1, <1>2, <1>3

\* A step whose answer is lost is a KcStep.
LEMMA KcUntold ==
  ASSUME KcInv, NEW r \in Runners, Current(r) = "keycloak",
         UNCHANGED <<enabled, svc, realm, runs>>, Untold(r)
  PROVE  KcStep(r)
<1>1. "failed" \in Statuses /\ "failed" \notin Good
  BY DEF Statuses, Good
<1> QED  BY <1>1, OwnRecord, UncleanIsTyped, KcReads DEF Untold, Armed, Same, KcInv

\* The steps of the Keycloak hook that only read.
LEMMA KcReading ==
  ASSUME KcInv, NEW r \in Runners, ActsSafely(r),
         KcProbe(r) \/ KcFlag(r) \/ KcAsBoot(r) \/ KcAgain(r) \/ KcInstalled(r)
         \/ KcVerify(r) \/ KcLast(r)
  PROVE  KcStep(r)
<1>1. TypeOK /\ run[r] \in RunRecords /\ Same(run[r], r)
  BY OwnRecord DEF KcInv
<1>2. CASE KcProbe(r)
  <2> DEFINE known == [run[r] EXCEPT !.got = "already-configured"]
             acting == [known EXCEPT !.tok = TokenOf("admin")]
  <2>1. known \in RunRecords /\ Same(known, r) /\ Unclean(known) \in RunRecords
        /\ Same(Unclean(known), r)
    BY <1>1, UncleanIsTyped DEF RunRecords, Same, Notes, Statuses
  <2>2. acting \in RunRecords /\ Same(acting, r) /\ acting.tok.who = "admin"
    BY <1>1, <2>1, Tokens DEF RunRecords, Same, KcNames
  <2>3. /\ Current(r) = "keycloak" /\ UNCHANGED <<enabled, svc, realm, runs>>
        /\ NoFault \/ Fault
        /\ Go(r, acting, "flag") \/ Go(r, known, "asboot") \/ Go(r, Unclean(known), "asboot")
    BY <1>2 DEF KcProbe, At
  <2>4. {"flag", "asboot"} \subseteq HookSteps /\ "flag" \notin Good /\ "asboot" \notin Good
    BY DEF HookSteps, Good
  <2>5. Armed(acting, "flag") /\ \A rec : Armed(rec, "asboot")
    BY <2>2 DEF Armed
  <2> HIDE DEF known, acting
  <2> QED  BY <2>1, <2>2, <2>3, <2>4, <2>5, KcReads
<1>3. CASE KcFlag(r)
  <2> DEFINE marked == [run[r] EXCEPT !.user = "boot", !.old = realm.user["admin"].id]
  <2>1. Current(r) = "keycloak" /\ UNCHANGED <<enabled, svc, realm, runs>>
    BY <1>3 DEF KcFlag, At
  <2>2. \/ NoFault /\ Go(r, marked, "create")
        \/ NoFault /\ Go(r, run[r], "last")
        \/ Untold(r)
    BY <1>3 DEF KcFlag, Told
  <2>3. marked \in RunRecords /\ Same(marked, r)
    BY <1>1 DEF RunRecords, Same, KcNames, TypeOK
  <2>4. {"create", "last"} \subseteq HookSteps /\ "create" \notin Good /\ "last" \notin Good
    BY DEF HookSteps, Good
  <2>5. Armed(run[r], "last") /\ Armed(marked, "create")
    BY <1>3 DEF Armed, ActsSafely, KcFlag, At
  <2> HIDE DEF marked
  <2> QED  BY <1>1, <2>1, <2>2, <2>3, <2>4, <2>5, KcReads, KcUntold
<1>4. CASE KcAsBoot(r)
  <2> DEFINE acting == [run[r] EXCEPT !.tok = TokenOf("boot")]
  <2>1. /\ Current(r) = "keycloak" /\ UNCHANGED <<enabled, svc, realm, runs>>
        /\ NoFault \/ Fault
        /\ Go(r, acting, "create") \/ Go(r, run[r], "again") \/ Go(r, Unclean(run[r]), "again")
    BY <1>4 DEF KcAsBoot, At
  <2>2. acting \in RunRecords /\ Same(acting, r)
    BY <1>1, Tokens DEF RunRecords, Same, KcNames
  <2>3. Unclean(run[r]) \in RunRecords /\ Same(Unclean(run[r]), r)
    BY <1>1, UncleanIsTyped DEF Same
  <2>4. {"create", "again"} \subseteq HookSteps /\ "create" \notin Good /\ "again" \notin Good
    BY DEF HookSteps, Good
  <2>5. \A rec : Armed(rec, "create") /\ Armed(rec, "again")
    BY DEF Armed
  <2> HIDE DEF acting
  <2> QED  BY <1>1, <2>1, <2>2, <2>3, <2>4, <2>5, KcReads
<1>5. CASE KcAgain(r)
  BY <1>5, KcSigningIn DEF KcAgain, At, KcNames, HookSteps, Statuses, Good
<1>6. CASE KcInstalled(r)
  <2> DEFINE u == realm.user[run[r].user]
             found == [run[r] EXCEPT !.id = u.id]
             next == CASE u.id # 0 /\ run[r].got = "409" -> "reset"
                       [] u.id # 0 /\ run[r].got = "201" -> "grant"
                       [] OTHER -> "failed"
  <2>1. /\ Current(r) = "keycloak" /\ UNCHANGED <<enabled, svc, realm, runs>>
        /\ (NoFault /\ Go(r, found, next)) \/ Untold(r)
    BY <1>6 DEF KcInstalled, At, Told
  <2>2. found \in RunRecords /\ Same(found, r) /\ found.user = run[r].user /\ found.id = u.id
    BY <1>1 DEF RunRecords, Same, TypeOK
  <2>3. /\ next \in {"reset", "grant", "failed"} /\ next \in HookSteps \cup Statuses
        /\ next \notin Good /\ (next = "grant" => run[r].got = "201")
        /\ next \in {"reset", "grant"} => u.id # 0
    BY DEF HookSteps, Statuses, Good
  <2>4. Armed(found, next)
    BY <1>6, <2>2, <2>3 DEF Armed, ActsSafely, KcInstalled, At
  <2> HIDE DEF found, next
  <2> QED  BY <2>1, <2>2, <2>3, <2>4, KcReads, KcUntold
<1>7. CASE KcVerify(r)
  <2>1. run[r].user \in KcNames
    BY <1>1 DEF RunRecords
  <2> QED  BY <1>7, <2>1, KcSigningIn DEF KcVerify, At, KcNames, HookSteps, Statuses, Good
<1>8. CASE KcLast(r)
  <2> DEFINE found == [run[r] EXCEPT !.id = realm.user["boot"].id]
  <2>1. Current(r) = "keycloak" /\ UNCHANGED <<enabled, svc, realm, runs>>
    BY <1>8 DEF KcLast, At
  <2>2. \/ NoFault /\ Authorised(r) /\ Go(r, run[r], KcStatus(r))
        \/ NoFault /\ Go(r, found, "drop-boot")
        \/ Untold(r)
    BY <1>8 DEF KcLast, Told
  <2>3. run[r].tok.who = "admin"
    BY <1>8 DEF KcLast, ActsSafely, At
  <2>4. found \in RunRecords /\ Same(found, r) /\ found.tok = run[r].tok
    BY <1>1 DEF RunRecords, Same, TypeOK, KcNames
  <2>5. /\ KcStatus(r) \in Statuses /\ "drop-boot" \in HookSteps /\ "drop-boot" \notin Good
        /\ KcStatus(r) \notin {"flag", "last", "drop-boot", "drop-temporary", "reset", "grant", "lookup"}
    BY DEF KcStatus, Statuses, HookSteps, Good
  <2>6. Armed(run[r], KcStatus(r)) /\ Armed(found, "drop-boot")
    BY <2>3, <2>4, <2>5 DEF Armed
  <2>7. Authorised(r) => Administers("admin")
    BY <2>3 DEF Authorised, Administers, SignsIn, KcInv, Earned, KcNames
  <2> HIDE DEF found
  <2> QED  BY <1>1, <2>1, <2>2, <2>4, <2>5, <2>6, <2>7, KcReads, KcUntold
<1> QED  BY <1>2, <1>3, <1>4, <1>5, <1>6, <1>7, <1>8

\* Creating an account: it has the password, and not yet the role.
LEMMA KcCreating ==
  ASSUME KcInv, NEW r \in Runners, KcCreate(r)
  PROVE  KcStep(r)
<1> DEFINE u == run[r].user
           made == [user |-> [realm.user EXCEPT ![u] =
                      [id |-> realm.next, pw |-> TRUE, role |-> FALSE, temp |-> FALSE]],
                    next |-> realm.next + 1]
           Code(c) == [run[r] EXCEPT !.got = c]
<1>1. PICK c \in {"201", "409", "401", "000"} :
        /\ NoFault \/ Fault
        /\ Go(r, Code(c), "lookup") \/ Go(r, Unclean(Code(c)), "lookup")
        /\ realm' = realm \/ (realm' = made /\ realm.user[u].id = 0)
        /\ c = "201" => realm' = made
  BY DEF KcCreate
<1>2. Current(r) = "keycloak" /\ UNCHANGED <<enabled, svc, runs>>
  BY DEF KcCreate, At
<1>3. u \in KcNames /\ c \in Notes /\ "lookup" \in HookSteps /\ "lookup" \notin Good
  BY OwnRecord DEF KcInv, RunRecords, Notes, HookSteps, Good
<1>4. \E rec \in RunRecords : /\ Same(rec, r) /\ Go(r, rec, "lookup")
                             /\ rec.user = u /\ rec.got = c
  <2>1. Code(c) \in RunRecords /\ Same(Code(c), r) /\ Code(c).user = u /\ Code(c).got = c
    BY <1>3, OwnRecord DEF KcInv, RunRecords, Same
  <2>2. /\ Unclean(Code(c)) \in RunRecords /\ Same(Unclean(Code(c)), r)
        /\ Unclean(Code(c)).user = u /\ Unclean(Code(c)).got = c
    BY <2>1, UncleanIsTyped DEF Same
  <2> HIDE DEF Code
  <2> QED  BY <1>1, <2>1, <2>2
<1>5. realm' \in Realms /\ Warranted /\ Earned' /\ (c = "201" => realm'.user[u].pw)
  <2>1. CASE realm' = realm /\ c # "201"
    BY <2>1, SameRealm
  <2>2. CASE realm' = made
    <3> DEFINE a == [id |-> realm.next, pw |-> TRUE, role |-> FALSE, temp |-> FALSE]
    <3>1. a \in Accounts /\ a.pw /\ ~a.role /\ realm.next + 1 \in Nat \ {0}
      BY DEF KcInv, TypeOK, Accounts
    <3>2. realm' = [user |-> [realm.user EXCEPT ![u] = a], next |-> realm.next + 1]
      BY <2>2
    <3> HIDE DEF a, u
    <3> QED  BY <1>3, <3>1, <3>2, OneAccount
  <2> QED  BY <1>1, <2>1, <2>2
<1>6. \E n \in KcNames : Administers(n)'
  BY <1>1, <1>3 DEF KcInv, TypeOK, NeverLockedOut, Administers, SignsIn
<1>7. ASSUME NEW rec, rec.user = u, rec.got = c
      PROVE  Armed(rec, "lookup")'
  BY <1>5, <1>7 DEF Armed
<1> HIDE DEF u, made, Code
<1> QED  BY <1>1, <1>2, <1>3, <1>4, <1>5, <1>6, <1>7, KcWrites

\* Resetting the password of an account, or granting it the role.
LEMMA KcSending ==
  ASSUME KcInv, NEW r \in Runners, Current(r) = "keycloak", run[r].id # 0,
         NEW changed \in Accounts, NEW ok \in {"grant", "verify"}, KcSend(r, changed, ok),
         changed.id = realm.user[run[r].user].id,
         changed.id # 0 => changed.pw, realm.user[run[r].user].role => changed.role
  PROVE  KcStep(r)
<1> DEFINE u == run[r].user
           done == [realm EXCEPT !.user[u] = changed]
<1>1. /\ NoFault \/ Fault
      /\ UNCHANGED <<enabled, svc, runs>>
      /\ \/ Go(r, run[r], ok) /\ realm' = done /\ realm.user[u].id # 0
         \/ /\ Go(r, run[r], "failed") \/ Go(r, Unclean(run[r]), "failed")
            /\ realm' = realm \/ (realm' = done /\ realm.user[u].id # 0)
  BY DEF KcSend
<1>2. u \in KcNames /\ run[r] \in RunRecords /\ Same(run[r], r)
      /\ Unclean(run[r]) \in RunRecords /\ Same(Unclean(run[r]), r)
  BY OwnRecord, UncleanIsTyped DEF KcInv, RunRecords, Same
<1>3. ASSUME realm' = done, realm.user[u].id # 0
      PROVE  /\ realm' \in Realms /\ Warranted /\ Earned'
             /\ realm'.user[u] = changed /\ realm'.user[u].pw = changed.pw
             /\ \A v \in KcNames \ {u} : realm'.user[v] = realm.user[v]
  <2>1. realm' = [user |-> [realm.user EXCEPT ![u] = changed], next |-> realm.next]
        /\ realm.next \in Nat \ {0}
    BY <1>3 DEF KcInv, TypeOK
  <2>2. changed.pw
    BY <1>3
  <2> HIDE DEF u
  <2> QED  BY <1>2, <2>1, <2>2, OneAccount
<1>4. realm' \in Realms /\ Warranted /\ Earned' /\ \E n \in KcNames : Administers(n)'
  <2>1. PICK n \in KcNames : Administers(n)
    BY DEF KcInv, NeverLockedOut
  <2>2. CASE realm' = done /\ realm.user[u].id # 0
    <3>1. realm'.user[n] = realm.user[n] \/ (n = u /\ realm'.user[n] = changed)
      BY <1>1, <1>3, <2>2
    <3> QED  BY <1>1, <1>3, <2>1, <2>2, <3>1 DEF Administers, SignsIn
  <2> QED  BY <1>1, <2>1, <2>2, SameRealm DEF Administers, SignsIn
<1>5. /\ {"grant", "verify", "failed"} \subseteq HookSteps \cup Statuses
      /\ {"grant", "verify", "failed"} \cap Good = {}
  BY DEF HookSteps, Statuses, Good
<1>6. \A rec : Armed(rec, "failed")'
  BY DEF Armed
<1>7. ASSUME NEW rec, rec = run[r], realm' = done, realm.user[u].id # 0
      PROVE  Armed(rec, ok)'
  BY <1>3, <1>7 DEF Armed
<1> HIDE DEF u, done
<1> QED  BY <1>1, <1>2, <1>4, <1>5, <1>6, <1>7, KcWrites

\* Deleting an account signed in as another one: the other one administers,
\* because the code asks for the role before it deletes.
LEMMA KcDeleting ==
  ASSUME KcInv, NEW r \in Runners, Current(r) = "keycloak",
         NEW n \in KcNames, NEW m \in KcNames \ {n}, run[r].tok.who = m, NEW id,
         NEW rec \in RunRecords, Same(rec, r),
         NEW gone \in {"create", "configured"}, NEW absent \in {"configured", "failed"},
         gone = "configured" \/ absent = "configured" => m = "admin",
         KcDelete(r, n, id, rec, gone, absent)
  PROVE  KcStep(r)
<1> DEFINE done == [realm EXCEPT !.user[n] = NoAccount]
<1>1. /\ NoFault \/ Fault
      /\ UNCHANGED <<enabled, svc, runs>>
      /\ realm' = realm \/ (realm' = done /\ Authorised(r))
      /\ \/ Authorised(r) /\ Go(r, rec, gone)
         \/ Authorised(r) /\ Go(r, rec, absent)
         \/ Go(r, rec, "failed")
         \/ Go(r, Unclean(run[r]), "failed")
  BY DEF KcDelete
<1>2. Unclean(run[r]) \in RunRecords /\ Same(Unclean(run[r]), r)
  BY OwnRecord, UncleanIsTyped DEF KcInv, Same
<1>3. realm' \in Realms /\ Warranted /\ Earned'
  <2>1. CASE realm' = realm
    BY <2>1, SameRealm
  <2>2. CASE realm' = done
    <3>1. realm' = [user |-> [realm.user EXCEPT ![n] = NoAccount], next |-> realm.next]
          /\ realm.next \in Nat \ {0}
      BY <2>2 DEF KcInv, TypeOK
    <3>2. NoAccount \in Accounts /\ NoAccount.id = 0 /\ ~NoAccount.role
      BY DEF NoAccount, Accounts
    <3> QED  BY <3>1, <3>2, OneAccount
  <2> QED  BY <1>1, <2>1, <2>2
<1>4. Authorised(r) => Administers(m)'
  <2>1. Authorised(r) => Administers(m)
    BY DEF Authorised, Administers, SignsIn, KcInv, Earned
  <2>2. realm'.user[m] = realm.user[m]
    BY <1>1 DEF KcInv, TypeOK
  <2> QED  BY <2>1, <2>2 DEF Administers, SignsIn
<1>5. \E a \in KcNames : Administers(a)'
  BY <1>1, <1>4 DEF KcInv, NeverLockedOut, Administers, SignsIn
<1>6. /\ {"create", "configured", "failed"} \subseteq HookSteps \cup Statuses
      /\ "create" \notin Good /\ "failed" \notin Good
  BY DEF HookSteps, Statuses, Good
<1>7. \A x : \A s \in {"create", "configured", "failed"} : Armed(x, s)'
  BY DEF Armed
<1> HIDE DEF done
<1> QED  BY <1>1, <1>2, <1>3, <1>4, <1>5, <1>6, <1>7, KcWrites

\* The steps of the Keycloak hook that change an account.
LEMMA KcWriting ==
  ASSUME KcInv, NEW r \in Runners, ActsSafely(r),
         KcReset(r) \/ KcGrant(r) \/ KcDropTemporary(r) \/ KcDropBoot(r)
  PROVE  KcStep(r)
<1>1. run[r] \in RunRecords /\ Same(run[r], r) /\ run[r].user \in KcNames
      /\ realm.user[run[r].user] \in Accounts
  BY OwnRecord DEF KcInv, RunRecords, TypeOK, Accounts
<1>2. CASE KcReset(r)
  <2> DEFINE changed == [realm.user[run[r].user] EXCEPT !.pw = TRUE]
  <2>1. Current(r) = "keycloak" /\ run[r].id # 0 /\ KcSend(r, changed, "grant")
    BY <1>2 DEF KcReset, At, ActsSafely
  <2>2. /\ changed \in Accounts
        /\ changed.id = realm.user[run[r].user].id /\ changed.pw
        /\ changed.role = realm.user[run[r].user].role
    BY <1>1 DEF Accounts
  <2> HIDE DEF changed
  <2> QED  BY <2>1, <2>2, KcSending
<1>3. CASE KcGrant(r)
  <2> DEFINE changed == [realm.user[run[r].user] EXCEPT !.role = TRUE]
  <2>1. Current(r) = "keycloak" /\ run[r].id # 0 /\ KcSend(r, changed, "verify")
    BY <1>3 DEF KcGrant, At, ActsSafely
  <2>2. realm.user[run[r].user].id # 0 => realm.user[run[r].user].pw
    BY <1>3 DEF KcGrant, ActsSafely
  <2>3. /\ changed \in Accounts
        /\ changed.id = realm.user[run[r].user].id /\ changed.role
        /\ changed.pw = realm.user[run[r].user].pw
    BY <1>1 DEF Accounts
  <2> HIDE DEF changed
  <2> QED  BY <2>1, <2>2, <2>3, KcSending
<1>4. CASE KcDropTemporary(r)
  <2> DEFINE rec == [run[r] EXCEPT !.user = "admin"]
  <2>1. /\ Current(r) = "keycloak" /\ run[r].tok.who = "boot"
        /\ KcDelete(r, "admin", run[r].old, rec, "create", "failed")
    BY <1>4 DEF KcDropTemporary, At, ActsSafely
  <2>2. rec \in RunRecords /\ Same(rec, r)
    BY <1>1 DEF RunRecords, Same, KcNames
  <2>3. "admin" \in KcNames /\ "boot" \in KcNames \ {"admin"}
    BY DEF KcNames
  <2> HIDE DEF rec
  <2> QED  BY <2>1, <2>2, <2>3, KcDeleting
<1>5. CASE KcDropBoot(r)
  <2>1. /\ Current(r) = "keycloak" /\ run[r].tok.who = "admin"
        /\ KcDelete(r, "boot", run[r].id, run[r], "configured", "configured")
    BY <1>5 DEF KcDropBoot, At, ActsSafely
  <2>2. "boot" \in KcNames /\ "admin" \in KcNames \ {"boot"}
    BY DEF KcNames
  <2> QED  BY <1>1, <2>1, <2>2, KcDeleting
<1> QED  BY <1>2, <1>3, <1>4, <1>5

-----------------------------------------------------------------------------
\* The inductive invariant and its steps.

\* The inductive invariant. NeverLockedOut alone is not inductive: that a
\* deletion leaves an administrator depends on who is signed in (ActsSafely)
\* and on what the role is worth (Earned).
SetupInv == TypeOK /\ NeverLockedOut /\ Earned /\ \A r \in Runners : Safe(r)

\* What OkMeansSetUp says of one step and one run.
Reports(r) ==
  \A h \in EnabledHooks \ Blind :
    run[r].res[h] = "none" /\ run'[r].res[h] \in Good => SetUp(h)'

\* A step of a hook that is not Keycloak keeps the invariant.
LEMMA KeptByHook ==
  ASSUME SetupInv, NEW r \in Runners, HookStep(r)
  PROVE  SetupInv' /\ \A o \in Runners : Reports(o)
<1>1. PICK s \in HookSteps \cup Statuses, rec \in RunRecords :
        /\ Leaves(Current(r), s, svc'[Current(r)])
        /\ Same(rec, r) /\ Go(r, rec, s)
        /\ Current(r) = "windmill" /\ s = "rotate" => rec.got \in Statuses
  BY DEF HookStep
<1>2. /\ Current(r) \in Hooks /\ UNCHANGED <<enabled, realm, runs>>
      /\ svc' \in [Hooks -> SUBSET Things] /\ faults' \in 0 .. MaxFaults
      /\ svc'["neo4j"] # {} /\ svc'["cassandra"] # {}
      /\ \A h \in Hooks \ {"filestash"} : svc[h] \ {"default"} \subseteq svc'[h]
      /\ TypeOK
  BY DEF HookStep, SetupInv
<1>3. \A o \in Runners \ {r} : run'[o] = run[o]
  BY <1>1, <1>2, Went
<1>4. \A h \in Hooks : run'[r].res[h] # run[r].res[h] => h = Current(r)
  BY <1>1, <1>2, Went
<1>5. \A h \in Hooks : run'[r].res[h] \in {s, run[r].res[h]}
  BY <1>1, <1>2, Went
<1>6. TypeOK'
  BY <1>1, <1>2, Went DEF TypeOK
<1>7. NeverLockedOut' /\ Earned' /\ Warranted
  BY <1>2 DEF SetupInv, NeverLockedOut, Administers, SignsIn, Earned, Warranted
<1>8. Kept
  BY <1>2 DEF Kept, Hooks, BashHooks, PythonHooks
<1>9. ASSUME NEW o \in Runners \ {r}
      PROVE  Safe(o)'
  <2>1. run'[o] = run[o] /\ Safe(o)
    BY <1>3 DEF SetupInv
  <2>2. run[o].user \in KcNames
    BY <1>2 DEF TypeOK, RunRecords
  <2> QED  BY <2>2, <1>2, <1>7, <1>8, <2>1, StaysSafe
<1>10. Safe(r)'
  <2>1. Current(r) = "keycloak" => Armed(rec, s)'
    BY <1>1 DEF Leaves, Armed
  <2> QED  BY <1>1, <1>2, <2>1, GoesSafely
<1>11. ASSUME NEW o \in Runners, NEW h \in EnabledHooks \ Blind,
             run[o].res[h] = "none", run'[o].res[h] \in Good
      PROVE  SetUp(h)'
  <2>1. h \in Hooks
    BY <1>2, AdminAssumption DEF EnabledHooks, TypeOK
  <2>2. "none" \notin Good
    BY DEF Good
  <2>3. o = r /\ h = Current(r) /\ s \in Good
    BY <1>2, <1>3, <1>4, <1>5, <1>11, <2>1, <2>2
  <2>4. Promised(h) \subseteq svc'[h] /\ h # "keycloak"
    BY <1>1, <1>11, <2>3 DEF Leaves, Good
  <2> QED  BY <2>4 DEF SetUp, Promised
<1> QED  BY <1>6, <1>7, <1>9, <1>10, <1>11 DEF SetupInv, Reports

\* A step of the Keycloak hook keeps the invariant.
LEMMA KeptByKeycloak ==
  ASSUME SetupInv, NEW r \in Runners, KcStep(r)
  PROVE  SetupInv' /\ \A o \in Runners : Reports(o)
<1>1. PICK s \in HookSteps \cup Statuses, rec \in RunRecords :
        /\ Same(rec, r) /\ Go(r, rec, s) /\ Armed(rec, s)'
        /\ s \in Good => Administers("admin")'
  BY DEF KcStep
<1>2. /\ Current(r) = "keycloak" /\ "keycloak" \in Hooks /\ UNCHANGED <<enabled, svc, runs>>
      /\ realm' \in Realms /\ faults' \in 0 .. MaxFaults
      /\ Warranted /\ Earned' /\ \E n \in KcNames : Administers(n)'
      /\ TypeOK
  BY DEF KcStep, SetupInv, Hooks, BashHooks
<1>3. \A o \in Runners \ {r} : run'[o] = run[o]
  BY <1>1, <1>2, Went
<1>4. \A h \in Hooks : run'[r].res[h] # run[r].res[h] => h = Current(r)
  BY <1>1, <1>2, Went
<1>5. \A h \in Hooks : run'[r].res[h] \in {s, run[r].res[h]}
  BY <1>1, <1>2, Went
<1>6. TypeOK'
  BY <1>1, <1>2, Went DEF TypeOK, Realms, Accounts
<1>7. NeverLockedOut' /\ Kept
  BY <1>2 DEF SetupInv, NeverLockedOut, Kept
<1>8. ASSUME NEW o \in Runners \ {r}
      PROVE  Safe(o)'
  <2>1. run'[o] = run[o] /\ Safe(o)
    BY <1>3 DEF SetupInv
  <2>2. run[o].user \in KcNames
    BY <1>2 DEF TypeOK, RunRecords
  <2> QED  BY <2>2, <1>2, <1>7, <2>1, StaysSafe
<1>9. Safe(r)'
  BY <1>1, <1>2, GoesSafely
<1>10. ASSUME NEW o \in Runners, NEW h \in EnabledHooks \ Blind,
             run[o].res[h] = "none", run'[o].res[h] \in Good
      PROVE  SetUp(h)'
  <2>1. h \in Hooks
    BY <1>2, AdminAssumption DEF EnabledHooks, TypeOK
  <2>2. "none" \notin Good
    BY DEF Good
  <2>3. h = "keycloak" /\ s \in Good
    BY <1>2, <1>3, <1>4, <1>5, <1>10, <2>1, <2>2
  <2>4. Promised("keycloak") = {}
    BY DEF Promised
  <2> QED  BY <1>1, <2>3, <2>4 DEF SetUp
<1> QED  BY <1>2, <1>6, <1>7, <1>8, <1>9, <1>10 DEF SetupInv, Reports

\* The invariant holds initially, whichever realm the server starts with.
LEMMA SetupInit == Init => SetupInv
<1> SUFFICES ASSUME Init PROVE SetupInv
  OBVIOUS
<1>1. enabled \in [list : HookLists, bare : BOOLEAN]
  BY DEF Init
<1>2. svc \in [Hooks -> SUBSET Things] /\ svc["neo4j"] # {} /\ svc["cassandra"] # {}
  <2>1. PICK old \in {{}, {"bootstrapped", "warehouse"}} :
          svc = [h \in Hooks |-> CASE h = "neo4j" -> {"default"}
                                   [] h = "cassandra" -> {"unseeded"}
                                   [] h = "lakekeeper" -> old
                                   [] OTHER -> {}]
    BY DEF Init
  <2>2. {"neo4j", "cassandra"} \subseteq Hooks
    BY DEF Hooks, BashHooks
  <2>3. old \in SUBSET Things /\ {"default"} \in SUBSET Things /\ {"unseeded"} \in SUBSET Things
    BY DEF Things
  <2> HIDE DEF Hooks, Things
  <2> QED  BY <2>1, <2>2, <2>3
<1>3. /\ realm \in Realms /\ \E n \in KcNames : Administers(n)
      /\ Earned
  <2>1. realm \in {FreshRealm, HalfRealm, LegacyRealm}
    BY DEF Init
  <2> DEFINE new == [id |-> 1, pw |-> TRUE, role |-> TRUE, temp |-> TRUE]
             half == [id |-> 2, pw |-> FALSE, role |-> FALSE, temp |-> FALSE]
  <2>2. CASE realm = FreshRealm
    <3>1. /\ realm.user \in [KcNames -> Accounts] /\ realm.next = 2
          /\ realm.user["boot"] = new /\ realm.user["admin"] = NoAccount
      BY <2>2 DEF FreshRealm, NoAccount, Accounts, KcNames
    <3>2. realm \in Realms
      BY <2>2, <3>1 DEF FreshRealm, Realms
    <3> QED  BY <3>1, <3>2 DEF NoAccount, KcNames, Administers, SignsIn, Earned
  <2>3. CASE realm = HalfRealm
    <3>1. realm = [user |-> [FreshRealm.user EXCEPT !["admin"] = half], next |-> 3]
      BY <2>3 DEF HalfRealm, FreshRealm
    <3>2. /\ realm.user \in [KcNames -> Accounts] /\ realm.next = 3
          /\ realm.user["boot"] = new /\ realm.user["admin"] = half
      BY <3>1 DEF FreshRealm, NoAccount, Accounts, KcNames
    <3>3. realm \in Realms
      BY <3>1, <3>2 DEF Realms
    <3> QED  BY <3>2, <3>3 DEF KcNames, Administers, SignsIn, Earned
  <2>4. CASE realm = LegacyRealm
    <3>1. /\ realm.user \in [KcNames -> Accounts] /\ realm.next = 2
          /\ realm.user["admin"] = new /\ realm.user["boot"] = NoAccount
      BY <2>4 DEF LegacyRealm, NoAccount, Accounts, KcNames
    <3>2. realm \in Realms
      BY <2>4, <3>1 DEF LegacyRealm, Realms
    <3> QED  BY <3>1, <3>2 DEF NoAccount, KcNames, Administers, SignsIn, Earned
  <2> QED  BY <2>1, <2>2, <2>3, <2>4
<1>4. run = [r \in Runners |-> Fresh] /\ faults = 0 /\ runs = 0
  BY DEF Init
<1>5. Fresh \in RunRecords /\ Fresh.got = "none" /\ Fresh.step = "idle"
  BY DEF Fresh, RunRecords, NoResults, NoToken, KcNames, Notes, Statuses
<1>6. TypeOK
  BY <1>1, <1>2, <1>3, <1>4, <1>5, AdminAssumption DEF TypeOK, Realms, Accounts
<1>7. \A r \in Runners : Safe(r)
  BY <1>4, <1>5 DEF Safe, ActsSafely, Prepared, Working, At
<1> QED  BY <1>2, <1>3, <1>6, <1>7 DEF SetupInv, NeverLockedOut

\* A run begins: other runs are no longer clean, nothing else of them changes.
LEMMA KeptByBegin ==
  ASSUME SetupInv, NEW r \in Runners, Begin(r)
  PROVE  SetupInv' /\ \A o \in Runners : Reports(o)
<1> DEFINE alone == \A o \in Runners \ {r} : run[o].step = "idle"
           stuck == {h \in EnabledHooks : Stuck(h)}
           rec == [Fresh EXCEPT !.todo = DOMAIN enabled.list, !.step = "ready",
                                !.clean = alone, !.stuck = stuck]
<1>1. /\ run' = [o \in Runners |-> IF o = r THEN rec ELSE Unclean(run[o])]
      /\ runs' = runs + 1 /\ runs < MaxRuns /\ UNCHANGED <<enabled, svc, realm, faults>>
      /\ TypeOK
  BY DEF Begin, SetupInv
<1>2. enabled.list \in Seq(Hooks) /\ DOMAIN enabled.list # {}
  <2>1. enabled.list \in Seq(Hooks) /\ enabled.list # <<>>
    BY AdminAssumption, <1>1 DEF TypeOK
  <2>2. DOMAIN enabled.list = 1 .. Len(enabled.list)
    BY <2>1
  <2>3. \A list \in Seq(Hooks) : list # <<>> => Len(list) \in Nat \ {0}
    BY EmptySeq, Zenon
  <2>4. Len(enabled.list) \in Nat \ {0}
    BY <2>1, <2>3
  <2> QED  BY <2>1, <2>2, <2>4
<1>3. stuck \in SUBSET Hooks /\ alone \in BOOLEAN
  BY <1>2 DEF EnabledHooks
<1>4. Fresh \in RunRecords /\ Fresh.got = "none" /\ Fresh.res = NoResults
  BY DEF Fresh, RunRecords, NoResults, NoToken, KcNames, Notes, Statuses
<1> HIDE DEF alone, stuck
<1>5. rec \in RunRecords /\ rec.got = "none" /\ rec.step = "ready" /\ rec.todo # {}
      /\ rec.res = NoResults
  BY <1>2, <1>3, <1>4 DEF RunRecords
<1> HIDE DEF rec
<1>6. \A o \in Runners \ {r} :
        /\ run'[o] \in RunRecords
        /\ \A f \in {"todo", "step", "got", "tok", "user", "id", "res"} : run'[o][f] = run[o][f]
  BY <1>1, UncleanIsTyped DEF TypeOK
<1>7. TypeOK'
  <2>1. run' \in [Runners -> RunRecords] /\ RunRecords' = RunRecords
    BY <1>1, <1>5, <1>6 DEF RunRecords
  <2>2. \A o \in Runners : run'[o].step \in {"ready", "idle", "parse"} => run'[o].got = "none"
    BY <1>1, <1>5, <1>6 DEF TypeOK
  <2>3. runs' \in 0 .. MaxRuns
    BY <1>1, AdminAssumption DEF TypeOK
  <2> QED  BY <1>1, <2>1, <2>2, <2>3 DEF TypeOK
<1>8. NeverLockedOut' /\ Earned' /\ Warranted /\ Kept
  BY <1>1 DEF SetupInv, NeverLockedOut, Administers, SignsIn, Earned, Warranted, Kept
<1>9. ASSUME NEW o \in Runners PROVE Safe(o)'
  <2>1. CASE o = r
    BY <1>1, <1>5, <2>1 DEF Safe, ActsSafely, Prepared, Working, At
  <2>2. CASE o # r
    <3>1. Safe(o) /\ run[o].user \in KcNames
      BY <1>1 DEF SetupInv, TypeOK, RunRecords
    <3> QED  BY <1>1, <1>6, <1>8, <2>2, <3>1, StaysSafe
  <2> QED  BY <2>1, <2>2
<1>10. \A o \in Runners, h \in Hooks : run'[o].res[h] = run[o].res[h] \/ run'[o].res[h] = "none"
  BY <1>1, <1>5, <1>6 DEF NoResults
<1>11. EnabledHooks \subseteq Hooks /\ "none" \notin Good
  BY <1>2 DEF EnabledHooks, Good
<1> QED  BY <1>7, <1>8, <1>9, <1>10, <1>11 DEF SetupInv, Reports

\* A run concludes or is broken off.
LEMMA KeptByRun ==
  ASSUME SetupInv, NEW r \in Runners, Conclude(r) \/ BreakOff(r)
  PROVE  SetupInv' /\ \A o \in Runners : Reports(o)
<1>1. PICK rec \in RunRecords :
        /\ run' = [run EXCEPT ![r] = rec]
        /\ rec.step = "idle" /\ rec.got = "none"
        /\ rec.res = run[r].res \/ rec.res = NoResults
  <2>1. CASE Conclude(r)
    <3> DEFINE bad == \E h \in EnabledHooks : run[r].res[h] \in {"none", "failed"}
               phase == IF bad THEN "partial" ELSE "ok"
    <3>1. run' = [run EXCEPT ![r].step = "idle", ![r].phase = phase] /\ run[r].step = "parse"
      BY <2>1 DEF Conclude
    <3>2. phase \in {"ok", "partial"}
      OBVIOUS
    <3> HIDE DEF phase
    <3> DEFINE ended == [run[r] EXCEPT !.step = "idle", !.phase = phase]
    <3>3. run' = [run EXCEPT ![r] = ended]
      BY <3>1 DEF SetupInv, TypeOK
    <3>4. run[r] \in RunRecords /\ run[r].got = "none"
      BY <3>1 DEF SetupInv, TypeOK
    <3>5. ended \in RunRecords /\ ended.step = "idle" /\ ended.got = "none"
          /\ ended.res = run[r].res
      BY <3>2, <3>4 DEF RunRecords
    <3> HIDE DEF ended
    <3> QED  BY <3>3, <3>5
  <2>2. CASE BreakOff(r)
    <3>1. [Fresh EXCEPT !.phase = "failed"] \in RunRecords
      BY DEF Fresh, RunRecords, NoResults, NoToken, KcNames, Notes, Statuses
    <3> QED  BY <2>2, <3>1 DEF BreakOff, Fresh
  <2> QED  BY <2>1, <2>2
<1>2. /\ UNCHANGED <<enabled, svc, realm, runs>> /\ faults' \in 0 .. MaxFaults
      /\ TypeOK
  BY AdminAssumption DEF Conclude, BreakOff, Fault, SetupInv, TypeOK
<1>3. TypeOK'
  BY <1>1, <1>2 DEF TypeOK, RunRecords
<1>4. NeverLockedOut' /\ Earned' /\ Warranted /\ Kept
  BY <1>2 DEF SetupInv, NeverLockedOut, Administers, SignsIn, Earned, Warranted, Kept
<1>5. run'[r] = rec /\ \A o \in Runners \ {r} : run'[o] = run[o]
  BY <1>1, <1>2 DEF TypeOK
<1>6. ASSUME NEW o \in Runners PROVE Safe(o)'
  <2>1. CASE o = r
    BY <1>1, <1>5, <2>1 DEF Safe, ActsSafely, Prepared, Working, At
  <2>2. CASE o # r
    <3>1. Safe(o) /\ run[o].user \in KcNames
      BY <1>2 DEF SetupInv, TypeOK, RunRecords
    <3> QED  BY <1>2, <1>4, <1>5, <2>2, <3>1, StaysSafe
  <2> QED  BY <2>1, <2>2
<1>7. \A o \in Runners, h \in Hooks : run'[o].res[h] = run[o].res[h] \/ run'[o].res[h] = "none"
  BY <1>1, <1>5 DEF NoResults
<1>8. EnabledHooks \subseteq Hooks /\ "none" \notin Good
  BY <1>2, AdminAssumption DEF EnabledHooks, Good, TypeOK
<1> QED  BY <1>3, <1>4, <1>6, <1>7, <1>8 DEF SetupInv, Reports

\* What happens to the services from outside, and stuttering.
LEMMA KeptByOthers ==
  ASSUME SetupInv, Seed \/ EditFilestash \/ NewPassword \/ UNCHANGED vars
  PROVE  SetupInv' /\ \A o \in Runners : Reports(o)
<1>1. /\ UNCHANGED <<enabled, realm, run, faults, runs>> /\ TypeOK
  BY DEF Seed, EditFilestash, NewPassword, vars, SetupInv
<1>2. /\ svc' \in [Hooks -> SUBSET Things]
      /\ svc'["neo4j"] # {} /\ svc'["cassandra"] # {} /\ Kept
  <2>1. svc \in [Hooks -> SUBSET Things] /\ svc["neo4j"] # {} /\ svc["cassandra"] # {}
        /\ {"neo4j", "cassandra", "lakefs", "lakekeeper", "hedgedoc", "filestash"} \subseteq Hooks
        /\ {"default"} \in SUBSET Things /\ {"edit"} \in SUBSET Things
    BY <1>1 DEF TypeOK, SetupInv, NeverLockedOut, Hooks, BashHooks, PythonHooks, Things
  <2>2. CASE Seed
    BY <2>1, <2>2 DEF Seed, Kept
  <2>3. CASE EditFilestash
    BY <2>1, <2>3 DEF EditFilestash, Kept
  <2>4. CASE NewPassword
    BY <2>1, <2>4 DEF NewPassword, Kept, Resetting
  <2>5. CASE UNCHANGED vars
    BY <2>1, <2>5 DEF vars, Kept
  <2> QED  BY <2>2, <2>3, <2>4, <2>5
<1>3. TypeOK'
  BY <1>1, <1>2 DEF TypeOK, RunRecords
<1>4. NeverLockedOut' /\ Earned' /\ Warranted
  BY <1>1, <1>2 DEF SetupInv, NeverLockedOut, Administers, SignsIn, Earned, Warranted
<1>5. ASSUME NEW o \in Runners PROVE Safe(o)'
  <2>1. Safe(o) /\ run[o].user \in KcNames
    BY <1>1 DEF SetupInv, TypeOK, RunRecords
  <2> QED  BY <1>1, <1>2, <1>4, <2>1, StaysSafe
<1>6. "none" \notin Good
  BY DEF Good
<1> QED  BY <1>1, <1>3, <1>4, <1>5, <1>6 DEF SetupInv, Reports

\* Every step keeps the invariant and reports only what is set up.
LEMMA SetupNext ==
  ASSUME SetupInv, [Next]_vars
  PROVE  SetupInv' /\ \A o \in Runners : Reports(o)
<1>1. ASSUME NEW r \in Runners, Hook(r)
      PROVE  SetupInv' /\ \A o \in Runners : Reports(o)
  <2>1. TypeOK /\ NeverLockedOut /\ Earned /\ ActsSafely(r) /\ Prepared(r) /\ Working(r)
    BY DEF SetupInv, Safe
  <2>2. CASE Keycloak(r)
    <3>1. KcStep(r)
      BY <2>1, <2>2, KcReading, KcCreating, KcWriting DEF Keycloak, KcInv
    <3> QED  BY <3>1, KeptByKeycloak
  <2>3. CASE ~Keycloak(r)
    <3>1. HookStep(r)
      BY <1>1, <2>1, <2>3, EveryHook DEF Hook
    <3> QED  BY <3>1, KeptByHook
  <2> QED  BY <2>2, <2>3
<1> QED  BY <1>1, KeptByBegin, KeptByRun, KeptByOthers DEF Next

-----------------------------------------------------------------------------
\* The theorems.

\* Every variable keeps its type, for every set of runs and every list of
\* enabled hooks.
THEOREM TypeCorrect == Spec => []TypeOK
<1>1. SetupInv => TypeOK
  BY DEF SetupInv
<1> QED  BY <1>1, SetupInit, SetupNext, PTL DEF Spec

\* However many admin-setup runs overlap, fail or are broken off, Keycloak
\* always has an account that can sign in and administer, and neither database
\* loses its last account: services.py's Keycloak hook (create, reset, grant,
\* verify, and only then delete) cannot lock the operator out.
THEOREM AlwaysAdministered == Spec => []NeverLockedOut
<1>1. SetupInv => NeverLockedOut
  BY DEF SetupInv
<1> QED  BY <1>1, SetupInit, SetupNext, PTL DEF Spec

\* A hook that reports configured or already-configured, in any run, has left
\* its service with what it is there to set up (services.py's hook results).
THEOREM OkIsSetUp == Spec => OkMeansSetUp
<1>1. SetupInv /\ [Next]_vars =>
        [\A r \in Runners, h \in EnabledHooks \ Blind :
           /\ run[r].res[h] = "none"
           /\ run'[r].res[h] \in {"configured", "already-configured"}
           => SetUp(h)']_vars
  BY SetupNext DEF Reports, Good
<1> QED  BY <1>1, SetupInit, SetupNext, PTL DEF Spec, OkMeansSetUp

-----------------------------------------------------------------------------
\* A run that is alone and without a fault. Its invariant says of every enabled
\* service what the run has reached with it: those whose hooks have ended are
\* settled, the one whose hook is under way is where its step takes it to be,
\* and those still to come are not in a state no hook repairs.

Clean(r) == run[r].clean /\ run[r].step # "idle"
Pending(r) == {enabled.list[i] : i \in run[r].todo}

\* What the property asks of a service, when its hook has ended.
Settled(r, h) ==
  \/ h \in run[r].stuck \/ Skips(h)
  \/ SetUp(h) /\ HandedOver(h) /\ (run[r].res[h] = "failed" => h = "n8n")

\* With S in its service, the hook h can do the rest: the service is not stuck.
Sound(h, S) ==
  /\ h = "garage" /\ "layout" \in S => "key" \in S
  /\ h = "redpanda" /\ "user" \in S => "restarted" \in S
  /\ h = "sftpgo" /\ "user" \in S => "linked" \in S
  /\ h = "filestash" => "torn" \notin S

\* What a clean run has found or done in the service of the hook h, and what it
\* holds in got, when it is at the step s.
Due(h, s, got, S) ==
  /\ s = "first" => Sound(h, S)
  /\ h = "metabase" /\ s = "post" => "admin" \notin S
  /\ h = "openmetadata" /\ s = "verify" => "password" \in S
  /\ h \in {"superset", "hedgedoc"} /\ s = "reset" => "admin" \in S
  /\ h = "lakefs" /\ s \in {"repo", "repo-done"} => "setup" \in S
  /\ h = "dify" /\ s = "init" => "admin" \notin S
  /\ h = "unity-catalog" /\ s = "look" => "catalog" \in S
  /\ h = "redpanda" =>
       /\ s = "create" => "user" \notin S
       /\ s \in {"create-old", "update"} => {"user", "restarted"} \subseteq S
       /\ s \in {"super", "restart"} => {"user", "password"} \subseteq S
       /\ s = "super-old" => {"user", "password", "restarted"} \subseteq S
       /\ s = "restart" => "superuser" \in S
       /\ s = "verify" => {"user", "password", "superuser", "restarted"} \subseteq S
  /\ h = "garage" =>
       /\ s \in {"assign", "apply"} => "layout" \notin S
       /\ s = "key" => "layout" \in S
  /\ h = "windmill" =>
       /\ s \in {"user", "workspace", "rotate"} => "admin" \in S
       /\ s \in {"workspace", "rotate"} => "user" \in S
       /\ s = "rotate" => "workspace" \in S /\ got \in Good
  /\ h = "sftpgo" =>
       /\ s \in {"folder", "hetzner", "link"} => Sound(h, S)
       /\ s \in {"hetzner", "link"} => "folder" \in S
       /\ s = "link" => "hetzner" \in S /\ got = "both"
  /\ h = "lakekeeper" =>
       /\ s \in {"list", "fix", "warehouse"} => "bootstrapped" \in S
       /\ s = "fix" => "warehouse" \in S
       /\ s = "warehouse" => "warehouse" \notin S
       /\ s # "look"
  /\ h \in {"neo4j", "cassandra"} =>
       /\ s = "make" => "default" \in S
       /\ s \in {"drop", "drop-new"} => "ours" \in S
       /\ s # "retry"

\* Among the accounts U, the one of the name n can administer.
AdminOf(U, n) == U[n].id # 0 /\ U[n].pw /\ U[n].role

\* What a clean run of the Keycloak hook with the record rec has reached at the
\* step s, with the accounts U. It always acts with the token of an account that
\* administers: of the administrator while it installs nexus-bootstrap, of
\* nexus-bootstrap while it installs the administrator.
ActsAs(rec, n, U) == rec.tok = [who |-> n, id |-> U[n].id] /\ AdminOf(U, n)

Installs(rec, U) ==
  \/ /\ rec.user = "boot" /\ ActsAs(rec, "admin", U) /\ rec.old = U["admin"].id
  \/ /\ rec.user = "admin" /\ ActsAs(rec, "boot", U) /\ ~U["admin"].temp

KcDue(rec, s, U) ==
  /\ s \in {"first", "asboot"} => rec.user = "admin"
  /\ s = "asboot" => ~AdminOf(U, "admin")
  /\ s # "again"
  /\ s \in {"flag", "last", "drop-boot"} => ActsAs(rec, "admin", U)
  /\ s \in {"create", "lookup", "reset", "grant", "verify"} => Installs(rec, U)
  /\ s = "lookup" => /\ rec.got \in {"201", "409"} /\ U[rec.user].id # 0
                     /\ rec.got = "201" => U[rec.user].pw
  /\ s \in {"reset", "grant"} => rec.id = U[rec.user].id /\ rec.id # 0
  /\ s = "grant" => U[rec.user].pw
  /\ s = "verify" => AdminOf(U, rec.user)
  /\ s = "drop-temporary" => ActsAs(rec, "boot", U) /\ rec.old = U["admin"].id
  /\ s \in {"last", "drop-boot"} => ~U["admin"].temp
  /\ s = "drop-boot" => rec.id = U["boot"].id

\* What holds of the services S whatever runs: Neo4j keeps one of its accounts,
\* Cassandra has none before it is seeded, a signing profile is one of a
\* warehouse.
Grounded(S) ==
  /\ "default" \in S["neo4j"] \/ "ours" \in S["neo4j"]
  /\ "unseeded" \in S["cassandra"] => S["cassandra"] = {"unseeded"}
  /\ "signing" \in S["lakekeeper"] => "warehouse" \in S["lakekeeper"]

\* An administrator that is still the temporary one can administer.
Inherited == realm.user["admin"].temp => Administers("admin")

\* A run between two hooks holds nothing, one at its end has none left.
Rests(r) == /\ run[r].step = "ready" => run[r].user = "admin"
            /\ run[r].step = "parse" => run[r].todo = {}

Alone(r) == \A o \in Runners \ {r} : run[o].step = "idle"
Covered(r) == \A h \in EnabledHooks \ Pending(r) : Settled(r, h)
Repairable(r) ==
  \A h \in EnabledHooks \ run[r].stuck :
    ~Skips(h) /\ (h # Current(r) \/ run[r].step = "ready") => Sound(h, svc[h])
Underway(r) ==
  LET c == Current(r)
  IN run[r].step \in HookSteps /\ c \notin run[r].stuck /\ ~Skips(c) =>
       /\ Due(c, run[r].step, run[r].got, svc[c])
       /\ c = "keycloak" => KcDue(run[r], run[r].step, realm.user)

CleanInv == /\ Grounded(svc) /\ Inherited /\ \A r \in Runners : Rests(r)
            /\ \A r \in Runners : Clean(r) =>
                 Alone(r) /\ Covered(r) /\ Repairable(r) /\ Underway(r)

-----------------------------------------------------------------------------
\* The abstract step of a hook other than Keycloak's, with what a clean run
\* makes of its service.

\* With S in its service, the hook h may end with the status s.
Ends(h, s, S) ==
  /\ Promised(h) \subseteq S /\ Sound(h, S)
  /\ h \in {"neo4j", "cassandra"} => "default" \notin S
  /\ s = "failed" => h = "n8n"

\* With S in its service, the hook h, holding got, may go on to the step, or end
\* with the status, s.
Proceeds(h, s, got, S) == /\ s \in HookSteps => Due(h, s, got, S)
                          /\ s \in Statuses => Ends(h, s, S)

\* No call of the run went wrong, and its service is neither stuck nor skipped.
Calm(r, h) == run[r].clean /\ h \notin run[r].stuck /\ ~Skips(h)

\* The run r works on its hook h.
OnTurn(r, h) ==
  /\ TypeOK /\ Grounded(svc) /\ Prepared(r)
  /\ r \in Runners /\ h \in Hooks \ {"keycloak"} /\ Current(r) = h
  /\ run[r].step \in HookSteps \cup {"ready"}
  /\ Calm(r, h) =>
       IF run[r].step = "ready" THEN Sound(h, svc[h])
                                ELSE Due(h, run[r].step, run[r].got, svc[h])

\* A record of the run before its next step: no cleaner than it was.
Kin(rec, r) == /\ Same(rec, r) /\ rec.stuck = run[r].stuck
               /\ rec.clean => run[r].clean

Advance(r, h) ==
  /\ UNCHANGED <<enabled, realm>> /\ svc' \in [Hooks -> SUBSET Things]
  /\ \A g \in Hooks \ {h} : svc'[g] = svc[g]
  /\ Grounded(svc')
  /\ \E s \in HookSteps \cup Statuses, rec \in RunRecords :
        /\ Kin(rec, r) /\ Go(r, rec, s)
        /\ rec.clean /\ Calm(r, h) => Proceeds(h, s, rec.got, svc'[h])

\* What a hook may add: ours while Cassandra has its default account, and a
\* signing profile to a warehouse.
Allowed(h, things) ==
  /\ h = "cassandra" => "default" \in svc[h] /\ "unseeded" \notin things
  /\ h = "lakekeeper" /\ "signing" \in things => "warehouse" \in svc[h] \cup things

\* The run goes on with a step of its own, or after a call that went wrong.
LEMMA Reading ==
  ASSUME NEW r, NEW h, OnTurn(r, h), UNCHANGED <<enabled, svc, realm>>,
         NEW s \in HookSteps \cup Statuses, NEW rec \in RunRecords, Kin(rec, r), Go(r, rec, s),
         rec.clean /\ Calm(r, h) => Proceeds(h, s, rec.got, svc[h])
  PROVE  Advance(r, h)
BY DEF Advance, OnTurn, TypeOK

\* The same with things added to its service.
LEMMA Adding ==
  ASSUME NEW r, NEW h, OnTurn(r, h), UNCHANGED <<enabled, realm>>,
         NEW things \in SUBSET Things, svc' = [svc EXCEPT ![h] = @ \cup things],
         Allowed(h, things),
         NEW s \in HookSteps \cup Statuses, NEW rec \in RunRecords, Kin(rec, r), Go(r, rec, s),
         rec.clean /\ Calm(r, h) => Proceeds(h, s, rec.got, svc[h] \cup things)
  PROVE  Advance(r, h)
<1>1. /\ svc' \in [Hooks -> SUBSET Things] /\ \A g \in Hooks \ {h} : svc'[g] = svc[g]
      /\ svc'[h] = svc[h] \cup things /\ h \in Hooks
  BY DEF OnTurn, TypeOK
<1>2. {"neo4j", "cassandra", "lakekeeper"} \subseteq Hooks
  BY DEF Hooks, BashHooks
<1>3. Grounded(svc')
  <2>1. svc["neo4j"] \subseteq svc'["neo4j"] /\ svc["lakekeeper"] \subseteq svc'["lakekeeper"]
    BY <1>1, <1>2
  <2>2. "unseeded" \in svc'["cassandra"] => svc'["cassandra"] = svc["cassandra"]
    BY <1>1, <1>2 DEF OnTurn, Grounded, Allowed
  <2> QED  BY <1>1, <1>2, <2>1, <2>2 DEF OnTurn, Grounded, Allowed
<1> QED  BY <1>1, <1>3 DEF Advance

\* The run's own record, and the one after a fault, are records of the run.
LEMMA Kinship ==
  ASSUME TypeOK, NEW r \in Runners
  PROVE  /\ run[r] \in RunRecords /\ Kin(run[r], r)
         /\ Unclean(run[r]) \in RunRecords /\ Kin(Unclean(run[r]), r)
         /\ ~Unclean(run[r]).clean
<1>1. run[r] \in RunRecords
  BY DEF TypeOK
<1>2. /\ Unclean(run[r]) \in RunRecords /\ Unclean(run[r]).todo = run[r].todo
      /\ Unclean(run[r]).res = run[r].res /\ Unclean(run[r]).stuck = run[r].stuck
  BY <1>1, UncleanIsTyped
<1>3. ~Unclean(run[r]).clean
  BY <1>1 DEF Unclean, RunRecords
<1> QED  BY <1>1, <1>2, <1>3 DEF Kin, Same

\* A read, with the branch it takes without a fault.
LEMMA Asked ==
  ASSUME NEW r, NEW h, OnTurn(r, h), NEW answer \in BOOLEAN,
         NEW yes \in HookSteps \cup Statuses, NEW no \in HookSteps \cup Statuses,
         NEW lost \in HookSteps \cup Statuses, Ask(r, answer, yes, no, lost),
         Calm(r, h) /\ answer => Proceeds(h, yes, run[r].got, svc[h]),
         Calm(r, h) /\ ~answer => Proceeds(h, no, run[r].got, svc[h])
  PROVE  Advance(r, h)
<1>1. r \in Runners /\ TypeOK
  BY DEF OnTurn
<1>2. CASE Go(r, run[r], IF answer THEN yes ELSE no)
  BY <1>1, <1>2, Kinship, Reading DEF Ask
<1>3. CASE Go(r, Unclean(run[r]), lost)
  BY <1>1, <1>3, Kinship, Reading DEF Ask
<1> QED  BY <1>2, <1>3 DEF Ask

\* A write, with what it leaves without a fault.
LEMMA Wrote ==
  ASSUME NEW r, NEW h, OnTurn(r, h), NEW things \in SUBSET Things,
         NEW ok \in HookSteps \cup Statuses, NEW bad \in HookSteps \cup Statuses,
         Write(r, things, ok, bad),
         Allowed(h, things),
         Calm(r, h) => Proceeds(h, ok, run[r].got, svc[h] \cup things)
  PROVE  Advance(r, h)
<1>1. r \in Runners /\ TypeOK /\ Current(r) = h
  BY DEF OnTurn
<1>2. CASE Go(r, run[r], ok) /\ svc' = [svc EXCEPT ![h] = @ \cup things]
  BY <1>1, <1>2, Kinship, Adding DEF Write
<1>3. CASE Go(r, Unclean(run[r]), bad) /\ svc' = [svc EXCEPT ![h] = @ \cup things]
  BY <1>1, <1>3, Kinship, Adding DEF Write
<1>4. CASE Go(r, Unclean(run[r]), bad) /\ svc' = svc
  BY <1>1, <1>4, Kinship, Reading DEF Write
<1> QED  BY <1>1, <1>2, <1>3, <1>4 DEF Write

\* A creation, which is a read when the service has the things already.
LEMMA Made ==
  ASSUME NEW r, NEW h, OnTurn(r, h), NEW things \in SUBSET Things,
         NEW ok \in HookSteps \cup Statuses, NEW exists \in HookSteps \cup Statuses,
         NEW bad \in HookSteps \cup Statuses, Create(r, things, ok, exists, bad),
         Allowed(h, things),
         Calm(r, h) /\ things \subseteq svc[h] => Proceeds(h, exists, run[r].got, svc[h]),
         Calm(r, h) /\ ~(things \subseteq svc[h]) => Proceeds(h, ok, run[r].got, svc[h] \cup things)
  PROVE  Advance(r, h)
<1>1. Current(r) = h
  BY DEF OnTurn
<1>2. CASE things \subseteq svc[h]
  <2>1. Ask(r, TRUE, exists, exists, bad)
    BY <1>1, <1>2 DEF Create
  <2> QED  BY <1>2, <2>1, Asked
<1>3. CASE ~(things \subseteq svc[h])
  <2>1. Write(r, things, ok, bad)
    BY <1>1, <1>3 DEF Create
  <2> QED  BY <1>3, <2>1, Wrote
<1> QED  BY <1>2, <1>3

\* A look at whether the service has a thing.
LEMMA Looked ==
  ASSUME NEW r, NEW h, OnTurn(r, h), NEW t,
         NEW yes \in HookSteps \cup Statuses, NEW no \in HookSteps \cup Statuses,
         NEW lost \in HookSteps \cup Statuses, Ask(r, In(r, t), yes, no, lost),
         Calm(r, h) /\ t \in svc[h] => Proceeds(h, yes, run[r].got, svc[h]),
         Calm(r, h) /\ t \notin svc[h] => Proceeds(h, no, run[r].got, svc[h])
  PROVE  Advance(r, h)
<1>1. In(r, t) \in BOOLEAN /\ (In(r, t) <=> t \in svc[h])
  BY DEF OnTurn, In, Has
<1> QED  BY <1>1, Asked

\* What a run that is calm knows at a step of its hook.
LEMMA Owed ==
  ASSUME NEW r, NEW h, OnTurn(r, h), NEW s \in HookSteps, At(r, h, s)
  PROVE  Calm(r, h) => Due(h, s, run[r].got, svc[h])
<1>1. "ready" \notin HookSteps
  BY DEF HookSteps
<1> QED  BY <1>1 DEF OnTurn, At

\* What is known at the steps of this hook, and what they ask for.
LEMMA PortainerTable ==
  \A got, S :
     /\ Proceeds("portainer", "init", got, S)
     /\ "admin" \in S => \A s \in {"configured", "already-configured"} : Proceeds("portainer", s, got, S)
BY Promises DEF Proceeds, Ends, Due, Sound, HookSteps, Statuses

\* Portainer: a check, then the creation.
LEMMA PortainerAdvances ==
  ASSUME NEW r, OnTurn(r, "portainer"), Portainer(r)
  PROVE  Advance(r, "portainer")
<1>1. /\ {"first", "init"} \subseteq HookSteps
      /\ {"already-configured", "configured", "failed"} \subseteq Statuses
  BY DEF HookSteps, Statuses
<1>2. CASE At(r, "portainer", "first")
  <2>1. Ask(r, In(r, "admin"), "already-configured", "init", "init")
    BY <1>2 DEF Portainer, At
  <2> QED  BY <1>1, <2>1, Looked, PortainerTable
<1>3. CASE At(r, "portainer", "init")
  <2>1. Create(r, {"admin"}, "configured", "already-configured", "failed")
    BY <1>3 DEF Portainer, At
  <2>2. {"admin"} \in SUBSET Things /\ Allowed("portainer", {"admin"})
    BY DEF Things, Allowed
  <2> QED  BY <1>1, <2>1, <2>2, Made, PortainerTable
<1> QED  BY <1>2, <1>3 DEF Portainer

\* What is known at the steps of this hook, and what they ask for.
LEMMA N8nTable ==
  \A got, S :
     /\ Proceeds("n8n", "owner", got, S)
     /\ "admin" \in S => \A s \in {"configured", "failed"} : Proceeds("n8n", s, got, S)
BY Promises DEF Proceeds, Ends, Due, Sound, HookSteps, Statuses

\* n8n refuses to be set up twice, and is set up then.
LEMMA N8nAdvances ==
  ASSUME NEW r, OnTurn(r, "n8n"), N8n(r)
  PROVE  Advance(r, "n8n")
<1>1. /\ {"first", "owner"} \subseteq HookSteps
      /\ {"configured", "failed"} \subseteq Statuses
  BY DEF HookSteps, Statuses
<1>2. CASE At(r, "n8n", "first")
  <2>1. Ask(r, In(r, "admin"), "owner", "owner", "owner")
    BY <1>2 DEF N8n, At
  <2> QED  BY <1>1, <2>1, Looked, N8nTable
<1>3. CASE At(r, "n8n", "owner")
  <2>1. Create(r, {"admin"}, "configured", "failed", "failed")
    BY <1>3 DEF N8n, At
  <2>2. {"admin"} \in SUBSET Things /\ Allowed("n8n", {"admin"})
    BY DEF Things, Allowed
  <2> QED  BY <1>1, <2>1, <2>2, Made, N8nTable
<1> QED  BY <1>2, <1>3 DEF N8n

\* What is known at the steps of this hook, and what they ask for.
LEMMA MetabaseTable ==
  \A got, S :
     /\ Due("metabase", "post", got, S) => "admin" \notin S
     /\ "admin" \notin S => Proceeds("metabase", "post", got, S)
     /\ "admin" \in S => \A s \in {"configured", "already-configured"} : Proceeds("metabase", s, got, S)
BY Promises DEF Proceeds, Ends, Due, Sound, HookSteps, Statuses

\* Metabase: its creation finds no administrator.
LEMMA MetabaseAdvances ==
  ASSUME NEW r, OnTurn(r, "metabase"), Metabase(r)
  PROVE  Advance(r, "metabase")
<1>1. /\ {"first", "post"} \subseteq HookSteps
      /\ {"already-configured", "configured", "failed"} \subseteq Statuses
  BY DEF HookSteps, Statuses
<1>2. CASE At(r, "metabase", "first")
  <2>1. Ask(r, In(r, "admin"), "already-configured", "post", "already-configured")
    BY <1>2 DEF Metabase, At
  <2> QED  BY <1>1, <2>1, Looked, MetabaseTable
<1>3. CASE At(r, "metabase", "post")
  <2>1. Calm(r, "metabase") => "admin" \notin svc["metabase"]
    BY <1>1, <1>3, Owed, MetabaseTable
  <2>2. Create(r, {"admin"}, "configured", "failed", "failed")
    BY <1>3 DEF Metabase, At
  <2>3. {"admin"} \in SUBSET Things /\ Allowed("metabase", {"admin"})
    BY DEF Things, Allowed
  <2> QED  BY <1>1, <2>1, <2>2, <2>3, Made, MetabaseTable
<1> QED  BY <1>2, <1>3 DEF Metabase

\* What is known at the steps of this hook, and what they ask for.
LEMMA LakeFSTable ==
  \A got, S :
     /\ Due("lakefs", "repo", got, S) => "setup" \in S
     /\ Due("lakefs", "repo-done", got, S) => "setup" \in S
     /\ Proceeds("lakefs", "setup", got, S)
     /\ "setup" \in S => \A s \in {"repo", "repo-done"} : Proceeds("lakefs", s, got, S)
     /\ "setup" \in S /\ "repo" \in S => \A s \in {"configured", "already-configured"} : Proceeds("lakefs", s, got, S)
BY Promises DEF Proceeds, Ends, Due, Sound, HookSteps, Statuses

\* LakeFS: the user, then the repository.
LEMMA LakeFSAdvances ==
  ASSUME NEW r, OnTurn(r, "lakefs"), LakeFS(r)
  PROVE  Advance(r, "lakefs")
<1>1. /\ {"first", "repo-done", "setup", "repo"} \subseteq HookSteps
      /\ {"failed", "configured", "already-configured"} \subseteq Statuses
  BY DEF HookSteps, Statuses
<1>2. CASE At(r, "lakefs", "first")
  <2>1. Ask(r, In(r, "setup"), "repo-done", "setup", "setup")
    BY <1>2 DEF LakeFS, At
  <2> QED  BY <1>1, <2>1, Looked, LakeFSTable
<1>3. CASE At(r, "lakefs", "setup")
  <2>1. Create(r, {"setup"}, "repo", "repo", "failed")
    BY <1>3 DEF LakeFS, At
  <2>2. {"setup"} \in SUBSET Things /\ Allowed("lakefs", {"setup"})
    BY DEF Things, Allowed
  <2> QED  BY <1>1, <2>1, <2>2, Made, LakeFSTable
<1>4. CASE At(r, "lakefs", "repo")
  <2>1. Calm(r, "lakefs") => "setup" \in svc["lakefs"]
    BY <1>1, <1>4, Owed, LakeFSTable
  <2>2. Create(r, {"repo"}, "configured", "configured", "failed")
    BY <1>4 DEF LakeFS, At
  <2>3. {"repo"} \in SUBSET Things /\ Allowed("lakefs", {"repo"})
    BY DEF Things, Allowed
  <2> QED  BY <1>1, <2>1, <2>2, <2>3, Made, LakeFSTable
<1>5. CASE At(r, "lakefs", "repo-done")
  <2>1. Calm(r, "lakefs") => "setup" \in svc["lakefs"]
    BY <1>1, <1>5, Owed, LakeFSTable
  <2>2. Create(r, {"repo"}, "configured", "already-configured", "failed")
    BY <1>5 DEF LakeFS, At
  <2>3. {"repo"} \in SUBSET Things /\ Allowed("lakefs", {"repo"})
    BY DEF Things, Allowed
  <2> QED  BY <1>1, <2>1, <2>2, <2>3, Made, LakeFSTable
<1> QED  BY <1>2, <1>3, <1>4, <1>5 DEF LakeFS

\* What is known at the steps of this hook, and what they ask for.
LEMMA OpenMetadataTable ==
  \A got, S :
     /\ Due("openmetadata", "verify", got, S) => "password" \in S
     /\ Proceeds("openmetadata", "change", got, S)
     /\ "password" \in S => Proceeds("openmetadata", "verify", got, S)
     /\ "password" \in S => \A s \in {"configured", "already-configured"} : Proceeds("openmetadata", s, got, S)
BY Promises DEF Proceeds, Ends, Due, Sound, HookSteps, Statuses

\* OpenMetadata: what it verifies is the new password.
LEMMA OpenMetadataAdvances ==
  ASSUME NEW r, OnTurn(r, "openmetadata"), OpenMetadata(r)
  PROVE  Advance(r, "openmetadata")
<1>1. /\ {"first", "change", "verify"} \subseteq HookSteps
      /\ {"already-configured", "failed", "configured"} \subseteq Statuses
  BY DEF HookSteps, Statuses
<1>2. CASE At(r, "openmetadata", "first")
  <2>1. Ask(r, In(r, "password"), "already-configured", "change", "failed")
    BY <1>2 DEF OpenMetadata, At
  <2> QED  BY <1>1, <2>1, Looked, OpenMetadataTable
<1>3. CASE At(r, "openmetadata", "change")
  <2>1. Create(r, {"password"}, "verify", "verify", "verify")
    BY <1>3 DEF OpenMetadata, At
  <2>2. {"password"} \in SUBSET Things /\ Allowed("openmetadata", {"password"})
    BY DEF Things, Allowed
  <2> QED  BY <1>1, <2>1, <2>2, Made, OpenMetadataTable
<1>4. CASE At(r, "openmetadata", "verify")
  <2>1. Calm(r, "openmetadata") => "password" \in svc["openmetadata"]
    BY <1>1, <1>4, Owed, OpenMetadataTable
  <2>2. Ask(r, In(r, "password"), "configured", "failed", "failed")
    BY <1>4 DEF OpenMetadata, At
  <2> QED  BY <1>1, <2>1, <2>2, Looked, OpenMetadataTable
<1> QED  BY <1>2, <1>3, <1>4 DEF OpenMetadata

\* What is known at the steps of this hook, and what they ask for.
LEMMA SupersetTable ==
  \A got, S :
     /\ Due("superset", "reset", got, S) => "admin" \in S
     /\ "admin" \in S => Proceeds("superset", "reset", got, S)
     /\ "admin" \in S /\ "password" \in S => \A s \in {"configured", "already-configured"} : Proceeds("superset", s, got, S)
BY Promises DEF Proceeds, Ends, Due, Sound, HookSteps, Statuses

\* Superset: the administrator, or its password.
LEMMA SupersetAdvances ==
  ASSUME NEW r, OnTurn(r, "superset"), Superset(r)
  PROVE  Advance(r, "superset")
<1>1. /\ {"first", "reset"} \subseteq HookSteps
      /\ {"configured", "failed", "already-configured"} \subseteq Statuses
  BY DEF HookSteps, Statuses
<1>2. CASE At(r, "superset", "first")
  <2>1. CASE "admin" \in svc["superset"]
    <3>1. Ask(r, TRUE, "reset", "reset", "reset")
      BY <1>2, <2>1 DEF Superset, At, In, Has, OnTurn
    <3> QED  BY <1>1, <2>1, <3>1, Asked, SupersetTable
  <2>2. CASE "admin" \notin svc["superset"]
    <3>1. Write(r, {"admin", "password"}, "configured", "reset")
      BY <1>2, <2>2 DEF Superset, At, In, Has, OnTurn
    <3>2. {"admin", "password"} \in SUBSET Things /\ Allowed("superset", {"admin", "password"})
      BY DEF Things, Allowed
    <3> QED  BY <1>1, <2>2, <3>1, <3>2, Wrote, SupersetTable
  <2> QED  BY <2>1, <2>2
<1>3. CASE At(r, "superset", "reset")
  <2>1. Calm(r, "superset") => "admin" \in svc["superset"]
    BY <1>1, <1>3, Owed, SupersetTable
  <2>2. CASE "admin" \in svc["superset"]
    <3>1. PICK bad \in {"failed", "already-configured"} :
            Write(r, {"password"}, "already-configured", bad)
      BY <1>3, <2>2 DEF Superset, At, In, Has, OnTurn
    <3>2. {"password"} \in SUBSET Things /\ Allowed("superset", {"password"})
      BY DEF Things, Allowed
    <3> QED  BY <1>1, <2>1, <2>2, <3>1, <3>2, Wrote, SupersetTable
  <2>3. CASE "admin" \notin svc["superset"]
    <3>1. PICK bad \in {"failed", "already-configured"} : Ask(r, FALSE, bad, bad, bad)
      BY <1>3, <2>3 DEF Superset, At, In, Has, OnTurn
    <3> QED  BY <1>1, <2>1, <2>3, <3>1, Asked, SupersetTable
  <2> QED  BY <2>2, <2>3
<1> QED  BY <1>2, <1>3 DEF Superset

\* What is known at the steps of this hook, and what they ask for.
LEMMA HedgeDocTable ==
  \A got, S :
     /\ Due("hedgedoc", "reset", got, S) => "admin" \in S
     /\ "admin" \in S => Proceeds("hedgedoc", "reset", got, S)
     /\ "admin" \in S /\ "password" \in S => \A s \in {"configured", "already-configured"} : Proceeds("hedgedoc", s, got, S)
BY Promises DEF Proceeds, Ends, Due, Sound, HookSteps, Statuses

\* HedgeDoc: the administrator, or its password.
LEMMA HedgeDocAdvances ==
  ASSUME NEW r, OnTurn(r, "hedgedoc"), HedgeDoc(r)
  PROVE  Advance(r, "hedgedoc")
<1>1. /\ {"first", "reset"} \subseteq HookSteps
      /\ {"failed", "configured", "already-configured"} \subseteq Statuses
  BY DEF HookSteps, Statuses
<1>2. CASE At(r, "hedgedoc", "first")
  <2>1. CASE "admin" \in svc["hedgedoc"]
    <3>1. Ask(r, TRUE, "reset", "reset", "failed")
      BY <1>2, <2>1 DEF HedgeDoc, At, In, Has, OnTurn
    <3> QED  BY <1>1, <2>1, <3>1, Asked, HedgeDocTable
  <2>2. CASE "admin" \notin svc["hedgedoc"]
    <3>1. Write(r, {"admin", "password"}, "configured", "failed")
      BY <1>2, <2>2 DEF HedgeDoc, At, In, Has, OnTurn
    <3>2. {"admin", "password"} \in SUBSET Things /\ Allowed("hedgedoc", {"admin", "password"})
      BY DEF Things, Allowed
    <3> QED  BY <1>1, <2>2, <3>1, <3>2, Wrote, HedgeDocTable
  <2> QED  BY <2>1, <2>2
<1>3. CASE At(r, "hedgedoc", "reset")
  <2>1. Calm(r, "hedgedoc") => "admin" \in svc["hedgedoc"]
    BY <1>1, <1>3, Owed, HedgeDocTable
  <2>2. PICK bad \in {"failed", "already-configured"} :
          Write(r, {"password"}, "already-configured", bad)
    BY <1>3 DEF HedgeDoc, At
  <2>3. {"password"} \in SUBSET Things /\ Allowed("hedgedoc", {"password"})
    BY DEF Things, Allowed
  <2> QED  BY <1>1, <2>1, <2>2, <2>3, Wrote, HedgeDocTable
<1> QED  BY <1>2, <1>3 DEF HedgeDoc

\* What is known at the steps of this hook, and what they ask for.
LEMMA HueTable ==
  \A got, S :
     /\ "admin" \in S /\ "password" \in S => \A s \in {"configured", "already-configured"} : Proceeds("hue", s, got, S)
BY Promises DEF Proceeds, Ends, Due, Sound, HookSteps, Statuses

\* Hue: both in one command.
LEMMA HueAdvances ==
  ASSUME NEW r, OnTurn(r, "hue"), Hue(r)
  PROVE  Advance(r, "hue")
<1>1. /\ {"first"} \subseteq HookSteps
      /\ {"configured", "already-configured", "failed"} \subseteq Statuses
  BY DEF HookSteps, Statuses
<1>2. CASE At(r, "hue", "first")
  <2>1. PICK s \in {"configured", "already-configured"} : Write(r, {"admin", "password"}, s, "failed")
    BY <1>2 DEF Hue, At
  <2>2. {"admin", "password"} \in SUBSET Things /\ Allowed("hue", {"admin", "password"})
    BY DEF Things, Allowed
  <2> QED  BY <1>1, <2>1, <2>2, Wrote, HueTable
<1> QED  BY <1>2 DEF Hue

\* What is known at the steps of this hook, and what they ask for.
LEMMA WikijsTable ==
  \A got, S :
     /\ "admin" \in S => \A s \in {"configured", "already-configured"} : Proceeds("wikijs", s, got, S)
BY Promises DEF Proceeds, Ends, Due, Sound, HookSteps, Statuses

\* Wiki.js: the creation alone.
LEMMA WikijsAdvances ==
  ASSUME NEW r, OnTurn(r, "wikijs"), Wikijs(r)
  PROVE  Advance(r, "wikijs")
<1>1. /\ {"first"} \subseteq HookSteps
      /\ {"configured", "already-configured", "failed"} \subseteq Statuses
  BY DEF HookSteps, Statuses
<1>2. CASE At(r, "wikijs", "first")
  <2>1. Create(r, {"admin"}, "configured", "already-configured", "failed")
    BY <1>2 DEF Wikijs, At
  <2>2. {"admin"} \in SUBSET Things /\ Allowed("wikijs", {"admin"})
    BY DEF Things, Allowed
  <2> QED  BY <1>1, <2>1, <2>2, Made, WikijsTable
<1> QED  BY <1>2 DEF Wikijs

\* What is known at the steps of this hook, and what they ask for.
LEMMA DifyTable ==
  \A got, S :
     /\ Due("dify", "init", got, S) => "admin" \notin S
     /\ "admin" \notin S => Proceeds("dify", "init", got, S)
     /\ Proceeds("dify", "setup", got, S)
     /\ "admin" \in S => \A s \in {"configured", "already-configured"} : Proceeds("dify", s, got, S)
BY Promises DEF Proceeds, Ends, Due, Sound, HookSteps, Statuses

\* Dify: the initial password is asked for while it is not set up.
LEMMA DifyAdvances ==
  ASSUME NEW r, OnTurn(r, "dify"), Dify(r)
  PROVE  Advance(r, "dify")
<1>1. /\ {"first", "init", "setup"} \subseteq HookSteps
      /\ {"already-configured", "failed", "configured"} \subseteq Statuses
  BY DEF HookSteps, Statuses
<1>2. CASE At(r, "dify", "first")
  <2>1. Ask(r, In(r, "admin"), "already-configured", "init", "init")
    BY <1>2 DEF Dify, At
  <2> QED  BY <1>1, <2>1, Looked, DifyTable
<1>3. CASE At(r, "dify", "init")
  <2>1. Calm(r, "dify") => "admin" \notin svc["dify"]
    BY <1>1, <1>3, Owed, DifyTable
  <2>2. Ask(r, ~In(r, "admin"), "setup", "failed", "failed")
    BY <1>3 DEF Dify, At
  <2>3. (~In(r, "admin")) \in BOOLEAN /\ (In(r, "admin") <=> "admin" \in svc["dify"])
    BY DEF In, Has, OnTurn
  <2> QED  BY <1>1, <2>1, <2>2, <2>3, Asked, DifyTable
<1>4. CASE At(r, "dify", "setup")
  <2>1. Create(r, {"admin"}, "configured", "already-configured", "failed")
    BY <1>4 DEF Dify, At
  <2>2. {"admin"} \in SUBSET Things /\ Allowed("dify", {"admin"})
    BY DEF Things, Allowed
  <2> QED  BY <1>1, <2>1, <2>2, Made, DifyTable
<1> QED  BY <1>2, <1>3, <1>4 DEF Dify

\* What is known at the steps of this hook, and what they ask for.
LEMMA PgDucklakeTable ==
  \A got, S :
     /\ "schema" \in S => \A s \in {"configured", "already-configured"} : Proceeds("pg-ducklake", s, got, S)
BY Promises DEF Proceeds, Ends, Due, Sound, Promised, HookSteps, Statuses

\* pg-ducklake: the schema on every run.
LEMMA PgDucklakeAdvances ==
  ASSUME NEW r, OnTurn(r, "pg-ducklake"), PgDucklake(r)
  PROVE  Advance(r, "pg-ducklake")
<1>1. /\ {"first"} \subseteq HookSteps
      /\ {"configured", "failed"} \subseteq Statuses
  BY DEF HookSteps, Statuses
<1>2. CASE At(r, "pg-ducklake", "first")
  <2>1. PICK bad \in {"configured", "failed"} : Write(r, {"schema"}, "configured", bad)
    BY <1>2 DEF PgDucklake, At
  <2>2. {"schema"} \in SUBSET Things /\ Allowed("pg-ducklake", {"schema"})
    BY DEF Things, Allowed
  <2> QED  BY <1>1, <2>1, <2>2, Wrote, PgDucklakeTable
<1> QED  BY <1>2 DEF PgDucklake

\* What is known at the steps of this hook, and what they ask for.
LEMMA UnityCatalogTable ==
  \A got, S :
     /\ Due("unity-catalog", "look", got, S) => "catalog" \in S
     /\ Proceeds("unity-catalog", "create", got, S)
     /\ "catalog" \in S => Proceeds("unity-catalog", "look", got, S)
     /\ "catalog" \in S => \A s \in {"configured", "already-configured"} : Proceeds("unity-catalog", s, got, S)
BY Promises DEF Proceeds, Ends, Due, Sound, HookSteps, Statuses

\* Unity Catalog: what is refused is there.
LEMMA UnityCatalogAdvances ==
  ASSUME NEW r, OnTurn(r, "unity-catalog"), UnityCatalog(r)
  PROVE  Advance(r, "unity-catalog")
<1>1. /\ {"first", "create", "look"} \subseteq HookSteps
      /\ {"already-configured", "configured", "failed"} \subseteq Statuses
  BY DEF HookSteps, Statuses
<1>2. CASE At(r, "unity-catalog", "first")
  <2>1. Ask(r, In(r, "catalog"), "already-configured", "create", "create")
    BY <1>2 DEF UnityCatalog, At
  <2> QED  BY <1>1, <2>1, Looked, UnityCatalogTable
<1>3. CASE At(r, "unity-catalog", "create")
  <2>1. Create(r, {"catalog"}, "configured", "look", "look")
    BY <1>3 DEF UnityCatalog, At
  <2>2. {"catalog"} \in SUBSET Things /\ Allowed("unity-catalog", {"catalog"})
    BY DEF Things, Allowed
  <2> QED  BY <1>1, <2>1, <2>2, Made, UnityCatalogTable
<1>4. CASE At(r, "unity-catalog", "look")
  <2>1. Calm(r, "unity-catalog") => "catalog" \in svc["unity-catalog"]
    BY <1>1, <1>4, Owed, UnityCatalogTable
  <2>2. Ask(r, In(r, "catalog"), "already-configured", "failed", "failed")
    BY <1>4 DEF UnityCatalog, At
  <2> QED  BY <1>1, <2>1, <2>2, Looked, UnityCatalogTable
<1> QED  BY <1>2, <1>3, <1>4 DEF UnityCatalog

\* What is known at the steps of this hook, and what they ask for.
LEMMA RedPandaTable ==
  \A got, S :
     /\ Due("redpanda", "first", got, S) => ("user" \in S => "restarted" \in S)
     /\ Due("redpanda", "create", got, S) => "user" \notin S
     /\ Due("redpanda", "create-old", got, S) => "user" \in S /\ "restarted" \in S
     /\ Due("redpanda", "update", got, S) => "user" \in S /\ "restarted" \in S
     /\ Due("redpanda", "super", got, S) => "user" \in S /\ "password" \in S
     /\ Due("redpanda", "super-old", got, S) => {"user", "password", "restarted"} \subseteq S
     /\ Due("redpanda", "restart", got, S) => {"user", "password", "superuser"} \subseteq S
     /\ Due("redpanda", "verify", got, S) => {"user", "password", "superuser", "restarted"} \subseteq S
     /\ "user" \notin S => Proceeds("redpanda", "create", got, S)
     /\ "user" \in S /\ "restarted" \in S => \A s \in {"create-old", "update"} : Proceeds("redpanda", s, got, S)
     /\ "user" \in S /\ "password" \in S => Proceeds("redpanda", "super", got, S)
     /\ {"user", "password", "restarted"} \subseteq S => Proceeds("redpanda", "super-old", got, S)
     /\ {"user", "password", "superuser"} \subseteq S => Proceeds("redpanda", "restart", got, S)
     /\ {"user", "password", "superuser", "restarted"} \subseteq S => \A s \in {"verify", "configured", "already-configured"} : Proceeds("redpanda", s, got, S)
BY Promises DEF Proceeds, Ends, Due, Sound, Promised, HookSteps, Statuses

\* RedPanda: a user that is there has been restarted for, or the service is stuck.
LEMMA RedPandaAdvances ==
  ASSUME NEW r, OnTurn(r, "redpanda"), RedPanda(r)
  PROVE  Advance(r, "redpanda")
<1>1. /\ {"first", "create-old", "create", "update", "super", "super-old", "restart", "verify"} \subseteq HookSteps
      /\ {"failed", "configured"} \subseteq Statuses
  BY DEF HookSteps, Statuses
<1>2. CASE At(r, "redpanda", "first")
  <2>1. Calm(r, "redpanda") => ("user" \in svc["redpanda"] => "restarted" \in svc["redpanda"])
    BY <1>1, <1>2, Owed, RedPandaTable
  <2>2. Ask(r, In(r, "user"), "create-old", "create", "create")
    BY <1>2 DEF RedPanda, At
  <2> QED  BY <1>1, <2>1, <2>2, Looked, RedPandaTable
<1>3. CASE At(r, "redpanda", "create")
  <2>1. Calm(r, "redpanda") => "user" \notin svc["redpanda"]
    BY <1>1, <1>3, Owed, RedPandaTable
  <2>2. CASE "user" \in svc["redpanda"]
    <3>1. Ask(r, TRUE, "update", "update", "failed")
      BY <1>3, <2>2 DEF RedPanda, At, In, Has, OnTurn
    <3> QED  BY <1>1, <2>1, <2>2, <3>1, Asked, RedPandaTable
  <2>3. CASE "user" \notin svc["redpanda"]
    <3>1. Write(r, {"user", "password"}, "super", "failed")
      BY <1>3, <2>3 DEF RedPanda, At, In, Has, OnTurn
    <3>2. {"user", "password"} \in SUBSET Things /\ Allowed("redpanda", {"user", "password"})
      BY DEF Things, Allowed
    <3> QED  BY <1>1, <2>1, <2>3, <3>1, <3>2, Wrote, RedPandaTable
  <2> QED  BY <2>2, <2>3
<1>4. CASE At(r, "redpanda", "create-old")
  <2>1. Calm(r, "redpanda") => "user" \in svc["redpanda"] /\ "restarted" \in svc["redpanda"]
    BY <1>1, <1>4, Owed, RedPandaTable
  <2>2. CASE "user" \in svc["redpanda"]
    <3>1. Ask(r, TRUE, "update", "update", "failed")
      BY <1>4, <2>2 DEF RedPanda, At, In, Has, OnTurn
    <3> QED  BY <1>1, <2>1, <2>2, <3>1, Asked, RedPandaTable
  <2>3. CASE "user" \notin svc["redpanda"]
    <3>1. Write(r, {"user", "password"}, "super-old", "failed")
      BY <1>4, <2>3 DEF RedPanda, At, In, Has, OnTurn
    <3>2. {"user", "password"} \in SUBSET Things /\ Allowed("redpanda", {"user", "password"})
      BY DEF Things, Allowed
    <3> QED  BY <1>1, <2>1, <2>3, <3>1, <3>2, Wrote, RedPandaTable
  <2> QED  BY <2>2, <2>3
<1>5. CASE At(r, "redpanda", "update")
  <2>1. Calm(r, "redpanda") => "user" \in svc["redpanda"] /\ "restarted" \in svc["redpanda"]
    BY <1>1, <1>5, Owed, RedPandaTable
  <2>2. Write(r, {"password"}, "super-old", "failed")
    BY <1>5 DEF RedPanda, At
  <2>3. {"password"} \in SUBSET Things /\ Allowed("redpanda", {"password"})
    BY DEF Things, Allowed
  <2> QED  BY <1>1, <2>1, <2>2, <2>3, Wrote, RedPandaTable
<1>6. CASE At(r, "redpanda", "super")
  <2>1. Calm(r, "redpanda") => "user" \in svc["redpanda"] /\ "password" \in svc["redpanda"]
    BY <1>1, <1>6, Owed, RedPandaTable
  <2>2. PICK bad \in {"failed", "restart"} : Write(r, {"superuser"}, "restart", bad)
    BY <1>6 DEF RedPanda, At
  <2>3. {"superuser"} \in SUBSET Things /\ Allowed("redpanda", {"superuser"})
    BY DEF Things, Allowed
  <2> QED  BY <1>1, <2>1, <2>2, <2>3, Wrote, RedPandaTable
<1>7. CASE At(r, "redpanda", "super-old")
  <2>1. Calm(r, "redpanda") => {"user", "password", "restarted"} \subseteq svc["redpanda"]
    BY <1>1, <1>7, Owed, RedPandaTable
  <2>2. PICK bad \in {"failed", "verify"} : Write(r, {"superuser"}, "verify", bad)
    BY <1>7 DEF RedPanda, At
  <2>3. {"superuser"} \in SUBSET Things /\ Allowed("redpanda", {"superuser"})
    BY DEF Things, Allowed
  <2> QED  BY <1>1, <2>1, <2>2, <2>3, Wrote, RedPandaTable
<1>8. CASE At(r, "redpanda", "restart")
  <2>1. Calm(r, "redpanda") => {"user", "password", "superuser"} \subseteq svc["redpanda"]
    BY <1>1, <1>8, Owed, RedPandaTable
  <2>2. Write(r, {"restarted"}, "verify", "failed")
    BY <1>8 DEF RedPanda, At
  <2>3. {"restarted"} \in SUBSET Things /\ Allowed("redpanda", {"restarted"})
    BY DEF Things, Allowed
  <2> QED  BY <1>1, <2>1, <2>2, <2>3, Wrote, RedPandaTable
<1>9. CASE At(r, "redpanda", "verify")
  <2>1. Calm(r, "redpanda") => {"user", "password", "superuser", "restarted"} \subseteq svc["redpanda"]
    BY <1>1, <1>9, Owed, RedPandaTable
  <2>2. Ask(r, In(r, "user"), "configured", "failed", "failed")
    BY <1>9 DEF RedPanda, At
  <2> QED  BY <1>1, <2>1, <2>2, Looked, RedPandaTable
<1> QED  BY <1>2, <1>3, <1>4, <1>5, <1>6, <1>7, <1>8, <1>9 DEF RedPanda

\* What is known at the steps of this hook, and what they ask for.
LEMMA GarageTable ==
  \A got, S :
     /\ Due("garage", "first", got, S) => ("layout" \in S => "key" \in S)
     /\ Due("garage", "assign", got, S) => "layout" \notin S
     /\ Due("garage", "apply", got, S) => "layout" \notin S
     /\ Due("garage", "key", got, S) => "layout" \in S
     /\ "layout" \notin S => \A s \in {"assign", "apply"} : Proceeds("garage", s, got, S)
     /\ "layout" \in S => Proceeds("garage", "key", got, S)
     /\ "layout" \in S /\ "key" \in S => \A s \in {"configured", "already-configured"} : Proceeds("garage", s, got, S)
BY Promises DEF Proceeds, Ends, Due, Sound, Promised, HookSteps, Statuses

\* Garage: a layout that is there has its key, or the service is stuck.
LEMMA GarageAdvances ==
  ASSUME NEW r, OnTurn(r, "garage"), Garage(r)
  PROVE  Advance(r, "garage")
<1>1. /\ {"first", "assign", "apply", "key"} \subseteq HookSteps
      /\ {"already-configured", "failed", "configured"} \subseteq Statuses
  BY DEF HookSteps, Statuses
<1>2. CASE At(r, "garage", "first")
  <2>1. Calm(r, "garage") => ("layout" \in svc["garage"] => "key" \in svc["garage"])
    BY <1>1, <1>2, Owed, GarageTable
  <2>2. Ask(r, In(r, "layout"), "already-configured", "assign", "failed")
    BY <1>2 DEF Garage, At
  <2> QED  BY <1>1, <2>1, <2>2, Looked, GarageTable
<1>3. CASE At(r, "garage", "assign")
  <2>1. Calm(r, "garage") => "layout" \notin svc["garage"]
    BY <1>1, <1>3, Owed, GarageTable
  <2>2. Ask(r, TRUE, "apply", "apply", "failed")
    BY <1>3 DEF Garage, At
  <2> QED  BY <1>1, <2>1, <2>2, Asked, GarageTable
<1>4. CASE At(r, "garage", "apply")
  <2>1. Calm(r, "garage") => "layout" \notin svc["garage"]
    BY <1>1, <1>4, Owed, GarageTable
  <2>2. Create(r, {"layout"}, "key", "failed", "failed")
    BY <1>4 DEF Garage, At
  <2>3. {"layout"} \in SUBSET Things /\ Allowed("garage", {"layout"})
    BY DEF Things, Allowed
  <2> QED  BY <1>1, <2>1, <2>2, <2>3, Made, GarageTable
<1>5. CASE At(r, "garage", "key")
  <2>1. Calm(r, "garage") => "layout" \in svc["garage"]
    BY <1>1, <1>5, Owed, GarageTable
  <2>2. Write(r, {"key"}, "configured", "failed")
    BY <1>5 DEF Garage, At
  <2>3. {"key"} \in SUBSET Things /\ Allowed("garage", {"key"})
    BY DEF Things, Allowed
  <2>4. Calm(r, "garage") => Proceeds("garage", "configured", run[r].got, svc["garage"] \cup {"key"})
    <3> DEFINE S == svc["garage"] \cup {"key"}
    <3>1. Calm(r, "garage") => "layout" \in S /\ "key" \in S
      BY <2>1
    <3> HIDE DEF S
    <3>2. Calm(r, "garage") => Proceeds("garage", "configured", run[r].got, S)
      BY <3>1, GarageTable
    <3> QED  BY <3>2 DEF S
  <2> QED  BY <1>1, <2>2, <2>3, <2>4, Wrote
<1> QED  BY <1>2, <1>3, <1>4, <1>5 DEF Garage

\* A hook is waited for, and skipped without its credentials.
LEMMA WaitReadyAdvances ==
  ASSUME NEW r, NEW h, OnTurn(r, h), WaitReady(r)
  PROVE  Advance(r, h)
<1>1. "first" \in HookSteps /\ "skipped-not-ready" \in Statuses
      /\ "first" \notin Statuses
  BY DEF HookSteps, Statuses
<1>2. Skips(h) \in BOOLEAN /\ run[r].step = "ready"
  BY DEF Skips, WaitReady, OnTurn, TypeOK
<1>3. Ask(r, Skips(h), "skipped-not-ready", "first", "skipped-not-ready")
  BY DEF WaitReady, OnTurn
<1>4. Calm(r, h) => Sound(h, svc[h])
  BY <1>2 DEF OnTurn
<1>5. \A got, S : Sound(h, S) => Proceeds(h, "first", got, S)
  BY <1>1 DEF Proceeds, Due
<1>6. Calm(r, h) /\ ~Skips(h) => Proceeds(h, "first", run[r].got, svc[h])
  BY <1>4, <1>5
<1>7. ~(Calm(r, h) /\ Skips(h))
  BY DEF Calm
<1> QED  BY <1>1, <1>2, <1>3, <1>6, <1>7, Asked

\* What is known at the steps of this hook, and what they ask for.
LEMMA LakekeeperTable ==
  \A got, S :
     /\ Due("lakekeeper", "list", got, S) => "bootstrapped" \in S
     /\ Due("lakekeeper", "fix", got, S) => "bootstrapped" \in S /\ "warehouse" \in S
     /\ Due("lakekeeper", "warehouse", got, S) => "bootstrapped" \in S /\ "warehouse" \notin S
     /\ ~Due("lakekeeper", "look", got, S)
     /\ Proceeds("lakekeeper", "boot", got, S)
     /\ "bootstrapped" \in S => Proceeds("lakekeeper", "list", got, S)
     /\ "bootstrapped" \in S /\ "warehouse" \in S => Proceeds("lakekeeper", "fix", got, S)
     /\ "bootstrapped" \in S /\ "warehouse" \notin S => Proceeds("lakekeeper", "warehouse", got, S)
     /\ {"bootstrapped", "warehouse", "signing"} \subseteq S =>
          \A s \in {"configured", "already-configured"} : Proceeds("lakekeeper", s, got, S)
BY DEF Proceeds, Ends, Due, Sound, Promised, HookSteps, Statuses

\* Lakekeeper: a profile that is there is the one of a warehouse.
LEMMA LakekeeperAdvances ==
  ASSUME NEW r, OnTurn(r, "lakekeeper"), Lakekeeper(r)
  PROVE  Advance(r, "lakekeeper")
<1> DEFINE S == svc["lakekeeper"]
<1>1. /\ {"first", "boot", "list", "fix", "warehouse", "look"} \subseteq HookSteps
      /\ {"configured", "already-configured", "failed"} \subseteq Statuses
  BY DEF HookSteps, Statuses
<1>2. CASE At(r, "lakekeeper", "first")
  <2>1. Ask(r, In(r, "bootstrapped"), "list", "boot", "boot")
    BY <1>2 DEF Lakekeeper, At
  <2> QED  BY <1>1, <2>1, Looked, LakekeeperTable
<1>3. CASE At(r, "lakekeeper", "boot")
  <2>1. Create(r, {"bootstrapped"}, "list", "list", "list")
    BY <1>3 DEF Lakekeeper, At
  <2>2. {"bootstrapped"} \in SUBSET Things /\ Allowed("lakekeeper", {"bootstrapped"})
    BY DEF Things, Allowed
  <2> QED  BY <1>1, <2>1, <2>2, Made, LakekeeperTable
<1>4. CASE At(r, "lakekeeper", "list")
  <2> DEFINE no == IF In(r, "warehouse") THEN "fix" ELSE "warehouse"
  <2>1. Calm(r, "lakekeeper") => "bootstrapped" \in S
    BY <1>1, <1>4, Owed, LakekeeperTable
  <2>2. Ask(r, In(r, "signing"), "already-configured", no, "warehouse")
    BY <1>4 DEF Lakekeeper, At
  <2>3. In(r, "warehouse") <=> "warehouse" \in S
    BY DEF In, Has, OnTurn
  <2>4. "signing" \in S => "warehouse" \in S
    BY DEF OnTurn, Grounded
  <2>5. Calm(r, "lakekeeper") => Proceeds("lakekeeper", no, run[r].got, S)
    BY <2>1, <2>3, LakekeeperTable
  <2>6. no \in HookSteps
    BY <1>1
  <2>7. Calm(r, "lakekeeper") /\ "signing" \in S
          => Proceeds("lakekeeper", "already-configured", run[r].got, S)
    BY <2>1, <2>4, LakekeeperTable
  <2> HIDE DEF no
  <2> QED  BY <1>1, <2>2, <2>5, <2>6, <2>7, Looked
<1>5. CASE At(r, "lakekeeper", "fix")
  <2>1. Calm(r, "lakekeeper") => "bootstrapped" \in S /\ "warehouse" \in S
    BY <1>1, <1>5, Owed, LakekeeperTable
  <2>2. Write(r, {"signing"}, "configured", "failed")
    BY <1>5 DEF Lakekeeper, At
  <2>3. {"signing"} \in SUBSET Things /\ Allowed("lakekeeper", {"signing"})
    BY <1>5 DEF Things, Allowed, OnTurn, Prepared, Has
  <2> QED  BY <1>1, <2>1, <2>2, <2>3, Wrote, LakekeeperTable
<1>6. CASE At(r, "lakekeeper", "warehouse")
  <2>1. Calm(r, "lakekeeper") => "bootstrapped" \in S /\ "warehouse" \notin S
    BY <1>1, <1>6, Owed, LakekeeperTable
  <2>2. CASE "warehouse" \in S \/ "bootstrapped" \notin S
    <3>1. Ask(r, TRUE, "look", "look", "look")
      BY <1>6, <2>2 DEF Lakekeeper, At, In, Has, OnTurn
    <3> QED  BY <1>1, <2>1, <2>2, <3>1, Asked
  <2>3. CASE "warehouse" \notin S /\ "bootstrapped" \in S
    <3>1. Write(r, {"warehouse", "signing"}, "configured", "look")
      BY <1>6, <2>3 DEF Lakekeeper, At, In, Has, OnTurn
    <3>2. {"warehouse", "signing"} \in SUBSET Things
          /\ Allowed("lakekeeper", {"warehouse", "signing"})
      BY DEF Things, Allowed
    <3> QED  BY <1>1, <2>1, <3>1, <3>2, Wrote, LakekeeperTable
  <2> QED  BY <2>2, <2>3
<1>7. CASE At(r, "lakekeeper", "look")
  <2>1. ~Calm(r, "lakekeeper")
    BY <1>1, <1>7, Owed, LakekeeperTable
  <2>2. Ask(r, In(r, "warehouse"), "already-configured", "failed", "failed")
    BY <1>7 DEF Lakekeeper, At
  <2> QED  BY <1>1, <2>1, <2>2, Looked
<1> QED  BY <1>2, <1>3, <1>4, <1>5, <1>6, <1>7 DEF Lakekeeper

\* What is known at the steps of this hook, and what they ask for.
LEMMA WindmillTable ==
  \A got, S :
     /\ Due("windmill", "user", got, S) => "admin" \in S
     /\ Due("windmill", "workspace", got, S) => "admin" \in S /\ "user" \in S
     /\ Due("windmill", "rotate", got, S) =>
          {"admin", "user", "workspace"} \subseteq S /\ got \in Good
     /\ "admin" \in S => Proceeds("windmill", "user", got, S)
     /\ "admin" \in S /\ "user" \in S => Proceeds("windmill", "workspace", got, S)
     /\ {"admin", "user", "workspace"} \subseteq S /\ got \in Good =>
          Proceeds("windmill", "rotate", got, S)
     /\ {"admin", "user", "workspace", "rotated"} \subseteq S =>
          \A s \in Good : Proceeds("windmill", s, got, S)
BY DEF Proceeds, Ends, Due, Sound, Promised, HookSteps, Statuses, Good

\* What a run notes besides keeps its record its own.
LEMMA NotedKin ==
  ASSUME TypeOK, NEW r \in Runners, NEW got \in Notes
  PROVE  /\ Note(r, got) \in RunRecords /\ Kin(Note(r, got), r) /\ Note(r, got).got = got
         /\ Unclean(Note(r, got)) \in RunRecords /\ Kin(Unclean(Note(r, got)), r)
         /\ ~Unclean(Note(r, got)).clean
<1>1. run[r] \in RunRecords
  BY DEF TypeOK
<1>2. Note(r, got) \in RunRecords /\ Same(Note(r, got), r) /\ Note(r, got).got = got
  BY NotedIsTyped
<1>3. Note(r, got).stuck = run[r].stuck /\ Note(r, got).clean = run[r].clean
  BY <1>1 DEF Note, RunRecords
<1>4. /\ Unclean(Note(r, got)) \in RunRecords /\ Same(Unclean(Note(r, got)), r)
      /\ Unclean(Note(r, got)).stuck = run[r].stuck
  BY <1>2, <1>3, UncleanIsTyped DEF Same
<1>5. ~Unclean(Note(r, got)).clean
  BY <1>2 DEF Unclean, RunRecords
<1> QED  BY <1>2, <1>3, <1>4, <1>5 DEF Kin

\* Windmill: the answer it notes is the status of a clean run.
LEMMA WindmillAdvances ==
  ASSUME NEW r, OnTurn(r, "windmill"), Windmill(r)
  PROVE  Advance(r, "windmill")
<1> DEFINE S == svc["windmill"]
<1>1. /\ {"first", "user", "workspace", "rotate"} \subseteq HookSteps
      /\ {"configured", "already-configured", "failed"} \subseteq Statuses
  BY DEF HookSteps, Statuses
<1>2. CASE At(r, "windmill", "first") /\ Write(r, {"admin"}, "user", "user")
  <2>1. {"admin"} \in SUBSET Things /\ Allowed("windmill", {"admin"})
    BY DEF Things, Allowed
  <2> QED  BY <1>1, <1>2, <2>1, Wrote, WindmillTable
<1>3. CASE At(r, "windmill", "user") /\ Write(r, {"user"}, "workspace", "workspace")
  <2>1. {"user"} \in SUBSET Things /\ Allowed("windmill", {"user"})
    BY DEF Things, Allowed
  <2>2. Calm(r, "windmill") => "admin" \in S
    BY <1>1, <1>3, Owed, WindmillTable
  <2> QED  BY <1>1, <1>3, <2>1, <2>2, Wrote, WindmillTable
<1>4. CASE WindmillWorkspace(r)
  <2>1. Calm(r, "windmill") => "admin" \in S /\ "user" \in S
    BY <1>1, <1>4, Owed, WindmillTable DEF WindmillWorkspace
  <2>2. /\ {"workspace"} \in SUBSET Things /\ Allowed("windmill", {"workspace"})
        /\ UNCHANGED <<enabled, realm>>
    BY <1>4 DEF Things, Allowed, WindmillWorkspace
  <2>3. TypeOK /\ r \in Runners
    BY DEF OnTurn
  <2> DEFINE new == S \cup {"workspace"}
  <2>4. \A got \in Good : Calm(r, "windmill") => Proceeds("windmill", "rotate", got, new)
    <3>1. Calm(r, "windmill") => {"admin", "user", "workspace"} \subseteq new
      BY <2>1
    <3> HIDE DEF new
    <3> QED  BY <3>1, WindmillTable
  <2>5. CASE \E got \in Good : /\ svc' = [svc EXCEPT !["windmill"] = @ \cup {"workspace"}]
                               /\ Go(r, Note(r, got), "rotate")
    <3>1. PICK got \in Good : Go(r, Note(r, got), "rotate")
      BY <2>5
    <3>2. got \in Notes
      BY DEF Good, Notes, Statuses
    <3>3. /\ Note(r, got) \in RunRecords /\ Kin(Note(r, got), r) /\ Note(r, got).got = got
      BY <2>3, <3>2, NotedKin
    <3> QED  BY <1>1, <2>2, <2>4, <2>5, <3>1, <3>3, Adding
  <2>6. CASE /\ svc' \in {svc, [svc EXCEPT !["windmill"] = @ \cup {"workspace"}]}
             /\ Go(r, Unclean(Note(r, "failed")), "rotate")
    <3> DEFINE rec == Unclean(Note(r, "failed"))
    <3>1. "failed" \in Notes
      BY DEF Notes, Statuses
    <3>2. rec \in RunRecords /\ Kin(rec, r) /\ ~rec.clean
      BY <2>3, <3>1, NotedKin
    <3> HIDE DEF rec
    <3>3. Go(r, rec, "rotate")
      BY <2>6 DEF rec
    <3>4. CASE svc' = svc
      BY <1>1, <2>2, <3>2, <3>3, <3>4, Reading
    <3>5. CASE svc' = [svc EXCEPT !["windmill"] = @ \cup {"workspace"}]
      BY <1>1, <2>2, <3>2, <3>3, <3>5, Adding
    <3> QED  BY <2>6, <3>4, <3>5
  <2> QED  BY <1>4, <2>5, <2>6 DEF WindmillWorkspace, Good
<1>5. CASE At(r, "windmill", "rotate") /\ Write(r, {"rotated"}, run[r].got, "failed")
  <2>1. {"rotated"} \in SUBSET Things /\ Allowed("windmill", {"rotated"})
    BY DEF Things, Allowed
  <2>2. Calm(r, "windmill") => {"admin", "user", "workspace"} \subseteq S /\ run[r].got \in Good
    BY <1>1, <1>5, Owed, WindmillTable
  <2>3. run[r].got \in Statuses
    BY <1>5 DEF OnTurn, Prepared
  <2> QED  BY <1>1, <1>5, <2>1, <2>2, <2>3, Wrote, WindmillTable
<1> QED  BY <1>2, <1>3, <1>4, <1>5 DEF Windmill

\* What is known at the steps of this hook, and what they ask for.
LEMMA SftpgoTable ==
  \A got, S :
     /\ \A s \in {"first", "folder", "hetzner", "link"} :
           Due("sftpgo", s, got, S) => ("user" \in S => "linked" \in S)
     /\ \A s \in {"hetzner", "link"} : Due("sftpgo", s, got, S) => "folder" \in S
     /\ Due("sftpgo", "link", got, S) => "hetzner" \in S /\ got = "both"
     /\ ("user" \in S => "linked" \in S) =>
           /\ Proceeds("sftpgo", "folder", got, S)
           /\ "folder" \in S => Proceeds("sftpgo", "hetzner", got, S)
           /\ {"folder", "hetzner"} \subseteq S /\ got = "both" => Proceeds("sftpgo", "link", got, S)
     /\ {"folder", "hetzner", "user", "linked"} \subseteq S =>
           \A s \in Good : Proceeds("sftpgo", s, got, S)
BY DEF Proceeds, Ends, Due, Sound, Promised, HookSteps, Statuses, Good

\* SFTPGo: a user that is there has its link, or the service is stuck.
LEMMA SftpgoAdvances ==
  ASSUME NEW r, OnTurn(r, "sftpgo"), Sftpgo(r)
  PROVE  Advance(r, "sftpgo")
<1> DEFINE S == svc["sftpgo"]
<1>1. /\ {"first", "folder", "hetzner", "link"} \subseteq HookSteps
      /\ {"configured", "already-configured", "failed"} \subseteq Statuses
      /\ Good = {"configured", "already-configured"}
  BY DEF HookSteps, Statuses, Good
<1>2. CASE At(r, "sftpgo", "first") /\ Ask(r, TRUE, "folder", "folder", "failed")
  <2>1. Calm(r, "sftpgo") => ("user" \in S => "linked" \in S)
    BY <1>1, <1>2, Owed, SftpgoTable
  <2> QED  BY <1>1, <1>2, <2>1, Asked, SftpgoTable
<1>3. CASE At(r, "sftpgo", "folder") /\ Write(r, {"folder"}, "hetzner", "hetzner")
  <2>1. Calm(r, "sftpgo") => ("user" \in S => "linked" \in S)
    BY <1>1, <1>3, Owed, SftpgoTable
  <2>2. {"folder"} \in SUBSET Things /\ Allowed("sftpgo", {"folder"})
    BY DEF Things, Allowed
  <2> DEFINE new == S \cup {"folder"}
  <2>3. Calm(r, "sftpgo") => Proceeds("sftpgo", "hetzner", run[r].got, new)
    <3>1. Calm(r, "sftpgo") => ("user" \in new => "linked" \in new) /\ "folder" \in new
      BY <2>1
    <3> HIDE DEF new
    <3> QED  BY <3>1, SftpgoTable
  <2> QED  BY <1>1, <1>3, <2>2, <2>3, Wrote
<1>4. CASE SftpgoHetzner(r)
  <2>1. Calm(r, "sftpgo") => ("user" \in S => "linked" \in S) /\ "folder" \in S
    BY <1>1, <1>4, Owed, SftpgoTable DEF SftpgoHetzner
  <2>2. /\ {"hetzner"} \in SUBSET Things /\ Allowed("sftpgo", {"hetzner"})
        /\ UNCHANGED <<enabled, realm>> /\ TypeOK /\ r \in Runners
    BY <1>4 DEF Things, Allowed, SftpgoHetzner, OnTurn
  <2> DEFINE new == S \cup {"hetzner"}
  <2>3. Calm(r, "sftpgo") => Proceeds("sftpgo", "link", "both", new)
    <3>1. Calm(r, "sftpgo") => ("user" \in new => "linked" \in new)
                               /\ {"folder", "hetzner"} \subseteq new
      BY <2>1
    <3> HIDE DEF new
    <3> QED  BY <3>1, SftpgoTable
  <2>4. CASE svc' = [svc EXCEPT !["sftpgo"] = @ \cup {"hetzner"}] /\ Go(r, Note(r, "both"), "link")
    <3>1. "both" \in Notes
      BY DEF Notes
    <3>2. /\ Note(r, "both") \in RunRecords /\ Kin(Note(r, "both"), r)
          /\ Note(r, "both").got = "both"
      BY <2>2, <3>1, NotedKin
    <3> QED  BY <1>1, <2>2, <2>3, <2>4, <3>2, Adding
  <2>5. CASE /\ svc' \in {svc, [svc EXCEPT !["sftpgo"] = @ \cup {"hetzner"}]}
             /\ Go(r, Unclean(run[r]), "link")
    <3>1. CASE svc' = svc
      BY <1>1, <2>2, <2>5, <3>1, Kinship, Reading
    <3>2. CASE svc' = [svc EXCEPT !["sftpgo"] = @ \cup {"hetzner"}]
      BY <1>1, <2>2, <2>5, <3>2, Kinship, Adding
    <3> QED  BY <2>5, <3>1, <3>2
  <2> QED  BY <1>4, <2>4, <2>5 DEF SftpgoHetzner
<1>5. CASE SftpgoUser(r)
  <2>1. Calm(r, "sftpgo") => /\ "user" \in S => "linked" \in S
                             /\ {"folder", "hetzner"} \subseteq S /\ run[r].got = "both"
    BY <1>1, <1>5, Owed, SftpgoTable DEF SftpgoUser
  <2>2. CASE "user" \in S \/ "folder" \notin S
    <3>1. Ask(r, TRUE, "already-configured", "already-configured", "failed")
      BY <1>5, <2>2 DEF SftpgoUser, In, Has, OnTurn
    <3>2. Calm(r, "sftpgo") => {"folder", "hetzner", "user", "linked"} \subseteq S
      BY <2>1, <2>2
    <3> QED  BY <1>1, <3>1, <3>2, Asked, SftpgoTable
  <2>3. CASE "user" \notin S /\ "folder" \in S
    <3> DEFINE things == {"user"} \cup (IF run[r].got = "both" THEN {"linked"} ELSE {})
               new == S \cup things
    <3>1. Write(r, things, "configured", "failed")
      BY <1>5, <2>3 DEF SftpgoUser, In, Has, OnTurn
    <3>2. things \in SUBSET Things /\ Allowed("sftpgo", things)
      BY DEF Things, Allowed
    <3>3. Calm(r, "sftpgo") => Proceeds("sftpgo", "configured", run[r].got, new)
      <4>1. Calm(r, "sftpgo") => {"folder", "hetzner", "user", "linked"} \subseteq new
        BY <2>1
      <4> HIDE DEF new
      <4> QED  BY <1>1, <4>1, SftpgoTable
    <3> HIDE DEF things
    <3> QED  BY <1>1, <3>1, <3>2, <3>3, Wrote
  <2> QED  BY <2>2, <2>3
<1> QED  BY <1>2, <1>3, <1>4, <1>5 DEF Sftpgo

\* Filestash: what it overwrites is whole, and whole again after it.
LEMMA FilestashAdvances ==
  ASSUME NEW r, OnTurn(r, "filestash"), Filestash(r)
  PROVE  Advance(r, "filestash")
<1> DEFINE S == svc["filestash"]
<1>1. /\ {"first", "push"} \subseteq HookSteps /\ "push" \notin Statuses
      /\ {"configured", "skipped-not-ready", "failed"} \subseteq Statuses
      /\ TypeOK /\ r \in Runners
  BY DEF HookSteps, Statuses, OnTurn
<1>2. ASSUME FilestashPull(r) PROVE Advance(r, "filestash")
  <2>1. Calm(r, "filestash") => "torn" \notin S
    BY <1>1, <1>2, Owed DEF FilestashPull, Due, Sound
  <2>2. /\ UNCHANGED <<enabled, svc, realm>>
        /\ \/ \E got \in {"edit", "plain"} :
                 Go(r, Note(r, got), IF "torn" \in S THEN "failed" ELSE "push")
           \/ \E s \in {"failed", "skipped-not-ready"} : Go(r, Unclean(run[r]), s)
    BY <1>2 DEF FilestashPull, Has, In, OnTurn
  <2>3. \A got : Proceeds("filestash", "push", got, S)
    BY <1>1 DEF Proceeds, Due
  <2>4. CASE \E got \in {"edit", "plain"} :
                 Go(r, Note(r, got), IF "torn" \in S THEN "failed" ELSE "push")
    <3>1. PICK got \in {"edit", "plain"} :
                 Go(r, Note(r, got), IF "torn" \in S THEN "failed" ELSE "push")
      BY <2>4
    <3>2. got \in Notes
      BY DEF Notes
    <3>3. Note(r, got) \in RunRecords /\ Kin(Note(r, got), r)
      BY <1>1, <3>2, NotedKin
    <3> QED  BY <1>1, <2>1, <2>2, <2>3, <3>1, <3>3, Reading
  <2>5. CASE \E s \in {"failed", "skipped-not-ready"} : Go(r, Unclean(run[r]), s)
    BY <1>1, <2>2, <2>5, Kinship, Reading
  <2> QED  BY <2>2, <2>4, <2>5
<1>3. ASSUME FilestashPush(r) PROVE Advance(r, "filestash")
  <2> DEFINE new == {"backends"} \cup (IF run[r].got = "edit" THEN {"edit"} ELSE {})
             Put(f) == [svc EXCEPT !["filestash"] = f]
  <2>1. new \in SUBSET Things /\ {"torn"} \in SUBSET Things
        /\ "backends" \in new /\ "torn" \notin new
    BY DEF Things
  <2>2. /\ UNCHANGED <<enabled, realm>>
        /\ \/ svc' = Put(new) /\ Go(r, run[r], "configured")
           \/ svc' \in {svc, Put(new), Put({"torn"})} /\ Go(r, Unclean(run[r]), "failed")
    BY <1>3 DEF FilestashPush
  <2>3. \A f \in SUBSET Things : svc' = Put(f) =>
          /\ svc' \in [Hooks -> SUBSET Things] /\ svc'["filestash"] = f
          /\ \A g \in Hooks \ {"filestash"} : svc'[g] = svc[g]
    BY <1>1 DEF TypeOK, Hooks, PythonHooks
  <2> HIDE DEF new, Put
  <2>4. /\ svc' \in [Hooks -> SUBSET Things]
        /\ \A g \in Hooks \ {"filestash"} : svc'[g] = svc[g]
    BY <1>1, <2>1, <2>2, <2>3 DEF TypeOK
  <2>5. Grounded(svc')
    BY <2>4 DEF OnTurn, Grounded, Hooks, BashHooks
  <2>6. CASE svc' = Put(new) /\ Go(r, run[r], "configured")
    <3>1. Proceeds("filestash", "configured", run[r].got, svc'["filestash"])
      BY <2>1, <2>3, <2>6, Promises DEF Proceeds, Ends, Sound, HookSteps
    <3> QED  BY <1>1, <2>2, <2>4, <2>5, <2>6, <3>1, Kinship DEF Advance
  <2>7. CASE Go(r, Unclean(run[r]), "failed")
    BY <1>1, <2>2, <2>4, <2>5, <2>7, Kinship DEF Advance
  <2> QED  BY <2>2, <2>6, <2>7
<1> QED  BY <1>2, <1>3 DEF Filestash

\* What is known at the steps of these hooks, and what they ask for.
LEMMA DatabasesTable ==
  \A d \in {"neo4j", "cassandra"} : \A got, S :
     /\ Due(d, "make", got, S) => "default" \in S
     /\ Due(d, "drop", got, S) => "ours" \in S
     /\ Due(d, "drop-new", got, S) => "ours" \in S
     /\ ~Due(d, "retry", got, S)
     /\ "default" \in S => Proceeds(d, "make", got, S)
     /\ "ours" \in S => \A s \in {"drop", "drop-new"} : Proceeds(d, s, got, S)
     /\ "ours" \in S /\ "default" \notin S => \A s \in Good : Proceeds(d, s, got, S)
BY Promises DEF Proceeds, Ends, Due, Sound, HookSteps, Statuses, Good

\* Neo4j and Cassandra: one of the two accounts is always there.
LEMMA DatabasesAdvances ==
  ASSUME NEW r, NEW d \in {"neo4j", "cassandra"}, OnTurn(r, d), Databases(r)
  PROVE  Advance(r, d)
<1> DEFINE S == svc[d]
<1>1. /\ {"first", "make", "retry", "drop", "drop-new"} \subseteq HookSteps
      /\ {"configured", "already-configured", "failed", "skipped-not-ready"} \subseteq Statuses
      /\ Good = {"configured", "already-configured"}
      /\ TypeOK /\ r \in Runners /\ Current(r) = d /\ d \in Hooks
      /\ \A a : DbHas(r, a) <=> a \in S
  BY DEF HookSteps, Statuses, Good, OnTurn, DbHas, Has
<1>2. CASE Neo4jSignIn(r)
  <2>1. Ask(r, DbHas(r, "ours"), "drop", "make", "make")
    BY <1>2 DEF Neo4jSignIn
  <2>2. "default" \in S \/ "ours" \in S
    BY <1>1, <1>2 DEF OnTurn, Grounded, Neo4jSignIn, At
  <2>3. DbHas(r, "ours") \in BOOLEAN
    BY DEF DbHas, Has
  <2> QED  BY <1>1, <2>1, <2>2, <2>3, Asked, DatabasesTable
<1>3. CASE CassandraSignIn(r)
  <2>1. /\ UNCHANGED <<enabled, svc, realm>>
        /\ \/ "ours" \in S /\ Go(r, run[r], "drop")
           \/ "default" \in S /\ Go(r, run[r], "make")
           \/ \E s \in {"make", "skipped-not-ready"} : Go(r, Unclean(run[r]), s)
    BY <1>1, <1>3 DEF CassandraSignIn
  <2>2. CASE "ours" \in S /\ Go(r, run[r], "drop")
    BY <1>1, <2>1, <2>2, Kinship, Reading, DatabasesTable
  <2>3. CASE "default" \in S /\ Go(r, run[r], "make")
    BY <1>1, <2>1, <2>3, Kinship, Reading, DatabasesTable
  <2>4. CASE \E s \in {"make", "skipped-not-ready"} : Go(r, Unclean(run[r]), s)
    BY <1>1, <2>1, <2>4, Kinship, Reading
  <2> QED  BY <2>1, <2>2, <2>3, <2>4
<1>4. CASE DbMake(r)
  <2>1. Calm(r, d) => "default" \in S
    BY <1>1, <1>4, Owed, DatabasesTable DEF DbMake, DbStep, At
  <2>2. CASE "default" \in S
    <3>1. Write(r, {"ours"}, "drop-new", "retry")
      BY <1>1, <1>4, <2>2 DEF DbMake
    <3>2. {"ours"} \in SUBSET Things /\ Allowed(d, {"ours"})
      BY <2>2 DEF Things, Allowed
    <3> QED  BY <1>1, <3>1, <3>2, Wrote, DatabasesTable
  <2>3. CASE "default" \notin S
    <3>1. Ask(r, FALSE, "drop-new", "retry", "retry")
      BY <1>1, <1>4, <2>3 DEF DbMake
    <3> QED  BY <1>1, <2>1, <2>3, <3>1, Asked
  <2> QED  BY <2>2, <2>3
<1>5. CASE DbRetry(r)
  <2>1. ~Calm(r, d)
    BY <1>1, <1>5, Owed, DatabasesTable DEF DbRetry, DbStep, At
  <2>2. Ask(r, DbHas(r, "ours"), "drop", "failed", "failed") /\ DbHas(r, "ours") \in BOOLEAN
    BY <1>5 DEF DbRetry, DbHas, Has
  <2> QED  BY <1>1, <2>1, <2>2, Asked
<1>6. CASE DbDrop(r)
  <2> DEFINE done == [svc EXCEPT ![d] = @ \ {"default"}]
  <2>1. Calm(r, d) => "ours" \in S
    BY <1>1, <1>6, Owed, DatabasesTable DEF DbDrop, DbStep, At
  <2>2. UNCHANGED <<enabled, realm>>
    BY <1>6 DEF DbDrop
  <2>3. \/ svc' = done /\ "ours" \in S /\ \E s \in Good : Go(r, run[r], s)
        \/ svc' = svc /\ "ours" \notin S /\ Go(r, run[r], "failed")
        \/ /\ svc' = svc \/ (svc' = done /\ "ours" \in S)
           /\ Go(r, Unclean(run[r]), "failed")
    BY <1>1, <1>6 DEF DbDrop, Has
  <2>4. svc' = done => /\ svc' \in [Hooks -> SUBSET Things] /\ svc'[d] = S \ {"default"}
                       /\ \A g \in Hooks \ {d} : svc'[g] = svc[g]
    BY <1>1 DEF TypeOK
  <2>5. svc' = done /\ "ours" \in S => Grounded(svc')
    BY <2>4 DEF OnTurn, Grounded, Hooks, BashHooks
  <2> HIDE DEF done
  <2>6. CASE svc' = done /\ "ours" \in S /\ \E s \in Good : Go(r, run[r], s)
    <3>1. PICK s \in Good : Go(r, run[r], s)
      BY <2>6
    <3>2. Proceeds(d, s, run[r].got, svc'[d])
      BY <2>4, <2>6, DatabasesTable
    <3> QED  BY <1>1, <2>2, <2>4, <2>5, <2>6, <3>1, <3>2, Kinship DEF Advance
  <2>7. CASE svc' = svc /\ "ours" \notin S /\ Go(r, run[r], "failed")
    BY <1>1, <2>1, <2>2, <2>7, Kinship, Reading
  <2>8. CASE svc' = svc /\ Go(r, Unclean(run[r]), "failed")
    BY <1>1, <2>2, <2>8, Kinship, Reading
  <2>9. CASE svc' = done /\ "ours" \in S /\ Go(r, Unclean(run[r]), "failed")
    BY <1>1, <2>2, <2>4, <2>5, <2>9, Kinship DEF Advance
  <2> QED  BY <2>3, <2>6, <2>7, <2>8, <2>9
<1> QED  BY <1>2, <1>3, <1>4, <1>5, <1>6 DEF Databases

-----------------------------------------------------------------------------
\* The abstract step of the Keycloak hook, with what a clean run makes of the
\* realm.

\* With the accounts U, a clean run with the record rec may go on to the step,
\* or end with the status, s.
KcProceeds(rec, s, U) ==
  /\ s \in HookSteps => KcDue(rec, s, U)
  /\ s \in Statuses => /\ s # "failed" /\ AdminOf(U, "admin")
                       /\ U["boot"].id = 0 /\ ~U["admin"].temp

\* The run r works on the Keycloak hook.
KcOnTurn(r) ==
  /\ KcInv /\ Inherited /\ r \in Runners /\ Current(r) = "keycloak"
  /\ run[r].step \in HookSteps
  /\ Calm(r, "keycloak") => KcDue(run[r], run[r].step, realm.user)

KcAdvance(r) ==
  /\ UNCHANGED <<enabled, svc>> /\ Inherited'
  /\ \E s \in HookSteps \cup Statuses, rec \in RunRecords :
        /\ Kin(rec, r) /\ Go(r, rec, s)
        /\ rec.clean /\ Calm(r, "keycloak") => KcProceeds(rec, s, realm'.user)

\* What such a run starts from.
LEMMA KcStart ==
  ASSUME NEW r, KcOnTurn(r)
  PROVE  /\ TypeOK /\ r \in Runners /\ realm.user \in [KcNames -> Accounts]
         /\ realm.next \in Nat \ {0} /\ run[r] \in RunRecords
         /\ AdminOf(realm.user, "admin") \/ AdminOf(realm.user, "boot")
         /\ realm.user["admin"].temp => AdminOf(realm.user, "admin")
         /\ \A n \in KcNames : Administers(n) <=> AdminOf(realm.user, n)
         /\ \A n \in KcNames : TokenOf(n) = [who |-> n, id |-> realm.user[n].id]
         /\ \A n \in KcNames : ActsAs(run[r], n, realm.user) => Authorised(r)
<1>1. TypeOK /\ r \in Runners /\ NeverLockedOut /\ Inherited
  BY DEF KcOnTurn, KcInv
<1>2. realm.user \in [KcNames -> Accounts] /\ realm.next \in Nat \ {0}
      /\ run[r] \in RunRecords
  BY <1>1 DEF TypeOK, Accounts
<1>3. \A n \in KcNames : Administers(n) <=> AdminOf(realm.user, n)
  BY DEF Administers, SignsIn, AdminOf
<1>4. AdminOf(realm.user, "admin") \/ AdminOf(realm.user, "boot")
  BY <1>1, <1>3 DEF NeverLockedOut, KcNames
<1>5. realm.user["admin"].temp => AdminOf(realm.user, "admin")
  BY <1>1, <1>3 DEF Inherited, KcNames
<1>6. \A n \in KcNames : ActsAs(run[r], n, realm.user) => Authorised(r)
  BY DEF ActsAs, Authorised, AdminOf
<1> QED  BY <1>1, <1>2, <1>3, <1>4, <1>5, <1>6 DEF TokenOf

\* A step after a call that went wrong is no clean run's.
LEMMA KcFaulty ==
  ASSUME NEW r, KcOnTurn(r), UNCHANGED <<enabled, svc>>, Inherited',
         NEW s \in HookSteps \cup Statuses, Go(r, Unclean(run[r]), s)
  PROVE  KcAdvance(r)
BY KcStart, Kinship DEF KcAdvance

\* A step with a record that is the run's own but for a variable of the hook.
LEMMA KcGoes ==
  ASSUME NEW r, KcOnTurn(r), UNCHANGED <<enabled, svc>>, Inherited',
         NEW s \in HookSteps \cup Statuses, NEW rec \in RunRecords, Kin(rec, r), Go(r, rec, s),
         Calm(r, "keycloak") => KcProceeds(rec, s, realm'.user)
  PROVE  KcAdvance(r)
BY DEF KcAdvance

\* The records the steps of the hook make.
LEMMA KcRecords ==
  ASSUME TypeOK, NEW r \in Runners
  PROVE  /\ \A n \in KcNames : LET rec == [run[r] EXCEPT !.tok = TokenOf(n)]
              IN /\ rec \in RunRecords /\ Kin(rec, r) /\ rec.tok = TokenOf(n)
                 /\ rec.user = run[r].user /\ rec.id = run[r].id /\ rec.old = run[r].old
         /\ \A n \in Nat : LET rec == [run[r] EXCEPT !.id = n]
              IN /\ rec \in RunRecords /\ Kin(rec, r) /\ rec.id = n /\ rec.tok = run[r].tok
                 /\ rec.user = run[r].user /\ rec.old = run[r].old
         /\ \A c \in Notes : LET rec == [run[r] EXCEPT !.got = c]
              IN /\ rec \in RunRecords /\ Kin(rec, r) /\ rec.got = c /\ rec.tok = run[r].tok
                 /\ rec.user = run[r].user /\ rec.id = run[r].id /\ rec.old = run[r].old
<1>1. run[r] \in RunRecords
  BY DEF TypeOK
<1>2. \A n \in KcNames : TokenOf(n) \in [who : KcNames, id : Nat]
  BY Tokens
<1> QED  BY <1>1, <1>2 DEF RunRecords, Kin, Same

\* No answer, or one that is refused, to a run that acts as an administrator.
LEMMA KcUntoldGoes ==
  ASSUME NEW r, KcOnTurn(r), UNCHANGED <<enabled, svc, realm>>, Untold(r),
         Calm(r, "keycloak") => Authorised(r)
  PROVE  KcAdvance(r)
<1>1. "failed" \in Statuses /\ Inherited'
  BY DEF Statuses, KcOnTurn, Inherited, Administers, SignsIn
<1>2. CASE Go(r, Unclean(run[r]), "failed")
  BY <1>1, <1>2, KcFaulty
<1>3. CASE ~Authorised(r) /\ Go(r, run[r], "failed")
  BY <1>1, <1>3, KcGoes, KcStart, Kinship
<1> QED  BY <1>2, <1>3 DEF Untold

\* Asking for a token of the account n.
LEMMA KcTokenGoes ==
  ASSUME NEW r, KcOnTurn(r), NEW n \in KcNames, NEW yes \in HookSteps,
         KcAdminToken(r, n, yes, "failed"),
         Calm(r, "keycloak") => AdminOf(realm.user, n),
         \A rec \in RunRecords :
            /\ rec.tok = TokenOf(n) /\ rec.user = run[r].user /\ rec.old = run[r].old
            /\ Calm(r, "keycloak")
            => KcDue(rec, yes, realm.user)
  PROVE  KcAdvance(r)
<1> DEFINE rec == [run[r] EXCEPT !.tok = TokenOf(n)]
<1>1. /\ "failed" \in Statuses /\ yes \notin Statuses /\ Inherited'
      /\ UNCHANGED <<enabled, svc, realm>> /\ TypeOK /\ r \in Runners
  BY KcStart DEF Statuses, HookSteps, KcOnTurn, Inherited, Administers, SignsIn, KcAdminToken
<1>2. rec \in RunRecords /\ Kin(rec, r) /\ rec.tok = TokenOf(n)
      /\ rec.user = run[r].user /\ rec.old = run[r].old
  BY <1>1, KcRecords
<1> HIDE DEF rec
<1>3. CASE Go(r, rec, yes)
  BY <1>1, <1>2, <1>3, KcGoes DEF KcProceeds
<1>4. CASE ~Administers(n) /\ Go(r, run[r], "failed")
  BY <1>1, <1>4, KcGoes, KcStart, Kinship
<1>5. CASE Go(r, Unclean(run[r]), "failed")
  BY <1>1, <1>5, KcFaulty
<1> QED  BY <1>3, <1>4, <1>5 DEF KcAdminToken, rec

\* The steps of the Keycloak hook that only read.
LEMMA KcReadsOn ==
  ASSUME NEW r, KcOnTurn(r),
         KcProbe(r) \/ KcFlag(r) \/ KcAsBoot(r) \/ KcAgain(r) \/ KcInstalled(r)
         \/ KcVerify(r) \/ KcLast(r)
  PROVE  KcAdvance(r)
<1> DEFINE U == realm.user
           C == Calm(r, "keycloak")
<1>1. /\ TypeOK /\ r \in Runners /\ U \in [KcNames -> Accounts] /\ run[r] \in RunRecords
      /\ AdminOf(U, "admin") \/ AdminOf(U, "boot")
      /\ U["admin"].temp => AdminOf(U, "admin")
      /\ \A n \in KcNames : Administers(n) <=> AdminOf(U, n)
      /\ \A n \in KcNames : TokenOf(n) = [who |-> n, id |-> U[n].id]
      /\ \A n \in KcNames : ActsAs(run[r], n, U) => Authorised(r)
      /\ KcNames = {"admin", "boot"}
  BY KcStart DEF KcNames
<1>2. Kin(run[r], r) /\ Unclean(run[r]) \in RunRecords /\ Kin(Unclean(run[r]), r)
  BY <1>1, Kinship
<1>3. /\ {"flag", "asboot", "create", "last", "again", "reset", "grant", "verify",
          "drop-temporary", "drop-boot"} \subseteq HookSteps
      /\ {"configured", "already-configured", "failed"} \subseteq Statuses
      /\ HookSteps \cap Statuses = {}
  BY DEF HookSteps, Statuses
<1>4. /\ UNCHANGED <<enabled, svc, realm>>
      /\ C => KcDue(run[r], run[r].step, U)
  BY DEF KcOnTurn, KcProbe, KcFlag, KcAsBoot, KcAgain, KcInstalled, KcVerify, KcLast, KcAdminToken
<1>5. Inherited' /\ realm'.user = U
  BY <1>4 DEF KcOnTurn, Inherited, Administers, SignsIn
<1>6. CASE KcProbe(r)
  <2> DEFINE known == [run[r] EXCEPT !.got = "already-configured"]
             acting == [known EXCEPT !.tok = TokenOf("admin")]
  <2>1. known \in RunRecords /\ Kin(known, r) /\ known.user = run[r].user
    BY <1>1, KcRecords DEF Notes, Statuses
  <2>2. acting \in RunRecords /\ Kin(acting, r) /\ acting.tok = TokenOf("admin")
    <3>1. TokenOf("admin") \in [who : KcNames, id : Nat]
      BY <1>1, Tokens
    <3> QED  BY <2>1, <3>1 DEF RunRecords, Kin, Same
  <2>3. Unclean(known) \in RunRecords /\ Kin(Unclean(known), r) /\ ~Unclean(known).clean
    <3>1. ~Unclean(known).clean
      BY <2>1 DEF Unclean, RunRecords
    <3> QED  BY <2>1, <3>1, UncleanIsTyped DEF Kin, Same
  <2>4. \/ AdminOf(U, "admin") /\ Go(r, acting, "flag")
        \/ ~AdminOf(U, "admin") /\ Go(r, known, "asboot")
        \/ Go(r, Unclean(known), "asboot")
    BY <1>1, <1>6 DEF KcProbe
  <2>5. C => run[r].user = "admin"
    BY <1>4, <1>6 DEF KcProbe, At, KcDue
  <2> HIDE DEF known, acting
  <2>6. AdminOf(U, "admin") => KcProceeds(acting, "flag", U)
    BY <1>1, <1>3, <2>2 DEF KcProceeds, KcDue, ActsAs
  <2>7. C /\ ~AdminOf(U, "admin") => KcProceeds(known, "asboot", U)
    BY <1>3, <2>1, <2>5 DEF KcProceeds, KcDue
  <2>8. CASE AdminOf(U, "admin") /\ Go(r, acting, "flag")
    BY <1>3, <1>4, <1>5, <2>2, <2>6, <2>8, KcGoes
  <2>9. CASE ~AdminOf(U, "admin") /\ Go(r, known, "asboot")
    BY <1>3, <1>4, <1>5, <2>1, <2>7, <2>9, KcGoes
  <2>10. CASE Go(r, Unclean(known), "asboot")
    BY <1>3, <1>4, <1>5, <2>3, <2>10 DEF KcAdvance
  <2> QED  BY <2>4, <2>8, <2>9, <2>10
<1>7. CASE KcFlag(r)
  <2> DEFINE marked == [run[r] EXCEPT !.user = "boot", !.old = U["admin"].id]
  <2>1. C => ActsAs(run[r], "admin", U)
    BY <1>4, <1>7 DEF KcFlag, At, KcDue
  <2>2. \/ Go(r, marked, "create")
        \/ ~U["admin"].temp /\ Go(r, run[r], "last")
        \/ Untold(r)
    BY <1>7 DEF KcFlag
  <2>3. /\ marked \in RunRecords /\ Kin(marked, r) /\ marked.user = "boot"
        /\ marked.old = U["admin"].id /\ marked.tok = run[r].tok
    <3>1. U["admin"].id \in Nat /\ "boot" \in KcNames
      BY <1>1 DEF Accounts
    <3> QED  BY <1>1, <3>1 DEF RunRecords, Kin, Same
  <2> HIDE DEF marked
  <2>4. C => KcProceeds(marked, "create", U)
    BY <1>3, <2>1, <2>3 DEF KcProceeds, KcDue, Installs, ActsAs
  <2>5. C /\ ~U["admin"].temp => KcProceeds(run[r], "last", U)
    BY <1>3, <2>1 DEF KcProceeds, KcDue
  <2>6. CASE Go(r, marked, "create")
    BY <1>3, <1>4, <1>5, <2>3, <2>4, <2>6, KcGoes
  <2>7. CASE ~U["admin"].temp /\ Go(r, run[r], "last")
    BY <1>1, <1>2, <1>3, <1>4, <1>5, <2>5, <2>7, KcGoes
  <2>8. CASE Untold(r)
    BY <1>1, <1>4, <2>1, <2>8, KcUntoldGoes
  <2> QED  BY <2>2, <2>6, <2>7, <2>8
<1>8. CASE KcAsBoot(r)
  <2> DEFINE acting == [run[r] EXCEPT !.tok = TokenOf("boot")]
  <2>1. C => run[r].user = "admin" /\ ~AdminOf(U, "admin")
    BY <1>4, <1>8 DEF KcAsBoot, At, KcDue
  <2>2. \/ Go(r, acting, "create")
        \/ ~SignsIn("boot") /\ Go(r, run[r], "again")
        \/ Go(r, Unclean(run[r]), "again")
    BY <1>8 DEF KcAsBoot
  <2>3. /\ acting \in RunRecords /\ Kin(acting, r) /\ acting.tok = TokenOf("boot")
        /\ acting.user = run[r].user
    BY <1>1, KcRecords
  <2> HIDE DEF acting
  <2>4. C => KcProceeds(acting, "create", U)
    BY <1>1, <1>3, <2>1, <2>3 DEF KcProceeds, KcDue, Installs, ActsAs
  <2>5. C => SignsIn("boot")
    BY <1>1, <2>1 DEF SignsIn, AdminOf
  <2>6. CASE Go(r, acting, "create")
    BY <1>3, <1>4, <1>5, <2>3, <2>4, <2>6, KcGoes
  <2>7. CASE ~SignsIn("boot") /\ Go(r, run[r], "again")
    BY <1>1, <1>2, <1>3, <1>4, <1>5, <2>5, <2>7, KcGoes
  <2>8. CASE Go(r, Unclean(run[r]), "again")
    BY <1>3, <1>4, <1>5, <2>8, KcFaulty
  <2> QED  BY <2>2, <2>6, <2>7, <2>8
<1>9. CASE KcAgain(r)
  <2>1. ~C
    BY <1>4, <1>9 DEF KcAgain, At, KcDue
  <2>2. KcAdminToken(r, "admin", "last", "failed")
    BY <1>9 DEF KcAgain
  <2> QED  BY <1>1, <1>3, <2>1, <2>2, KcTokenGoes
<1>10. CASE KcInstalled(r)
  <2> DEFINE u == U[run[r].user]
             found == [run[r] EXCEPT !.id = u.id]
             next == CASE u.id # 0 /\ run[r].got = "409" -> "reset"
                       [] u.id # 0 /\ run[r].got = "201" -> "grant"
                       [] OTHER -> "failed"
  <2>1. C => /\ Installs(run[r], U) /\ u.id # 0 /\ run[r].got \in {"201", "409"}
             /\ run[r].got = "201" => u.pw
    BY <1>4, <1>10 DEF KcInstalled, At, KcDue
  <2>2. Go(r, found, next) \/ Untold(r)
    BY <1>10 DEF KcInstalled
  <2>3. u.id \in Nat /\ run[r].user \in KcNames
    BY <1>1 DEF RunRecords, Accounts
  <2>4. /\ found \in RunRecords /\ Kin(found, r) /\ found.id = u.id
        /\ found.user = run[r].user /\ found.tok = run[r].tok /\ found.old = run[r].old
    BY <1>1, <2>3, KcRecords
  <2>5. next \in {"reset", "grant", "failed"}
        /\ (C => next \in {"reset", "grant"} /\ (next = "grant" => u.pw))
    BY <2>1
  <2>6. Installs(run[r], U) => Installs(found, U) /\ Authorised(r)
    BY <1>1, <2>4 DEF Installs, ActsAs
  <2> HIDE DEF found, next
  <2>7. C => KcProceeds(found, next, U)
    BY <1>3, <2>1, <2>4, <2>5, <2>6 DEF KcProceeds, KcDue
  <2>8. CASE Go(r, found, next)
    <3>1. next \in HookSteps \cup Statuses
      BY <1>3, <2>5
    <3> QED  BY <1>4, <1>5, <2>4, <2>7, <2>8, <3>1, KcGoes
  <2>9. CASE Untold(r)
    BY <1>4, <2>1, <2>6, <2>9, KcUntoldGoes
  <2> QED  BY <2>2, <2>8, <2>9
<1>11. CASE KcVerify(r)
  <2> DEFINE n == run[r].user
             yes == IF n = "boot" THEN "drop-temporary" ELSE "last"
  <2>1. C => Installs(run[r], U) /\ AdminOf(U, n)
    BY <1>4, <1>11 DEF KcVerify, At, KcDue
  <2>2. KcAdminToken(r, n, yes, "failed") /\ n \in KcNames /\ yes \in HookSteps
    BY <1>1, <1>3, <1>11 DEF KcVerify, RunRecords
  <2>3. ASSUME NEW rec \in RunRecords,
               rec.tok = TokenOf(n), rec.user = run[r].user, rec.old = run[r].old, C
        PROVE  KcDue(rec, yes, U)
    <3>1. ActsAs(rec, n, U)
      BY <1>1, <2>1, <2>2, <2>3 DEF ActsAs
    <3>2. CASE n = "boot"
      BY <2>1, <2>3, <3>1, <3>2 DEF KcDue, Installs
    <3>3. CASE n = "admin"
      BY <2>1, <2>3, <3>1, <3>3 DEF KcDue, Installs
    <3> QED  BY <1>1, <2>2, <3>2, <3>3
  <2> HIDE DEF yes
  <2> QED  BY <2>1, <2>2, <2>3, KcTokenGoes
<1>12. CASE KcLast(r)
  <2> DEFINE found == [run[r] EXCEPT !.id = U["boot"].id]
  <2>1. C => ActsAs(run[r], "admin", U) /\ ~U["admin"].temp
    BY <1>4, <1>12 DEF KcLast, At, KcDue
  <2>2. \/ U["boot"].id = 0 /\ Go(r, run[r], KcStatus(r))
        \/ Go(r, found, "drop-boot")
        \/ Untold(r)
    BY <1>12 DEF KcLast
  <2>3. /\ found \in RunRecords /\ Kin(found, r) /\ found.id = U["boot"].id
        /\ found.tok = run[r].tok
    <3>1. U["boot"].id \in Nat
      BY <1>1 DEF Accounts
    <3> QED  BY <1>1, <3>1, KcRecords
  <2>4. KcStatus(r) \in {"configured", "already-configured"}
    BY DEF KcStatus
  <2> HIDE DEF found
  <2>5. C => KcProceeds(found, "drop-boot", U)
    BY <1>3, <2>1, <2>3 DEF KcProceeds, KcDue, ActsAs
  <2>6. C /\ U["boot"].id = 0 => KcProceeds(run[r], KcStatus(r), U)
    BY <1>3, <2>1, <2>4 DEF KcProceeds, ActsAs
  <2>7. CASE U["boot"].id = 0 /\ Go(r, run[r], KcStatus(r))
    <3>1. KcStatus(r) \in HookSteps \cup Statuses
      BY <1>3, <2>4
    <3> QED  BY <1>1, <1>2, <1>4, <1>5, <2>6, <2>7, <3>1, KcGoes
  <2>8. CASE Go(r, found, "drop-boot")
    BY <1>3, <1>4, <1>5, <2>3, <2>5, <2>8, KcGoes
  <2>9. CASE Untold(r)
    BY <1>1, <1>4, <2>1, <2>9, KcUntoldGoes
  <2> QED  BY <2>2, <2>7, <2>8, <2>9
<1> QED  BY <1>6, <1>7, <1>8, <1>9, <1>10, <1>11, <1>12

\* A change of one account of the realm.
LEMMA KcChanged ==
  ASSUME NEW r, KcOnTurn(r), NEW u \in KcNames, NEW a \in Accounts,
         realm'.user = [realm.user EXCEPT ![u] = a],
         u = "admin" /\ a.temp => a.id # 0 /\ a.pw /\ a.role
  PROVE  /\ Inherited' /\ realm'.user[u] = a
         /\ \A v \in KcNames \ {u} : realm'.user[v] = realm.user[v]
<1>1. /\ realm.user \in [KcNames -> Accounts] /\ "admin" \in KcNames
      /\ realm.user["admin"].temp => AdminOf(realm.user, "admin")
  BY KcStart DEF KcNames
<1>2. /\ realm'.user[u] = a
      /\ \A v \in KcNames \ {u} : realm'.user[v] = realm.user[v]
  BY <1>1
<1>3. realm'.user["admin"].temp => AdminOf(realm'.user, "admin")
  BY <1>1, <1>2 DEF AdminOf
<1>4. Inherited'
  BY <1>3 DEF Inherited, Administers, SignsIn, AdminOf
<1> QED  BY <1>2, <1>4

\* The realm as it was.
LEMMA KcUnchanged ==
  ASSUME NEW r, KcOnTurn(r), realm' = realm
  PROVE  Inherited'
BY DEF KcOnTurn, Inherited, Administers, SignsIn

\* Creating an account.
LEMMA KcCreatesOn ==
  ASSUME NEW r, KcOnTurn(r), KcCreate(r)
  PROVE  KcAdvance(r)
<1> DEFINE U == realm.user
           C == Calm(r, "keycloak")
           u == run[r].user
           a == [id |-> realm.next, pw |-> TRUE, role |-> FALSE, temp |-> FALSE]
           made == [user |-> [U EXCEPT ![u] = a], next |-> realm.next + 1]
           free == Authorised(r) /\ U[u].id = 0
           Code(c) == [run[r] EXCEPT !.got = c]
<1>1. /\ TypeOK /\ r \in Runners /\ U \in [KcNames -> Accounts] /\ run[r] \in RunRecords
      /\ realm.next \in Nat \ {0} /\ u \in KcNames /\ KcNames = {"admin", "boot"}
      /\ \A n \in KcNames : ActsAs(run[r], n, U) => Authorised(r)
  BY KcStart DEF KcNames, RunRecords
<1>2. /\ UNCHANGED <<enabled, svc>> /\ "lookup" \in HookSteps /\ "lookup" \notin Statuses
      /\ {"201", "409", "401", "000"} \subseteq Notes
  BY DEF KcCreate, HookSteps, Statuses, Notes
<1>3. C => Installs(run[r], U)
  BY DEF KcOnTurn, KcCreate, At, KcDue
<1>4. C => Authorised(r)
  BY <1>1, <1>3 DEF Installs
<1>5. a \in Accounts /\ a.id # 0 /\ a.pw /\ ~a.temp
  BY <1>1 DEF Accounts
<1>6. realm' = made => /\ Inherited' /\ realm'.user[u] = a
                       /\ \A v \in KcNames \ {u} : realm'.user[v] = U[v]
  <2> HIDE DEF a
  <2>1. made.user = [U EXCEPT ![u] = a]
    OBVIOUS
  <2> HIDE DEF made
  <2> QED  BY <1>1, <1>5, <2>1, KcChanged
<1>7. \A c \in Notes : /\ Code(c) \in RunRecords /\ Kin(Code(c), r) /\ Code(c).got = c
                       /\ Code(c).tok = run[r].tok /\ Code(c).user = u
                       /\ Code(c).old = run[r].old
  BY <1>1, KcRecords
<1>8. \A c \in Notes : /\ Unclean(Code(c)) \in RunRecords /\ Kin(Unclean(Code(c)), r)
                       /\ ~Unclean(Code(c)).clean
  BY <1>1, NotedKin DEF Note
<1>9. \/ free /\ realm' = made /\ Go(r, Code("201"), "lookup")
      \/ ~free /\ realm' = realm /\ Go(r, Code(IF Authorised(r) THEN "409" ELSE "401"), "lookup")
      \/ realm' \in {realm, made} /\ Go(r, Unclean(Code("000")), "lookup")
  BY DEF KcCreate
<1> HIDE DEF Code, made, a
<1>10. CASE free /\ realm' = made /\ Go(r, Code("201"), "lookup")
  <2>1. realm'.user[u].id # 0 /\ realm'.user[u].pw
    BY <1>5, <1>6, <1>10
  <2>2. C => Installs(Code("201"), realm'.user)
    BY <1>1, <1>2, <1>3, <1>5, <1>6, <1>7, <1>10 DEF Installs, ActsAs, AdminOf
  <2>3. C => KcProceeds(Code("201"), "lookup", realm'.user)
    BY <1>2, <1>7, <2>1, <2>2 DEF KcProceeds, KcDue
  <2> QED  BY <1>2, <1>6, <1>7, <1>10, <2>3, KcGoes
<1>11. CASE ~free /\ realm' = realm
            /\ Go(r, Code(IF Authorised(r) THEN "409" ELSE "401"), "lookup")
  <2> DEFINE c == IF Authorised(r) THEN "409" ELSE "401"
  <2>1. c \in Notes /\ (C => c = "409" /\ U[u].id # 0)
    BY <1>2, <1>4, <1>11
  <2> HIDE DEF c
  <2>2. C => Installs(Code(c), U)
    BY <1>3, <1>7, <2>1 DEF Installs, ActsAs
  <2>3. C => KcProceeds(Code(c), "lookup", U)
    BY <1>2, <1>7, <2>1, <2>2 DEF KcProceeds, KcDue
  <2>4. Inherited' /\ Go(r, Code(c), "lookup") /\ realm'.user = U
    BY <1>11, KcUnchanged DEF c
  <2> QED  BY <1>2, <1>7, <2>1, <2>3, <2>4, KcGoes
<1>12. CASE realm' \in {realm, made} /\ Go(r, Unclean(Code("000")), "lookup")
  <2>1. Inherited'
    BY <1>6, <1>12, KcUnchanged
  <2> QED  BY <1>2, <1>8, <1>12, <2>1 DEF KcAdvance
<1> QED  BY <1>9, <1>10, <1>11, <1>12

\* The requests about the account that was looked up.
LEMMA KcSendsOn ==
  ASSUME NEW r, KcOnTurn(r), KcReset(r) \/ KcGrant(r)
  PROVE  KcAdvance(r)
<1> DEFINE U == realm.user
           C == Calm(r, "keycloak")
           u == run[r].user
<1>1. /\ TypeOK /\ r \in Runners /\ U \in [KcNames -> Accounts] /\ run[r] \in RunRecords
      /\ u \in KcNames /\ KcNames = {"admin", "boot"}
      /\ U["admin"].temp => AdminOf(U, "admin")
      /\ \A n \in KcNames : ActsAs(run[r], n, U) => Authorised(r)
  BY KcStart DEF KcNames, RunRecords
<1>2. PICK a \in Accounts, ok \in {"grant", "verify"} :
        /\ KcSend(r, a, ok) /\ a.id = U[u].id /\ a.temp = U[u].temp
        /\ (U[u].pw => a.pw) /\ (U[u].role => a.role)
        /\ IF ok = "grant" THEN At(r, "keycloak", "reset") /\ a.pw
                           ELSE At(r, "keycloak", "grant") /\ a.role
  <2>1. U[u] \in Accounts
    BY <1>1
  <2>2. CASE KcReset(r)
    <3> DEFINE a == [U[u] EXCEPT !.pw = TRUE]
    <3>1. /\ a \in Accounts /\ a.id = U[u].id /\ a.temp = U[u].temp
          /\ a.pw /\ (U[u].role => a.role)
      BY <2>1 DEF Accounts
    <3>2. KcSend(r, a, "grant") /\ At(r, "keycloak", "reset")
      BY <2>2 DEF KcReset
    <3> HIDE DEF a
    <3> QED  BY <3>1, <3>2
  <2>3. CASE KcGrant(r)
    <3> DEFINE a == [U[u] EXCEPT !.role = TRUE]
    <3>1. /\ a \in Accounts /\ a.id = U[u].id /\ a.temp = U[u].temp
          /\ a.role /\ (U[u].pw => a.pw)
      BY <2>1 DEF Accounts
    <3>2. KcSend(r, a, "verify") /\ At(r, "keycloak", "grant")
      BY <2>3 DEF KcGrant
    <3> HIDE DEF a
    <3> QED  BY <3>1, <3>2
  <2> QED  BY <2>2, <2>3
<1>3. /\ UNCHANGED <<enabled, svc>> /\ "failed" \in Statuses
      /\ ok \in HookSteps /\ ok \notin Statuses
  BY <1>2 DEF KcSend, HookSteps, Statuses
<1>4. C => /\ Installs(run[r], U) /\ run[r].id = U[u].id /\ U[u].id # 0
           /\ ok = "verify" => U[u].pw
  BY <1>2 DEF KcOnTurn, At, KcDue
<1>5. C => Authorised(r)
  BY <1>1, <1>4 DEF Installs
<1> DEFINE done == [realm EXCEPT !.user[u] = a]
<1>6. realm' = done => /\ Inherited' /\ realm'.user[u] = a
                       /\ \A v \in KcNames \ {u} : realm'.user[v] = U[v]
  <2>1. done.user = [U EXCEPT ![u] = a]
    BY <1>1 DEF TypeOK
  <2>2. u = "admin" /\ a.temp => a.id # 0 /\ a.pw /\ a.role
    BY <1>1, <1>2 DEF AdminOf
  <2> HIDE DEF done
  <2> QED  BY <1>1, <2>1, <2>2, KcChanged
<1>7. \/ realm' = done /\ Go(r, run[r], ok)
      \/ ~(Authorised(r) /\ U[u].id = run[r].id) /\ realm' = realm /\ Go(r, run[r], "failed")
      \/ realm' \in {realm, done} /\ Go(r, Unclean(run[r]), "failed")
  BY <1>2 DEF KcSend
<1> HIDE DEF done
<1>8. CASE realm' = done /\ Go(r, run[r], ok)
  <2>1. C => Installs(run[r], realm'.user)
    BY <1>1, <1>2, <1>4, <1>6, <1>8 DEF Installs, ActsAs, AdminOf
  <2>2. C => /\ realm'.user[u].id = run[r].id /\ run[r].id # 0 /\ realm'.user[u].pw
             /\ ok = "verify" => AdminOf(realm'.user, u)
    BY <1>2, <1>4, <1>6, <1>8 DEF AdminOf
  <2>3. C => KcProceeds(run[r], ok, realm'.user)
    BY <1>2, <1>3, <2>1, <2>2 DEF KcProceeds, KcDue
  <2> QED  BY <1>1, <1>3, <1>6, <1>8, <2>3, Kinship, KcGoes
<1>9. CASE ~(Authorised(r) /\ U[u].id = run[r].id) /\ realm' = realm /\ Go(r, run[r], "failed")
  BY <1>1, <1>3, <1>4, <1>5, <1>9, Kinship, KcGoes, KcUnchanged
<1>10. CASE realm' \in {realm, done} /\ Go(r, Unclean(run[r]), "failed")
  BY <1>3, <1>6, <1>10, KcFaulty, KcUnchanged
<1> QED  BY <1>7, <1>8, <1>9, <1>10

\* The two deletions.
LEMMA KcDeletesOn ==
  ASSUME NEW r, KcOnTurn(r), KcDropTemporary(r) \/ KcDropBoot(r)
  PROVE  KcAdvance(r)
<1> DEFINE U == realm.user
           C == Calm(r, "keycloak")
<1>1. /\ TypeOK /\ r \in Runners /\ U \in [KcNames -> Accounts] /\ run[r] \in RunRecords
      /\ KcNames = {"admin", "boot"}
      /\ \A n \in KcNames : ActsAs(run[r], n, U) => Authorised(r)
  BY KcStart DEF KcNames
<1>2. NoAccount \in Accounts /\ ~NoAccount.temp /\ NoAccount.id = 0
  BY DEF NoAccount, Accounts
<1>3. /\ {"failed", "configured"} \subseteq Statuses /\ "create" \in HookSteps
      /\ "create" \notin Statuses /\ "configured" \notin HookSteps
  BY DEF HookSteps, Statuses
<1>4. \A n \in KcNames : realm' = [realm EXCEPT !.user[n] = NoAccount] =>
         /\ Inherited' /\ realm'.user[n] = NoAccount
         /\ \A v \in KcNames \ {n} : realm'.user[v] = U[v]
  <2> SUFFICES ASSUME NEW n \in KcNames, realm' = [realm EXCEPT !.user[n] = NoAccount]
               PROVE  /\ Inherited' /\ realm'.user[n] = NoAccount
                      /\ \A v \in KcNames \ {n} : realm'.user[v] = U[v]
    OBVIOUS
  <2>1. realm'.user = [U EXCEPT ![n] = NoAccount]
    BY <1>1 DEF TypeOK
  <2> QED  BY <1>2, <2>1, KcChanged
<1>5. CASE KcDropTemporary(r)
  <2> DEFINE done == [realm EXCEPT !.user["admin"] = NoAccount]
             rec == [run[r] EXCEPT !.user = "admin"]
  <2>1. C => ActsAs(run[r], "boot", U) /\ run[r].old = U["admin"].id
    BY <1>5 DEF KcOnTurn, KcDropTemporary, At, KcDue
  <2>2. /\ UNCHANGED <<enabled, svc>>
        /\ \/ realm' = done /\ Go(r, rec, "create")
           \/ /\ ~(Authorised(r) /\ U["admin"].id = run[r].old) /\ realm' = realm
              /\ Go(r, rec, "failed")
           \/ realm' \in {realm, done} /\ Go(r, Unclean(run[r]), "failed")
    BY <1>5 DEF KcDropTemporary, KcDelete
  <2>3. rec \in RunRecords /\ Kin(rec, r) /\ rec.user = "admin" /\ rec.tok = run[r].tok
    BY <1>1 DEF RunRecords, Kin, Same
  <2>4. realm' = done => /\ Inherited' /\ realm'.user["admin"] = NoAccount
                         /\ realm'.user["boot"] = U["boot"]
    BY <1>1, <1>4
  <2> HIDE DEF done, rec
  <2>5. CASE realm' = done /\ Go(r, rec, "create")
    <3>1. C => Installs(rec, realm'.user)
      BY <1>2, <2>1, <2>3, <2>4, <2>5 DEF Installs, ActsAs, AdminOf
    <3>2. C => KcProceeds(rec, "create", realm'.user)
      BY <1>3, <3>1 DEF KcProceeds, KcDue
    <3> QED  BY <1>3, <2>2, <2>3, <2>4, <2>5, <3>2, KcGoes
  <2>6. CASE /\ ~(Authorised(r) /\ U["admin"].id = run[r].old) /\ realm' = realm
             /\ Go(r, rec, "failed")
    <3>1. ~C
      BY <1>1, <2>1, <2>6
    <3> QED  BY <1>3, <2>2, <2>3, <2>6, <3>1, KcGoes, KcUnchanged
  <2>7. CASE realm' \in {realm, done} /\ Go(r, Unclean(run[r]), "failed")
    BY <1>3, <2>2, <2>4, <2>7, KcFaulty, KcUnchanged
  <2> QED  BY <2>2, <2>5, <2>6, <2>7
<1>6. CASE KcDropBoot(r)
  <2> DEFINE done == [realm EXCEPT !.user["boot"] = NoAccount]
  <2>1. C => ActsAs(run[r], "admin", U) /\ ~U["admin"].temp /\ run[r].id = U["boot"].id
    BY <1>6 DEF KcOnTurn, KcDropBoot, At, KcDue
  <2>2. /\ UNCHANGED <<enabled, svc>>
        /\ \/ realm' = done /\ Go(r, run[r], "configured")
           \/ /\ ~(Authorised(r) /\ U["boot"].id = run[r].id) /\ realm' = realm
              /\ \E s \in {"configured", "failed"} : Go(r, run[r], s)
           \/ realm' \in {realm, done} /\ Go(r, Unclean(run[r]), "failed")
    BY <1>6 DEF KcDropBoot, KcDelete
  <2>3. realm' = done => /\ Inherited' /\ realm'.user["boot"] = NoAccount
                         /\ realm'.user["admin"] = U["admin"]
    BY <1>1, <1>4
  <2> HIDE DEF done
  <2>4. CASE realm' = done /\ Go(r, run[r], "configured")
    <3>1. C => KcProceeds(run[r], "configured", realm'.user)
      BY <1>2, <1>3, <2>1, <2>3, <2>4 DEF KcProceeds, ActsAs, AdminOf
    <3> QED  BY <1>1, <1>3, <2>2, <2>3, <2>4, <3>1, Kinship, KcGoes
  <2>5. CASE /\ ~(Authorised(r) /\ U["boot"].id = run[r].id) /\ realm' = realm
             /\ \E s \in {"configured", "failed"} : Go(r, run[r], s)
    <3>1. ~C
      BY <1>1, <2>1, <2>5
    <3> QED  BY <1>1, <1>3, <2>2, <2>5, <3>1, Kinship, KcGoes, KcUnchanged
  <2>6. CASE realm' \in {realm, done} /\ Go(r, Unclean(run[r]), "failed")
    BY <1>3, <2>2, <2>3, <2>6, KcFaulty, KcUnchanged
  <2> QED  BY <2>2, <2>4, <2>5, <2>6
<1> QED  BY <1>5, <1>6

-----------------------------------------------------------------------------
\* The invariant of the clean runs is kept.

\* The hook under way is an enabled one, and pending.
LEMMA ItsHook ==
  ASSUME TypeOK, NEW r \in Runners, run[r].todo # {}
  PROVE  /\ Current(r) = enabled.list[Turn(run[r].todo)] /\ Current(r) \in Hooks
         /\ Current(r) \in Pending(r) /\ Current(r) \in EnabledHooks
         /\ Turn(run[r].todo) \in run[r].todo
<1>1. enabled.list \in Seq(Hooks) /\ run[r].todo \subseteq DOMAIN enabled.list
  BY AdminAssumption DEF TypeOK, RunRecords
<1>2. run[r].todo \in SUBSET Nat
  BY <1>1
<1>3. Turn(run[r].todo) \in run[r].todo
  BY <1>2, TurnIsLeft
<1> QED  BY <1>1, <1>3, ItsTurn DEF Current, Pending, EnabledHooks

\* Ending a hook takes its turn from those left, and leaves the rest of the run.
LEMMA EndsTurn ==
  ASSUME NEW rec \in RunRecords, NEW s \in Statuses, rec.todo # {}
  PROVE  /\ Ended(rec, s).todo = rec.todo \ {Turn(rec.todo)}
         /\ Ended(rec, s).user = "admin" /\ Ended(rec, s).clean = rec.clean
         /\ Ended(rec, s).stuck = rec.stuck
         /\ Ended(rec, s).step = "parse" => Ended(rec, s).todo = {}
<1>1. rec.todo = {Turn(rec.todo)} \/ rec.todo # {Turn(rec.todo)}
  OBVIOUS
<1> QED  BY <1>1 DEF Ended, RunRecords

\* What a step of the hook h of the run r leaves, clean as it was or not.
Leads(r, h) ==
  /\ enabled' = enabled /\ Grounded(svc') /\ Inherited'
  /\ \A g \in Hooks \ {h} : /\ svc'[g] = svc[g]
                            /\ SetUp(g) /\ HandedOver(g) => SetUp(g)' /\ HandedOver(g)'
  /\ \E s \in HookSteps \cup Statuses, rec \in RunRecords :
        /\ Kin(rec, r) /\ Go(r, rec, s)
        /\ rec.clean /\ Calm(r, h) =>
             /\ s \in HookSteps => /\ Due(h, s, rec.got, svc'[h])
                                   /\ h = "keycloak" => KcDue(rec, s, realm'.user)
             /\ s \in Statuses => /\ SetUp(h)' /\ HandedOver(h)' /\ Sound(h, svc'[h])
                                  /\ s = "failed" => h = "n8n"

\* The whole invariant.
WholeInv == SetupInv /\ CleanInv

\* What a run is calm at its hook with.
LEMMA CalmAt ==
  ASSUME WholeInv, NEW r \in Runners, run[r].step \in HookSteps \cup {"ready"}
  PROVE  LET h == Current(r)
         IN /\ h \in Hooks /\ h \in EnabledHooks /\ run[r].todo # {}
            /\ Calm(r, h) =>
                 IF run[r].step = "ready" THEN Sound(h, svc[h])
                 ELSE /\ Due(h, run[r].step, run[r].got, svc[h])
                      /\ h = "keycloak" => KcDue(run[r], run[r].step, realm.user)
<1> DEFINE h == Current(r)
<1>1. run[r].step \notin {"idle", "parse"} /\ "ready" \notin HookSteps
  BY DEF HookSteps
<1>2. run[r].todo # {} /\ TypeOK
  BY <1>1 DEF WholeInv, SetupInv, Safe, Working
<1>3. h \in Hooks /\ h \in EnabledHooks
  BY <1>2, ItsHook
<1>4. ASSUME Calm(r, h)
      PROVE  IF run[r].step = "ready" THEN Sound(h, svc[h])
             ELSE /\ Due(h, run[r].step, run[r].got, svc[h])
                  /\ h = "keycloak" => KcDue(run[r], run[r].step, realm.user)
  <2>1. Clean(r) /\ h \notin run[r].stuck /\ ~Skips(h)
    BY <1>1, <1>4 DEF Calm, Clean
  <2>2. Repairable(r) /\ Underway(r)
    BY <2>1 DEF WholeInv, CleanInv
  <2>3. CASE run[r].step = "ready"
    BY <1>3, <2>1, <2>2, <2>3 DEF Repairable
  <2>4. CASE run[r].step # "ready"
    BY <1>1, <2>1, <2>2, <2>4 DEF Underway
  <2> QED  BY <2>3, <2>4
<1> QED  BY <1>2, <1>3, <1>4

\* What a step of its hook keeps.
LEMMA CleanGoes ==
  ASSUME WholeInv, NEW r \in Runners, run[r].step \in HookSteps \cup {"ready"},
         NEW h, Current(r) = h, Leads(r, h)
  PROVE  CleanInv'
<1>1. /\ TypeOK /\ h \in Hooks /\ h \in EnabledHooks /\ run[r].todo # {}
      /\ run[r].step \notin {"idle", "parse"} /\ h \in Pending(r)
      /\ h = enabled.list[Turn(run[r].todo)]
      /\ Turn(run[r].todo) \in run[r].todo
  BY CalmAt, ItsHook DEF WholeInv, SetupInv, HookSteps
<1>2. PICK s \in HookSteps \cup Statuses, rec \in RunRecords :
        /\ Kin(rec, r) /\ Go(r, rec, s)
        /\ rec.clean /\ Calm(r, h) =>
             /\ s \in HookSteps => /\ Due(h, s, rec.got, svc'[h])
                                   /\ h = "keycloak" => KcDue(rec, s, realm'.user)
             /\ s \in Statuses => /\ SetUp(h)' /\ HandedOver(h)' /\ Sound(h, svc'[h])
                                  /\ s = "failed" => h = "n8n"
  BY DEF Leads
<1>3. /\ enabled' = enabled /\ Grounded(svc') /\ Inherited' /\ EnabledHooks' = EnabledHooks
      /\ \A g \in Hooks \ {h} : /\ svc'[g] = svc[g]
                                /\ SetUp(g) /\ HandedOver(g) => SetUp(g)' /\ HandedOver(g)'
      /\ EnabledHooks \subseteq Hooks
  BY <1>1, AdminAssumption DEF Leads, EnabledHooks, TypeOK
<1>4. Same(rec, r) /\ rec.stuck = run[r].stuck /\ (rec.clean => run[r].clean)
  BY <1>2 DEF Kin
<1>5. /\ \A o \in Runners \ {r} : run'[o] = run[o]
      /\ s \in HookSteps => run'[r] = [rec EXCEPT !.step = s]
      /\ s \in Statuses => run'[r].step \in {"ready", "parse"}
      /\ \A g \in Hooks : run'[r].res[g] # run[r].res[g] => g = h
      /\ \A g \in Hooks : run'[r].res[g] \in {s, run[r].res[g]}
  BY <1>1, <1>2, <1>3, <1>4, Went
<1>6. HookSteps \cap (Statuses \cup {"idle", "ready", "parse"}) = {}
  BY DEF HookSteps, Statuses
<1>7. s \in Statuses => run'[r] = Ended(rec, s)
  BY <1>1, <1>2 DEF Go, Onward, TypeOK
<1>8. /\ run'[r].clean = rec.clean /\ run'[r].stuck = run[r].stuck
      /\ s \in Statuses => /\ run'[r].todo = run[r].todo \ {Turn(run[r].todo)}
                           /\ run'[r].user = "admin"
                           /\ run'[r].step = "parse" => run'[r].todo = {}
      /\ s \in HookSteps => /\ run'[r].todo = run[r].todo /\ run'[r].step = s
                            /\ run'[r].got = rec.got
  <2>1. CASE s \in HookSteps
    BY <1>4, <1>5, <1>6, <2>1 DEF RunRecords, Same
  <2>2. CASE s \in Statuses
    BY <1>1, <1>4, <1>6, <1>7, <2>2, EndsTurn DEF Same
  <2> QED  BY <2>1, <2>2
<1>9. \A o \in Runners : Rests(o)'
  BY <1>5, <1>6, <1>8 DEF WholeInv, CleanInv, Rests
<1>10. ASSUME NEW o \in Runners \ {r}, Clean(o)' PROVE FALSE
  <2>1. Clean(o)
    BY <1>5, <1>10 DEF Clean
  <2> QED  BY <1>1, <2>1 DEF WholeInv, CleanInv, Alone
<1>11. ASSUME Clean(r)'
       PROVE  Alone(r)' /\ Covered(r)' /\ Repairable(r)' /\ Underway(r)'
  <2>1. rec.clean /\ run[r].clean /\ Clean(r)
    BY <1>1, <1>4, <1>8, <1>11 DEF Clean
  <2>2. Alone(r) /\ Covered(r) /\ Repairable(r)
    BY <2>1 DEF WholeInv, CleanInv
  <2>3. \A g : Skips(g)' = Skips(g)
    BY <1>3 DEF Skips
  <2>4. Alone(r)'
    BY <1>5, <2>2 DEF Alone
  <2>5. h \notin run[r].stuck /\ ~Skips(h) => Calm(r, h)
    BY <2>1 DEF Calm
  <2>6. ASSUME NEW g \in EnabledHooks \ {h}, Settled(r, g)
        PROVE  Settled(r, g)'
    <3>1. g \in Hooks /\ run'[r].res[g] = run[r].res[g]
      BY <1>3, <1>5, <2>6
    <3> QED  BY <1>3, <1>8, <2>3, <2>6, <3>1 DEF Settled
  <2>7. ASSUME NEW g \in EnabledHooks \ {h}, g \notin run[r].stuck, ~Skips(g)
        PROVE  Sound(g, svc'[g])
    <3>1. Sound(g, svc[g]) /\ g \in Hooks
      BY <1>3, <2>2, <2>7 DEF Repairable
    <3> QED  BY <1>3, <2>7, <3>1
  <2>8. CASE s \in HookSteps
    <3>1. Pending(r)' = Pending(r) /\ Current(r)' = h
      BY <1>3, <1>8, <2>8 DEF Pending, Current, Turn
    <3>2. Covered(r)'
      BY <1>1, <1>3, <2>2, <2>6, <3>1 DEF Covered
    <3>3. Repairable(r)'
      BY <1>3, <1>6, <1>8, <2>3, <2>7, <2>8, <3>1 DEF Repairable
    <3>4. Underway(r)'
      <4> SUFFICES ASSUME h \notin run[r].stuck, ~Skips(h)
                   PROVE  /\ Due(h, s, run'[r].got, svc'[h])
                          /\ h = "keycloak" => KcDue(run'[r], s, realm'.user)
        BY <1>8, <2>3, <2>8, <3>1 DEF Underway
      <4>1. Due(h, s, rec.got, svc'[h]) /\ (h = "keycloak" => KcDue(rec, s, realm'.user))
        BY <1>2, <2>1, <2>5, <2>8
      <4>2. /\ run'[r].got = rec.got /\ run'[r].tok = rec.tok /\ run'[r].user = rec.user
            /\ run'[r].id = rec.id /\ run'[r].old = rec.old
        BY <1>5, <2>8 DEF RunRecords
      <4> QED  BY <4>1, <4>2 DEF KcDue, Installs, ActsAs
    <3> QED  BY <2>4, <3>2, <3>3, <3>4
  <2>9. CASE s \in Statuses
    <3>1. Pending(r) \subseteq Pending(r)' \cup {h}
      BY <1>1, <1>3, <1>8, <2>9 DEF Pending
    <3>2. h \notin run[r].stuck /\ ~Skips(h) =>
            /\ SetUp(h)' /\ HandedOver(h)' /\ Sound(h, svc'[h])
            /\ s = "failed" => h = "n8n"
      BY <1>2, <2>1, <2>5, <2>9
    <3>3. run'[r].res[h] = s
      <4>1. Ended(rec, s).res[enabled.list[Turn(rec.todo)]] = s
        BY <1>1, <1>4 DEF Ended, Same, RunRecords
      <4> QED  BY <1>1, <1>4, <1>7, <2>9, <4>1 DEF Same
    <3>4. Settled(r, h)'
      BY <1>8, <2>3, <3>2, <3>3 DEF Settled
    <3>5. Covered(r)'
      BY <1>3, <2>2, <2>6, <3>1, <3>4 DEF Covered
    <3>6. Repairable(r)'
      BY <1>3, <1>8, <2>3, <2>7, <3>2 DEF Repairable
    <3>7. Underway(r)'
      BY <1>5, <1>6, <2>9 DEF Underway
    <3> QED  BY <2>4, <3>5, <3>6, <3>7
  <2> QED  BY <2>8, <2>9
<1> QED  BY <1>3, <1>9, <1>10, <1>11 DEF CleanInv

\* A run that works on a hook other than Keycloak's is on turn.
LEMMA TurnsOn ==
  ASSUME WholeInv, NEW r \in Runners, NEW h \in Hooks \ {"keycloak"}, Current(r) = h,
         run[r].step \in HookSteps \cup {"ready"}
  PROVE  OnTurn(r, h)
<1>1. TypeOK /\ Grounded(svc) /\ Prepared(r)
  BY DEF WholeInv, SetupInv, CleanInv, Safe
<1> QED  BY <1>1, CalmAt DEF OnTurn

\* What a step of a hook other than Keycloak's leads to.
LEMMA AdvanceLeads ==
  ASSUME WholeInv, NEW r \in Runners, NEW h \in Hooks \ {"keycloak"}, Advance(r, h)
  PROVE  Leads(r, h)
<1>1. UNCHANGED <<enabled, realm>> /\ Grounded(svc') /\ Inherited
  BY DEF Advance, WholeInv, CleanInv
<1>2. Inherited' /\ \A n : Administers(n)' = Administers(n)
  BY <1>1 DEF Inherited, Administers, SignsIn
<1>3. ASSUME NEW g \in Hooks \ {h}
      PROVE  /\ svc'[g] = svc[g]
             /\ SetUp(g) /\ HandedOver(g) => SetUp(g)' /\ HandedOver(g)'
  <2>1. svc'[g] = svc[g]
    BY DEF Advance
  <2> QED  BY <1>1, <1>2, <2>1 DEF SetUp, HandedOver, Promised, Has
<1>4. PICK s \in HookSteps \cup Statuses, rec \in RunRecords :
        /\ Kin(rec, r) /\ Go(r, rec, s)
        /\ rec.clean /\ Calm(r, h) => Proceeds(h, s, rec.got, svc'[h])
  BY DEF Advance
<1>5. ASSUME rec.clean, Calm(r, h), s \in Statuses
      PROVE  /\ SetUp(h)' /\ HandedOver(h)' /\ Sound(h, svc'[h])
             /\ s = "failed" => h = "n8n"
  <2>1. Ends(h, s, svc'[h])
    BY <1>4, <1>5 DEF Proceeds
  <2> QED  BY <2>1 DEF Ends, SetUp, HandedOver, Promised, Has
<1>6. rec.clean /\ Calm(r, h) /\ s \in HookSteps => Due(h, s, rec.got, svc'[h])
  BY <1>4 DEF Proceeds
<1> QED  BY <1>1, <1>2, <1>3, <1>4, <1>5, <1>6 DEF Leads

\* What a step of the Keycloak hook leads to.
LEMMA KcAdvanceLeads ==
  ASSUME WholeInv, NEW r \in Runners, KcAdvance(r)
  PROVE  Leads(r, "keycloak")
<1>1. UNCHANGED <<enabled, svc>> /\ Inherited' /\ Grounded(svc')
  BY DEF KcAdvance, WholeInv, CleanInv
<1>2. ASSUME NEW g \in Hooks \ {"keycloak"}
      PROVE  /\ svc'[g] = svc[g]
             /\ SetUp(g) /\ HandedOver(g) => SetUp(g)' /\ HandedOver(g)'
  BY <1>1 DEF SetUp, HandedOver, Promised, Has
<1>3. PICK s \in HookSteps \cup Statuses, rec \in RunRecords :
        /\ Kin(rec, r) /\ Go(r, rec, s)
        /\ rec.clean /\ Calm(r, "keycloak") => KcProceeds(rec, s, realm'.user)
  BY DEF KcAdvance
<1>4. \A t \in HookSteps : \A got, S : Due("keycloak", t, got, S)
  BY DEF Due, Sound
<1>5. ASSUME rec.clean, Calm(r, "keycloak"), s \in Statuses
      PROVE  /\ SetUp("keycloak")' /\ HandedOver("keycloak")' /\ Sound("keycloak", svc'["keycloak"])
             /\ s # "failed"
  <2>1. /\ s # "failed" /\ AdminOf(realm'.user, "admin")
        /\ realm'.user["boot"].id = 0 /\ ~realm'.user["admin"].temp
    BY <1>3, <1>5 DEF KcProceeds
  <2>2. Promised("keycloak") = {}
    BY DEF Promised
  <2> QED  BY <2>1, <2>2 DEF SetUp, HandedOver, Administers, SignsIn, AdminOf, Sound
<1>6. rec.clean /\ Calm(r, "keycloak") /\ s \in HookSteps =>
        Due("keycloak", s, rec.got, svc'["keycloak"]) /\ KcDue(rec, s, realm'.user)
  BY <1>3, <1>4 DEF KcProceeds
<1> QED  BY <1>1, <1>2, <1>3, <1>5, <1>6 DEF Leads

\* The Keycloak hook is waited for.
LEMMA KcWaits ==
  ASSUME WholeInv, NEW r \in Runners, Current(r) = "keycloak", WaitReady(r)
  PROVE  Leads(r, "keycloak")
<1>1. /\ TypeOK /\ Inherited' /\ UNCHANGED <<enabled, svc, realm>>
      /\ run[r].step = "ready" /\ run[r].user = "admin"
  BY DEF WholeInv, SetupInv, CleanInv, Rests, WaitReady, Ask, Inherited, Administers, SignsIn
<1>2. "first" \in HookSteps /\ "first" \notin Statuses /\ "skipped-not-ready" \in Statuses
  BY DEF HookSteps, Statuses
<1>3. \/ Skips("keycloak") /\ Go(r, run[r], "skipped-not-ready")
      \/ Go(r, run[r], "first")
      \/ Go(r, Unclean(run[r]), "skipped-not-ready")
  BY DEF WaitReady, Ask
<1>4. KcProceeds(run[r], "first", realm.user)
  BY <1>1, <1>2 DEF KcProceeds, KcDue
<1>5. KcAdvance(r)
  <2>1. CASE Skips("keycloak") /\ Go(r, run[r], "skipped-not-ready")
    BY <1>1, <1>2, <2>1, Kinship DEF KcAdvance, Calm
  <2>2. CASE Go(r, run[r], "first")
    BY <1>1, <1>2, <1>4, <2>2, Kinship DEF KcAdvance
  <2>3. CASE Go(r, Unclean(run[r]), "skipped-not-ready")
    BY <1>1, <1>2, <2>3, Kinship DEF KcAdvance
  <2> QED  BY <1>3, <2>1, <2>2, <2>3
<1> QED  BY <1>5, KcAdvanceLeads

\* Every step of a hook keeps the invariant of the clean runs.
LEMMA CleanHook ==
  ASSUME WholeInv, NEW r \in Runners, Hook(r)
  PROVE  CleanInv'
<1>1. ASSUME NEW h \in Hooks \ {"keycloak"}, Current(r) = h, Advance(r, h),
             run[r].step \in HookSteps \cup {"ready"}
      PROVE  CleanInv'
  BY <1>1, AdvanceLeads, CleanGoes
<1>2. /\ BashHooks \cup PythonHooks = Hooks /\ "keycloak" \in Hooks
      /\ Hooks \ {"keycloak"} = {"uptime-kuma", "portainer", "n8n", "metabase", "lakefs",
           "openmetadata", "redpanda", "superset", "garage", "wikijs", "dify", "windmill",
           "sftpgo", "hedgedoc", "unity-catalog", "lakekeeper", "neo4j", "cassandra", "hue",
           "pg-ducklake", "filestash"}
  BY DEF Hooks, BashHooks, PythonHooks
<1>3. CASE WaitReady(r)
  <2>1. run[r].step \in HookSteps \cup {"ready"}
    BY <1>3 DEF WaitReady
  <2>2. PICK h \in Hooks : Current(r) = h
    BY <2>1, CalmAt
  <2>3. CASE h = "keycloak"
    BY <1>3, <2>1, <2>2, <2>3, KcWaits, CleanGoes
  <2>4. CASE h # "keycloak"
    BY <1>1, <1>3, <2>1, <2>2, <2>4, TurnsOn, WaitReadyAdvances
  <2> QED  BY <2>3, <2>4
<1>4. CASE Keycloak(r)
  <2>1. Current(r) = "keycloak" /\ run[r].step \in HookSteps \cup {"ready"}
        /\ run[r].step \in HookSteps /\ run[r].step # "ready"
    BY <1>4 DEF Keycloak, KcProbe, KcFlag, KcAsBoot, KcAgain, KcCreate, KcInstalled, KcReset,
                KcGrant, KcVerify, KcDropTemporary, KcLast, KcDropBoot, At, HookSteps
  <2>2. KcInv /\ Inherited
    BY DEF WholeInv, SetupInv, CleanInv, KcInv
  <2>3. KcOnTurn(r)
    BY <2>1, <2>2, CalmAt DEF KcOnTurn
  <2>4. KcAdvance(r)
    BY <1>4, <2>3, KcReadsOn, KcCreatesOn, KcSendsOn, KcDeletesOn DEF Keycloak
  <2> QED  BY <2>1, <2>4, KcAdvanceLeads, CleanGoes
<1>5. CASE Portainer(r)
  <2>1. Current(r) = "portainer" /\ run[r].step \in HookSteps \cup {"ready"}
    BY <1>5 DEF Portainer, At, HookSteps
  <2> QED  BY <1>1, <1>2, <1>5, <2>1, TurnsOn, PortainerAdvances
<1>6. CASE N8n(r)
  <2>1. Current(r) = "n8n" /\ run[r].step \in HookSteps \cup {"ready"}
    BY <1>6 DEF N8n, At, HookSteps
  <2> QED  BY <1>1, <1>2, <1>6, <2>1, TurnsOn, N8nAdvances
<1>7. CASE Metabase(r)
  <2>1. Current(r) = "metabase" /\ run[r].step \in HookSteps \cup {"ready"}
    BY <1>7 DEF Metabase, At, HookSteps
  <2> QED  BY <1>1, <1>2, <1>7, <2>1, TurnsOn, MetabaseAdvances
<1>8. CASE LakeFS(r)
  <2>1. Current(r) = "lakefs" /\ run[r].step \in HookSteps \cup {"ready"}
    BY <1>8 DEF LakeFS, At, HookSteps
  <2> QED  BY <1>1, <1>2, <1>8, <2>1, TurnsOn, LakeFSAdvances
<1>9. CASE OpenMetadata(r)
  <2>1. Current(r) = "openmetadata" /\ run[r].step \in HookSteps \cup {"ready"}
    BY <1>9 DEF OpenMetadata, At, HookSteps
  <2> QED  BY <1>1, <1>2, <1>9, <2>1, TurnsOn, OpenMetadataAdvances
<1>10. CASE RedPanda(r)
  <2>1. Current(r) = "redpanda" /\ run[r].step \in HookSteps \cup {"ready"}
    BY <1>10 DEF RedPanda, At, HookSteps
  <2> QED  BY <1>1, <1>2, <1>10, <2>1, TurnsOn, RedPandaAdvances
<1>11. CASE Superset(r)
  <2>1. Current(r) = "superset" /\ run[r].step \in HookSteps \cup {"ready"}
    BY <1>11 DEF Superset, At, HookSteps
  <2> QED  BY <1>1, <1>2, <1>11, <2>1, TurnsOn, SupersetAdvances
<1>12. CASE HedgeDoc(r)
  <2>1. Current(r) = "hedgedoc" /\ run[r].step \in HookSteps \cup {"ready"}
    BY <1>12 DEF HedgeDoc, At, HookSteps
  <2> QED  BY <1>1, <1>2, <1>12, <2>1, TurnsOn, HedgeDocAdvances
<1>13. CASE Hue(r)
  <2>1. Current(r) = "hue" /\ run[r].step \in HookSteps \cup {"ready"}
    BY <1>13 DEF Hue, At, HookSteps
  <2> QED  BY <1>1, <1>2, <1>13, <2>1, TurnsOn, HueAdvances
<1>14. CASE Garage(r)
  <2>1. Current(r) = "garage" /\ run[r].step \in HookSteps \cup {"ready"}
    BY <1>14 DEF Garage, At, HookSteps
  <2> QED  BY <1>1, <1>2, <1>14, <2>1, TurnsOn, GarageAdvances
<1>15. CASE Wikijs(r)
  <2>1. Current(r) = "wikijs" /\ run[r].step \in HookSteps \cup {"ready"}
    BY <1>15 DEF Wikijs, At, HookSteps
  <2> QED  BY <1>1, <1>2, <1>15, <2>1, TurnsOn, WikijsAdvances
<1>16. CASE Dify(r)
  <2>1. Current(r) = "dify" /\ run[r].step \in HookSteps \cup {"ready"}
    BY <1>16 DEF Dify, At, HookSteps
  <2> QED  BY <1>1, <1>2, <1>16, <2>1, TurnsOn, DifyAdvances
<1>17. CASE Windmill(r)
  <2>1. Current(r) = "windmill" /\ run[r].step \in HookSteps \cup {"ready"}
    BY <1>17 DEF Windmill, WindmillWorkspace, At, HookSteps
  <2> QED  BY <1>1, <1>2, <1>17, <2>1, TurnsOn, WindmillAdvances
<1>18. CASE Sftpgo(r)
  <2>1. Current(r) = "sftpgo" /\ run[r].step \in HookSteps \cup {"ready"}
    BY <1>18 DEF Sftpgo, SftpgoHetzner, SftpgoUser, At, HookSteps
  <2> QED  BY <1>1, <1>2, <1>18, <2>1, TurnsOn, SftpgoAdvances
<1>19. CASE PgDucklake(r)
  <2>1. Current(r) = "pg-ducklake" /\ run[r].step \in HookSteps \cup {"ready"}
    BY <1>19 DEF PgDucklake, At, HookSteps
  <2> QED  BY <1>1, <1>2, <1>19, <2>1, TurnsOn, PgDucklakeAdvances
<1>20. CASE UnityCatalog(r)
  <2>1. Current(r) = "unity-catalog" /\ run[r].step \in HookSteps \cup {"ready"}
    BY <1>20 DEF UnityCatalog, At, HookSteps
  <2> QED  BY <1>1, <1>2, <1>20, <2>1, TurnsOn, UnityCatalogAdvances
<1>21. CASE Lakekeeper(r)
  <2>1. Current(r) = "lakekeeper" /\ run[r].step \in HookSteps \cup {"ready"}
    BY <1>21 DEF Lakekeeper, At, HookSteps
  <2> QED  BY <1>1, <1>2, <1>21, <2>1, TurnsOn, LakekeeperAdvances
<1>22. CASE Filestash(r)
  <2>1. Current(r) = "filestash" /\ run[r].step \in HookSteps \cup {"ready"}
    BY <1>22 DEF Filestash, FilestashPull, FilestashPush, At, HookSteps
  <2> QED  BY <1>1, <1>2, <1>22, <2>1, TurnsOn, FilestashAdvances
<1>23. CASE Databases(r)
  <2>1. Current(r) \in {"neo4j", "cassandra"} /\ run[r].step \in HookSteps \cup {"ready"}
    BY <1>23 DEF Databases, Neo4jSignIn, CassandraSignIn, DbMake, DbRetry, DbDrop, DbStep, At,
         HookSteps
  <2>2. PICK d \in {"neo4j", "cassandra"} : Current(r) = d
    BY <2>1
  <2> QED  BY <1>1, <1>2, <1>23, <2>1, <2>2, TurnsOn, DatabasesAdvances
<1> QED  BY <1>3, <1>4, <1>5, <1>6, <1>7, <1>8, <1>9, <1>10, <1>11, <1>12, <1>13, <1>14, <1>15, <1>16, <1>17, <1>18, <1>19, <1>20, <1>21, <1>22, <1>23 DEF Hook

\* A run begins: it is clean if it is alone, and no other is any more.
LEMMA CleanBegin ==
  ASSUME WholeInv, NEW r \in Runners, Begin(r)
  PROVE  CleanInv'
<1> DEFINE alone == \A o \in Runners \ {r} : run[o].step = "idle"
           stuck == {h \in EnabledHooks : Stuck(h)}
           rec == [Fresh EXCEPT !.todo = DOMAIN enabled.list, !.step = "ready",
                                !.clean = alone, !.stuck = stuck]
<1>1. /\ run' = [o \in Runners |-> IF o = r THEN rec ELSE Unclean(run[o])]
      /\ UNCHANGED <<enabled, svc, realm>> /\ TypeOK /\ CleanInv
  BY DEF Begin, WholeInv, SetupInv
<1> HIDE DEF alone, stuck
<1>2. /\ rec.todo = DOMAIN enabled.list /\ rec.step = "ready" /\ rec.user = "admin"
      /\ rec.clean = alone /\ rec.stuck = stuck
  BY DEF Fresh
<1> HIDE DEF rec
<1>3. run'[r] = rec /\ \A o \in Runners \ {r} : run'[o] = Unclean(run[o])
  BY <1>1
<1>4. ASSUME NEW o \in Runners \ {r}
      PROVE  /\ run'[o].step = run[o].step /\ run'[o].user = run[o].user
             /\ run'[o].todo = run[o].todo /\ ~run'[o].clean
  <2>1. run[o] \in RunRecords
    BY <1>1 DEF TypeOK
  <2> QED  BY <1>3, <2>1 DEF Unclean, RunRecords
<1>5. \A o \in Runners : Rests(o)'
  BY <1>1, <1>2, <1>3, <1>4 DEF CleanInv, Rests
<1>6. Grounded(svc') /\ Inherited' /\ EnabledHooks' = EnabledHooks
  BY <1>1 DEF CleanInv, Inherited, Administers, SignsIn, EnabledHooks
<1>7. ASSUME NEW o \in Runners, Clean(o)'
      PROVE  Alone(o)' /\ Covered(o)' /\ Repairable(o)' /\ Underway(o)'
  <2>1. o = r /\ alone
    BY <1>2, <1>3, <1>4, <1>7 DEF Clean
  <2>2. Alone(o)'
    BY <1>4, <2>1 DEF Alone, alone
  <2>3. Covered(o)'
    BY <1>1, <1>2, <1>3, <2>1 DEF Covered, Pending, EnabledHooks
  <2>4. \A h \in EnabledHooks \ stuck : Sound(h, svc[h])
    BY DEF stuck, Stuck, Sound, Has
  <2>5. Repairable(o)'
    BY <1>1, <1>2, <1>3, <1>6, <2>1, <2>4 DEF Repairable
  <2>6. Underway(o)'
    BY <1>2, <1>3, <2>1 DEF Underway, HookSteps
  <2> QED  BY <2>2, <2>3, <2>5, <2>6
<1> QED  BY <1>5, <1>6, <1>7 DEF CleanInv

\* A run concludes or breaks off, and no other was clean.
LEMMA CleanEnd ==
  ASSUME WholeInv, NEW r \in Runners, Conclude(r) \/ BreakOff(r)
  PROVE  CleanInv'
<1>1. /\ UNCHANGED <<enabled, svc, realm>> /\ TypeOK /\ CleanInv /\ run[r].step # "idle"
  BY DEF Conclude, BreakOff, WholeInv, SetupInv
<1>2. run'[r].step = "idle" /\ \A o \in Runners \ {r} : run'[o] = run[o]
  <2>1. CASE Conclude(r)
    BY <1>1, <2>1 DEF Conclude, TypeOK, RunRecords
  <2>2. CASE BreakOff(r)
    BY <1>1, <2>2 DEF BreakOff, TypeOK, Fresh
  <2> QED  BY <2>1, <2>2
<1>3. \A o \in Runners : Rests(o)'
  BY <1>1, <1>2 DEF CleanInv, Rests
<1>4. Grounded(svc') /\ Inherited'
  BY <1>1 DEF CleanInv, Inherited, Administers, SignsIn
<1>5. ASSUME NEW o \in Runners, Clean(o)' PROVE FALSE
  <2>1. o # r /\ Clean(o)
    BY <1>2, <1>5 DEF Clean
  <2> QED  BY <1>1, <2>1 DEF CleanInv, Alone
<1> QED  BY <1>3, <1>4, <1>5 DEF CleanInv

\* What changes in the services from outside a run disturbs no clean one.
LEMMA CleanOutside ==
  ASSUME WholeInv, UNCHANGED <<enabled, realm, run>>, Grounded(svc'),
         \A h \in Hooks :
           /\ Sound(h, svc[h]) => Sound(h, svc'[h])
           /\ SetUp(h) /\ HandedOver(h) => SetUp(h)' /\ HandedOver(h)'
           /\ \A s \in HookSteps : \A got : Due(h, s, got, svc[h]) => Due(h, s, got, svc'[h])
  PROVE  CleanInv'
<1>1. TypeOK /\ CleanInv
  BY DEF WholeInv, SetupInv
<1>2. /\ EnabledHooks' = EnabledHooks /\ EnabledHooks \subseteq Hooks /\ Inherited'
      /\ \A r : /\ Current(r)' = Current(r) /\ Pending(r)' = Pending(r)
                /\ Clean(r)' = Clean(r) /\ Alone(r)' = Alone(r) /\ Rests(r)' = Rests(r)
      /\ \A h : Skips(h)' = Skips(h)
  BY <1>1, AdminAssumption DEF EnabledHooks, TypeOK, CleanInv, Inherited, Administers, SignsIn,
     Current, Turn, Pending, Clean, Alone, Rests, Skips
<1>3. ASSUME NEW r \in Runners, Clean(r)
      PROVE  Covered(r)' /\ Repairable(r)' /\ Underway(r)'
  <2>1. Covered(r) /\ Repairable(r) /\ Underway(r)
    BY <1>1, <1>3 DEF CleanInv
  <2>2. \A h \in Hooks : Settled(r, h) => Settled(r, h)'
    BY <1>2 DEF Settled
  <2>3. Covered(r)'
    BY <1>2, <2>1, <2>2 DEF Covered
  <2>4. Repairable(r)'
    BY <1>2, <2>1 DEF Repairable
  <2>5. Underway(r)'
    <3>1. run[r].step \in HookSteps => Current(r) \in Hooks
      BY CalmAt
    <3>2. PICK c : c = Current(r)
      OBVIOUS
    <3>3. SUFFICES ASSUME run[r].step \in HookSteps, c \notin run[r].stuck, ~Skips(c)
                   PROVE  /\ Due(c, run[r].step, run[r].got, svc'[c])
                          /\ c = "keycloak" => KcDue(run[r], run[r].step, realm.user)
      BY <1>2, <3>2 DEF Underway
    <3> QED  BY <2>1, <3>1, <3>2, <3>3 DEF Underway
  <2> QED  BY <2>3, <2>4, <2>5
<1> QED  BY <1>1, <1>2, <1>3 DEF CleanInv

\* Cassandra is seeded, a setting is changed, passwords are generated between
\* two runs, or nothing happens.
LEMMA CleanOthers ==
  ASSUME WholeInv, Seed \/ EditFilestash \/ NewPassword \/ UNCHANGED vars
  PROVE  CleanInv'
<1>1. /\ UNCHANGED <<enabled, realm, run>> /\ svc \in [Hooks -> SUBSET Things]
      /\ Grounded(svc) /\ CleanInv
      /\ {"neo4j", "cassandra", "lakekeeper", "filestash"} \subseteq Hooks
  BY DEF Seed, EditFilestash, NewPassword, vars, WholeInv, SetupInv, TypeOK, CleanInv,
         Hooks, BashHooks, PythonHooks
<1>2. CASE Seed
  <2>1. /\ svc["cassandra"] = {"unseeded"} /\ svc'["cassandra"] = {"default"}
        /\ \A h \in Hooks \ {"cassandra"} : svc'[h] = svc[h]
    BY <1>1, <1>2 DEF Seed, Grounded, Has
  <2>2. Grounded(svc')
    BY <1>1, <2>1 DEF Grounded
  <2>3. ASSUME NEW h \in Hooks
        PROVE  /\ Sound(h, svc[h]) => Sound(h, svc'[h])
               /\ SetUp(h) /\ HandedOver(h) => SetUp(h)' /\ HandedOver(h)'
               /\ \A s \in HookSteps : \A got : Due(h, s, got, svc[h]) => Due(h, s, got, svc'[h])
    <3>1. CASE h = "cassandra"
      <4>1. ~SetUp(h)
        BY <2>1, <3>1, Promises DEF SetUp
      <4> QED  BY <2>1, <3>1, <4>1 DEF Sound, Due
    <3>2. CASE h # "cassandra"
      <4>1. svc'[h] = svc[h]
        BY <2>1, <3>2
      <4>2. SetUp(h)' = SetUp(h) /\ HandedOver(h)' = HandedOver(h)
        BY <1>1, <4>1 DEF SetUp, HandedOver, Promised, Has, Administers, SignsIn
      <4> QED  BY <4>1, <4>2
    <3> QED  BY <3>1, <3>2
  <2> QED  BY <1>1, <2>2, <2>3, CleanOutside
<1>3. CASE EditFilestash
  <2>1. /\ svc'["filestash"] = svc["filestash"] \cup {"edit"}
        /\ \A h \in Hooks \ {"filestash"} : svc'[h] = svc[h]
    BY <1>1, <1>3 DEF EditFilestash
  <2>2. Grounded(svc')
    BY <1>1, <2>1 DEF Grounded
  <2>3. ASSUME NEW h \in Hooks
        PROVE  /\ Sound(h, svc[h]) => Sound(h, svc'[h])
               /\ SetUp(h) /\ HandedOver(h) => SetUp(h)' /\ HandedOver(h)'
               /\ \A s \in HookSteps : \A got : Due(h, s, got, svc[h]) => Due(h, s, got, svc'[h])
    <3>1. CASE h = "filestash"
      <4>1. SetUp(h) => SetUp(h)'
        BY <2>1, <3>1, Promises DEF SetUp
      <4>2. HandedOver(h)'
        BY <3>1 DEF HandedOver
      <4> QED  BY <2>1, <3>1, <4>1, <4>2 DEF Sound, Due
    <3>2. CASE h # "filestash"
      <4>1. svc'[h] = svc[h]
        BY <2>1, <3>2
      <4>2. SetUp(h)' = SetUp(h) /\ HandedOver(h)' = HandedOver(h)
        BY <1>1, <4>1 DEF SetUp, HandedOver, Promised, Has, Administers, SignsIn
      <4> QED  BY <4>1, <4>2
    <3> QED  BY <3>1, <3>2
  <2> QED  BY <1>1, <2>2, <2>3, CleanOutside
<1>4. CASE NewPassword
  <2>1. \A r \in Runners : run[r].step = "idle"
    BY <1>4 DEF NewPassword
  <2>2. PICK h \in Resetting : svc' = [svc EXCEPT ![h] = @ \ {"password"}]
    BY <1>4 DEF NewPassword
  <2>3. Grounded(svc')
    BY <1>1, <2>2 DEF Grounded, Resetting
  <2>4. Inherited' /\ \A r \in Runners : Rests(r)' /\ ~Clean(r)'
    BY <1>1, <2>1 DEF CleanInv, Inherited, Administers, SignsIn, Rests, Clean
  <2> QED  BY <2>3, <2>4 DEF CleanInv
<1>5. CASE UNCHANGED vars
  <2>1. UNCHANGED <<enabled, realm, run, svc>> /\ Grounded(svc')
    BY <1>1, <1>5 DEF vars
  <2>2. \A h : SetUp(h)' = SetUp(h) /\ HandedOver(h)' = HandedOver(h)
    BY <2>1 DEF SetUp, HandedOver, Promised, Has, Administers, SignsIn
  <2> QED  BY <2>1, <2>2, CleanOutside
<1> QED  BY <1>2, <1>3, <1>4, <1>5

\* Before the first run nothing is clean.
LEMMA CleanInit == Init => CleanInv
<1> SUFFICES ASSUME Init PROVE CleanInv
  OBVIOUS
<1>1. PICK old \in {{}, {"bootstrapped", "warehouse"}} :
        svc = [h \in Hooks |-> CASE h = "neo4j" -> {"default"}
                                 [] h = "cassandra" -> {"unseeded"}
                                 [] h = "lakekeeper" -> old
                                 [] OTHER -> {}]
  BY DEF Init
<1>2. {"neo4j", "cassandra", "lakekeeper"} \subseteq Hooks
  BY DEF Hooks, BashHooks
<1>3. Grounded(svc)
  <2> HIDE DEF Hooks
  <2> QED  BY <1>1, <1>2 DEF Grounded
<1>4. Inherited
  <2>1. realm \in {FreshRealm, HalfRealm, LegacyRealm} /\ {"admin", "boot"} \subseteq KcNames
    BY DEF Init, KcNames
  <2>2. CASE realm = FreshRealm
    BY <2>1, <2>2 DEF FreshRealm, NoAccount, Inherited
  <2>3. CASE realm = HalfRealm
    <3>1. realm.user["admin"].temp = FALSE
      BY <2>1, <2>3 DEF HalfRealm, FreshRealm
    <3> QED  BY <3>1 DEF Inherited
  <2>4. CASE realm = LegacyRealm
    <3>1. realm.user["admin"] = [id |-> 1, pw |-> TRUE, role |-> TRUE, temp |-> TRUE]
      BY <2>1, <2>4 DEF LegacyRealm
    <3> QED  BY <3>1 DEF Inherited, Administers, SignsIn
  <2> QED  BY <2>1, <2>2, <2>3, <2>4
<1>5. \A r \in Runners : Rests(r) /\ ~Clean(r)
  BY DEF Init, Fresh, Rests, Clean
<1> QED  BY <1>3, <1>4, <1>5 DEF CleanInv

\* Every step keeps the whole invariant.
LEMMA CleanNext ==
  ASSUME WholeInv, [Next]_vars
  PROVE  WholeInv'
<1>1. SetupInv'
  BY SetupNext DEF WholeInv
<1>2. CleanInv'
  BY CleanHook, CleanBegin, CleanEnd, CleanOthers DEF Next
<1> QED  BY <1>1, <1>2 DEF WholeInv

\* A run on its own without a fault ends with every enabled service set up and
\* handed over, whatever state earlier runs left it in, the stuck ones aside, and
\* none but n8n reported failed: services.py's admin-setup phase repairs what an
\* interrupted spin-up left half done.
THEOREM CleanSetsUp == Spec => []CleanRunSetsUp
<1>1. WholeInv => CleanRunSetsUp
  <2> SUFFICES ASSUME WholeInv, NEW r \in Runners, run[r].step = "parse", run[r].clean,
                      NEW h \in EnabledHooks \ run[r].stuck, ~Skips(h)
               PROVE  /\ SetUp(h) /\ HandedOver(h)
                      /\ run[r].res[h] = "failed" => h = "n8n"
    BY DEF CleanRunSetsUp
  <2>1. Clean(r) /\ run[r].todo = {}
    BY DEF Clean, WholeInv, CleanInv, Rests
  <2>2. Covered(r) /\ Pending(r) = {}
    BY <2>1 DEF WholeInv, CleanInv, Pending
  <2> QED  BY <2>2 DEF Covered, Settled
<1>2. Init => WholeInv
  BY SetupInit, CleanInit DEF WholeInv
<1> QED  BY <1>1, <1>2, CleanNext, PTL DEF Spec
=============================================================================

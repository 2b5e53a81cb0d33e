---------------------------- MODULE DeployProofs ----------------------------
(* The proofs about Deploy, for any stacks, rules and databases, any number *)
(* of runs, faults, releases and edits.  A run is a row of phases, and the  *)
(* invariant says of each what it leaves for the ones that follow, if it    *)
(* reports ok or nothing goes wrong.                                        *)
EXTENDS Deploy, FiniteSetTheorems, TLAPS

-----------------------------------------------------------------------------
\* How far a run has come: each set holds the phases from one on.
FromCompose   == {"compose"}
FromPreflight == FromCompose \cup {"preflight"}
FromGlobal    == FromPreflight \cup {"global"}
FromRedpanda  == FromGlobal \cup {"redpanda"}
FromOrphans   == FromRedpanda \cup {"orphans"}
FromCleanup   == FromOrphans \cup {"cleanup"}
FromRsync     == FromCleanup \cup {"rsync"}
FromFirewall  == FromRsync \cup {"firewall"}
FromEnv       == FromFirewall \cup {"env"}
FromWetty     == FromEnv \cup {"wetty"}
FromLogin     == FromWetty \cup {"login"}
ToDirs        == {"state", "ssh", "jq", "rclone", "restore", "dirs"}

\* A run is in one of these phases, or has come to its end without failing.
Reached(phases) == pc \in phases \/ (pc = "done" /\ run.status # "failed")

-----------------------------------------------------------------------------
\* The inductive invariant, one part per phase: what it leaves behind for the
\* phases that follow. OkMeansAsAsked and CleanRunConverges only speak of the
\* end of a run, NoPortWithoutRule of the state in which the containers are
\* started.

\* Nothing has gone wrong, or nothing that a phase did not report as ok: what
\* both OkMeansAsAsked and CleanRunConverges start from.
Trusted == run.clean \/ run.status = "ok"

\* A run that has failed is at its end; a clean one only fails at a database.
Failing == run.status = "failed" /\ pc # "idle" =>
             pc = "done" /\ (run.clean => \E s \in Wanted : Foreign(s))

\* ensure_data_dirs leaves a certificate that fits its key and is not old.
Certificate == /\ pc \in ToDirs => tls.key < runs /\ tls.crt < runs
               /\ Reached(FromLogin) => PairFits /\ ~tls.old

\* setup_wetty_ssh_agent leaves an agent that holds an authorised key.
Agent == Reached(FromEnv) /\ run.clean /\ "wetty" \in want.on =>
           wetty.live /\ wetty.key \in wetty.loaded \cap wetty.auth

\* service-env has written the .env of every stack it is to render.
Rendering == Reached(FromFirewall) /\ Trusted => \A s \in ToRender : local.env[s] = version

\* firewall-configure leaves no override without a rule in the checkout but
\* those it reports, and one for every rule if nothing goes wrong.
Opening == /\ pc \in FromRsync => local.open \subseteq want.rules \cup run.stuck
           /\ Reached(FromRsync) /\ Trusted => local.open = want.rules \cap Stacks

\* stack-sync has pushed the folder, the .env and the override of every wanted
\* stack.
Pushing == Reached(FromCleanup) /\ Trusted =>
             /\ Wanted \subseteq remote.folders
             /\ Wanted \cap local.open \subseteq remote.open
             /\ \A s \in Wanted : local.env[s] # 0 => remote.env[s] = local.env[s]

\* The cleanup script leaves no folder of an unwanted stack.
Cleaning == Reached(FromOrphans) /\ Trusted => remote.folders \subseteq want.on

\* firewall-sync leaves no override on the server that the checkout lacks,
\* however it ends, unless the run fails.
Sweeping == Reached(FromRedpanda) => remote.open \subseteq local.open

\* global-env has pinned the release's images.
Pinning == Reached(FromPreflight) /\ Trusted => remote.global = version

\* pg-preflight lets no foreign data directory pass that it could look at.
Looking == Reached(FromCompose) =>
             /\ \A s \in Databases \cap Wanted : Foreign(s) => s \in run.unsure
             /\ run.clean => run.unsure = {}

\* compose-up has started the targets as asked.
Starting == Reached({}) /\ Trusted =>
              /\ \A s \in (Targets \cap want.on) \ run.unsure : AsAsked(s)
              /\ run.status = "ok" => Targets \subseteq want.on

\* The inductive invariant.
DeployInv == /\ TypeOK /\ Failing /\ Certificate /\ Agent /\ Rendering /\ Opening /\ Pushing
             /\ Cleaning /\ Sweeping /\ Pinning /\ Looking /\ Starting

-----------------------------------------------------------------------------
\* The operators the phases share.

\* What a phase may report.
Statuses == {"ok", "partial", "failed"}
\* The values of run.
RunRecords == [kept : BOOLEAN, bare : {{}, Guarded}, tries : 0 .. Probes - 1,
               unsure : SUBSET Databases, stuck : SUBSET Stacks,
               status : Statuses, clean : BOOLEAN]

\* The faults are counted by finite sets, and no fault is the empty one.
LEMMA FewAreCounted ==
  ASSUME NEW S \in SUBSET Services, NEW T \in Few(S)
  PROVE  T \subseteq S /\ Cardinality(T) \in Nat /\ (Cardinality(T) = 0 => T = {})
<1>1. T \subseteq S /\ IsFiniteSet(T)
  BY DeployAssumption, FS_Subset DEF Few
<1> QED  BY <1>1, FS_CardinalityType, FS_EmptySet

\* A fault that may occur once counts as one.
LEMMA Counting == \A b \in BOOLEAN : Count(b) \in Nat /\ (Count(b) = 0 <=> ~b)
BY DEF Count

\* A fault that may occur once is a choice of two.
LEMMA Somewhere == \A n : Some(n) \subseteq BOOLEAN
BY DEF Some

\* What Report does to the run, the phase and the faults: the status is the
\* worst so far, and a run with a fault is no longer clean.
LEMMA Reporting ==
  ASSUME TypeOK, NEW n \in Nat, NEW s \in Statuses, NEW next, Report(n, s, next)
  PROVE  /\ faults' \in 0 .. MaxFaults
         /\ pc' = IF s = "failed" THEN "done" ELSE next
         /\ run' \in RunRecords
         /\ run'.bare = run.bare /\ run'.unsure = run.unsure /\ run'.stuck = run.stuck
         /\ run'.tries = run.tries
         /\ run'.clean => run.clean /\ n = 0
         /\ run'.status = "failed" <=> run.status = "failed" \/ s = "failed"
         /\ run'.status = "ok" => run.status = "ok" /\ s = "ok"
<1>1. run \in RunRecords
  BY DEF TypeOK, RunRecords, Statuses
<1>2. run' = [run EXCEPT !.status = Worse(@, s), !.clean = @ /\ n = 0]
  BY DEF Report
<1>3. Worse(run.status, s) \in Statuses
  BY DEF Worse, Statuses
<1>4. (run.clean /\ n = 0) \in BOOLEAN
  OBVIOUS
<1> DEFINE clean == run.clean /\ n = 0
<1> HIDE DEF clean
<1>5. run' = [run EXCEPT !.status = Worse(run.status, s), !.clean = clean]
  BY <1>2 DEF clean
<1>6. /\ run'.bare = run.bare /\ run'.unsure = run.unsure /\ run'.stuck = run.stuck
      /\ run'.tries = run.tries /\ run'.clean = clean /\ run'.status = Worse(run.status, s)
  BY <1>1, <1>5 DEF RunRecords
<1>7. run' \in RunRecords
  BY <1>1, <1>3, <1>4, <1>5 DEF RunRecords, clean
<1>8. faults' \in 0 .. MaxFaults /\ pc' = IF s = "failed" THEN "done" ELSE next
  BY DeployAssumption DEF Report, Spend, TypeOK
<1>9. /\ Worse(run.status, s) = "failed" <=> run.status = "failed" \/ s = "failed"
      /\ Worse(run.status, s) = "ok" => run.status = "ok" /\ s = "ok"
  BY <1>1 DEF Worse, RunRecords, Statuses
<1> QED  BY <1>6, <1>7, <1>8, <1>9 DEF clean

\* Where a run is, is a matter of comparing names of phases.
USE DEF Reached, ToDirs, FromLogin, FromWetty, FromEnv, FromFirewall, FromRsync, FromCleanup,
        FromOrphans, FromRedpanda, FromGlobal, FromPreflight, FromCompose

-----------------------------------------------------------------------------
\* The steps before the phases.

\* A step that only installs tools, or reads, keeps the invariant.
LEMMA KeptByPassing ==
  ASSUME DeployInv, NEW n \in Nat, NEW s \in Statuses, NEW next, Report(n, s, next),
         s = "failed" <=> n # 0, s = "ok" <=> n = 0, Fixed,
         UNCHANGED <<local, box, data, tls, wetty>>,
         NEW tools \in SUBSET {"jq", "rclone"}, remote' = [remote EXCEPT !.tools = tools],
         \/ pc = "state" /\ next = "ssh"
         \/ pc = "ssh" /\ next = "jq"
         \/ pc = "jq" /\ next = "rclone"
         \/ pc = "rclone" /\ next = "restore"
         \/ pc = "restore" /\ next = "dirs"
         \/ pc = "login" /\ next = "wetty"
  PROVE  DeployInv'
<1>1. /\ faults' \in 0 .. MaxFaults /\ pc' = IF n # 0 THEN "done" ELSE next
      /\ run' \in RunRecords
      /\ run'.status = "failed" <=> run.status = "failed" \/ n # 0
      /\ run'.clean => run.clean /\ n = 0
  BY Reporting DEF DeployInv
<1>2. UNCHANGED <<local, box, data, tls, wetty, want, version, runs, edits>>
  BY DEF Fixed
<1>3. TypeOK'
  <2>1. /\ remote'.tools = tools /\ remote'.open = remote.open
        /\ remote' \in [tools : SUBSET {"jq", "rclone"}, folders : SUBSET Stacks,
                 open : SUBSET Stacks, rp : BOOLEAN,
                 env : [Stacks -> Version0], global : Version0]
        /\ remote'.folders = remote.folders
    BY DEF DeployInv, TypeOK
  <2> QED  BY <1>1, <1>2, <2>1 DEF DeployInv, TypeOK, Version0, Made, RunRecords, Statuses
<1> QED
  BY <1>1, <1>2, <1>3
  DEF DeployInv, Failing, Certificate, Agent, Rendering, Opening, Pushing, Cleaning,
      Sweeping, Pinning, Looking, Starting, PairFits

\* The steps of that kind.
LEMMA KeptByPasses ==
  ASSUME DeployInv,
         ReadState \/ Ensure("jq", "jq", "rclone") \/ Ensure("rclone", "rclone", "restore")
         \/ Restore \/ DockerLogin
  PROVE  DeployInv'
<1>1. remote = [remote EXCEPT !.tools = remote.tools]
      /\ remote.tools \in SUBSET {"jq", "rclone"}
  BY DEF DeployInv, TypeOK
<1>2. ASSUME NEW bad \in BOOLEAN
      PROVE  /\ Count(bad) \in Nat /\ If(~bad, "failed") \in Statuses
             /\ If(~bad, "failed") = "failed" <=> Count(bad) # 0
             /\ If(~bad, "failed") = "ok" <=> Count(bad) = 0
  BY Counting DEF If, Statuses
<1>3. CASE ReadState
  <2>1. PICK bad \in BOOLEAN : Report(Count(bad), If(~bad, "failed"), "ssh")
    BY <1>3, Somewhere DEF ReadState
  <2>2. pc = "state" /\ Fixed /\ UNCHANGED <<local, box, data, tls, wetty, remote>>
    BY <1>3 DEF ReadState, server
  <2> QED  BY <1>1, <1>2, <2>1, <2>2, KeptByPassing
<1>4. CASE Restore
  <2>1. PICK bad \in BOOLEAN : Report(Count(bad), If(~bad, "failed"), "dirs")
    BY <1>4, Somewhere DEF Restore
  <2>2. pc = "restore" /\ Fixed /\ UNCHANGED <<local, box, data, tls, wetty, remote>>
    BY <1>4 DEF Restore, server
  <2> QED  BY <1>1, <1>2, <2>1, <2>2, KeptByPassing
<1>5. CASE DockerLogin
  <2>1. PICK bad \in BOOLEAN : Report(Count(bad), If(~bad, "failed"), "wetty")
    BY <1>5, Somewhere DEF DockerLogin
  <2>2. pc = "login" /\ Fixed /\ UNCHANGED <<local, box, data, tls, wetty, remote>>
    BY <1>5 DEF DockerLogin, server
  <2> QED  BY <1>1, <1>2, <2>1, <2>2, KeptByPassing
<1>6. ASSUME NEW tool \in {"jq", "rclone"}, NEW at, NEW next, Ensure(tool, at, next),
             <<at, next>> \in {<<"jq", "rclone">>, <<"rclone", "restore">>}
      PROVE  DeployInv'
  <2>1. PICK r \in {"ok", "refused", "lost"} :
          /\ Report(Cost(r), If(r = "ok", "failed"), next)
          /\ remote' = IF Applied(r) THEN [remote EXCEPT !.tools = @ \cup {tool}] ELSE remote
    BY <1>6 DEF Ensure, Calls
  <2>2. pc = at /\ Fixed /\ UNCHANGED <<local, box, data, tls, wetty>>
    BY <1>6 DEF Ensure
  <2>3. /\ Cost(r) \in Nat /\ If(r = "ok", "failed") \in Statuses
        /\ If(r = "ok", "failed") = "failed" <=> Cost(r) # 0
        /\ If(r = "ok", "failed") = "ok" <=> Cost(r) = 0
    BY DEF Cost, If, Statuses
  <2>4. \E tools \in SUBSET {"jq", "rclone"} : remote' = [remote EXCEPT !.tools = tools]
    BY <1>1, <2>1
  <2> QED  BY <1>6, <2>1, <2>2, <2>3, <2>4, KeptByPassing
<1> QED  BY <1>3, <1>4, <1>5, <1>6

\* wait_for_ssh.
LEMMA KeptByProbe ==
  ASSUME DeployInv, Probe
  PROVE  DeployInv'
<1>1. remote = [remote EXCEPT !.tools = remote.tools]
      /\ remote.tools \in SUBSET {"jq", "rclone"}
  BY DEF DeployInv, TypeOK
<1>2. pc = "ssh" /\ Fixed /\ UNCHANGED <<local, box, data, tls, wetty, remote>>
  BY DEF Probe, server
<1>3. CASE Report(0, "ok", "jq")
  BY <1>1, <1>2, <1>3, KeptByPassing DEF Statuses
<1>4. CASE Report(1, "failed", "jq")
  BY <1>1, <1>2, <1>4, KeptByPassing DEF Statuses
<1>5. CASE /\ run.tries + 1 < Probes
           /\ run' = [run EXCEPT !.tries = @ + 1] /\ UNCHANGED <<pc, faults>>
  <2>1. /\ run' \in RunRecords /\ run'.status = run.status /\ run'.clean = run.clean
    BY <1>5, DeployAssumption DEF DeployInv, TypeOK, RunRecords, Statuses
  <2>2. TypeOK'
    BY <1>2, <1>5, <2>1 DEF DeployInv, TypeOK, Fixed, Version0, Made, RunRecords, Statuses
  <2> QED
    BY <1>2, <1>5, <2>1, <2>2
    DEF DeployInv, Fixed, Failing, Certificate, Agent, Rendering, Opening, Pushing, Cleaning,
        Sweeping, Pinning, Looking, Starting
<1> QED  BY <1>3, <1>4, <1>5 DEF Probe

\* A run begins: the certificate is that of an earlier run.
LEMMA KeptByStartRun ==
  ASSUME DeployInv, StartRun
  PROVE  DeployInv'
<1>1. /\ pc' = "state" /\ runs' = runs + 1 /\ runs < MaxRuns
      /\ local' = local \/ local' = Checkout
      /\ UNCHANGED <<want, version, remote, box, data, tls, wetty, faults, edits>>
  BY DEF StartRun, server
<1>2. run' \in RunRecords /\ run'.status = "ok"
  <2>1. run \in RunRecords /\ 0 \in 0 .. Probes - 1
    BY DeployAssumption DEF DeployInv, TypeOK, RunRecords, Statuses
  <2>2. run' = [kept |-> run.kept, bare |-> run.bare, tries |-> 0, unsure |-> {}, stuck |-> {},
                status |-> "ok", clean |-> TRUE]
    BY <2>1 DEF StartRun, RunRecords
  <2> QED  BY <2>1, <2>2 DEF RunRecords, Statuses
<1>3. Checkout \in [env : [Stacks -> Version0], open : SUBSET Stacks, rp : BOOLEAN]
  BY DEF Checkout, Version0, DeployInv, TypeOK
<1>4. TypeOK'
  <2>1. runs' \in 0 .. MaxRuns /\ Made \subseteq Made'
    BY <1>1, DeployAssumption DEF DeployInv, TypeOK, Made
  <2>2. box' \in [Stacks -> [up : BOOLEAN, image : Version0, env : Version0,
                             open : BOOLEAN, read : Made' \cup {1}]]
    BY <1>1, <2>1 DEF DeployInv, TypeOK
  <2>3. /\ tls' \in [key : Made', crt : Made', bundle : Made', old : BOOLEAN]
        /\ wetty' \in [key : Made', pub : Made', auth : SUBSET Made', agent : Made',
                       live : BOOLEAN, loaded : SUBSET Made']
    BY <1>1, <2>1 DEF DeployInv, TypeOK
  <2> QED  BY <1>1, <1>2, <1>3, <2>1, <2>2, <2>3 DEF DeployInv, TypeOK, Version0, RunRecords, Statuses
<1>5. tls.key < runs' /\ tls.crt < runs'
  BY <1>1 DEF DeployInv, TypeOK, Made
<1> QED
  BY <1>1, <1>2, <1>4, <1>5
  DEF DeployInv, Failing, Certificate, Agent, Rendering, Opening, Pushing, Cleaning,
      Sweeping, Pinning, Looking, Starting

\* Between the runs the invariant says nothing but the types.
LEMMA Idling ==
  ASSUME TypeOK', pc' = "idle"
  PROVE  DeployInv'
BY DEF DeployInv, Failing, Certificate, Agent, Rendering, Opening, Pushing, Cleaning,
       Sweeping, Pinning, Looking, Starting

\* What a container reads at its start.
LEMMA ReadsAreTyped ==
  ASSUME NEW s, NEW r, NEW t, NEW w, r.rp \in BOOLEAN, t.crt \in Made, w.agent \in Made,
         runs \in Nat
  PROVE  Read(s, r, t, w) \in Made \cup {1}
BY DEF Read, Count, Made

\* A new server is typed.
LEMMA NewServersAreTyped ==
  ASSUME runs \in Nat, version \in Nat
  PROVE  LET b == NewServer({})
         IN /\ b.remote \in [tools : SUBSET {"jq", "rclone"}, folders : SUBSET Stacks,
                             open : SUBSET Stacks, rp : BOOLEAN,
                             env : [Stacks -> Version0], global : Version0]
            /\ b.remote.open \subseteq b.remote.folders
            /\ b.box \in [Stacks -> [up : BOOLEAN, image : Version0, env : Version0,
                                     open : BOOLEAN, read : Made \cup {1}]]
            /\ b.data \in [Databases -> Version0]
            /\ b.tls \in [key : Made, crt : Made, bundle : Made, old : BOOLEAN]
            /\ b.wetty \in [key : Made, pub : Made, auth : SUBSET Made, agent : Made,
                            live : BOOLEAN, loaded : SUBSET Made]
BY DEF NewServer, Gone, Version0, Made

\* What the operator, time and the server do between the runs.
LEMMA KeptBetweenRuns ==
  ASSUME DeployInv,
         Toggle \/ ToggleRule \/ Upgrade \/ Age \/ Discard \/ Reboot \/ Rebuild
  PROVE  DeployInv'
<1> SUFFICES TypeOK' /\ pc' = "idle"
  BY Idling
<1>1. /\ pc' = "idle" /\ edits' \in 0 .. MaxEdits /\ UNCHANGED <<run, faults, runs, local>>
      /\ TypeOK
  BY DeployAssumption DEF Toggle, ToggleRule, Upgrade, Age, Discard, Reboot, Rebuild, Edit,
     DeployInv, TypeOK
<1> USE <1>1
<1>2. CASE Toggle \/ ToggleRule
  <2>1. want' \in [on : SUBSET Services, rules : SUBSET Ruled]
        /\ UNCHANGED <<version, remote, box, data, tls, wetty>>
    BY <1>2 DEF Toggle, ToggleRule, Edit, server, TypeOK
  <2> QED  BY <2>1 DEF TypeOK, Version0, Made
<1>3. CASE Upgrade
  <2>1. /\ version' \in 1 .. MaxVersion /\ Version0 \subseteq Version0'
        /\ UNCHANGED <<want, remote, box, data, tls, wetty>>
    BY <1>3, DeployAssumption DEF Upgrade, Edit, server, TypeOK, Version0
  <2>2. box' \in [Stacks -> [up : BOOLEAN, image : Version0', env : Version0',
                             open : BOOLEAN, read : Made \cup {1}]]
    BY <2>1 DEF TypeOK
  <2>3. /\ remote' \in [tools : SUBSET {"jq", "rclone"}, folders : SUBSET Stacks,
                        open : SUBSET Stacks, rp : BOOLEAN,
                        env : [Stacks -> Version0'], global : Version0']
        /\ local' \in [env : [Stacks -> Version0'], open : SUBSET Stacks, rp : BOOLEAN]
        /\ data' \in [Databases -> Version0']
    BY <2>1 DEF TypeOK
  <2> QED  BY <2>1, <2>2, <2>3 DEF TypeOK, Made
<1>4. CASE Age
  <2>1. /\ tls' \in [key : Made, crt : Made, bundle : Made, old : BOOLEAN]
        /\ UNCHANGED <<want, version, remote, box, data, wetty>>
    BY <1>4 DEF Age, Edit, TypeOK
  <2> QED  BY <2>1 DEF TypeOK, Version0, Made
<1>5. CASE Discard
  <2>1. PICK s \in Databases :
          /\ data' = [data EXCEPT ![s] = 0] /\ box' = [box EXCEPT ![s] = Gone]
          /\ UNCHANGED <<want, version, remote, tls, wetty>>
    BY <1>5 DEF Discard, Edit
  <2>2. Gone \in [up : BOOLEAN, image : Version0, env : Version0,
                  open : BOOLEAN, read : Made \cup {1}] /\ 0 \in Version0
    BY DEF Gone, Version0, Made, TypeOK
  <2>3. /\ box' \in [Stacks -> [up : BOOLEAN, image : Version0, env : Version0,
                                open : BOOLEAN, read : Made \cup {1}]]
        /\ data' \in [Databases -> Version0]
    BY <2>1, <2>2 DEF TypeOK
  <2> QED  BY <2>1, <2>3 DEF TypeOK, Version0, Made
<1>6. CASE Reboot
  <2>1. /\ wetty' = [wetty EXCEPT !.agent = 0, !.live = FALSE, !.loaded = {}]
        /\ box' = [s \in Stacks |->
                    IF box[s].up
                    THEN [box[s] EXCEPT !.read = Read(s, remote, tls, wetty')]
                    ELSE box[s]]
        /\ UNCHANGED <<want, version, remote, data, tls>>
    BY <1>6 DEF Reboot, Edit
  <2>2. wetty' \in [key : Made, pub : Made, auth : SUBSET Made, agent : Made,
                    live : BOOLEAN, loaded : SUBSET Made]
    <3>1. 0 \in Made
      BY DEF TypeOK, Made
    <3> QED  BY <2>1, <3>1 DEF TypeOK
  <2>3. \A s \in Stacks : Read(s, remote, tls, wetty') \in Made \cup {1}
    BY <2>2, ReadsAreTyped DEF TypeOK
  <2>4. box' \in [Stacks -> [up : BOOLEAN, image : Version0, env : Version0,
                             open : BOOLEAN, read : Made \cup {1}]]
    BY <2>1, <2>3 DEF TypeOK
  <2> QED  BY <2>1, <2>2, <2>4 DEF TypeOK, Version0, Made
<1>7. CASE Rebuild
  <2> DEFINE b == NewServer({})
  <2>1. /\ remote' = b.remote /\ box' = b.box /\ data' = b.data
        /\ tls' = b.tls /\ wetty' = b.wetty /\ UNCHANGED <<want, version>>
    BY <1>7 DEF Rebuild, Edit
  <2>2. runs \in Nat /\ version \in Nat
    BY DEF TypeOK
  <2> HIDE DEF b
  <2>3. /\ remote' \in [tools : SUBSET {"jq", "rclone"}, folders : SUBSET Stacks,
                        open : SUBSET Stacks, rp : BOOLEAN,
                        env : [Stacks -> Version0], global : Version0]
        /\ remote'.open \subseteq remote'.folders
        /\ box' \in [Stacks -> [up : BOOLEAN, image : Version0, env : Version0,
                                open : BOOLEAN, read : Made \cup {1}]]
        /\ data' \in [Databases -> Version0]
        /\ tls' \in [key : Made, crt : Made, bundle : Made, old : BOOLEAN]
        /\ wetty' \in [key : Made, pub : Made, auth : SUBSET Made, agent : Made,
                       live : BOOLEAN, loaded : SUBSET Made]
    BY <2>1, <2>2, NewServersAreTyped DEF b
  <2> QED  BY <2>1, <2>3 DEF TypeOK, Version0, Made
<1> QED  BY <1>2, <1>3, <1>4, <1>5, <1>6, <1>7

\* A run ends.
LEMMA KeptByFinish ==
  ASSUME DeployInv, Finish
  PROVE  DeployInv'
<1>1. pc' = "idle" /\ TypeOK'
  BY DEF Finish, Fixed, server, DeployInv, TypeOK, Version0, Made
<1> QED  BY <1>1, Idling

\* The certificate that an earlier run has left half done is replaced.
LEMMA KeptByEnsureDataDirs ==
  ASSUME DeployInv, EnsureDataDirs
  PROVE  DeployInv'
<1>1. PICK stop \in {"none", "before", "key", "crt", "after"} :
        /\ Report(Count(stop # "none"), If(stop = "none", "failed"), "login")
        /\ tls' = Installed(stop)
  BY DEF EnsureDataDirs
<1>2. /\ pc = "dirs"
      /\ UNCHANGED <<local, remote, box, data, wetty, want, version, runs, edits>>
  BY DEF EnsureDataDirs, Fixed
<1>3. /\ Count(stop # "none") \in Nat /\ (Count(stop # "none") = 0 <=> stop = "none")
      /\ If(stop = "none", "failed") \in Statuses
      /\ If(stop = "none", "failed") = "failed" <=> stop # "none"
  BY Counting DEF If, Statuses
<1>4. /\ faults' \in 0 .. MaxFaults /\ pc' = IF stop = "none" THEN "login" ELSE "done"
      /\ run' \in RunRecords
      /\ run'.status = "failed" <=> run.status = "failed" \/ stop # "none"
      /\ run'.clean => stop = "none"
  BY <1>1, <1>3, Reporting DEF DeployInv
<1>5. runs \in Nat /\ tls \in [key : Made, crt : Made, bundle : Made, old : BOOLEAN]
      /\ tls.key < runs /\ tls.crt < runs /\ runs \in Made /\ Made \subseteq Nat
  BY <1>2 DEF DeployInv, TypeOK, Certificate, Made
<1>6. tls' \in [key : Made, crt : Made, bundle : Made, old : BOOLEAN]
  BY <1>1, <1>5 DEF Installed
<1>7. TypeOK'
  BY <1>2, <1>4, <1>6 DEF DeployInv, TypeOK, Version0, Made, RunRecords, Statuses
<1>8. stop = "none" => PairFits' /\ ~tls'.old
  <2>1. CASE NeedCert /\ stop = "none"
    <3>1. tls'.key = runs /\ tls'.crt = runs /\ tls'.bundle = runs
          /\ tls'.old = (tls.old /\ runs = tls.crt)
      BY <1>1, <2>1 DEF Installed
    <3>2. runs # tls.crt /\ runs # 0
      <4>1. tls.key \in Nat /\ tls.crt \in Nat
        BY <1>5 DEF Made
      <4> QED  BY <1>5, <4>1
    <3> QED  BY <3>1, <3>2 DEF PairFits
  <2>2. CASE ~NeedCert /\ stop = "none"
    <3>1. tls'.key = tls.key /\ tls'.crt = tls.crt /\ tls'.bundle = tls.crt
          /\ tls'.old = (tls.old /\ tls.crt = tls.crt)
      BY <1>1, <2>2 DEF Installed
    <3>2. ~tls.old /\ tls.crt # 0 /\ tls.key = tls.crt
      BY <2>2 DEF NeedCert
    <3> QED  BY <3>1, <3>2 DEF PairFits
  <2> QED  BY <2>1, <2>2
<1> QED
  BY <1>2, <1>4, <1>7, <1>8
  DEF DeployInv, Failing, Certificate, Agent, Rendering, Opening, Pushing, Cleaning,
      Sweeping, Pinning, Looking, Starting

\* setup_wetty_ssh_agent.
LEMMA KeptBySetupWetty ==
  ASSUME DeployInv, SetupWetty
  PROVE  DeployInv'
<1>1. /\ pc = "wetty"
      /\ UNCHANGED <<local, remote, box, data, tls, want, version, runs, edits>>
  BY DEF SetupWetty, Fixed
<1>2. PICK o \in {"ok", "refused", "lost", "add", "keygen", "half", "agent"} :
        LET s == If(o \notin {"refused", "lost", "half"}, "failed")
        IN /\ Report(Cost(o), s, "env")
           /\ wetty' = IF "wetty" \in want.on THEN WettyAfter(o) ELSE wetty
  <2>1. CASE "wetty" \in want.on
    BY <2>1 DEF SetupWetty, WettyOutcomes
  <2>2. CASE "wetty" \notin want.on
    BY <2>2 DEF SetupWetty, Cost, If
  <2> QED  BY <2>1, <2>2
<1> DEFINE bad == o \in {"refused", "lost", "half"}
           s == If(o \notin {"refused", "lost", "half"}, "failed")
<1>3. /\ Cost(o) \in Nat /\ (Cost(o) = 0 <=> o = "ok") /\ s \in Statuses
      /\ s = "failed" <=> bad
  BY DEF Cost, If, Statuses
<1> HIDE DEF s
<1>4. /\ faults' \in 0 .. MaxFaults /\ pc' = IF bad THEN "done" ELSE "env"
      /\ run' \in RunRecords
      /\ run'.status = "failed" <=> run.status = "failed" \/ bad
      /\ run'.clean => run.clean /\ o = "ok"
  BY <1>2, <1>3, Reporting DEF DeployInv, s
<1>5. runs \in Made /\ 0 \in Made
      /\ wetty \in [key : Made, pub : Made, auth : SUBSET Made, agent : Made,
                    live : BOOLEAN, loaded : SUBSET Made]
  BY DEF DeployInv, TypeOK, Made
<1>6. wetty' \in [key : Made, pub : Made, auth : SUBSET Made, agent : Made,
                  live : BOOLEAN, loaded : SUBSET Made]
  BY <1>2, <1>5 DEF WettyAfter
<1>7. TypeOK'
  BY <1>1, <1>4, <1>6 DEF DeployInv, TypeOK, Version0, Made, RunRecords, Statuses
<1>8. o = "ok" /\ "wetty" \in want.on =>
        wetty'.live /\ wetty'.key \in wetty'.loaded \cap wetty'.auth
  BY <1>2, <1>5 DEF WettyAfter, AgentOk
<1> QED
  BY <1>1, <1>4, <1>7, <1>8
  DEF DeployInv, Failing, Certificate, Agent, Rendering, Opening, Pushing, Cleaning,
      Sweeping, Pinning, Looking, Starting, PairFits

-----------------------------------------------------------------------------
\* The phases.

\* service-env.
LEMMA KeptByServiceEnv ==
  ASSUME DeployInv, ServiceEnv
  PROVE  DeployInv'
<1>1. /\ pc = "env"
      /\ UNCHANGED <<remote, box, data, tls, wetty, want, version, runs, edits>>
  BY DEF ServiceEnv, Fixed, server
<1>2. \E n \in Nat, s \in Statuses :
        /\ Report(n, s, "firewall")
        /\ s = "ok" \/ n = 0 => \A k \in ToRender : local'.env[k] = version
        /\ s = "failed" => n # 0
        /\ local' \in [env : [Stacks -> Version0], open : SUBSET Stacks, rp : BOOLEAN]
  <2>1. /\ local \in [env : [Stacks -> Version0], open : SUBSET Stacks, rp : BOOLEAN]
        /\ version \in Version0 /\ ToRender \subseteq Stacks /\ ToRender \in SUBSET Services
    BY DEF DeployInv, TypeOK, Version0, ToRender, Wanted, Services
  <2>2. CASE Report(1, "failed", "firewall") /\ UNCHANGED local
    BY <2>1, <2>2 DEF Statuses
  <2>3. ASSUME NEW unwritten \in Few(ToRender), NEW block \in Some(1),
               local' = [local EXCEPT !.env =
                  [s \in Stacks |-> IF s \in ToRender \ unwritten THEN version ELSE @[s]]],
               Report(Cardinality(unwritten) + Count(block),
                      IF unwritten = {} /\ ~block THEN "ok"
                      ELSE IF ~block /\ unwritten = ToRender THEN "failed"
                      ELSE "partial", "firewall")
        PROVE  \E n \in Nat, s \in Statuses :
                 /\ Report(n, s, "firewall")
                 /\ s = "ok" \/ n = 0 => \A k \in ToRender : local'.env[k] = version
                 /\ s = "failed" => n # 0
                 /\ local' \in [env : [Stacks -> Version0], open : SUBSET Stacks, rp : BOOLEAN]
    <3> DEFINE n == Cardinality(unwritten) + Count(block)
               s == IF unwritten = {} /\ ~block THEN "ok"
                    ELSE IF ~block /\ unwritten = ToRender THEN "failed" ELSE "partial"
    <3>1. /\ n \in Nat /\ (n = 0 => unwritten = {} /\ ~block)
      BY <2>1, FewAreCounted, Counting, Somewhere
    <3>2. s \in Statuses /\ (s = "ok" => unwritten = {}) /\ (s = "failed" => n # 0)
      BY <3>1 DEF Statuses
    <3>3. local' \in [env : [Stacks -> Version0], open : SUBSET Stacks, rp : BOOLEAN]
      BY <2>1, <2>3
    <3>4. unwritten = {} => \A k \in ToRender : local'.env[k] = version
      BY <2>1, <2>3
    <3>5. Report(n, s, "firewall")
      BY <2>3
    <3> HIDE DEF n, s
    <3> QED  BY <3>1, <3>2, <3>3, <3>4, <3>5
  <2> QED  BY <2>2, <2>3 DEF ServiceEnv
<1>3. PICK n \in Nat, s \in Statuses :
        /\ Report(n, s, "firewall")
        /\ s = "ok" \/ n = 0 => \A k \in ToRender : local'.env[k] = version
        /\ s = "failed" => n # 0
        /\ local' \in [env : [Stacks -> Version0], open : SUBSET Stacks, rp : BOOLEAN]
  BY <1>2
<1>4. /\ faults' \in 0 .. MaxFaults /\ pc' = IF s = "failed" THEN "done" ELSE "firewall"
      /\ run' \in RunRecords /\ run'.bare = run.bare
      /\ run'.status = "failed" <=> run.status = "failed" \/ s = "failed"
      /\ run'.status = "ok" => s = "ok"
      /\ run'.clean => run.clean /\ n = 0
  BY <1>3, Reporting DEF DeployInv
<1>5. TypeOK'
  BY <1>1, <1>3, <1>4 DEF DeployInv, TypeOK, Version0, Made, RunRecords, Statuses
<1>6. ToRender' = ToRender
  BY <1>1, <1>4 DEF ToRender, Wanted
<1> QED
  BY <1>1, <1>3, <1>4, <1>5, <1>6
  DEF DeployInv, Failing, Certificate, Agent, Rendering, Opening, Pushing, Cleaning,
      Sweeping, Pinning, Looking, Starting, PairFits, Trusted

\* firewall-configure.
LEMMA KeptByConfigureFirewall ==
  ASSUME DeployInv, ConfigureFirewall
  PROVE  DeployInv'
<1>1. /\ pc = "firewall"
      /\ UNCHANGED <<remote, box, data, tls, wetty, want, version, runs, edits>>
  BY DEF ConfigureFirewall, Fixed, server
<1>2. /\ TypeOK /\ run \in RunRecords /\ run.status # "failed"
      /\ local \in [env : [Stacks -> Version0], open : SUBSET Stacks, rp : BOOLEAN]
      /\ want.rules \subseteq Services /\ Stacks \subseteq Services
  BY <1>1, DeployAssumption
  DEF DeployInv, TypeOK, Services, RunRecords, Statuses, Failing
<1>3. CASE Report(1, "failed", "rsync") /\ UNCHANGED local
  <2>1. /\ faults' \in 0 .. MaxFaults /\ pc' = "done" /\ run' \in RunRecords
        /\ run'.status = "failed" /\ ~run'.clean
    BY <1>2, <1>3, Reporting DEF Statuses
  <2>2. TypeOK'
    BY <1>1, <1>3, <2>1 DEF DeployInv, TypeOK, Version0, Made, RunRecords, Statuses
  <2> QED
    BY <2>1, <2>2
    DEF DeployInv, Failing, Certificate, Agent, Rendering, Opening, Pushing, Cleaning,
        Sweeping, Pinning, Looking, Starting
<1>4. ASSUME NEW unread \in Few((want.rules \cap Stacks) \ {"redpanda"}),
             NEW unwritten \in Few(Compiled(unread)), NEW stuck \in Few(Stale(unread)),
             NEW config \in Some(1),
             local' = [local EXCEPT
               !.open = (@ \ (Stale(unread) \ stuck))
                           \cup (Compiled(unread) \ unwritten),
               !.rp = IF config THEN @ ELSE "redpanda" \in want.rules],
             Spend(Cardinality(unread) + Cardinality(unwritten)
                     + Cardinality(stuck) + Count(config)),
             LET ok == Skipped(unread) \cup unwritten \cup stuck = {} /\ ~config
             IN run' = [run EXCEPT
                  !.status = Worse(@, If(ok, "partial")), !.stuck = stuck,
                  !.clean  = @ /\ faults' = faults],
             pc' = "rsync"
      PROVE  DeployInv'
  <2> DEFINE n == Cardinality(unread) + Cardinality(unwritten) + Cardinality(stuck) + Count(config)
             ok == Skipped(unread) \cup unwritten \cup stuck = {} /\ ~config
             clean == run.clean /\ faults' = faults
             status == Worse(run.status, If(ok, "partial"))
             open == (local.open \ (Stale(unread) \ stuck)) \cup (Compiled(unread) \ unwritten)
             rp == IF config THEN local.rp ELSE "redpanda" \in want.rules
  <2>1. /\ Compiled(unread) \subseteq want.rules \cap Stacks
        /\ Stale(unread) \subseteq local.open /\ local.open \subseteq Stacks
    BY <1>2 DEF Compiled, Stale
  <2>2. /\ n \in Nat
        /\ n = 0 => unread = {} /\ unwritten = {} /\ stuck = {}
        /\ unread \subseteq want.rules \cap Stacks /\ unwritten \subseteq Compiled(unread)
        /\ stuck \subseteq Stale(unread)
    <3>1. /\ (want.rules \cap Stacks) \ {"redpanda"} \in SUBSET Services
          /\ Compiled(unread) \in SUBSET Services /\ Stale(unread) \in SUBSET Services
      BY <1>2, <2>1
    <3>2. Cardinality(unread) \in Nat /\ (Cardinality(unread) = 0 => unread = {})
          /\ unread \subseteq (want.rules \cap Stacks) \ {"redpanda"}
      BY <3>1, FewAreCounted
    <3>3. Cardinality(unwritten) \in Nat /\ (Cardinality(unwritten) = 0 => unwritten = {})
          /\ unwritten \subseteq Compiled(unread)
      BY <3>1, FewAreCounted
    <3>4. Cardinality(stuck) \in Nat /\ (Cardinality(stuck) = 0 => stuck = {})
          /\ stuck \subseteq Stale(unread)
      BY <3>1, FewAreCounted
    <3>5. Count(config) \in Nat
      BY Counting, Somewhere
    <3> QED  BY <3>2, <3>3, <3>4, <3>5
  <2>3. /\ faults' \in 0 .. MaxFaults /\ faults' = faults + n
    BY <1>2, <1>4, <2>2, DeployAssumption DEF Spend, TypeOK
  <2>4. /\ status \in Statuses /\ status # "failed"
        /\ status = "ok" => ok /\ run.status = "ok"
    BY <1>2 DEF Worse, If, Statuses, RunRecords
  <2>5. clean \in BOOLEAN /\ (clean => run.clean /\ n = 0) /\ rp \in BOOLEAN
    <3>1. faults' = faults => n = 0
      <4>1. faults \in Nat
        BY <1>2 DEF TypeOK
      <4> HIDE DEF n
      <4> QED  BY <2>2, <2>3, <4>1
    <3>2. rp \in BOOLEAN
      <4>1. local.rp \in BOOLEAN /\ ("redpanda" \in want.rules) \in BOOLEAN
        BY <1>2
      <4> QED  BY <4>1, Zenon
    <3>3. clean \in BOOLEAN
      BY Zenon
    <3>4. clean => run.clean /\ n = 0
      BY <3>1, Zenon
    <3> HIDE DEF n, rp, clean
    <3> QED  BY <3>2, <3>3, <3>4
  <2>6. /\ run' = [run EXCEPT !.status = status, !.stuck = stuck, !.clean = clean]
        /\ local' = [local EXCEPT !.open = open, !.rp = rp]
    BY <1>4
  <2>7. /\ open \subseteq Stacks /\ open \subseteq want.rules \cup stuck
        /\ stuck \in SUBSET Stacks
    BY <2>1, <2>2 DEF Stale
  <2>8. ok \/ clean => open = want.rules \cap Stacks
    <3>1. ok \/ clean => unread = {} /\ unwritten = {} /\ stuck = {}
      BY <2>2, <2>5 DEF Skipped, Compiled
    <3> QED  BY <1>2, <3>1 DEF Compiled, Stale
  <2> HIDE DEF ok, clean, status, open, rp, n
  <2>9. /\ run' \in RunRecords /\ run'.status = status /\ run'.stuck = stuck
        /\ run'.clean = clean /\ run'.bare = run.bare
    BY <1>2, <2>4, <2>5, <2>6, <2>7 DEF RunRecords
  <2>10. /\ local' \in [env : [Stacks -> Version0], open : SUBSET Stacks, rp : BOOLEAN]
         /\ local'.open = open /\ local'.env = local.env
    BY <1>2, <2>5, <2>6, <2>7
  <2>11. TypeOK'
    BY <1>1, <1>4, <2>3, <2>9, <2>10 DEF DeployInv, TypeOK, Version0, Made, RunRecords, Statuses
  <2>12. ToRender' = ToRender
    BY <1>1, <2>9 DEF ToRender, Wanted
  <2>13. Trusted' => ok \/ clean
    BY <2>4, <2>9 DEF Trusted
  <2>14. Trusted' => Trusted
    BY <2>4, <2>5, <2>9 DEF Trusted
  <2> QED
    BY <1>1, <1>2, <1>4, <2>4, <2>5, <2>7, <2>8, <2>9, <2>10, <2>11, <2>12, <2>13, <2>14
    DEF DeployInv, Failing, Certificate, Agent, Rendering, Opening, Pushing, Cleaning,
        Sweeping, Pinning, Looking, Starting, PairFits
<1> QED  BY <1>3, <1>4 DEF ConfigureFirewall

\* The values of remote.
Remotes == [tools : SUBSET {"jq", "rclone"}, folders : SUBSET Stacks,
            open : SUBSET Stacks, rp : BOOLEAN,
            env : [Stacks -> Version0], global : Version0]
\* The values of a container.
Boxes == [up : BOOLEAN, image : Version0, env : Version0,
          open : BOOLEAN, read : Made \cup {1}]

\* The phases that only change the server's folders.
LEMMA Filing ==
  ASSUME DeployInv, NEW n \in Nat, NEW s \in Statuses, NEW next, Report(n, s, next), Fixed,
         next \in {"cleanup", "orphans", "redpanda", "global", "preflight"},
         remote' \in Remotes, remote'.open \subseteq remote'.folders,
         UNCHANGED <<local, data, tls, wetty>>, box' \in [Stacks -> Boxes]
  PROVE  /\ TypeOK' /\ pc' = IF s = "failed" THEN "done" ELSE next
         /\ UNCHANGED <<want, version, runs, ToRender, Wanted>>
         /\ run'.status = "failed" <=> run.status = "failed" \/ s = "failed"
         /\ run'.status = "ok" => run.status = "ok" /\ s = "ok"
         /\ run'.clean => run.clean /\ n = 0
         /\ run'.stuck = run.stuck
<1>1. /\ faults' \in 0 .. MaxFaults /\ pc' = IF s = "failed" THEN "done" ELSE next
      /\ run' \in RunRecords /\ run'.bare = run.bare /\ run'.stuck = run.stuck
      /\ run'.status = "failed" <=> run.status = "failed" \/ s = "failed"
      /\ run'.status = "ok" => run.status = "ok" /\ s = "ok"
      /\ run'.clean => run.clean /\ n = 0
  BY Reporting DEF DeployInv
<1>2. UNCHANGED <<want, version, runs, edits, Wanted>>
  BY DEF Fixed, Wanted
<1>3. TypeOK'
  BY <1>1, <1>2 DEF DeployInv, TypeOK, Version0, Made, RunRecords, Statuses, Remotes, Boxes
<1> QED  BY <1>1, <1>2, <1>3 DEF ToRender

\* What the type invariant says of the server's folders and containers.
LEMMA Types ==
  ASSUME DeployInv
  PROVE  /\ remote \in Remotes /\ remote.open \subseteq remote.folders
         /\ box \in [Stacks -> Boxes] /\ data \in [Databases -> Version0]
         /\ local \in [env : [Stacks -> Version0], open : SUBSET Stacks, rp : BOOLEAN]
         /\ version \in Version0 /\ 0 \in Version0 /\ version # 0
         /\ Wanted \in SUBSET Services /\ Wanted \subseteq Stacks
         /\ remote.folders \in SUBSET Services
BY DEF DeployInv, TypeOK, Remotes, Boxes, Version0, Wanted, Services

\* stack-sync: a push that is not sure to have taken effect is reported.
LEMMA KeptByRsync ==
  ASSUME DeployInv, Rsync
  PROVE  DeployInv'
<1>1. PICK bad \in Few(Wanted) : \E lost \in SUBSET bad :
        /\ remote' = Pushed((Wanted \ bad) \cup lost)
        /\ Report(Cardinality(bad), If(bad = {}, "partial"), "cleanup")
  BY DEF Rsync
<1>2. PICK lost \in SUBSET bad : remote' = Pushed((Wanted \ bad) \cup lost)
  BY <1>1
<1>3. pc = "rsync" /\ Fixed /\ UNCHANGED <<local, box, data, tls, wetty>>
  BY DEF Rsync
<1>4. Cardinality(bad) \in Nat /\ (Cardinality(bad) = 0 => bad = {}) /\ bad \subseteq Wanted
  BY FewAreCounted, Types
<1> DEFINE S == (Wanted \ bad) \cup lost
           s == If(bad = {}, "partial")
<1>5. S \subseteq Wanted /\ (bad = {} => S = Wanted)
  BY <1>4
<1>6. s \in Statuses /\ s # "failed" /\ (s = "ok" => bad = {})
  BY DEF If, Statuses
<1>7. remote' = Pushed(S) /\ Report(Cardinality(bad), s, "cleanup")
  BY <1>1, <1>2
<1> HIDE DEF S, s
<1>8. /\ remote' \in Remotes
      /\ remote'.folders = remote.folders \cup S
      /\ remote'.open = remote.open \cup (S \cap local.open)
      /\ \A k \in S : local.env[k] # 0 => remote'.env[k] = local.env[k]
  BY <1>5, <1>7, Types DEF Pushed, Remotes
<1>9. remote'.open \subseteq remote'.folders /\ box' \in [Stacks -> Boxes]
  BY <1>3, <1>8, Types
<1>10. /\ TypeOK' /\ pc' = "cleanup"
       /\ UNCHANGED <<want, version, runs, ToRender, Wanted>>
       /\ run'.status = "failed" <=> run.status = "failed"
       /\ run'.status = "ok" => run.status = "ok" /\ s = "ok"
       /\ run'.clean => run.clean /\ Cardinality(bad) = 0
       /\ run'.stuck = run.stuck
  BY <1>3, <1>4, <1>6, <1>7, <1>8, <1>9, Filing
<1>11. Trusted' => Trusted /\ S = Wanted
  BY <1>4, <1>5, <1>6, <1>10 DEF Trusted
<1> QED
  BY <1>3, <1>8, <1>10, <1>11
  DEF DeployInv, Failing, Certificate, Agent, Rendering, Opening, Pushing, Cleaning,
      Sweeping, Pinning, Looking, Starting, PairFits, Trusted

\* The cleanup script: it touches no wanted stack.
LEMMA KeptByCleanup ==
  ASSUME DeployInv, Cleanup
  PROVE  DeployInv'
<1>1. pc = "cleanup" /\ Fixed /\ UNCHANGED <<local, data, tls, wetty>>
  BY DEF Cleanup
<1>2. CASE Report(1, "failed", "orphans") /\ UNCHANGED <<remote, box>>
  <2>1. /\ TypeOK' /\ pc' = "done" /\ run'.status = "failed" /\ ~run'.clean
    BY <1>1, <1>2, Types, Filing DEF Statuses
  <2> QED
    BY <2>1
    DEF DeployInv, Failing, Certificate, Agent, Rendering, Opening, Pushing, Cleaning,
      Sweeping, Pinning, Looking, Starting, PairFits, Trusted
<1>3. ASSUME NEW hung \in Few({s \in Unwanted : box[s].up}), NEW left \in Few(Unwanted),
             NEW mute \in Some(1), remote' = CleanedUp(left),
             box' = [s \in Stacks |-> IF s \in Unwanted \ hung THEN Gone ELSE box[s]],
             Report(Cardinality(hung) + Cardinality(left) + Count(mute),
                    IF mute THEN "failed" ELSE If(hung \cup left = {}, "partial"),
                    "orphans")
      PROVE  DeployInv'
  <2> DEFINE n == Cardinality(hung) + Cardinality(left) + Count(mute)
             s == IF mute THEN "failed" ELSE If(hung \cup left = {}, "partial")
  <2>1. n \in Nat /\ (n = 0 => left = {} /\ ~mute) /\ left \subseteq Unwanted
    <3>1. {k \in Unwanted : box[k].up} \in SUBSET Services /\ Unwanted \in SUBSET Services
      BY Types DEF Unwanted
    <3>2. Cardinality(hung) \in Nat
      BY <3>1, FewAreCounted
    <3>3. Cardinality(left) \in Nat /\ (Cardinality(left) = 0 => left = {})
          /\ left \subseteq Unwanted
      BY <3>1, FewAreCounted
    <3>4. Count(mute) \in Nat /\ (Count(mute) = 0 => ~mute)
      BY Counting, Somewhere
    <3> QED  BY <3>2, <3>3, <3>4
  <2>2. s \in Statuses /\ (s = "failed" => mute) /\ (s = "ok" => left = {})
    BY DEF If, Statuses
  <2>3. Report(n, s, "orphans")
    BY <1>3
  <2> HIDE DEF n, s
  <2>4. /\ remote' \in Remotes
        /\ remote'.folders = remote.folders \ (Unwanted \ left)
        /\ remote'.open = remote.open \ (Unwanted \ left)
        /\ \A k \in Wanted : remote'.env[k] = remote.env[k]
    BY <1>3, Types DEF CleanedUp, Remotes, Unwanted, Wanted
  <2>5. Gone \in Boxes
    BY Types DEF Gone, Boxes, Made, DeployInv, TypeOK
  <2>6. box' \in [Stacks -> Boxes] /\ remote'.open \subseteq remote'.folders
    BY <1>3, <2>4, <2>5, Types
  <2>7. /\ TypeOK' /\ pc' = IF s = "failed" THEN "done" ELSE "orphans"
        /\ UNCHANGED <<want, version, runs, ToRender, Wanted>>
        /\ run'.status = "failed" <=> run.status = "failed" \/ s = "failed"
        /\ run'.status = "ok" => run.status = "ok" /\ s = "ok"
        /\ run'.clean => run.clean /\ n = 0
        /\ run'.stuck = run.stuck
    BY <1>1, <2>1, <2>2, <2>3, <2>4, <2>6, Filing
  <2>8. Trusted' => Trusted /\ left = {}
    BY <2>1, <2>2, <2>7 DEF Trusted
  <2>9. Unwanted \cap Wanted = {} /\ remote.folders \ Unwanted \subseteq want.on
    BY DEF Unwanted, Wanted
  <2>10. Pushing' /\ Cleaning'
    BY <1>1, <2>4, <2>7, <2>8, <2>9
    DEF DeployInv, Failing, Pushing, Cleaning
  <2> QED
    BY <1>1, <2>1, <2>2, <2>7, <2>8, <2>10
    DEF DeployInv, Failing, Certificate, Agent, Rendering, Opening,
        Sweeping, Pinning, Looking, Starting, PairFits
<1> QED  BY <1>2, <1>3 DEF Cleanup

\* firewall-sync.
LEMMA KeptByRemoveOrphans ==
  ASSUME DeployInv, RemoveOrphans
  PROVE  DeployInv'
<1>1. pc = "orphans" /\ Fixed /\ UNCHANGED <<local, box, data, tls, wetty>>
  BY DEF RemoveOrphans
<1>2. \E n \in Nat, s \in {"ok", "failed"}, removed \in SUBSET Orphans :
        /\ Report(n, s, "redpanda") /\ (s = "failed" <=> n # 0)
        /\ remote' = [remote EXCEPT !.open = @ \ removed]
        /\ s = "ok" => removed = Orphans
  BY DEF RemoveOrphans
<1>3. PICK n \in Nat, s \in {"ok", "failed"}, removed \in SUBSET Orphans :
        /\ Report(n, s, "redpanda") /\ (s = "failed" <=> n # 0)
        /\ remote' = [remote EXCEPT !.open = @ \ removed]
        /\ s = "ok" => removed = Orphans
  BY <1>2
<1>4. /\ remote' \in Remotes /\ remote'.folders = remote.folders
      /\ remote'.open = remote.open \ removed /\ remote'.env = remote.env
      /\ box' \in [Stacks -> Boxes] /\ remote'.open \subseteq remote'.folders
  BY <1>1, <1>3, Types DEF Remotes
<1>5. /\ TypeOK' /\ pc' = IF s = "failed" THEN "done" ELSE "redpanda"
      /\ UNCHANGED <<want, version, runs, ToRender, Wanted>>
      /\ run'.status = "failed" <=> run.status = "failed" \/ s = "failed"
      /\ run'.status = "ok" => run.status = "ok" /\ s = "ok"
      /\ run'.clean => run.clean /\ n = 0
      /\ run'.stuck = run.stuck
  <2>1. s \in Statuses /\ UNCHANGED <<local, data, tls, wetty>>
    BY <1>1 DEF Statuses
  <2> QED  BY <1>1, <1>3, <1>4, <2>1, Filing
<1>6. s = "ok" => remote'.open \subseteq local.open
  BY <1>3, <1>4 DEF Orphans
<1>7. Wanted \cap local.open \subseteq remote.open
        => Wanted \cap local.open \subseteq remote'.open
  BY <1>4 DEF Orphans
<1> QED
  BY <1>1, <1>3, <1>4, <1>5, <1>6, <1>7
  DEF DeployInv, Failing, Certificate, Agent, Rendering, Opening, Pushing, Cleaning,
      Sweeping, Pinning, Looking, Starting, PairFits, Trusted

\* firewall-sync's broker configuration.
LEMMA KeptByCopyRedpanda ==
  ASSUME DeployInv, CopyRedpanda
  PROVE  DeployInv'
<1>1. pc = "redpanda" /\ Fixed /\ UNCHANGED <<local, box, data, tls, wetty>>
  BY DEF CopyRedpanda
<1>2. "redpanda" \in want.on => "redpanda" \in Stacks
  BY DeployAssumption DEF DeployInv, TypeOK, Services
<1>3. \E n \in Nat, s \in {"ok", "failed"}, new \in SUBSET (want.on \cap {"redpanda"}),
         rp \in BOOLEAN :
        /\ Report(n, s, "global") /\ (s = "failed" <=> n # 0)
        /\ remote' = [remote EXCEPT !.rp = rp, !.folders = @ \cup new]
  <2>1. remote = [remote EXCEPT !.rp = remote.rp, !.folders = @ \cup {}]
        /\ remote.rp \in BOOLEAN /\ local.rp \in BOOLEAN
    BY Types DEF Remotes
  <2>2. CASE "redpanda" \in want.on
    <3>1. PICK r \in Calls :
            /\ Report(Cost(r), If(r = "ok", "failed"), "global")
            /\ remote' = IF Applied(r)
                         THEN [remote EXCEPT !.rp = local.rp,
                                             !.folders = @ \cup {"redpanda"}]
                         ELSE remote
      BY <2>2 DEF CopyRedpanda
    <3>2. /\ Cost(r) \in Nat /\ If(r = "ok", "failed") \in {"ok", "failed"}
          /\ If(r = "ok", "failed") = "failed" <=> Cost(r) # 0
      BY DEF Cost, If
    <3>3. PICK new \in SUBSET (want.on \cap {"redpanda"}), rp \in BOOLEAN :
            remote' = [remote EXCEPT !.rp = rp, !.folders = @ \cup new]
      BY <2>1, <2>2, <3>1
    <3>4. Report(Cost(r), If(r = "ok", "failed"), "global")
      BY <3>1
    <3> QED  BY <3>2, <3>3, <3>4
  <2>3. CASE "redpanda" \notin want.on
    BY <2>1, <2>3 DEF CopyRedpanda
  <2> QED  BY <2>2, <2>3
<1>4. PICK n \in Nat, s \in {"ok", "failed"}, new \in SUBSET (want.on \cap {"redpanda"}),
           rp \in BOOLEAN :
        /\ Report(n, s, "global") /\ (s = "failed" <=> n # 0)
        /\ remote' = [remote EXCEPT !.rp = rp, !.folders = @ \cup new]
  BY <1>3
<1>5. /\ remote' \in Remotes /\ remote'.folders = remote.folders \cup new
      /\ remote'.open = remote.open /\ remote'.env = remote.env
      /\ box' \in [Stacks -> Boxes]
  BY <1>1, <1>2, <1>4, Types DEF Remotes
<1>6. /\ TypeOK' /\ pc' = IF s = "failed" THEN "done" ELSE "global"
      /\ UNCHANGED <<want, version, runs, ToRender, Wanted>>
      /\ run'.status = "failed" <=> run.status = "failed" \/ s = "failed"
      /\ run'.status = "ok" => run.status = "ok" /\ s = "ok"
      /\ run'.clean => run.clean /\ n = 0
      /\ run'.stuck = run.stuck
  BY <1>1, <1>4, <1>5, Types, Filing DEF Statuses
<1> QED
  BY <1>1, <1>4, <1>5, <1>6
  DEF DeployInv, Failing, Certificate, Agent, Rendering, Opening, Pushing, Cleaning,
      Sweeping, Pinning, Looking, Starting, PairFits, Trusted

\* global-env.
LEMMA KeptByGlobalEnv ==
  ASSUME DeployInv, GlobalEnv
  PROVE  DeployInv'
<1>1. pc = "global" /\ Fixed /\ UNCHANGED <<local, box, data, tls, wetty>>
  BY DEF GlobalEnv
<1>2. PICK v \in {version, 0, remote.global}, bad \in BOOLEAN :
        /\ v # version => bad
        /\ Report(Count(bad), If(~bad, "failed"), "preflight")
        /\ remote' = [remote EXCEPT !.global = v]
  BY Somewhere DEF GlobalEnv
<1>3. /\ Count(bad) \in Nat /\ (Count(bad) = 0 <=> ~bad)
      /\ If(~bad, "failed") \in Statuses /\ (If(~bad, "failed") = "failed" <=> bad)
  BY Counting DEF If, Statuses
<1>4. v \in Version0
  BY Types DEF Remotes
<1>5. /\ remote' \in Remotes /\ remote'.folders = remote.folders
      /\ remote'.open = remote.open /\ remote'.env = remote.env /\ remote'.global = v
      /\ box' \in [Stacks -> Boxes]
  BY <1>1, <1>2, <1>4, Types DEF Remotes
<1>6. /\ TypeOK' /\ pc' = IF bad THEN "done" ELSE "preflight"
      /\ UNCHANGED <<want, version, runs, ToRender, Wanted>>
      /\ run'.status = "failed" <=> run.status = "failed" \/ bad
      /\ run'.status = "ok" => run.status = "ok"
      /\ run'.clean => run.clean /\ ~bad
      /\ run'.stuck = run.stuck
  BY <1>1, <1>2, <1>3, <1>5, Types, Filing
<1> QED
  BY <1>1, <1>2, <1>5, <1>6
  DEF DeployInv, Failing, Certificate, Agent, Rendering, Opening, Pushing, Cleaning,
      Sweeping, Pinning, Looking, Starting, PairFits, Trusted

\* pg-preflight: a directory is either looked at or among the unsure.
LEMMA KeptByPgPreflight ==
  ASSUME DeployInv, PgPreflight
  PROVE  DeployInv'
<1>1. /\ pc = "preflight" /\ UNCHANGED <<want, version, runs, edits>>
      /\ UNCHANGED <<local, remote, box, data, tls, wetty>>
  BY DEF PgPreflight, Fixed, server
<1>2. run \in RunRecords /\ faults \in Nat /\ run.status # "failed"
      /\ Databases \cap Wanted \in SUBSET Services
  BY <1>1, Types DEF DeployInv, TypeOK, RunRecords, Statuses, Failing
<1>3. ASSUME NEW n \in Nat, NEW unsure \in SUBSET Databases, NEW s \in Statuses, NEW clean \in BOOLEAN,
             Spend(n), clean => run.clean /\ n = 0,
             run' = [run EXCEPT !.unsure = unsure, !.clean = clean, !.status = Worse(@, s)],
             pc' = IF s = "failed" THEN "done" ELSE "compose",
             \/ s = "failed" /\ (n = 0 => \E k \in Wanted : Foreign(k))
             \/ /\ s # "failed" /\ (n = 0 => unsure = {})
                /\ \A k \in Databases \cap Wanted : Foreign(k) => k \in unsure
      PROVE  DeployInv'
  <2>1. /\ Worse(run.status, s) \in Statuses
        /\ Worse(run.status, s) = "failed" <=> s = "failed"
        /\ Worse(run.status, s) = "ok" => run.status = "ok"
    BY <1>2 DEF Worse, Statuses, RunRecords
  <2>2. /\ run' \in RunRecords /\ run'.unsure = unsure /\ run'.clean = clean
        /\ run'.bare = run.bare /\ run'.stuck = run.stuck
        /\ run'.status = Worse(run.status, s)
    BY <1>2, <1>3, <2>1 DEF RunRecords
  <2>3. faults' \in 0 .. MaxFaults
    BY <1>2, <1>3, DeployAssumption DEF Spend
  <2>4. TypeOK'
    BY <1>1, <1>3, <2>2, <2>3 DEF DeployInv, TypeOK, Version0, Made, RunRecords, Statuses
  <2>5. UNCHANGED <<Wanted, ToRender>> /\ \A k : Foreign(k)' = Foreign(k)
    BY <1>1, <2>2 DEF Wanted, ToRender, Foreign
  <2>6. Trusted' => Trusted
    BY <1>3, <2>1, <2>2, Zenon DEF Trusted
  <2> QED
    BY <1>1, <1>2, <1>3, <2>1, <2>2, <2>4, <2>5, <2>6
    DEF DeployInv, Failing, Certificate, Agent, Rendering, Opening, Pushing, Cleaning,
        Sweeping, Pinning, Looking, Starting, PairFits, Trusted
<1>4. ASSUME NEW unread \in Few(Databases \cap Wanted), NEW garbled \in Few(PgContainers(unread)),
             NEW down \in BOOLEAN,
             LET S     == PgContainers(unread)
                 blind == Blind(S, ~down, garbled)
                 bad   == Mismatches(S, ~down, blind)
             IN /\ Spend(Cardinality(unread) + Cardinality(garbled) + Count(down))
                /\ run' = [run EXCEPT !.unsure = unread \cup blind,
                     !.clean = @ /\ faults' = faults,
                     !.status = Worse(@, IF bad # {} THEN "failed"
                                         ELSE If(blind = {}, "partial"))]
                /\ pc' = IF bad = {} THEN "compose" ELSE "done"
      PROVE  DeployInv'
  <2> DEFINE S     == PgContainers(unread)
             blind == Blind(S, ~down, garbled)
             bad   == Mismatches(S, ~down, blind)
             s     == IF bad # {} THEN "failed" ELSE If(blind = {}, "partial")
             n     == Cardinality(unread) + Cardinality(garbled) + Count(down)
             clean == run.clean /\ faults' = faults
  <2>1. S \subseteq Databases \cap Wanted /\ S \in SUBSET Services
    BY <1>2 DEF PgContainers
  <2>2. Cardinality(unread) \in Nat /\ (Cardinality(unread) = 0 => unread = {})
        /\ unread \subseteq Databases \cap Wanted
    BY <1>2, FewAreCounted
  <2>3. Cardinality(garbled) \in Nat /\ (Cardinality(garbled) = 0 => garbled = {})
        /\ garbled \subseteq S
    BY <2>1, FewAreCounted
  <2>4. n \in Nat /\ (n = 0 => unread = {} /\ garbled = {} /\ ~down)
    BY <2>2, <2>3, Counting
  <2>5. clean \in BOOLEAN /\ (clean => run.clean) /\ (clean => faults' = faults)
    BY Zenon
  <2>6. Spend(n) /\ pc' = (IF s = "failed" THEN "done" ELSE "compose") /\ s \in Statuses
        /\ (s = "failed" <=> bad # {})
    BY <1>4 DEF If, Statuses
  <2>7. run' = [run EXCEPT !.unsure = unread \cup blind, !.clean = clean, !.status = Worse(@, s)]
    BY <1>4
  <2>8. unread \cup blind \in SUBSET Databases /\ (n = 0 => unread \cup blind = {})
    BY <2>1, <2>2, <2>3, <2>4 DEF Blind
  <2>9. bad # {} => \E k \in Wanted : Foreign(k)
    <3>1. \A k \in bad : k \in S /\ Found(k, ~down) \notin {0, version}
      BY DEF Mismatches
    <3>2. \A k \in bad : k \in Databases \cap Wanted /\ data[k] \notin {0, version}
      BY <2>1, <3>1 DEF Found
    <3> QED  BY <3>2 DEF Foreign
  <2>10. bad = {} => \A k \in Databases \cap Wanted : Foreign(k) => k \in unread \cup blind
    <3>1. ASSUME NEW k \in Databases \cap Wanted, Foreign(k), k \notin unread \cup blind
          PROVE  k \in bad
      <4>1. k \in S /\ k \notin blind
        BY <3>1 DEF PgContainers
      <4>2. ~down \/ k \in Binds
        BY <4>1 DEF Blind
      <4> QED  BY <3>1, <4>1, <4>2 DEF Mismatches, Found, Foreign
    <3> QED  BY <3>1
  <2> HIDE DEF n, s, clean, blind, bad, S
  <2>11. clean => n = 0
    BY <1>2, <2>4, <2>5, <2>6 DEF Spend
  <2> QED  BY <1>3, <2>4, <2>5, <2>6, <2>7, <2>8, <2>9, <2>10, <2>11
<1>5. ASSUME NEW unread \in Few(Databases \cap Wanted),
             Spend(Cardinality(unread) + 1),
             run' = [run EXCEPT !.unsure = Databases, !.clean = FALSE,
                                !.status = Worse(@, "partial")],
             pc' = "compose"
      PROVE  DeployInv'
  <2>1. Cardinality(unread) + 1 \in Nat \ {0}
    BY <1>2, FewAreCounted
  <2> QED  BY <1>3, <1>5, <2>1 DEF Statuses
<1>6. \A S : (IF S = {} THEN {FALSE} ELSE Some(1)) \subseteq BOOLEAN
  BY Somewhere
<1>7. PICK unread \in Few(Databases \cap Wanted) :
        LET S == PgContainers(unread) IN
          \/ \E garbled \in Few(S), down \in (IF S = {} THEN {FALSE} ELSE Some(1)) :
             LET blind == Blind(S, ~down, garbled)
                 bad   == Mismatches(S, ~down, blind)
             IN /\ Spend(Cardinality(unread) + Cardinality(garbled) + Count(down))
                /\ run' = [run EXCEPT !.unsure = unread \cup blind,
                     !.clean = @ /\ faults' = faults,
                     !.status = Worse(@, IF bad # {} THEN "failed"
                                         ELSE If(blind = {}, "partial"))]
                /\ pc' = IF bad = {} THEN "compose" ELSE "done"
          \/ /\ Spend(Cardinality(unread) + 1)
             /\ run' = [run EXCEPT !.unsure = Databases, !.clean = FALSE,
                                   !.status = Worse(@, "partial")]
             /\ pc' = "compose"
  BY DEF PgPreflight
<1> QED  BY <1>4, <1>5, <1>6, <1>7

\* A container that compose starts, or leaves alone because nothing has
\* changed, is the one asked for.
LEMMA StartedAsAsked ==
  ASSUME DeployInv, NEW s \in Stacks
  PROVE  /\ Started(s) \in Boxes
         /\ Started(s).image = remote.global /\ Started(s).env = remote.env[s]
         /\ Started(s).open <=> s \in Leaves \cap remote.open
         /\ ~Foreign(s) => Started(s).up
         /\ [Created(s) EXCEPT !.up = FALSE] \in Boxes
<1>1. Read(s, remote, tls, wetty) \in Made \cup {1}
  BY ReadsAreTyped DEF DeployInv, TypeOK
<1>2. Foreign(s) \in BOOLEAN /\ (~Foreign(s)) \in BOOLEAN
  BY DEF Foreign
<1>3. (s \in Leaves \cap remote.open) \in BOOLEAN
  OBVIOUS
<1> DEFINE up == ~Foreign(s)
           open == s \in Leaves \cap remote.open
           read == Read(s, remote, tls, wetty)
<1>4. Created(s) = [up |-> up, image |-> remote.global, env |-> remote.env[s],
                    open |-> open, read |-> read]
  BY DEF Created
<1>5. up \in BOOLEAN /\ open \in BOOLEAN /\ read \in Made \cup {1}
  BY <1>1, <1>2, <1>3
<1>6. remote.global \in Version0 /\ remote.env[s] \in Version0 /\ box[s] \in Boxes
  BY Types DEF Remotes
<1> HIDE DEF up, open, read
<1>7. /\ Created(s) \in Boxes /\ [Created(s) EXCEPT !.up = FALSE] \in Boxes
      /\ Created(s).up = up /\ Created(s).open = open
      /\ Created(s).image = remote.global /\ Created(s).env = remote.env[s]
  <2>1. Created(s) \in Boxes
    BY <1>4, <1>5, <1>6 DEF Boxes
  <2>2. /\ Created(s).up = up /\ Created(s).open = open /\ Created(s).read = read
        /\ Created(s).image = remote.global /\ Created(s).env = remote.env[s]
    BY <1>4
  <2>3. [Created(s) EXCEPT !.up = FALSE] \in Boxes
    BY <2>1 DEF Boxes
  <2> QED  BY <2>1, <2>2, <2>3
<1>8. CASE box[s].up /\ box[s] = [Created(s) EXCEPT !.up = TRUE, !.read = box[s].read]
  <2>1. Started(s) = box[s]
    BY <1>8 DEF Started
  <2>2. /\ box[s].open = open /\ box[s].image = remote.global /\ box[s].env = remote.env[s]
    BY <1>7, <1>8 DEF Boxes
  <2> QED  BY <1>6, <1>7, <1>8, <2>1, <2>2 DEF open
<1>9. CASE ~(box[s].up /\ box[s] = [Created(s) EXCEPT !.up = TRUE, !.read = box[s].read])
  <2>1. Started(s) = Created(s)
    BY <1>9 DEF Started
  <2> QED  BY <1>7, <2>1 DEF open, up
<1> QED  BY <1>8, <1>9

\* A target is a stack, and wanted if it is a database: no parent is one.
LEMMA TargetsAreStacks ==
  ASSUME DeployInv
  PROVE  /\ Targets \subseteq Stacks /\ Targets \cap want.on \subseteq Wanted
         /\ Targets \cap Databases \subseteq Wanted
<1>1. Parents \subseteq Stacks \ Databases
  BY DeployAssumption DEF Parents
<1> QED  BY <1>1 DEF Targets, Leaves, Wanted

\* Which containers compose-up touches, and what it leaves in the data
\* directories.
LEMMA Composed ==
  ASSUME DeployInv, ComposeUp
  PROVE  \E n \in Nat, s \in Statuses, S, dead \in SUBSET Stacks :
           /\ Report(n, s, "done") /\ (s = "failed" => n # 0)
           /\ S \subseteq Targets \cap remote.folders
           /\ box' = Up(S, dead)
           /\ data' = [k \in Databases |-> IF k \in S /\ data[k] = 0 THEN version ELSE data[k]]
           /\ s = "ok" \/ n = 0 => S = Targets \cap remote.folders /\ dead = {}
           /\ s = "ok" => Targets \subseteq remote.folders
<1> DEFINE present == Targets \cap remote.folders
           foreign == {s \in present : Foreign(s)}
<1> DEFINE Done(n, s, S, dead) ==
           /\ Report(n, s, "done") /\ (s = "failed" => n # 0)
           /\ S \subseteq Targets \cap remote.folders
           /\ box' = Up(S, dead)
           /\ data' = [k \in Databases |-> IF k \in S /\ data[k] = 0 THEN version ELSE data[k]]
           /\ s = "ok" \/ n = 0 => S = Targets \cap remote.folders /\ dead = {}
           /\ s = "ok" => Targets \subseteq remote.folders
<1>1. present \in SUBSET Services /\ present \subseteq Stacks
  BY Types DEF Remotes
<1>2. ASSUME \E begun \in {{}, present} :
               /\ box' = Up(begun, {})
               /\ data' = [s \in Databases |->
                    IF s \in begun /\ data[s] = 0 THEN version ELSE data[s]]
               /\ Report(1, "failed", "done")
      PROVE  \E n \in Nat, s \in Statuses, S, d \in SUBSET Stacks : Done(n, s, S, d)
  <2>1. PICK begun \in {{}, present} :
             /\ box' = Up(begun, {})
             /\ data' = [s \in Databases |->
                  IF s \in begun /\ data[s] = 0 THEN version ELSE data[s]]
             /\ Report(1, "failed", "done")
    BY <1>2
  <2>2. Done(1, "failed", begun, {}) /\ "failed" \in Statuses /\ begun \in SUBSET Stacks
    BY <1>1, <2>1 DEF Statuses
  <2> HIDE DEF Done
  <2>3. \E n \in Nat, s \in Statuses, S, d \in SUBSET Stacks : Done(n, s, S, d)
    BY <2>2
  <2> QED  BY <2>3
<1>3. ASSUME NEW bad \in Few(present), NEW dead \in SUBSET bad, NEW mute \in Some(1),
             NEW seen \in SUBSET foreign,
             box' = Up((present \ bad) \cup dead, dead),
             data' = [s \in Databases |->
                  IF s \in (present \ bad) \cup dead /\ data[s] = 0
                  THEN version ELSE data[s]],
             Report(Cardinality(bad) + Count(mute),
                    If(~mute /\ bad = {} /\ foreign \subseteq seen
                         /\ present = Targets, "partial"), "done")
      PROVE  \E n \in Nat, s \in Statuses, S, d \in SUBSET Stacks : Done(n, s, S, d)
  <2> DEFINE n == Cardinality(bad) + Count(mute)
             s == If(~mute /\ bad = {} /\ foreign \subseteq seen /\ present = Targets, "partial")
             S == (present \ bad) \cup dead
  <2>1. n \in Nat /\ (n = 0 => bad = {}) /\ bad \subseteq present
    BY <1>1, FewAreCounted, Counting, Somewhere
  <2>2. s \in Statuses /\ s # "failed" /\ (s = "ok" => bad = {} /\ present = Targets)
    BY DEF If, Statuses
  <2>3. S \subseteq present /\ (bad = {} => S = present /\ dead = {})
    BY <2>1
  <2>4. Report(n, s, "done") /\ box' = Up(S, dead)
        /\ data' = [k \in Databases |-> IF k \in S /\ data[k] = 0 THEN version ELSE data[k]]
    BY <1>3
  <2> HIDE DEF n, s, S
  <2>5. Done(n, s, S, dead)
    BY <2>1, <2>2, <2>3, <2>4
  <2> HIDE DEF Done
  <2>6. S \in SUBSET Stacks /\ dead \in SUBSET Stacks
    BY <1>1, <2>1, <2>3
  <2> QED  BY <2>1, <2>2, <2>5, <2>6
<1> HIDE DEF Done
<1>4. \E n \in Nat, s \in Statuses, S, d \in SUBSET Stacks : Done(n, s, S, d)
  BY <1>2, <1>3 DEF ComposeUp
<1> QED  BY <1>4 DEF Done

\* compose-up.
LEMMA KeptByComposeUp ==
  ASSUME DeployInv, ComposeUp
  PROVE  DeployInv'
<1>1. /\ pc = "compose" /\ UNCHANGED <<want, version, runs, edits>>
      /\ UNCHANGED <<local, remote, tls, wetty>>
  BY DEF ComposeUp, Fixed
<1>2. PICK n \in Nat, s \in Statuses, S, dead \in SUBSET Stacks :
           /\ Report(n, s, "done") /\ (s = "failed" => n # 0)
           /\ S \subseteq Targets \cap remote.folders
           /\ box' = Up(S, dead)
           /\ data' = [k \in Databases |-> IF k \in S /\ data[k] = 0 THEN version ELSE data[k]]
           /\ s = "ok" \/ n = 0 => S = Targets \cap remote.folders /\ dead = {}
           /\ s = "ok" => Targets \subseteq remote.folders
  BY Composed
<1>3. /\ faults' \in 0 .. MaxFaults /\ pc' = "done"
      /\ run' \in RunRecords /\ run'.bare = run.bare /\ run'.stuck = run.stuck
      /\ run'.unsure = run.unsure
      /\ run'.status = "failed" <=> run.status = "failed" \/ s = "failed"
      /\ run'.status = "ok" => run.status = "ok" /\ s = "ok"
      /\ run'.clean => run.clean /\ n = 0
  BY <1>2, Reporting DEF DeployInv
<1>4. /\ UNCHANGED <<Wanted, ToRender, Targets, Leaves>>
      /\ run.status # "failed" /\ version \in Nat
  BY <1>1, <1>3 DEF Wanted, ToRender, Targets, Leaves, Parents, DeployInv, Failing, TypeOK
<1>5. /\ data' \in [Databases -> Version0]
      /\ \A k \in Databases : data'[k] \in {version, data[k]}
  BY <1>2, Types
<1>6. \A k : Foreign(k)' => Foreign(k)
  BY <1>1, <1>5 DEF Foreign
<1>7. \A k \in Stacks : /\ k \notin S => box'[k] = box[k]
                        /\ k \in dead => k \notin S \/ box'[k] = [Created(k) EXCEPT !.up = FALSE]
                        /\ k \in S /\ k \notin dead => box'[k] = Started(k)
  BY <1>2 DEF Up
<1>8. box' \in [Stacks -> Boxes]
  <2>1. \A k \in Stacks : box'[k] \in Boxes
    BY <1>7, StartedAsAsked, Types
  <2>2. box' = [k \in Stacks |-> box'[k]]
    BY <1>2 DEF Up
  <2> QED  BY <2>1, <2>2
<1>9. TypeOK'
  BY <1>1, <1>3, <1>5, <1>8 DEF DeployInv, TypeOK, Version0, Made, RunRecords, Statuses, Boxes
<1>10. Trusted' => Trusted /\ S = Targets \cap remote.folders /\ dead = {}
  BY <1>2, <1>3 DEF Trusted
<1>11. ASSUME Trusted', NEW k \in (Targets \cap want.on) \ run.unsure
       PROVE  AsAsked(k)'
  <2>1. k \in Wanted /\ k \in Stacks
    BY <1>11, TargetsAreStacks
  <2>2. /\ Trusted /\ Wanted \subseteq remote.folders /\ remote.global = version
        /\ Wanted \cap local.open \subseteq remote.open /\ remote.open \subseteq local.open
        /\ local.open = want.rules \cap Stacks
        /\ local.env[k] # 0 => remote.env[k] = local.env[k]
        /\ k \in ToRender => local.env[k] = version
        /\ ~Foreign(k)
    BY <1>1, <1>10, <1>11, <2>1
    DEF DeployInv, Rendering, Opening, Pushing, Sweeping, Pinning, Looking, Foreign
  <2>3. box'[k] = Started(k)
    BY <1>7, <1>10, <1>11, <2>1, <2>2
  <2>4. k \in ToRender => remote.env[k] = version
    BY <2>2, Types
  <2>5. k \in Leaves \cap remote.open <=> k \in Leaves \cap want.rules
    BY <2>1, <2>2
  <2>6. /\ box'[k].up /\ box'[k].image = version
        /\ k \in ToRender => box'[k].env = version
        /\ box'[k].open <=> k \in Leaves \cap want.rules
    BY <2>1, <2>2, <2>3, <2>4, <2>5, StartedAsAsked
  <2> QED  BY <1>1, <1>4, <2>6 DEF AsAsked
<1>12. Trusted' /\ run'.status = "ok" => Targets \subseteq want.on
  BY <1>1, <1>2, <1>3, <1>10 DEF DeployInv, Cleaning
<1>13. Starting'
  BY <1>1, <1>3, <1>4, <1>11, <1>12 DEF Starting
<1>14. Looking'
  BY <1>1, <1>3, <1>4, <1>6 DEF DeployInv, Looking
<1> QED
  BY <1>1, <1>2, <1>3, <1>4, <1>9, <1>10, <1>13, <1>14
  DEF DeployInv, Failing, Certificate, Agent, Rendering, Opening, Pushing, Cleaning,
      Sweeping, Pinning, PairFits

-----------------------------------------------------------------------------
\* The theorems.

\* The invariant holds before the first run.
LEMMA DeployInit == Init => DeployInv
<1> SUFFICES ASSUME Init PROVE DeployInv
  OBVIOUS
<1>1. /\ want \in [on : SUBSET Services, rules : SUBSET Ruled]
      /\ version = 1 /\ local = Checkout /\ pc = "idle" /\ faults = 0 /\ runs = 0 /\ edits = 0
      /\ 1 \in 1 .. MaxVersion
  BY DeployAssumption DEF Init
<1>2. run \in RunRecords
  BY DeployAssumption DEF Init, RunRecords, Statuses
<1>3. LET b == NewServer({}) IN IsServer(b)
  BY DEF Init
<1>4. /\ remote \in Remotes /\ remote.open \subseteq remote.folders
      /\ box \in [Stacks -> Boxes] /\ data \in [Databases -> Version0]
      /\ tls \in [key : Made, crt : Made, bundle : Made, old : BOOLEAN]
      /\ wetty \in [key : Made, pub : Made, auth : SUBSET Made, agent : Made,
                    live : BOOLEAN, loaded : SUBSET Made]
  BY <1>1, <1>3, NewServersAreTyped DEF IsServer, Remotes, Boxes
<1>5. local \in [env : [Stacks -> Version0], open : SUBSET Stacks, rp : BOOLEAN]
  BY <1>1 DEF Checkout, Version0
<1>6. TypeOK
  BY <1>1, <1>2, <1>4, <1>5, DeployAssumption DEF TypeOK, Remotes, Boxes, RunRecords, Statuses
<1> QED
  BY <1>1, <1>6
  DEF DeployInv, Failing, Certificate, Agent, Rendering, Opening, Pushing, Cleaning,
      Sweeping, Pinning, Looking, Starting

\* Every step keeps the invariant.
LEMMA DeployStep == DeployInv /\ [Next]_vars => DeployInv'
<1> SUFFICES ASSUME DeployInv, [Next]_vars PROVE DeployInv'
  OBVIOUS
<1>1. CASE UNCHANGED vars
  <2>1. UNCHANGED <<want, version, local, remote, box, data, tls, wetty, pc, run, faults,
                    runs, edits>>
    BY <1>1 DEF vars, server
  <2>2. UNCHANGED <<Version0, Made, Wanted, ToRender, Targets, Leaves>> /\ (Trusted' <=> Trusted)
        /\ (PairFits' <=> PairFits)
    BY <2>1 DEF Version0, Made, Wanted, ToRender, Targets, Leaves, Parents, Trusted, PairFits
  <2>3. TypeOK'
    BY <2>1, <2>2 DEF DeployInv, TypeOK
  <2>4. \A s : (AsAsked(s)' <=> AsAsked(s)) /\ (Foreign(s)' <=> Foreign(s))
    BY <2>1, <2>2 DEF AsAsked, Foreign
  <2> QED
    BY <2>1, <2>2, <2>3, <2>4
    DEF DeployInv, Failing, Certificate, Agent, Rendering, Opening, Pushing, Cleaning,
        Sweeping, Pinning, Looking, Starting
<1>2. CASE Next
  BY <1>2, KeptBetweenRuns, KeptByStartRun, KeptByPasses, KeptByProbe, KeptByEnsureDataDirs,
     KeptBySetupWetty, KeptByServiceEnv, KeptByConfigureFirewall, KeptByRsync, KeptByCleanup,
     KeptByRemoveOrphans, KeptByCopyRedpanda, KeptByGlobalEnv, KeptByPgPreflight,
     KeptByComposeUp, KeptByFinish
  DEF Next
<1> QED  BY <1>1, <1>2

\* The invariant holds in every behaviour.
LEMMA Invariance == Spec => []DeployInv
BY DeployInit, DeployStep, PTL DEF Spec

\* Every variable keeps its type, for every set of stacks, rules and databases,
\* and nothing on the server names a release or a run that has not been.
THEOREM TypeCorrect == Spec => []TypeOK
<1>1. DeployInv => TypeOK
  BY DEF DeployInv
<1> QED  BY <1>1, Invariance, PTL

\* A run whose every phase reports ok has left every target running as OpenTofu
\* asks, whatever earlier runs have left on the server and however many calls
\* were lost (compose_runner.py, stack_sync.py, orchestrator.py).
THEOREM OkRunsAsAsked == Spec => []OkMeansAsAsked
<1>1. DeployInv => OkMeansAsAsked
  <2> SUFFICES ASSUME DeployInv, pc = "done", run.status = "ok"
               PROVE  /\ \A s \in Targets \ run.unsure : AsAsked(s)
                      /\ remote.folders \subseteq want.on
                      /\ PairFits
    BY DEF OkMeansAsAsked
  <2> QED  BY DEF DeployInv, Certificate, Cleaning, Starting, Trusted
<1> QED  BY <1>1, Invariance, PTL

\* A run in which nothing goes wrong repairs whatever earlier runs have left,
\* and fails only at a data directory of another major (pg_preflight.py).
THEOREM CleanConverges == Spec => []CleanRunConverges
<1>1. DeployInv => CleanRunConverges
  <2> SUFFICES ASSUME DeployInv, pc = "done", run.clean
               PROVE  IF run.status = "failed" THEN \E s \in Wanted : Foreign(s)
                      ELSE /\ \A s \in Targets \cap want.on : AsAsked(s)
                           /\ PairFits /\ ~tls.old
                           /\ "wetty" \in want.on =>
                                wetty.live /\ wetty.key \in wetty.loaded \cap wetty.auth
    BY DEF CleanRunConverges
  <2>1. CASE run.status = "failed"
    BY <2>1 DEF DeployInv, Failing
  <2>2. CASE run.status # "failed"
    BY <2>2 DEF DeployInv, Certificate, Agent, Looking, Starting, Trusted
  <2> QED  BY <2>1, <2>2
<1> QED  BY <1>1, Invariance, PTL

\* When the containers are started, no override without a rule is on the server
\* but those that firewall-configure has reported: the rule that
\* orchestrator.py calls safety-critical, for any sequence of runs, edits and
\* faults.
THEOREM PortsHaveRules == Spec => []NoPortWithoutRule
<1>1. DeployInv => NoPortWithoutRule
  BY DEF DeployInv, Opening, Sweeping, NoPortWithoutRule
<1> QED  BY <1>1, Invariance, PTL

\* No database is started on the data directory of another major that the
\* preflight of the same run could look at (pg_preflight.parse_result).
THEOREM PreflightIsHeeded == Spec => PreflightGuards
<1>1. ASSUME DeployInv, [Next]_vars
      PROVE  [\A s \in Databases : pc = "compose" /\ box'[s] # box[s] /\ Foreign(s)
                => s \in run.unsure]_vars
  <2>1. CASE ComposeUp
    <3>1. PICK S, dead \in SUBSET Stacks :
            S \subseteq Targets \cap remote.folders /\ box' = Up(S, dead)
      BY <1>1, <2>1, Composed
    <3>2. Databases \subseteq Stacks
      BY DeployAssumption
    <3>3. \A k \in Databases : box'[k] # box[k] => k \in Targets
      BY <3>1, <3>2 DEF Up
    <3>4. \A k \in Databases : k \in Targets => k \in Wanted
      BY <1>1, TargetsAreStacks
    <3>5. pc = "compose"
      BY <2>1 DEF ComposeUp
    <3> QED  BY <1>1, <3>3, <3>4, <3>5 DEF DeployInv, Looking
  <2>2. CASE ~ComposeUp
    <3>1. CASE Next
      BY <2>2, <3>1
      DEF Next, Toggle, ToggleRule, Upgrade, Age, Discard, Reboot, Rebuild, Edit, StartRun,
          ReadState, Probe, Ensure, Restore, EnsureDataDirs, DockerLogin, SetupWetty,
          ServiceEnv, ConfigureFirewall, Rsync, Cleanup, RemoveOrphans, CopyRedpanda,
          GlobalEnv, PgPreflight, Finish
    <3> QED  BY <1>1, <3>1
  <2> QED  BY <2>1, <2>2
<1> QED  BY <1>1, Invariance, PTL DEF Spec, PreflightGuards
=============================================================================

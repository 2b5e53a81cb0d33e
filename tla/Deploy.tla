------------------------------- MODULE Deploy -------------------------------
(***************************************************************************)
(* The part of a spin-up that turns what OpenTofu asks for into running    *)
(* containers: run_pipeline of pipeline.py up to the pre-bootstrap phases  *)
(* of orchestrator.py (service-env, firewall-configure, stack-sync,        *)
(* firewall-sync, global-env, pg-preflight, compose-up), with the scripts  *)
(* of setup.py before them.  The server keeps its folders, containers,     *)
(* data directories, certificate and ssh-agent from one spin-up to the     *)
(* next; between two of them the operator changes the wanted services and  *)
(* rules, releases move, the server is rebooted from its disk image or     *)
(* built anew.  Every remote call may be refused, or lose its answer.      *)
(***************************************************************************)
EXTENDS Naturals, FiniteSets

CONSTANTS Stacks,      \* the folders under stacks/
          ParentOf,    \* _STACK_PARENTS: virtual service -> the stack it is in
          Deferred,    \* _DEFERRED_SERVICES
          Rendered,    \* the stacks _SPECS has a renderer for
          Guarded,     \* those whose renderer skips without its secret
          Databases,   \* the stacks with a PostgreSQL data directory
          Binds,       \* those that keep it on a bind mount
          Ruled,       \* the services with tcp_ports
          Probes,      \* attempts of wait_for_ssh
          MaxRuns, MaxFaults, MaxVersion,
          MaxEdits     \* changes between the runs

Virtual == DOMAIN ParentOf
Services == Stacks \cup Virtual

(* A parent keeps no database: _STACK_PARENTS names seaweedfs only.        *)
ASSUME DeployAssumption ==
  /\ IsFiniteSet(Services)
  /\ Virtual \cap Stacks = {} /\ "redpanda" \notin Virtual
  /\ \A v \in Virtual : ParentOf[v] \in Stacks \ Databases
  /\ Deferred \cup Rendered \cup Databases \subseteq Stacks
  /\ Guarded \subseteq Rendered /\ Binds \subseteq Databases
  /\ Ruled \subseteq Services
  /\ Probes \in Nat \ {0} /\ MaxRuns \in Nat /\ MaxFaults \in Nat
  /\ MaxVersion \in Nat \ {0} /\ MaxEdits \in Nat

VARIABLES want,     \* OpenTofu's outputs: enabled services, firewall rules
          version,  \* the release: image versions, secrets, Postgres major
          local,    \* the checkout the workflow runs in
          remote,   \* /opt/docker-server/stacks
          box,      \* the container of each stack
          data,     \* the major that wrote each data directory, 0 if empty
          tls,      \* /mnt/nexus-data/forgejo-ci-tls
          wetty,    \* Wetty's key pair, authorized_keys and ssh-agent
          pc, run, faults, runs, edits

server == <<remote, box, data, tls, wetty>>
vars == <<want, version, local, server, pc, run, faults, runs, edits>>

-----------------------------------------------------------------------------
(***************************************************************************)
(* A container carries the image, the .env and the published port it was   *)
(* created with, and what it read from the host when it started.           *)
(***************************************************************************)
Gone == [up |-> FALSE, image |-> 0, env |-> 0, open |-> FALSE, read |-> 0]

NewServer(folders) ==
  [remote |-> [tools |-> {}, folders |-> folders, open |-> {}, rp |-> FALSE,
               env |-> [s \in Stacks |-> 0], global |-> 0],
   box    |-> [s \in Stacks |-> Gone],
   data   |-> [s \in Databases |-> 0],
   tls    |-> [key |-> 0, crt |-> 0, bundle |-> 0, old |-> FALSE],
   wetty  |-> [key |-> 0, pub |-> 0, auth |-> {}, agent |-> 0, live |-> FALSE,
               loaded |-> {}]]

Checkout == [env |-> [s \in Stacks |-> 0], open |-> {}, rp |-> FALSE]

IsServer(b) == /\ remote = b.remote /\ box = b.box /\ data = b.data
               /\ tls = b.tls /\ wetty = b.wetty

Init ==
  /\ \E on \in {Services, Services \ {ParentOf[v] : v \in Virtual}} :
       \E rules \in {{}, Ruled} : want = [on |-> on, rules |-> rules]
  /\ version = 1 /\ local = Checkout
  /\ IsServer(NewServer({}))
  /\ pc = "idle" /\ faults = 0 /\ runs = 0 /\ edits = 0
  /\ \E kept \in BOOLEAN, bare \in {{}, Guarded} :
       run = [kept |-> kept, bare |-> bare, tries |-> 0, unsure |-> {},
              stuck |-> {}, status |-> "ok", clean |-> FALSE]

-----------------------------------------------------------------------------
Calls == {"ok"} \cup (IF faults < MaxFaults THEN {"refused", "lost"} ELSE {})
Applied(r) == r # "refused"
Cost(r) == IF r = "ok" THEN 0 ELSE 1

Spend(n) == faults + n <= MaxFaults /\ faults' = faults + n

(* The sets of at most the faults that are left.                           *)
Few(S) == {T \in SUBSET S : faults + Cardinality(T) <= MaxFaults}
Some(n) == IF faults + n <= MaxFaults THEN BOOLEAN ELSE {FALSE}
Count(b) == IF b THEN 1 ELSE 0

Worse(a, b) == IF "failed" \in {a, b} THEN "failed"
               ELSE IF "partial" \in {a, b} THEN "partial" ELSE "ok"

(***************************************************************************)
(* A phase has spent n faults and reports s: the run goes on at `next'     *)
(* unless it failed.                                                       *)
(***************************************************************************)
Report(n, s, next) ==
  /\ Spend(n)
  /\ pc' = IF s = "failed" THEN "done" ELSE next
  /\ run' = [run EXCEPT !.status = Worse(@, s), !.clean = @ /\ n = 0]

If(c, s) == IF c THEN "ok" ELSE s

Fixed == UNCHANGED <<want, version, runs, edits>>

-----------------------------------------------------------------------------
(* Between the runs.                                                       *)
Edit(E) == /\ pc = "idle" /\ edits < MaxEdits /\ edits' = edits + 1
           /\ E
           /\ UNCHANGED <<pc, run, faults, runs, local>>

Toggle == \E s \in Services :
  Edit(/\ want' = [want EXCEPT !.on = IF s \in @ THEN @ \ {s} ELSE @ \cup {s}]
       /\ UNCHANGED <<version, server>>)

ToggleRule == \E s \in Ruled :
  Edit(/\ want' = [want EXCEPT !.rules = IF s \in @ THEN @ \ {s} ELSE @ \cup {s}]
       /\ UNCHANGED <<version, server>>)

Upgrade == Edit(/\ version < MaxVersion /\ version' = version + 1
                /\ UNCHANGED <<want, server>>)

(* The certificate enters its last thirty days.                            *)
Age == Edit(/\ tls.crt # 0 /\ ~tls.old
            /\ tls' = [tls EXCEPT !.old = TRUE]
            /\ UNCHANGED <<want, version, remote, box, data, wetty>>)

(* The operator follows the advice of format_failure.                      *)
Discard == \E s \in Databases :
  Edit(/\ data[s] \notin {0, version}
       /\ data' = [data EXCEPT ![s] = 0]
       /\ box' = [box EXCEPT ![s] = Gone]
       /\ UNCHANGED <<want, version, remote, tls, wetty>>)

(* What a container reads from the host when it starts.                    *)
Read(s, r, t, w) == CASE s = "redpanda"       -> Count(r.rp)
                      [] s = "forgejo-runner" -> t.crt
                      [] s = "wetty"          -> w.agent
                      [] OTHER                -> 0

(***************************************************************************)
(* The server comes back from its disk image: containers restart by their  *)
(* policy, processes like the ssh-agent do not.                            *)
(***************************************************************************)
Reboot ==
  Edit(/\ runs > 0
       /\ wetty' = [wetty EXCEPT !.agent = 0, !.live = FALSE, !.loaded = {}]
       /\ box' = [s \in Stacks |->
                   IF box[s].up
                   THEN [box[s] EXCEPT !.read = Read(s, remote, tls, wetty')]
                   ELSE box[s]]
       /\ UNCHANGED <<want, version, remote, data, tls>>)

Rebuild ==
  Edit(/\ runs > 0
       /\ LET b == NewServer({})
          IN /\ remote' = b.remote /\ box' = b.box /\ data' = b.data
             /\ tls' = b.tls /\ wetty' = b.wetty
       /\ UNCHANGED <<want, version>>)

-----------------------------------------------------------------------------
(* run_pipeline before the orchestrator.  Any error ends the run.          *)

StartRun ==
  /\ pc = "idle" /\ runs < MaxRuns
  /\ runs' = runs + 1
  /\ local' = IF run.kept THEN local ELSE Checkout
  /\ pc' = "state"
  /\ run' = [run EXCEPT !.tries = 0, !.unsure = {}, !.stuck = {},
                        !.status = "ok", !.clean = TRUE]
  /\ UNCHANGED <<want, version, server, faults, edits>>

(* The R2 credentials, the OpenTofu state, config.tfvars, the outputs.     *)
ReadState ==
  /\ pc = "state"
  /\ \E bad \in Some(1) : Report(Count(bad), If(~bad, "failed"), "ssh")
  /\ UNCHANGED <<local, server>> /\ Fixed

(***************************************************************************)
(* wait_for_ssh: a server that is still booting costs attempts, not the    *)
(* run, unless all of them fail.                                           *)
(***************************************************************************)
Probe ==
  /\ pc = "ssh"
  /\ \/ Report(0, "ok", "jq")
     \/ /\ run.tries + 1 < Probes
        /\ run' = [run EXCEPT !.tries = @ + 1]
        /\ UNCHANGED <<pc, faults>>
     \/ /\ run.tries + 1 = Probes
        /\ Report(1, "failed", "jq")
  /\ UNCHANGED <<local, server>> /\ Fixed

(* ensure_jq and ensure_rclone install what `command -v' does not find.    *)
Ensure(tool, at, next) ==
  /\ pc = at
  /\ \E r \in IF tool \in remote.tools THEN {"ok"} ELSE Calls :
       /\ Report(Cost(r), If(r = "ok", "failed"), next)
       /\ remote' = IF Applied(r) THEN [remote EXCEPT !.tools = @ \cup {tool}]
                    ELSE remote
  /\ UNCHANGED <<local, box, data, tls, wetty>> /\ Fixed

(* restore_from_s3(phase="filesystem"), modelled in S3Persistence.         *)
Restore ==
  /\ pc = "restore"
  /\ \E bad \in Some(1) : Report(Count(bad), If(~bad, "failed"), "dirs")
  /\ UNCHANGED <<local, server>> /\ Fixed

(***************************************************************************)
(* ensure_data_dirs: a new pair if the certificate is missing or about to  *)
(* expire, or is not that of the key; first the key is renamed into place, *)
(* then the certificate, then the bundle is rebuilt.  The script may end   *)
(* before, between or after these.                                         *)
(***************************************************************************)
NeedCert == tls.crt = 0 \/ tls.old \/ tls.key # tls.crt

Installed(stop) ==
  LET key == IF NeedCert /\ stop # "before" THEN runs ELSE tls.key
      crt == IF NeedCert /\ stop \notin {"before", "key"} THEN runs ELSE tls.crt
  IN [key    |-> key, crt |-> crt,
      bundle |-> IF stop \in {"none", "after"} THEN crt ELSE tls.bundle,
      old    |-> tls.old /\ crt = tls.crt]

EnsureDataDirs ==
  /\ pc = "dirs"
  /\ \E stop \in {"none", "before", "key", "crt", "after"} :
       /\ Report(Count(stop # "none"), If(stop = "none", "failed"), "login")
       /\ tls' = Installed(stop)
  /\ UNCHANGED <<local, remote, box, data, wetty>> /\ Fixed

(* `docker login', when Docker Hub credentials are given.                  *)
DockerLogin ==
  /\ pc = "login"
  /\ \E bad \in Some(1) : Report(Count(bad), If(~bad, "failed"), "wetty")
  /\ UNCHANGED <<local, server>> /\ Fixed

(***************************************************************************)
(* setup_wetty_ssh_agent.  A pair of which one file is missing is made     *)
(* anew; an agent counts as alive only if it holds a key (ssh-add -l       *)
(* exits with 1 otherwise), and is replaced, with a new socket, if not.    *)
(* All that goes wrong in the script ends it early, and the pipeline does  *)
(* not look at its result; only a broken connection ends the run.          *)
(***************************************************************************)
KeyMissing == wetty.key = 0 \/ wetty.pub = 0
AgentOk == wetty.live /\ wetty.loaded # {}

WettyAfter(o) ==
  LET key    == IF KeyMissing THEN runs ELSE wetty.key
      keyed  == [wetty EXCEPT !.key = key, !.pub = key, !.auth = @ \cup {key}]
      served == IF AgentOk THEN keyed
                ELSE [keyed EXCEPT !.agent = runs, !.live = TRUE, !.loaded = {}]
  IN CASE o \in {"ok", "lost"} -> [served EXCEPT !.loaded = @ \cup {key}]
       [] o = "add"     -> served
       [] o = "agent"   -> [keyed EXCEPT !.live = FALSE, !.loaded = {}]
       [] o = "keygen"  -> [wetty EXCEPT !.key = 0, !.pub = 0]
       [] o = "half"    -> [wetty EXCEPT !.key = runs, !.pub = 0]
       [] o = "refused" -> wetty

WettyOutcomes ==
  {"ok", "refused", "lost", "add"}
    \cup (IF KeyMissing THEN {"keygen", "half"} ELSE {})
    \cup (IF AgentOk THEN {} ELSE {"agent"})

SetupWetty ==
  /\ pc = "wetty"
  /\ IF "wetty" \in want.on
     THEN \E o \in WettyOutcomes :
            /\ Report(Cost(o), If(o \notin {"refused", "lost", "half"}, "failed"),
                      "env")
            /\ wetty' = WettyAfter(o)
     ELSE Report(0, "ok", "env") /\ UNCHANGED wetty
  /\ UNCHANGED <<local, remote, box, data, tls>> /\ Fixed

-----------------------------------------------------------------------------
(* The pre-bootstrap phases.                                               *)

Wanted == want.on \cap Stacks

(***************************************************************************)
(* service-env writes the .env of each wanted stack into the checkout.  A  *)
(* renderer that lacks its secret skips, which is not a failure; a missing *)
(* template or domain ends the phase before anything is written.           *)
(***************************************************************************)
ToRender == (Wanted \cap Rendered) \ run.bare

ServiceEnv ==
  /\ pc = "env"
  /\ \/ /\ \E unwritten \in Few(ToRender), block \in Some(1) :
             /\ local' = [local EXCEPT !.env =
                  [s \in Stacks |-> IF s \in ToRender \ unwritten THEN version
                                    ELSE @[s]]]
             /\ Report(Cardinality(unwritten) + Count(block),
                       IF unwritten = {} /\ ~block THEN "ok"
                       ELSE IF ~block /\ unwritten = ToRender THEN "failed"
                       ELSE "partial", "firewall")
     \/ Report(1, "failed", "firewall") /\ UNCHANGED local
  /\ UNCHANGED server /\ Fixed

(***************************************************************************)
(* firewall-configure compiles the rules into overrides, in the checkout.  *)
(* A rule whose compose file cannot be read is skipped and keeps the       *)
(* override it has; a virtual service has no folder and is always skipped. *)
(* Overrides without a rule are deleted, which matters in a checkout that  *)
(* was used before.  RedPanda's rules also produce a broker configuration. *)
(***************************************************************************)
Compiled(unread) == (want.rules \cap Stacks) \ unread
Skipped(unread)  == want.rules \ Compiled(unread)
\* Mutant: overrides without a rule stay in the checkout.
StaleKept(unread) == {}

Stale(unread)    == local.open \ want.rules

ConfigureFirewall ==
  /\ pc = "firewall"
  /\ \/ \E unread \in Few((want.rules \cap Stacks) \ {"redpanda"}) :
        \E unwritten \in Few(Compiled(unread)), stuck \in Few(Stale(unread)),
           config \in Some(1) :
          /\ local' = [local EXCEPT
               !.open = (@ \ (Stale(unread) \ stuck))
                           \cup (Compiled(unread) \ unwritten),
               !.rp = IF config THEN @ ELSE "redpanda" \in want.rules]
          /\ Spend(Cardinality(unread) + Cardinality(unwritten)
                     + Cardinality(stuck) + Count(config))
          /\ LET ok == Skipped(unread) \cup unwritten \cup stuck = {} /\ ~config
             IN run' = [run EXCEPT
                  !.status = Worse(@, If(ok, "partial")), !.stuck = stuck,
                  !.clean  = @ /\ faults' = faults]
          /\ pc' = "rsync"
     \/ /\ "redpanda" \in want.rules
        /\ Report(1, "failed", "rsync") /\ UNCHANGED local
  /\ UNCHANGED server /\ Fixed

\* Mutant: overrides are pushed for stacks that are not wanted, too.
PushedEverywhere(S) ==
  [remote EXCEPT
     !.folders = @ \cup S,
     !.env  = [s \in Stacks |-> IF s \in S /\ local.env[s] # 0
                                THEN local.env[s] ELSE @[s]],
     !.open = @ \cup local.open,
     !.rp   = IF "redpanda" \in S THEN FALSE ELSE @]

(***************************************************************************)
(* stack-sync pushes the folder of each wanted stack, without --delete:    *)
(* what the checkout lacks stays on the server.  A push may fail before or *)
(* after it has taken effect, and the next one goes on.  Virtual services  *)
(* have no folder to push.                                                 *)
(***************************************************************************)
Pushed(S) ==
  [remote EXCEPT
     !.folders = @ \cup S,
     !.env  = [s \in Stacks |-> IF s \in S /\ local.env[s] # 0
                                THEN local.env[s] ELSE @[s]],
     !.open = @ \cup (S \cap local.open),
     !.rp   = IF "redpanda" \in S THEN FALSE ELSE @]

\* Mutant: the exit status of a push is lost behind its pipeline's reader.
RsyncQuietly ==
  /\ pc = "rsync"
  /\ \E bad \in Few(Wanted) : \E lost \in SUBSET bad :
       /\ remote' = Pushed((Wanted \ bad) \cup lost)
       /\ Report(Cardinality(bad), "ok", "cleanup")
  /\ UNCHANGED <<local, box, data, tls, wetty>> /\ Fixed

Rsync ==
  /\ pc = "rsync"
  /\ \E bad \in Few(Wanted) : \E lost \in SUBSET bad :
       /\ remote' = Pushed((Wanted \ bad) \cup lost)
       /\ Report(Cardinality(bad), If(bad = {}, "partial"), "cleanup")
  /\ UNCHANGED <<local, box, data, tls, wetty>> /\ Fixed

(***************************************************************************)
(* The cleanup script takes the stacks that are not wanted down and        *)
(* removes their folders, the folder also where `compose down' failed.     *)
(***************************************************************************)
Unwanted == remote.folders \ want.on

CleanedUp(left) ==
  LET gone == Unwanted \ left
  IN [remote EXCEPT !.folders = @ \ gone, !.open = @ \ gone,
        !.env = [s \in Stacks |-> IF s \in gone THEN 0 ELSE @[s]],
        !.rp  = @ /\ "redpanda" \notin gone]

Cleanup ==
  /\ pc = "cleanup"
  /\ \/ \E hung \in Few({s \in Unwanted : box[s].up}), left \in Few(Unwanted),
           mute \in Some(1) :
          /\ remote' = CleanedUp(left)
          /\ box' = [s \in Stacks |-> IF s \in Unwanted \ hung THEN Gone
                                      ELSE box[s]]
          /\ Report(Cardinality(hung) + Cardinality(left) + Count(mute),
                    IF mute THEN "failed" ELSE If(hung \cup left = {}, "partial"),
                    "orphans")
     \/ Report(1, "failed", "orphans") /\ UNCHANGED <<remote, box>>
  /\ UNCHANGED <<local, data, tls, wetty>> /\ Fixed

(***************************************************************************)
(* firewall-sync: the overrides the checkout does not have are removed     *)
(* from the server, one after the other and up to the first that cannot    *)
(* be; then RedPanda gets its configuration.  Any error fails the phase.   *)
(***************************************************************************)
Orphans == remote.open \ local.open

\* Mutant: an override that cannot be removed makes the phase partial.
RemoveOrphansLeniently ==
  /\ pc = "orphans"
  /\ \/ Report(0, "ok", "redpanda") /\ remote' = [remote EXCEPT !.open = @ \ Orphans]
     \/ \E removed \in SUBSET Orphans :
          /\ Report(1, "partial", "redpanda")
          /\ remote' = [remote EXCEPT !.open = @ \ removed]
  /\ UNCHANGED <<local, box, data, tls, wetty>> /\ Fixed

RemoveOrphans ==
  /\ pc = "orphans"
  /\ \/ Report(0, "ok", "redpanda") /\ remote' = [remote EXCEPT !.open = @ \ Orphans]
     \/ \E removed \in SUBSET Orphans :
          /\ Report(1, "failed", "redpanda")
          /\ remote' = [remote EXCEPT !.open = @ \ removed]
  /\ UNCHANGED <<local, box, data, tls, wetty>> /\ Fixed

CopyRedpanda ==
  /\ pc = "redpanda"
  /\ IF "redpanda" \in want.on
     THEN \E r \in Calls :
            /\ Report(Cost(r), If(r = "ok", "failed"), "global")
            /\ remote' = IF Applied(r)
                         THEN [remote EXCEPT !.rp = local.rp,
                                             !.folders = @ \cup {"redpanda"}]
                         ELSE remote
     ELSE Report(0, "ok", "global") /\ UNCHANGED remote
  /\ UNCHANGED <<local, box, data, tls, wetty>> /\ Fixed

(* global-env pins the images; `cat > .env' may leave an empty file.       *)
GlobalEnv ==
  /\ pc = "global"
  /\ \E v \in {version} \cup (IF faults < MaxFaults
                              THEN {0, remote.global} ELSE {}),
        bad \in Some(1) :
       /\ v # version => bad
       /\ Report(Count(bad), If(~bad, "failed"), "preflight")
       /\ remote' = [remote EXCEPT !.global = v]
  /\ UNCHANGED <<local, box, data, tls, wetty>> /\ Fixed

(***************************************************************************)
(* pg-preflight compares the major in each data directory with the one the *)
(* release wants.  A compose file that cannot be read hides its database   *)
(* without a word; with the Docker daemon down the place of a named volume *)
(* is unknown, which must not pass for an empty one.                       *)
(***************************************************************************)
PgContainers(unread) == (Databases \cap Wanted) \ unread

Found(s, docker) == IF docker \/ s \in Binds THEN data[s] ELSE 0

\* Mutant: with the Docker daemon down a named volume passes for absent.
BlindToDocker(S, docker, garbled) == garbled

Blind(S, docker, garbled) == garbled \cup (IF docker THEN {} ELSE S \ Binds)

Mismatches(S, docker, blind) ==
  {s \in S \ blind : Found(s, docker) \notin {0, version}}

PgPreflight ==
  /\ pc = "preflight"
  /\ \E unread \in Few(Databases \cap Wanted) :
     LET S == PgContainers(unread) IN
       \/ \E garbled \in Few(S), down \in (IF S = {} THEN {FALSE} ELSE Some(1)) :
          LET blind == Blind(S, ~down, garbled)
              bad   == Mismatches(S, ~down, blind)
          IN /\ Spend(Cardinality(unread) + Cardinality(garbled) + Count(down))
             /\ run' = [run EXCEPT !.unsure = unread \cup blind,
                  !.clean = @ /\ faults' = faults,
                  !.status = Worse(@, IF bad # {} THEN "failed"
                                      ELSE If(blind = {}, "partial"))]
             /\ pc' = IF bad = {} THEN "compose" ELSE "done"
       \/ /\ S # {}                            \* the probe raises
          /\ Spend(Cardinality(unread) + 1)
          /\ run' = [run EXCEPT !.unsure = Databases, !.clean = FALSE,
                                !.status = Worse(@, "partial")]
          /\ pc' = "compose"
  /\ UNCHANGED <<local, server>> /\ Fixed

(***************************************************************************)
(* compose-up: the parents of virtual services, then the rest, deferred    *)
(* ones excepted; only the latter with their firewall override.  Compose   *)
(* leaves a running container alone whose configuration has not changed.   *)
(* A database does not come up on the directory of another major, though   *)
(* `docker ps' may still list it while it restarts.                        *)
(***************************************************************************)
Parents == {ParentOf[v] : v \in want.on \cap Virtual}
Leaves  == (Wanted \ Parents) \ Deferred
Targets == Parents \cup Leaves

Foreign(s) == s \in Databases /\ data[s] \notin {0, version}

Created(s) == [up    |-> ~Foreign(s),
               image |-> remote.global,
               env   |-> remote.env[s],
               open  |-> s \in Leaves \cap remote.open,
               read  |-> Read(s, remote, tls, wetty)]

Started(s) ==
  IF box[s].up /\ box[s] = [Created(s) EXCEPT !.up = TRUE, !.read = box[s].read]
  THEN box[s] ELSE Created(s)

(* After starting S, of which those in `dead' exit at once.                *)
Up(S, dead) ==
  [s \in Stacks |-> IF s \notin S THEN box[s]
                    ELSE IF s \in dead THEN [Created(s) EXCEPT !.up = FALSE]
                    ELSE Started(s)]

ComposeUp ==
  /\ pc = "compose"
  /\ LET present == Targets \cap remote.folders
         foreign == {s \in present : Foreign(s)}
     IN \/ \E bad \in Few(present) : \E dead \in SUBSET bad,
              mute \in Some(1), seen \in SUBSET foreign :
             /\ box' = Up((present \ bad) \cup dead, dead)
             /\ data' = [s \in Databases |->
                  IF s \in (present \ bad) \cup dead /\ data[s] = 0
                  THEN version ELSE data[s]]
             /\ Report(Cardinality(bad) + Count(mute),
                       If(~mute /\ bad = {} /\ foreign \subseteq seen
                            /\ present = Targets, "partial"), "done")
        \/ \E begun \in {{}, present} :        \* the connection breaks
             /\ box' = Up(begun, {})
             /\ data' = [s \in Databases |->
                  IF s \in begun /\ data[s] = 0 THEN version ELSE data[s]]
             /\ Report(1, "failed", "done")
  /\ UNCHANGED <<local, remote, tls, wetty>> /\ Fixed

(* The rest of the spin-up is in Secrets, Forge and S3Persistence.         *)
Finish == /\ pc = "done" /\ pc' = "idle"
          /\ UNCHANGED <<local, server, run, faults>> /\ Fixed

-----------------------------------------------------------------------------
Next ==
  \/ Toggle \/ ToggleRule \/ Upgrade \/ Age \/ Discard \/ Reboot \/ Rebuild
  \/ StartRun \/ ReadState \/ Probe
  \/ Ensure("jq", "jq", "rclone") \/ Ensure("rclone", "rclone", "restore")
  \/ Restore \/ EnsureDataDirs \/ DockerLogin \/ SetupWetty
  \/ ServiceEnv \/ ConfigureFirewall \/ Rsync \/ Cleanup \/ RemoveOrphans
  \/ CopyRedpanda \/ GlobalEnv \/ PgPreflight \/ ComposeUp \/ Finish

Spec == Init /\ [][Next]_vars

-----------------------------------------------------------------------------
(***************************************************************************)
(* The type invariant, with the bookkeeping a step must keep consistent:   *)
(* nothing on the server names a generation that no run has made.          *)
(***************************************************************************)
Version0 == 0 .. version
Made == 0 .. runs

TypeOK ==
  /\ want \in [on : SUBSET Services, rules : SUBSET Ruled]
  /\ version \in 1 .. MaxVersion
  /\ local \in [env : [Stacks -> Version0], open : SUBSET Stacks, rp : BOOLEAN]
  /\ remote \in [tools : SUBSET {"jq", "rclone"}, folders : SUBSET Stacks,
                 open : SUBSET Stacks, rp : BOOLEAN,
                 env : [Stacks -> Version0], global : Version0]
  /\ remote.open \subseteq remote.folders
  /\ box \in [Stacks -> [up : BOOLEAN, image : Version0, env : Version0,
                         open : BOOLEAN, read : Made \cup {1}]]
  /\ data \in [Databases -> Version0]
  /\ tls \in [key : Made, crt : Made, bundle : Made, old : BOOLEAN]
  /\ wetty \in [key : Made, pub : Made, auth : SUBSET Made, agent : Made,
                live : BOOLEAN, loaded : SUBSET Made]
  /\ pc \in {"idle", "state", "ssh", "jq", "rclone", "restore", "dirs", "login",
             "wetty", "env", "firewall", "rsync", "cleanup", "orphans",
             "redpanda", "global", "preflight", "compose", "done"}
  /\ run \in [kept : BOOLEAN, bare : {{}, Guarded}, tries : 0 .. Probes - 1,
              unsure : SUBSET Databases, stuck : SUBSET Stacks,
              status : {"ok", "partial", "failed"}, clean : BOOLEAN]
  /\ faults \in 0 .. MaxFaults /\ runs \in 0 .. MaxRuns
  /\ edits \in 0 .. MaxEdits

(***************************************************************************)
(* A target runs as OpenTofu asks: the release's image and rendered .env,  *)
(* and its port published exactly if a rule asks for it.  A stack that is  *)
(* started as a parent never gets its override.                            *)
(***************************************************************************)
AsAsked(s) == /\ box[s].up /\ box[s].image = version
              /\ s \in ToRender => box[s].env = version
              /\ box[s].open <=> s \in Leaves \cap want.rules

PairFits == tls.key = tls.crt /\ tls.bundle = tls.crt /\ tls.crt # 0

(***************************************************************************)
(* A run whose every phase reported ok has every target running as asked,  *)
(* no folder of a stack nobody wants, and a certificate that is that of    *)
(* the key and in the bundle, whatever earlier runs have left.  Excepted   *)
(* are databases whose compose file the preflight could not read: it says  *)
(* so on stderr only (pg_preflight.py, compose_runner.py, stack_sync.py).  *)
(***************************************************************************)
OkMeansAsAsked ==
  pc = "done" /\ run.status = "ok" =>
    /\ \A s \in Targets \ run.unsure : AsAsked(s)
    /\ remote.folders \subseteq want.on
    /\ PairFits

(***************************************************************************)
(* A run in which nothing goes wrong repairs what faults of earlier runs,  *)
(* new releases, a reboot or a new server have left, every half-done step  *)
(* included: half a key pair, a key beside an old certificate, an agent    *)
(* without a key, a torn .env, an override without its rule.  It fails     *)
(* only at a data directory of another major.  A parent that is not itself *)
(* enabled has no folder to start from (compose_runner.expand_targets).    *)
(***************************************************************************)
CleanRunConverges ==
  pc = "done" /\ run.clean =>
    IF run.status = "failed" THEN \E s \in Wanted : Foreign(s)
    ELSE /\ \A s \in Targets \cap want.on : AsAsked(s)
         /\ PairFits /\ ~tls.old
         /\ "wetty" \in want.on =>
              wetty.live /\ wetty.key \in wetty.loaded \cap wetty.auth

(***************************************************************************)
(* When the containers are started no override without a rule is left on   *)
(* the server, which would publish a port OpenTofu has closed, whatever    *)
(* has failed so far: firewall-sync ends the run if it cannot remove one   *)
(* ("SAFETY-critical", orchestrator.py).  Excepted is an override that     *)
(* firewall-configure could not delete in the checkout, which it reports.  *)
(***************************************************************************)
NoPortWithoutRule == pc = "compose" => remote.open \subseteq want.rules \cup run.stuck

(***************************************************************************)
(* No database is started on the data directory of another major unless    *)
(* the preflight of the same run could not look at it: not even where the  *)
(* Docker daemon was down and the volume could not be found                *)
(* (pg_preflight.parse_result).                                            *)
(***************************************************************************)
PreflightGuards ==
  [][\A s \in Databases : pc = "compose" /\ box'[s] # box[s] /\ Foreign(s)
       => s \in run.unsure]_vars

(***************************************************************************)
(* setup.py says that every spin-up recreates the containers, so that a    *)
(* renewed certificate is picked up without any further step: after a run  *)
(* without faults the CI proxy serves the certificate on the disk.         *)
(***************************************************************************)
RenewalIsPickedUp ==
  pc = "done" /\ run.clean /\ run.status # "failed"
    /\ "forgejo-runner" \in Targets => box["forgejo-runner"].read = tls.crt

=============================================================================

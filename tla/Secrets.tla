------------------------------ MODULE Secrets ------------------------------
(***************************************************************************)
(* The way of a secret from OpenTofu into a container, and the Kestra      *)
(* flows that depend on it, over several spin-ups of one disk:             *)
(*                                                                         *)
(*   infisical-provision   bootstraps Infisical or loads saved credentials *)
(*   infisical-bootstrap   pushes the folders of secrets                   *)
(*   forgejo-configure     rotates the automation token (see Forge)        *)
(*   kestra-secret-sync    Infisical and the token into stacks/kestra/.env *)
(*   kestra-register       registers the system flows, pulls the flows     *)
(*   seed, mirror-*        writes the seeded flows into the repository     *)
(*   secret-sync-*         Infisical and the token into .infisical.env     *)
(*                                                                         *)
(* stack-sync and compose-up run first: they overwrite Kestra's .env with  *)
(* the rendered one, in which no synced block is.  While the stack is up,  *)
(* flow-export pushes a student's flows to the repository every ten        *)
(* minutes, with the token its container was started with.                 *)
(***************************************************************************)
EXTENDS Naturals, Sequences, FiniteSets

CONSTANTS NotebookList,  \* the enabled ones of jupyter, marimo, code-server
          MaxRuns,       \* spin-ups in a behaviour
          MaxFaults,     \* calls that go wrong in a behaviour
          MaxEpoch,      \* generations of the secrets in OpenTofu's state
          MaxEdits       \* versions of the student's flows

ASSUME SecretsAssumption ==
  /\ NotebookList \in Seq({"jupyter", "marimo", "code-server"})
  /\ NotebookList # <<>>
  /\ MaxRuns \in Nat /\ MaxFaults \in Nat /\ MaxEpoch \in Nat \ {0}
  /\ MaxEdits \in Nat

VARIABLES infisical,  \* what the Infisical server holds
          saved,      \* the credential files on the server
          file,       \* the synced block in each stack's env file
          live,       \* the block each container was started with
          forgejo,    \* the automation tokens: the valid one, those minted
          kestra,     \* the flows Kestra holds
          git,        \* the flows the workspace repository holds
          epoch,      \* generation of the secrets in OpenTofu's state
          datalake,   \* the R2 datalake is configured
          pc, run, faults, runs

vars == <<infisical, saved, file, live, forgejo, kestra, git, epoch, datalake,
          pc, run, faults, runs>>

stores == <<infisical, saved, file, live, forgejo, kestra, git, epoch, datalake>>

StackList == <<"kestra">> \o NotebookList
Stacks == {StackList[i] : i \in DOMAIN StackList}

(***************************************************************************)
(* Two of the folders stand for all: one that is pushed on every run, one  *)
(* that is emitted only while its fields are configured.  Each carries one *)
(* key, whose value is the generation it was generated in; 0 is none.      *)
(***************************************************************************)
Folders == {"config", "r2-datalake"}
Keys == Folders \cup {"FORGEJO_TOKEN"}
Empty == [k \in Keys |-> 0]
Tokens == 0 .. MaxRuns
Blocks == {b \in [Keys -> 0 .. (MaxEpoch + MaxRuns)] :
             /\ \A f \in Folders : b[f] <= MaxEpoch
             /\ b["FORGEJO_TOKEN"] \in Tokens}
SystemFlows == {"git-sync", "flow-sync", "flow-export"}

(***************************************************************************)
(* compute_folders drops a folder whose fields are not configured; nothing *)
(* removes a folder or a key pushed by an earlier run.                     *)
(***************************************************************************)
ComputeFolders(r2) == IF r2 THEN Folders ELSE {"config"}

TypeOK ==
  /\ infisical \in [admin : BOOLEAN, project : BOOLEAN,
                    secrets : [Folders -> 0 .. MaxEpoch], pinned : Tokens]
  /\ saved \in [token : BOOLEAN, project : BOOLEAN]
  /\ file \in [Stacks -> Blocks] /\ live \in [Stacks -> Blocks]
  /\ forgejo \in [valid : Tokens, minted : Tokens]
  /\ kestra \in [system : SUBSET SystemFlows, seeds : BOOLEAN,
                 mine : 0 .. MaxEdits, due : 0 .. MaxEdits]
  /\ git \in [repo : BOOLEAN, seeds : BOOLEAN, mine : 0 .. MaxEdits]
  /\ epoch \in 1 .. MaxEpoch /\ datalake \in BOOLEAN
  /\ pc \in {"idle", "sync", "up", "provision", "project", "saveToken",
             "saveProject", "push", "forgejo", "await", "read", "restart",
             "back", "register", "trigger", "seed", "finalize", "done"}
  /\ run \in [mirror : BOOLEAN, creds : BOOLEAN, token : Tokens, fork : BOOLEAN,
              left : {SubSeq(StackList, i, Len(StackList)) :
                        i \in 1 .. Len(StackList) + 1},
              before : [Stacks -> Blocks], hidden : BOOLEAN,
              status : {"ok", "partial", "failed"}, clean : BOOLEAN]
  /\ faults \in 0 .. MaxFaults /\ runs \in 0 .. MaxRuns

-----------------------------------------------------------------------------
(* Calls, as in Forge: refused without effect, or answered by nobody.      *)
Calls == {"ok"} \cup (IF faults < MaxFaults THEN {"refused", "lost"} ELSE {})
Reads == Calls \ {"lost"}
Applied(r) == r # "refused"
Cost(r) == IF r = "ok" THEN 0 ELSE 1

Spend(n) == faults + n <= MaxFaults /\ faults' = faults + n

Worse(a, b) == IF "failed" \in {a, b} THEN "failed"
               ELSE IF "partial" \in {a, b} THEN "partial" ELSE "ok"

(* The run's record after n calls went wrong, with the phase result s.     *)
Noted(n, s) == [run EXCEPT !.clean = @ /\ n = 0, !.status = Worse(@, s)]
If(c, s) == IF c THEN "ok" ELSE s

Init ==
  /\ infisical = [admin |-> FALSE, project |-> FALSE,
                  secrets |-> [f \in Folders |-> 0], pinned |-> 0]
  /\ saved = [token |-> FALSE, project |-> FALSE]
  /\ file = [s \in Stacks |-> Empty] /\ live = file
  /\ forgejo = [valid |-> 0, minted |-> 0]
  /\ kestra = [system |-> {}, seeds |-> FALSE, mine |-> 0, due |-> 0]
  /\ git = [repo |-> FALSE, seeds |-> FALSE, mine |-> 0]
  /\ epoch = 1 /\ datalake = TRUE
  /\ pc = "idle" /\ faults = 0 /\ runs = 0
  /\ \E mirror \in BOOLEAN :
       run = [mirror |-> mirror, creds |-> FALSE, token |-> 0, fork |-> FALSE,
              left |-> StackList, before |-> file, hidden |-> FALSE,
              status |-> "ok", clean |-> FALSE]

-----------------------------------------------------------------------------
(***************************************************************************)
(* Between the runs: OpenTofu regenerates the secrets, the operator drops  *)
(* the datalake or stores today's token in Infisical's root folder, the    *)
(* student edits flows in Kestra's UI.                                     *)
(***************************************************************************)
Rotate == /\ pc = "idle" /\ epoch < MaxEpoch
          /\ epoch' = epoch + 1
          /\ UNCHANGED <<infisical, saved, file, live, forgejo, kestra, git,
                         datalake, pc, run, faults, runs>>

DropDatalake == /\ pc = "idle" /\ datalake
                /\ datalake' = FALSE
                /\ UNCHANGED <<infisical, saved, file, live, forgejo, kestra, git,
                               epoch, pc, run, faults, runs>>

PinToken == /\ pc = "idle" /\ infisical.project /\ infisical.pinned = 0
            /\ forgejo.valid # 0
            /\ infisical' = [infisical EXCEPT !.pinned = forgejo.valid]
            /\ UNCHANGED <<saved, file, live, forgejo, kestra, git, epoch,
                           datalake, pc, run, faults, runs>>

Edit == /\ runs > 0 /\ kestra.mine < MaxEdits
        /\ kestra' = [kestra EXCEPT !.mine = @ + 1]
        /\ UNCHANGED <<infisical, saved, file, live, forgejo, git, epoch,
                       datalake, pc, run, faults, runs>>

(* Kestra's secret('FORGEJO_TOKEN') is read when the container starts.     *)
CanClone == /\ live["kestra"]["FORGEJO_TOKEN"] = forgejo.valid
            /\ forgejo.valid # 0 /\ git.repo

(***************************************************************************)
(* Ten minutes pass: flow-export, if registered, pushes the namespace      *)
(* my-flows.  What is edited by now is due to be in the repository.        *)
(***************************************************************************)
FlowExport ==
  /\ pc = "idle" /\ kestra.due # kestra.mine
  /\ kestra' = [kestra EXCEPT !.due = kestra.mine]
  /\ git' = IF CanClone /\ "flow-export" \in kestra.system
            THEN [git EXCEPT !.mine = kestra.mine] ELSE git
  /\ UNCHANGED <<infisical, saved, file, live, forgejo, epoch, datalake,
                 pc, run, faults, runs>>

StartRun ==
  /\ pc = "idle" /\ runs < MaxRuns
  /\ runs' = runs + 1
  /\ pc' = "sync"
  /\ run' = [run EXCEPT !.creds = FALSE, !.token = 0, !.fork = FALSE,
                        !.left = StackList, !.before = file, !.hidden = FALSE,
                        !.status = "ok", !.clean = TRUE]
  /\ UNCHANGED <<stores, faults>>

(***************************************************************************)
(* An exception out of ssh, rsync or the tunnel is a failed phase and ends *)
(* the run, wherever its remote script has come to; mirror-finalize turns  *)
(* it into a partial one.                                                  *)
(***************************************************************************)
Raise ==
  /\ pc \notin {"idle", "done", "finalize"}
  /\ Spend(1)
  /\ pc' = "done"
  /\ run' = Noted(1, "failed")
  /\ UNCHANGED <<stores, runs>>

(* The process exits with 0, 1 or 2 and the run's status is on record.     *)
Finish == /\ pc = "done"
          /\ pc' = "idle"
          /\ UNCHANGED <<stores, run, faults, runs>>

-----------------------------------------------------------------------------
(***************************************************************************)
(* service-env and stack-sync: the rendered .env of Kestra replaces the    *)
(* file on the server.  rsync runs without --delete, and nothing renders   *)
(* an .infisical.env, so that those of the notebooks stay.                 *)
(***************************************************************************)
StackSync ==
  /\ pc = "sync"
  /\ \E r \in Calls :
       /\ Spend(Cost(r))
       /\ file' = IF Applied(r) THEN [file EXCEPT !["kestra"] = Empty] ELSE file
       /\ run' = Noted(Cost(r), If(r = "ok", "partial"))
  /\ pc' = "up"
  /\ UNCHANGED <<infisical, saved, live, forgejo, kestra, git, epoch, datalake, runs>>

(* compose-up recreates each container whose env files have changed.       *)
ComposeUp ==
  /\ pc = "up"
  /\ \E bad \in SUBSET Stacks :
       /\ Spend(Cardinality(bad))
       /\ live' = [s \in Stacks |-> IF s \in bad THEN live[s] ELSE file[s]]
       /\ run' = Noted(Cardinality(bad), If(bad = {}, "partial"))
  /\ pc' = "provision"
  /\ UNCHANGED <<infisical, saved, file, forgejo, kestra, git, epoch, datalake, runs>>

-----------------------------------------------------------------------------
(* infisical-provision.                                                    *)

(* Without usable credentials the phase is partial and the run goes on.    *)
NoCredentials(n) == /\ pc' = "push"
                    /\ run' = Noted(n, "partial")

(***************************************************************************)
(* Infisical is not ready in time; or it cannot be asked whether it is     *)
(* initialized, and answers the second bootstrap with "already".           *)
(***************************************************************************)
NotReady ==
  /\ pc = "provision"
  /\ Spend(1)
  /\ NoCredentials(1)
  /\ UNCHANGED <<stores, runs>>

LoadExisting ==
  /\ pc = "provision" /\ infisical.admin
  /\ IF saved.token /\ saved.project
     THEN pc' = "push" /\ run' = [run EXCEPT !.creds = TRUE]
     ELSE NoCredentials(0)
  /\ UNCHANGED <<stores, faults, runs>>

BootstrapAdmin ==
  /\ pc = "provision" /\ ~infisical.admin
  /\ \E r \in Calls :
       /\ Spend(Cost(r))
       /\ infisical' = [infisical EXCEPT !.admin = Applied(r)]
       /\ IF r = "ok" THEN pc' = "project" /\ run' = run
                      ELSE NoCredentials(1)
  /\ UNCHANGED <<saved, file, live, forgejo, kestra, git, epoch, datalake, runs>>

CreateProject ==
  /\ pc = "project"
  /\ \E r \in Calls :
       /\ Spend(Cost(r))
       /\ infisical' = [infisical EXCEPT !.project = Applied(r)]
       /\ IF r = "ok" THEN pc' = "saveToken" /\ run' = run
                      ELSE NoCredentials(1)
  /\ UNCHANGED <<saved, file, live, forgejo, kestra, git, epoch, datalake, runs>>

SaveToken ==
  /\ pc = "saveToken"
  /\ saved' = [saved EXCEPT !.token = TRUE]
  /\ pc' = "saveProject"
  /\ UNCHANGED <<infisical, file, live, forgejo, kestra, git, epoch, datalake,
                 run, faults, runs>>

SaveProject ==
  /\ pc = "saveProject"
  /\ saved' = [saved EXCEPT !.project = TRUE]
  /\ pc' = "push" /\ run' = [run EXCEPT !.creds = TRUE]
  /\ UNCHANGED <<infisical, file, live, forgejo, kestra, git, epoch, datalake,
                 faults, runs>>

(* The phase counts the folders whose PATCH failed.                        *)
PushStatus(bad) == If(bad = {}, "partial")

(***************************************************************************)
(* infisical-bootstrap: one PATCH per folder, each an upsert that may fail *)
(* with or without effect.                                                 *)
(***************************************************************************)
PushFolders ==
  /\ pc = "push"
  /\ IF ~run.creds
     THEN UNCHANGED <<infisical, run, faults>>
     ELSE \E bad \in SUBSET ComputeFolders(datalake) :
          \E lost \in SUBSET bad :
            /\ Spend(Cardinality(bad))
            /\ infisical' = [infisical EXCEPT !.secrets = [f \in Folders |->
                 IF f \in (ComputeFolders(datalake) \ bad) \cup lost
                 THEN epoch ELSE infisical.secrets[f]]]
            /\ run' = Noted(Cardinality(bad), PushStatus(bad))
  /\ pc' = "forgejo"
  /\ UNCHANGED <<saved, file, live, forgejo, kestra, git, epoch, datalake, runs>>

(* As if a lost answer made the code mint a second token.                  *)
RotateTokenTwice ==
  /\ pc = "forgejo"
  /\ LET new == forgejo.minted + 1
     IN  \/ /\ forgejo' = [valid |-> new, minted |-> new]
            /\ git' = [git EXCEPT !.repo = @ \/ ~run.mirror]
            /\ run' = [run EXCEPT !.token = new]
            /\ UNCHANGED faults
         \/ /\ Spend(1)
            /\ forgejo' \in {forgejo, [forgejo EXCEPT !.valid = 0],
                             [valid |-> new + 1, minted |-> new + 1]}
            /\ run' = Noted(1, "partial")
            /\ UNCHANGED git
  /\ pc' = "await"
  /\ UNCHANGED <<infisical, saved, file, live, kestra, epoch, datalake, runs>>

(***************************************************************************)
(* forgejo-configure, in short: the old token is deleted and a new one     *)
(* minted; it may stop before the first, between the two, or without the   *)
(* answer.  Without a mirror it also creates the workspace repository.     *)
(***************************************************************************)
RotateToken ==
  /\ pc = "forgejo"
  /\ LET new == forgejo.minted + 1
     IN  \/ /\ forgejo' = [valid |-> new, minted |-> new]
            /\ git' = [git EXCEPT !.repo = @ \/ ~run.mirror]
            /\ run' = [run EXCEPT !.token = new]
            /\ UNCHANGED faults
         \/ /\ Spend(1)
            /\ forgejo' \in {forgejo, [forgejo EXCEPT !.valid = 0],
                             [valid |-> new, minted |-> new]}
            /\ run' = Noted(1, "partial")
            /\ UNCHANGED git
  /\ pc' = "await"
  /\ UNCHANGED <<infisical, saved, file, live, kestra, epoch, datalake, runs>>

-----------------------------------------------------------------------------
(***************************************************************************)
(* Secret sync of one stack.  A listing of the folders that fails leaves   *)
(* the root folder as the only one; a folder that cannot be fetched is     *)
(* counted.  The token of the run is appended unless Infisical has one.    *)
(***************************************************************************)
Listing(ok) == {"root"} \cup (IF ok THEN {f \in Folders : infisical.secrets[f] # 0}
                              ELSE {})

(* As if a token that is in the file already were kept.                    *)
NewBlockKeepsToken(fetched) == [k \in Keys |->
  CASE k \in Folders \cap fetched -> infisical.secrets[k]
    [] k \in Folders \ fetched    -> 0
    [] OTHER -> IF "root" \in fetched /\ infisical.pinned # 0
                THEN infisical.pinned
                ELSE IF file[Head(run.left)]["FORGEJO_TOKEN"] # 0
                THEN file[Head(run.left)]["FORGEJO_TOKEN"] ELSE run.token]

NewBlock(fetched) == [k \in Keys |->
  CASE k \in Folders \cap fetched -> infisical.secrets[k]
    [] k \in Folders \ fetched    -> 0
    [] OTHER -> IF "root" \in fetched /\ infisical.pinned # 0
                THEN infisical.pinned ELSE run.token]

(* The two outage gates: nothing fetched, or nothing usable in it.         *)
Gated(fetched) == fetched = {} \/ NewBlock(fetched) = Empty

(* Kestra's turn comes before its registration, the notebooks' last.       *)
Stack == Head(run.left)
AfterSync == IF Stack = "kestra" THEN "register"
             ELSE IF Len(run.left) = 1 THEN "done" ELSE "read"

(***************************************************************************)
(* kestra-secret-sync waits for Kestra for eight minutes and gives up      *)
(* then; without credentials it is skipped.                                *)
(***************************************************************************)
AwaitKestra ==
  /\ pc = "await"
  /\ \E r \in IF run.creds THEN Reads ELSE {"ok"} :
       /\ Spend(Cost(r))
       /\ run' = [Noted(Cost(r), If(r = "ok", "partial")) EXCEPT
                    !.left = IF run.creds /\ r = "ok" THEN @ ELSE Tail(@)]
       /\ pc' = IF run.creds /\ r = "ok" THEN "read" ELSE "register"
  /\ UNCHANGED <<stores, runs>>

(* The notebooks' phases report missing credentials as partial.            *)
SkipSync ==
  /\ pc = "read" /\ ~run.creds
  /\ run' = [Noted(0, "partial") EXCEPT !.left = Tail(@)]
  /\ pc' = AfterSync
  /\ UNCHANGED <<stores, faults, runs>>

(* As if folders that could not be fetched did not count.                  *)
ReadSecretsSilent ==
  /\ pc = "read" /\ run.creds
  /\ \E ok \in BOOLEAN : \E bad \in SUBSET Listing(ok) :
       LET cost == Cardinality(bad) + (IF ok THEN 0 ELSE 1)
           fetched == Listing(ok) \ bad
           kept == Gated(fetched)
       IN  /\ Spend(cost)
           /\ file' = IF kept THEN file ELSE [file EXCEPT ![Stack] = NewBlock(fetched)]
           /\ run' = [Noted(cost, "ok") EXCEPT
                        !.hidden = @ \/ kept \/ ~ok,
                        !.left = IF kept /\ Stack # "kestra" THEN Tail(@) ELSE @]
           /\ pc' = IF ~kept THEN "restart"
                    ELSE IF Stack = "kestra" THEN "back" ELSE AfterSync
  /\ UNCHANGED <<infisical, saved, live, forgejo, kestra, git, epoch, datalake, runs>>

(***************************************************************************)
(* Partial if a folder failed and a block was written; ok, with the detail *)
(* "kept previous (outage gate)", if none was written.                     *)
(***************************************************************************)
SyncStatus(bad, kept) == If(bad = {} \/ kept, "partial")

(***************************************************************************)
(* The remote script.  Past the gates it replaces the block and renames    *)
(* the file over the old one.  run.hidden notes the faults that the status *)
(* does not show: a failed listing and a kept block.                       *)
(***************************************************************************)
ReadSecrets ==
  /\ pc = "read" /\ run.creds
  /\ \E ok \in BOOLEAN : \E bad \in SUBSET Listing(ok) :
       LET cost == Cardinality(bad) + (IF ok THEN 0 ELSE 1)
           fetched == Listing(ok) \ bad
           kept == Gated(fetched)
       IN  /\ Spend(cost)
           /\ file' = IF kept THEN file ELSE [file EXCEPT ![Stack] = NewBlock(fetched)]
           /\ run' = [Noted(cost, SyncStatus(bad, kept)) EXCEPT
                        !.hidden = @ \/ kept \/ ~ok,
                        !.left = IF kept /\ Stack # "kestra" THEN Tail(@) ELSE @]
           /\ pc' = IF ~kept THEN "restart"
                    ELSE IF Stack = "kestra" THEN "back" ELSE AfterSync
  /\ UNCHANGED <<infisical, saved, live, forgejo, kestra, git, epoch, datalake, runs>>

(***************************************************************************)
(* A script that prints no RESULT line (no jq, a set -e exit) counts as    *)
(* nothing read: partial for a notebook, "kept previous" for Kestra.       *)
(***************************************************************************)
NoResult ==
  /\ pc = "read" /\ run.creds
  /\ Spend(1)
  /\ run' = [Noted(1, If(Stack = "kestra", "partial")) EXCEPT
               !.hidden = TRUE,
               !.left = IF Stack = "kestra" THEN @ ELSE Tail(@)]
  /\ pc' = IF Stack = "kestra" THEN "back" ELSE AfterSync
  /\ UNCHANGED <<stores, runs>>

(***************************************************************************)
(* docker compose up -d, for Kestra with --force-recreate.  Its failure    *)
(* goes to stderr and does not change the result.                          *)
(***************************************************************************)
RestartStack ==
  /\ pc = "restart"
  /\ \E r \in Calls :
       /\ Spend(Cost(r))
       /\ live' = IF Applied(r) THEN [live EXCEPT ![Stack] = file[Stack]] ELSE live
       /\ run' = [Noted(Cost(r), "ok") EXCEPT
                    !.hidden = @ \/ r # "ok",
                    !.left = IF Stack = "kestra" THEN @ ELSE Tail(@)]
  /\ pc' = IF Stack = "kestra" THEN "back" ELSE AfterSync
  /\ UNCHANGED <<infisical, saved, file, forgejo, kestra, git, epoch, datalake, runs>>

(* Kestra has three minutes to come back.                                  *)
AwaitRestart ==
  /\ pc = "back"
  /\ \E r \in Reads :
       /\ Spend(Cost(r))
       /\ run' = [Noted(Cost(r), If(r = "ok", "partial")) EXCEPT !.left = Tail(@)]
  /\ pc' = "register"
  /\ UNCHANGED <<stores, runs>>

-----------------------------------------------------------------------------
(* One flow that could not be registered makes the phase partial.          *)
RegisterStatus(bad) == If(bad = {}, "partial")

(* As if flow-export were left to mirror-finalize, too.                    *)
RegisterFlowsNoExport ==
  /\ pc = "register"
  /\ \/ \E bad \in SUBSET SystemFlows : \E lost \in SUBSET bad :
          /\ Spend(Cardinality(bad))
          /\ kestra' = [kestra EXCEPT !.system = @ \cup ((SystemFlows \ bad) \ (IF run.mirror
                                       THEN {"flow-export"} ELSE {})) \cup lost]
          /\ run' = Noted(Cardinality(bad), RegisterStatus(bad))
          /\ pc' = IF bad = {} /\ ~run.mirror THEN "trigger" ELSE "seed"
     \/ /\ Spend(1)
        /\ run' = Noted(1, "partial")
        /\ pc' = "seed"
        /\ UNCHANGED kestra
  /\ UNCHANGED <<infisical, saved, file, live, forgejo, git, epoch, datalake, runs>>

(***************************************************************************)
(* kestra-register: POST each system flow, PUT the ones that exist.  The   *)
(* pull of the flows follows at once, or in mirror mode in mirror-finalize *)
(* because the fork does not exist yet.                                    *)
(***************************************************************************)
RegisterFlows ==
  /\ pc = "register"
  /\ \/ \E bad \in SUBSET SystemFlows : \E lost \in SUBSET bad :
          /\ Spend(Cardinality(bad))
          /\ kestra' = [kestra EXCEPT !.system = @ \cup (SystemFlows \ bad) \cup lost]
          /\ run' = Noted(Cardinality(bad), RegisterStatus(bad))
          /\ pc' = IF bad = {} /\ ~run.mirror THEN "trigger" ELSE "seed"
     \/ /\ Spend(1)
        /\ run' = Noted(1, "partial")
        /\ pc' = "seed"
        /\ UNCHANGED kestra
  /\ UNCHANGED <<infisical, saved, file, live, forgejo, git, epoch, datalake, runs>>

(***************************************************************************)
(* flow-sync: the first task pulls the seeded flows and fails when they    *)
(* are not in the repository; the second makes my-flows what the           *)
(* repository holds.  A repository without kestra/flows is no failure;     *)
(* whether the plugin then deletes the flows is left open.                 *)
(***************************************************************************)
FlowSyncWorks == CanClone /\ git.seeds

FlowSync ==
  IF ~FlowSyncWorks THEN kestra' = kestra
  ELSE \E mine \in IF git.mine = 0 THEN {0, kestra.mine} ELSE {git.mine} :
         kestra' = [kestra EXCEPT !.seeds = TRUE, !.mine = mine,
                               !.due = IF mine < @ THEN mine ELSE @]

(* The state the caller sees; "RUNNING" when the wait for the end is over.  *)
ExecutionState(r) == CASE r = "refused"                -> "TRIGGER_FAILED"
                       [] r = "lost"                   -> "RUNNING"
                       [] r = "ok" /\ FlowSyncWorks    -> "SUCCESS"
                       [] r = "ok" /\ ~FlowSyncWorks   -> "FAILED"

(***************************************************************************)
(* The onboarding of kestra-register: anything but SUCCESS is partial, a   *)
(* verification of the seeded flow that cannot be made leaves it SUCCESS.  *)
(***************************************************************************)
TriggerOnboarding ==
  /\ pc = "trigger"
  /\ \E r \in Calls :
       /\ Spend(Cost(r))
       /\ IF Applied(r) THEN FlowSync ELSE UNCHANGED kestra
       /\ run' = Noted(Cost(r), If(ExecutionState(r) = "SUCCESS", "partial"))
  /\ pc' = "seed"
  /\ UNCHANGED <<infisical, saved, file, live, forgejo, git, epoch, datalake, runs>>

(***************************************************************************)
(* seed, or in mirror mode mirror-setup and mirror-seed-rerun: the seeds   *)
(* into the workspace or the fork; skipped without the token.              *)
(***************************************************************************)
Seed ==
  /\ pc = "seed"
  /\ \E r \in IF run.token = 0 THEN {"ok"} ELSE Calls :
       LET done == run.token # 0 /\ Applied(r)
       IN  /\ Spend(Cost(r))
           /\ git' = IF done THEN [git EXCEPT !.repo = TRUE, !.seeds = TRUE] ELSE git
           /\ run' = [Noted(Cost(r), If(r = "ok", "partial")) EXCEPT
                        !.fork = done /\ run.mirror]
  /\ pc' = IF run.mirror THEN "finalize" ELSE "read"
  /\ UNCHANGED <<infisical, saved, file, live, forgejo, kestra, epoch, datalake, runs>>

(***************************************************************************)
(* mirror-finalize: skipped without the fork; partial if the execution     *)
(* could not be started or failed, but not if its end was not seen.        *)
(***************************************************************************)
Finalize ==
  /\ pc = "finalize"
  /\ \E r \in IF run.fork THEN Calls ELSE {"refused"} :
       /\ Spend(IF run.fork THEN Cost(r) ELSE 0)
       /\ IF Applied(r) THEN FlowSync ELSE UNCHANGED kestra
       /\ run' = IF ~run.fork THEN run
                 ELSE Noted(Cost(r), If(ExecutionState(r) \in {"SUCCESS", "RUNNING"},
                                        "partial"))
  /\ pc' = "read"
  /\ UNCHANGED <<infisical, saved, file, live, forgejo, git, epoch, datalake, runs>>

-----------------------------------------------------------------------------
Step ==
  \/ StackSync \/ ComposeUp \/ NotReady \/ LoadExisting \/ BootstrapAdmin
  \/ CreateProject \/ SaveToken \/ SaveProject \/ PushFolders \/ RotateToken
  \/ AwaitKestra \/ SkipSync \/ ReadSecrets \/ NoResult \/ RestartStack
  \/ AwaitRestart \/ RegisterFlows \/ TriggerOnboarding \/ Seed \/ Finalize
  \/ Raise \/ Finish

Next == \/ Step
        \/ StartRun \/ Rotate \/ DropDatalake \/ PinToken \/ Edit \/ FlowExport

Spec == Init /\ [][Next]_vars

-----------------------------------------------------------------------------
(* What a stack is to be started with: Infisical's secrets and a token.    *)
Current == [k \in Keys |->
  IF k \in Folders THEN infisical.secrets[k]
  ELSE IF infisical.pinned # 0 THEN infisical.pinned ELSE forgejo.valid]

(***************************************************************************)
(* A run that finds or makes its credentials and in which no call goes     *)
(* wrong leaves every stack started with what Infisical holds, of this     *)
(* run's generation, and with the valid token, whatever earlier runs have  *)
(* left: blocks half read, files no container was restarted on, a deleted  *)
(* token.                                                                  *)
(***************************************************************************)
CleanRunDelivers ==
  pc = "done" /\ run.clean /\ run.creds =>
    /\ \A s \in Stacks : live[s] = Current
    /\ \A f \in ComputeFolders(datalake) : infisical.secrets[f] = epoch

(***************************************************************************)
(* The same of a run that reports ok though calls went wrong, except for   *)
(* the faults no phase's status shows: a folder listing that fails, a kept *)
(* block, a restart that fails.                                            *)
(***************************************************************************)
OkMeansDelivered ==
  pc = "done" /\ run.status = "ok" /\ ~run.hidden =>
    \A s \in Stacks : live[s] = Current

(***************************************************************************)
(* While no call goes wrong, the pull of the flows at a spin-up never      *)
(* takes back an edit older than ten minutes, although it makes my-flows   *)
(* what the repository holds: the repository has it, because the flows     *)
(* were exported with a token that was valid all the time.                 *)
(***************************************************************************)
Loss == kestra'.mine < kestra.due

NoFaultNoLoss == [][Loss => faults' > 0]_vars

(***************************************************************************)
(* What a sync that writes nothing reports, "kept previous (outage gate)": *)
(* the stack's file still has the block it had before the run.             *)
(***************************************************************************)
KeptPrevious ==
  [][pc = "read" /\ run.creds /\ run' # run /\ pc' # "restart"
       /\ run'.status # "failed"
     => file'[Stack] = run.before[Stack]]_vars
=============================================================================

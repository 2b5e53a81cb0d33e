------------------------------- MODULE Forge -------------------------------
(***************************************************************************)
(* Forgejo and what hangs on it, as one spin-up after the other leaves it: *)
(* the accounts and their passwords, the automation token, the workspace   *)
(* repository, the mirrors and the student's fork, the seeded files, the   *)
(* OAuth application of Woodpecker and the clone of the notebook services. *)
(* A spin-up walks through the phases forgejo-configure,                   *)
(* forgejo-runner-register, compose-restart, seed, woodpecker-oauth,       *)
(* woodpecker-apply, mirror-setup, mirror-seed-rerun and mirror-finalize   *)
(* of orchestrator.py, one remote call per step.  Every call may be        *)
(* refused, or take effect with its answer lost; a transport exception     *)
(* ends the phase and the run.  Forgejo's data survives between runs,      *)
(* while OpenTofu may have generated new passwords.                        *)
(***************************************************************************)
EXTENDS Naturals, Sequences, FiniteSets

CONSTANTS MirrorList,   \* GH_MIRROR_REPOS, in order
          SeedFiles,    \* the files of examples/workspace-seeds
          MaxRuns,      \* spin-ups in a behaviour
          MaxFaults,    \* calls that go wrong in a behaviour
          MaxEpoch      \* generations of passwords

ASSUME ForgeAssumption ==
  /\ MirrorList \in Seq(STRING) /\ MirrorList # <<>>
  /\ IsFiniteSet(SeedFiles) /\ SeedFiles # {}
  /\ MaxRuns \in Nat /\ MaxFaults \in Nat /\ MaxEpoch \in Nat \ {0}

VARIABLES forge,       \* what the Forgejo server holds
          woodpecker,  \* Woodpecker's OAuth client: in .env, and of the container
          clone,       \* the repository the notebook services have cloned
          epoch,       \* generation of the passwords in OpenTofu's state
          upstream,    \* the version of the mirrored repositories on GitHub
          pc,          \* the step the spin-up is at
          run,         \* the orchestrator's fields and state
          faults, runs

vars == <<forge, woodpecker, clone, epoch, upstream, pc, run, faults, runs>>

Mirrors == {MirrorList[i] : i \in DOMAIN MirrorList}

(***************************************************************************)
(* Repositories: the shared workspace, the read-only mirrors, and the fork *)
(* of a mirror in the namespace of the user.                               *)
(***************************************************************************)
Workspace == <<"workspace", "">>
Mirror(m) == <<"mirror", m>>
Fork(m)   == <<"fork", m>>
NoRepo    == <<"none", "">>
Repos == {Workspace} \cup {Mirror(m) : m \in Mirrors}
                     \cup {Fork(m) : m \in Mirrors}

Names == {"admin", "student", "ops"}    \* ops: local part of the admin's mail
Mails == {"admin@", "student@"}
Absent == [pw |-> 0, mail |-> "none"]
Account == {Absent} \cup [pw : 1 .. MaxEpoch, mail : Mails]
AppIds == 1 .. (MaxRuns + 3)
Client(env, container) == [env |-> env, container |-> container]    \* 0: none

Min1(S) == CHOOSE x \in S : \A y \in S : x <= y

-----------------------------------------------------------------------------
(***************************************************************************)
(* The coordinates the workspace-coords phase derives and writes into      *)
(* every service's environment: the repository the services are to clone,  *)
(* and the git identity.  Without a configured user the phase falls back   *)
(* to the identity of the admin as a whole, which later phases take for a  *)
(* configured user.                                                        *)
(***************************************************************************)
RepoCoords(mirror, user) ==
  CASE mirror /\ user  -> Fork(Head(MirrorList))
    [] mirror /\ ~user -> Mirror(Head(MirrorList))
    [] OTHER           -> Workspace

GitIdentity(user) ==
  IF user THEN [login |-> "student", local |-> "student", mail |-> "student@"]
          ELSE [login |-> "admin",   local |-> "ops",     mail |-> "admin@"]

Target == RepoCoords(run.mirror, run.user)
Identity == GitIdentity(run.user)

-----------------------------------------------------------------------------
(***************************************************************************)
(* Calls.  "refused": no effect and an error; "lost": the effect without   *)
(* the answer.  Each costs one of MaxFaults.                               *)
(***************************************************************************)
Calls == {"ok"} \cup (IF faults < MaxFaults THEN {"refused", "lost"} ELSE {})
Reads == Calls \ {"lost"}

Applied(r) == r # "refused"
Bad(rs) == Cardinality({i \in DOMAIN rs : rs[i] # "ok"})

Spend(rs) == /\ faults + Bad(rs) <= MaxFaults
             /\ faults' = faults + Bad(rs)

Worse(a, b) == IF "failed" \in {a, b} THEN "failed"
               ELSE IF "partial" \in {a, b} THEN "partial" ELSE "ok"

(* The run's record after the calls rs and with the phase result s.        *)
Noted(rs, s) == [run EXCEPT !.clean = @ /\ Bad(rs) = 0,
                            !.status = Worse(@, s)]

If(c, s) == IF c THEN "ok" ELSE s

Init ==
  /\ \E collide \in BOOLEAN, fresh \in BOOLEAN, old \in {{}, {1, 2}} :
       /\ fresh => ~collide /\ old = {}
       /\ forge = [db |-> 1,
                   account |-> [n \in Names |->
                      IF n = "admin" /\ ~fresh
                      THEN [pw |-> 1, mail |-> IF collide THEN "student@"
                                               ELSE "admin@"]
                      ELSE Absent],
                   token |-> FALSE, repos |-> {}, public |-> FALSE,
                   members |-> {}, seeded |-> {}, apps |-> old,
                   forkToken |-> FALSE, runner |-> FALSE,
                   head |-> [r \in Repos |-> 0]]
       /\ woodpecker = IF old = {} THEN Client(0, 0) ELSE Client(1, 1)
  /\ clone = NoRepo /\ epoch = 1 /\ upstream = 0
  /\ pc = "idle" /\ faults = 0 /\ runs = 0
  /\ \E user \in BOOLEAN :
     run = [mirror |-> FALSE, user |-> user, known |-> FALSE, conf |-> TRUE,
            token |-> FALSE, stale |-> FALSE, fork |-> NoRepo, tried |-> FALSE,
            rotating |-> FALSE, client |-> 0, left |-> <<>>, jq |-> TRUE,
            login |-> FALSE, seen |-> 0, status |-> "ok", clean |-> FALSE]

-----------------------------------------------------------------------------
(***************************************************************************)
(* Between the runs: new passwords, new commits on GitHub, a repository    *)
(* made public by hand; Forgejo fetches its mirrors every ten minutes.     *)
(***************************************************************************)
Rotate == /\ pc = "idle" /\ epoch < MaxEpoch
          /\ epoch' = epoch + 1
          /\ UNCHANGED <<forge, woodpecker, clone, upstream, pc, run, faults, runs>>

Push == /\ pc = "idle" /\ upstream = 0
        /\ upstream' = 1
        /\ UNCHANGED <<forge, woodpecker, clone, epoch, pc, run, faults, runs>>

Publish == /\ pc = "idle" /\ Workspace \in forge.repos /\ ~forge.public
           /\ forge' = [forge EXCEPT !.public = TRUE]
           /\ UNCHANGED <<woodpecker, clone, epoch, upstream, pc, run, faults, runs>>

Fetch == /\ \E m \in Mirrors :
              /\ Mirror(m) \in forge.repos /\ forge.head[Mirror(m)] # upstream
              /\ forge' = [forge EXCEPT !.head[Mirror(m)] = upstream]
         /\ UNCHANGED <<woodpecker, clone, epoch, upstream, pc, run, faults, runs>>

(***************************************************************************)
(* service-env renders Woodpecker's .env with an empty client in every run *)
(* and stack-sync pushes it; compose-up starts every service but           *)
(* Woodpecker, so that a container that runs keeps the client it has.      *)
(***************************************************************************)
StartRun ==
  /\ pc = "idle" /\ runs < MaxRuns
  /\ runs' = runs + 1
  /\ pc' = "db"
  /\ \E mirror \in BOOLEAN, r \in Calls :
       /\ Spend(<<r>>)
       /\ woodpecker' = IF Applied(r) THEN [woodpecker EXCEPT !.env = 0] ELSE woodpecker
       /\ run' = [mirror |-> mirror, user |-> run.user, known |-> FALSE, conf |-> TRUE,
                  token |-> FALSE, stale |-> FALSE, fork |-> NoRepo, tried |-> FALSE,
                  rotating |-> FALSE, client |-> 0, left |-> <<>>, jq |-> TRUE,
                  login |-> woodpecker.container \in forge.apps,
                  seen |-> forge.head[Mirror(Head(MirrorList))],
                  status |-> If(r = "ok", "partial"), clean |-> r = "ok"]
  /\ UNCHANGED <<forge, clone, epoch, upstream>>

(* A phase that fails stops the run; phases after it are not executed.     *)
Stop == /\ pc' = "idle"
        /\ run' = [run EXCEPT !.clean = FALSE, !.status = "failed"]

(***************************************************************************)
(* An exception out of the SSH tunnel or a remote script (timeout,         *)
(* connection lost) is a failed phase, except in the two phases that turn  *)
(* every failure into a partial one and are modelled by their own calls.   *)
(***************************************************************************)
Raise ==
  /\ pc \notin {"idle", "configured", "register", "apply", "finalize"}
  /\ Spend(<<"refused">>)
  /\ Stop
  /\ UNCHANGED <<forge, woodpecker, clone, epoch, upstream, runs>>

-----------------------------------------------------------------------------
(* forgejo-configure.                                                      *)

(* ALTER USER in the database container; the result is only reported.      *)
SyncDbPassword ==
  /\ pc = "db"
  /\ \E r \in Calls :
       /\ Spend(<<r>>)
       /\ forge' = IF Applied(r) THEN [forge EXCEPT !.db = epoch] ELSE forge
       /\ run' = Noted(<<r>>, "ok")
  /\ pc' = "ready"
  /\ UNCHANGED <<woodpecker, clone, epoch, upstream, runs>>

(* Forgejo answers its health check only when it can log into its database. *)
Healthy == forge.db = epoch

WaitReady ==
  /\ pc = "ready"
  /\ \E r \in Reads :
       /\ Spend(<<r>>)
       /\ IF r = "ok" /\ Healthy
          THEN pc' = "list" /\ run' = run
          ELSE pc' = "register" /\ run' = Noted(<<r>>, "partial")
  /\ UNCHANGED <<forge, woodpecker, clone, epoch, upstream, runs>>

(***************************************************************************)
(* The admin's row in the user list; a failed listing reads as an absent   *)
(* account.  An admin that carries the student's mail is given its own.    *)
(***************************************************************************)
ListAdmins ==
  /\ pc = "list"
  /\ \E r \in Reads :
       LET known == r = "ok" /\ forge.account["admin"] # Absent
       IN  /\ Spend(<<r>>)
           /\ run' = [Noted(<<r>>, "ok") EXCEPT !.known = known]
           /\ pc' = IF known /\ forge.account["admin"].mail = Identity.mail
                    THEN "heal" ELSE "admin"
  /\ UNCHANGED <<forge, woodpecker, clone, epoch, upstream, runs>>

(* Basic authentication, with a password that has not been synced yet.     *)
AdminAuth == forge.account["admin"].pw = epoch

MailTaken(name, mail) ==
  \E n \in Names \ {name} : forge.account[n].mail = mail

HealEmail ==
  /\ pc = "heal"
  /\ \E r \in Calls :
       /\ Spend(<<r>>)
       /\ forge' = IF Applied(r) /\ AdminAuth /\ ~MailTaken("admin", "admin@")
                   THEN [forge EXCEPT !.account["admin"].mail = "admin@"]
                   ELSE forge
       /\ run' = [Noted(<<r>>, "ok") EXCEPT !.stale = ~AdminAuth]
  /\ pc' = "admin"
  /\ UNCHANGED <<woodpecker, clone, epoch, upstream, runs>>

(***************************************************************************)
(* _create_user and sync_password: an account that is listed, or that the  *)
(* CLI reports as "already" there, has its password set.  The CLI says     *)
(* "already" of a taken mail, too, and then there is no such account.      *)
(***************************************************************************)
SetPassword(name, r) ==
  IF forge.account[name] # Absent /\ Applied(r)
  THEN [forge EXCEPT !.account[name].pw = epoch] ELSE forge

CreateUser(name, mail, r) ==
  IF forge.account[name] # Absent \/ MailTaken(name, mail)
  THEN SetPassword(name, r)
  ELSE IF Applied(r)
       THEN [forge EXCEPT !.account[name] = [pw |-> epoch, mail |-> mail]]
       ELSE forge

Ensured(name, r) == r = "ok" /\ forge'.account[name] # Absent

EnsureAdmin ==
  /\ pc = "admin"
  /\ \E r \in Calls :
       /\ Spend(<<r>>)
       /\ forge' = IF run.known THEN SetPassword("admin", r)
                   ELSE CreateUser("admin", "admin@", r)
       /\ run' = [Noted(<<r>>, "ok") EXCEPT !.conf = @ /\ Ensured("admin", r)]
  /\ pc' = "user"
  /\ UNCHANGED <<woodpecker, clone, epoch, upstream, runs>>

EnsureUser ==
  /\ pc = "user"
  /\ \E l \in Reads, r \in Calls :
       LET name == Identity.local
       IN  /\ Spend(<<l, r>>)
           /\ forge' = IF l = "ok" /\ forge.account[name] # Absent
                       THEN SetPassword(name, r)
                       ELSE CreateUser(name, Identity.mail, r)
           /\ run' = [Noted(<<l, r>>, "ok") EXCEPT !.conf = @ /\ Ensured(name, r)]
  /\ pc' = "token"
  /\ UNCHANGED <<woodpecker, clone, epoch, upstream, runs>>

(***************************************************************************)
(* The token row is deleted by SQL and generated again: Forgejo shows a    *)
(* token only once, and refuses a second one of the same name.             *)
(***************************************************************************)
MintToken ==
  /\ pc = "token"
  /\ \E d, r \in Calls :
       LET row == forge.token /\ ~Applied(d)
           made == Applied(r) /\ ~row /\ forge.account["admin"] # Absent
       IN  /\ Spend(<<d, r>>)
           /\ forge' = [forge EXCEPT !.token = row \/ made]
           /\ run' = [Noted(<<d, r>>, "ok") EXCEPT
                        !.token = made /\ r = "ok",
                        !.conf = @ /\ made /\ r = "ok"]
           /\ pc' = IF run'.token /\ ~run.mirror THEN "repo" ELSE "configured"
  /\ UNCHANGED <<woodpecker, clone, epoch, upstream, runs>>

(* A repository that is there already is made private again.               *)
CreateRepo ==
  /\ pc = "repo"
  /\ \E r, p \in Calls :
       LET there == Workspace \in forge.repos
       IN  /\ (~there \/ r # "ok") => p = "ok"
           /\ Spend(<<r, p>>)
           /\ forge' = [forge EXCEPT
                          !.repos = IF Applied(r) THEN @ \cup {Workspace} ELSE @,
                          !.public = @ /\ ~(there /\ r = "ok" /\ Applied(p))]
           /\ run' = [Noted(<<r, p>>, "ok") EXCEPT !.conf = @ /\ r = "ok"]
           /\ pc' = IF r = "ok" THEN "writer" ELSE "configured"
  /\ UNCHANGED <<woodpecker, clone, epoch, upstream, runs>>

Joined(name, repo, r) ==
  IF Applied(r) /\ forge.account[name] # Absent
  THEN [forge EXCEPT !.members = @ \cup {<<name, repo>>}] ELSE forge

AddWriter ==
  /\ pc = "writer"
  /\ \E r \in Calls : /\ Spend(<<r>>)
                      /\ forge' = Joined(Identity.local, Workspace, r)
                      /\ run' = Noted(<<r>>, "ok")
  /\ pc' = "configured"
  /\ UNCHANGED <<woodpecker, clone, epoch, upstream, runs>>

Configured ==
  /\ pc = "configured" /\ pc' = "register"
  /\ run' = Noted(<<>>, If(run.conf, "partial"))
  /\ UNCHANGED <<forge, woodpecker, clone, epoch, upstream, faults, runs>>

-----------------------------------------------------------------------------
(* forgejo-runner-register, compose-restart, seed.                         *)

(* Registering again is a no-op for the CLI; the phase never fails a run.  *)
Registered(r) == forge.runner \/ (Applied(r) /\ Healthy)
RunnerStatus(r) == If(r = "ok" /\ Healthy, "partial")

RegisterRunner ==
  /\ pc = "register"
  /\ \E r \in Calls :
       /\ Spend(<<r>>)
       /\ forge' = [forge EXCEPT !.runner = Registered(r)]
       /\ run' = Noted(<<r>>, RunnerStatus(r))
  /\ pc' = "restart"
  /\ UNCHANGED <<woodpecker, clone, epoch, upstream, runs>>

(* The entry point of a notebook service clones the repository of its .env. *)
Recloned(r) == IF Applied(r) /\ Target \in forge.repos THEN Target ELSE clone

RestartStatus(r) == If(r = "ok", "partial")

RestartServices ==
  /\ pc = "restart"
  /\ \E r \in Calls : /\ Spend(<<r>>)
                      /\ clone' = Recloned(r)
                      /\ run' = Noted(<<r>>, RestartStatus(r))
  /\ pc' = "seed"
  /\ UNCHANGED <<forge, woodpecker, epoch, upstream, runs>>

\* Mutant: files are counted as seeded without a look at the repository.
SeedBlind(repo, next) ==
  \E F \in SUBSET SeedFiles, lost \in BOOLEAN :
    LET bad == IF repo \in forge.repos THEN F ELSE SeedFiles
        rs == IF F = {} THEN <<"ok">> ELSE <<IF lost THEN "lost" ELSE "refused">>
    IN  /\ F = {} => ~lost
        /\ Spend(rs)
        /\ forge' = IF TRUE
                    THEN [forge EXCEPT !.seeded = @ \cup
                      {<<repo, f>> : f \in IF lost THEN SeedFiles ELSE SeedFiles \ F}]
                    ELSE forge
        /\ IF bad = SeedFiles
           THEN Stop
           ELSE /\ run' = Noted(rs, If(bad = {}, "partial"))
                /\ pc' = next

(***************************************************************************)
(* The loop over the payloads: one POST per file, 422 for a file that is   *)
(* there.  F are the files whose POST went wrong.                          *)
(***************************************************************************)
PostFiles(repo, next) ==
  \E F \in SUBSET SeedFiles, lost \in BOOLEAN :
    LET bad == IF repo \in forge.repos THEN F ELSE SeedFiles
        rs == IF F = {} THEN <<"ok">> ELSE <<IF lost THEN "lost" ELSE "refused">>
    IN  /\ F = {} => ~lost
        /\ Spend(rs)
        /\ forge' = IF repo \in forge.repos
                    THEN [forge EXCEPT !.seeded = @ \cup
                      {<<repo, f>> : f \in IF lost THEN SeedFiles ELSE SeedFiles \ F}]
                    ELSE forge
        /\ IF bad = SeedFiles
           THEN Stop
           ELSE /\ run' = Noted(rs, If(bad = {}, "partial"))
                /\ pc' = next

(* On a server without jq the script reports that nothing has failed.      *)
NoJq(next) ==
  /\ Spend(<<"refused">>)
  /\ run' = [Noted(<<"refused">>, "ok") EXCEPT !.jq = FALSE]
  /\ pc' = next
  /\ UNCHANGED forge

SeedRepo(repo, next) == PostFiles(repo, next) \/ NoJq(next)

Seed ==
  /\ pc = "seed"
  /\ IF run.mirror \/ ~run.token
     THEN pc' = "oauth" /\ UNCHANGED <<forge, run, faults>>
     ELSE SeedRepo(Target, "oauth")
  /\ UNCHANGED <<woodpecker, clone, epoch, upstream, runs>>

-----------------------------------------------------------------------------
\* Mutant: a listing that fails reads as no application.
ListAppsBlind ==
  /\ pc = "oauth"
  /\ \E r \in Reads :
       /\ run.token \/ r = "ok"
       /\ Spend(<<r>>)
       /\ run' = Noted(<<r>>, "ok")
       /\ pc' = CASE ~run.token -> "apply"
                  [] run.token /\ r = "ok" /\ forge.apps # {} -> "rotate"
                  [] OTHER -> "create"
  /\ UNCHANGED <<forge, woodpecker, clone, epoch, upstream, runs>>

(***************************************************************************)
(* woodpecker-oauth.  Forgejo shows the secret of an OAuth application     *)
(* only when it is created: every application of that name is deleted and  *)
(* one is created.  Only a run that may have deleted one is failed.        *)
(***************************************************************************)
ListApps ==
  /\ pc = "oauth"
  /\ \E r \in Reads :
       /\ run.token \/ r = "ok"
       /\ Spend(<<r>>)
       /\ run' = Noted(<<r>>, If(r = "ok", "partial"))
       /\ pc' = CASE ~run.token \/ r # "ok" -> "apply"
                  [] run.token /\ r = "ok" /\ forge.apps # {} -> "rotate"
                  [] OTHER -> "create"
  /\ UNCHANGED <<forge, woodpecker, clone, epoch, upstream, runs>>

(* A rejected delete (4xx) leaves the application; a lost one is ambiguous. *)
Deleted(r) == IF Applied(r) THEN forge.apps \ {Min1(forge.apps)} ELSE forge.apps

\* Mutant: every delete without an answer counts as rejected.
DeleteAppCarryOn ==
  /\ pc = "rotate"
  /\ \E r \in Calls :
       /\ Spend(<<r>>)
       /\ forge' = [forge EXCEPT !.apps = Deleted(r)]
       /\ CASE r = "ok" -> /\ run' = [run EXCEPT !.rotating = TRUE]
                           /\ pc' = IF forge'.apps = {} THEN "create" ELSE "rotate"
            [] OTHER -> run' = Noted(<<r>>, "partial") /\ pc' = "apply"
  /\ UNCHANGED <<woodpecker, clone, epoch, upstream, runs>>

DeleteApp ==
  /\ pc = "rotate"
  /\ \E r \in Calls :
       /\ Spend(<<r>>)
       /\ forge' = [forge EXCEPT !.apps = Deleted(r)]
       /\ CASE r = "ok" -> /\ run' = [run EXCEPT !.rotating = TRUE]
                           /\ pc' = IF forge'.apps = {} THEN "create" ELSE "rotate"
            [] r = "lost" -> Stop
            [] OTHER -> IF run.rotating THEN Stop
                        ELSE run' = Noted(<<r>>, "partial") /\ pc' = "apply"
  /\ UNCHANGED <<woodpecker, clone, epoch, upstream, runs>>

FreshApp == Min1(AppIds \ (forge.apps \cup {woodpecker.env, woodpecker.container}))
Created(r) == IF Applied(r) THEN forge.apps \cup {FreshApp} ELSE forge.apps

CreateApp ==
  /\ pc = "create"
  /\ \E r \in Calls :
       /\ Spend(<<r>>)
       /\ forge' = [forge EXCEPT !.apps = Created(r)]
       /\ IF r # "ok" /\ run.rotating
          THEN Stop
          ELSE /\ run' = [Noted(<<r>>, If(r = "ok", "partial")) EXCEPT
                            !.client = IF r = "ok" THEN FreshApp ELSE 0]
               /\ pc' = "apply"
  /\ UNCHANGED <<woodpecker, clone, epoch, upstream, runs>>

(***************************************************************************)
(* woodpecker-apply: .env and its rsync, then docker compose up; never a   *)
(* failed phase, and skipped without a client.                             *)
(***************************************************************************)
ApplyWoodpecker ==
  /\ pc = "apply"
  /\ \E p, u \in Calls :
       /\ run.client = 0 => p = "ok"
       /\ run.client = 0 \/ p # "ok" => u = "ok"
       /\ Spend(<<p, u>>)
       /\ woodpecker' =
            IF run.client = 0 \/ ~Applied(p) THEN woodpecker
            ELSE Client(run.client, IF p = "ok" /\ Applied(u) THEN run.client
                                    ELSE woodpecker.container)
       /\ run' = Noted(<<p, u>>, If(p = "ok" /\ u = "ok", "partial"))
  /\ pc' = IF run.mirror /\ run.token THEN "uid" ELSE "reseed"
  /\ UNCHANGED <<forge, clone, epoch, upstream, runs>>

-----------------------------------------------------------------------------
(* mirror-setup.                                                           *)

GetAdminId ==
  /\ pc = "uid"
  /\ \E r \in Reads :
       /\ Spend(<<r>>)
       /\ IF r = "ok"
          THEN run' = [run EXCEPT !.left = MirrorList] /\ pc' = "mirror"
          ELSE run' = Noted(<<r>>, "partial") /\ pc' = "reseed"
  /\ UNCHANGED <<forge, woodpecker, clone, epoch, upstream, runs>>

(* A repository that cannot be looked up is migrated; 409 says it is there. *)
Migrated(repo, r) ==
  IF repo \notin forge.repos /\ Applied(r)
  THEN [forge EXCEPT !.repos = @ \cup {repo}, !.head[repo] = upstream]
  ELSE forge

MirrorRepo ==
  /\ pc = "mirror" /\ run.left # <<>>
  /\ \E l \in Reads, r \in Calls :
       LET repo == Mirror(Head(run.left))
           there == repo \in forge.repos
       IN  /\ (l = "ok" /\ there) => r = "ok"
           /\ Spend(<<l, r>>)
           /\ forge' = Migrated(repo, r)
           /\ IF r = "ok"
              THEN run' = Noted(<<l>>, "ok") /\ pc' = "reader"
              ELSE /\ run' = [Noted(<<l, r>>, "partial") EXCEPT !.left = Tail(@)]
                   /\ pc' = "mirror"
  /\ UNCHANGED <<woodpecker, clone, epoch, upstream, runs>>

AddReader ==
  /\ pc = "reader"
  /\ \E r \in Calls :
       /\ Spend(<<r>>)
       /\ forge' = Joined(Identity.login, Mirror(Head(run.left)), r)
       /\ run' = [Noted(<<r>>, "ok") EXCEPT
                    !.left = IF run.fork = NoRepo THEN @ ELSE Tail(@)]
  /\ pc' = IF run.fork = NoRepo THEN "forktoken" ELSE "mirror"
  /\ UNCHANGED <<woodpecker, clone, epoch, upstream, runs>>

\* Mutant: the token is not deleted and created again.
CreateForkTokenOnce ==
  /\ pc = "forktoken"
  /\ \E a, d, b \in Calls :
       LET can == AdminAuth /\ forge.account[Identity.login] # Absent
           first == can /\ Applied(a) /\ ~forge.forkToken
           got == first /\ a = "ok"
           kept == (forge.forkToken \/ first) /\ ~(AdminAuth /\ Applied(d))
           second == can /\ Applied(b) /\ ~kept
           ok == got
       IN  /\ got => d = "ok" /\ b = "ok"
           /\ Spend(<<a, d, b>>)
           /\ forge' = [forge EXCEPT !.forkToken = forge.forkToken \/ first]
           /\ run' = [Noted(<<a, d, b>>, "ok") EXCEPT
                        !.tried = @ \/ ~ok,
                        !.left = IF ok THEN @ ELSE Tail(@)]
           /\ pc' = IF ok THEN "fork" ELSE "mirror"
  /\ UNCHANGED <<woodpecker, clone, epoch, upstream, runs>>

(* create_user_token: create, and once more after a delete.                *)
CreateForkToken ==
  /\ pc = "forktoken"
  /\ \E a, d, b \in Calls :
       LET can == AdminAuth /\ forge.account[Identity.login] # Absent
           first == can /\ Applied(a) /\ ~forge.forkToken
           got == first /\ a = "ok"
           kept == (forge.forkToken \/ first) /\ ~(AdminAuth /\ Applied(d))
           second == can /\ Applied(b) /\ ~kept
           ok == got \/ (second /\ b = "ok")
       IN  /\ got => d = "ok" /\ b = "ok"
           /\ Spend(<<a, d, b>>)
           /\ forge' = [forge EXCEPT !.forkToken = IF got THEN TRUE ELSE kept \/ second]
           /\ run' = [Noted(<<a, d, b>>, "ok") EXCEPT
                        !.tried = @ \/ ~ok,
                        !.left = IF ok THEN @ ELSE Tail(@)]
           /\ pc' = IF ok THEN "fork" ELSE "mirror"
  /\ UNCHANGED <<woodpecker, clone, epoch, upstream, runs>>

(* POST .../forks: 202, or 409 when the fork exists.                       *)
Forked(m, made) ==
  IF made /\ Fork(m) \notin forge.repos
  THEN [forge EXCEPT !.repos = @ \cup {Fork(m)},
                     !.head[Fork(m)] = forge.head[Mirror(m)]]
  ELSE forge

(* 202 and 409 are success, everything else is tried on the next mirror.   *)
(* The admin owns the mirrors: whether it may fork them is Forgejo's.      *)
ForkMirror ==
  /\ pc = "fork"
  /\ \E r \in Calls, own \in BOOLEAN :
       LET m == Head(run.left)
           may == IF run.user THEN <<"student", Mirror(m)>> \in forge.members ELSE own
           made == Applied(r) /\ may
       IN  /\ run.user => own
           /\ Spend(<<r>>)
           /\ forge' = Forked(m, made)
           /\ run' = IF made /\ r = "ok"
                     THEN [run EXCEPT !.fork = Fork(m)]
                     ELSE [Noted(<<r>>, "ok") EXCEPT !.tried = TRUE]
  /\ pc' = "droptoken"
  /\ UNCHANGED <<woodpecker, clone, epoch, upstream, runs>>

DeleteForkToken ==
  /\ pc = "droptoken"
  /\ \E r \in Calls :
       /\ Spend(<<r>>)
       /\ forge' = [forge EXCEPT !.forkToken = @ /\ ~(AdminAuth /\ Applied(r))]
       /\ run' = [Noted(<<r>>, "ok") EXCEPT
                    !.left = IF run.fork # NoRepo THEN @ ELSE Tail(@)]
  /\ pc' = IF run.fork # NoRepo THEN "sync" ELSE "mirror"
  /\ UNCHANGED <<woodpecker, clone, epoch, upstream, runs>>

\* Mutant: the poll has no deadline and waits until the head has moved.
SyncMirrorWaits ==
  /\ pc = "sync" /\ forge.head[Mirror(Head(run.left))] = 1
  /\ \E r \in Calls : Spend(<<r>>) /\ run' = Noted(<<r>>, "ok")
  /\ pc' = "merge"
  /\ UNCHANGED <<forge, woodpecker, clone, epoch, upstream, runs>>

(* The fetch Forgejo is asked for runs in the background (Fetch); the poll *)
(* ends when the head moved or after mirror_sync_poll_seconds.  Whatever   *)
(* it saw, and also when the request was refused, the fork is merged.      *)
SyncMirror ==
  /\ pc = "sync"
  /\ \E r \in Calls : Spend(<<r>>) /\ run' = Noted(<<r>>, "ok")
  /\ pc' = "merge"
  /\ UNCHANGED <<forge, woodpecker, clone, epoch, upstream, runs>>

Merged(r) ==
  IF Applied(r)
  THEN [forge EXCEPT !.head[run.fork] = forge.head[Mirror(Head(run.left))]]
  ELSE forge

MergeUpstream ==
  /\ pc = "merge"
  /\ \E r \in Calls :
       /\ Spend(<<r>>)
       /\ forge' = Merged(r)
       /\ run' = [Noted(<<r>>, "ok") EXCEPT !.left = Tail(@)]
  /\ pc' = "mirror"
  /\ UNCHANGED <<woodpecker, clone, epoch, upstream, runs>>

(* A fork that failed everywhere makes the phase partial.                  *)
MirrorsDone ==
  /\ pc = "mirror" /\ run.left = <<>>
  /\ pc' = "reseed"
  /\ run' = Noted(<<>>, If(run.fork # NoRepo \/ ~run.tried, "partial"))
  /\ UNCHANGED <<forge, woodpecker, clone, epoch, upstream, faults, runs>>

-----------------------------------------------------------------------------
(* mirror-seed-rerun and mirror-finalize, both skipped without a fork.     *)

Reseed ==
  /\ pc = "reseed"
  /\ IF run.fork = NoRepo
     THEN pc' = "finalize" /\ UNCHANGED <<forge, run, faults>>
     ELSE SeedRepo(run.fork, "finalize")
  /\ UNCHANGED <<woodpecker, clone, epoch, upstream, runs>>

Finalize ==
  /\ pc = "finalize"
  /\ \E flow, r \in Calls :
       /\ run.fork # NoRepo \/ (flow = "ok" /\ r = "ok")
       /\ Spend(<<flow, r>>)
       /\ clone' = IF run.fork = NoRepo THEN clone ELSE Recloned(r)
       /\ run' = Noted(<<flow, r>>, If(flow = "ok" /\ r = "ok", "partial"))
  /\ pc' = "idle"
  /\ UNCHANGED <<forge, woodpecker, epoch, upstream, runs>>

-----------------------------------------------------------------------------
Step ==
  \/ SyncDbPassword \/ WaitReady \/ ListAdmins \/ HealEmail
  \/ EnsureAdmin \/ EnsureUser \/ MintToken \/ CreateRepo \/ AddWriter
  \/ Configured \/ RegisterRunner \/ RestartServices \/ Seed
  \/ ListApps \/ DeleteApp \/ CreateApp \/ ApplyWoodpecker
  \/ GetAdminId \/ MirrorRepo \/ AddReader \/ CreateForkToken \/ ForkMirror
  \/ DeleteForkToken \/ SyncMirror \/ MergeUpstream \/ MirrorsDone
  \/ Reseed \/ Finalize

Next == Rotate \/ Push \/ Publish \/ Fetch \/ StartRun \/ Raise \/ Step

Spec == Init /\ [][Next]_vars

(* Every remote call of a run has a timeout, so a run never stays at one.  *)
FairSpec == Spec /\ WF_vars(Step)

-----------------------------------------------------------------------------
Steps == {"db", "ready", "list", "heal", "admin", "user", "token", "repo",
          "writer", "configured", "register", "restart", "seed", "oauth",
          "rotate", "create", "apply", "uid", "mirror", "reader", "forktoken",
          "fork", "droptoken", "sync", "merge", "reseed", "finalize"}

Suffixes == {SubSeq(MirrorList, i, Len(MirrorList)) : i \in 1 .. Len(MirrorList) + 1}

\* What the server may hold, and the fields and state of the orchestrator.
ForgeRecords == [db : 1 .. MaxEpoch, account : [Names -> Account],
                 token : BOOLEAN, repos : SUBSET Repos, public : BOOLEAN,
                 members : SUBSET (Names \X Repos),
                 seeded : SUBSET (Repos \X SeedFiles), apps : SUBSET AppIds,
                 forkToken : BOOLEAN, runner : BOOLEAN, head : [Repos -> 0 .. 1]]

Statuses == {"ok", "partial", "failed"}
RunRecords == [mirror : BOOLEAN, user : BOOLEAN, known : BOOLEAN, conf : BOOLEAN,
               token : BOOLEAN, stale : BOOLEAN, fork : Repos \cup {NoRepo},
               tried : BOOLEAN, rotating : BOOLEAN, client : AppIds \cup {0},
               left : Suffixes \cup {<<>>}, jq : BOOLEAN, login : BOOLEAN, seen : 0 .. 1,
               status : Statuses, clean : BOOLEAN]

(***************************************************************************)
(* Types.  A repository is seeded or shared only once it exists, a fork    *)
(* only after its mirror, and no account is without a mail.                *)
(***************************************************************************)
TypeOK ==
  /\ forge \in ForgeRecords /\ run \in RunRecords
  /\ woodpecker \in [env : AppIds \cup {0}, container : AppIds \cup {0}]
  /\ clone \in Repos \cup {NoRepo}
  /\ epoch \in 1 .. MaxEpoch /\ upstream \in 0 .. 1
  /\ pc \in Steps \cup {"idle"}
  /\ faults \in 0 .. MaxFaults /\ runs \in 0 .. MaxRuns
  /\ \A x \in forge.members : x[2] \in forge.repos
  /\ \A x \in forge.seeded : x[1] \in forge.repos
  /\ \A m \in Mirrors : Fork(m) \in forge.repos => Mirror(m) \in forge.repos

(***************************************************************************)
(* woodpecker-oauth deletes the application Woodpecker logs in with before *)
(* it can create another.  Whenever the spin-up goes on without a new      *)
(* client, a container whose login worked when the run began can still log *)
(* in.                                                                     *)
(***************************************************************************)
PartialRotationKeepsLogin ==
  (pc = "apply" /\ run.client = 0 /\ run.login) => woodpecker.container \in forge.apps

(***************************************************************************)
(* What run_woodpecker_oauth_setup says of the same situation: "existing   *)
(* .env stays consistent".  It does not, because the run has emptied it.   *)
(***************************************************************************)
ExistingEnvStaysConsistent ==
  (pc = "apply" /\ run.client = 0 /\ run.login) => woodpecker.env \in forge.apps

Ends == pc = "finalize" /\ pc' = "idle"

\* The only application is the one Woodpecker logs in with, now and from its .env.
SoleClient ==
  forge'.apps = {woodpecker'.container} /\ woodpecker'.env = woodpecker'.container
Seeded(repo) == \A f \in SeedFiles : <<repo, f>> \in forge'.seeded

(***************************************************************************)
(* What a run without a partial phase has left, whatever went wrong in the *)
(* calls whose results the code ignores and in the runs before: accounts   *)
(* with the current passwords, a live token, exactly one OAuth application *)
(* and Woodpecker logging in with it, and the seeds in the repository.     *)
(* Not covered, because their results are ignored: that the repository is  *)
(* private and the user a writer, and, when the first mirror cannot be     *)
(* forked but the second can, that the services clone the fork.  Nor are   *)
(* the seeds on a server without jq.                                       *)
(***************************************************************************)
OkMeansProvisioned ==
  [][Ends /\ run'.status = "ok" =>
       /\ forge'.db = epoch
       /\ \A n \in {"admin", Identity.local} : forge'.account[n].pw = epoch
       /\ forge'.token /\ forge'.runner
       /\ SoleClient
       /\ ~run.mirror => /\ Workspace \in forge'.repos
                         /\ run'.jq => Seeded(Workspace)
       /\ run.mirror => /\ \A m \in Mirrors : Mirror(m) \in forge'.repos
                        /\ run.fork # NoRepo /\ run'.jq => Seeded(run.fork)]_vars

(***************************************************************************)
(* A run in which no call goes wrong repairs whatever the failed runs      *)
(* before it have left half done, and ends with status ok: also the parts  *)
(* OkMeansProvisioned leaves out, and no temporary token of the student    *)
(* survives.  The fork has at least the commits its mirror had when the    *)
(* run began.  One case needs a second run: an admin that still has the    *)
(* student's mail and whose password is not current, because the mail is   *)
(* corrected with the new password before the password is set.             *)
(***************************************************************************)
CleanRunRepairs ==
  [][Ends /\ run'.clean /\ run.user /\ ~run.stale =>
       /\ run'.status = "ok"
       /\ clone' = Target
       /\ SoleClient
       /\ ~run.mirror => /\ ~forge'.public \/ Workspace \notin forge.repos
                         /\ <<"student", Workspace>> \in forge'.members
       /\ run.mirror => /\ run.fork = Target
                        /\ forge'.head[Target] >= run.seen
                        /\ ~forge'.forkToken]_vars

(***************************************************************************)
(* Every spin-up comes to its end, whatever its calls answer.              *)
(***************************************************************************)
RunEnds == pc # "idle" ~> pc = "idle"

(***************************************************************************)
(* What tfvars.py says of a stack without a user: the creation of the user *)
(* is skipped cleanly instead of colliding with the admin, so that a run   *)
(* in which nothing goes wrong has status ok.                              *)
(***************************************************************************)
NoUserSkipsCleanly ==
  [][Ends /\ run'.clean /\ ~run.user /\ ~run.mirror => run'.status = "ok"]_vars
=============================================================================

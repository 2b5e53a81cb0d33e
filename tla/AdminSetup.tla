----------------------------- MODULE AdminSetup -----------------------------
(***************************************************************************)
(* The other admin-setup hooks and the phase as a whole.  A hook asks the  *)
(* service whether it has been set up, sets it up if not, and reports what *)
(* the answers say, which is not always what happened.                     *)
(***************************************************************************)
EXTENDS AdminHandover

In(r, t) == Has(Current(r), t)

(* One service, one request: a check, then the creation.                   *)
Portainer(r) ==
  \/ /\ At(r, "portainer", "first")
     /\ Ask(r, In(r, "admin"), "already-configured", "init", "init")
  \/ /\ At(r, "portainer", "init")
     /\ Create(r, {"admin"}, "configured", "already-configured", "failed")

(* The check reads showSetupOnFirstLoad with jq's //, which takes false for*)
(* absent: a finished n8n is asked to set itself up again, and refuses.    *)
N8n(r) ==
  \/ /\ At(r, "n8n", "first")
     /\ Ask(r, In(r, "admin"), "owner", "owner", "owner")
  \/ /\ At(r, "n8n", "owner")
     /\ Create(r, {"admin"}, "configured", "failed", "failed")

(* Metabase hands out its setup token until it has been set up; no token   *)
(* and no answer look the same.                                            *)
Metabase(r) ==
  \/ /\ At(r, "metabase", "first")
     /\ Ask(r, In(r, "admin"), "already-configured", "post", "already-configured")
  \/ /\ At(r, "metabase", "post")
     /\ Create(r, {"admin"}, "configured", "failed", "failed")

(* The first user, then the repository: the status is "configured" unless  *)
(* both were there.                                                        *)
LakeFS(r) ==
  \/ /\ At(r, "lakefs", "first")
     /\ Ask(r, In(r, "setup"), "repo-done", "setup", "setup")
  \/ /\ At(r, "lakefs", "setup")
     /\ Create(r, {"setup"}, "repo", "repo", "failed")
  \/ /\ At(r, "lakefs", "repo")
     /\ Create(r, {"repo"}, "configured", "configured", "failed")
  \/ /\ At(r, "lakefs", "repo-done")
     /\ Create(r, {"repo"}, "configured", "already-configured", "failed")

(* Mutant: the new password is taken for set without signing in with it.   *)
OpenMetadataUnverified(r) ==
  \/ /\ At(r, "openmetadata", "first")
     /\ Ask(r, In(r, "password"), "already-configured", "change", "failed")
  \/ /\ At(r, "openmetadata", "change")
     /\ Create(r, {"password"}, "configured", "configured", "configured")

(* Sign in with the default password and change it; the answer to the      *)
(* change is ignored, signing in with the new one decides.                 *)
OpenMetadata(r) ==
  \/ /\ At(r, "openmetadata", "first")
     /\ Ask(r, In(r, "password"), "already-configured", "change", "failed")
  \/ /\ At(r, "openmetadata", "change")
     /\ Create(r, {"password"}, "verify", "verify", "verify")
  \/ /\ At(r, "openmetadata", "verify")
     /\ Ask(r, In(r, "password"), "configured", "failed", "failed")

(***************************************************************************)
(* RedPanda: create the SASL user or update its password, make it a        *)
(* superuser, and restart the broker if this run created the user.  The    *)
(* check for success of the superuser command also matches messages that   *)
(* say it failed.                                                          *)
(***************************************************************************)
RedPanda(r) ==
  \/ /\ At(r, "redpanda", "first")
     /\ Ask(r, In(r, "user"), "create-old", "create", "create")
  \/ /\ At(r, "redpanda", "create") \/ At(r, "redpanda", "create-old")
     /\ IF In(r, "user") THEN Ask(r, TRUE, "update", "update", "failed")
                         ELSE Write(r, {"user", "password"},
                                IF run[r].step = "create" THEN "super" ELSE "super-old",
                                "failed")
  \/ At(r, "redpanda", "update") /\ Write(r, {"password"}, "super-old", "failed")
  \/ At(r, "redpanda", "super") /\ \E bad \in {"failed", "restart"} :
        Write(r, {"superuser"}, "restart", bad)
  \/ At(r, "redpanda", "super-old") /\ \E bad \in {"failed", "verify"} :
        Write(r, {"superuser"}, "verify", bad)
  \/ At(r, "redpanda", "restart") /\ Write(r, {"restarted"}, "verify", "failed")
  \/ At(r, "redpanda", "verify") /\ Ask(r, In(r, "user"), "configured", "failed", "failed")

(***************************************************************************)
(* Superset and HedgeDoc: create the administrator, or reset its password  *)
(* when it exists; Superset takes every failed creation for that.  The     *)
(* check for the success of the reset is for a word in all of its output,  *)
(* which that of a failed one may hold as well.  Hue does both in one      *)
(* command.                                                                *)
(***************************************************************************)
Superset(r) ==
  \/ /\ At(r, "superset", "first")
     /\ IF In(r, "admin") THEN Ask(r, TRUE, "reset", "reset", "reset")
                          ELSE Write(r, {"admin", "password"}, "configured", "reset")
  \/ /\ At(r, "superset", "reset")
     /\ \E bad \in {"failed", "already-configured"} :
          IF In(r, "admin") THEN Write(r, {"password"}, "already-configured", bad)
                            ELSE Ask(r, FALSE, bad, bad, bad)

HedgeDoc(r) ==
  \/ /\ At(r, "hedgedoc", "first")
     /\ IF In(r, "admin") THEN Ask(r, TRUE, "reset", "reset", "failed")
                          ELSE Write(r, {"admin", "password"}, "configured", "failed")
  \/ At(r, "hedgedoc", "reset") /\ \E bad \in {"failed", "already-configured"} :
        Write(r, {"password"}, "already-configured", bad)

Hue(r) ==
  /\ At(r, "hue", "first")
  /\ Write(r, {"admin", "password"},
           IF In(r, "admin") THEN "already-configured" ELSE "configured", "failed")

(* Garage: a node with a role means that the layout has been applied, and  *)
(* the key, created after it, is taken to exist.                           *)
Garage(r) ==
  \/ /\ At(r, "garage", "first")
     /\ Ask(r, In(r, "layout"), "already-configured", "assign", "failed")
  \/ At(r, "garage", "assign") /\ Ask(r, TRUE, "apply", "apply", "failed")
  \/ At(r, "garage", "apply") /\ Create(r, {"layout"}, "key", "failed", "failed")
  \/ At(r, "garage", "key") /\ Write(r, {"key"}, "configured", "failed")

Wikijs(r) ==
  /\ At(r, "wikijs", "first")
  /\ Create(r, {"admin"}, "configured", "already-configured", "failed")

Dify(r) ==
  \/ /\ At(r, "dify", "first")
     /\ Ask(r, In(r, "admin"), "already-configured", "init", "init")
  \/ At(r, "dify", "init") /\ Ask(r, ~In(r, "admin"), "setup", "failed", "failed")
  \/ /\ At(r, "dify", "setup")
     /\ Create(r, {"admin"}, "configured", "already-configured", "failed")

(***************************************************************************)
(* Windmill: the two users (whatever the answers), the workspace, and the  *)
(* default administrator's password; the answer about the workspace is     *)
(* reported if the last call succeeds.                                     *)
(***************************************************************************)
WindmillWorkspace(r) ==
  LET new == ~In(r, "workspace")
      done == [svc EXCEPT !["windmill"] = @ \cup {"workspace"}]
  IN /\ At(r, "windmill", "workspace")
     /\ \/ /\ NoFault /\ svc' = done
           /\ Go(r, Note(r, IF new THEN "configured" ELSE "already-configured"), "rotate")
        \/ /\ Fault /\ svc' \in {svc, done}
           /\ Go(r, Unclean(Note(r, "failed")), "rotate")
     /\ UNCHANGED <<enabled, realm, runs>>

Windmill(r) ==
  \/ At(r, "windmill", "first") /\ Write(r, {"admin"}, "user", "user")
  \/ At(r, "windmill", "user") /\ Write(r, {"user"}, "workspace", "workspace")
  \/ WindmillWorkspace(r)
  \/ At(r, "windmill", "rotate") /\ Write(r, {"rotated"}, run[r].got, "failed")

(***************************************************************************)
(* SFTPGo: sign in, post the folders of R2 and Hetzner, then the user that *)
(* links them.  A folder that fails is only warned about; the user is      *)
(* refused without the first folder and created without a link to the      *)
(* second, and any refusal counts as "the user exists".                    *)
(***************************************************************************)
SftpgoUser(r) ==
  /\ At(r, "sftpgo", "link")
  /\ IF In(r, "user") \/ ~In(r, "folder")
     THEN Ask(r, TRUE, "already-configured", "already-configured", "failed")
     ELSE Write(r, {"user"} \cup (IF run[r].got = "both" THEN {"linked"} ELSE {}),
                "configured", "failed")

SftpgoHetzner(r) ==
  LET done == [svc EXCEPT !["sftpgo"] = @ \cup {"hetzner"}]
  IN /\ At(r, "sftpgo", "hetzner")
     /\ \/ NoFault /\ svc' = done /\ Go(r, Note(r, "both"), "link")
        \/ Fault /\ svc' \in {svc, done} /\ Go(r, Unclean(run[r]), "link")
     /\ UNCHANGED <<enabled, realm, runs>>

Sftpgo(r) ==
  \/ At(r, "sftpgo", "first") /\ Ask(r, TRUE, "folder", "folder", "failed")
  \/ At(r, "sftpgo", "folder") /\ Write(r, {"folder"}, "hetzner", "hetzner")
  \/ SftpgoHetzner(r)
  \/ SftpgoUser(r)

(* The bootstrap SQL runs on every spin-up; psql reports success though    *)
(* statements of the file failed.                                          *)
PgDucklake(r) ==
  /\ At(r, "pg-ducklake", "first")
  /\ \E bad \in {"configured", "failed"} : Write(r, {"schema"}, "configured", bad)

UnityCatalog(r) ==
  \/ /\ At(r, "unity-catalog", "first")
     /\ Ask(r, In(r, "catalog"), "already-configured", "create", "create")
  \/ At(r, "unity-catalog", "create") /\ Create(r, {"catalog"}, "configured", "look", "look")
  \/ /\ At(r, "unity-catalog", "look")
     /\ Ask(r, In(r, "catalog"), "already-configured", "failed", "failed")

(***************************************************************************)
(* Lakekeeper: bootstrap the server, then create the warehouse with its    *)
(* signing profile, or give one from before the profile it.                *)
(***************************************************************************)
Lakekeeper(r) ==
  \/ /\ At(r, "lakekeeper", "first")
     /\ Ask(r, In(r, "bootstrapped"), "list", "boot", "boot")
  \/ At(r, "lakekeeper", "boot") /\ Create(r, {"bootstrapped"}, "list", "list", "list")
  \/ /\ At(r, "lakekeeper", "list")
     /\ Ask(r, In(r, "signing"), "already-configured",
            IF In(r, "warehouse") THEN "fix" ELSE "warehouse", "warehouse")
  \/ At(r, "lakekeeper", "fix") /\ Write(r, {"signing"}, "configured", "failed")
  \/ /\ At(r, "lakekeeper", "warehouse")
     /\ IF In(r, "warehouse") \/ ~In(r, "bootstrapped")
        THEN Ask(r, TRUE, "look", "look", "look")
        ELSE Write(r, {"warehouse", "signing"}, "configured", "look")
  \/ /\ At(r, "lakekeeper", "look")
     /\ Ask(r, In(r, "warehouse"), "already-configured", "failed", "failed")

(***************************************************************************)
(* Filestash: one script reads config.json, a second one overwrites it     *)
(* with what Python made of it and restarts the container.  Whatever is    *)
(* saved in between in the UI is overwritten, and a write that fails may   *)
(* leave half a file, which no later run can parse.                        *)
(***************************************************************************)
FilestashPull(r) ==
  /\ At(r, "filestash", "first")
  /\ \/ /\ NoFault
        /\ Go(r, Note(r, IF In(r, "edit") THEN "edit" ELSE "plain"),
              IF In(r, "torn") THEN "failed" ELSE "push")
     \/ /\ Fault
        /\ \E s \in {"failed", "skipped-not-ready"} : Go(r, Unclean(run[r]), s)
  /\ UNCHANGED <<enabled, svc, realm, runs>>

FilestashPush(r) ==
  LET new == {"backends"} \cup (IF run[r].got = "edit" THEN {"edit"} ELSE {})
      Put(f) == [svc EXCEPT !["filestash"] = f]
  IN /\ At(r, "filestash", "push")
     /\ \/ NoFault /\ svc' = Put(new) /\ Go(r, run[r], "configured")
        \/ /\ Fault /\ svc' \in {svc, Put(new), Put({"torn"})}
           /\ Go(r, Unclean(run[r]), "failed")
     /\ UNCHANGED <<enabled, realm, runs>>

(* Somebody changes a setting in Filestash's admin UI.                     *)
EditFilestash ==
  /\ ~Has("filestash", "edit") /\ ~Has("filestash", "torn")
  /\ "filestash" \in EnabledHooks
  /\ svc' = [svc EXCEPT !["filestash"] = @ \cup {"edit"}]
  /\ UNCHANGED <<enabled, realm, run, faults, runs>>

Filestash(r) == FilestashPull(r) \/ FilestashPush(r)

-----------------------------------------------------------------------------
(***************************************************************************)
(* What a set-up service must hold, and the services no run can complete:  *)
(* their hook finds the first part and takes the rest to be there.         *)
(***************************************************************************)
Promised(h) ==
  CASE h \in {"portainer", "n8n", "metabase", "wikijs", "dify"} -> {"admin"}
    [] h \in {"superset", "hedgedoc", "hue"} -> {"admin", "password"}
    [] h = "lakefs"        -> {"setup", "repo"}
    [] h = "openmetadata"  -> {"password"}
    [] h = "redpanda"      -> {"user", "password", "superuser", "restarted"}
    [] h = "garage"        -> {"layout", "key"}
    [] h = "windmill"      -> {"admin", "user", "workspace", "rotated"}
    [] h = "sftpgo"        -> {"folder", "hetzner", "user", "linked"}
    [] h = "pg-ducklake"   -> {"schema"}
    [] h = "unity-catalog" -> {"catalog"}
    [] h = "lakekeeper"    -> {"bootstrapped", "warehouse", "signing"}
    [] h = "filestash"     -> {"backends"}
    [] h \in {"neo4j", "cassandra"} -> {"ours"}
    [] OTHER -> {}

SetUp(h) == /\ Promised(h) \subseteq svc[h]
            /\ h = "keycloak" => Administers("admin")

Stuck(h) == \/ h = "garage" /\ Has(h, "layout") /\ ~Has(h, "key")
            \/ h = "redpanda" /\ Has(h, "user") /\ ~Has(h, "restarted")
            \/ h = "sftpgo" /\ Has(h, "user") /\ ~Has(h, "linked")
            \/ h = "filestash" /\ Has(h, "torn")

-----------------------------------------------------------------------------
(***************************************************************************)
(* The phase.                                                              *)
(***************************************************************************)
Begin(r) ==
  /\ run[r].step = "idle" /\ runs < MaxRuns
  /\ runs' = runs + 1
  /\ LET alone == \A o \in Runners \ {r} : run[o].step = "idle"
         rec == [Fresh EXCEPT !.todo = DOMAIN enabled.list, !.step = "ready", !.clean = alone,
                              !.stuck = {h \in EnabledHooks : Stuck(h)}]
     IN run' = [o \in Runners |-> IF o = r THEN rec ELSE Unclean(run[o])]
  /\ UNCHANGED <<enabled, svc, realm, faults>>

(* A hook without a RESULT line counts as failed; one failed hook makes    *)
(* the phase partial.                                                      *)
Conclude(r) ==
  /\ run[r].step = "parse"
  /\ LET bad == \E h \in EnabledHooks : run[r].res[h] \in {"none", "failed"}
     IN run' = [run EXCEPT ![r].step = "idle",
                           ![r].phase = IF bad THEN "partial" ELSE "ok"]
  /\ UNCHANGED <<enabled, svc, realm, faults, runs>>

(* The connection drops or times out: the phase fails, no result is read,  *)
(* and what follows of the script is not run.                              *)
BreakOff(r) ==
  /\ run[r].step # "idle"
  /\ Fault
  /\ run' = [run EXCEPT ![r] = [Fresh EXCEPT !.phase = "failed"]]
  /\ UNCHANGED <<enabled, svc, realm, runs>>

(* Between the runs a new password may be generated for the services whose *)
(* hooks reset it, while their data is kept.                               *)
Resetting == {"redpanda", "superset", "hedgedoc", "hue"}

NewPassword ==
  /\ \A r \in Runners : run[r].step = "idle"
  /\ \E h \in Resetting \cap EnabledHooks :
       /\ Has(h, "password")
       /\ svc' = [svc EXCEPT ![h] = @ \ {"password"}]
  /\ UNCHANGED <<enabled, realm, run, faults, runs>>

(* New services, and those an earlier version of the stack left behind.    *)
FreshRealm == [user |-> [n \in KcNames |-> IF n = "boot"
                 THEN [id |-> 1, pw |-> TRUE, role |-> TRUE, temp |-> TRUE]
                 ELSE NoAccount], next |-> 2]
HalfRealm == [FreshRealm EXCEPT !.user["admin"] =
                 [id |-> 2, pw |-> FALSE, role |-> FALSE, temp |-> FALSE], !.next = 3]
LegacyRealm == [user |-> [n \in KcNames |-> IF n = "admin"
                 THEN [id |-> 1, pw |-> TRUE, role |-> TRUE, temp |-> TRUE]
                 ELSE NoAccount], next |-> 2]

Init ==
  /\ \E l \in HookLists, bare \in BOOLEAN : enabled = [list |-> l, bare |-> bare]
  /\ \E old \in IF "lakekeeper" \in EnabledHooks
                THEN {{}, {"bootstrapped", "warehouse"}} ELSE {{}} :
       svc = [h \in Hooks |-> CASE h = "neo4j" -> {"default"}
                                [] h = "cassandra" -> {"unseeded"}
                                [] h = "lakekeeper" -> old
                                [] OTHER -> {}]
  /\ realm \in IF "keycloak" \in EnabledHooks
               THEN {FreshRealm, HalfRealm, LegacyRealm} ELSE {FreshRealm}
  /\ run = [r \in Runners |-> Fresh]
  /\ faults = 0 /\ runs = 0

Hook(r) ==
  \/ WaitReady(r)
  \/ Portainer(r) \/ N8n(r) \/ Metabase(r) \/ LakeFS(r) \/ OpenMetadata(r)
  \/ RedPanda(r) \/ Superset(r) \/ HedgeDoc(r) \/ Hue(r) \/ Garage(r)
  \/ Wikijs(r) \/ Dify(r) \/ Windmill(r) \/ Sftpgo(r) \/ PgDucklake(r)
  \/ UnityCatalog(r) \/ Lakekeeper(r) \/ Filestash(r)
  \/ Keycloak(r) \/ Databases(r)

Next ==
  \/ \E r \in Runners : Begin(r) \/ Hook(r) \/ Conclude(r) \/ BreakOff(r)
  \/ Seed \/ EditFilestash \/ NewPassword

Spec == Init /\ [][Next]_vars

-----------------------------------------------------------------------------
TypeOK ==
  /\ enabled \in [list : HookLists, bare : BOOLEAN]
  /\ svc \in [Hooks -> SUBSET Things]
  /\ realm \in [user : [KcNames -> [id : Nat, pw : BOOLEAN, role : BOOLEAN,
                                    temp : BOOLEAN]], next : Nat \ {0}]
  /\ run \in [Runners -> RunRecords]
  /\ \A r \in Runners : run[r].step \in {"ready", "idle", "parse"} => run[r].got = "none"
  /\ faults \in 0 .. MaxFaults /\ runs \in 0 .. MaxRuns

(***************************************************************************)
(* Whatever call fails, wherever a run breaks off, and with two runs at    *)
(* once: some account can always administer the realm, and each database   *)
(* keeps an account that signs in (render_keycloak_hook: "a half-finished  *)
(* run never locks the realm").                                            *)
(***************************************************************************)
NeverLockedOut ==
  /\ \E n \in KcNames : Administers(n)
  /\ svc["neo4j"] # {} /\ svc["cassandra"] # {}

(***************************************************************************)
(* A hook that reports "configured" or "already-configured" leaves its     *)
(* service set up at that moment, though the other run is still at work    *)
(* and calls of its own went wrong.  Blind are the hooks whose report does *)
(* not say so: see the README.                                             *)
(***************************************************************************)
Blind == {"metabase", "redpanda", "superset", "hedgedoc", "garage", "windmill",
          "sftpgo", "pg-ducklake", "lakekeeper", "uptime-kuma"}

OkMeansSetUp ==
  [][\A r \in Runners, h \in EnabledHooks \ Blind :
       /\ run[r].res[h] = "none"
       /\ run'[r].res[h] \in {"configured", "already-configured"}
       => SetUp(h)']_vars

(***************************************************************************)
(* A run on its own without a fault finishes what earlier ones left half   *)
(* done or broke off, in whatever order: every enabled service that has    *)
(* its credentials ends set up with none but n8n reported failed, Keycloak *)
(* with its bootstrap account gone and no temporary admin, the databases   *)
(* without their default account.  Left aside are the services in a state  *)
(* no run repairs, the stuck ones.                                         *)
(***************************************************************************)
HandedOver(h) ==
  /\ h = "keycloak" => realm.user["boot"].id = 0 /\ ~realm.user["admin"].temp
  /\ h \in {"neo4j", "cassandra"} => ~Has(h, "default")

CleanRunSetsUp ==
  \A r \in Runners :
    run[r].step = "parse" /\ run[r].clean =>
      \A h \in EnabledHooks \ run[r].stuck :
        ~Skips(h) => /\ SetUp(h) /\ HandedOver(h)
                     /\ run[r].res[h] = "failed" => h = "n8n"

(***************************************************************************)
(* What the code says of itself: a service that has been set up is         *)
(* recognised by its hook ("idempotent via /rest/settings",                *)
(* services.py:337), so that without a fault no hook ever fails.  It does  *)
(* not hold of n8n.                                                        *)
(***************************************************************************)
NoFaultNoFailedHook ==
  faults = 0 => \A r \in Runners, h \in Hooks : run[r].res[h] # "failed"
=============================================================================

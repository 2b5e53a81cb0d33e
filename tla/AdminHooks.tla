----------------------------- MODULE AdminHooks -----------------------------
(***************************************************************************)
(* The services-configure phase of a spin-up: one remote script that runs  *)
(* the admin-setup hook of every enabled service in turn, then the hooks   *)
(* written in Python.  This module holds the state the hooks share and the *)
(* forms their calls take; AdminHandover and AdminSetup hold the hooks.    *)
(* Two spin-ups may run at once, a call may be refused or may take effect  *)
(* with its answer lost, and a run may break off between any two calls     *)
(* while the services keep what was done.                                  *)
(***************************************************************************)
EXTENDS Naturals, Sequences, FiniteSets, FiniteSetsExt

CONSTANTS Runners,     \* spin-ups that may be active at the same time
          HookLists,   \* the lists of enabled services to consider
          MaxRuns,     \* spin-ups in a behaviour
          MaxFaults    \* calls that go wrong in a behaviour

VARIABLES enabled,  \* the enabled services, and whether Infisical has credentials
          svc,      \* what has been set up in each service
          realm,    \* Keycloak's master realm: its accounts, the next user id
          run,      \* per spin-up: where it is and what it has read
          faults, runs

vars == <<enabled, svc, realm, run, faults, runs>>

(***************************************************************************)
(* The registries: hooks rendered as shell, the one written in Python, and *)
(* those that need a credential of the configuration.                      *)
(***************************************************************************)
BashHooks == {"portainer", "n8n", "metabase", "lakefs", "openmetadata",
              "redpanda", "superset", "uptime-kuma", "garage", "wikijs",
              "dify", "windmill", "sftpgo", "hedgedoc", "unity-catalog",
              "lakekeeper", "neo4j", "cassandra", "hue", "keycloak",
              "pg-ducklake"}
PythonHooks == {"filestash"}
Hooks == BashHooks \cup PythonHooks
Credentialed == Hooks \ {"uptime-kuma", "garage", "unity-catalog", "neo4j",
                         "cassandra", "pg-ducklake", "filestash"}

ASSUME AdminAssumption ==
  /\ IsFiniteSet(Runners)
  /\ HookLists \subseteq Seq(Hooks) \ {<<>>}  \* without a hook nothing is run
  /\ MaxRuns \in Nat /\ MaxFaults \in Nat

Things == {"admin", "password", "setup", "repo", "user", "superuser",
           "restarted", "layout", "key", "workspace", "rotated", "folder",
           "hetzner", "linked", "catalog", "bootstrapped", "warehouse",
           "signing", "schema", "backends", "torn", "edit",
           "ours", "default", "unseeded"}

Statuses == {"configured", "already-configured", "skipped-not-ready", "failed"}

(***************************************************************************)
(* Keycloak accounts: a user id, whether the password is the configured    *)
(* one, the master realm's admin role, the mark of a temporary account.    *)
(***************************************************************************)
KcNames == {"admin", "boot"}
NoAccount == [id |-> 0, pw |-> FALSE, role |-> FALSE, temp |-> FALSE]
NoToken == [who |-> "admin", id |-> 0]

NoResults == [h \in Hooks |-> "none"]

(***************************************************************************)
(* A spin-up: the positions in the list of the hooks left, the step of the *)
(* current one, what the hook holds in its variables (a status, a Keycloak *)
(* token, the user it installs with its id, the id of a temporary admin),  *)
(* the results so far.  clean: alone and without a fault since it began;   *)
(* stuck: the services no run repairs, as it began.                        *)
(***************************************************************************)
Fresh == [todo |-> {}, step |-> "idle", got |-> "none", tok |-> NoToken,
          user |-> "admin", id |-> 0, old |-> 0, res |-> NoResults, clean |-> FALSE,
          stuck |-> {}, phase |-> "none"]

(* The steps of the hooks, what they note, and the records of a spin-up.   *)
HookSteps == {"first", "init", "owner", "post", "setup", "repo", "repo-done",
              "change", "verify", "create", "create-old", "update", "super",
              "super-old", "restart", "reset", "assign", "apply", "key", "user",
              "workspace", "rotate", "folder", "hetzner", "link", "look", "list",
              "boot", "fix", "warehouse", "push", "flag", "asboot", "again",
              "lookup", "grant", "drop-temporary", "last", "drop-boot", "make",
              "retry", "drop", "drop-new"}
Notes == Statuses \cup {"none", "201", "401", "409", "000", "both", "edit", "plain"}

RunRecords ==
  [todo : SUBSET (DOMAIN enabled.list), step : HookSteps \cup {"idle", "ready", "parse"},
   got : Notes, tok : [who : KcNames, id : Nat], user : KcNames, id : Nat, old : Nat,
   res : [Hooks -> Statuses \cup {"none"}], clean : BOOLEAN, stuck : SUBSET Hooks,
   phase : {"none", "ok", "partial", "failed"}]

EnabledHooks == {enabled.list[i] : i \in DOMAIN enabled.list}

(* Whose turn it is: the shell hooks in the order of the list, then the    *)
(* Python hooks.                                                           *)
Turn(todo) ==
  LET shell == {i \in todo : enabled.list[i] \in BashHooks}
  IN Min(IF shell # {} THEN shell ELSE todo)

Current(r) == IF run[r].todo = {} THEN "none" ELSE enabled.list[Turn(run[r].todo)]
At(r, h, s) == Current(r) = h /\ run[r].step = s
Has(h, t) == t \in svc[h]

-----------------------------------------------------------------------------
(* Mutant: a variable of one hook leaks into the next one of the script.   *)
EndedKeepsGot(rec, s) ==
  [rec EXCEPT !.todo = @ \ {Turn(@)}, !.tok = NoToken,
              !.user = "admin", !.id = 0, !.old = 0,
              !.res[enabled.list[Turn(rec.todo)]] = s,
              !.step = IF rec.todo = {Turn(rec.todo)} THEN "parse" ELSE "ready"]

(***************************************************************************)
(* Steps.  A hook ends by printing its RESULT line, and the script goes on *)
(* with the next hook whatever the status is; after the last one the       *)
(* results are parsed.                                                     *)
(***************************************************************************)
Ended(rec, s) ==
  [rec EXCEPT !.todo = @ \ {Turn(@)}, !.got = "none", !.tok = NoToken,
              !.user = "admin", !.id = 0, !.old = 0,
              !.res[enabled.list[Turn(rec.todo)]] = s,
              !.step = IF rec.todo = {Turn(rec.todo)} THEN "parse" ELSE "ready"]

Onward(rec, s) == IF s \in Statuses THEN Ended(rec, s) ELSE [rec EXCEPT !.step = s]

Unclean(rec) == [rec EXCEPT !.clean = FALSE]

(* The run goes on with its record rec, at step or with status s.          *)
Go(r, rec, s) == run' = [run EXCEPT ![r] = Onward(rec, s)]

NoFault == faults' = faults
Fault == faults < MaxFaults /\ faults' = faults + 1

(* A read: the branch of its answer, or the one taken without an answer.   *)
Ask(r, answer, yes, no, lost) ==
  /\ \/ NoFault /\ Go(r, run[r], IF answer THEN yes ELSE no)
     \/ Fault /\ Go(r, Unclean(run[r]), lost)
  /\ UNCHANGED <<enabled, svc, realm, runs>>

(* A write that adds things to the service: it succeeds, or it is refused  *)
(* or unanswered, with or without its effect.                              *)
Write(r, things, ok, bad) ==
  LET h == Current(r)
      done == [svc EXCEPT ![h] = @ \cup things]
  IN /\ \/ NoFault /\ svc' = done /\ Go(r, run[r], ok)
        \/ Fault /\ svc' \in {svc, done} /\ Go(r, Unclean(run[r]), bad)
     /\ UNCHANGED <<enabled, realm, runs>>

(* A write the service rejects once it has been set up.                    *)
Create(r, things, ok, exists, bad) ==
  IF things \subseteq svc[Current(r)] THEN Ask(r, TRUE, exists, exists, bad)
                                      ELSE Write(r, things, ok, bad)

(* What the hook keeps in a variable while it goes on.                     *)
Note(r, got) == [run[r] EXCEPT !.got = got]

(***************************************************************************)
(* Every hook first waits, up to a time limit of its own, for the service  *)
(* to answer; one without its credentials, and the one for Uptime Kuma,    *)
(* report skipped-not-ready at once.                                       *)
(***************************************************************************)
Skips(h) == h = "uptime-kuma" \/ (enabled.bare /\ h \in Credentialed)

WaitReady(r) ==
  /\ run[r].step = "ready" /\ Current(r) # "cassandra"
  /\ Ask(r, Skips(Current(r)), "skipped-not-ready", "first", "skipped-not-ready")
=============================================================================

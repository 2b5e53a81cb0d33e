---------------------------- MODULE DesiredState ----------------------------
(***************************************************************************)
(* Desired and deployed state: which services run and which ports are open *)
(* against the flags in D1 that the Control Plane shows.                   *)
(*                                                                         *)
(* POST /api/services and /api/firewall stage a change in D1.  spin-up     *)
(* takes the list of services when it is dispatched and the firewall rules *)
(* when it writes config.tfvars, deploys both, and at its end              *)
(* sync-deployed-state.sh brings D1 in line, one wrangler call per step.   *)
(* setup-control-plane.yaml runs the same script, in a concurrency group   *)
(* of its own.  The teardowns reset the firewall rules.                    *)
(*                                                                         *)
(* The concurrency group "infrastructure" keeps a teardown from another    *)
(* one.  spin-up.yml is in no group: a spin-up runs beside other spin-ups, *)
(* a teardown and a setup.                                                 *)
(***************************************************************************)
EXTENDS Naturals, FiniteSets

CONSTANTS
    Services,       \* every service a services.yaml may name
    FirstShipped,   \* the services of the first services.yaml
    FirstCore,      \* the core services among them
    Rules,          \* the firewall rules (service and tcp port)
    SpinUps         \* the spin-up runs that may be under way together

ASSUME ServiceAssumption ==
    FirstShipped \subseteq Services /\ FirstCore \subseteq FirstShipped
ASSUME RunAssumption == "setup" \notin SpinUps /\ "teardown" \notin SpinUps

VARIABLES
    shipped, core,      \* services.yaml: all services, the core services
    rows, coreRow,      \* D1 services: the rows, those with core = 1
    enabled, deployed,  \* D1 services: the rows with the flag
    ruleEnabled, ruleDeployed,  \* D1 firewall_rules: the rules with the flag
    up, live, open,     \* the server: whether there is one, its stacks, its ports
    step,               \* [Runs -> step]: the workflow runs
    job,                \* [SpinUps -> Job]: what a spin-up run works with
    record,             \* whether a spin-up has recorded what it deployed
    asked,              \* rules that were enabled since they were last reset
    strayed             \* ports opened by a spin-up with a teardown beside it

yamlVars == <<shipped, core>>
flagVars == <<rows, coreRow, enabled, deployed>>
ruleVars == <<ruleEnabled, ruleDeployed>>
serverVars == <<up, live, open>>
historyVars == <<record, asked, strayed>>
allVars == <<yamlVars, flagVars, ruleVars, serverVars, step, job, historyVars>>

Runs == SpinUps \union {"setup", "teardown"}
Steps == {"idle", "config", "apply", "deploy", "rows", "deployed", "rules",
          "core", "destroy", "reset"}

\* The services and ports of the run, once it has read them; the services enabled
\* ever since its dispatch; whether a teardown was under way since it read its ports.
Job == [list : SUBSET Services, ports : SUBSET Rules, kept : SUBSET Services,
        beside : BOOLEAN]
NoJob == [list |-> {}, ports |-> {}, kept |-> {}, beside |-> FALSE]

\* "due" from a dispatch with every core service enabled, "done" from the sync to the
\* next change of the server, if no other run of any kind was under way between the
\* two.  but: the services that were toggled between them.
Record == [status : {"no", "due", "done"}, but : SUBSET Services]
NoRecord == [status |-> "no", but |-> {}]

FlagsTypeOK ==
    /\ shipped \subseteq Services /\ core \subseteq shipped
    /\ rows \subseteq shipped /\ coreRow \subseteq rows
    /\ enabled \subseteq rows /\ deployed \subseteq rows
    /\ ruleEnabled \subseteq Rules /\ ruleDeployed \subseteq Rules
    /\ up \in BOOLEAN /\ live \subseteq shipped /\ open \subseteq Rules
    /\ step \in [Runs -> Steps]
    /\ job \in [SpinUps -> Job] /\ \A r \in SpinUps : job[r].list \subseteq shipped
    /\ record \in Record /\ asked \subseteq Rules /\ strayed \subseteq Rules

\* The first setup-control-plane has filled D1; nothing was spun up yet.
FlagsInit ==
    /\ shipped = FirstShipped /\ core = FirstCore
    /\ rows = FirstShipped /\ coreRow = FirstCore
    /\ enabled = FirstCore /\ deployed = FirstCore
    /\ ruleEnabled = {} /\ ruleDeployed = {}
    /\ up = FALSE /\ live = {} /\ open = {}
    /\ step = [r \in Runs |-> "idle"]
    /\ job = [r \in SpinUps |-> NoJob]
    /\ record = NoRecord /\ asked = {} /\ strayed = {}

Goto(r, s) == step' = [step EXCEPT ![r] = s]
Free(r) == step[r] = "idle"
\* The run ends without the rest of its steps.
GiveUp(r) == Goto(r, "idle") /\ job' = [job EXCEPT ![r] = NoJob]
\* A run beside a spin-up that has recorded nothing yet.
Disturbed == record' = IF record.status = "due" THEN NoRecord ELSE record

-----------------------------------------------------------------------------
(* Users and updates                                                       *)

\* POST /api/services; admin-only services, which no user can toggle, are not
\* in Services.
ToggleService(s) ==
    /\ s \in rows
    /\ \/ s \notin enabled /\ enabled' = enabled \union {s} /\ UNCHANGED job
       \/ /\ s \in enabled \ coreRow /\ enabled' = enabled \ {s}
          /\ job' = [r \in SpinUps |-> [job[r] EXCEPT !.kept = @ \ {s}]]
    /\ record' = IF record.status = "due" THEN [record EXCEPT !.but = @ \union {s}]
                                          ELSE record
    /\ UNCHANGED <<yamlVars, rows, coreRow, deployed, ruleVars, serverVars, step,
                   asked, strayed>>

\* POST /api/firewall; that page has no lock.
ToggleRule(r) ==
    /\ \/ r \notin ruleEnabled /\ ruleEnabled' = ruleEnabled \union {r}
                               /\ asked' = asked \union {r}
       \/ r \in ruleEnabled /\ ruleEnabled' = ruleEnabled \ {r} /\ UNCHANGED asked
    /\ UNCHANGED <<yamlVars, flagVars, ruleDeployed, serverVars, step, job, record,
                   strayed>>

\* main moves: a new service, a new core service, or a service that becomes a
\* core service, by update-from-upstream.yml on a stack that is down or by a push
\* at any time.  A run under way keeps its checkout: the model moves main between runs.
Update(s) ==
    /\ \A r \in Runs : Free(r)
    /\ \/ s \notin shipped /\ shipped' = shipped \union {s} /\ core' \in {core, core \union {s}}
       \/ s \in shipped \ core /\ core' = core \union {s} /\ UNCHANGED shipped
    /\ UNCHANGED <<flagVars, ruleVars, serverVars, step, job, historyVars>>

-----------------------------------------------------------------------------
(* Spin-up                                                                 *)

\* POST /api/spin-up reads the list; a failed query, and a dispatch from GitHub,
\* give the empty list.
StartSpinUp(r) ==
    /\ Free(r)
    /\ \E list \in {enabled, {}} :
          job' = [job EXCEPT ![r] = [list |-> list, ports |-> {}, kept |-> enabled,
                                    beside |-> FALSE]]
    /\ record' = IF (\A q \in Runs : Free(q)) /\ core \intersect rows \subseteq enabled
                 THEN [status |-> "due", but |-> {}] ELSE NoRecord
    /\ Goto(r, "config")
    /\ UNCHANGED <<yamlVars, flagVars, ruleVars, serverVars, asked, strayed>>

\* Mutant: a failed D1 query reads like "no services enabled".
ListOrEmpty(r, ofD1) == core \union job[r].list
\* The list the run works with: the given one, or else the one in D1, and the core
\* services.
ListOf(r, ofD1) == core \union IF job[r].list = {} THEN ofD1 ELSE job[r].list

\* config.tfvars: the list, and the rules as they are now.  A failed query ends
\* the run.
WriteConfig(r) ==
    /\ step[r] = "config"
    /\ \/ /\ job' = [job EXCEPT ![r] = [list |-> ListOf(r, enabled), ports |-> ruleEnabled,
                                     kept |-> @.kept, beside |-> ~Free("teardown")]]
          /\ Goto(r, "apply")
       \/ GiveUp(r)
    /\ UNCHANGED <<yamlVars, flagVars, ruleVars, serverVars, historyVars>>

Open(r) ==
    /\ open' = job[r].ports
    /\ strayed' = IF job[r].beside THEN job[r].ports ELSE {}

\* tofu apply: the server and its firewall, under the lock of the tofu state; a run
\* that does not get the lock fails.
Apply(r) ==
    /\ step[r] = "apply"
    /\ \/ up' = TRUE /\ Open(r) /\ Goto(r, "deploy") /\ UNCHANGED job
       \/ up' \in {up, TRUE} /\ (Open(r) \/ UNCHANGED <<open, strayed>>) /\ GiveUp(r)
    /\ UNCHANGED <<yamlVars, flagVars, ruleVars, live, record, asked>>

\* run_pipeline: stack-sync removes what is not in the list, compose-up starts
\* the rest.  A run that fails may have done a part of it; one whose server was
\* destroyed beside it fails.
Deploy(r) ==
    /\ step[r] = "deploy"
    /\ \/ /\ up /\ live' = job[r].list
          /\ Goto(r, "rows") /\ job' = [job EXCEPT ![r] = NoJob]
       \/ /\ GiveUp(r)
          /\ \E changed \in SUBSET ((live \ job[r].list) \union (job[r].list \ live)) :
                /\ up \/ changed = {}
                /\ live' = (live \ changed) \union (changed \intersect job[r].list)
    /\ UNCHANGED <<yamlVars, flagVars, ruleVars, up, open, historyVars>>

-----------------------------------------------------------------------------
(* sync-deployed-state.sh, in a spin-up and in setup-control-plane.yaml    *)

StartSetup ==
    /\ Free("setup")
    /\ Goto("setup", "rows")
    /\ record' = NoRecord
    /\ UNCHANGED <<yamlVars, flagVars, ruleVars, serverVars, job, asked, strayed>>

\* Mutant: the flags of core services are set even when the INSERT has failed.
SyncRowsFlagsFirst(r) ==
    /\ step[r] = "rows"
    /\ rows' \in {shipped, rows}
    /\ enabled' = enabled \union (core \ rows)
    /\ deployed' = deployed \union (core \ rows)
    /\ coreRow' = core \intersect rows'
    /\ Goto(r, "deployed")
    /\ UNCHANGED <<yamlVars, ruleVars, serverVars, job, historyVars>>

\* Mutant: a new row is enabled and deployed, core or not.
SyncRowsAllEnabled(r) ==
    /\ step[r] = "rows"
    /\ rows' = shipped
    /\ enabled' = enabled \union (shipped \ rows)
    /\ deployed' = deployed \union (shipped \ rows)
    /\ coreRow' = core
    /\ Goto(r, "deployed")
    /\ UNCHANGED <<yamlVars, ruleVars, serverVars, job, historyVars>>

\* Steps 1 and 2: INSERT OR IGNORE, a new row is enabled and deployed when it is
\* core; UPDATE of the core column.  Either batch may fail, with a warning.
SyncRows(r) ==
    /\ step[r] = "rows"
    /\ \E inserted \in {shipped, rows} :
          /\ rows' = inserted
          /\ enabled' = enabled \union (core \intersect (inserted \ rows))
          /\ deployed' = deployed \union (core \intersect (inserted \ rows))
    /\ coreRow' \in {core \intersect rows', coreRow \union (core \intersect (rows' \ rows))}
    /\ Goto(r, "deployed")
    /\ UNCHANGED <<yamlVars, ruleVars, serverVars, job, historyVars>>

\* Step 3: deployed = enabled.  Under set -e a failing query ends the script,
\* and with it the run.
SyncDeployed(r) ==
    /\ step[r] = "deployed"
    /\ \/ /\ deployed' = enabled
          /\ record' = IF record.status = "due" THEN [record EXCEPT !.status = "done"]
                                                ELSE record
          /\ Goto(r, "rules")
       \/ Goto(r, "idle") /\ UNCHANGED <<deployed, record>>
    /\ UNCHANGED <<yamlVars, rows, coreRow, enabled, ruleVars, serverVars, job, asked,
                   strayed>>

\* Step 4: the same for the firewall rules.
SyncRules(r) ==
    /\ step[r] = "rules"
    /\ \/ ruleDeployed' = ruleEnabled /\ Goto(r, "core")
       \/ Goto(r, "idle") /\ UNCHANGED ruleDeployed
    /\ UNCHANGED <<yamlVars, flagVars, ruleEnabled, serverVars, job, historyVars>>

\* Step 4.5: core = 1 implies enabled = 1; a failure is a warning.
EnforceCore(r) ==
    /\ step[r] = "core"
    /\ enabled' \in {enabled \union coreRow, enabled}
    /\ Goto(r, "idle")
    /\ UNCHANGED <<yamlVars, rows, coreRow, deployed, ruleVars, serverVars, job,
                   historyVars>>

-----------------------------------------------------------------------------
(* Teardown                                                                *)

\* In the concurrency group; the Worker dispatches it whatever spin-up is under way.
StartTeardown ==
    /\ Free("teardown")
    /\ Goto("teardown", "destroy")
    /\ job' = [r \in SpinUps |-> [job[r] EXCEPT !.beside = step[r] = "apply"]]
    /\ Disturbed
    /\ UNCHANGED <<yamlVars, flagVars, ruleVars, serverVars, asked, strayed>>

\* tofu destroy of the server and its firewall.  A run that fails here, or in its
\* snapshot before, has stopped or destroyed a part of it, and resets no rule.
Destroy ==
    /\ step["teardown"] = "destroy"
    /\ \/ up' = FALSE /\ live' = {} /\ open' = {} /\ Goto("teardown", "reset")
       \/ /\ Goto("teardown", "idle")
          /\ open' \in {open, {}}
          /\ \/ UNCHANGED <<up, live>>
             \/ up' = FALSE /\ live' = {}
    /\ record' = NoRecord
    /\ strayed' = IF open' = {} THEN {} ELSE strayed
    /\ UNCHANGED <<yamlVars, flagVars, ruleVars, job, asked>>

\* Mutant: only the deployed flags are reset.
ResetDeployedRules ==
    /\ step["teardown"] = "reset"
    /\ ruleDeployed' = {} /\ asked' = {}
    /\ Goto("teardown", "idle")
    /\ UNCHANGED <<yamlVars, flagVars, ruleEnabled, serverVars, job, record, strayed>>

\* The last step: all rules are disabled.  They stay when the query fails, which
\* makes the run red, and without a database name, which does not.
ResetRules ==
    /\ step["teardown"] = "reset"
    /\ \/ ruleEnabled' = {} /\ ruleDeployed' = {} /\ asked' = {}
       \/ UNCHANGED <<ruleVars, asked>>
    /\ Goto("teardown", "idle")
    /\ UNCHANGED <<yamlVars, flagVars, serverVars, job, record, strayed>>

-----------------------------------------------------------------------------
SpinUp(r) == StartSpinUp(r) \/ WriteConfig(r) \/ Apply(r) \/ Deploy(r)
Sync(r) == SyncRows(r) \/ SyncDeployed(r) \/ SyncRules(r) \/ EnforceCore(r)
Teardown == StartTeardown \/ Destroy \/ ResetRules

FlagsNext ==
    \/ \E s \in Services : ToggleService(s) \/ Update(s)
    \/ \E r \in Rules : ToggleRule(r)
    \/ \E r \in SpinUps : SpinUp(r)
    \/ Teardown \/ StartSetup
    \/ \E r \in SpinUps \union {"setup"} : Sync(r)

FlagsSpec == FlagsInit /\ [][FlagsNext]_allVars

-----------------------------------------------------------------------------
(* Properties                                                              *)

\* A port is open only if somebody enabled its rule after the rules were last
\* reset ("all ports closed for next Spin Up"), or a spin-up has opened it
\* that had read it when a teardown was under way beside it.
PortsAreAskedFor == open \subseteq asked \union strayed

\* The same without the exception: a spin-up opens a port from rules it has read
\* before the teardown beside it reset them.
OpenPortsAreAskedFor == open \subseteq asked

\* A spin-up takes down no running service that was enabled all the time since
\* it was dispatched, whatever list it was given, whichever query failed and
\* whatever runs beside it.
WantedServicesStay ==
    [][\A r \in SpinUps :
          step[r] = "deploy" /\ step'[r] # "deploy" =>
              job[r].kept \intersect live \subseteq live']_allVars

\* The deployed flags are "what is currently running" (schema.sql), of the services
\* that have a row at all and were not toggled meanwhile, once a spin-up that no
\* other run met has recorded them.
DeployedIsRunning ==
    record.status = "done" =>
        deployed \ record.but = (live \intersect rows) \ record.but
=============================================================================

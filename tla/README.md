# TLA+ models of Nexus-Stack

Nexus-Stack runs a data platform (about a hundred Docker Compose stacks) on one
Hetzner server that is torn down every night and built again on demand. What
makes that hard is not any single stack but the machinery around the server:
GitHub Actions workflows that build and destroy it, a Cloudflare R2 bucket and
Hetzner disk images that carry the data over the nights, and a Control Plane
(Cloudflare Pages, D1 and a cron Worker) that starts the workflows and shows what
is running. Inside a spin-up, an orchestrator brings some thirty phases over SSH and
HTTP to services whose data is older than the run. No part
holds a lock that all the others respect, every step may fail, and a wrong
order loses data. These modules model that machinery.

Paths below are relative to the repository.

## Inventory

| Part | State | Operations | What is hard |
|---|---|---|---|
| R2 persistence (`src/nexus_deploy/s3_persistence.py`, `s3_restore.py`, `pipeline.py`) | `snapshots/<ts>/` and `snapshots/latest.txt` in R2; trees and databases on the server | snapshot: dump, stop, upload, manifest, check, `latest.txt`; restore: trees before compose-up, databases after | failure at every step, repeated runs, a spin-up beside a teardown |
| Disk images (`hetzner_snapshot.py`) | images at Hetzner with an epoch label | power-off, create, list, resolve, prune | late completion, partial failure, images of other credentials |
| Lifecycle workflows (`.github/workflows/teardown*.yml`, `spin-up*.yml`) | OpenTofu state (server, credentials), one concurrency group | the steps of four workflows and their options | partial failure, a destroy that breaks off after any resource, repeated runs with other options, switched modes |
| Lifecycle mode (`control-plane/functions/api/lifecycle.js`, `workflow-selection.js`) | `config.lifecycle_mode` | switch, resolve | a switch between the halves of a pair |
| Scheduled teardown (`scheduled-teardown.js`, `worker/src/index.js`) | settings, delay and daily counter in D1 | POST and GET, two crons | handler and Worker interleave query by query; midnight; failing queries |
| Dispatch (`spin-up.js`, `teardown.js`, `status.js`, `dispatch-marker.js`, `StacksShared.astro`, `index.astro`) | markers in D1, latch and view of a tab, GitHub's list | click, POST, poll, latch, list | answers out of order, a list that lags, lost answers, markers that cannot be read |
| Desired state (`services.js`, `firewall.js`, `sync-deployed-state.sh`, `generate-services-tfvars.py`, `stack_sync.py`) | `services` and `firewall_rules` in D1, `services.yaml`, what runs | toggle, deploy, sync, reset | lists read early and used late, spin-ups and teardowns beside each other, two runs of the sync script, skipped steps |
| Deployment (`pipeline.py`, `orchestrator.py`, `setup.py`, `service_env.py`, `firewall.py`, `stack_sync.py`, `pg_preflight.py`, `compose_runner.py`) | checkout, folders, `.env` files, overrides, containers, data directories, certificate, ssh-agent | prepare, render, push, clean up, check, start | every remote step may fail or be half done; what an earlier run left decides the next one |
| Forgejo (`forgejo.py`, `seeder.py`, `forgejo_runner.py`, `workspace_coords.py`) | accounts, token, repositories, fork, seeded files, OAuth application | create-or-adopt calls, rotation, mirror and fork, seed | repeated runs over data that survives, with other passwords; lost answers; half-made objects |
| Secrets and Kestra (`infisical.py`, `secret_sync.py`, `kestra.py`, `compose_restart.py`) | Infisical, saved credentials, synced blocks in env files, what containers were started with, flows | bootstrap, push, sync, restart, register, pull, export | a bootstrap that works only once, files overwritten early and filled late, a token that is rotated while flows use it |
| Admin setup (`services.py`) | accounts and set-up state of 22 services | one hook per service, shell or Python | hooks repeated every night, two spin-ups at once, the replacement of the account in use |
| Preparation (`hetzner_capacity.py`, `r2_tokens.py`, `forgejo-service-token.sh`) | server types, tokens | select, rotate, preserve and adopt | retries, tokens that exist twice |
| Control Plane access (`access-jwt.js`, `require-*.js`) | key cache | verify | stale keys |
| Run progress (`run-progress.js`) | none | a function of a run's jobs | boundaries |
| Rendering and I/O (`tofu.py`, `tfvars.py`, `ssh.py`, `_remote.py`, mail and log endpoints, `stacks/`, `tofu/`) | files | text and transport | not a matter for a model |

How they interact: the Control Plane *dispatches* workflows through GitHub's API
and learns of them only by polling a list. A workflow reads D1 (services, rules,
mode) at its start and writes D1 (deployed flags, firewall reset) at its end. The
Worker reads the same D1 rows and the same list, without the markers. Teardown and
spin-up share R2, the images and the OpenTofu state. Within a spin-up the phases run one
after the other and hand values over in `OrchestratorState` (token, restart list, fork,
OAuth client); `failed` ends the run, `partial` lets it go on and makes the whole run
partial. All they find on the server is what earlier runs have left.

What makes each correct: nothing is destroyed that is not saved (persistence,
lifecycle); what is restored is complete, belongs to the credentials and is the
newest (persistence, images); a delay that was acknowledged is respected and a limit
is a limit (scheduled teardown); one click is one run and a run is visible
(dispatch); the flags say what runs and ports are open only on request (desired
state); a phase that reports ok has done what it says, and a run without a fault repairs
what a failed one left half done (deployment, Forgejo, secrets, admin setup).

## Modules

| Module | Models | Composes |
|---|---|---|
| `SafeTeardown` | abstract: a live and a saved copy; destroy only while they agree | |
| `S3Persistence` | R2 persistence under teardown.yml and spin-up.yml | implements `SafeTeardown` |
| `S3PersistenceProofs` | its theorems | |
| `Lifecycle` | both workflow pairs with images, credential epochs and the mode; the R2 snapshot is one step, which `S3Persistence` justifies for a teardown that no spin-up runs beside | workflows, images, mode |
| `LifecycleProofs` | its theorems | |
| `ScheduledTeardown` | settings, POST handler and Worker, query by query | handler, Worker, crons |
| `ScheduledTeardownProofs` | its theorems | |
| `Dispatch` | markers, status, latch, buttons, GitHub's list, the Worker's check | Control Plane, browser, Worker, GitHub |
| `DesiredState` | D1 flags, spin-ups, sync script, setup, teardown, any of them beside the others | Control Plane and three workflows |
| `ControlPlaneProofs` | the theorems of `Dispatch` and of `DesiredState`, whose definitions have names of their own for that (`FlagsInit`, `FlagsNext`, `FlagsSpec`, `FlagsTypeOK`, `allVars`) | both |
| `Deploy` | a spin-up from `run_pipeline` to `compose-up`, over several runs on one server | pipeline, setup scripts, orchestrator, compose runner, preflight |
| `DeployProofs` | its theorems | |
| `Forge` | Forgejo's phases over several spin-ups | orchestrator, Forgejo, Woodpecker, GitHub |
| `ForgeProofs` | its theorems | |
| `Secrets` | the way of a secret into a container, and the flows that need one | OpenTofu, Infisical, Forgejo's token, Kestra |
| `SecretsProofs` | its theorems | |
| `AdminHooks` | what the admin hooks share: state, forms of calls, the end of a hook | |
| `AdminHandover` | the hooks of Keycloak, Neo4j and Cassandra, which replace an administrator | extends `AdminHooks` |
| `AdminSetup` | the other hooks and the phase | extends `AdminHandover` |
| `AdminSetupProofs` | its theorems | |
| `MC*` | instances for TLC | |

`PROJECT.json` maps every definition to the lines it translates. The operators
marked `Mutant` next to a definition are plausible wrong versions of it; each
property of a passing run is violated when one of them takes the definition's place.

### S3Persistence

`tree` and `db` count the user writes that a file tree or a database holds; the
content itself does not matter, only which writes are in it. `bucket` has one
record per timestamp, with a copy per tree (or `Damaged`: an object lost or
corrupted on the way), a dump per database (or `NoDump`) and whether the manifest
is there. `tdPc` and `suPc` are the next step of the two runs, in the order of the
generated scripts. `TeardownFails` and `EndSpinUp` may end a run at any step and
undo nothing, as a failing bash script under `set -e` or a lost runner does.
`teardown.yml` has a concurrency group, `spin-up.yml` on its own has none
(`spin-up.yml:110-111`), and the Worker dispatches its teardown whatever spin-up is under
way. So the two interleave freely, step by step, and `overlapped` is history: a spin-up was
under way beside this teardown, be it for a part of the time. What the code keeps whatever
overlaps (what `latest.txt` names is sound and never written again; no server goes before this
very teardown has published) is stated of all behaviours. That the published copy is the one
on the disk is stated of the teardowns without a spin-up beside them, and
`S3PersistenceOverlap` shows that the others do lose data. `compose-up` may start any stack,
as which ones are enabled is a matter of `DesiredState`.

### Deploy

`local` is the checkout of the workflow, `remote` what is under
`/opt/docker-server/stacks`, `box` the container of each stack with the image, `.env` and
port it was created with and what it read from the host when it started. A number is a
generation: `version` of the release, the run that made a certificate or a key. A call is
answered, refused, or takes effect with its answer lost; a script of `setup.py` may stop
between any two of its commands. Between runs the operator toggles services and rules,
releases move, the certificate ages, the server is rebooted from its image or built anew.
`run.kept` says whether the checkout is a local one that survives (an operator's
machine) or fresh (a GitHub runner). `run.unsure` collects the databases the preflight
could not look at, `run.stuck` the overrides that could not be deleted in the checkout.
The parallel start of the leaves is one step; which of them die is a choice.

### Forge

One remote call per step, in the order of the phases. `forge` is the server; `account[n].pw`
and `epoch` are generations of passwords. `run` holds the fields of `OrchestratorState`
and what a phase keeps in local variables. `Raise` is a transport exception anywhere in a run.
`woodpecker` has two clients: that of its `.env` and that of its container. Every run begins
by emptying the first one, since `_render_woodpecker` renders an empty client
(`service_env.py:2446-2464`) and `stack-sync` pushes it over the server's
(`stack_sync.py:313-328`). The second one stays: `compose-up` leaves Woodpecker to a phase of
its own (`compose_runner.py:59`), and that phase is skipped without a new client
(`orchestrator.py:2090-2097`). So a rotation that breaks off keeps the login of the running
container and loses it with the next restart (`ForgeOldClient`). `run.jq` records whether the
seed script found `jq`; without it the script reports that nothing has failed
(`seeder.py:283-287`).
History in `run`: `login` (Woodpecker could log in when the run began), `seen` (the
mirror's commits then), `stale` (an admin with the student's mail and an old password).
The user name is the local part of the mail, so an unconfigured user falls back to the
admin's identity as the code does.

### Secrets

`file` is the synced block of each stack's env file, `live` the block its container was
started with: the difference is what `docker compose restart` does not re-read. Two folders
stand for all of them, one that is always pushed and one that depends on configured
fields. `kestra.mine` counts the edits of a student, `kestra.due` those that were made more
than ten minutes ago, `git.mine` those the repository has. A flow-sync over a repository
without the directory may or may not delete, and so the model chooses.

### AdminSetup

`svc[h]` is the set of things that have been set up in a service, `realm` Keycloak's
accounts with ids, since a token dies with the account it belongs to. Four forms of calls
cover the hooks: `Ask` (a read), `Write`, `Create` (refused if it exists) and the
hand-over's own. A hook's shell variables are fields of `run[r]`. Two runs interleave call
by call. `stuck` is what no run repairs, taken as the run begins; `Blind` are
the hooks whose report of success does not say that the service is set up. Both are sets
of services, listed below with their reason. The resets of Superset and HedgeDoc are in
`Blind` because their success is a `grep` for words like "reset" or "success" in the output and the
errors together (`services.py:989-996`, `1066-1074`), which a failed reset may contain too:
the model leaves the report of a failed one open. The hooks of a list run in its order,
the shell ones before the Python one, as `run_admin_setups` does; `run[r].todo` holds the
positions in it that are left.

### Lifecycle

`creds` is the credential epoch in the OpenTofu state (0: without the passwords), `outputs`
the one that the state's outputs show, which is all that a workflow reads; `disk.epoch`
is the one that the databases on the disk were created with. The untargeted destroy may break
off after any resource, as nothing orders the server, the passwords and the outputs among
themselves: it may leave the server without the passwords, or with passwords and no
outputs. A teardown that finds a server but no outputs refuses to go on ("dangerous partial
state", `pipeline.py:707-744`), but the next spin-up does not: it makes new passwords, and serves
databases of the old ones. An image is a disk with
the label it got and whether Hetzner has finished it. `job` is the run in progress
with its inputs and step outputs. One run at a time: the concurrency group of the
teardowns and of spin-up-snapshot.yml (the overlap of an unlocked spin-up is a
question for `S3Persistence`). Every option of the workflows may be chosen in every run.
`strayed` is history: it collects how the stack has left the use that the docs
describe (the mode switched while the stack was not up, a teardown that was not strict,
a forced fresh spin-up, a destroy that broke off between the passwords and the server), so that
a property that needs one of these not to have happened says so, and holds through
everything else. `LifecycleSwitch`, `LifecycleStale` and `LifecyclePartial` drop one condition
each. The Control Plane and the Worker dispatch `teardown-snapshot.yml` without
`strict_snapshot`, so what depends on strict teardowns is about runs dispatched from GitHub.

### ScheduledTeardown

One action per D1 query, because handler and Worker interleave between queries. The
counter is kept per UTC day. A failed read yields the default, as `getConfigValue` does.
`announced`, `promised` and `granted` are history: what the admin was last told.
`disturbed` is history too: whether a setting was stored while the Worker ran, and whether
one of the Worker's queries or calls failed. What the code promises only in calm
conditions is stated for undisturbed histories; the daily limit is stated for all.

### Dispatch

A tick is a stretch of time in which a visible tab polls several times. In the code `Skew` is
60 s, `Grace` 90 s and the TTL of the marker 15 min; the instance takes one, two and three
ticks. The theorems need `Skew <= Grace <= Ttl` only, which is all the code relies on. A run
is listed at most `Lag` after its creation. `Timeout` is the ten seconds of `fetchWithTimeout`,
between GitHub's acceptance of a POST and the marker, and
`Timeout <= Skew`: a slower answer would give the run a marker that hides it. Polls take
their answer at one moment and deliver it at a later one of the same tick. A dispatch that
GitHub accepted may lose its answer on the way (`Lose`: the tab believes that it failed
and releases its latch), its marker, or both. A poll may fail as a whole (`PollFails`); the page
then keeps what it shows while something is in progress or its latch holds, and offers the
buttons otherwise (`index.astro:389-407`, `StacksShared.astro:258-262`). And a poll may find D1
unreadable, which `dispatch-marker.js:92-95` answers as no markers. `MaxFaults` bounds the lost
answers, the lost markers and the readings that fail. A run may wait for its turn before it is
active; `status.js:208` does not count it then.
`answered` and `marked` of a run tell what got through, and `missed` that an answer left the
spin-up out, because of the markers or because it was waiting. `last` is the page's
`statusLast`: a click or an answer latches, and delivers the answer before once more, which drops
the latch at once if it knew of a dispatch (`LatchedTab`).

`AtMostOneSpinUp` excuses what no tab can see through: an answer that got lost; a spin-up
that an answer left out, since the tab takes the answer for the end of the run
(`DispatchMarkers` states it without this excuse); and, when there are runs of
another family, which make the tab drop its latch, a marker that cannot tell its run
from an earlier spin-up (`Marked`). It does not excuse a lost marker
alone: then only the tab's latch stands between the two spin-ups. Left out is a second click while
the POST before it is still open: the page disables both buttons at the click
(`index.astro:562`), and only an answer that drops the latch before the POST is through could
enable them again. The model has one request of a tab at a time.

### DesiredState

Sets instead of columns: `enabled` is the set of rows with `enabled = 1`. Any number of
spin-ups (`SpinUps`; two in the instance), a setup and a teardown may be under way together:
only the teardowns and `spin-up-snapshot.yml` are in the concurrency group, and the default mode
"rebuild" dispatches `spin-up.yml`, which is not (`workflow-selection.js:46`). What does exclude
runs from each other is the lock of the OpenTofu state, around `Apply` and `Destroy`; a run that
does not get it fails. `job[r]` is what a spin-up has read: the list of its dispatch and
the ports of its `config.tfvars`, both of which may be old when they are used. The endpoint
enforces no lock either, so a service may be toggled at any time.

`record`, `asked`, `strayed` and `kept` are history. `record` says whether the last sync recorded
what a spin-up deployed without any other run beside it, and which services were toggled since
(`but`); where two runs met, the deployed flags may be those of the other one, and nothing is
claimed. A teardown may skip the reset of the rules (its query fails, or it is given no database
name), and `asked` is emptied only when the rules are. `strayed` are the ports opened by a
spin-up that had read its rules when a teardown was under way beside it:
the one way in which a port is open that nobody asked for since the reset
(`DesiredStateOverlap`). `rows` may be smaller than `shipped`: an update brings services before a
sync gives them a row.

## Runs

Passing runs. The first five check for deadlock, and none is found; the models of a
spin-up end when the bounded number of runs is used up, so theirs say
`CHECK_DEADLOCK FALSE`.

| Run | Shows | Distinct states |
|---|---|---|
| `S3Persistence` | Two teardowns and any number of spin-ups, beside each other or not, that fail anywhere: the published snapshot is sound, no server goes before its own teardown has published, what a teardown alone destroys is saved, `SafeTeardown` is implemented | 7.1 M |
| `Lifecycle` | All options, switches, failures and destroys that break off: destroyed writes are in R2; without the recorded departures the credentials match, images are not older than R2, and a spin-up restores what was saved | 8.0 M |
| `ScheduledTeardown` | The daily limit holds under races, faults and midnight; without these, delays are respected, a disabled stack stays up and a countdown to a cron is kept | 6.2 M |
| `Dispatch` | One tab starts one spin-up, though polls fail and a marker gets lost, as long as it hears of the dispatch and no answer leaves it out; a marked dispatch is shown to everybody for whom the markers can be read | 2.7 M |
| `DesiredState` | Two spin-ups, a setup and a teardown beside each other, with every failure: ports are asked for, or opened beside a teardown; wanted services stay; the flags say what runs after a spin-up that no other run met | 2.5 M |
| `Deploy` | Two spin-ups, two changes between them, one fault: ok means running as asked; a run without a fault repairs; no port without its rule; no database on a foreign data directory | 5.2 M |
| `Forge` | Two spin-ups, one fault, new passwords, plain and mirror mode: ok means provisioned unless the server had no `jq`, a run without a fault repairs, a half rotation keeps the login of the running Woodpecker, every run ends | 0.50 M |
| `Secrets` | Two spin-ups, two faults, new secrets, edits: containers are started with what Infisical holds; without a fault no flow is lost | 1.6 M |
| `AdminSetup` | Each hook, and a list of three, in four runs, two of them at once, with three faults: nobody is locked out, reports are true but for the hooks in `Blind`, a run on its own repairs | 0.55 M |

Three runs are disagreements between the code and a statement of the repository. TLC
finds the counterexample; `PROJECT.json`, "findings", quotes the statement.

| Run | The code | The statement |
|---|---|---|
| `S3PersistenceRetry` | a repeated teardown skips the databases that its predecessor stopped | "Safe to proceed with `tofu destroy`" |
| `SecretsKept` | Kestra's block is erased by stack-sync of the same run before the sync finds Infisical down | "kept previous (outage gate)" |
| `AdminSetupAgain` | jq's `//` takes `false` for absent, so n8n is set up again every night and refuses | "idempotent via /rest/settings" |

### Further configurations

Twelve more configurations are kept beside the runs. TLC violates each of them
(`tlc -config X.cfg M`), and each is a disagreement of the same kind:

| Configuration, module | The code | The statement |
|---|---|---|
| `S3PersistenceEmptyRestore`, `MCS3Persistence` | a spin-up that fails before its restore leaves empty trees, which the next teardown publishes (`pipeline.py:379`) | "the loop now FAILS instead of corrupting" (`setup.py:477-478`) |
| `S3PersistenceOverlap`, `MCS3Persistence` | `spin-up.yml` takes no lock, and may start containers after the teardown's check | "destroy never runs against an unverified snapshot" (`teardown.yml:270-271`) |
| `LifecycleSwitch`, `MCLifecycle` | after a rebuild teardown the state is empty and no epoch is expected: an image of the old credentials is restored | "detects this via the credential epoch and falls back to a fresh build" (`teardown-snapshot.yml:32`) |
| `LifecyclePartial`, `MCLifecycle` | a destroy that breaks off (`teardown.yml:332`) after it removed the passwords leaves a server; the next spin-up keeps it under new passwords | "dangerous partial state", an error of the teardown (`pipeline.py:707-744`); no spin-up checks for it |
| `LifecycleStale`, `MCLifecycle` | when no new image was made the previous one is taken and the newer R2 snapshot skipped (`hetzner_snapshot.py:596`) | "the next spin-up will build fresh" (`teardown-snapshot.yml:441`) |
| `ScheduledTeardownRace`, `MCScheduledTeardown` | the Worker deletes a delay that was stored after it read the expired one (`worker/src/index.js:329`) | "Pushes the next teardown back by 4 hours" (`settings.md:46`) |
| `DispatchWorker`, `MCDispatch` | the state 'running' is not skipped, so the Worker's teardown is dispatched on top of a spin-up (`worker/src/index.js:475`) | "skip teardown for any non-deployed or unknown state" (`index.js:336`) |
| `DispatchMarkers`, `MCDispatch` | markers that cannot be read count as none (`dispatch-marker.js:92-95`), and a waiting run does not count: the buttons come back, and a second spin-up starts | "Either way it will keep the controls locked without our help" (`StacksShared.astro:166-168`) |
| `DesiredStateOverlap`, `MCDesiredState` | a spin-up opens a port from rules it read before the teardown beside it reset them | "all ports closed for next Spin Up" (`teardown.yml:380`) |
| `ForgeOldClient`, `MCForge` | every run empties Woodpecker's `.env` before the rotation (`service_env.py:2446-2464`) | "existing .env stays consistent" (`forgejo.py:1622-1624`) |
| `ForgeNoUser`, `MCForge` | without a user the identity falls back to the admin (`orchestrator.py:1471-1477`), whose creation as a user collides: every spin-up is partial | "cleanly skips user creation instead of colliding with admin" (`tfvars.py:184-188`) |
| `DeployRenewal`, `MCDeploy` | `docker compose up` recreates only changed containers (`compose_runner.py:326-339`), so a renewed certificate is not read | "every spin-up recreates the containers, so a renewal here is picked up" (`setup.py:569-572`) |

### Further disagreements

Met while modelling, visible in the code and in states of the models, but not stated as
runs of their own:

- A spin-up of a live stack restores the last snapshot over it (`pipeline.py`); the
  troubleshooting page recommends a spin-up to restart services.
- A rejected extension that straddles midnight rolls back the *new* day's counter, to its
  maximum (`scheduled-teardown.js`, the roll back computes the day again).
- A failing query of `teardown_enabled` reads like `true`, so a D1 error tears a disabled
  stack down; a failing query of the delay reads like no delay (`worker/src/index.js`).
- GET announces the end of a delay as the next teardown, though nothing fires then; and
  `teardown_time` moves the announced time but not the cron. Hence the condition of
  `CountdownIsKept`.
- The strict abort of `teardown-snapshot.yml` runs after the power-off and leaves the server
  off, against its message; `skip_destroy` powers the server on, but containers that the
  snapshot has stopped stay stopped.
- The server of a failed `force_fresh` run is kept by the next run, which then resolves an
  image and skips the R2 restore.
- A run younger than the clock skew is taken for the one just dispatched, and a pending
  dispatch that timed out hides a younger one of another family (`status.js`). So after a spin-up
  that ended within the skew, a repeated one is not shown until it is listed; if the Worker's
  teardown starts meanwhile, the tab drops its latch, and when that one has ended a third click
  starts a spin-up beside it. `Marked` of `AtMostOneSpinUp` excludes this.
- If GitHub took longer to answer than the skew, the marker would be newer than its own run by
  more than the skew, and `status.js` would hide the run. Only the timeout of
  `fetchWithTimeout` (10 s, of a skew of 60 s) prevents this; no comment relates the two.
- `setup-control-plane.yaml` runs the sync script without a deployment; a service promoted to
  core is deployed while its flag is copied as 0; a toggle during a run is recorded as deployed.
- A teardown without a database name skips the reset of the rules and ends green.
- Of two spin-ups at once the one with the older list may deploy last while the other's flags are
  recorded last: the flags then differ from what runs. `record` excuses runs that met another.
- `set -e` ends the sync script before the warning that calls the failure non-critical.

In a deployment (`Deploy`; `run.unsure`, `run.stuck` and the choice of parents exist for these):

- A failed `compose down` still removes the stack's folder (`stack_sync.py:235-255`): the
  containers go on running, no later run knows them, and later runs are ok.
- A virtual service enabled without its parent (`seaweedfs-filer` without `seaweedfs`) has no
  folder to start: partial on each spin-up. Its rule on port 8333 (`services.yaml:1084`) is
  always skipped, and a parent is started without its override (`compose_runner.py:314-323`).
- A stale override that cannot be deleted in the checkout is reported as partial only, and the
  port stays published, though the step is called safety-critical.
- A compose file that the preflight cannot read hides its database from it, with status ok.
- RedPanda's configuration and its override may be of two generations after a failed push.
- The pipeline ignores the result of `setup_wetty_ssh_agent`; `ssh-add -l` says of an agent
  without keys that it is none.

In Forgejo's phases (`Forge`):

- Without `jq` on the server nothing is seeded, and the phase is ok (`seeder.py:283-287`,
  `orchestrator.py:629-645`); `run.jq` marks these runs.
- That the repository is private, the user a writer, the database's password changed, and
  that an upstream merge worked, are results that the code ignores.
- If the first mirror cannot be forked and the second can, mirror-setup is ok while the
  services clone a fork that is not there (`forgejo.py:1945-2018`).
- The mail of an admin is corrected with the new password before that is set, so this
  repair takes two runs. "mirror synced" is also reported when the commit before could not be read.

On the way of the secrets (`Secrets`; `run.hidden` marks the first three):

- A folder listing that fails falls back to the root folder; the token counts as one key, the
  block is replaced by the token alone, and the phase is ok (`secret_sync.py:310-316`, `395-416`).
- A failed `docker compose up` after the file was written is not reported (`581-595`).
- A sync without a RESULT line is reported as "kept previous" for Kestra.
- `docker compose restart` does not read env files again.
- In plain mode kestra-register pulls the flows before the seed phase has made the
  repository: the first run is always partial, which `orchestrator.py:666-677` explains for mirror mode only.
- `kestra.py:582` says that at most ten minutes of edits are lost. After a failed sync of
  Kestra's secrets every export of that session fails, and the next pull deletes what was not exported.
- A run that is lost between Infisical's bootstrap and the saving of its credentials locks
  every later run out (`infisical.py:304-357`): hence the condition `run.creds`.

In the admin hooks (`AdminSetup`; the members of `Blind` and `Stuck`, and others):

- redpanda: once the user exists no run restarts the broker, on which the SASL
  configuration depends, and "configured" is reported; the check of the superuser looks for
  "set", which failures contain too (`services.py:892-897`).
- superset, hedgedoc: a failed reset whose output contains "reset", "changed" or "success" is
  "already-configured" with the old password (`services.py:989-996`, `1066-1074`).
- garage: a layout without a key is "already-configured". sftpgo: a 400 is "already-configured"
  without the user, and a first run without the Hetzner folder never links the user.
- metabase: a lost probe is "already-configured". windmill: the results of the user creations are
  ignored. lakekeeper: a lost listing skips the repair of the signing setting.
- filestash: a configuration that was written half is refused for ever, and a push
  overwrites an edit made in the UI since the pull.
- pg-ducklake: `psql -f` without ON_ERROR_STOP hides errors that the docstring calls failed.
- keycloak: the second probe of the permanent admin skips the check for a temporary one, and
  of two concurrent runs the loser may also fail in the middle of `kc_install`.

### Bounds, and why they are enough

- `MaxSnapshots` = 2: a published snapshot and a later run that may damage it.
- `MaxWrites` = 1: saved or not. An older and a newer value differ, and so do a disk that
  was never served and one that was.
- `MaxEpochs` = 2, `MaxImages` = 3: an old and a new generation; one image more than
  retention keeps. The constraint `AtMostTwoDepartures` ends a behaviour of `Lifecycle` at the third
  kind of departure, of four: each conditional property needs two of them not to have
  happened, and `DestroyedWritesAreInR2`, which is not conditional, is proved for all. Without it
  the run passes as well (19.7 M states).
- `Databases`, `Trees`: Forgejo has both kinds of data and is stopped, MLflow has only
  a database and is never stopped. More stacks add no other combination but the
  tree without a database, whose steps are those of Forgejo's tree.
- A day of five ticks, two days: one midnight, both crons, a delay that ends before,
  at and after a cron. `MaxExtensions` = 2 with two requests reaches the limit with
  both in flight. `MaxCounter` = 4 leaves room for both to overshoot.
- `MaxRuns` = 2, `MaxTime` = 4, `MaxFaults` = 1: a dispatched run and one more, of either family
  and of the Worker, past the grace period and the TTL, with one answer, marker or reading lost.
  Three runs are used where a question needs a previous run (`DispatchWorker`). One tab: the latch
  is per tab, and the code promises nothing across tabs. The constraint `UntilListed` ends a
  behaviour once both runs are there and listed: after that neither invariant can break, as one
  is about the start of a spin-up and the other about a run that is not listed. Without it the run
  passes as well (9.6 M states).
- `DesiredState`: a core service, one that an update brings, that users toggle and that may become
  core, one rule, and two spin-ups beside a setup and a teardown; every action treats services and rules pointwise.
- `Deploy`: one stack of each kind the code treats differently (named volume, bind mount, broker
  with two files, parent and virtual service, deferred, reading at start). Two runs: what one
  leaves and the next finds. One fault breaks a run anywhere; two edits between runs, so
  that a rule can go while its service stays, or a release move over a reboot.
- `Forge`: two mirrors (the first is forked, the others are not), two seed files (all,
  some, none), two runs, two password generations. With `MaxFaults` = 2 its safety
  properties hold as well, in 4.1 M states.
- `Secrets`: Kestra, which is synced first and into another file, and one notebook; two runs, two
  generations of secrets, two edits, two faults.
- `AdminSetup`: hooks touch nothing of each other's service, so each is run on its own, and the
  list of three shows that a hook's end does not leak into the next. Two runs at once are
  what the workflows admit; four runs, so that after both another one repairs; three faults,
  so that both runs and the interruption of one can go wrong.

### Fairness

Only `Forge` states fairness: weak fairness of the steps of a run, `WF_vars(Step)`. Every remote
call has a timeout, so a run never stays at a call; it is over when its steps are, whatever
they answer. No fairness is assumed of what other parties do: `Fetch` (Forgejo's own
synchronisation of a mirror), commits, changes of passwords and new runs may never happen.
`RunEnds` is therefore about the wait for a mirror's first synchronisation, which may
never show. The other models state safety only: a run may end at any point, and GitHub,
Hetzner and the services owe nothing.

## Proofs

TLAPS checks every theorem for all values of the constants that the named assumptions
admit; TLC evaluates these assumptions in the runs. Each invariant below was checked by TLC
on an instance before it was proved. `TypeOK` is a theorem of each component with proofs
(`TypeCorrect`, and `FlagsTyped` for `DesiredState`).

- `S3PersistenceProofs`. `TypeCorrect` from one lemma per step. `PublishedSound` and
  `PublishedFinal` need `BucketInv`: published timestamps are older than the run that
  is writing, and once the check has passed the prefix is sound. That holds for
  overlapping runs too. `DestroyedTreesSaved` and `TeardownSafe` need `TreeInv`: from the
  stop until the destroy nothing with a tree runs, and from the upload on the prefix
  holds each tree or `Damaged`, so the check can only pass on equality. Nothing is assumed of
  the workflows: a teardown beside which a spin-up ran is `overlapped`, and of it the theorems
  claim that its own snapshot is published, sound and whole, not that it equals the disk, which
  is false (`S3PersistenceOverlap`). `RunningDatabasesSaved`
  needs `DumpInv`, the same chain for the databases that ran at the beginning, whose
  version may only have grown since. `TeardownSafe` maps `PointLatest` to `Save`, `Destroy`
  to `Destroy`, the steps that change the trees or create a server to `Change`, all
  others to a stutter.
- `LifecycleProofs`. `DestroyedWritesSaved` from `SavedInv`: at every step of a teardown
  after the save, there is no server, or it is not served and its writes are in R2; and a
  teardown that saves nothing for want of outputs has no server. That holds for a
  destroy that breaks off anywhere. The other theorems from `LifecycleInv`,
  one part per matter. `CredsInv`: while the mode is followed and no destroy has taken the passwords from
  a server it left, no database is ever of other credentials than the state
  (`ServedCredentialsMatch`); a destroy that leaves the server and its passwords, or
  only loses the outputs, is no exception. `FreshInv`: with strict teardowns a stack that is down in the mode
  "snapshot" has the latest image, with all that R2 has (`StrictImageIsFresh`). `KeptInv`: in the
  documented use the disk of a server holds what R2 holds (`SpinUpRestores`). Each is conditional
  on `strayed`, as its property is; the parts hold together only, since a resolved image
  counts on all three.
- `ScheduledTeardownProofs`. `ExtensionLimit` from `LimitInv`: no day has granted more
  than its counter says, nor more than the limit. The roll back, which may write the
  counter of another day, sets it to the limit and so never below what was granted.
  `DelayHolds` and `DisabledHolds` from `ReadInv`: undisturbed, a Worker that goes on has
  read the settings as they still are. `CountdownHolds` from `CountInv`: before the announced
  time every teardown cron meets the delay, and from then on, once the cron has run, the
  stack is down. It needs the arithmetic of days (`ModUnique`, `NextOne`), for any length of
  the day.
- `ControlPlaneProofs`, on `DesiredState`, for any number of spin-ups beside each other, a setup
  and a teardown. `PortsAskedFor` from `PortsInv`: the enabled rules were asked for, and so
  were the ports that a spin-up holds and those that are open, unless a teardown was under way
  beside it since it read them; between the destruction of the server and the reset only such a
  spin-up opens a port. `WantedStay` from `KeptInv`: the list a spin-up deploys
  contains what was enabled at its dispatch and still is. `DeployedRuns` from `RecordInv`, which
  follows a spin-up while it is alone: first the list is what is enabled and core, then
  the server runs the list, then D1 has the rows of what runs, each but for the services
  toggled meanwhile.
- `ControlPlaneProofs`, on `Dispatch`. `TrackedShown` from `BaseInv`, for any number of tabs, failing polls and
  readings included: runs are in the order of their creation, a marker belongs to a run of its
  family and is at most `Timeout` younger. It assumes `Lag <= Grace`: GitHub lists a run within the 90 s
  that the code allows for. `OneSpinUp` from `TabInv(t)`, for one tab: as long as every earlier
  spin-up is acknowledged, no request is under way beside an open spin-up; and an open one is the
  last and is shown, or the latch is held, whatever the view and the answer in flight say.
  Its part `KnownInv` is about the answer that is delivered again by a click or by the
  POST's answer: where there are only spin-ups, it knows of a dispatch only while the tab shows one, or when
  its own run is listed, so the latch is not dropped too early. The latch is per tab, so the theorem is
  about one.
- `DeployProofs`. `DeployInv` has one part per phase: what it leaves behind for the phases that
  follow, as long as the run is clean or has reported nothing. `OkRunsAsAsked` and
  `CleanConverges` read off its end, `PortsHaveRules` combines `Opening` (the overrides in the
  checkout) with `Sweeping` (no others on the server after the removal of orphans, however
  it ends), `PreflightIsHeeded` is `Looking`.
- `ForgeProofs`. `ForgeInv`, one part per matter. `LoggingIn` follows the rotation: a run that
  goes on without a new client has deleted nothing, so the running container can still log in, though its
  `.env` is empty (`LoginKept`). The parts under `Fine` say what
  holds from a step on while nothing has been reported (`OkIsProvisioned`; of the seeded files on a
  server with `jq` only); `Looping`, `Heads`
  and `Repairing` follow a run without a fault around the loop over the mirrors (`CleanRepairs`).
  `RunsAdvance` is what `RunEnds` needs besides fairness: `StepsLeft`, the position of the phase
  plus seven for each mirror and one for each OAuth application still to come, is a number that
  every step of a run makes smaller, also a failed one, that nothing else changes while the run
  lasts, and that is zero exactly when it has ended.
- `SecretsProofs`. `SecretsInv`, one part per matter, for any list of notebook stacks. A run is
  `Trusted` when one of the two properties says that it delivers: it is clean, or ok and not
  `hidden`. Such a run has pushed every folder of this generation (`Pushed`), holds the valid
  token once it was rotated (`Token`), and has given the stacks whose turn has come their
  current block, in the file and, from the restart on, in the container (`Synced`; `Place` says
  whose turn is to come). The end of the run reads `CleanDelivers` and `OkDelivers` off that.
  The valid token needs `Minting`: tokens are numbered and at most one is minted in a run, so
  one that was stored in Infisical's root folder is stale after the next rotation, and hides the
  new one. `NoLoss` needs `Undisturbed` (while no call went wrong each run has its
  credentials, registers the flows and seeds the repository) and `Exported`: what is due is in
  git, unless Kestra's token is a stale one; it cannot clone then, and so cannot overwrite a
  student's flows with what it would pull.
- `AdminSetupProofs`. `SetupInv` for any number of overlapping runs. An account that has the
  administrator's role has the configured password (`Earned`); a run deletes one account only
  signed in as another one, resets or grants only what it has found (`ActsSafely`); and the
  token that signs in belongs to an account that exists, so a deletion leaves one that can
  administer (`AlwaysAdministered`). The hooks other than Keycloak's share one abstract step,
  `HookStep`: each is proved to be one, and the invariant is kept by those (`OkIsSetUp`, of the hooks
  outside `Blind`).
  `CleanSetsUp` needs `CleanInv` besides, about a run that is alone and without a fault, for
  any list of hooks, one that names a hook twice included. The services whose hooks have ended
  are `Settled`; the one under way is what its step takes it to be (`Due`, for Keycloak
  `KcDue`: it always acts with the token of an account that administers, of the old one while it
  installs the new one); those to come are `Sound`, that is, not in a state no hook repairs.
  Each hook is proved, step by step, to be an `Advance` (Keycloak's a `KcAdvance`) that goes
  on to such a step or ends with the service set up, and other runs idle; what happens outside
  a run (the seeding of Cassandra, a setting changed in Filestash) takes nothing of that away.

The attempts to prove have changed the models where these were wrong or silent:
`Dispatch` says what GitHub's answer may take and how a marker fails to tell two runs apart
(above), neither of which the earlier bounds reached; `Deploy` says that a parent of a virtual
service has no database and that RedPanda has no parent; `Forge` needs a first password
generation; `Lifecycle` needs that no disk is `None`; `AdminSetup` keeps positions, not
copies, of the hooks that are left.

Only TLC checks: `RunEnds`, since liveness and `ENABLED` are out of the prover's reach (its
other half, that no run goes round forever, is `RunsAdvance`); and the three violations, which
are counterexamples. `AtMostOneSpinUp` is proved for one tab, the hypothesis its theorem names.
`PublishedIsFinal` and `RunsAdvance` are proved and not part of a run.

## Not modelled

Text: templates, tfvars, the content of overrides and requests, mails and logs. Transport:
SSH, HTTP, timeouts as such (a call fails, or takes effect unanswered, or works). The feature
flag `NEXUS_S3_PERSISTENCE` switched off. The Control Plane's families `initialSetup`,
`setup` and `destroy`, which are treated like the two that are modelled, and destroy-all,
which destroys on purpose. Disk sizes and architectures of images. Time zones. Access
control. The command-line handlers of `__main__.py`, which parse arguments and call what
is modelled.

Not modelled although they have state: `forgejo-service-token.sh` (one token that is kept
over a destroy), `r2_tokens.py` (tokens at Cloudflare) and the key cache of `access-jwt.js`.
Not modelled because they are functions without state that unit tests cover:
`run-progress.js`, `hetzner_capacity.py`.

Between the four models of a spin-up nothing interleaves: the phases of one run are
sequential, and what crosses is small (the token between `Forge` and `Secrets`, the clone, the
restart list) and is a choice in the model that reads it. Two spin-ups at once are
modelled where the code speaks of them, in the admin hooks.

## Plan

Done: the persistence core, the lifecycle pairs, the scheduled teardown, dispatch and
desired state; the inside of a spin-up, `Deploy`, `Forge`, `Secrets` and `AdminSetup`; and
proofs of every safety property that a passing run checks. Left:

1. `forgejo-service-token.sh` around destroy and apply.
2. The extensions named under "Not modelled": the Control Plane's other families of runs, and
   the tokens of R2.

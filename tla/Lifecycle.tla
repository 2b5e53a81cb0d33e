----------------------------- MODULE Lifecycle -----------------------------
(***************************************************************************)
(* The two lifecycles of a stack, at the level of workflow steps.          *)
(*                                                                         *)
(*   rebuild    teardown.yml saves to R2 and destroys the whole state;     *)
(*              spin-up.yml builds from the base image and restores R2     *)
(*   snapshot   teardown-snapshot.yml saves to R2, takes a disk image and  *)
(*              destroys the server only; spin-up-snapshot.yml resolves an *)
(*              image and hands it to spin-up.yml, which then restores     *)
(*              nothing from R2                                            *)
(*                                                                         *)
(* config.lifecycle_mode selects the pair.  What ties the pairs together   *)
(* is the credential epoch: the passwords in the OpenTofu state, which the *)
(* untargeted destroy discards, and the ones the databases on a disk were  *)
(* created with.  A workflow learns about the state from its outputs only, *)
(* which a destroy that breaks off may have taken away already, or left.   *)
(* The inside of the R2 snapshot is S3Persistence's matter; *)
(* here it is one step that saves all or fails.                            *)
(***************************************************************************)
EXTENDS Naturals, FiniteSets

CONSTANTS
    MaxWrites,          \* bound on the writes to a disk
    MaxEpochs,          \* bound on the generations of credentials
    MaxImages,          \* bound on the images ever created
    None                \* no R2 snapshot; no image

ASSUME BoundAssumption ==
    MaxWrites \in Nat /\ MaxEpochs \in Nat /\ MaxImages \in Nat

VARIABLES
    server,     \* "absent", "on" or "off"
    disk,       \* its writes, and the epoch of the passwords in its databases
    serving,    \* the containers that the R2 snapshot stops are running
    creds,      \* the epoch in the OpenTofu state, 0 without the passwords
    lastEpoch,  \* the newest epoch ever generated
    outputs,    \* the epoch in the state's outputs, 0 while it has none
    r2,         \* the writes in the latest R2 snapshot
    images,     \* the stack's images at Hetzner
    created,    \* the number of the newest image ever created
    mode,       \* config.lifecycle_mode
    job,        \* the run in progress: its next step and its options
    strayed     \* how the operators left the documented use of the pairs

hostVars == <<server, disk, serving>>
stateVars == <<creds, lastEpoch, outputs>>
imageVars == <<images, created>>
vars == <<hostVars, stateVars, r2, imageVars, mode, job, strayed>>

Epochs == 0 .. MaxEpochs
Disks == [writes : 0 .. MaxWrites, epoch : Epochs]
BlankDisk == [writes |-> 0, epoch |-> 0]

\* The absence of an image is no disk.
ASSUME NoneAssumption == None \notin Disks

Images == [id : 1 .. MaxImages, disk : Disks, label : Epochs, available : BOOLEAN]
Steps == {"none", "save", "destroy all", "power off", "create image", "decide",
          "power on", "destroy server", "prune", "resolve", "apply", "deploy"}

\* skip, strict and fresh are the workflow inputs; ok is the output of the
\* image step, image and restore those of the resolve job.
Jobs == [step : Steps, kind : {"rebuild", "snapshot"},
         skip : BOOLEAN, strict : BOOLEAN, fresh : BOOLEAN, ok : BOOLEAN,
         image : Disks \union {None}, restore : BOOLEAN]
NoJob == [step |-> "none", kind |-> "rebuild",
          skip |-> FALSE, strict |-> FALSE, fresh |-> FALSE, ok |-> FALSE,
          image |-> None, restore |-> TRUE]
Idle == job.step = "none"

\* The documented use: the mode is switched while the stack is up, a teardown
\* with an image is strict, and a spin-up takes the image that there is.  And no
\* destroy breaks off with the passwords gone and the server still there.
Departures == {"switched while down", "not strict", "forced fresh",
               "destroy broke off"}

TypeOK ==
    /\ server \in {"absent", "on", "off"}
    /\ disk \in Disks
    /\ serving \in BOOLEAN
    /\ creds \in Epochs /\ lastEpoch \in Epochs /\ outputs \in Epochs
    /\ r2 \in (0 .. MaxWrites) \union {None}
    /\ images \subseteq Images /\ created \in 0 .. MaxImages
    /\ mode \in {"rebuild", "snapshot"}
    /\ job \in Jobs
    /\ strayed \subseteq Departures

Init ==
    /\ server = "absent" /\ disk = BlankDisk /\ serving = FALSE
    /\ creds = 0 /\ lastEpoch = 0 /\ outputs = 0
    /\ r2 = None
    /\ images = {} /\ created = 0
    /\ mode = "rebuild"
    /\ job = NoJob
    /\ strayed = {}

Continue(step) == job' = [job EXCEPT !.step = step]

-----------------------------------------------------------------------------
(* Users and operators                                                     *)

\* Somebody works with the stack.
Write ==
    /\ server = "on" /\ serving
    /\ disk.writes < MaxWrites
    /\ disk' = [disk EXCEPT !.writes = @ + 1]
    /\ UNCHANGED <<server, serving, stateVars, r2, imageVars, mode, job, strayed>>

Stray(departures) == strayed' = strayed \union departures

\* POST /api/lifecycle; nothing there looks at the server or at a run.
SwitchMode ==
    /\ mode' = IF mode = "rebuild" THEN "snapshot" ELSE "rebuild"
    /\ Stray(IF serving /\ Idle THEN {} ELSE {"switched while down"})
    /\ UNCHANGED <<hostVars, stateVars, r2, imageVars, job>>

\* An operator starts the server from the Hetzner console.
PowerOnByHand ==
    /\ server = "off" /\ Idle
    /\ server' = "on"
    /\ UNCHANGED <<disk, serving, stateVars, r2, imageVars, mode, job, strayed>>

-----------------------------------------------------------------------------
(* The teardowns.  Concurrency group "infrastructure": one run at a time.  *)

StartTeardown ==
    /\ Idle
    /\ \E skip \in BOOLEAN, strict \in BOOLEAN :
          /\ mode = "rebuild" => ~skip /\ ~strict
          /\ Stray(IF mode = "snapshot" /\ ~strict THEN {"not strict"} ELSE {})
          /\ job' = [NoJob EXCEPT !.step = "save", !.kind = mode,
                                  !.skip = skip, !.strict = strict]
    /\ UNCHANGED <<hostVars, stateVars, r2, imageVars, mode>>

\* Mutant: a teardown that goes on after a failed R2 snapshot.
SaveToR2OrGoOn ==
    /\ job.step = "save"
    /\ IF outputs # 0 /\ server = "on"
       THEN serving' = FALSE /\ r2' \in {r2, disk.writes}
       ELSE UNCHANGED <<serving, r2>>
    /\ Continue(IF job.kind = "rebuild" THEN "destroy all" ELSE "power off")
    /\ UNCHANGED <<server, disk, stateVars, imageVars, mode, strayed>>

\* run_snapshot: without an ssh_service_token in the outputs there is nothing to
\* save, unless the state has a server: this "dangerous partial state" is an
\* error.  With the token it saves over SSH, which only a running server answers;
\* the containers are stopped and stay so, whether the upload succeeds or not.
SaveToR2 ==
    /\ job.step = "save"
    /\ \/ /\ outputs = 0
          /\ IF server # "absent" THEN job' = NoJob
             ELSE Continue(IF job.kind = "rebuild" THEN "destroy all" ELSE "power off")
          /\ UNCHANGED <<serving, r2>>
       \/ /\ outputs # 0 /\ server = "on"
          /\ serving' = FALSE
          /\ \/ /\ r2' = disk.writes
                /\ Continue(IF job.kind = "rebuild" THEN "destroy all" ELSE "power off")
             \/ /\ r2' = r2
                /\ job' = NoJob
    /\ UNCHANGED <<server, disk, stateVars, imageVars, mode, strayed>>

\* The untargeted tofu destroy.  It may break off after any of its resources, as
\* nothing orders the server, the passwords and the outputs among themselves.
DestroyAll ==
    /\ job.step = "destroy all"
    /\ \/ server' = "absent" /\ disk' = BlankDisk /\ serving' = FALSE
       \/ UNCHANGED hostVars
    /\ creds' \in {0, creds} /\ outputs' \in {0, outputs}
    /\ Stray(IF creds' # creds /\ server' # "absent" THEN {"destroy broke off"}
             ELSE {})
    /\ job' = NoJob
    /\ UNCHANGED <<lastEpoch, r2, imageVars, mode>>

\* server-poweroff.  Without a server_id, or when the server does not report
\* "off", the step ends with ok=false.
PowerOff ==
    /\ job.step = "power off"
    /\ \/ /\ server # "absent"
          /\ server' = "off"
          /\ Continue("create image")
       \/ /\ server' \in IF server = "absent" THEN {"absent"} ELSE {server, "off"}
          /\ Continue("decide")
    /\ UNCHANGED <<disk, serving, stateVars, r2, imageVars, mode, strayed>>

\* snapshot-create: the image is labelled with the outputs' epoch.  A create that
\* fails or times out may leave an image that is still "creating".
AddImage(available) ==
    /\ created < MaxImages
    /\ created' = created + 1
    /\ images' = images \union {[id |-> created', disk |-> disk, label |-> outputs,
                                available |-> available]}

CreateImage ==
    /\ job.step = "create image"
    /\ \/ /\ AddImage(TRUE)
          /\ job' = [job EXCEPT !.step = "decide", !.ok = TRUE]
       \/ /\ AddImage(FALSE) \/ UNCHANGED imageVars
          /\ Continue("decide")
    /\ UNCHANGED <<hostVars, stateVars, r2, mode, strayed>>

\* Mutant: the abort step is skipped.
DecideWithoutStrict ==
    /\ job.step = "decide"
    /\ Continue(IF ~job.skip THEN "destroy server"
                ELSE IF server # "absent" THEN "power on" ELSE "prune")
    /\ UNCHANGED <<hostVars, stateVars, r2, imageVars, mode, strayed>>

\* strict_snapshot aborts without an image; skip_destroy powers the server on
\* again; otherwise the server is destroyed, with or without an image.
Decide ==
    /\ job.step = "decide"
    /\ IF ~job.ok /\ job.strict THEN job' = NoJob
       ELSE Continue(IF ~job.skip THEN "destroy server"
                     ELSE IF server # "absent" THEN "power on" ELSE "prune")
    /\ UNCHANGED <<hostVars, stateVars, r2, imageVars, mode, strayed>>

\* The poweron action starts the machine; Docker then starts the containers
\* that were not stopped by hand (restart: unless-stopped).
PowerOn ==
    /\ job.step = "power on"
    /\ \/ server' = "on" /\ Continue("prune")
       \/ server' = server /\ job' = NoJob
    /\ UNCHANGED <<disk, serving, stateVars, r2, imageVars, mode, strayed>>

\* tofu destroy -target=hcloud_server.main.
DestroyServer ==
    /\ job.step = "destroy server"
    /\ server' = "absent" /\ disk' = BlankDisk /\ serving' = FALSE
    /\ Continue("prune")
    /\ UNCHANGED <<stateVars, r2, imageVars, mode, strayed>>

\* snapshot-prune --keep 2: all available images but the newest two are deleted,
\* the newest first, up to the first delete that fails.
Available == {i \in images : i.available}
Prunable == {i \in Available : Cardinality({k \in Available : k.id > i.id}) >= 2}

Prune ==
    /\ job.step = "prune"
    /\ IF job.ok
       THEN \E kept \in SUBSET Prunable :
               /\ \A k \in kept, d \in Prunable \ kept : k.id < d.id
               /\ images' = images \ (Prunable \ kept)
       ELSE images' = images
    /\ job' = NoJob
    /\ UNCHANGED <<hostVars, stateVars, r2, created, mode, strayed>>

\* Hetzner finishes an image after the workflow stopped waiting for it.
ImageSettles ==
    \E i \in images \ Available :
        /\ images' = (images \ {i}) \union {[i EXCEPT !.available = TRUE]}
        /\ UNCHANGED <<hostVars, stateVars, r2, created, mode, job, strayed>>

-----------------------------------------------------------------------------
(* The spin-ups                                                            *)

StartSpinUp ==
    /\ Idle
    /\ \E fresh \in BOOLEAN :
          /\ fresh => mode = "snapshot"
          /\ Stray(IF fresh THEN {"forced fresh"} ELSE {})
          /\ job' = [NoJob EXCEPT !.kind = mode, !.fresh = fresh,
                        !.step = IF mode = "rebuild" THEN "apply" ELSE "resolve"]
    /\ UNCHANGED <<hostVars, stateVars, r2, imageVars, mode>>

\* resolve_latest: the newest available image, of the expected epoch if one is
\* expected.  Without outputs there is no epoch to expect.
UsableOfAnyEpoch == Available                                       \* mutant
Usable == {i \in Available : outputs = 0 \/ i.label = outputs}

Oldest(S) == CHOOSE i \in S : \A k \in S : i.id <= k.id           \* mutant
Newest(S) == CHOOSE i \in S : \A k \in S : k.id <= i.id

\* The resolve job: an image and no R2 restore, or no image and a restore.
ResolveImage ==
    /\ job.step = "resolve"
    /\ job' = IF job.fresh \/ Usable = {}
              THEN [job EXCEPT !.step = "apply"]
              ELSE [job EXCEPT !.step = "apply", !.restore = FALSE,
                               !.image = Newest(Usable).disk]
    /\ UNCHANGED <<hostVars, stateVars, r2, imageVars, mode, strayed>>

\* tofu apply: credentials if the state has none, a server if there is none
\* (main.tf ignores a changed image), the outputs.  It may fail at any of them.
Apply ==
    /\ job.step = "apply"
    /\ IF creds # 0 THEN UNCHANGED <<creds, lastEpoch>>
       ELSE /\ lastEpoch < MaxEpochs
            /\ lastEpoch' = lastEpoch + 1
            /\ creds' = lastEpoch'
    /\ \/ /\ server = "absent"
          /\ server' = "on"
          /\ disk' = IF job.image = None THEN BlankDisk ELSE job.image
       \/ UNCHANGED <<server, disk>>
    /\ \/ server' # "absent" /\ outputs' = creds' /\ Continue("deploy")
       \/ outputs' \in {outputs, creds'} /\ job' = NoJob
    /\ UNCHANGED <<serving, r2, imageVars, mode, strayed>>

\* run_pipeline on a server that answers: the R2 restore if it is on, and the
\* containers, whose empty databases are created with the state's passwords.
RestoredUnchecked == IF job.restore THEN r2 ELSE disk.writes          \* mutant
Restored == IF job.restore /\ r2 # None THEN r2 ELSE disk.writes

Deploy ==
    /\ job.step = "deploy"
    /\ server = "on"
    /\ disk' = [writes |-> Restored,
                epoch |-> IF disk.epoch = 0 THEN creds ELSE disk.epoch]
    /\ serving' = TRUE
    /\ job' = NoJob
    /\ UNCHANGED <<server, stateVars, r2, imageVars, mode, strayed>>

\* A run ends at any step, its runner lost or its step failed.
JobFails ==
    /\ ~Idle
    /\ job' = NoJob
    /\ UNCHANGED <<hostVars, stateVars, r2, imageVars, mode, strayed>>

-----------------------------------------------------------------------------
Teardown ==
    \/ StartTeardown \/ SaveToR2 \/ DestroyAll \/ PowerOff \/ CreateImage
    \/ Decide \/ PowerOn \/ DestroyServer \/ Prune

SpinUp == StartSpinUp \/ ResolveImage \/ Apply \/ Deploy

Next ==
    \/ Write \/ SwitchMode \/ PowerOnByHand
    \/ Teardown \/ SpinUp \/ JobFails \/ ImageSettles

Spec == Init /\ [][Next]_vars

-----------------------------------------------------------------------------
(* Properties                                                              *)

\* The expected epoch is compared ("falls back to a fresh build, so it is safe
\* rather than silent"): what a spin-up serves can authenticate, as its databases
\* were created with the passwords that are in the state.
CredentialsMatch == serving => disk.epoch = creds

\* The same as long as nobody switches the mode of a stack that is not up and no
\* destroy takes the passwords from a server that it leaves behind.
CredentialsMatchInUse ==
    strayed \intersect {"switched while down", "destroy broke off"} = {} =>
        CredentialsMatch

\* What such a destroy breaks, whatever the mode: the next spin-up generates new
\* passwords and keeps the server with the databases of the old ones.
CredentialsMatchUnlessSwitched ==
    "switched while down" \notin strayed => CredentialsMatch

\* What the switch breaks, whichever destroys succeed.
CredentialsMatchUnlessBroken ==
    "destroy broke off" \notin strayed => CredentialsMatch

\* No teardown destroys a disk whose writes are not in the latest R2 snapshot,
\* with or without a disk image, however the steps before it ended.
DestroyedWritesAreInR2 ==
    [][server # "absent" /\ server' = "absent" /\ disk.epoch # 0 =>
          r2 = disk.writes]_vars

TakesStaleImage ==
    /\ server = "absent" /\ server' = "on"
    /\ job.image # None /\ r2 # None /\ disk'.writes < r2

\* An image that a server is created from is no older than the latest R2
\* snapshot ("the snapshot's data is NEWER than the last R2 snapshot"): the reason
\* why a spin-up from an image skips the R2 restore.  Not asked of a mode that was
\* switched while the stack was not up.
ImageIsNewerThanR2 ==
    [][TakesStaleImage => "switched while down" \in strayed]_vars

\* The same with every teardown strict ("strict_snapshot"): nothing that R2 holds
\* is missing from the image, whichever runs fail.
StrictImageIsNewerThanR2 ==
    [][TakesStaleImage => strayed \intersect {"switched while down", "not strict"} # {}]_vars

\* In the documented use, a spin-up that completes leaves no less on the disk
\* than the latest teardown saved, whichever runs before it have failed.
SpinUpRestoresSaved ==
    [][strayed = {} /\ job.step = "deploy" /\ serving' /\ ~serving /\ r2 # None =>
          disk'.writes >= r2]_vars
=============================================================================

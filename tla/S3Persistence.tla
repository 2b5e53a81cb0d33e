--------------------------- MODULE S3Persistence ---------------------------
(***************************************************************************)
(* The rebuild pair's data path: what survives a teardown that destroys    *)
(* everything and a spin-up that builds a new server.                      *)
(*                                                                         *)
(* teardown.yml runs the snapshot script of s3_persistence.py on the       *)
(* server (dump the databases, stop the stacks, upload the file trees and  *)
(* the dumps, write the manifest, check every upload, point latest.txt)    *)
(* and then `tofu destroy`.  spin-up.yml runs `tofu apply` and the         *)
(* pipeline, which restores the file trees before compose-up and the       *)
(* databases after it.  Either run may fail at every step; a failed run    *)
(* leaves server and bucket as they are.                                   *)
(*                                                                         *)
(* Data is counted, not represented: the version of a tree or a database   *)
(* is the number of user writes it holds, 0 when it is empty.              *)
(***************************************************************************)
EXTENDS Naturals, FiniteSets

CONSTANTS
    Databases,      \* stacks with a PostgresDumpTarget
    Trees,          \* stacks with a RsyncTarget; exactly these are stopped
    MaxSnapshots,   \* bound on the teardown runs, each with its timestamp
    MaxWrites,      \* bound on the version of a tree or a database
    NoDump,         \* no dump of this database in this snapshot
    Damaged         \* an upload that differs from its source

Stacks == Databases \union Trees
Versions == 0 .. MaxWrites
Snapshotted == 1 .. MaxSnapshots

\* The ordinary use: a stack with both kinds of data, e.g. Forgejo, is in both
\* sets; Metabase is only in Trees, MLflow only in Databases.
ASSUME BoundAssumption ==
    MaxSnapshots \in Nat /\ MaxWrites \in Nat
ASSUME MarkerAssumption ==
    NoDump \notin Nat /\ Damaged \notin Nat /\ NoDump # Damaged

VARIABLES
    host,       \* "absent", "bare" (no rclone yet) or "ready"
    tree,       \* [Trees -> Versions]: the file trees on the server's SSD
    db,         \* [Databases -> Versions]: the databases on the server
    running,    \* the stacks whose containers run
    bucket,     \* snapshots/<ts>/ in R2, one record per timestamp
    latest,     \* snapshots/latest.txt, 0 while it does not exist
    clock,      \* the newest timestamp given out
    tdPc,       \* the teardown run's next step, "idle" when there is none
    staged,     \* its WORKDIR: the dumps it took
    begun,      \* its databases that ran when it began, with their version
    overlapped, \* a spin-up ran beside it, be it for a part of the time
    suPc        \* the spin-up run's next step, "idle" when there is none

serverVars == <<host, tree, db, running>>
bucketVars == <<bucket, latest, clock>>
tdVars == <<tdPc, staged, begun, overlapped>>
vars == <<serverVars, bucketVars, tdVars, suPc>>

Copies == Versions \union {Damaged}
Dumps == Versions \union {NoDump}

Prefix == [trees : [Trees -> Copies],
           dumps : [Databases -> Dumps \union {Damaged}],
           manifest : BOOLEAN]

NoDumps == [d \in Databases |-> NoDump]

EmptyPrefix == [trees |-> [s \in Trees |-> 0],
                dumps |-> NoDumps,
                manifest |-> FALSE]

TeardownSteps == {"idle", "dump", "stop", "trees", "dumps", "manifest",
                  "check", "point", "destroy"}
SpinUpSteps == {"idle", "apply", "rclone", "filesystem", "compose",
                "postgres", "finish"}

TypeOK ==
    /\ host \in {"absent", "bare", "ready"}
    /\ tree \in [Trees -> Versions]
    /\ db \in [Databases -> Versions]
    /\ running \subseteq Stacks
    /\ bucket \in [Snapshotted -> Prefix]
    /\ latest \in Snapshotted \union {0}
    /\ clock \in Snapshotted \union {0}
    /\ tdPc \in TeardownSteps
    /\ staged \in [Databases -> Dumps]
    /\ begun \in [Databases -> Dumps]
    /\ overlapped \in BOOLEAN
    /\ suPc \in SpinUpSteps

\* A stack that has its R2 buckets and its Control Plane, never spun up.
Init ==
    /\ host = "absent"
    /\ tree = [s \in Trees |-> 0]
    /\ db = [d \in Databases |-> 0]
    /\ running = {}
    /\ bucket = [t \in Snapshotted |-> EmptyPrefix]
    /\ latest = 0
    /\ clock = 0
    /\ tdPc = "idle"
    /\ staged = NoDumps
    /\ begun = NoDumps
    /\ overlapped = FALSE
    /\ suPc = "idle"

-----------------------------------------------------------------------------
(* Users                                                                   *)

\* A user works with a running stack: its tree, its database or both change.
Write(s) ==
    /\ s \in running
    /\ s \in Trees => tree[s] < MaxWrites
    /\ s \in Databases => db[s] < MaxWrites
    /\ tree' = [r \in Trees |-> IF r = s THEN tree[r] + 1 ELSE tree[r]]
    /\ db' = [d \in Databases |-> IF d = s THEN db[d] + 1 ELSE db[d]]
    /\ UNCHANGED <<host, running, bucketVars, tdVars, suPc>>

-----------------------------------------------------------------------------
(* teardown.yml: s3-snapshot, then tofu destroy                            *)

\* The run is over; the next one starts with an empty WORKDIR.
EndTeardown ==
    /\ tdPc' = "idle"
    /\ staged' = NoDumps
    /\ begun' = NoDumps
    /\ overlapped' = FALSE

\* Each run has a timestamp of its own.
NewTimestamp == clock + 1

\* run_snapshot's preflight: with no server in the state there is nothing to
\* snapshot and nothing to destroy, so only a teardown of a server is a run.
StartTeardown ==
    /\ tdPc = "idle"
    /\ host # "absent"
    /\ NewTimestamp \in Snapshotted
    /\ clock' = NewTimestamp
    /\ tdPc' = "dump"
    /\ staged' = NoDumps
    /\ begun' = [d \in Databases |-> IF d \in running THEN db[d] ELSE NoDump]
    /\ overlapped' = (suPc # "idle")
    /\ UNCHANGED <<serverVars, bucket, latest, suPc>>

\* Mutant: the order of the first design, stop the stacks and then dump.
DumpStoppedDatabases ==
    /\ tdPc = "dump"
    /\ staged' = [d \in Databases |-> IF d \in running \ Trees THEN db[d] ELSE NoDump]
    /\ tdPc' = "stop"
    /\ UNCHANGED <<serverVars, bucketVars, begun, overlapped, suPc>>

\* pg_dump of every target whose container runs; the others are skipped.
DumpDatabases ==
    /\ tdPc = "dump"
    /\ staged' = [d \in Databases |-> IF d \in running THEN db[d] ELSE NoDump]
    /\ tdPc' = "stop"
    /\ UNCHANGED <<serverVars, bucketVars, begun, overlapped, suPc>>

\* Mutant: the trees are uploaded from under running containers.
StopNothing ==
    /\ tdPc = "stop"
    /\ tdPc' = "trees"
    /\ UNCHANGED <<serverVars, bucketVars, staged, begun, overlapped, suPc>>

\* docker compose stop of every stack with a tree, its database included.
StopStacks ==
    /\ tdPc = "stop"
    /\ running' = running \ Trees
    /\ tdPc' = "trees"
    /\ UNCHANGED <<host, tree, db, bucketVars, staged, begun, overlapped, suPc>>

\* rclone sync of every tree; an object may be lost or damaged on the way.
UploadTrees ==
    /\ tdPc = "trees"
    /\ \E sound \in SUBSET Trees :
          bucket' = [bucket EXCEPT ![clock].trees =
                       [s \in Trees |-> IF s \in sound THEN tree[s] ELSE Damaged]]
    /\ tdPc' = "dumps"
    /\ UNCHANGED <<serverVars, latest, clock, staged, begun, overlapped, suPc>>

\* rclone sync of WORKDIR/postgres: the first step that always needs rclone.
UploadDumps ==
    /\ tdPc = "dumps"
    /\ host = "ready"
    /\ \E sound \in SUBSET Databases :
          bucket' = [bucket EXCEPT ![clock].dumps =
                       [d \in Databases |-> IF \/ d \in sound
                                               \/ staged[d] = NoDump
                                            THEN staged[d] ELSE Damaged]]
    /\ tdPc' = "manifest"
    /\ UNCHANGED <<serverVars, latest, clock, staged, begun, overlapped, suPc>>

\* Mutant: latest.txt is written with the manifest, before the check.
WriteManifestAndPoint ==
    /\ tdPc = "manifest"
    /\ bucket' = [bucket EXCEPT ![clock].manifest = TRUE]
    /\ latest' = clock
    /\ tdPc' = "check"
    /\ UNCHANGED <<serverVars, clock, staged, begun, overlapped, suPc>>

\* manifest.json, copied to the prefix.
WriteManifest ==
    /\ tdPc = "manifest"
    /\ bucket' = [bucket EXCEPT ![clock].manifest = TRUE]
    /\ tdPc' = "check"
    /\ UNCHANGED <<serverVars, latest, clock, staged, begun, overlapped, suPc>>

\* Mutant: only WORKDIR is checked, as a check without the trees would.
WorkdirMatches ==
    /\ bucket[clock].manifest
    /\ \A d \in Databases :
          staged[d] # NoDump => bucket[clock].dumps[d] = staged[d]

\* rclone check --one-way: WORKDIR (manifest and dumps) and every tree against
\* the prefix they were uploaded to.
UploadsMatch ==
    /\ bucket[clock].manifest
    /\ \A d \in Databases :
          staged[d] # NoDump => bucket[clock].dumps[d] = staged[d]
    /\ \A s \in Trees : bucket[clock].trees[s] = tree[s]

CheckUploads ==
    /\ tdPc = "check"
    /\ UploadsMatch
    /\ tdPc' = "point"
    /\ UNCHANGED <<serverVars, bucketVars, staged, begun, overlapped, suPc>>

PointLatest ==
    /\ tdPc = "point"
    /\ latest' = clock
    /\ tdPc' = "destroy"
    /\ UNCHANGED <<serverVars, bucket, clock, staged, begun, overlapped, suPc>>

\* The untargeted tofu destroy; the server's SSD goes with it.
Destroy ==
    /\ tdPc = "destroy"
    /\ host' = "absent"
    /\ tree' = [s \in Trees |-> 0]
    /\ db' = [d \in Databases |-> 0]
    /\ running' = {}
    /\ EndTeardown
    /\ UNCHANGED <<bucketVars, suPc>>

\* Any step fails (a check that finds a difference is one way), times out or
\* loses its runner: the job ends there, and nothing undoes its earlier steps.
TeardownFails ==
    /\ tdPc # "idle"
    /\ EndTeardown
    /\ UNCHANGED <<serverVars, bucketVars, suPc>>

-----------------------------------------------------------------------------
(* spin-up.yml: tofu apply, then run_pipeline                              *)

\* spin-up.yml is in no concurrency group, so it may start while a teardown runs,
\* and the Worker may start a teardown while it runs.
StartSpinUp ==
    /\ suPc = "idle"
    /\ suPc' = "apply"
    /\ overlapped' = (tdPc # "idle")
    /\ UNCHANGED <<serverVars, bucketVars, tdPc, staged, begun>>

\* tofu apply creates the server if there is none, and leaves a live one alone.
Apply ==
    /\ suPc = "apply"
    /\ host' = IF host = "absent" THEN "bare" ELSE host
    /\ suPc' = "rclone"
    /\ UNCHANGED <<tree, db, running, bucketVars, tdVars>>

EnsureRclone ==
    /\ suPc = "rclone"
    /\ host # "absent"
    /\ host' = "ready"
    /\ suPc' = "filesystem"
    /\ UNCHANGED <<tree, db, running, bucketVars, tdVars>>

\* rclone sync of the latest snapshot's trees onto the SSD.  With no latest.txt
\* the run starts fresh.  A sync that fails half way ends the run.
RestoreFilesystem ==
    /\ suPc = "filesystem"
    /\ host = "ready"
    /\ \/ /\ latest = 0
          /\ suPc' = "compose"
          /\ UNCHANGED tree
       \/ /\ latest # 0
          /\ \A s \in Trees : bucket[latest].trees[s] # Damaged
          /\ \E done \in SUBSET Trees :
                /\ tree' = [s \in Trees |-> IF s \in done
                                            THEN bucket[latest].trees[s]
                                            ELSE tree[s]]
                /\ suPc' = IF done = Trees THEN "compose" ELSE "idle"
    /\ UNCHANGED <<host, db, running, bucketVars, tdVars>>

\* stack-sync takes the stacks that are not enabled down, compose-up starts the
\* others; a stack that does not come up fails only itself.  Users may have
\* switched any stack since the last spin-up (DesiredState), so any may run.
ComposeUp ==
    /\ suPc = "compose"
    /\ host = "ready"
    /\ running' \in SUBSET Stacks
    /\ suPc' = "postgres"
    /\ UNCHANGED <<host, tree, db, bucketVars, tdVars>>

\* The databases to restore: those whose container runs and that have a dump.
DueWithoutDump == Databases \intersect running                 \* mutant
Due == {d \in Databases \intersect running : bucket[latest].dumps[d] # NoDump}

\* DROP, CREATE and pg_restore one database after the other; the script ends
\* at the first one that fails, which has been dropped by then.
RestorePostgres ==
    /\ suPc = "postgres"
    /\ host = "ready"
    /\ \/ /\ latest = 0
          /\ suPc' = "finish"
          /\ UNCHANGED db
       \/ /\ latest # 0
          /\ \A d \in Due : bucket[latest].dumps[d] # Damaged
          /\ \E done \in SUBSET Due : \E dropped \in SUBSET (Due \ done) :
                /\ Cardinality(dropped) <= 1
                /\ db' = [d \in Databases |->
                            IF d \in done THEN bucket[latest].dumps[d]
                            ELSE IF d \in dropped THEN 0 ELSE db[d]]
                /\ suPc' = IF done = Due THEN "finish" ELSE "idle"
    /\ UNCHANGED <<host, tree, running, bucketVars, tdVars>>

\* The run ends, after its last step or with the step that fails.
EndSpinUp ==
    /\ suPc # "idle"
    /\ suPc' = "idle"
    /\ UNCHANGED <<serverVars, bucketVars, tdVars>>

-----------------------------------------------------------------------------
Teardown ==
    \/ StartTeardown \/ DumpDatabases \/ StopStacks \/ UploadTrees
    \/ UploadDumps \/ WriteManifest \/ CheckUploads \/ PointLatest
    \/ Destroy \/ TeardownFails

SpinUp ==
    \/ StartSpinUp \/ Apply \/ EnsureRclone \/ RestoreFilesystem
    \/ ComposeUp \/ RestorePostgres \/ EndSpinUp

Next ==
    \/ \E s \in Stacks : Write(s)
    \/ Teardown
    \/ SpinUp

Spec == Init /\ [][Next]_vars

-----------------------------------------------------------------------------
(* Properties                                                              *)

Sound(t) ==
    /\ bucket[t].manifest
    /\ \A s \in Trees : bucket[t].trees[s] # Damaged
    /\ \A d \in Databases : bucket[t].dumps[d] # Damaged

\* latest.txt never names a snapshot that is incomplete or damaged: whatever
\* failed in whichever run, a restore reads a manifest and sound copies.
PublishedIsSound == latest # 0 => Sound(latest)

\* A snapshot that latest.txt names is never written again: a later teardown,
\* finished or not, works under a timestamp of its own.
PublishedIsFinal ==
    [][\A t \in Snapshotted : latest = t => bucket'[t] = bucket[t]]_vars

ServerDestroyed == host # "absent" /\ host' = "absent"

\* The server is destroyed only after this very teardown has published its
\* snapshot; and unless a spin-up ran beside it, that snapshot holds exactly the
\* file trees that are on the disk at that moment.
DestroyedTreesAreSaved ==
    [][ServerDestroyed =>
          /\ latest # 0 /\ latest = clock
          /\ ~overlapped => bucket[latest].trees = tree]_vars

\* A database that ran when the teardown began is in the latest snapshot when
\* its server is destroyed, with at least the writes it had at the beginning,
\* unless a spin-up ran beside the teardown.
RunningDatabasesAreSaved ==
    [][ServerDestroyed /\ ~overlapped =>
          \A d \in Databases : begun[d] # NoDump =>
              /\ latest # 0
              /\ bucket[latest].dumps[d] \in Nat
              /\ bucket[latest].dumps[d] >= begun[d]]_vars

\* Implementation of SafeTeardown: the trees on the server are the live copy,
\* the trees of the latest snapshot the saved one; {} is a copy that is not there.
Abstract == INSTANCE SafeTeardown WITH
    Contents <- {{f} : f \in [Trees -> Versions]},
    Gone <- {},
    Nothing <- {},
    live <- IF host = "absent" THEN {} ELSE {tree},
    saved <- IF latest = 0 THEN {} ELSE {bucket[latest].trees},
    disturbed <- overlapped

\* Every teardown saves whole trees in one step, and those it finds on the disk
\* when it runs alone; it then destroys the server only while the saved copy is
\* the live one, whatever steps of the two runs fail.
TeardownIsSafe == Abstract!Spec

\* What the snapshot promises its caller ("Safe to proceed with tofu destroy"):
\* no database that holds data is missing from the latest snapshot when the
\* server is destroyed by a teardown that runs alone.
DestroyedDatabasesAreSaved ==
    [][ServerDestroyed /\ ~overlapped =>
          \A d \in Databases :
              db[d] > 0 => latest # 0 /\ bucket[latest].dumps[d] # NoDump]_vars

\* What the restore's exit code 2 is for: a spin-up that could not read R2 does
\* not end in a teardown that publishes a snapshot with less than the last one.
PublishedTreesDoNotShrink ==
    [][latest # 0 /\ latest' # latest /\ ~overlapped =>
          \A s \in Trees :
              bucket[latest'].trees[s] >= bucket[latest].trees[s]]_vars

\* What a teardown beside a spin-up does not keep: the trees that are on the
\* disk when the server goes are those of the latest snapshot.
NothingIsLostBesideSpinUp ==
    [][ServerDestroyed => bucket[latest].trees = tree]_vars
=============================================================================

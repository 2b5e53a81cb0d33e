-------------------------- MODULE LifecycleProofs --------------------------
(***************************************************************************)
(* The proofs about Lifecycle, for every bound, with runs that fail at any *)
(* step: no teardown loses data, for any options and any mode switch; and, *)
(* while the mode is only switched on a stack that is up, a spin-up finds  *)
(* its data again, and its passwords unless a destroy took them from a     *)
(* server that it left behind.                                             *)
(***************************************************************************)
EXTENDS Lifecycle, FiniteSetTheorems, WellFoundedInduction, TLAPS

\* The steps of a teardown that come after its R2 snapshot.
AfterSave == {"destroy all", "power off", "create image", "decide", "power on",
              "destroy server", "prune"}

\* From the R2 snapshot to the end of the teardown its containers stay stopped,
\* so that what was saved is what is on the disk, powered on or off; a teardown
\* that skips the snapshot because there is no token has no server either.
SavedInv ==
    /\ "step" \in DOMAIN job
    /\ job.step = "power on" => server # "absent"
    /\ job.step \in AfterSave =>
          server = "absent" \/ (~serving /\ r2 = disk.writes)

\* What is known of a run that goes on with step s, and of no run.
LEMMA Continued ==
    ASSUME "step" \in DOMAIN job, NEW s
    PROVE  "step" \in DOMAIN [job EXCEPT !.step = s] /\ [job EXCEPT !.step = s].step = s
OBVIOUS

\* NoJob is a record with the step "none".
LEMMA NoRun == "step" \in DOMAIN NoJob /\ NoJob.step = "none"
BY DEF NoJob

\* There is no server and no run at first.
LEMMA SavedInit == Init => SavedInv
BY DEF Init, SavedInv, NoJob, AfterSave

\* The steps of a spin-up: none of them continues a teardown.
LEMMA SpinUpKeepsSaved ==
    ASSUME SavedInv, SpinUp
    PROVE  SavedInv'
<1> USE DEF SavedInv, AfterSave, hostVars, stateVars, imageVars, Continue
<1>1. CASE StartSpinUp
  <2> PICK fresh \in BOOLEAN :
          job' = [NoJob EXCEPT !.kind = mode, !.fresh = fresh,
                    !.step = IF mode = "rebuild" THEN "apply" ELSE "resolve"]
    BY <1>1 DEF StartSpinUp
  <2>1. "step" \in DOMAIN job' /\ job'.step \in {"apply", "resolve"}
    BY DEF NoJob
  <2> QED  BY <1>1, <2>1 DEF StartSpinUp
<1>2. CASE ResolveImage
  <2>1. "step" \in DOMAIN job' /\ job'.step = "apply"
    BY <1>2 DEF ResolveImage
  <2> QED  BY <1>2, <2>1 DEF ResolveImage
<1>3. CASE Apply
  <2>1. job' = [job EXCEPT !.step = "deploy"] \/ job' = NoJob
    BY <1>3 DEF Apply
  <2>2. "step" \in DOMAIN job' /\ job'.step \in {"deploy", "none"}
    BY <2>1, Continued, NoRun
  <2> QED  BY <2>2
<1>4. CASE Deploy
  BY <1>4, NoRun DEF Deploy
<1> QED  BY <1>1, <1>2, <1>3, <1>4 DEF SpinUp

\* The steps of a teardown: the snapshot establishes what the others rely on.
LEMMA TeardownKeepsSaved ==
    ASSUME SavedInv, Teardown
    PROVE  SavedInv'
<1> USE DEF SavedInv, AfterSave, hostVars, stateVars, imageVars, Continue
<1>1. CASE StartTeardown
  <2> PICK skip \in BOOLEAN, strict \in BOOLEAN :
          job' = [NoJob EXCEPT !.step = "save", !.kind = mode,
                               !.skip = skip, !.strict = strict]
    BY <1>1 DEF StartTeardown
  <2>1. "step" \in DOMAIN job' /\ job'.step = "save"
    BY DEF NoJob
  <2> QED  BY <1>1, <2>1 DEF StartTeardown
<1>2. CASE SaveToR2
  <2>1. CASE outputs = 0
    <3>1. server' = server
      BY <1>2, <2>1 DEF SaveToR2
    <3>2. \/ job' = NoJob
          \/ server = "absent" /\ job' = [job EXCEPT !.step = "destroy all"]
          \/ server = "absent" /\ job' = [job EXCEPT !.step = "power off"]
      BY <1>2, <2>1 DEF SaveToR2
    <3>3. /\ "step" \in DOMAIN job' /\ job'.step # "power on"
          /\ job'.step # "none" => server = "absent"
      BY <3>2, Continued, NoRun
    <3> QED  BY <3>1, <3>3
  <2>2. CASE outputs # 0
    <3>1. UNCHANGED <<server, disk>> /\ serving' = FALSE
      BY <1>2, <2>2 DEF SaveToR2
    <3>2. r2' = disk.writes \/ job' = NoJob
      BY <1>2, <2>2 DEF SaveToR2
    <3>3. \/ job' = NoJob
          \/ job' = [job EXCEPT !.step = "destroy all"]
          \/ job' = [job EXCEPT !.step = "power off"]
      BY <1>2, <2>2 DEF SaveToR2
    <3>4. /\ "step" \in DOMAIN job'
          /\ job'.step \in {"none", "destroy all", "power off"}
      BY <3>3, Continued, NoRun
    <3>5. job'.step \in AfterSave => r2' = disk.writes
      BY <3>2, NoRun
    <3> QED  BY <3>1, <3>4, <3>5
  <2> QED  BY <2>1, <2>2
<1>3. CASE DestroyAll
  BY <1>3, NoRun DEF DestroyAll
<1>4. CASE PowerOff
  <2>1. job' = [job EXCEPT !.step = "create image"] \/ job' = [job EXCEPT !.step = "decide"]
    BY <1>4 DEF PowerOff
  <2>2. "step" \in DOMAIN job' /\ job.step \in AfterSave
    BY <1>4, <2>1, Continued DEF PowerOff
  <2>3. server = "absent" <=> server' = "absent"
    BY <1>4 DEF PowerOff
  <2> QED  BY <1>4, <2>2, <2>3 DEF PowerOff
<1>5. CASE CreateImage
  <2>1. job.step \in AfterSave
    BY <1>5 DEF CreateImage
  <2>2. "step" \in DOMAIN job'
    <3>1. CASE job' = [job EXCEPT !.step = "decide"]
      BY <3>1
    <3>2. CASE job' = [job EXCEPT !.step = "decide", !.ok = TRUE]
      BY <3>2
    <3> QED  BY <1>5, <3>1, <3>2 DEF CreateImage
  <2> QED  BY <1>5, <2>1, <2>2 DEF CreateImage
<1>6. CASE Decide
  <2>1. "step" \in DOMAIN job' /\ job.step \in AfterSave
    BY <1>6, Continued, NoRun DEF Decide
  <2>2. job'.step = "power on" => server # "absent"
    <3>1. CASE job' = NoJob
      BY <3>1, NoRun
    <3>2. CASE job' = [job EXCEPT !.step = IF ~job.skip THEN "destroy server"
                                           ELSE IF server # "absent" THEN "power on"
                                           ELSE "prune"]
      BY <3>2, Continued
    <3> QED  BY <1>6, <3>1, <3>2 DEF Decide
  <2> QED  BY <1>6, <2>1, <2>2 DEF Decide
<1>7. CASE PowerOn
  <2>1. "step" \in DOMAIN job' /\ job.step \in AfterSave
    BY <1>7, Continued, NoRun DEF PowerOn
  <2>2. job'.step # "power on" /\ server # "absent"
    BY <1>7, Continued, NoRun DEF PowerOn
  <2>3. UNCHANGED <<disk, serving, r2>>
    BY <1>7 DEF PowerOn
  <2>4. ~serving /\ r2 = disk.writes
    BY <2>1, <2>2
  <2> QED  BY <2>1, <2>2, <2>3, <2>4
<1>8. CASE DestroyServer
  <2>1. "step" \in DOMAIN job' /\ job'.step = "prune"
    BY <1>8, Continued, NoRun DEF DestroyServer
  <2> QED  BY <1>8, <2>1 DEF DestroyServer
<1>9. CASE Prune
  BY <1>9, NoRun DEF Prune
<1> QED  BY <1>1, <1>2, <1>3, <1>4, <1>5, <1>6, <1>7, <1>8, <1>9 DEF Teardown

\* Every step keeps SavedInv.
LEMMA SavedStep == SavedInv /\ [Next]_vars => SavedInv'
<1> SUFFICES ASSUME SavedInv, [Next]_vars
             PROVE  SavedInv'
  OBVIOUS
<1>1. CASE Write \/ SwitchMode \/ PowerOnByHand \/ JobFails \/ ImageSettles \/ UNCHANGED vars
  <2> USE DEF SavedInv, AfterSave, hostVars, stateVars, imageVars, Idle
  <2>1. CASE Write
    BY <2>1 DEF Write
  <2>2. CASE SwitchMode
    BY <2>2 DEF SwitchMode
  <2>3. CASE PowerOnByHand
    BY <2>3 DEF PowerOnByHand
  <2>4. CASE JobFails
    BY <2>4, NoRun DEF JobFails
  <2>5. CASE ImageSettles
    <3>1. UNCHANGED <<server, disk, serving, r2, job>>
      BY <2>5 DEF ImageSettles
    <3> QED  BY <3>1
  <2>6. CASE UNCHANGED vars
    <3>1. /\ server' = server /\ disk' = disk /\ serving' = serving
          /\ r2' = r2 /\ job' = job
      BY <2>6 DEF vars
    <3> QED  BY <3>1
  <2> QED  BY <1>1, <2>1, <2>2, <2>3, <2>4, <2>5, <2>6
<1>2. CASE SpinUp
  BY <1>2, SpinUpKeepsSaved
<1>3. CASE Teardown
  BY <1>3, TeardownKeepsSaved
<1> QED  BY <1>1, <1>2, <1>3 DEF Next

\* The server disappears in the two destroy steps and in no other.
LEMMA DestroyedAfterSave ==
    SavedInv /\ [Next]_vars =>
        (server # "absent" /\ server' = "absent" /\ disk.epoch # 0 => r2 = disk.writes)
<1> SUFFICES ASSUME SavedInv, [Next]_vars, server # "absent", server' = "absent"
             PROVE  r2 = disk.writes
  OBVIOUS
<1> USE DEF hostVars
<1>1. CASE DestroyAll \/ DestroyServer
  BY <1>1 DEF DestroyAll, DestroyServer, SavedInv, AfterSave
<1>2. CASE StartTeardown \/ SaveToR2 \/ PowerOff \/ CreateImage \/ Decide \/ PowerOn \/ Prune
  BY <1>2 DEF StartTeardown, SaveToR2, PowerOff, CreateImage, Decide, PowerOn, Prune
<1>3. CASE SpinUp
  BY <1>3 DEF SpinUp, StartSpinUp, ResolveImage, Apply, Deploy
<1>4. CASE Write \/ SwitchMode \/ PowerOnByHand \/ JobFails \/ ImageSettles \/ UNCHANGED vars
  BY <1>4 DEF Write, SwitchMode, PowerOnByHand, JobFails, ImageSettles, vars
<1> QED  BY <1>1, <1>2, <1>3, <1>4 DEF Next, Teardown

\* Neither teardown destroys a disk with writes that the latest R2 snapshot does
\* not hold: not after a failed disk image, not with skip_destroy, not after
\* runs that ended half way (teardown.yml, teardown-snapshot.yml).
THEOREM DestroyedWritesSaved == Spec => DestroyedWritesAreInR2
<1>1. SavedInv /\ [Next]_vars =>
        [server # "absent" /\ server' = "absent" /\ disk.epoch # 0 =>
            r2 = disk.writes]_vars
  BY DestroyedAfterSave
<1> QED  BY <1>1, SavedInit, SavedStep, PTL DEF Spec, DestroyedWritesAreInR2

-----------------------------------------------------------------------------
\* What decides whether a spin-up finds its data and its passwords again: the
\* options of the run, the images that are left, the credential epochs.

\* Nobody has switched the mode of a stack that is not up.
Followed == "switched while down" \notin strayed
\* No destroy has taken the passwords from a server that it left behind.
Unbroken == "destroy broke off" \notin strayed
\* Every teardown that takes an image has been strict, too.
Strict == Followed /\ "not strict" \notin strayed

\* The steps of the teardown that takes an image.
WithImage == {"power off", "create image", "decide", "power on", "destroy server",
              "prune"}

\* The steps of a run are those of its workflow and of the mode it was started
\* in; the server is off while its image is taken; an image is handed to a run
\* by its resolve job only, and only such a run skips the R2 restore.
JobInv ==
    /\ server = "absent" => ~serving
    /\ job.step \in WithImage \cup {"resolve"} => job.kind = "snapshot"
    /\ job.step = "destroy all" => job.kind = "rebuild"
    /\ job.step = "create image" => server = "off"
    /\ job.image # None => job.step \in {"apply", "deploy"}
    /\ ~job.restore => job.kind = "snapshot"
    /\ job.ok => job.step \in {"decide", "power on", "destroy server", "prune"}
    /\ Followed /\ ~Idle => job.kind = mode

\* Unless a teardown was not strict, one with an image has the option, so that
\* it only destroys the server after its image is there.
OptionInv ==
    /\ "not strict" \notin strayed =>
          /\ job.kind = "snapshot" /\ job.step \in WithImage \cup {"save"} => job.strict
          /\ job.step = "destroy server" => job.ok
    /\ "forced fresh" \notin strayed => ~job.fresh

\* The newest image is available, has the epoch of the outputs, and holds what
\* the latest R2 snapshot holds.
HasLatest ==
    \E k \in Available : k.id = created /\ k.label = outputs /\ r2 = k.disk.writes
\* An image has a number of its own ...
Unique == \A i, k \in images : i.id = k.id => i = k
\* ... up to that of the newest one ...
Counted == \A i \in images : i.id <= created
\* ... and the label says with which passwords the databases on it were
\* created.
Labelled == \A i \in images : i.disk.epoch \in {0, i.label}

\* A teardown that has its image (ok = true) has the latest one.
ImageInv == Unique /\ Counted /\ (job.ok => HasLatest)

\* A stack that serves has its passwords in the state, and outputs that show
\* them; so it is left alone by the mode "snapshot", as only the untargeted
\* destroy discards them.
StateInv ==
    /\ serving \/ job.step = "deploy" => creds # 0 /\ outputs = creds
    /\ Followed /\ mode = "snapshot" => creds # 0 /\ outputs = creds

\* As long as the mode is followed and no destroy breaks off with the server
\* left: every database, on the disk, in an image, or in the image of a run, was
\* created with the passwords of its epoch.
CredsInv == Followed /\ Unbroken =>
    /\ server # "absent" => disk.epoch \in {0, creds}
    /\ serving => disk.epoch = creds
    /\ Labelled
    /\ job.image # None => job.image.epoch \in {0, creds}

\* With every teardown strict, a stack that is down in the mode "snapshot" has
\* the latest image, and a run that has resolved one has this one.
FreshInv == Strict =>
    /\ server = "absent" /\ mode = "snapshot" => HasLatest
    /\ server = "absent" /\ job.image # None => r2 = job.image.writes

\* In the documented use the disk of a server holds what R2 holds, unless the
\* server is one of the mode "rebuild" that is not restored yet; and a spin-up
\* in the mode "snapshot" without a server has an image.
KeptInv == strayed = {} =>
    /\ server # "absent" /\ (serving \/ mode = "snapshot") =>
          r2 = None \/ disk.writes >= r2
    /\ job.step = "apply" /\ job.kind = "snapshot" /\ server = "absent" =>
          job.image # None

\* What is proved of the lifecycles ...
LifecycleInv ==
    TypeOK /\ JobInv /\ OptionInv /\ ImageInv /\ StateInv /\ CredsInv /\ FreshInv
    /\ KeptInv
\* ... together with what is known of the saved data.
Inv == LifecycleInv /\ SavedInv

\* What the steps use of the types.
Typed ==
    /\ TypeOK
    /\ server \in {"absent", "on", "off"} /\ serving \in BOOLEAN
    /\ disk \in Disks /\ disk.writes \in Nat /\ disk.writes \in 0 .. MaxWrites
    /\ disk.epoch \in Epochs
    /\ r2 \in (0 .. MaxWrites) \cup {None} /\ (r2 = None \/ r2 \in Nat)
    /\ job \in Jobs /\ job.step \in Steps /\ job.kind \in {"rebuild", "snapshot"}
    /\ mode \in {"rebuild", "snapshot"}
\* What the steps use of SavedInv.
Saved ==
    /\ job.step = "power on" => server # "absent"
    /\ job.step \in AfterSave => server = "absent" \/ (~serving /\ r2 = disk.writes)

\* A step that leaves the run alone.
SameJob == /\ job' = job
           /\ job'.step = job.step /\ job'.kind = job.kind /\ job'.skip = job.skip
           /\ job'.strict = job.strict
           /\ job'.fresh = job.fresh /\ job'.ok = job.ok /\ job'.image = job.image
           /\ job'.restore = job.restore
\* A run that goes on with step s.
GoesOn(s) ==
    /\ job' \in Jobs /\ job'.step = s /\ job'.kind = job.kind
    /\ job'.skip = job.skip /\ job'.strict = job.strict
    /\ job'.fresh = job.fresh /\ job'.ok = job.ok /\ job'.image = job.image
    /\ job'.restore = job.restore
\* A run that has ended.
Ended ==
    /\ job' \in Jobs /\ job'.step = "none" /\ ~job'.ok /\ ~job'.fresh
    /\ job'.image = None /\ job'.restore
\* A step that leaves the images alone.
SameSet ==
    /\ images' = images /\ created' = created
    /\ (Unique' <=> Unique) /\ (Counted' <=> Counted) /\ (Labelled' <=> Labelled)
\* A step that leaves them the latest ones, too.
SameImages == SameSet /\ (HasLatest' <=> HasLatest)
\* A step that departs from the documented use.
Strays(departure) ==
    /\ departure \in strayed'
    /\ strayed \subseteq strayed' /\ strayed' \subseteq strayed \cup Departures

\* Only the step of a run changes when it goes on.
LEMMA Continues ==
    ASSUME NEW s \in Steps, job \in Jobs, Continue(s)
    PROVE  GoesOn(s)
BY DEF Continue, GoesOn, Jobs

\* The types, and what SavedInv says, field by field.
LEMMA InvTyped == Inv => Typed /\ Saved
<1> SUFFICES ASSUME Inv PROVE Typed /\ Saved
  OBVIOUS
<1>1. TypeOK /\ SavedInv
  BY DEF Inv, LifecycleInv
<1>2. disk \in [writes : 0 .. MaxWrites, epoch : Epochs]
  BY <1>1 DEF TypeOK, Disks
<1>3. disk.writes \in 0 .. MaxWrites /\ disk.epoch \in Epochs
  BY <1>2
<1>4. disk.writes \in Nat
  BY <1>3, BoundAssumption
<1>5. job.step \in Steps /\ job.kind \in {"rebuild", "snapshot"}
  BY <1>1 DEF TypeOK, Jobs
<1>6. r2 \in (0 .. MaxWrites) \cup {None} /\ (r2 = None \/ r2 \in Nat)
  BY <1>1, BoundAssumption DEF TypeOK
<1>7. Saved
  BY <1>1 DEF SavedInv, Saved
<1>8. QED
  BY <1>1, <1>2, <1>3, <1>4, <1>5, <1>7, <1>6 DEF Typed, TypeOK

\* The numbers of images are positive.
LEMMA ImageIds == \A i \in Images : i.id \in 1 .. MaxImages /\ i.id \in Nat
BY BoundAssumption DEF Images

\* The disk of a new server is one.
LEMMA BlankTyped ==
    /\ BlankDisk \in Disks /\ BlankDisk.writes = 0 /\ BlankDisk.epoch = 0
    /\ 0 \in Epochs /\ 0 \in 0 .. MaxWrites /\ 0 \in 0 .. MaxImages
BY BoundAssumption DEF BlankDisk, Disks, Epochs

\* So is the run that there is not.
LEMMA NoJobTyped == NoJob \in Jobs
BY DEF NoJob, Jobs, Steps

\* A run that ends leaves nothing behind.
LEMMA Ends == job' = NoJob => Ended
BY NoJobTyped DEF NoJob, Ended

\* The set of images is all that these parts look at.
LEMMA ImagesKept == UNCHANGED imageVars => SameSet
BY DEF imageVars, SameSet, Unique, Counted, Labelled

\* HasLatest also looks at the outputs and at the R2 snapshot.
LEMMA ImagesStay == UNCHANGED <<imageVars, outputs, r2>> => SameImages
BY ImagesKept DEF imageVars, SameImages, HasLatest, Available

\* Nothing is there at first.
LEMMA InitLifecycle == Init => LifecycleInv
<1> SUFFICES ASSUME Init PROVE LifecycleInv
  OBVIOUS
<1>1. TypeOK
  BY NoJobTyped, BlankTyped DEF Init, TypeOK
<1>2. /\ job = NoJob /\ job.step = "none" /\ ~job.ok /\ ~job.fresh
      /\ job.image = None /\ job.restore
  BY DEF Init, NoJob
<1>3. Unique /\ Counted /\ Labelled
  BY DEF Init, Unique, Counted, Labelled
<1>4. QED
  BY <1>1, <1>2, <1>3
     DEF Init, LifecycleInv, JobInv, OptionInv, ImageInv, StateInv, CredsInv,
         FreshInv, KeptInv, Followed, Unbroken, Strict, Idle, WithImage

USE DEF Followed, Unbroken, Strict, Idle, WithImage, AfterSave, Typed, Saved,
        JobInv, OptionInv, ImageInv, StateInv, CredsInv, FreshInv, KeptInv,
        GoesOn, Ended, SameImages, SameSet, SameJob, Strays

\* A write happens on a server that is up: it can only be ahead of R2.
LEMMA WriteKeeps == Inv /\ Write => LifecycleInv'
<1> SUFFICES ASSUME Inv, Write PROVE LifecycleInv'
  OBVIOUS
<1>1. Typed /\ Saved
  BY InvTyped
<1>2. server = "on" /\ serving /\ disk.writes < MaxWrites
  BY DEF Write
<1>3. disk' \in Disks /\ disk'.writes = disk.writes + 1 /\ disk'.epoch = disk.epoch
  <2>1. disk' = [disk EXCEPT !.writes = @ + 1]
    BY DEF Write
  <2>2. disk.writes + 1 \in 0 .. MaxWrites
    <3>1. disk.writes \in Nat /\ MaxWrites \in Nat /\ disk.writes < MaxWrites
      BY <1>1, <1>2, BoundAssumption
    <3>2. QED
      BY ONLY <3>1
  <2>3. QED
    BY <1>1, <2>1, <2>2 DEF Disks
<1>4. SameImages /\ SameJob
  BY ImagesStay DEF Write, stateVars, imageVars
<1>5. /\ server' = server /\ serving' = serving /\ creds' = creds
      /\ lastEpoch' = lastEpoch /\ outputs' = outputs
      /\ r2' = r2 /\ mode' = mode /\ strayed' = strayed
  BY DEF Write, stateVars
<1>6. TypeOK'
  BY <1>1, <1>3, <1>4, <1>5 DEF TypeOK
<1>7. r2 = None \/ disk.writes >= r2 => r2' = None \/ disk'.writes >= r2'
  <2>1. disk.writes \in Nat /\ (r2 # None => r2 \in Nat)
    BY <1>1
  <2>2. QED
    BY <2>1, <1>3, <1>5
<1> QED
  BY <1>1, <1>2, <1>3, <1>4, <1>5, <1>6, <1>7 DEF Inv, LifecycleInv

\* A switch is a departure unless the stack is up, and then none of what the
\* mode decides is asked of it.
LEMMA SwitchModeKeeps == Inv /\ SwitchMode => LifecycleInv'
<1> SUFFICES ASSUME Inv, SwitchMode PROVE LifecycleInv'
  OBVIOUS
<1>1. Typed /\ Saved
  BY InvTyped
<1>2. mode' \in {"rebuild", "snapshot"}
  BY DEF SwitchMode
<1>3. \/ serving /\ Idle /\ strayed' = strayed
      \/ Strays("switched while down")
  BY DEF SwitchMode, Stray, Strays, Departures
<1>4. SameImages /\ SameJob
  BY ImagesStay DEF SwitchMode, stateVars, imageVars
<1>5. /\ server' = server /\ serving' = serving /\ disk' = disk /\ creds' = creds
      /\ lastEpoch' = lastEpoch /\ outputs' = outputs /\ r2' = r2
  BY DEF SwitchMode, stateVars, hostVars
<1>6. TypeOK'
  BY <1>1, <1>2, <1>3, <1>4, <1>5 DEF TypeOK
<1> QED
  BY <1>1, <1>2, <1>3, <1>4, <1>5, <1>6 DEF Inv, LifecycleInv

\* The server was there before it is powered on.
LEMMA PowerOnByHandKeeps == Inv /\ PowerOnByHand => LifecycleInv'
<1> SUFFICES ASSUME Inv, PowerOnByHand PROVE LifecycleInv'
  OBVIOUS
<1>1. Typed /\ Saved
  BY InvTyped
<1>2. server = "off" /\ Idle /\ server' = "on"
  BY DEF PowerOnByHand
<1>3. SameImages /\ SameJob
  BY ImagesStay DEF PowerOnByHand, stateVars, imageVars
<1>4. /\ disk' = disk /\ serving' = serving /\ creds' = creds
      /\ lastEpoch' = lastEpoch /\ outputs' = outputs
      /\ r2' = r2 /\ mode' = mode /\ strayed' = strayed
  BY DEF PowerOnByHand, stateVars
<1>5. TypeOK'
  BY <1>1, <1>2, <1>3, <1>4 DEF TypeOK
<1> QED
  BY <1>1, <1>2, <1>3, <1>4, <1>5 DEF Inv, LifecycleInv

\* Whatever a run has done, its options and its image go with it.
LEMMA JobFailsKeeps == Inv /\ JobFails => LifecycleInv'
<1> SUFFICES ASSUME Inv, JobFails PROVE LifecycleInv'
  OBVIOUS
<1>1. Typed /\ Saved
  BY InvTyped
<1>2. Ended
  BY Ends DEF JobFails
<1>3. SameImages
  BY ImagesStay DEF JobFails, stateVars, imageVars
<1>4. /\ server' = server /\ disk' = disk /\ serving' = serving /\ creds' = creds
      /\ lastEpoch' = lastEpoch /\ outputs' = outputs
      /\ r2' = r2 /\ mode' = mode /\ strayed' = strayed
  BY DEF JobFails, stateVars, hostVars
<1>5. TypeOK'
  BY <1>1, <1>2, <1>3, <1>4 DEF TypeOK
<1> QED
  BY <1>1, <1>2, <1>3, <1>4, <1>5 DEF Inv, LifecycleInv

\* A teardown starts with its options; without strict it is a departure.
LEMMA StartTeardownKeeps == Inv /\ StartTeardown => LifecycleInv'
<1> SUFFICES ASSUME Inv, StartTeardown PROVE LifecycleInv'
  OBVIOUS
<1>1. Typed /\ Saved
  BY InvTyped
<1>2. PICK skip \in BOOLEAN : \E strict \in BOOLEAN :
          /\ mode = "rebuild" => ~skip /\ ~strict
          /\ Stray(IF mode = "snapshot" /\ ~strict THEN {"not strict"} ELSE {})
          /\ job' = [NoJob EXCEPT !.step = "save", !.kind = mode,
                                  !.skip = skip, !.strict = strict]
  BY DEF StartTeardown
<1>3. PICK strict \in BOOLEAN :
          /\ Stray(IF mode = "snapshot" /\ ~strict THEN {"not strict"} ELSE {})
          /\ job' = [NoJob EXCEPT !.step = "save", !.kind = mode,
                                  !.skip = skip, !.strict = strict]
  BY <1>2
<1>4. /\ job' \in Jobs /\ job'.step = "save" /\ job'.kind = mode
      /\ job'.strict = strict /\ ~job'.ok /\ ~job'.fresh
      /\ job'.image = None /\ job'.restore
  BY <1>1, <1>3, NoJobTyped DEF Jobs, NoJob, Steps
<1>5. \/ strayed' = strayed /\ (mode = "snapshot" => strict)
      \/ Strays("not strict")
  BY <1>3 DEF Stray, Strays, Departures
<1>6. SameImages
  BY ImagesStay DEF StartTeardown, stateVars, imageVars
<1>7. /\ server' = server /\ disk' = disk /\ serving' = serving /\ creds' = creds
      /\ lastEpoch' = lastEpoch /\ outputs' = outputs /\ r2' = r2 /\ mode' = mode
  BY DEF StartTeardown, stateVars, hostVars
<1>8. TypeOK'
  BY <1>1, <1>4, <1>5, <1>6, <1>7 DEF TypeOK
<1> QED
  BY <1>1, <1>4, <1>5, <1>6, <1>7, <1>8 DEF Inv, LifecycleInv

\* The snapshot makes R2 hold what the disk holds; it only runs with a server.
LEMMA SaveToR2Keeps == Inv /\ SaveToR2 => LifecycleInv'
<1> SUFFICES ASSUME Inv, SaveToR2 PROVE LifecycleInv'
  OBVIOUS
<1>1. Typed /\ Saved
  BY InvTyped
<1>2. /\ job.step = "save" /\ server' = server /\ disk' = disk /\ creds' = creds
      /\ lastEpoch' = lastEpoch /\ outputs' = outputs
      /\ mode' = mode /\ strayed' = strayed /\ UNCHANGED imageVars
  BY DEF SaveToR2, stateVars
<1>3. \/ Continue(IF job.kind = "rebuild" THEN "destroy all" ELSE "power off")
      \/ job' = NoJob
  BY DEF SaveToR2
<1>4. \/ Ended
      \/ GoesOn("destroy all") /\ job.kind = "rebuild"
      \/ GoesOn("power off") /\ job.kind = "snapshot"
  <2>1. CASE job' = NoJob
    BY <2>1, Ends
  <2>2. CASE job.kind = "rebuild" /\ Continue("destroy all")
    BY <1>1, <2>2, Continues DEF Steps
  <2>3. CASE job.kind # "rebuild" /\ Continue("power off")
    BY <1>1, <2>3, Continues DEF Steps
  <2>4. QED
    BY <1>3, <2>1, <2>2, <2>3
<1>5. \/ (serving' <=> serving) /\ r2' = r2
      \/ server = "on" /\ ~serving' /\ (r2' = r2 \/ r2' = disk.writes)
  BY DEF SaveToR2
<1>6. serving' \in BOOLEAN
  BY <1>1 DEF SaveToR2
<1>7. SameSet /\ (r2' = r2 => (HasLatest' <=> HasLatest))
  BY <1>2, ImagesKept, ImagesStay
<1>8. TypeOK'
  BY <1>1, <1>2, <1>4, <1>5, <1>6 DEF TypeOK, imageVars
<1>9. r2' = disk.writes => disk'.writes >= r2'
  BY <1>1, <1>2
<1>10. disk'.writes = disk.writes /\ disk'.epoch = disk.epoch
  BY <1>2
<1>11. Inv /\ LifecycleInv
  BY DEF Inv
<1>12. JobInv'
  BY <1>1, <1>2, <1>4, <1>5, <1>11 DEF LifecycleInv
<1>13. OptionInv'
  BY <1>1, <1>2, <1>4, <1>5, <1>7, <1>8, <1>9, <1>10, <1>11 DEF LifecycleInv
<1>14. ImageInv'
  BY <1>1, <1>2, <1>4, <1>5, <1>7, <1>8, <1>9, <1>10, <1>11 DEF LifecycleInv
<1>18. StateInv'
  BY <1>1, <1>2, <1>4, <1>5, <1>11 DEF LifecycleInv
<1>15. CredsInv'
  BY <1>1, <1>2, <1>4, <1>5, <1>7, <1>8, <1>9, <1>10, <1>11 DEF LifecycleInv
<1>16. FreshInv'
  BY <1>1, <1>2, <1>4, <1>5, <1>7, <1>8, <1>9, <1>10, <1>11 DEF LifecycleInv
<1>17. KeptInv'
  BY <1>1, <1>2, <1>4, <1>5, <1>7, <1>8, <1>9, <1>10, <1>11 DEF LifecycleInv
<1> QED
  BY <1>8, <1>12, <1>13, <1>14, <1>15, <1>16, <1>17, <1>18 DEF LifecycleInv

\* Only a rebuild teardown discards the credentials, and it is a departure if it
\* leaves the server.
LEMMA DestroyAllKeeps == Inv /\ DestroyAll => LifecycleInv'
<1> SUFFICES ASSUME Inv, DestroyAll PROVE LifecycleInv'
  OBVIOUS
<1>1. Typed /\ Saved
  BY InvTyped
<1>2. /\ job.step = "destroy all"
      /\ creds' \in {0, creds} /\ outputs' \in {0, outputs}
      /\ lastEpoch' = lastEpoch /\ r2' = r2 /\ mode' = mode
      /\ UNCHANGED imageVars
  BY DEF DestroyAll
<1>3. Ended
  BY Ends DEF DestroyAll
<1>4. (Unique' <=> Unique) /\ (Counted' <=> Counted) /\ (Labelled' <=> Labelled)
  BY <1>2, ImagesKept
<1>5. \/ server' = "absent" /\ disk' = BlankDisk /\ serving' = FALSE
      \/ server' = server /\ disk' = disk /\ serving' = serving
  BY DEF DestroyAll, hostVars
<1>6. \/ strayed' = strayed /\ (creds' = creds \/ server' = "absent")
      \/ Strays("destroy broke off")
  BY DEF DestroyAll, Stray, Strays, Departures
<1>7. TypeOK'
  BY <1>1, <1>2, <1>3, <1>5, <1>6, BlankTyped DEF TypeOK, imageVars, Epochs
<1>8. Inv /\ LifecycleInv /\ job.kind = "rebuild" /\ (Followed => mode = "rebuild")
  BY <1>2 DEF Inv, LifecycleInv
<1>9. ~serving'
  BY <1>1, <1>2, <1>5, <1>8 DEF LifecycleInv
<1>10. JobInv' /\ OptionInv' /\ ImageInv'
  BY <1>1, <1>2, <1>3, <1>4, <1>5, <1>6, <1>8, <1>9 DEF LifecycleInv
<1>11. StateInv' /\ FreshInv'
  BY <1>1, <1>2, <1>3, <1>5, <1>6, <1>8, <1>9
<1>12. CredsInv'
  BY <1>1, <1>2, <1>3, <1>4, <1>5, <1>6, <1>8, <1>9 DEF LifecycleInv
<1>13. KeptInv'
  BY <1>1, <1>2, <1>3, <1>5, <1>6, <1>8, <1>9
<1> QED
  BY <1>7, <1>10, <1>11, <1>12, <1>13 DEF LifecycleInv

\* The server is off before its image is taken.
LEMMA PowerOffKeeps == Inv /\ PowerOff => LifecycleInv'
<1> SUFFICES ASSUME Inv, PowerOff PROVE LifecycleInv'
  OBVIOUS
<1>1. Typed /\ Saved
  BY InvTyped
<1>2. /\ job.step = "power off" /\ disk' = disk /\ serving' = serving
      /\ creds' = creds /\ lastEpoch' = lastEpoch /\ outputs' = outputs /\ r2' = r2
      /\ mode' = mode /\ strayed' = strayed
  BY DEF PowerOff, stateVars
<1>3. server' \in {"absent", "on", "off"} /\ (server' = "absent" <=> server = "absent")
  BY <1>1 DEF PowerOff
<1>4. \/ GoesOn("create image") /\ server' = "off"
      \/ GoesOn("decide")
  <2>1. CASE server' = "off" /\ Continue("create image")
    BY <1>1, <2>1, Continues DEF Steps
  <2>2. CASE Continue("decide")
    BY <1>1, <2>2, Continues DEF Steps
  <2>3. QED
    BY <2>1, <2>2 DEF PowerOff
<1>5. SameImages
  BY ImagesStay DEF PowerOff, stateVars, imageVars
<1>6. TypeOK'
  BY <1>1, <1>2, <1>3, <1>4, <1>5 DEF TypeOK
<1> QED
  BY <1>1, <1>2, <1>3, <1>4, <1>5, <1>6 DEF Inv, LifecycleInv

\* Strict leaves no way to the destroy step but with an image.
LEMMA DecideKeeps == Inv /\ Decide => LifecycleInv'
<1> SUFFICES ASSUME Inv, Decide PROVE LifecycleInv'
  OBVIOUS
<1>1. Typed /\ Saved
  BY InvTyped
<1>2. job.step = "decide"
  BY DEF Decide
<1>3. \/ Ended
      \/ GoesOn("destroy server") /\ (job.ok \/ ~job.strict)
      \/ GoesOn("power on")
      \/ GoesOn("prune")
  <2>1. CASE job' = NoJob
    BY <2>1, Ends
  <2>2. CASE Continue("destroy server") /\ (job.ok \/ ~job.strict)
    BY <1>1, <2>2, Continues DEF Steps
  <2>3. CASE Continue("power on")
    BY <1>1, <2>3, Continues DEF Steps
  <2>4. CASE Continue("prune")
    BY <1>1, <2>4, Continues DEF Steps
  <2>5. QED
    BY <2>1, <2>2, <2>3, <2>4 DEF Decide
<1>4. SameImages
  BY ImagesStay DEF Decide, stateVars, imageVars
<1>5. /\ server' = server /\ disk' = disk /\ serving' = serving /\ creds' = creds
      /\ lastEpoch' = lastEpoch /\ outputs' = outputs
      /\ r2' = r2 /\ mode' = mode /\ strayed' = strayed
  BY DEF Decide, stateVars, hostVars
<1>6. TypeOK'
  BY <1>1, <1>3, <1>4, <1>5 DEF TypeOK
<1> QED
  BY <1>1, <1>2, <1>3, <1>4, <1>5, <1>6 DEF Inv, LifecycleInv

\* A teardown that skips the destroy powers the server on again.
LEMMA PowerOnKeeps == Inv /\ PowerOn => LifecycleInv'
<1> SUFFICES ASSUME Inv, PowerOn PROVE LifecycleInv'
  OBVIOUS
<1>1. Typed /\ Saved
  BY InvTyped
<1>2. job.step = "power on" /\ server # "absent" /\ server' \in {"on", server}
  BY <1>1 DEF PowerOn
<1>3. Ended \/ GoesOn("prune")
  BY <1>1, Ends, Continues DEF PowerOn, Steps
<1>4. SameImages
  BY ImagesStay DEF PowerOn, stateVars, imageVars
<1>5. /\ disk' = disk /\ serving' = serving /\ creds' = creds
      /\ lastEpoch' = lastEpoch /\ outputs' = outputs
      /\ r2' = r2 /\ mode' = mode /\ strayed' = strayed
  BY DEF PowerOn, stateVars
<1>6. TypeOK'
  BY <1>1, <1>2, <1>3, <1>4, <1>5 DEF TypeOK
<1> QED
  BY <1>1, <1>2, <1>3, <1>4, <1>5, <1>6 DEF Inv, LifecycleInv

\* The server is destroyed: with strict, R2 and the image hold its data.
LEMMA DestroyServerKeeps == Inv /\ DestroyServer => LifecycleInv'
<1> SUFFICES ASSUME Inv, DestroyServer PROVE LifecycleInv'
  OBVIOUS
<1>1. Typed /\ Saved
  BY InvTyped
<1>2. /\ job.step = "destroy server" /\ server' = "absent" /\ disk' = BlankDisk
      /\ serving' = FALSE
      /\ creds' = creds /\ lastEpoch' = lastEpoch /\ outputs' = outputs
      /\ r2' = r2 /\ mode' = mode
      /\ strayed' = strayed
  BY DEF DestroyServer, stateVars
<1>3. GoesOn("prune")
  BY <1>1, Continues DEF DestroyServer, Steps
<1>4. SameImages
  BY ImagesStay DEF DestroyServer, stateVars, imageVars
<1>5. TypeOK'
  BY <1>1, <1>2, <1>3, <1>4, BlankTyped DEF TypeOK
<1> QED
  BY <1>1, <1>2, <1>3, <1>4, <1>5 DEF Inv, LifecycleInv

\* A set of images that is not empty has a newest one: their numbers are
\* bounded, so that the numbers down from the bound have a least one.
LEMMA NewestOf ==
    ASSUME NEW S, S \subseteq Images, S # {}
    PROVE  Newest(S) \in S /\ \A k \in S : k.id <= Newest(S).id
<1> DEFINE Age(i) == MaxImages - i.id
           Ages == {Age(i) : i \in S}
           Before == OpToRel(<, Nat)
<1>1. \A i \in S : i.id \in Nat /\ Age(i) \in Nat
  <2>1. \A i \in S : i.id \in 1 .. MaxImages
    BY DEF Images
  <2>2. QED
    BY <2>1, BoundAssumption
<1>2. \A m, n \in Nat : <<m, n>> \in Before <=> m < n
  BY DEF OpToRel
<1>3. IsWellFoundedOn(Before, Nat)
  BY NatLessThanWellFounded
<1> HIDE DEF Before
<1>4. Ages \subseteq Nat /\ Ages # {}
  BY <1>1
<1>5. PICK a \in Ages : \A b \in Ages : ~(<<b, a>> \in Before)
  <2> HIDE DEF Ages
  <2>1. QED
    BY <1>3, <1>4, WFMin
<1>6. PICK i \in S : a = Age(i)
  OBVIOUS
<1>7. \A k \in S : k.id <= i.id
  <2> SUFFICES ASSUME NEW k \in S PROVE k.id <= i.id
    OBVIOUS
  <2>1. ~(Age(k) < Age(i))
    BY <1>1, <1>2, <1>5, <1>6
  <2>2. QED
    BY <1>1, <2>1, BoundAssumption
<1> QED
  BY <1>7 DEF Newest

\* The new image is the newest, holds the disk of a server that is off, which
\* is what R2 holds, and is labelled with the state's epoch.
LEMMA CreateImageKeeps == Inv /\ CreateImage => LifecycleInv'
<1> SUFFICES ASSUME Inv, CreateImage PROVE LifecycleInv'
  OBVIOUS
<1>1. Typed /\ Saved
  BY InvTyped
<1>2. /\ job.step = "create image" /\ server' = server /\ disk' = disk
      /\ serving' = serving
      /\ creds' = creds /\ lastEpoch' = lastEpoch /\ outputs' = outputs
      /\ r2' = r2 /\ mode' = mode
      /\ strayed' = strayed
  BY DEF CreateImage, stateVars, hostVars
<1>3. /\ server = "off" /\ r2 = disk.writes /\ created \in 0 .. MaxImages
      /\ images \subseteq Images
  BY <1>1, <1>2 DEF Inv, LifecycleInv, TypeOK
<1>4. /\ job' \in Jobs /\ job'.step = "decide" /\ job'.kind = job.kind
      /\ job'.skip = job.skip
      /\ job'.strict = job.strict /\ job'.fresh = job.fresh
      /\ job'.image = job.image
      /\ job'.restore = job.restore
  BY <1>1 DEF CreateImage, Continue, Jobs, Steps
<1>5. \/ AddImage(TRUE) /\ job'.ok
      \/ AddImage(FALSE) /\ job'.ok = job.ok
      \/ UNCHANGED imageVars /\ job'.ok = job.ok
  <2>1. CASE AddImage(TRUE) /\ job' = [job EXCEPT !.step = "decide", !.ok = TRUE]
    BY <1>1, <2>1 DEF Jobs
  <2>2. CASE Continue("decide") /\ (AddImage(FALSE) \/ UNCHANGED imageVars)
    BY <1>1, <2>2 DEF Jobs, Continue
  <2>3. QED
    BY <2>1, <2>2 DEF CreateImage
<1>6. /\ Followed => outputs = creds
      /\ Followed /\ Unbroken => disk.epoch \in {0, creds}
  BY <1>2, <1>3 DEF Inv, LifecycleInv
<1>7. CASE UNCHANGED imageVars
  <2>1. SameImages
    BY <1>2, <1>7, ImagesStay
  <2>2. job'.ok = job.ok
    BY <1>5, <1>7, <1>3, BoundAssumption DEF AddImage, imageVars
  <2>3. TypeOK'
    BY <1>1, <1>2, <1>4, <2>1 DEF TypeOK
  <2>4. QED
    BY <1>1, <1>2, <1>3, <1>4, <2>1, <2>2, <2>3 DEF Inv, LifecycleInv
<1>8. ASSUME NEW a \in BOOLEAN, AddImage(a), job'.ok => a
      PROVE  LifecycleInv'
  <2> DEFINE image == [id |-> created', disk |-> disk, label |-> outputs, available |-> a]
  <2>1. /\ created' = created + 1 /\ created' \in 1 .. MaxImages
        /\ created' \in 0 .. MaxImages /\ created' \in Nat /\ created \in Nat
    BY <1>3, <1>8, BoundAssumption DEF AddImage
  <2>2. images' = images \cup {image}
    BY <1>8 DEF AddImage
  <2>3. outputs \in Epochs
    BY DEF Inv, LifecycleInv, TypeOK
  <2>4. /\ image \in Images /\ image.id = created' /\ image.disk = disk
        /\ image.label = outputs /\ image.available = a
    BY <1>1, <2>1, <2>3 DEF Images
  <2> HIDE DEF image
  <2>5. images' \subseteq Images /\ \A i \in Images : i.id \in Nat
    BY <1>3, <2>2, <2>4 DEF Images
  <2>6. Counted /\ Unique /\ (Followed /\ Unbroken => Labelled)
    BY DEF Inv, LifecycleInv
  <2>7. \A i \in images : i.id \in Nat /\ i.id <= created
    BY <1>3, <2>6, ImageIds DEF Counted
  <2>8. \A n \in Nat : n <= created => n <= created' /\ n # created'
    BY ONLY <2>1
  <2>9. Counted'
    BY <2>1, <2>2, <2>4, <2>7, <2>8 DEF Counted
  <2>10. Unique'
    BY <2>2, <2>4, <2>6, <2>7, <2>8 DEF Unique
  <2>11. Followed' /\ Unbroken' => Labelled'
    BY <1>2, <1>6, <2>2, <2>4, <2>6 DEF Labelled
  <2>12. a => HasLatest'
    BY <1>2, <1>3, <2>2, <2>4 DEF HasLatest, Available
  <2>13. job' \in Jobs
    BY <1>4
  <2>14. TypeOK'
    BY <1>1, <1>2, <2>1, <2>5, <2>13 DEF TypeOK
  <2>15. QED
    BY <1>1, <1>2, <1>3, <1>4, <1>8, <2>9, <2>10, <2>11, <2>12, <2>14
       DEF Inv, LifecycleInv
<1> QED
  <2>1. CASE AddImage(TRUE) /\ job'.ok
    BY <1>8, <2>1
  <2>2. CASE AddImage(FALSE) /\ job'.ok = job.ok
    <3>1. ~job.ok
      BY <1>1, <1>2 DEF Inv, LifecycleInv
    <3>2. QED
      BY <1>8, <2>2, <3>1
  <2>3. QED
    BY <1>5, <1>7, <2>1, <2>2

\* The newest available image is never pruned.
LEMMA PruneKeeps == Inv /\ Prune => LifecycleInv'
<1> SUFFICES ASSUME Inv, Prune PROVE LifecycleInv'
  OBVIOUS
<1>1. Typed /\ Saved
  BY InvTyped
<1>2. /\ job.step = "prune" /\ server' = server /\ disk' = disk
      /\ serving' = serving /\ creds' = creds
      /\ lastEpoch' = lastEpoch /\ outputs' = outputs
      /\ r2' = r2 /\ mode' = mode /\ strayed' = strayed
      /\ created' = created
  BY DEF Prune, stateVars, hostVars
<1>3. Ended
  BY Ends DEF Prune
<1>4. images' \subseteq images /\ \A i \in images \ images' : i \in Prunable
  BY DEF Prune
<1>5. /\ Unique' /\ Counted' /\ (Labelled => Labelled')
  BY <1>2, <1>4 DEF Inv, LifecycleInv, Unique, Counted, Labelled
<1>6. HasLatest => HasLatest'
  <2> SUFFICES ASSUME HasLatest PROVE HasLatest'
    OBVIOUS
  <2>1. PICK k \in Available : k.id = created /\ k.label = outputs /\ r2 = k.disk.writes
    BY DEF HasLatest
  <2>2. \A i \in images : i.id <= created /\ i.id \in Nat
    BY ImageIds DEF Inv, LifecycleInv, Counted, TypeOK
  <2>3. {i \in Available : i.id > k.id} = {}
    BY <2>1, <2>2 DEF Available
  <2>4. k \notin Prunable
    BY <2>3, FS_EmptySet DEF Prunable
  <2>5. k \in Available'
    BY <1>4, <2>1, <2>4 DEF Available
  <2>6. QED
    BY <1>2, <2>1, <2>5 DEF HasLatest
<1>7. TypeOK'
  BY <1>1, <1>2, <1>3, <1>4 DEF TypeOK
<1> QED
  BY <1>1, <1>2, <1>3, <1>5, <1>6, <1>7 DEF Inv, LifecycleInv

\* An image that settles is not a latest one that was available before, and
\* changes neither its number nor its label.
LEMMA ImageSettlesKeeps == Inv /\ ImageSettles => LifecycleInv'
<1> SUFFICES ASSUME Inv, ImageSettles PROVE LifecycleInv'
  OBVIOUS
<1>1. Typed /\ Saved
  BY InvTyped
<1>2. PICK i \in images \ Available :
        /\ images' = (images \ {i}) \cup {[i EXCEPT !.available = TRUE]}
        /\ UNCHANGED <<hostVars, stateVars, r2, created, mode, job, strayed>>
  BY DEF ImageSettles
<1>3. /\ server' = server /\ disk' = disk /\ serving' = serving /\ creds' = creds
      /\ lastEpoch' = lastEpoch /\ outputs' = outputs
      /\ r2' = r2 /\ mode' = mode /\ strayed' = strayed
      /\ created' = created /\ SameJob
  BY <1>2 DEF stateVars, hostVars
<1> DEFINE j == [i EXCEPT !.available = TRUE]
<1>4. images \subseteq Images /\ i \in Images /\ i \notin Available
  BY <1>2 DEF Inv, LifecycleInv, TypeOK
<1>5. j \in Images /\ j.id = i.id /\ j.disk = i.disk /\ j.label = i.label
  BY <1>4 DEF Images
<1>6. images' = (images \ {i}) \cup {j}
  BY <1>2
<1> HIDE DEF j
<1>7. Unique /\ Counted
  BY DEF Inv, LifecycleInv
<1>8. Unique' /\ Counted' /\ (Labelled => Labelled')
  BY <1>2, <1>3, <1>5, <1>6, <1>7 DEF Unique, Counted, Labelled
<1>9. HasLatest => HasLatest'
  BY <1>3, <1>4, <1>6 DEF HasLatest, Available
<1>10. TypeOK'
  BY <1>1, <1>3, <1>4, <1>5, <1>6 DEF TypeOK
<1>11. Inv /\ LifecycleInv
  BY DEF Inv
<1>12. JobInv' /\ OptionInv' /\ StateInv'
  BY <1>1, <1>3, <1>11 DEF LifecycleInv
<1>13. ImageInv'
  BY <1>3, <1>8, <1>9, <1>11 DEF LifecycleInv
<1>14. CredsInv'
  BY <1>3, <1>8, <1>11 DEF LifecycleInv
<1>15. FreshInv'
  BY <1>3, <1>9, <1>11 DEF LifecycleInv
<1>16. KeptInv'
  BY <1>3, <1>11 DEF LifecycleInv
<1> QED
  BY <1>10, <1>12, <1>13, <1>14, <1>15, <1>16 DEF LifecycleInv

\* A spin-up starts without an image; a fresh one is a departure.
LEMMA StartSpinUpKeeps == Inv /\ StartSpinUp => LifecycleInv'
<1> SUFFICES ASSUME Inv, StartSpinUp PROVE LifecycleInv'
  OBVIOUS
<1>1. Typed /\ Saved
  BY InvTyped
<1>2. PICK fresh \in BOOLEAN :
          /\ Stray(IF fresh THEN {"forced fresh"} ELSE {})
          /\ job' = [NoJob EXCEPT !.kind = mode, !.fresh = fresh,
                        !.step = IF mode = "rebuild" THEN "apply" ELSE "resolve"]
  BY DEF StartSpinUp
<1>3. /\ job' \in Jobs
      /\ job'.step = (IF mode = "rebuild" THEN "apply" ELSE "resolve")
      /\ job'.kind = mode
      /\ job'.fresh = fresh /\ ~job'.ok /\ job'.image = None /\ job'.restore
  BY <1>1, <1>2, NoJobTyped DEF Jobs, NoJob, Steps
<1>4. \/ strayed' = strayed /\ ~fresh
      \/ Strays("forced fresh")
  BY <1>2 DEF Stray, Strays, Departures
<1>5. SameImages
  BY ImagesStay DEF StartSpinUp, stateVars, imageVars
<1>6. /\ server' = server /\ disk' = disk /\ serving' = serving /\ creds' = creds
      /\ lastEpoch' = lastEpoch /\ outputs' = outputs /\ r2' = r2 /\ mode' = mode
  BY DEF StartSpinUp, stateVars, hostVars
<1>7. TypeOK'
  BY <1>1, <1>3, <1>4, <1>5, <1>6 DEF TypeOK
<1> QED
  BY <1>1, <1>3, <1>4, <1>5, <1>6, <1>7 DEF Inv, LifecycleInv

\* The image that is resolved is of the state's epoch, and the latest one if
\* the latest one is there.
LEMMA ResolveImageKeeps == Inv /\ ResolveImage => LifecycleInv'
<1> SUFFICES ASSUME Inv, ResolveImage PROVE LifecycleInv'
  OBVIOUS
<1>1. Typed /\ Saved
  BY InvTyped
<1>2. job.step = "resolve" /\ job.kind = "snapshot" /\ job.image = None /\ ~job.ok
  BY DEF ResolveImage, Inv, LifecycleInv
<1>3. /\ Usable \subseteq Available /\ Usable \subseteq images
      /\ images \subseteq Images
  BY DEF Usable, Available, Inv, LifecycleInv, TypeOK
<1>4. Usable # {} => /\ Newest(Usable) \in Usable
                     /\ \A k \in Usable : k.id <= Newest(Usable).id
                     /\ Newest(Usable).disk \in Disks
  <2>1. Usable # {} => /\ Newest(Usable) \in Usable
                       /\ \A k \in Usable : k.id <= Newest(Usable).id
    BY <1>3, NewestOf
  <2>2. QED
    BY <2>1, <1>3 DEF Images
<1>5. /\ job' \in Jobs /\ job'.step = "apply" /\ job'.kind = job.kind
      /\ job'.strict = job.strict
      /\ job'.ok = job.ok /\ job'.fresh = job.fresh
      /\ \/ job'.image = None /\ (job.fresh \/ Usable = {})
         \/ Usable # {} /\ job'.image = Newest(Usable).disk
  <2>1. CASE job.fresh \/ Usable = {}
    BY <1>1, <1>2, <2>1 DEF ResolveImage, Jobs, Steps
  <2>2. CASE ~job.fresh /\ Usable # {}
    <3> DEFINE image == Newest(Usable).disk
    <3>1. /\ image \in Disks
          /\ job' = [job EXCEPT !.step = "apply", !.restore = FALSE, !.image = image]
      BY <1>4, <2>2 DEF ResolveImage
    <3> HIDE DEF image
    <3>2. /\ job' \in Jobs /\ job'.step = "apply" /\ job'.kind = job.kind
          /\ job'.strict = job.strict
          /\ job'.ok = job.ok /\ job'.fresh = job.fresh /\ job'.image = image
      BY <1>1, <3>1 DEF Jobs, Steps
    <3>3. QED
      BY <3>2, <2>2 DEF image
  <2>3. QED
    BY <2>1, <2>2
<1>6. SameImages
  BY ImagesStay DEF ResolveImage, stateVars, imageVars
<1>7. /\ server' = server /\ disk' = disk /\ serving' = serving /\ creds' = creds
      /\ lastEpoch' = lastEpoch /\ outputs' = outputs /\ r2' = r2 /\ mode' = mode
      /\ strayed' = strayed
  BY DEF ResolveImage, stateVars, hostVars
<1>8. TypeOK'
  BY <1>1, <1>5, <1>6, <1>7 DEF TypeOK
<1>9. Followed /\ Unbroken /\ job'.image # None => job'.image.epoch \in {0, creds}
  <2> SUFFICES ASSUME Followed, Unbroken, job'.image # None
               PROVE  job'.image.epoch \in {0, creds}
    OBVIOUS
  <2>1. creds # 0 /\ outputs = creds /\ Labelled
    BY <1>2 DEF Inv, LifecycleInv
  <2>2. \A i \in Usable : i.label = creds /\ i.disk.epoch \in {0, creds}
    BY <1>3, <2>1 DEF Labelled, Usable
  <2>3. QED
    BY <1>4, <1>5, <2>1, <2>2
<1>10. Strict /\ HasLatest => Usable # {} /\ Newest(Usable).disk.writes = r2
  <2> SUFFICES ASSUME HasLatest PROVE Usable # {} /\ Newest(Usable).disk.writes = r2
    OBVIOUS
  <2>1. PICK k \in Available : k.id = created /\ k.label = outputs /\ r2 = k.disk.writes
    BY DEF HasLatest
  <2>2. k \in Usable
    BY <2>1 DEF Usable
  <2>3. \A i \in images : i.id \in Nat /\ i.id <= created
    BY <1>3, ImageIds DEF Inv, LifecycleInv, Counted
  <2>4. Newest(Usable) \in images /\ k \in images /\ k.id <= Newest(Usable).id
    BY <1>3, <1>4, <2>2
  <2>5. Newest(Usable).id = k.id
    BY <2>1, <2>3, <2>4
  <2>6. Newest(Usable) = k
    BY <2>4, <2>5 DEF Inv, LifecycleInv, Unique
  <2>7. QED
    BY <2>1, <2>2, <2>6
<1>11. \A d \in Disks : d # None
  BY NoneAssumption
<1>12. CredsInv'
  BY <1>1, <1>2, <1>5, <1>6, <1>7, <1>9 DEF Inv, LifecycleInv
<1>13. FreshInv' /\ KeptInv'
  BY <1>1, <1>2, <1>4, <1>5, <1>6, <1>7, <1>10, <1>11 DEF Inv, LifecycleInv
<1> QED
  BY <1>1, <1>2, <1>5, <1>6, <1>7, <1>8, <1>12, <1>13 DEF Inv, LifecycleInv

\* New credentials are only generated for an empty state, and a new server gets
\* the image of the run.
LEMMA ApplyKeeps == Inv /\ Apply => LifecycleInv'
<1> SUFFICES ASSUME Inv, Apply PROVE LifecycleInv'
  OBVIOUS
<1>1. Typed /\ Saved
  BY InvTyped
<1>2. /\ job.step = "apply" /\ serving' = serving /\ r2' = r2
      /\ UNCHANGED imageVars /\ mode' = mode /\ strayed' = strayed
  BY DEF Apply
<1>3. creds \in Epochs /\ lastEpoch \in Epochs /\ outputs \in Epochs
      /\ job.image \in Disks \cup {None}
  BY <1>1 DEF TypeOK, Jobs
<1>4. creds' \in Epochs /\ lastEpoch' \in Epochs /\ creds' # 0
      /\ (creds # 0 => creds' = creds)
  <2>1. CASE creds # 0
    BY <1>3, <2>1 DEF Apply
  <2>2. CASE creds = 0
    <3>1. /\ creds' = lastEpoch + 1 /\ lastEpoch' = lastEpoch + 1
          /\ lastEpoch < MaxEpochs
      BY <2>2 DEF Apply
    <3>2. QED
      BY <1>3, <2>2, <3>1, BoundAssumption DEF Epochs
  <2>3. QED
    BY <2>1, <2>2
<1>5. /\ \/ /\ server = "absent" /\ server' = "on"
            /\ disk' = IF job.image = None THEN BlankDisk ELSE job.image
         \/ server' = server /\ disk' = disk
      /\ \/ server' # "absent" /\ outputs' = creds' /\ GoesOn("deploy")
         \/ outputs' \in {outputs, creds'} /\ Ended
  <2>1. Continue("deploy") => GoesOn("deploy")
    BY <1>1, Continues DEF Steps
  <2>2. job' = NoJob => Ended
    BY Ends
  <2>3. QED
    BY <2>1, <2>2 DEF Apply
<1>6. SameSet /\ (outputs' = outputs => (HasLatest' <=> HasLatest))
  BY <1>2, ImagesKept, ImagesStay
<1>7. disk' \in Disks /\ server' \in {"absent", "on", "off"}
  BY <1>1, <1>3, <1>5, BlankTyped
<1>8. TypeOK'
  BY <1>1, <1>2, <1>3, <1>4, <1>5, <1>7 DEF TypeOK, imageVars
<1>9. \A d \in Disks : d.writes \in Nat /\ d.writes >= d.writes
  BY BoundAssumption DEF Disks
<1>10. JobInv' /\ OptionInv' /\ ImageInv'
  BY <1>1, <1>2, <1>5, <1>6 DEF Inv, LifecycleInv
<1>14. StateInv'
  BY <1>1, <1>2, <1>4, <1>5 DEF Inv, LifecycleInv
<1>11. CredsInv'
  BY <1>1, <1>2, <1>3, <1>4, <1>5, <1>6, BlankTyped DEF Inv, LifecycleInv
<1>12. FreshInv'
  BY <1>1, <1>2, <1>3, <1>4, <1>5, <1>6 DEF Inv, LifecycleInv
<1>13. KeptInv'
  BY <1>1, <1>2, <1>3, <1>5, <1>9 DEF Inv, LifecycleInv
<1> QED
  BY <1>8, <1>10, <1>11, <1>12, <1>13, <1>14 DEF LifecycleInv

\* The databases get the passwords of the state when they are new, and the data
\* of R2 unless the disk had it.
LEMMA DeployKeeps == Inv /\ Deploy => LifecycleInv'
<1> SUFFICES ASSUME Inv, Deploy PROVE LifecycleInv'
  OBVIOUS
<1>1. Typed /\ Saved
  BY InvTyped
<1>2. /\ job.step = "deploy" /\ server = "on" /\ server' = server
      /\ serving' = TRUE /\ creds' = creds /\ lastEpoch' = lastEpoch /\ outputs' = outputs
      /\ r2' = r2 /\ mode' = mode /\ strayed' = strayed
  BY DEF Deploy, stateVars
<1>3. Ended /\ SameImages
  BY Ends, ImagesStay DEF Deploy, stateVars, imageVars
<1>4. Restored \in 0 .. MaxWrites /\ Restored \in Nat
  BY <1>1 DEF Restored
<1>5. creds \in Epochs
  BY <1>1 DEF TypeOK
<1>6. /\ disk'.writes = Restored
      /\ disk'.epoch = (IF disk.epoch = 0 THEN creds ELSE disk.epoch)
      /\ disk' \in Disks
  BY <1>1, <1>4, <1>5 DEF Deploy, Disks
<1>7. TypeOK'
  BY <1>1, <1>2, <1>3, <1>6 DEF TypeOK
<1>8. KeptInv'
  <2>1. r2 # None /\ job.restore => disk'.writes >= r2
    <3>1. r2 # None /\ job.restore => disk'.writes = r2 /\ disk'.writes \in Nat
      BY <1>4, <1>6 DEF Restored
    <3>2. QED
      BY ONLY <3>1
  <2>2. ~job.restore => disk'.writes = disk.writes
    BY <1>6 DEF Restored
  <2>3. QED
    BY <1>1, <1>2, <1>3, <2>1, <2>2 DEF Inv, LifecycleInv
<1> QED
  BY <1>1, <1>2, <1>3, <1>6, <1>7, <1>8 DEF Inv, LifecycleInv

\* Every step keeps the invariant.
LEMMA LifecycleStep == Inv /\ [Next]_vars => Inv'
<1> SUFFICES ASSUME Inv, [Next]_vars PROVE Inv'
  OBVIOUS
<1>1. SavedInv'
  BY SavedStep DEF Inv
<1>2. CASE Teardown
  BY <1>2, StartTeardownKeeps, SaveToR2Keeps, DestroyAllKeeps, PowerOffKeeps,
     CreateImageKeeps, DecideKeeps, PowerOnKeeps, DestroyServerKeeps, PruneKeeps,
     <1>1
     DEF Teardown, Inv
<1>3. CASE SpinUp
  BY <1>3, <1>1, StartSpinUpKeeps, ResolveImageKeeps, ApplyKeeps, DeployKeeps
     DEF SpinUp, Inv
<1>4. CASE Write \/ SwitchMode \/ PowerOnByHand \/ JobFails \/ ImageSettles
  BY <1>4, <1>1, WriteKeeps, SwitchModeKeeps, PowerOnByHandKeeps, JobFailsKeeps,
     ImageSettlesKeeps
     DEF Inv
<1>5. CASE UNCHANGED vars
  <2>1. SameJob /\ SameImages
    BY <1>5, ImagesStay DEF vars, stateVars, imageVars
  <2>2. /\ server' = server /\ disk' = disk /\ serving' = serving /\ creds' = creds
        /\ lastEpoch' = lastEpoch /\ outputs' = outputs
        /\ r2' = r2 /\ mode' = mode /\ strayed' = strayed
    BY <1>5 DEF vars, hostVars, stateVars
  <2>3. TypeOK'
    BY <2>1, <2>2 DEF TypeOK, Inv, LifecycleInv
  <2>4. JobInv' /\ OptionInv' /\ KeptInv'
    BY <2>1, <2>2 DEF Inv, LifecycleInv
  <2>5. ImageInv' /\ StateInv' /\ CredsInv' /\ FreshInv'
    BY <2>1, <2>2 DEF Inv, LifecycleInv
  <2>6. QED
    BY <1>1, <2>3, <2>4, <2>5 DEF Inv, LifecycleInv
<1> QED
  BY <1>2, <1>3, <1>4, <1>5 DEF Next

\* The invariant holds in every state.
LEMMA InvHolds == Spec => []Inv
<1>1. Init => Inv
  BY InitLifecycle, SavedInit DEF Inv
<1> QED  BY <1>1, LifecycleStep, PTL DEF Spec

\* Every variable keeps its type: the credentials, the images and the writes
\* stay within their bounds (the lifecycle workflows).
THEOREM TypeCorrect == Spec => []TypeOK
<1>1. Inv => TypeOK
  BY DEF Inv, LifecycleInv
<1> QED  BY <1>1, InvHolds, PTL

\* As long as nobody switches the mode of a stack that is not up, and no destroy
\* takes the passwords from a server that it leaves behind, the databases of a
\* stack that serves have the passwords of the OpenTofu state: no image of another
\* epoch is ever used (hetzner_snapshot.py, resolve_latest).
THEOREM ServedCredentialsMatch == Spec => []CredentialsMatchInUse
<1>1. Inv => CredentialsMatchInUse
  BY DEF Inv, LifecycleInv, CredentialsMatchInUse, CredentialsMatch
<1> QED  BY <1>1, InvHolds, PTL

\* With strict teardowns, no server is created from an image that lacks what
\* the latest R2 snapshot holds, so that skipping the R2 restore loses nothing
\* (spin-up-snapshot.yml).
THEOREM StrictImageIsFresh == Spec => StrictImageIsNewerThanR2
<1>1. Inv /\ [Next]_vars =>
        [TakesStaleImage =>
            strayed \cap {"switched while down", "not strict"} # {}]_vars
  <2> SUFFICES ASSUME Inv, Next, TakesStaleImage, Strict PROVE FALSE
    BY DEF TakesStaleImage
  <2>1. server = "absent" /\ server' = "on" /\ job.image # None
    BY DEF TakesStaleImage
  <2>2. Apply
    <3> USE <2>1 DEF hostVars
    <3>1. ~Teardown
      BY DEF Teardown, StartTeardown, SaveToR2, PowerOff, CreateImage, Decide,
             PowerOn, Prune, DestroyAll, DestroyServer, Inv, SavedInv
    <3>2. ~(StartSpinUp \/ ResolveImage \/ Deploy)
      BY DEF StartSpinUp, ResolveImage, Deploy
    <3>3. ~(Write \/ SwitchMode \/ PowerOnByHand \/ JobFails \/ ImageSettles)
      BY DEF Write, SwitchMode, PowerOnByHand, JobFails, ImageSettles
    <3>4. QED
      BY <3>1, <3>2, <3>3 DEF Next, SpinUp
  <2>3. disk' = job.image
    BY <2>1, <2>2 DEF Apply
  <2>4. r2 = job.image.writes
    BY <2>1 DEF Inv, LifecycleInv
  <2>5. r2 \in Nat /\ disk'.writes < r2
    BY InvTyped DEF TakesStaleImage
  <2>6. QED
    BY ONLY <2>3, <2>4, <2>5
<1> QED  BY <1>1, InvHolds, PTL DEF Spec, StrictImageIsNewerThanR2

\* In the documented use, a spin-up that completes has all that the latest
\* teardown saved, whichever runs have failed before it (the lifecycle
\* workflows).
THEOREM SpinUpRestores == Spec => SpinUpRestoresSaved
<1>1. Inv /\ [Next]_vars =>
        [strayed = {} /\ job.step = "deploy" /\ serving' /\ ~serving /\ r2 # None =>
            disk'.writes >= r2]_vars
  <2> SUFFICES ASSUME Inv, Next, strayed = {}, job.step = "deploy", serving', ~serving,
                      r2 # None
               PROVE  disk'.writes >= r2
    OBVIOUS
  <2>1. Deploy
    <3> USE DEF hostVars
    <3>1. ~Teardown
      BY DEF Teardown, StartTeardown, SaveToR2, PowerOff, CreateImage, Decide,
             PowerOn, Prune, DestroyAll, DestroyServer
    <3>2. ~(StartSpinUp \/ ResolveImage \/ Apply)
      BY DEF StartSpinUp, ResolveImage, Apply
    <3>3. ~(Write \/ SwitchMode \/ PowerOnByHand \/ JobFails \/ ImageSettles)
      BY DEF Write, SwitchMode, PowerOnByHand, JobFails, ImageSettles
    <3>4. QED
      BY <3>1, <3>2, <3>3 DEF Next, SpinUp
  <2>2. KeptInv' /\ strayed' = strayed /\ r2' = r2 /\ server' # "absent"
    BY <2>1, DeployKeeps DEF Deploy, LifecycleInv
  <2>3. QED
    BY <2>2
<1> QED  BY <1>1, InvHolds, PTL DEF Spec, SpinUpRestoresSaved

=============================================================================

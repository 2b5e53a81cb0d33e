------------------------ MODULE S3PersistenceProofs ------------------------
(***************************************************************************)
(* Proofs about S3Persistence, for every set of databases and trees and    *)
(* every bound, and for runs in every order.  What concerns a run's use of *)
(* the bucket holds even when a spin-up overlaps a teardown; that the      *)
(* destroyed server's data is the saved data holds of each teardown that   *)
(* no spin-up ran beside.                                                  *)
(***************************************************************************)
EXTENDS S3Persistence, TLAPS

\* A teardown run that may still write below its own prefix.
Writing == {"dump", "stop", "trees", "dumps", "manifest", "check", "point"}

\* A prefix stays a prefix when its trees or its dumps are replaced.
LEMMA TreesWritten ==
    ASSUME NEW B \in [Snapshotted -> Prefix], NEW t, NEW f \in [Trees -> Copies]
    PROVE  [B EXCEPT ![t].trees = f] \in [Snapshotted -> Prefix]
<1>1. ASSUME NEW r \in Prefix PROVE [r EXCEPT !.trees = f] \in Prefix
    BY DEF Prefix
<1> QED
    BY <1>1

\* The same for its dumps.
LEMMA DumpsWritten ==
    ASSUME NEW B \in [Snapshotted -> Prefix], NEW t,
           NEW f \in [Databases -> Dumps \union {Damaged}]
    PROVE  [B EXCEPT ![t].dumps = f] \in [Snapshotted -> Prefix]
<1>1. ASSUME NEW r \in Prefix PROVE [r EXCEPT !.dumps = f] \in Prefix
    BY DEF Prefix
<1> QED
    BY <1>1

\* Every step keeps every variable in its set.
LEMMA TypeStep == TypeOK /\ [Next]_vars => TypeOK'
<1> SUFFICES ASSUME TypeOK, [Next]_vars PROVE TypeOK'
    OBVIOUS
<1> USE BoundAssumption, MarkerAssumption
    DEF TypeOK, Versions, Snapshotted, Copies, Dumps, Prefix, Stacks,
        TeardownSteps, SpinUpSteps, NoDumps
<1> USE DEF serverVars, bucketVars, tdVars
<1>1. ASSUME NEW s \in Stacks, Write(s) PROVE TypeOK'
    BY <1>1 DEF Write
<1>3. CASE StartTeardown
    BY <1>3 DEF StartTeardown, NewTimestamp
<1>4. CASE DumpDatabases
    BY <1>4 DEF DumpDatabases
<1>5. CASE StopStacks
    BY <1>5 DEF StopStacks
<1>6. CASE UploadTrees
  <2>1. PICK sound \in SUBSET Trees :
            bucket' = [bucket EXCEPT ![clock].trees =
                         [s \in Trees |-> IF s \in sound THEN tree[s] ELSE Damaged]]
      BY <1>6 DEF UploadTrees
  <2>2. [s \in Trees |-> IF s \in sound THEN tree[s] ELSE Damaged]
            \in [Trees -> Copies]
      OBVIOUS
  <2>3. bucket' \in [Snapshotted -> Prefix]
      BY <2>1, <2>2, TreesWritten DEF TypeOK
  <2> QED
      BY <1>6, <2>3 DEF UploadTrees
<1>7. CASE UploadDumps
  <2>1. PICK sound \in SUBSET Databases :
            bucket' = [bucket EXCEPT ![clock].dumps =
                         [d \in Databases |-> IF \/ d \in sound
                                                 \/ staged[d] = NoDump
                                              THEN staged[d] ELSE Damaged]]
      BY <1>7 DEF UploadDumps
  <2>2. [d \in Databases |-> IF d \in sound \/ staged[d] = NoDump
                             THEN staged[d] ELSE Damaged]
            \in [Databases -> Dumps \union {Damaged}]
      OBVIOUS
  <2>3. bucket' \in [Snapshotted -> Prefix]
      BY <2>1, <2>2, DumpsWritten DEF TypeOK
  <2> QED
      BY <1>7, <2>3 DEF UploadDumps
<1>8. CASE WriteManifest
    BY <1>8 DEF WriteManifest
<1>9. CASE CheckUploads
    BY <1>9 DEF CheckUploads
<1>10. CASE PointLatest
    BY <1>10 DEF PointLatest
<1>11. CASE Destroy
  <2>1. [s \in Trees |-> 0] \in [Trees -> Versions]
      OBVIOUS
  <2>2. [d \in Databases |-> 0] \in [Databases -> Versions]
      OBVIOUS
  <2>3. overlapped' \in BOOLEAN
      BY <1>11 DEF Destroy, EndTeardown
  <2> QED
      BY <1>11, <2>1, <2>2, <2>3 DEF Destroy, EndTeardown
<1>12. CASE TeardownFails
    BY <1>12 DEF TeardownFails, EndTeardown
<1>13. CASE StartSpinUp
    BY <1>13 DEF StartSpinUp
<1>14. CASE Apply
    BY <1>14 DEF Apply
<1>15. CASE EnsureRclone
    BY <1>15 DEF EnsureRclone
<1>16. CASE RestoreFilesystem
    BY <1>16 DEF RestoreFilesystem
<1>17. CASE ComposeUp
    BY <1>17 DEF ComposeUp
<1>18. CASE RestorePostgres
    BY <1>18 DEF RestorePostgres, Due
<1>19. CASE EndSpinUp
    BY <1>19 DEF EndSpinUp
<1>20. CASE UNCHANGED vars
    BY <1>20 DEF vars
<1> QED
    BY <1>1, <1>3, <1>4, <1>5, <1>6, <1>7, <1>8, <1>9, <1>10, <1>11,
       <1>12, <1>13, <1>14, <1>15, <1>16, <1>17, <1>18, <1>19, <1>20
       DEF Next, Teardown, SpinUp

\* The initial state is of the right type.
LEMMA TypeInit == Init => TypeOK
<1> SUFFICES ASSUME Init PROVE TypeOK
    OBVIOUS
<1> USE BoundAssumption DEF Init, Versions, Dumps, NoDumps
<1>1. tree \in [Trees -> Versions] /\ db \in [Databases -> Versions]
    OBVIOUS
<1>2. staged \in [Databases -> Dumps] /\ begun \in [Databases -> Dumps]
    OBVIOUS
<1>3. bucket \in [Snapshotted -> Prefix]
    BY DEF Prefix, EmptyPrefix, Copies, Snapshotted
<1>4. overlapped \in BOOLEAN
    OBVIOUS
<1> QED
    BY <1>1, <1>2, <1>3, <1>4 DEF TypeOK, Stacks, TeardownSteps, SpinUpSteps

\* Every variable stays in its set, whatever the two runs do.
THEOREM TypeCorrect == Spec => []TypeOK
BY TypeInit, TypeStep, PTL DEF Spec

-----------------------------------------------------------------------------
(* The bucket: true for overlapping runs too                               *)

\* The run that writes has a prefix that latest.txt does not name; the check it
\* has passed, or what it left out on purpose, is still true of that prefix.
BucketInv ==
    /\ TypeOK
    /\ latest <= clock
    /\ tdPc \in Writing => latest < clock
    /\ tdPc \in {"manifest", "check"} =>
          \A d \in Databases :
              staged[d] = NoDump => bucket[clock].dumps[d] = NoDump
    /\ tdPc = "point" => Sound(clock)
    /\ PublishedIsSound

\* At first no run writes and latest.txt does not exist.
LEMMA BucketInit == Init => BucketInv
BY TypeInit, BoundAssumption DEF Init, BucketInv, Writing, PublishedIsSound, Snapshotted

\* Every step of either run keeps BucketInv, overlapping or not.
LEMMA BucketStep == BucketInv /\ [Next]_vars => BucketInv'
<1> SUFFICES ASSUME BucketInv, [Next]_vars PROVE BucketInv'
    OBVIOUS
<1>0. TypeOK /\ TypeOK'
    BY TypeStep DEF BucketInv
<1>a. latest \in Nat /\ clock \in Nat /\ latest' \in Nat /\ clock' \in Nat
    BY <1>0, BoundAssumption DEF TypeOK, Snapshotted
<1> USE DEF BucketInv, Writing, PublishedIsSound, Sound
<1> USE DEF serverVars, bucketVars, tdVars
<1>1. ASSUME NEW s \in Stacks, Write(s) PROVE BucketInv'
    BY <1>0, <1>1 DEF Write
<1>2. CASE StartTeardown
    BY <1>0, <1>a, <1>2 DEF StartTeardown, NewTimestamp
<1>3. CASE DumpDatabases \/ StopStacks
    BY <1>0, <1>3 DEF DumpDatabases, StopStacks
<1>4. CASE UploadTrees
  <2>1. latest # 0 => bucket'[latest] = bucket[latest]
      BY <1>0, <1>a, <1>4 DEF UploadTrees, TypeOK
  <2> QED
      BY <1>0, <1>4, <2>1 DEF UploadTrees
<1>5. CASE UploadDumps
  <2>1. latest # 0 => bucket'[latest] = bucket[latest]
      BY <1>0, <1>a, <1>5 DEF UploadDumps, TypeOK
  <2>2. clock \in Snapshotted
      BY <1>0, <1>a, <1>5 DEF UploadDumps, TypeOK
  <2>3. \A d \in Databases : staged[d] = NoDump => bucket'[clock].dumps[d] = NoDump
      BY <1>0, <1>5, <2>2 DEF UploadDumps, TypeOK, Prefix
  <2> QED
      BY <1>0, <1>5, <2>1, <2>3 DEF UploadDumps
<1>6. CASE WriteManifest
  <2>1. latest # 0 => bucket'[latest] = bucket[latest]
      BY <1>0, <1>a, <1>6 DEF WriteManifest, TypeOK
  <2>2. bucket'[clock].dumps = bucket[clock].dumps
      BY <1>0, <1>a, <1>6 DEF WriteManifest, TypeOK, Prefix
  <2> QED
      BY <1>0, <1>6, <2>1, <2>2 DEF WriteManifest
<1>7. CASE CheckUploads
  <2>1. \A s \in Trees : bucket[clock].trees[s] # Damaged
      BY <1>0, <1>7, MarkerAssumption, BoundAssumption
         DEF CheckUploads, UploadsMatch, TypeOK, Versions
  <2>2. \A d \in Databases : bucket[clock].dumps[d] # Damaged
      BY <1>0, <1>7, MarkerAssumption, BoundAssumption
         DEF CheckUploads, UploadsMatch, TypeOK, Versions, Dumps
  <2> QED
      BY <1>0, <1>7, <2>1, <2>2 DEF CheckUploads, UploadsMatch
<1>8. CASE PointLatest
    BY <1>0, <1>a, <1>8 DEF PointLatest
<1>9. CASE Destroy \/ TeardownFails
    BY <1>0, <1>9 DEF Destroy, TeardownFails, EndTeardown
<1>10. CASE SpinUp
  <2>1. UNCHANGED <<bucketVars, tdPc, staged, begun>>
      BY <1>10 DEF SpinUp, StartSpinUp, Apply, EnsureRclone, RestoreFilesystem,
                   ComposeUp, RestorePostgres, EndSpinUp
  <2> QED
      BY <1>0, <2>1
<1>11. CASE UNCHANGED vars
    BY <1>0, <1>11 DEF vars
<1> QED
    BY <1>1, <1>2, <1>3, <1>4, <1>5, <1>6, <1>7, <1>8, <1>9, <1>10, <1>11
       DEF Next, Teardown

\* latest.txt only ever names a complete and undamaged snapshot.
THEOREM PublishedSound == Spec => []PublishedIsSound
<1>1. BucketInv => PublishedIsSound
    BY DEF BucketInv
<1> QED
    BY BucketInit, BucketStep, <1>1, PTL DEF Spec

\* The snapshot that latest.txt names is never written again.
THEOREM PublishedFinal == Spec => PublishedIsFinal
<1> DEFINE Final == \A t \in Snapshotted : latest = t => bucket'[t] = bucket[t]
<1>1. BucketInv /\ [Next]_vars => Final
  <2> SUFFICES ASSUME BucketInv, [Next]_vars PROVE Final
      OBVIOUS
  <2>0. latest \in Nat /\ clock \in Nat
      BY BoundAssumption DEF BucketInv, TypeOK, Snapshotted
  <2>1. CASE UploadTrees \/ UploadDumps \/ WriteManifest
      BY <2>0, <2>1 DEF UploadTrees, UploadDumps, WriteManifest, BucketInv,
                        Writing, TypeOK
  <2>2. CASE ~(UploadTrees \/ UploadDumps \/ WriteManifest)
    <3>1. bucket' = bucket
        BY <2>2 DEF Next, Write, Teardown, StartTeardown, DumpDatabases,
           StopStacks, CheckUploads, PointLatest, Destroy, TeardownFails, SpinUp,
           StartSpinUp, Apply, EnsureRclone, RestoreFilesystem, ComposeUp,
           RestorePostgres, EndSpinUp, bucketVars, vars
    <3> QED
        BY <3>1
  <2> QED
      BY <2>1, <2>2
<1>2. BucketInv /\ [Next]_vars => [Final]_vars
    BY <1>1
<1> QED
    BY BucketInit, BucketStep, <1>2, PTL DEF Spec, PublishedIsFinal

-----------------------------------------------------------------------------
(* The server's data, while no spin-up runs beside the teardown            *)

\* Its own teardown's snapshot is the latest one when a server is destroyed.
\* From the moment the stacks are stopped nobody writes to the trees, so when no
\* spin-up runs the copy that passed the check is still the disk's content then.
TreeInv ==
    /\ BucketInv
    /\ tdPc # "idle" => host # "absent"
    /\ tdPc # "idle" /\ suPc # "idle" => overlapped
    /\ tdPc = "idle" => ~overlapped
    /\ tdPc = "destroy" => latest # 0 /\ latest = clock
    /\ ~overlapped =>
          /\ tdPc \in {"trees", "dumps", "manifest", "check", "point", "destroy"} =>
                running \intersect Trees = {}
          /\ tdPc = "point" => bucket[clock].trees = tree
          /\ tdPc = "destroy" => bucket[latest].trees = tree

\* At first there is no server whose trees could differ.
LEMMA TreeInit == Init => TreeInv
BY BucketInit DEF Init, TreeInv

\* A spin-up step finds no teardown under way, or has already disturbed it.
LEMMA TreeStep ==
    ASSUME TreeInv, [Next]_vars
    PROVE  TreeInv'
<1>0. BucketInv /\ BucketInv' /\ TypeOK /\ TypeOK'
    BY BucketStep DEF TreeInv, BucketInv
<1>a. latest \in Nat /\ clock \in Nat
    BY <1>0, BoundAssumption DEF TypeOK, Snapshotted
<1> USE DEF TreeInv, serverVars, bucketVars, tdVars
<1>1. ASSUME NEW s \in Stacks, Write(s) PROVE TreeInv'
  <2>1. ~overlapped /\ tdPc \in {"trees", "dumps", "manifest", "check", "point", "destroy"}
            => tree' = tree
    <3>1. \A r \in Trees : r \notin running => r # s
        BY <1>1 DEF Write
    <3>2. (running \intersect Trees = {}) => \A r \in Trees : tree'[r] = tree[r]
        BY <1>1, <3>1 DEF Write
    <3>3. tree \in [Trees -> Versions] /\ tree' \in [Trees -> Versions]
        BY <1>0 DEF TypeOK
    <3> QED
        BY <3>2, <3>3
  <2> QED
      BY <1>0, <1>1, <2>1 DEF Write
<1>3. CASE StartTeardown \/ DumpDatabases
    BY <1>0, <1>3 DEF StartTeardown, DumpDatabases
<1>4. CASE StopStacks
    BY <1>0, <1>4 DEF StopStacks
<1>5. CASE UploadTrees \/ UploadDumps \/ WriteManifest
    BY <1>0, <1>5 DEF UploadTrees, UploadDumps, WriteManifest
<1>6. CASE CheckUploads
  <2>1. bucket[clock].trees \in [Trees -> Copies]
      BY <1>0, <1>a, <1>6 DEF CheckUploads, BucketInv, Writing, TypeOK, Prefix
  <2>2. bucket[clock].trees = tree
      BY <1>0, <1>6, <2>1 DEF CheckUploads, UploadsMatch, TypeOK
  <2> QED
      BY <1>0, <1>6, <2>2 DEF CheckUploads
<1>7. CASE PointLatest
    BY <1>0, <1>a, <1>7 DEF PointLatest, BucketInv, Writing
<1>8. CASE Destroy \/ TeardownFails
    BY <1>0, <1>8 DEF Destroy, TeardownFails, EndTeardown
<1>9. CASE StartSpinUp
    BY <1>0, <1>9 DEF StartSpinUp
<1>10. CASE SpinUp /\ ~StartSpinUp
  <2>1. suPc # "idle" /\ UNCHANGED <<bucketVars, tdVars>>
      BY <1>10 DEF SpinUp, Apply, EnsureRclone, RestoreFilesystem,
                   ComposeUp, RestorePostgres, EndSpinUp
  <2>2. host # "absent" => host' # "absent"
      BY <1>10 DEF SpinUp, Apply, EnsureRclone, RestoreFilesystem,
                   ComposeUp, RestorePostgres, EndSpinUp
  <2> QED
      BY <1>0, <2>1, <2>2
<1>11. CASE UNCHANGED vars
    BY <1>0, <1>11 DEF vars
<1> QED
    BY <1>1, <1>3, <1>4, <1>5, <1>6, <1>7, <1>8, <1>9, <1>10, <1>11
       DEF Next, Teardown

\* Only the teardown's last step takes the server away.
LEMMA OnlyDestroy ==
    ASSUME [Next]_vars, ServerDestroyed
    PROVE  Destroy
BY DEF ServerDestroyed, Next, Write, Teardown, StartTeardown, DumpDatabases,
   StopStacks, UploadTrees, UploadDumps, WriteManifest, CheckUploads, PointLatest,
   TeardownFails, SpinUp, StartSpinUp, Apply, EnsureRclone, RestoreFilesystem,
   ComposeUp, RestorePostgres, EndSpinUp, serverVars, vars

\* The server is destroyed only after its own teardown has published, and with
\* its file trees saved unless a spin-up ran beside the teardown.
THEOREM DestroyedTreesSaved == Spec => DestroyedTreesAreSaved
<1> DEFINE Saved ==
        ServerDestroyed =>
            /\ latest # 0 /\ latest = clock
            /\ ~overlapped => bucket[latest].trees = tree
<1>1. TreeInv /\ [Next]_vars => [Saved]_vars
    BY OnlyDestroy DEF Destroy, TreeInv
<1>2. TreeInv /\ [Next]_vars => TreeInv'
    BY TreeStep
<1> QED
    BY TreeInit, <1>1, <1>2, PTL DEF Spec, DestroyedTreesAreSaved

-----------------------------------------------------------------------------
(* Implementation of SafeTeardown                                          *)

\* The first state of the two runs is the abstract one.
LEMMA AbstractInit == Init => Abstract!Init
BY DEF Init, Abstract!Init

\* PointLatest is the abstract Save, Destroy the abstract Destroy; whatever
\* creates the server or changes its trees is Change, and the rest stutters.
LEMMA AbstractStep ==
    ASSUME TreeInv, [Next]_vars
    PROVE  [Abstract!Next]_Abstract!vars
<1>0. BucketInv /\ TypeOK /\ TypeOK' /\ TreeInv'
    BY TreeStep DEF TreeInv, BucketInv
<1>a. latest \in Nat /\ clock \in Nat
    BY <1>0, BoundAssumption DEF TypeOK, Snapshotted
<1> USE DEF serverVars, bucketVars, tdVars
<1>1. CASE PointLatest
  <2>1. latest' = clock /\ clock # 0 /\ bucket' = bucket
            /\ UNCHANGED <<host, tree, overlapped>>
      BY <1>0, <1>a, <1>1 DEF PointLatest, BucketInv, Writing
  <2>2. host # "absent" /\ (~overlapped => bucket[clock].trees = tree)
      BY <1>1 DEF PointLatest, TreeInv
  <2>3. bucket[clock].trees \in [Trees -> Versions]
    <3>1. clock \in Snapshotted /\ Sound(clock)
        BY <1>0, <1>a, <1>1, <2>1 DEF PointLatest, BucketInv, TypeOK
    <3> QED
        BY <1>0, <3>1 DEF Sound, TypeOK, Prefix, Copies
  <2>4. Abstract!Save
      BY <2>1, <2>2, <2>3 DEF Abstract!Save
  <2> QED
      BY <2>4 DEF Abstract!Next
<1>2. CASE Destroy
  <2>1. Abstract!Destroy
      BY <1>2 DEF Destroy, EndTeardown, TreeInv, Abstract!Destroy
  <2> QED
      BY <2>1 DEF Abstract!Next
<1>3. CASE ~PointLatest /\ ~Destroy
  <2>1. latest' = latest
      BY <1>3 DEF Next, Write, Teardown, StartTeardown, DumpDatabases,
         StopStacks, UploadTrees, UploadDumps, WriteManifest, CheckUploads,
         TeardownFails, EndTeardown, SpinUp, StartSpinUp, Apply, EnsureRclone,
         RestoreFilesystem, ComposeUp, RestorePostgres, EndSpinUp, vars
  <2>2. latest # 0 => bucket'[latest] = bucket[latest]
    <3>1. CASE UploadTrees \/ UploadDumps \/ WriteManifest
        BY <1>0, <1>a, <3>1 DEF UploadTrees, UploadDumps, WriteManifest,
           BucketInv, Writing, TypeOK
    <3>2. CASE ~(UploadTrees \/ UploadDumps \/ WriteManifest)
        BY <1>3, <3>2 DEF Next, Write, Teardown, StartTeardown,
           DumpDatabases, StopStacks, CheckUploads, TeardownFails, SpinUp,
           StartSpinUp, Apply, EnsureRclone, RestoreFilesystem, ComposeUp,
           RestorePostgres, EndSpinUp, vars
    <3> QED
        BY <3>1, <3>2
  <2>3. host # "absent" => host' # "absent"
      BY <1>3, OnlyDestroy DEF ServerDestroyed
  <2>4. CASE host' = "absent"
    <3>1. overlapped = FALSE /\ overlapped' = FALSE
        BY <1>0, <2>3, <2>4 DEF TreeInv, TypeOK
    <3> QED
        BY <2>1, <2>2, <2>3, <2>4, <3>1 DEF Abstract!vars
  <2>5. CASE host' # "absent"
    <3>1. tree' \in [Trees -> Versions]
        BY <1>0 DEF TypeOK
    <3>2. overlapped' \in BOOLEAN
        BY <1>0 DEF TypeOK
    <3>3. Abstract!Change
        BY <2>1, <2>2, <2>5, <3>1, <3>2 DEF Abstract!Change
    <3> QED
        BY <3>3 DEF Abstract!Next
  <2> QED
      BY <2>4, <2>5
<1> QED
    BY <1>1, <1>2, <1>3

\* The rebuild pair implements the abstract promise of the persistence layer.
THEOREM TeardownSafe == Spec => TeardownIsSafe
<1>1. TreeInv /\ [Next]_vars => TreeInv'
    BY TreeStep
<1>2. TreeInv /\ [Next]_vars => [Abstract!Next]_Abstract!vars
    BY AbstractStep
<1> QED
    BY TreeInit, AbstractInit, <1>1, <1>2, PTL DEF Spec, TeardownIsSafe, Abstract!Spec

-----------------------------------------------------------------------------
(* The databases                                                           *)

\* What ran at the beginning is dumped before it is stopped; from then on the
\* dump, in WORKDIR or in the bucket, has no fewer writes than begun.
DumpInv ==
    /\ TreeInv
    /\ ~overlapped /\ tdPc = "dump" =>
          \A d \in Databases : begun[d] # NoDump => d \in running /\ db[d] >= begun[d]
    /\ ~overlapped /\ tdPc \in {"stop", "trees", "dumps", "manifest", "check", "point"} =>
          \A d \in Databases :
              begun[d] # NoDump => staged[d] \in Nat /\ staged[d] >= begun[d]
    /\ tdPc = "point" =>
          \A d \in Databases : staged[d] # NoDump => bucket[clock].dumps[d] = staged[d]
    /\ ~overlapped /\ tdPc = "destroy" =>
          \A d \in Databases :
              begun[d] # NoDump =>
                  bucket[latest].dumps[d] \in Nat /\ bucket[latest].dumps[d] >= begun[d]

\* At first no run has dumped anything.
LEMMA DumpInit == Init => DumpInv
BY TreeInit DEF Init, DumpInv

\* Every step keeps DumpInv.
LEMMA DumpStep ==
    ASSUME DumpInv, [Next]_vars
    PROVE  DumpInv'
<1>0. TreeInv /\ TreeInv' /\ BucketInv /\ TypeOK /\ TypeOK'
    BY TreeStep DEF DumpInv, TreeInv, BucketInv
<1> USE BoundAssumption, MarkerAssumption
    DEF DumpInv, serverVars, bucketVars, tdVars
<1>1. ASSUME NEW s \in Stacks, Write(s) PROVE DumpInv'
    BY <1>0, <1>1 DEF Write, TypeOK, Versions, Dumps
<1>3. CASE StartTeardown
    BY <1>0, <1>3 DEF StartTeardown, TypeOK, Versions
<1>4. CASE DumpDatabases
    BY <1>0, <1>4 DEF DumpDatabases, TypeOK, Versions
<1>5. CASE StopStacks \/ UploadTrees \/ UploadDumps \/ WriteManifest
    BY <1>0, <1>5 DEF StopStacks, UploadTrees, UploadDumps, WriteManifest
<1>6. CASE CheckUploads
    BY <1>0, <1>6 DEF CheckUploads, UploadsMatch
<1>7. CASE PointLatest
    BY <1>0, <1>7 DEF PointLatest, TypeOK, Versions, Dumps
<1>8. CASE Destroy \/ TeardownFails
    BY <1>0, <1>8 DEF Destroy, TeardownFails, EndTeardown
<1>9. CASE StartSpinUp
    BY <1>0, <1>9 DEF StartSpinUp
<1>10. CASE SpinUp /\ ~StartSpinUp
  <2>1. (tdPc = "idle" \/ overlapped) /\ UNCHANGED <<bucketVars, tdVars>>
      BY <1>0, <1>10 DEF TreeInv, SpinUp, Apply, EnsureRclone, RestoreFilesystem,
                   ComposeUp, RestorePostgres, EndSpinUp
  <2> QED
      BY <1>0, <2>1
<1>11. CASE UNCHANGED vars
    BY <1>0, <1>11 DEF vars
<1> QED
    BY <1>1, <1>3, <1>4, <1>5, <1>6, <1>7, <1>8, <1>9, <1>10, <1>11
       DEF Next, Teardown

\* A database that ran when its teardown began is in the latest snapshot, with
\* the writes it had at the beginning, when its server is destroyed, unless a
\* spin-up ran beside the teardown.
THEOREM RunningDatabasesSaved == Spec => RunningDatabasesAreSaved
<1> DEFINE Saved ==
        ServerDestroyed /\ ~overlapped =>
            \A d \in Databases : begun[d] # NoDump =>
                /\ latest # 0
                /\ bucket[latest].dumps[d] \in Nat
                /\ bucket[latest].dumps[d] >= begun[d]
<1>1. DumpInv /\ [Next]_vars => [Saved]_vars
    BY OnlyDestroy DEF Destroy, DumpInv, TreeInv
<1>2. DumpInv /\ [Next]_vars => DumpInv'
    BY DumpStep
<1> QED
    BY DumpInit, <1>1, <1>2, PTL DEF Spec, RunningDatabasesAreSaved

=============================================================================

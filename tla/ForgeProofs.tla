---------------------------- MODULE ForgeProofs ----------------------------
(* The proofs about Forge, for any list of mirrors, any seed files and any  *)
(* number of runs, faults and generations of passwords.  A run is a row of  *)
(* phases with a loop over the mirrors, and the invariant says of each what *)
(* holds from it on while no phase was partial, and what a run without a    *)
(* fault has made sure of besides. A number of steps that are left bounds   *)
(* the length of a run.                                                     *)
EXTENDS Forge, FiniteSetTheorems, SequenceTheorems, NaturalsInduction, WellFoundedInduction,
        TLAPS

-----------------------------------------------------------------------------
\* How far a run has come: each set holds the phases from one on.

\* The phases from mirror-finalize on.
FromFinalize == {"finalize"}
\* The phases from mirror-seed-rerun on.
FromReseed == FromFinalize \cup {"reseed"}
\* The steps of mirror-setup at one mirror, after its migration.
AtMirror == {"reader", "forktoken", "fork", "droptoken", "sync", "merge"}
\* The loop of mirror-setup.
Mirroring == AtMirror \cup {"mirror"}
\* The phases from that loop on.
FromMirror == FromReseed \cup Mirroring
\* The phases from mirror-setup on.
FromUid == FromMirror \cup {"uid"}
\* The phases from woodpecker-apply on.
FromApply == FromUid \cup {"apply"}
\* The phases from woodpecker-oauth on.
FromOauth == FromApply \cup {"oauth", "rotate", "create"}
\* The phases from seed on.
FromSeed == FromOauth \cup {"seed"}
\* The phases from compose-restart on.
FromRestart == FromSeed \cup {"restart"}
\* The phases from forgejo-runner-register on.
FromRegister == FromRestart \cup {"register"}
\* The steps from the end of forgejo-configure on.
FromConfigured == FromRegister \cup {"configured"}
\* The steps from the one that makes the user a writer on.
FromWriter == FromConfigured \cup {"writer"}
\* The steps from the creation of the workspace repository on.
FromRepo == FromWriter \cup {"repo"}
\* The steps from the automation token on.
FromToken == FromRepo \cup {"token"}
\* The steps from the user's account on.
FromUser == FromToken \cup {"user"}
\* The steps from the admin's account on.
FromAdmin == FromUser \cup {"admin"}
\* The steps from the listing of the accounts on.
FromList == FromAdmin \cup {"list", "heal"}
\* The steps up to the listing of the OAuth applications.
ToOauth == (Steps \ FromOauth) \cup {"oauth"}

-----------------------------------------------------------------------------
\* What the invariant speaks of.

\* The mirrors in a list.
Rest(s) == {s[i] : i \in DOMAIN s}

\* No phase was partial, and forgejo-configure will not be: what
\* OkMeansProvisioned starts from.
Fine == run.status = "ok" /\ run.conf
\* Nothing has gone wrong in a run with a user whose admin could log in to
\* correct its mail: what CleanRunRepairs starts from.
Repairs == run.clean /\ run.user /\ ~run.stale

\* The repository has every seed file.
AllSeeded(repo) == \A f \in SeedFiles : <<repo, f>> \in forge.seeded
\* The mirror that is forked, if nothing goes wrong.
First == Head(MirrorList)

-----------------------------------------------------------------------------
\* The inductive invariant, one part per matter. OkMeansProvisioned and
\* CleanRunRepairs only speak of the end of a run, PartialRotationKeepsLogin of
\* one step of it.

\* forgejo-configure is only ok when none of its steps that count has failed.
Confirmed == pc \in FromRegister /\ run.status = "ok" => run.conf

\* The database has the current password once Forgejo is ready, and before that
\* if the call that set it was answered.
Database == /\ pc \in FromList /\ Fine => forge.db = epoch
            /\ pc = "ready" /\ run.clean => forge.db = epoch

\* From its step on, an account has the current password. Only the correction
\* of the mail can find the admin's not to be current.
Accounts == /\ pc \in {"db", "ready", "list", "heal"} => ~run.stale
            /\ pc \in FromUser /\ Fine => forge.account["admin"].pw = epoch
            /\ pc \in FromToken /\ Fine => forge.account[Identity.local].pw = epoch

\* From its step on, the token is there, and the run has it.
Tokens == /\ pc \in FromRepo /\ Fine => run.token /\ forge.token
          /\ pc \in {"repo", "writer"} => ~run.mirror

\* The workspace repository is there before it is public, and from its step on.
Sharing == /\ forge.public => Workspace \in forge.repos
           /\ pc = "writer" => Workspace \in forge.repos
           /\ pc \in FromWriter /\ Fine /\ ~run.mirror => Workspace \in forge.repos

\* The runner is registered from its phase on.
Running == pc \in FromRestart /\ Fine => forge.runner

\* The seed files are in the workspace from their phase on, and in the fork
\* after the second one, on a server with jq.
Seeding == /\ pc \in FromOauth /\ Fine /\ run.jq /\ ~run.mirror => AllSeeded(Workspace)
           /\ pc = "finalize" /\ Fine /\ run.jq /\ run.fork # NoRepo => AllSeeded(run.fork)

\* A login that worked when the run began works until the first deletion; a run
\* that goes on without a new client has deleted nothing; and from woodpecker-
\* apply on, Woodpecker has the only application.
LoggingIn ==
  /\ pc \in ToOauth => ~run.rotating
  /\ pc \in ToOauth \cup {"rotate", "create"} /\ ~run.rotating /\ run.login =>
       woodpecker.container \in forge.apps
  /\ pc = "create" => forge.apps = {}
  /\ pc = "apply" /\ run.client = 0 /\ run.login => woodpecker.container \in forge.apps
  /\ pc = "apply" /\ Fine => run.client # 0 /\ forge.apps = {run.client}
  /\ pc \in FromUid /\ Fine =>
       forge.apps = {woodpecker.container} /\ woodpecker.env = woodpecker.container

\* The loop over the mirrors: each step has the mirror and the fork it works
\* on, and every mirror is there or still to come.
Looping ==
  /\ pc \in Steps \ FromMirror => run.fork = NoRepo
  /\ pc \in Mirroring \cup {"uid"} => run.mirror
  /\ pc \in AtMirror => run.left # <<>> /\ Mirror(Head(run.left)) \in forge.repos
  /\ pc \in {"sync", "merge"} => run.fork # NoRepo
  /\ pc \in {"forktoken", "fork"} => run.fork = NoRepo
  /\ run.fork # NoRepo => /\ run.mirror /\ run.fork \in forge.repos
                         /\ \E m \in Mirrors : run.fork = Fork(m)
  /\ pc \in Mirroring /\ Fine =>
       \A m \in Mirrors : Mirror(m) \in forge.repos \/ m \in Rest(run.left)
  /\ pc \in FromReseed /\ Fine /\ run.mirror => \A m \in Mirrors : Mirror(m) \in forge.repos

\* No repository is ahead of GitHub, and the first mirror has not lost a commit
\* since the run began.
Heads == /\ \A r \in Repos : forge.head[r] <= upstream
         /\ pc # "idle" => forge.head[Mirror(First)] >= run.seen

\* With a user, nobody but the admin has the admin's mail.
Mailing == run.user => /\ forge.account["ops"] = Absent
                       /\ forge.account["student"].mail # "admin@"

\* What a run without a fault makes sure of besides: no phase of it is partial,
\* the workspace is private, shared and cloned, and the first mirror is the one
\* that is forked, fetched and merged.
Repairing ==
  pc # "idle" /\ Repairs =>
    /\ Fine
    /\ pc \in {"heal", "admin"} => (run.known <=> forge.account["admin"] # Absent)
    /\ pc \in FromAdmin => forge.account["admin"].mail # "student@"
    /\ ~run.mirror => /\ pc \in FromWriter => ~forge.public
                      /\ pc \in FromConfigured => <<"student", Workspace>> \in forge.members
                      /\ pc \in FromSeed => clone = Workspace
    /\ run.mirror =>
         /\ pc \in Mirroring /\ run.fork = NoRepo => run.left = MirrorList
         /\ run.fork # NoRepo => run.fork = Fork(First)
         /\ pc \in {"droptoken", "sync", "merge"} => run.fork # NoRepo /\ run.left = MirrorList
         /\ pc \in {"forktoken", "fork"} => <<"student", Mirror(Head(run.left))>> \in forge.members
         /\ pc \in {"sync", "merge"} => ~forge.forkToken
         /\ pc \in {"mirror", "reader"} /\ run.fork # NoRepo =>
              ~forge.forkToken /\ forge.head[run.fork] >= run.seen
         /\ pc \in FromReseed => /\ run.fork # NoRepo /\ ~forge.forkToken
                                 /\ forge.head[run.fork] >= run.seen

\* The inductive invariant.
ForgeInv == /\ TypeOK /\ Confirmed /\ Database /\ Accounts /\ Tokens /\ Sharing /\ Running
            /\ Seeding /\ LoggingIn /\ Looping /\ Heads /\ Mailing /\ Repairing

-----------------------------------------------------------------------------
\* The operators the steps share.

\* The faults of a list of calls are counted by a finite set.
LEMMA Counting ==
  ASSUME NEW n \in Nat, NEW rs, DOMAIN rs = 1 .. n
  PROVE  Bad(rs) \in Nat /\ (Bad(rs) = 0 <=> \A i \in 1 .. n : rs[i] = "ok")
<1> DEFINE B == {i \in DOMAIN rs : rs[i] # "ok"}
<1>1. IsFiniteSet(1 .. n) /\ B \in SUBSET (1 .. n)
  BY FS_Interval
<1>2. IsFiniteSet(B)
  BY <1>1, FS_Subset
<1>3. Cardinality(B) \in Nat /\ (Cardinality(B) = 0 <=> B = {})
  BY <1>2, FS_CardinalityType, FS_EmptySet
<1> QED  BY <1>3 DEF Bad

\* No call is no fault.
LEMMA NoCall == Bad(<<>>) = 0
<1>1. DOMAIN <<>> = 1 .. 0
  OBVIOUS
<1> QED  BY <1>1, Counting

\* One call is no fault if it is answered.
LEMMA OneCall == \A a : Bad(<<a>>) \in Nat /\ (Bad(<<a>>) = 0 <=> a = "ok")
<1> TAKE a
<1>1. DOMAIN <<a>> = 1 .. 1 /\ <<a>>[1] = a
  OBVIOUS
<1>2. \A i \in 1 .. 1 : i = 1
  OBVIOUS
<1>3. Bad(<<a>>) \in Nat /\ (Bad(<<a>>) = 0 <=> \A i \in 1 .. 1 : <<a>>[i] = "ok")
  BY <1>1, Counting
<1> QED  BY <1>1, <1>2, <1>3

\* Two calls are no fault if both are answered.
LEMMA TwoCalls == \A a, b : Bad(<<a, b>>) \in Nat /\ (Bad(<<a, b>>) = 0 <=> a = "ok" /\ b = "ok")
<1> TAKE a, b
<1>1. DOMAIN <<a, b>> = 1 .. 2 /\ <<a, b>>[1] = a /\ <<a, b>>[2] = b
  OBVIOUS
<1>2. \A i \in 1 .. 2 : i = 1 \/ i = 2
  OBVIOUS
<1>3. Bad(<<a, b>>) \in Nat /\ (Bad(<<a, b>>) = 0 <=> \A i \in 1 .. 2 : <<a, b>>[i] = "ok")
  BY <1>1, Counting
<1> QED  BY <1>1, <1>2, <1>3

\* Three calls are no fault if all are answered.
LEMMA ThreeCalls == \A a, b, c : /\ Bad(<<a, b, c>>) \in Nat
                                 /\ Bad(<<a, b, c>>) = 0 <=> a = "ok" /\ b = "ok" /\ c = "ok"
<1> TAKE a, b, c
<1>1. DOMAIN <<a, b, c>> = 1 .. 3 /\ <<a, b, c>>[1] = a /\ <<a, b, c>>[2] = b /\ <<a, b, c>>[3] = c
  OBVIOUS
<1>2. \A i \in 1 .. 3 : i = 1 \/ i = 2 \/ i = 3
  OBVIOUS
<1>3. Bad(<<a, b, c>>) \in Nat /\ (Bad(<<a, b, c>>) = 0 <=> \A i \in 1 .. 3 : <<a, b, c>>[i] = "ok")
  BY <1>1, Counting
<1> QED  BY <1>1, <1>2, <1>3

\* The faults never exceed their bound.
LEMMA Spending ==
  ASSUME TypeOK, NEW rs, Bad(rs) \in Nat, Spend(rs)
  PROVE  faults' \in 0 .. MaxFaults
BY ForgeAssumption DEF TypeOK, Spend

\* What Noted leaves alone in the run, and when it stays clean and ok.
LEMMA Noting ==
  ASSUME TypeOK, NEW rs, NEW s \in Statuses
  PROVE  /\ Noted(rs, s) \in RunRecords
         /\ Noted(rs, s).mirror = run.mirror /\ Noted(rs, s).user = run.user
         /\ Noted(rs, s).known = run.known /\ Noted(rs, s).conf = run.conf
         /\ Noted(rs, s).token = run.token /\ Noted(rs, s).stale = run.stale
         /\ Noted(rs, s).fork = run.fork /\ Noted(rs, s).tried = run.tried
         /\ Noted(rs, s).rotating = run.rotating /\ Noted(rs, s).client = run.client
         /\ Noted(rs, s).left = run.left /\ Noted(rs, s).login = run.login
         /\ Noted(rs, s).seen = run.seen /\ Noted(rs, s).jq = run.jq
         /\ Noted(rs, s).clean <=> run.clean /\ Bad(rs) = 0
         /\ Noted(rs, s).status = "ok" <=> run.status = "ok" /\ s = "ok"
<1>1. run \in RunRecords
  BY DEF TypeOK, RunRecords, Statuses
<1>2. Worse(run.status, s) \in Statuses /\ (Worse(run.status, s) = "ok" <=> run.status = "ok" /\ s = "ok")
  BY <1>1 DEF Worse, Statuses, RunRecords
<1> DEFINE clean == run.clean /\ Bad(rs) = 0
           st == Worse(run.status, s)
<1>3. clean \in BOOLEAN /\ st \in Statuses
  BY <1>2
<1>4. Noted(rs, s) = [run EXCEPT !.clean = clean, !.status = st]
  BY DEF Noted
<1>5. (clean <=> run.clean /\ Bad(rs) = 0) /\ (st = "ok" <=> run.status = "ok" /\ s = "ok")
  BY <1>2
<1> HIDE DEF clean, st
<1>6. /\ Noted(rs, s) \in RunRecords /\ Noted(rs, s).clean = clean /\ Noted(rs, s).status = st
      /\ Noted(rs, s).mirror = run.mirror /\ Noted(rs, s).user = run.user
      /\ Noted(rs, s).known = run.known /\ Noted(rs, s).conf = run.conf
      /\ Noted(rs, s).token = run.token /\ Noted(rs, s).stale = run.stale
      /\ Noted(rs, s).fork = run.fork /\ Noted(rs, s).tried = run.tried
      /\ Noted(rs, s).rotating = run.rotating /\ Noted(rs, s).client = run.client
      /\ Noted(rs, s).left = run.left /\ Noted(rs, s).login = run.login
      /\ Noted(rs, s).seen = run.seen /\ Noted(rs, s).jq = run.jq
  BY <1>1, <1>3, <1>4 DEF RunRecords
<1> QED  BY <1>5, <1>6

\* The lists of mirrors still to come: each begins with a mirror, and its tail
\* is such a list again.
LEMMA Suffixing ==
  /\ MirrorList \in Suffixes /\ Rest(MirrorList) = Mirrors /\ Rest(<<>>) = {}
  /\ \A s \in Suffixes \cup {<<>>} : s # <<>> =>
       /\ Head(s) \in Mirrors /\ Tail(s) \in Suffixes
       /\ \A m \in Rest(s) : m = Head(s) \/ m \in Rest(Tail(s))
<1> DEFINE n == Len(MirrorList)
           X(i) == SubSeq(MirrorList, i, n)
<1>1. MirrorList \in Seq(STRING) /\ MirrorList # <<>> /\ n \in Nat /\ n >= 1 /\ DOMAIN MirrorList = 1 .. n
  BY ForgeAssumption
<1>2. X(1) = MirrorList /\ 1 \in 1 .. n + 1
  BY <1>1, SubSeqFull
<1>3. MirrorList \in Suffixes
  BY <1>2 DEF Suffixes
<1>4. Rest(MirrorList) = Mirrors /\ Rest(<<>>) = {}
  BY DEF Rest, Mirrors
<1>5. ASSUME NEW s \in Suffixes, s # <<>>
      PROVE  /\ Head(s) \in Mirrors /\ Tail(s) \in Suffixes
             /\ \A m \in Rest(s) : m = Head(s) \/ m \in Rest(Tail(s))
  <2>1. PICK i \in 1 .. n + 1 : s = X(i)
    BY DEF Suffixes
  <2>2. i # n + 1
    BY <1>1, <1>5, <2>1, SubSeqEmpty
  <2>3. i \in 1 .. n /\ n \in i .. n
    BY <1>1, <2>2
  <2>4. Head(s) = MirrorList[i] /\ Tail(s) = X(i + 1)
    BY <1>1, <2>1, <2>3, HeadTailOfSubSeq
  <2>5. i + 1 \in 1 .. n + 1 /\ i \in DOMAIN MirrorList
    BY <1>1, <2>3
  <2>6. X(i + 1) \in Suffixes
    BY <2>5 DEF Suffixes
  <2>7. MirrorList[i] \in Mirrors
    BY <2>5 DEF Mirrors
  <2>8. Head(s) \in Mirrors /\ Tail(s) \in Suffixes
    BY <2>4, <2>6, <2>7
  <2>9. \A j \in i .. n : MirrorList[j] \in STRING
    BY <1>1, <2>3
  <2>10. s \in Seq(STRING)
    BY <1>1, <2>1, <2>3, <2>9, SubSeqProperties
  <2>11. /\ Head(s) = s[1] /\ DOMAIN s = 1 .. Len(s) /\ Len(s) \in Nat
        /\ Tail(s) \in Seq(STRING) /\ Len(Tail(s)) = Len(s) - 1
        /\ \A j \in 1 .. Len(Tail(s)) : Tail(s)[j] = s[j + 1]
    BY <1>5, <2>10, HeadTailProperties
  <2>12. DOMAIN Tail(s) = 1 .. Len(s) - 1
    BY <2>11
  <2>13. ASSUME NEW j \in DOMAIN s
         PROVE  s[j] = Head(s) \/ s[j] \in Rest(Tail(s))
    <3>1. CASE j = 1
      BY <3>1, <2>11
    <3>2. CASE j # 1
      <4>1. j - 1 \in 1 .. Len(Tail(s)) /\ (j - 1) + 1 = j
        BY <3>2, <2>11
      <4>2. Tail(s)[j - 1] = s[j] /\ j - 1 \in DOMAIN Tail(s)
        BY <4>1, <2>11, <2>12
      <4> QED  BY <4>2 DEF Rest
    <3> QED  BY <3>1, <3>2
  <2> QED  BY <2>8, <2>13 DEF Rest
<1> QED  BY <1>3, <1>4, <1>5

\* Repositories with different names are different.
LEMMA RepoNames ==
  /\ Workspace \in Repos /\ NoRepo \notin Repos
  /\ \A m \in Mirrors : /\ Mirror(m) \in Repos /\ Fork(m) \in Repos
                        /\ Mirror(m) # Workspace /\ Fork(m) # Workspace
                        /\ \A k \in Mirrors : /\ Mirror(m) # Fork(k)
                                              /\ Fork(m) = Fork(k) => m = k
BY DEF Repos, Workspace, Mirror, Fork, NoRepo

\* There is a first mirror.
LEMMA FirstMirror == First \in Mirrors
BY Suffixing, ForgeAssumption DEF First

-----------------------------------------------------------------------------
USE DEF FromFinalize, FromReseed, AtMirror, Mirroring, FromMirror, FromUid, FromApply, FromOauth,
        FromSeed, FromRestart, FromRegister, FromConfigured, FromWriter, FromRepo, FromToken,
        FromUser, FromAdmin, FromList, ToOauth, Steps

-----------------------------------------------------------------------------
\* Every action keeps the invariant.

\* The initial states satisfy the invariant.
LEMMA InitKeeps == Init => ForgeInv
<1> SUFFICES ASSUME Init PROVE ForgeInv
  OBVIOUS
<1>1. PICK collide \in BOOLEAN, fresh \in BOOLEAN, old \in {{}, {1, 2}} :
         /\ forge = [db |-> 1,
                   account |-> [n \in Names |->
                      IF n = "admin" /\ ~fresh
                      THEN [pw |-> 1, mail |-> IF collide THEN "student@"
                                               ELSE "admin@"]
                      ELSE Absent],
                   token |-> FALSE, repos |-> {}, public |-> FALSE,
                   members |-> {}, seeded |-> {}, apps |-> old,
                   forkToken |-> FALSE, runner |-> FALSE,
                   head |-> [r \in Repos |-> 0]]
         /\ woodpecker = IF old = {} THEN Client(0, 0) ELSE Client(1, 1)
  BY DEF Init
<1>2. PICK user \in BOOLEAN :
     run = [mirror |-> FALSE, user |-> user, known |-> FALSE, conf |-> TRUE,
            token |-> FALSE, stale |-> FALSE, fork |-> NoRepo, tried |-> FALSE,
            rotating |-> FALSE, client |-> 0, left |-> <<>>, jq |-> TRUE,
            login |-> FALSE, seen |-> 0, status |-> "ok", clean |-> FALSE]
  BY DEF Init
<1>3. clone = NoRepo /\ epoch = 1 /\ upstream = 0 /\ pc = "idle" /\ faults = 0 /\ runs = 0
  BY DEF Init
<1>4. 1 \in 1 .. MaxEpoch /\ 0 \in 0 .. MaxFaults /\ 0 \in 0 .. MaxRuns /\ {1, 2} \subseteq AppIds
  BY ForgeAssumption DEF AppIds
<1> DEFINE acc == [n \in Names |->
                      IF n = "admin" /\ ~fresh
                      THEN [pw |-> 1, mail |-> IF collide THEN "student@"
                                               ELSE "admin@"]
                      ELSE Absent]
<1>5. acc \in [Names -> Account] /\ acc["ops"] = Absent /\ acc["student"] = Absent
  BY <1>4 DEF Names, Account, Mails
<1> HIDE DEF acc
<1>6. /\ forge = [db |-> 1, account |-> acc, token |-> FALSE, repos |-> {}, public |-> FALSE,
                 members |-> {}, seeded |-> {}, apps |-> old, forkToken |-> FALSE,
                 runner |-> FALSE, head |-> [r \in Repos |-> 0]]
  BY <1>1 DEF acc
<1>7. /\ forge \in ForgeRecords /\ forge.account = acc /\ forge.repos = {} /\ forge.members = {}
      /\ forge.seeded = {} /\ forge.public = FALSE /\ forge.head = [r \in Repos |-> 0]
  BY <1>4, <1>5, <1>6 DEF ForgeRecords
<1>8. run \in RunRecords /\ run.fork = NoRepo /\ run.rotating = FALSE /\ run.login = FALSE
  BY <1>2 DEF RunRecords, Statuses
<1>9. TypeOK
  BY <1>1, <1>3, <1>4, <1>7, <1>8 DEF TypeOK, Client
<1>10. \A r \in Repos : forge.head[r] <= upstream
  BY <1>7, <1>3
<1>11. Mailing
  BY <1>5, <1>7 DEF Mailing, Absent
<1> QED  BY <1>3, <1>7, <1>8, <1>9, <1>10, <1>11
         DEF ForgeInv, Confirmed, Database, Accounts, Tokens, Sharing, Running, Seeding, LoggingIn,
             Looping, Heads, Repairing

USE DEF Confirmed, Database, Accounts, Tokens, Sharing, Running, Seeding, LoggingIn, Looping, Heads,
        Mailing, Repairing, Fine, Repairs, AllSeeded, Statuses

\* The user's names, and those of the admin who stands in for a missing user.
LEMMA LocalName ==
  ASSUME run \in RunRecords
  PROVE  /\ Identity.local = IF run.user THEN "student" ELSE "ops"
         /\ Identity.login = IF run.user THEN "student" ELSE "admin"
         /\ Identity.mail = IF run.user THEN "student@" ELSE "admin@"
         /\ run'.user = run.user => Identity' = Identity
BY DEF Identity, GitIdentity, RunRecords

\* Setting the database's password.
LEMMA SyncDbPasswordKeeps == ForgeInv /\ SyncDbPassword => ForgeInv'
<1> SUFFICES ASSUME ForgeInv, SyncDbPassword PROVE ForgeInv'
  OBVIOUS
<1>1. TypeOK /\ forge \in ForgeRecords /\ run \in RunRecords
  BY DEF ForgeInv, TypeOK
<1>2. PICK r \in Calls :
       /\ Spend(<<r>>)
       /\ forge' = IF Applied(r) THEN [forge EXCEPT !.db = epoch] ELSE forge
       /\ run' = Noted(<<r>>, "ok")
  BY DEF SyncDbPassword
<1>3. pc = "db" /\ pc' = "ready" /\ UNCHANGED <<woodpecker, clone, epoch, upstream, runs>>
  BY DEF SyncDbPassword
<1>4. forge' = [forge EXCEPT !.db = IF Applied(r) THEN epoch ELSE @]
  BY <1>1, <1>2 DEF ForgeRecords
<1>5. /\ forge' \in ForgeRecords /\ forge'.repos = forge.repos /\ forge'.members = forge.members
      /\ forge'.account = forge.account /\ forge'.token = forge.token
      /\ forge'.public = forge.public /\ forge'.seeded = forge.seeded /\ forge'.apps = forge.apps
      /\ forge'.forkToken = forge.forkToken /\ forge'.runner = forge.runner /\ forge'.head = forge.head
      /\ Applied(r) => forge'.db = epoch
  BY <1>1, <1>4 DEF ForgeRecords, TypeOK
<1>6. faults' \in 0 .. MaxFaults /\ run' \in RunRecords
  BY <1>1, <1>2, OneCall, Spending, Noting
<1>7. TypeOK'
  BY <1>1, <1>3, <1>5, <1>6 DEF TypeOK
<1> QED  BY <1>1, <1>2, <1>3, <1>5, <1>7, Noting, OneCall, LocalName
           DEF ForgeInv, RunRecords, Applied

\* Waiting for the health check.
LEMMA WaitReadyKeeps == ForgeInv /\ WaitReady => ForgeInv'
<1> SUFFICES ASSUME ForgeInv, WaitReady PROVE ForgeInv'
  OBVIOUS
<1>1. TypeOK /\ forge \in ForgeRecords /\ run \in RunRecords
  BY DEF ForgeInv, TypeOK
<1>2. PICK r \in Reads :
       /\ Spend(<<r>>)
       /\ IF r = "ok" /\ Healthy
          THEN pc' = "list" /\ run' = run
          ELSE pc' = "register" /\ run' = Noted(<<r>>, "partial")
  BY DEF WaitReady
<1>3. pc = "ready" /\ UNCHANGED <<forge, woodpecker, clone, epoch, upstream, runs>>
  BY DEF WaitReady
<1>4. faults' \in 0 .. MaxFaults /\ run' \in RunRecords
  BY <1>1, <1>2, OneCall, Spending, Noting
<1>5. TypeOK'
  BY <1>1, <1>2, <1>3, <1>4 DEF TypeOK
<1>6. /\ run'.mirror = run.mirror /\ run'.user = run.user /\ run'.conf = run.conf
      /\ run'.known = run.known
      /\ run'.token = run.token /\ run'.stale = run.stale /\ run'.fork = run.fork
      /\ run'.rotating = run.rotating /\ run'.login = run.login /\ run'.seen = run.seen /\ run'.jq = run.jq
      /\ pc' = "list" \/ pc' = "register"
      /\ run'.status = "ok" => run.status = "ok"
      /\ pc' = "list" => forge.db = epoch /\ run' = run
      /\ pc' = "register" => run'.status # "ok" /\ (run'.clean => run.clean /\ forge.db # epoch)
  BY <1>1, <1>2, Noting, OneCall DEF Healthy
<1> QED  BY <1>1, <1>3, <1>5, <1>6, LocalName DEF ForgeInv, RunRecords

\* Looking for the admin.
LEMMA ListAdminsKeeps == ForgeInv /\ ListAdmins => ForgeInv'
<1> SUFFICES ASSUME ForgeInv, ListAdmins PROVE ForgeInv'
  OBVIOUS
<1>1. TypeOK /\ forge \in ForgeRecords /\ run \in RunRecords
  BY DEF ForgeInv, TypeOK
<1>2. PICK r \in Reads :
       LET known == r = "ok" /\ forge.account["admin"] # Absent
       IN  /\ Spend(<<r>>)
           /\ run' = [Noted(<<r>>, "ok") EXCEPT !.known = known]
           /\ pc' = IF known /\ forge.account["admin"].mail = Identity.mail
                    THEN "heal" ELSE "admin"
  BY DEF ListAdmins
<1>3. pc = "list" /\ UNCHANGED <<forge, woodpecker, clone, epoch, upstream, runs>>
  BY DEF ListAdmins
<1> DEFINE known == r = "ok" /\ forge.account["admin"] # Absent
           n == Noted(<<r>>, "ok")
<1>4. /\ known \in BOOLEAN /\ n \in RunRecords /\ run' = [n EXCEPT !.known = known]
      /\ pc' = IF known /\ forge.account["admin"].mail = Identity.mail THEN "heal" ELSE "admin"
  BY <1>1, <1>2, Noting
<1> HIDE DEF known, n
<1>5. faults' \in 0 .. MaxFaults /\ run' \in RunRecords
  <2>1. faults' \in 0 .. MaxFaults
    BY <1>1, <1>2, OneCall, Spending
  <2> QED  BY <2>1, <1>4 DEF RunRecords
<1>6. TypeOK'
  BY <1>1, <1>3, <1>4, <1>5 DEF TypeOK
<1>7. /\ run'.known = known
      /\ run'.mirror = run.mirror /\ run'.user = run.user /\ run'.conf = run.conf
      /\ run'.token = run.token /\ run'.stale = run.stale /\ run'.fork = run.fork
      /\ run'.rotating = run.rotating /\ run'.login = run.login /\ run'.seen = run.seen /\ run'.jq = run.jq
      /\ run'.status = n.status /\ run'.clean = n.clean
  BY <1>1, <1>4, Noting DEF RunRecords, n
<1>8. (n.clean => run.clean /\ r = "ok") /\ (n.status = "ok" <=> run.status = "ok")
  BY <1>1, Noting, OneCall DEF n
<1> QED  BY <1>1, <1>3, <1>4, <1>6, <1>7, <1>8, LocalName
           DEF ForgeInv, known, Absent, RunRecords

\* Correcting the admin's mail: with the current password and no one else with
\* that mail, it takes effect.
LEMMA HealEmailKeeps == ForgeInv /\ HealEmail => ForgeInv'
<1> SUFFICES ASSUME ForgeInv, HealEmail PROVE ForgeInv'
  OBVIOUS
<1>1. TypeOK /\ forge \in ForgeRecords /\ run \in RunRecords
  BY DEF ForgeInv, TypeOK
<1>2. PICK r \in Calls :
       /\ Spend(<<r>>)
       /\ forge' = IF Applied(r) /\ AdminAuth /\ ~MailTaken("admin", "admin@")
                   THEN [forge EXCEPT !.account["admin"].mail = "admin@"]
                   ELSE forge
       /\ run' = [Noted(<<r>>, "ok") EXCEPT !.stale = ~AdminAuth]
  BY DEF HealEmail
<1>3. pc = "heal" /\ pc' = "admin" /\ UNCHANGED <<woodpecker, clone, epoch, upstream, runs>>
  BY DEF HealEmail
<1> DEFINE stale == ~AdminAuth
           n == Noted(<<r>>, "ok")
<1>4. stale \in BOOLEAN /\ n \in RunRecords /\ run' = [n EXCEPT !.stale = stale]
  BY <1>1, <1>2, Noting
<1>5. /\ n.clean => run.clean /\ r = "ok"
      /\ n.status = "ok" <=> run.status = "ok"
      /\ stale <=> ~AdminAuth
  BY <1>1, Noting, OneCall
<1> HIDE DEF stale, n
<1>6. /\ run' \in RunRecords /\ run'.stale = stale /\ run'.status = n.status /\ run'.clean = n.clean
      /\ run'.mirror = run.mirror /\ run'.user = run.user /\ run'.known = run.known
      /\ run'.conf = run.conf /\ run'.token = run.token /\ run'.fork = run.fork
      /\ run'.rotating = run.rotating /\ run'.client = run.client /\ run'.left = run.left
      /\ run'.login = run.login /\ run'.seen = run.seen /\ run'.jq = run.jq
  BY <1>1, <1>4, Noting DEF RunRecords, n
<1>7. faults' \in 0 .. MaxFaults
  BY <1>1, <1>2, OneCall, Spending
<1>8. /\ forge' \in ForgeRecords
      /\ forge'.db = forge.db /\ forge'.token = forge.token /\ forge'.repos = forge.repos
      /\ forge'.public = forge.public /\ forge'.members = forge.members
      /\ forge'.seeded = forge.seeded /\ forge'.apps = forge.apps
      /\ forge'.forkToken = forge.forkToken /\ forge'.runner = forge.runner
      /\ forge'.head = forge.head
      /\ forge'.account["ops"] = forge.account["ops"]
      /\ forge'.account["student"] = forge.account["student"]
      /\ forge'.account["admin"] # Absent <=> forge.account["admin"] # Absent
      /\ Applied(r) /\ AdminAuth /\ ~MailTaken("admin", "admin@")
           => forge'.account["admin"].mail = "admin@"
  BY <1>1, <1>2 DEF ForgeRecords, Account, Names, Mails, Absent, AdminAuth, TypeOK
<1>9. TypeOK'
  BY <1>1, <1>3, <1>6, <1>7, <1>8 DEF TypeOK
<1>10. run.user /\ ~run'.stale /\ run'.clean => forge'.account["admin"].mail = "admin@"
  <2>1. ASSUME run.user, ~run'.stale, run'.clean
        PROVE  ~MailTaken("admin", "admin@") /\ AdminAuth /\ Applied(r)
    <3>1. ~MailTaken("admin", "admin@")
      BY <2>1, <1>5, <1>6 DEF MailTaken, Names, ForgeInv, Absent
    <3>2. r = "ok" /\ AdminAuth
      BY <2>1, <1>5, <1>6
    <3> QED  BY <3>1, <3>2 DEF Applied
  <2> QED  BY <2>1, <1>8
<1> QED  BY <1>1, <1>3, <1>5, <1>6, <1>8, <1>9, <1>10, LocalName DEF ForgeInv

\* What SetPassword does to the accounts.
LEMMA SettingPassword ==
  ASSUME TypeOK, NEW name \in Names, NEW r
  PROVE  /\ SetPassword(name, r) \in ForgeRecords
         /\ SetPassword(name, r) = [forge EXCEPT !.account = SetPassword(name, r).account]
         /\ \A n \in Names \ {name} : SetPassword(name, r).account[n] = forge.account[n]
         /\ \A n \in Names : SetPassword(name, r).account[n].mail = forge.account[n].mail
         /\ \A n \in Names : SetPassword(name, r).account[n] = Absent <=> forge.account[n] = Absent
         /\ r = "ok" /\ forge.account[name] # Absent =>
              SetPassword(name, r).account[name].pw = epoch
BY DEF TypeOK, ForgeRecords, SetPassword, Account, Absent, Names, Mails, Applied

\* What CreateUser does to the accounts.
LEMMA CreatingUser ==
  ASSUME TypeOK, NEW name \in Names, NEW mail \in Mails, NEW r
  PROVE  /\ CreateUser(name, mail, r) \in ForgeRecords
         /\ CreateUser(name, mail, r) = [forge EXCEPT !.account = CreateUser(name, mail, r).account]
         /\ \A n \in Names \ {name} : CreateUser(name, mail, r).account[n] = forge.account[n]
         /\ CreateUser(name, mail, r).account[name].mail \in {forge.account[name].mail, mail}
         /\ r = "ok" /\ CreateUser(name, mail, r).account[name] # Absent =>
              CreateUser(name, mail, r).account[name].pw = epoch
         /\ r = "ok" /\ CreateUser(name, mail, r).account[name] = Absent => MailTaken(name, mail)
<1>1. CASE forge.account[name] # Absent \/ MailTaken(name, mail)
  BY <1>1, SettingPassword DEF CreateUser
<1>2. CASE ~(forge.account[name] # Absent \/ MailTaken(name, mail))
  BY <1>2 DEF CreateUser, TypeOK, ForgeRecords, Account, Absent, Names, Mails, Applied
<1> QED  BY <1>1, <1>2

\* The admin's account.
LEMMA EnsureAdminKeeps == ForgeInv /\ EnsureAdmin => ForgeInv'
<1> SUFFICES ASSUME ForgeInv, EnsureAdmin PROVE ForgeInv'
  OBVIOUS
<1>1. TypeOK /\ forge \in ForgeRecords /\ run \in RunRecords
  BY DEF ForgeInv, TypeOK
<1>2. PICK r \in Calls :
       /\ Spend(<<r>>)
       /\ forge' = IF run.known THEN SetPassword("admin", r)
                   ELSE CreateUser("admin", "admin@", r)
       /\ run' = [Noted(<<r>>, "ok") EXCEPT !.conf = @ /\ Ensured("admin", r)]
  BY DEF EnsureAdmin
<1>3. pc = "admin" /\ pc' = "user" /\ UNCHANGED <<woodpecker, clone, epoch, upstream, runs>>
  BY DEF EnsureAdmin
<1>4. "admin" \in Names /\ "admin@" \in Mails
  BY DEF Names, Mails
<1> DEFINE n == Noted(<<r>>, "ok")
           conf == n.conf /\ Ensured("admin", r)
<1>5. /\ n \in RunRecords /\ conf \in BOOLEAN /\ run' = [n EXCEPT !.conf = conf]
      /\ n.clean => run.clean /\ r = "ok"
      /\ n.status = "ok" <=> run.status = "ok"
      /\ conf <=> run.conf /\ r = "ok" /\ forge'.account["admin"] # Absent
  BY <1>1, <1>2, Noting, OneCall DEF Ensured
<1> HIDE DEF conf, n
<1>6. /\ run' \in RunRecords /\ run'.conf = conf /\ run'.status = n.status /\ run'.clean = n.clean
      /\ run'.mirror = run.mirror /\ run'.user = run.user /\ run'.known = run.known
      /\ run'.token = run.token /\ run'.stale = run.stale /\ run'.fork = run.fork
      /\ run'.rotating = run.rotating /\ run'.client = run.client /\ run'.left = run.left
      /\ run'.login = run.login /\ run'.seen = run.seen /\ run'.jq = run.jq
  BY <1>1, <1>5, Noting DEF RunRecords, n
<1>7. faults' \in 0 .. MaxFaults
  BY <1>1, <1>2, OneCall, Spending
<1>8. /\ forge' \in ForgeRecords /\ forge' = [forge EXCEPT !.account = forge'.account]
      /\ forge'.account["ops"] = forge.account["ops"]
      /\ forge'.account["student"] = forge.account["student"]
      /\ forge'.account["admin"].mail \in {forge.account["admin"].mail, "admin@"}
      /\ r = "ok" /\ forge'.account["admin"] # Absent => forge'.account["admin"].pw = epoch
      /\ run.known /\ forge.account["admin"] # Absent => forge'.account["admin"] # Absent
      /\ ~run.known /\ r = "ok" /\ ~MailTaken("admin", "admin@") =>
           forge'.account["admin"] # Absent
  <2>1. CASE run.known
    BY <1>1, <1>2, <1>4, <2>1, SettingPassword DEF Names
  <2>2. CASE ~run.known
    BY <1>1, <1>2, <1>4, <2>2, CreatingUser DEF Names
  <2> QED  BY <2>1, <2>2
<1>9. /\ forge' \in ForgeRecords
      /\ forge'.db = forge.db /\ forge'.token = forge.token /\ forge'.repos = forge.repos
      /\ forge'.public = forge.public /\ forge'.members = forge.members
      /\ forge'.seeded = forge.seeded /\ forge'.apps = forge.apps
      /\ forge'.forkToken = forge.forkToken /\ forge'.runner = forge.runner
      /\ forge'.head = forge.head
  BY <1>1, <1>8 DEF ForgeRecords
<1>10. TypeOK'
  BY <1>1, <1>3, <1>6, <1>7, <1>9 DEF TypeOK
<1>11. run.user => ~MailTaken("admin", "admin@")
  BY DEF MailTaken, Names, ForgeInv, Absent
<1>12. run.user /\ run.clean /\ ~run.stale /\ r = "ok" => conf
  BY <1>3, <1>5, <1>8, <1>11 DEF ForgeInv
<1> QED  BY <1>1, <1>3, <1>5, <1>6, <1>8, <1>9, <1>10, <1>12, LocalName DEF ForgeInv

\* The user's account.
LEMMA EnsureUserKeeps == ForgeInv /\ EnsureUser => ForgeInv'
<1> SUFFICES ASSUME ForgeInv, EnsureUser PROVE ForgeInv'
  OBVIOUS
<1>1. TypeOK /\ forge \in ForgeRecords /\ run \in RunRecords
  BY DEF ForgeInv, TypeOK
<1> DEFINE name == Identity.local
<1>2. PICK l \in Reads, r \in Calls :
           /\ Spend(<<l, r>>)
           /\ forge' = IF l = "ok" /\ forge.account[name] # Absent
                       THEN SetPassword(name, r)
                       ELSE CreateUser(name, Identity.mail, r)
           /\ run' = [Noted(<<l, r>>, "ok") EXCEPT !.conf = @ /\ Ensured(name, r)]
  BY DEF EnsureUser
<1>3. pc = "user" /\ pc' = "token" /\ UNCHANGED <<woodpecker, clone, epoch, upstream, runs>>
  BY DEF EnsureUser
<1>4. /\ name \in Names \ {"admin"} /\ Identity.mail \in Mails /\ run.user \in BOOLEAN
      /\ run.user => name = "student" /\ Identity.mail = "student@"
      /\ ~run.user => name = "ops"
  BY <1>1, LocalName DEF Names, Mails, RunRecords
<1> DEFINE n == Noted(<<l, r>>, "ok")
           conf == n.conf /\ Ensured(name, r)
<1>5. /\ n \in RunRecords /\ conf \in BOOLEAN /\ run' = [n EXCEPT !.conf = conf]
      /\ n.clean => run.clean /\ r = "ok"
      /\ n.status = "ok" <=> run.status = "ok"
      /\ conf <=> run.conf /\ r = "ok" /\ forge'.account[name] # Absent
  BY <1>1, <1>2, Noting, TwoCalls DEF Ensured
<1> HIDE DEF conf, n
<1>6. /\ run' \in RunRecords /\ run'.conf = conf /\ run'.status = n.status /\ run'.clean = n.clean
      /\ run'.mirror = run.mirror /\ run'.user = run.user /\ run'.known = run.known
      /\ run'.token = run.token /\ run'.stale = run.stale /\ run'.fork = run.fork
      /\ run'.rotating = run.rotating /\ run'.client = run.client /\ run'.left = run.left
      /\ run'.login = run.login /\ run'.seen = run.seen /\ run'.jq = run.jq
  BY <1>1, <1>5, Noting DEF RunRecords, n
<1>7. faults' \in 0 .. MaxFaults
  BY <1>1, <1>2, TwoCalls, Spending
<1>8. Identity' = Identity
  BY <1>1, <1>6, LocalName
<1> HIDE DEF name
<1>9. /\ forge' \in ForgeRecords /\ forge' = [forge EXCEPT !.account = forge'.account]
      /\ \A m \in Names \ {name} : forge'.account[m] = forge.account[m]
      /\ forge'.account[name].mail \in {forge.account[name].mail, Identity.mail}
      /\ r = "ok" /\ forge'.account[name] # Absent => forge'.account[name].pw = epoch
      /\ r = "ok" /\ forge'.account[name] = Absent => MailTaken(name, Identity.mail)
  <2>1. CASE l = "ok" /\ forge.account[name] # Absent
    BY <1>1, <1>2, <1>4, <2>1, SettingPassword
  <2>2. CASE ~(l = "ok" /\ forge.account[name] # Absent)
    BY <1>1, <1>2, <1>4, <2>2, CreatingUser
  <2> QED  BY <2>1, <2>2
<1>10. /\ forge' \in ForgeRecords
      /\ forge'.db = forge.db /\ forge'.token = forge.token /\ forge'.repos = forge.repos
      /\ forge'.public = forge.public /\ forge'.members = forge.members
      /\ forge'.seeded = forge.seeded /\ forge'.apps = forge.apps
      /\ forge'.forkToken = forge.forkToken /\ forge'.runner = forge.runner
      /\ forge'.head = forge.head
  BY <1>1, <1>9 DEF ForgeRecords
<1>11. TypeOK'
  BY <1>1, <1>3, <1>6, <1>7, <1>10 DEF TypeOK
<1>12. run.user /\ run.clean /\ ~run.stale => ~MailTaken(name, Identity.mail)
  BY <1>3, <1>4 DEF MailTaken, Names, ForgeInv, Absent
<1>13. run.user /\ run.clean /\ ~run.stale /\ r = "ok" => conf
  BY <1>3, <1>5, <1>9, <1>12 DEF ForgeInv
<1>14. /\ forge'.account["admin"] = forge.account["admin"]
       /\ run.user => /\ forge'.account["ops"] = forge.account["ops"]
                      /\ forge'.account["student"].mail \in {forge.account["student"].mail, "student@"}
  BY <1>4, <1>9 DEF Names
<1>15. run'.conf => forge'.account[Identity'.local].pw = epoch
  BY <1>5, <1>6, <1>9, <1>8 DEF name
<1> QED  BY <1>1, <1>3, <1>5, <1>6, <1>10, <1>11, <1>13, <1>14, <1>15, LocalName DEF ForgeInv

\* The automation token.
LEMMA MintTokenKeeps == ForgeInv /\ MintToken => ForgeInv'
<1> SUFFICES ASSUME ForgeInv, MintToken PROVE ForgeInv'
  OBVIOUS
<1>1. TypeOK /\ forge \in ForgeRecords /\ run \in RunRecords
  BY DEF ForgeInv, TypeOK
<1>2. PICK d \in Calls, r \in Calls :
       LET row == forge.token /\ ~Applied(d)
           made == Applied(r) /\ ~row /\ forge.account["admin"] # Absent
       IN  /\ Spend(<<d, r>>)
           /\ forge' = [forge EXCEPT !.token = row \/ made]
           /\ run' = [Noted(<<d, r>>, "ok") EXCEPT
                        !.token = made /\ r = "ok",
                        !.conf = @ /\ made /\ r = "ok"]
           /\ pc' = IF run'.token /\ ~run.mirror THEN "repo" ELSE "configured"
  BY DEF MintToken
<1>3. pc = "token" /\ UNCHANGED <<woodpecker, clone, epoch, upstream, runs>>
  BY DEF MintToken
<1> DEFINE row == forge.token /\ ~Applied(d)
           made == Applied(r) /\ ~row /\ forge.account["admin"] # Absent
           n == Noted(<<d, r>>, "ok")
           held == row \/ made
           token == made /\ r = "ok"
           conf == n.conf /\ made /\ r = "ok"
<1>4. /\ n \in RunRecords /\ run' = [n EXCEPT !.token = token, !.conf = conf]
      /\ forge' = [forge EXCEPT !.token = held]
      /\ held \in BOOLEAN /\ token \in BOOLEAN /\ conf \in BOOLEAN
      /\ pc' = IF run'.token /\ ~run.mirror THEN "repo" ELSE "configured"
  BY <1>1, <1>2, Noting
<1>5. /\ n.clean => run.clean /\ d = "ok" /\ r = "ok"
      /\ n.status = "ok" <=> run.status = "ok"
      /\ conf <=> run.conf /\ token
      /\ token => held
      /\ d = "ok" /\ r = "ok" /\ forge.account["admin"] # Absent => token
  BY <1>1, Noting, TwoCalls DEF Applied
<1> HIDE DEF held, token, conf, n, row, made
<1>6. /\ run' \in RunRecords /\ run'.conf = conf /\ run'.status = n.status /\ run'.clean = n.clean
      /\ run'.token = token
      /\ run'.mirror = run.mirror /\ run'.user = run.user /\ run'.known = run.known
      /\ run'.stale = run.stale /\ run'.fork = run.fork /\ run'.rotating = run.rotating
      /\ run'.client = run.client /\ run'.left = run.left /\ run'.login = run.login
      /\ run'.seen = run.seen /\ run'.jq = run.jq
  <2>1. /\ n.mirror = run.mirror /\ n.user = run.user /\ n.known = run.known
        /\ n.stale = run.stale /\ n.fork = run.fork /\ n.rotating = run.rotating
        /\ n.client = run.client /\ n.left = run.left /\ n.login = run.login
        /\ n.seen = run.seen /\ n.jq = run.jq
    BY <1>1, Noting DEF n
  <2> QED  BY <1>4, <2>1 DEF RunRecords
<1>7. faults' \in 0 .. MaxFaults
  BY <1>1, <1>2, TwoCalls, Spending
<1>8. /\ forge' \in ForgeRecords /\ forge'.token = held
      /\ forge'.db = forge.db /\ forge'.account = forge.account
      /\ forge'.repos = forge.repos /\ forge'.public = forge.public
      /\ forge'.members = forge.members /\ forge'.seeded = forge.seeded
      /\ forge'.apps = forge.apps /\ forge'.forkToken = forge.forkToken
      /\ forge'.runner = forge.runner /\ forge'.head = forge.head
  BY <1>1, <1>4 DEF ForgeRecords
<1>9. TypeOK'
  BY <1>1, <1>3, <1>4, <1>6, <1>7, <1>8 DEF TypeOK
<1>10. run.user /\ run.clean /\ ~run.stale => forge.account["admin"].pw = epoch
  BY <1>3 DEF ForgeInv
<1>11. run.user /\ run.clean /\ ~run.stale => forge.account["admin"] # Absent
  BY <1>1, <1>10, ForgeAssumption DEF Absent, TypeOK
<1> QED  BY <1>1, <1>3, <1>4, <1>5, <1>6, <1>8, <1>9, <1>11, LocalName DEF ForgeInv

\* The workspace repository.
LEMMA CreateRepoKeeps == ForgeInv /\ CreateRepo => ForgeInv'
<1> SUFFICES ASSUME ForgeInv, CreateRepo PROVE ForgeInv'
  OBVIOUS
<1>1. TypeOK /\ forge \in ForgeRecords /\ run \in RunRecords
  BY DEF ForgeInv, TypeOK
<1>2. PICK r \in Calls, p \in Calls :
       LET there == Workspace \in forge.repos
       IN  /\ (~there \/ r # "ok") => p = "ok"
           /\ Spend(<<r, p>>)
           /\ forge' = [forge EXCEPT
                          !.repos = IF Applied(r) THEN @ \cup {Workspace} ELSE @,
                          !.public = @ /\ ~(there /\ r = "ok" /\ Applied(p))]
           /\ run' = [Noted(<<r, p>>, "ok") EXCEPT !.conf = @ /\ r = "ok"]
           /\ pc' = IF r = "ok" THEN "writer" ELSE "configured"
  BY DEF CreateRepo
<1>3. pc = "repo" /\ UNCHANGED <<woodpecker, clone, epoch, upstream, runs>>
  BY DEF CreateRepo
<1> DEFINE n == Noted(<<r, p>>, "ok")
           repos == IF Applied(r) THEN forge.repos \cup {Workspace} ELSE forge.repos
           public == forge.public /\ ~(Workspace \in forge.repos /\ r = "ok" /\ Applied(p))
           conf == n.conf /\ r = "ok"
<1>4. /\ n \in RunRecords /\ run' = [n EXCEPT !.conf = conf]
      /\ forge' = [forge EXCEPT !.repos = repos, !.public = public]
      /\ public \in BOOLEAN /\ conf \in BOOLEAN /\ repos \in SUBSET Repos
      /\ pc' = IF r = "ok" THEN "writer" ELSE "configured"
  BY <1>1, <1>2, Noting, RepoNames DEF ForgeRecords
<1>5. /\ n.clean => run.clean /\ r = "ok" /\ p = "ok"
      /\ n.status = "ok" <=> run.status = "ok"
      /\ conf <=> run.conf /\ r = "ok"
      /\ r = "ok" => repos = forge.repos \cup {Workspace}
      /\ forge.repos \subseteq repos /\ repos \subseteq forge.repos \cup {Workspace}
      /\ public => forge.public
      /\ p = "ok" /\ r = "ok" /\ Workspace \in forge.repos => ~public
  BY <1>1, Noting, TwoCalls DEF Applied
<1> HIDE DEF repos, public, conf, n
<1>6. /\ run' \in RunRecords /\ run'.conf = conf /\ run'.status = n.status /\ run'.clean = n.clean
      /\ run'.mirror = run.mirror /\ run'.user = run.user /\ run'.known = run.known
      /\ run'.token = run.token /\ run'.stale = run.stale /\ run'.fork = run.fork
      /\ run'.rotating = run.rotating /\ run'.client = run.client /\ run'.left = run.left
      /\ run'.login = run.login /\ run'.seen = run.seen /\ run'.jq = run.jq
  BY <1>1, <1>4, Noting DEF RunRecords, n
<1>7. faults' \in 0 .. MaxFaults
  BY <1>1, <1>2, TwoCalls, Spending
<1>8. /\ forge' \in ForgeRecords /\ forge'.repos = repos /\ forge'.public = public
      /\ forge'.db = forge.db /\ forge'.account = forge.account
      /\ forge'.token = forge.token /\ forge'.members = forge.members
      /\ forge'.seeded = forge.seeded /\ forge'.apps = forge.apps
      /\ forge'.forkToken = forge.forkToken /\ forge'.runner = forge.runner
      /\ forge'.head = forge.head
  BY <1>1, <1>4 DEF ForgeRecords
<1>9. \A m \in Mirrors : Fork(m) \in forge'.repos => Mirror(m) \in forge'.repos
  BY <1>1, <1>5, <1>8, RepoNames DEF TypeOK
<1>10. TypeOK'
  BY <1>1, <1>3, <1>4, <1>5, <1>6, <1>7, <1>8, <1>9 DEF TypeOK
<1> QED  BY <1>1, <1>3, <1>4, <1>5, <1>6, <1>8, <1>10, LocalName DEF ForgeInv

\* Joined adds one member to a repository that is there, or changes nothing.
LEMMA Joining ==
  ASSUME TypeOK, NEW name \in Names, NEW repo \in forge.repos, NEW r
  PROVE  /\ Joined(name, repo, r) \in ForgeRecords
         /\ Joined(name, repo, r) = [forge EXCEPT !.members = Joined(name, repo, r).members]
         /\ forge.members \subseteq Joined(name, repo, r).members
         /\ \A x \in Joined(name, repo, r).members : x[2] \in forge.repos
         /\ r = "ok" /\ forge.account[name] # Absent => <<name, repo>> \in Joined(name, repo, r).members
<1>1. forge \in ForgeRecords /\ <<name, repo>> \in Names \X Repos
  BY DEF TypeOK, ForgeRecords
<1>2. CASE Applied(r) /\ forge.account[name] # Absent
  <2> DEFINE ms == forge.members \cup {<<name, repo>>}
  <2>1. ms \in SUBSET (Names \X Repos) /\ \A x \in ms : x[2] \in forge.repos
    BY <1>1 DEF TypeOK, ForgeRecords
  <2>2. Joined(name, repo, r) = [forge EXCEPT !.members = ms]
    BY <1>2 DEF Joined
  <2>3. <<name, repo>> \in ms /\ forge.members \subseteq ms
    OBVIOUS
  <2> HIDE DEF ms
  <2> QED  BY <1>1, <2>1, <2>2, <2>3 DEF ForgeRecords
<1>3. CASE ~(Applied(r) /\ forge.account[name] # Absent)
  BY <1>1, <1>3 DEF Joined, TypeOK, ForgeRecords, Applied
<1> QED  BY <1>2, <1>3

\* The user as a writer of the workspace.
LEMMA AddWriterKeeps == ForgeInv /\ AddWriter => ForgeInv'
<1> SUFFICES ASSUME ForgeInv, AddWriter PROVE ForgeInv'
  OBVIOUS
<1>1. TypeOK /\ forge \in ForgeRecords /\ run \in RunRecords
  BY DEF ForgeInv, TypeOK
<1>2. PICK r \in Calls : /\ Spend(<<r>>)
                         /\ forge' = Joined(Identity.local, Workspace, r)
                         /\ run' = Noted(<<r>>, "ok")
  BY DEF AddWriter
<1>3. pc = "writer" /\ pc' = "configured" /\ UNCHANGED <<woodpecker, clone, epoch, upstream, runs>>
  BY DEF AddWriter
<1>4. /\ Identity.local \in Names /\ Workspace \in forge.repos
      /\ run.user => Identity.local = "student"
  BY <1>1, <1>3, LocalName DEF Names, ForgeInv, RunRecords
<1>5. /\ run' \in RunRecords
      /\ run'.clean => run.clean /\ r = "ok"
      /\ run'.status = "ok" <=> run.status = "ok"
      /\ run'.mirror = run.mirror /\ run'.user = run.user /\ run'.known = run.known
      /\ run'.conf = run.conf /\ run'.token = run.token /\ run'.stale = run.stale
      /\ run'.fork = run.fork /\ run'.rotating = run.rotating /\ run'.client = run.client
      /\ run'.left = run.left /\ run'.login = run.login /\ run'.seen = run.seen /\ run'.jq = run.jq
  BY <1>1, <1>2, Noting, OneCall
<1>6. /\ forge' \in ForgeRecords /\ forge' = [forge EXCEPT !.members = forge'.members]
      /\ forge.members \subseteq forge'.members
      /\ \A x \in forge'.members : x[2] \in forge.repos
      /\ run.user /\ r = "ok" /\ forge.account["student"] # Absent =>
           <<"student", Workspace>> \in forge'.members
  BY <1>1, <1>2, <1>4, Joining
<1>7. faults' \in 0 .. MaxFaults
  BY <1>1, <1>2, OneCall, Spending
<1>8.
      /\ forge'.db = forge.db /\ forge'.account = forge.account
      /\ forge'.token = forge.token /\ forge'.repos = forge.repos
      /\ forge'.public = forge.public /\ forge'.seeded = forge.seeded
      /\ forge'.apps = forge.apps /\ forge'.forkToken = forge.forkToken
      /\ forge'.runner = forge.runner /\ forge'.head = forge.head
  BY <1>1, <1>6 DEF ForgeRecords
<1>9. TypeOK'
  BY <1>1, <1>3, <1>5, <1>6, <1>7, <1>8 DEF TypeOK
<1>10. run.user /\ run.clean /\ ~run.stale => forge.account["student"].pw = epoch
  BY <1>1, <1>3, <1>4 DEF ForgeInv
<1>11. run.user /\ run.clean /\ ~run.stale => forge.account["student"] # Absent
  BY <1>1, <1>10, ForgeAssumption DEF Absent, TypeOK
<1> QED  BY <1>1, <1>3, <1>5, <1>6, <1>8, <1>9, <1>11, LocalName DEF ForgeInv

\* The end of forgejo-configure.
LEMMA ConfiguredKeeps == ForgeInv /\ Configured => ForgeInv'
<1> SUFFICES ASSUME ForgeInv, Configured PROVE ForgeInv'
  OBVIOUS
<1>1. TypeOK /\ forge \in ForgeRecords /\ run \in RunRecords
  BY DEF ForgeInv, TypeOK
<1>2. /\ pc = "configured" /\ pc' = "register" /\ run' = Noted(<<>>, If(run.conf, "partial"))
      /\ UNCHANGED <<forge, woodpecker, clone, epoch, upstream, faults, runs>>
  BY DEF Configured
<1>3. If(run.conf, "partial") \in Statuses /\ (If(run.conf, "partial") = "ok" <=> run.conf)
  BY DEF If
<1>4. /\ run' \in RunRecords
      /\ run'.clean => run.clean
      /\ run'.status = "ok" <=> run.status = "ok" /\ run.conf
      /\ run'.mirror = run.mirror /\ run'.user = run.user /\ run'.known = run.known
      /\ run'.conf = run.conf /\ run'.token = run.token /\ run'.stale = run.stale
      /\ run'.fork = run.fork /\ run'.rotating = run.rotating /\ run'.client = run.client
      /\ run'.left = run.left /\ run'.login = run.login /\ run'.seen = run.seen /\ run'.jq = run.jq
  BY <1>1, <1>2, <1>3, Noting, NoCall
<1>5. TypeOK'
  BY <1>1, <1>2, <1>4 DEF TypeOK
<1> QED  BY <1>1, <1>2, <1>4, <1>5, LocalName DEF ForgeInv

\* The runner.
LEMMA RegisterRunnerKeeps == ForgeInv /\ RegisterRunner => ForgeInv'
<1> SUFFICES ASSUME ForgeInv, RegisterRunner PROVE ForgeInv'
  OBVIOUS
<1>1. TypeOK /\ forge \in ForgeRecords /\ run \in RunRecords
  BY DEF ForgeInv, TypeOK
<1>2. PICK r \in Calls :
       /\ Spend(<<r>>)
       /\ forge' = [forge EXCEPT !.runner = Registered(r)]
       /\ run' = Noted(<<r>>, RunnerStatus(r))
  BY DEF RegisterRunner
<1>3. pc = "register" /\ pc' = "restart" /\ UNCHANGED <<woodpecker, clone, epoch, upstream, runs>>
  BY DEF RegisterRunner
<1>4. /\ RunnerStatus(r) \in Statuses /\ (RunnerStatus(r) = "ok" <=> r = "ok" /\ forge.db = epoch)
      /\ Registered(r) \in BOOLEAN /\ (r = "ok" /\ forge.db = epoch => Registered(r))
  BY <1>1 DEF RunnerStatus, If, Registered, Applied, Healthy, ForgeRecords
<1>5. /\ run' \in RunRecords
      /\ run'.clean => run.clean /\ r = "ok"
      /\ run'.status = "ok" <=> run.status = "ok" /\ r = "ok" /\ forge.db = epoch
      /\ run'.mirror = run.mirror /\ run'.user = run.user /\ run'.known = run.known
      /\ run'.conf = run.conf /\ run'.token = run.token /\ run'.stale = run.stale
      /\ run'.fork = run.fork /\ run'.rotating = run.rotating /\ run'.client = run.client
      /\ run'.left = run.left /\ run'.login = run.login /\ run'.seen = run.seen /\ run'.jq = run.jq
  BY <1>1, <1>2, <1>4, Noting, OneCall
<1>6. /\ forge' \in ForgeRecords /\ (r = "ok" /\ forge.db = epoch => forge'.runner)
      /\ forge'.db = forge.db /\ forge'.account = forge.account
      /\ forge'.token = forge.token /\ forge'.repos = forge.repos
      /\ forge'.public = forge.public /\ forge'.members = forge.members
      /\ forge'.seeded = forge.seeded /\ forge'.apps = forge.apps
      /\ forge'.forkToken = forge.forkToken /\ forge'.head = forge.head
  BY <1>1, <1>2, <1>4 DEF ForgeRecords
<1>7. faults' \in 0 .. MaxFaults
  BY <1>1, <1>2, OneCall, Spending
<1>8. TypeOK'
  BY <1>1, <1>3, <1>5, <1>6, <1>7 DEF TypeOK
<1> QED  BY <1>1, <1>3, <1>5, <1>6, <1>8, LocalName DEF ForgeInv

\* The repository the notebook services are to clone.
LEMMA Targets ==
  ASSUME run \in RunRecords
  PROVE  /\ Target \in Repos
         /\ ~run.mirror => Target = Workspace
         /\ run.mirror /\ run.user => Target = Fork(First)
BY RepoNames, FirstMirror DEF Target, RepoCoords, RunRecords, First

\* The restart of the notebook services.
LEMMA RestartServicesKeeps == ForgeInv /\ RestartServices => ForgeInv'
<1> SUFFICES ASSUME ForgeInv, RestartServices PROVE ForgeInv'
  OBVIOUS
<1>1. TypeOK /\ forge \in ForgeRecords /\ run \in RunRecords
  BY DEF ForgeInv, TypeOK
<1>2. PICK r \in Calls : /\ Spend(<<r>>)
                         /\ clone' = Recloned(r)
                         /\ run' = Noted(<<r>>, RestartStatus(r))
  BY DEF RestartServices
<1>3. pc = "restart" /\ pc' = "seed" /\ UNCHANGED <<forge, woodpecker, epoch, upstream, runs>>
  BY DEF RestartServices
<1>4. RestartStatus(r) \in Statuses /\ (RestartStatus(r) = "ok" <=> r = "ok")
  BY DEF RestartStatus, If
<1>5. /\ run' \in RunRecords
      /\ run'.clean => run.clean /\ r = "ok"
      /\ run'.status = "ok" <=> run.status = "ok" /\ r = "ok"
      /\ run'.mirror = run.mirror /\ run'.user = run.user /\ run'.known = run.known
      /\ run'.conf = run.conf /\ run'.token = run.token /\ run'.stale = run.stale
      /\ run'.fork = run.fork /\ run'.rotating = run.rotating /\ run'.client = run.client
      /\ run'.left = run.left /\ run'.login = run.login /\ run'.seen = run.seen /\ run'.jq = run.jq
  BY <1>1, <1>2, <1>4, Noting, OneCall
<1>6. /\ clone' \in Repos \cup {NoRepo}
      /\ r = "ok" /\ ~run.mirror /\ Workspace \in forge.repos => clone' = Workspace
  BY <1>1, <1>2, Targets DEF Recloned, Applied, TypeOK
<1>7. faults' \in 0 .. MaxFaults
  BY <1>1, <1>2, OneCall, Spending
<1>8. TypeOK'
  BY <1>1, <1>3, <1>5, <1>6, <1>7 DEF TypeOK
<1> QED  BY <1>1, <1>3, <1>5, <1>6, <1>8, LocalName DEF ForgeInv

\* The loop over the seed files stops the run or goes on, with status ok only
\* when every file is there.
LEMMA Posting ==
  ASSUME TypeOK, NEW repo \in Repos, NEW next \in Steps, PostFiles(repo, next)
  PROVE  /\ faults' \in 0 .. MaxFaults
         /\ forge' \in ForgeRecords /\ forge' = [forge EXCEPT !.seeded = forge'.seeded]
         /\ forge.seeded \subseteq forge'.seeded
         /\ \A x \in forge'.seeded : x[1] \in forge.repos
         /\ Stop \/ /\ pc' = next
                    /\ \E xs : \E s \in Statuses :
                         /\ Bad(xs) \in Nat /\ run' = Noted(xs, s)
                         /\ s = "ok" => /\ repo \in forge.repos
                                        /\ \A f \in SeedFiles : <<repo, f>> \in forge'.seeded
                         /\ Bad(xs) = 0 /\ repo \in forge.repos => s = "ok"
<1>1. PICK F \in SUBSET SeedFiles, lost \in BOOLEAN :
    LET bad == IF repo \in forge.repos THEN F ELSE SeedFiles
        rs == IF F = {} THEN <<"ok">> ELSE <<IF lost THEN "lost" ELSE "refused">>
    IN  /\ F = {} => ~lost
        /\ Spend(rs)
        /\ forge' = IF repo \in forge.repos
                    THEN [forge EXCEPT !.seeded = @ \cup
                      {<<repo, f>> : f \in IF lost THEN SeedFiles ELSE SeedFiles \ F}]
                    ELSE forge
        /\ IF bad = SeedFiles
           THEN Stop
           ELSE /\ run' = Noted(rs, If(bad = {}, "partial"))
                /\ pc' = next
  BY DEF PostFiles
<1> DEFINE bad == IF repo \in forge.repos THEN F ELSE SeedFiles
           rs == IF F = {} THEN <<"ok">> ELSE <<IF lost THEN "lost" ELSE "refused">>
           posted == {<<repo, f>> : f \in IF lost THEN SeedFiles ELSE SeedFiles \ F}
           seeded == IF repo \in forge.repos THEN forge.seeded \cup posted ELSE forge.seeded
<1>2. Bad(rs) \in Nat /\ (Bad(rs) = 0 <=> F = {})
  BY OneCall
<1>3. faults' \in 0 .. MaxFaults
  BY <1>1, <1>2, Spending
<1>4. forge \in ForgeRecords
  BY DEF TypeOK
<1>5. /\ seeded \in SUBSET (Repos \X SeedFiles) /\ forge.seeded \subseteq seeded
      /\ \A x \in seeded : x[1] \in forge.repos
  BY <1>4 DEF TypeOK, ForgeRecords
<1>6. repo \in forge.repos /\ F = {} => \A f \in SeedFiles : <<repo, f>> \in seeded
  OBVIOUS
<1>7. forge' = [forge EXCEPT !.seeded = seeded]
  BY <1>1, <1>4 DEF ForgeRecords
<1>8. If(bad = {}, "partial") \in Statuses
      /\ (If(bad = {}, "partial") = "ok" <=> repo \in forge.repos /\ F = {})
  BY ForgeAssumption DEF If
<1>9. Stop \/ (pc' = next /\ run' = Noted(rs, If(bad = {}, "partial")))
  BY <1>1
<1> HIDE DEF seeded, rs, bad, posted
<1>10. /\ forge' \in ForgeRecords /\ forge'.seeded = seeded
  BY <1>4, <1>5, <1>7 DEF ForgeRecords
<1>11. /\ Bad(rs) = 0 /\ repo \in forge.repos => If(bad = {}, "partial") = "ok"
       /\ If(bad = {}, "partial") = "ok" =>
            repo \in forge.repos /\ \A f \in SeedFiles : <<repo, f>> \in forge'.seeded
  BY <1>2, <1>6, <1>8, <1>10
<1>12. Stop \/ /\ pc' = next
               /\ \E xs : \E s \in Statuses :
                    /\ Bad(xs) \in Nat /\ run' = Noted(xs, s)
                    /\ s = "ok" => /\ repo \in forge.repos
                                   /\ \A f \in SeedFiles : <<repo, f>> \in forge'.seeded
                    /\ Bad(xs) = 0 /\ repo \in forge.repos => s = "ok"
  BY <1>2, <1>8, <1>9, <1>11
<1> QED  BY <1>3, <1>5, <1>7, <1>10, <1>12

\* Without jq nothing is seeded, and the run notes that there is none.
LEMMA Jqless ==
  ASSUME TypeOK, NEW next \in Steps, NoJq(next)
  PROVE  /\ faults' \in 0 .. MaxFaults /\ pc' = next /\ forge' = forge
         /\ run' \in RunRecords /\ run'.jq = FALSE /\ ~run'.clean
         /\ run'.status = "ok" => run.status = "ok"
         /\ run'.mirror = run.mirror /\ run'.user = run.user /\ run'.known = run.known
         /\ run'.conf = run.conf /\ run'.token = run.token /\ run'.stale = run.stale
         /\ run'.fork = run.fork /\ run'.rotating = run.rotating
         /\ run'.client = run.client /\ run'.left = run.left /\ run'.login = run.login
         /\ run'.seen = run.seen
<1> DEFINE n == Noted(<<"refused">>, "ok")
<1>1. Spend(<<"refused">>) /\ run' = [n EXCEPT !.jq = FALSE] /\ pc' = next /\ forge' = forge
  BY DEF NoJq
<1>2. /\ n \in RunRecords /\ ~n.clean /\ (n.status = "ok" => run.status = "ok")
      /\ n.mirror = run.mirror /\ n.user = run.user /\ n.known = run.known
      /\ n.conf = run.conf /\ n.token = run.token /\ n.stale = run.stale
      /\ n.fork = run.fork /\ n.rotating = run.rotating
      /\ n.client = run.client /\ n.left = run.left /\ n.login = run.login
      /\ n.seen = run.seen
  BY Noting, OneCall
<1> HIDE DEF n
<1>3. faults' \in 0 .. MaxFaults
  BY <1>1, OneCall, Spending
<1> QED  BY <1>1, <1>2, <1>3 DEF RunRecords

\* What a phase that fails leaves of the run.
LEMMA Stops ==
  ASSUME TypeOK, Stop
  PROVE  /\ run' \in RunRecords /\ pc' = "idle" /\ run'.status = "failed" /\ ~run'.clean
         /\ run'.mirror = run.mirror /\ run'.user = run.user /\ run'.known = run.known
         /\ run'.conf = run.conf /\ run'.token = run.token /\ run'.stale = run.stale
         /\ run'.fork = run.fork /\ run'.rotating = run.rotating
         /\ run'.client = run.client /\ run'.left = run.left /\ run'.login = run.login
         /\ run'.seen = run.seen /\ run'.jq = run.jq
BY DEF TypeOK, Stop, RunRecords

\* A run that stops leaves only what holds between the runs.
LEMMA StoppingKeeps ==
  ASSUME ForgeInv, Stop, TypeOK', upstream' = upstream,
         forge'.repos = forge.repos, forge'.public = forge.public, forge'.head = forge.head,
         forge'.account = forge.account
  PROVE  ForgeInv'
<1>1. TypeOK
  BY DEF ForgeInv
<1> QED  BY <1>1, Stops DEF ForgeInv

\* What the two phases seed: the workspace, and then the fork.
Seeds(repo, next) ==
  \/ pc = "seed" /\ next = "oauth" /\ repo = Workspace /\ run.mirror = FALSE
  \/ pc = "reseed" /\ next = "finalize" /\ repo = run.fork /\ repo # NoRepo

\* Either of them, with jq.
LEMMA PostingKeeps ==
  ASSUME ForgeInv, NEW repo, NEW next, Seeds(repo, next), PostFiles(repo, next),
         UNCHANGED <<woodpecker, clone, epoch, upstream, runs>>
  PROVE  ForgeInv'
<1>1. TypeOK /\ forge \in ForgeRecords /\ run \in RunRecords
  BY DEF ForgeInv, TypeOK
<1>2. repo \in Repos /\ next \in Steps
  BY <1>1, RepoNames DEF Seeds, RunRecords
<1>3. /\ faults' \in 0 .. MaxFaults /\ forge' \in ForgeRecords
      /\ forge' = [forge EXCEPT !.seeded = forge'.seeded]
      /\ forge.seeded \subseteq forge'.seeded /\ \A x \in forge'.seeded : x[1] \in forge.repos
      /\ Stop \/ /\ pc' = next
                 /\ \E xs : \E s \in Statuses :
                      /\ Bad(xs) \in Nat /\ run' = Noted(xs, s)
                      /\ s = "ok" => /\ repo \in forge.repos
                                     /\ \A f \in SeedFiles : <<repo, f>> \in forge'.seeded
                      /\ Bad(xs) = 0 /\ repo \in forge.repos => s = "ok"
  BY <1>1, <1>2, Posting
<1>4. /\ forge'.db = forge.db /\ forge'.account = forge.account
      /\ forge'.token = forge.token /\ forge'.repos = forge.repos
      /\ forge'.public = forge.public /\ forge'.members = forge.members
      /\ forge'.apps = forge.apps /\ forge'.forkToken = forge.forkToken
      /\ forge'.runner = forge.runner /\ forge'.head = forge.head
  BY <1>1, <1>3 DEF ForgeRecords
<1>5. CASE Stop
  <2>1. TypeOK'
    BY <1>1, <1>3, <1>4, <1>5, Stops DEF TypeOK
  <2> QED  BY <1>4, <1>5, <2>1, StoppingKeeps
<1>6. CASE ~Stop
  <2>1. PICK xs : \E s \in Statuses :
          /\ Bad(xs) \in Nat /\ run' = Noted(xs, s)
          /\ s = "ok" => /\ repo \in forge.repos
                         /\ \A f \in SeedFiles : <<repo, f>> \in forge'.seeded
          /\ Bad(xs) = 0 /\ repo \in forge.repos => s = "ok"
    BY <1>3, <1>6
  <2>2. PICK s \in Statuses :
          /\ Bad(xs) \in Nat /\ run' = Noted(xs, s)
          /\ s = "ok" => /\ repo \in forge.repos
                         /\ \A f \in SeedFiles : <<repo, f>> \in forge'.seeded
          /\ Bad(xs) = 0 /\ repo \in forge.repos => s = "ok"
    BY <2>1
  <2>3. pc' = next
    BY <1>3, <1>6
  <2>4. /\ run' \in RunRecords
        /\ run'.clean => run.clean /\ Bad(xs) = 0
        /\ run'.status = "ok" <=> run.status = "ok" /\ s = "ok"
        /\ run'.mirror = run.mirror /\ run'.user = run.user /\ run'.known = run.known
        /\ run'.conf = run.conf /\ run'.token = run.token /\ run'.stale = run.stale
        /\ run'.fork = run.fork /\ run'.rotating = run.rotating
        /\ run'.client = run.client /\ run'.left = run.left /\ run'.login = run.login
        /\ run'.seen = run.seen /\ run'.jq = run.jq
    BY <1>1, <2>2, Noting
  <2>5. TypeOK'
    BY <1>1, <1>2, <1>3, <1>4, <2>3, <2>4 DEF TypeOK
  <2>6. CASE pc = "seed" /\ next = "oauth" /\ repo = Workspace /\ run.mirror = FALSE
    BY <1>1, <1>4, <2>2, <2>3, <2>4, <2>5, <2>6, LocalName DEF ForgeInv
  <2>7. CASE pc = "reseed" /\ next = "finalize" /\ repo = run.fork /\ repo # NoRepo
    BY <1>1, <1>2, <1>4, <2>2, <2>3, <2>4, <2>5, <2>7, LocalName DEF ForgeInv
  <2> QED  BY <2>6, <2>7 DEF Seeds
<1> QED  BY <1>5, <1>6

\* Either of them, without jq.
LEMMA JqlessKeeps ==
  ASSUME ForgeInv, NEW repo, NEW next, Seeds(repo, next), NoJq(next),
         UNCHANGED <<woodpecker, clone, epoch, upstream, runs>>
  PROVE  ForgeInv'
<1>1. TypeOK /\ forge \in ForgeRecords /\ run \in RunRecords
  BY DEF ForgeInv, TypeOK
<1>2. next \in Steps
  BY DEF Seeds
<1>3. /\ faults' \in 0 .. MaxFaults /\ pc' = next /\ forge' = forge
      /\ run' \in RunRecords /\ run'.jq = FALSE /\ ~run'.clean
      /\ run'.status = "ok" => run.status = "ok"
      /\ run'.mirror = run.mirror /\ run'.user = run.user /\ run'.known = run.known
      /\ run'.conf = run.conf /\ run'.token = run.token /\ run'.stale = run.stale
      /\ run'.fork = run.fork /\ run'.rotating = run.rotating
      /\ run'.client = run.client /\ run'.left = run.left /\ run'.login = run.login
      /\ run'.seen = run.seen
  BY <1>1, <1>2, Jqless
<1>4. TypeOK'
  BY <1>1, <1>2, <1>3 DEF TypeOK
<1>5. CASE pc = "seed" /\ next = "oauth"
  BY <1>1, <1>3, <1>4, <1>5, LocalName DEF ForgeInv
<1>6. CASE pc = "reseed" /\ next = "finalize"
  BY <1>1, <1>3, <1>4, <1>6, LocalName DEF ForgeInv
<1> QED  BY <1>5, <1>6 DEF Seeds

\* The seed files of the workspace.
LEMMA SeedKeeps == ForgeInv /\ Seed => ForgeInv'
<1> SUFFICES ASSUME ForgeInv, Seed PROVE ForgeInv'
  OBVIOUS
<1>1. TypeOK /\ forge \in ForgeRecords /\ run \in RunRecords
  BY DEF ForgeInv, TypeOK
<1>2. pc = "seed" /\ UNCHANGED <<woodpecker, clone, epoch, upstream, runs>>
  BY DEF Seed
<1>3. CASE run.mirror \/ ~run.token
  <2>1. pc' = "oauth" /\ UNCHANGED <<forge, run, faults>>
    BY <1>3 DEF Seed
  <2>2. TypeOK'
    BY <1>1, <1>2, <2>1 DEF TypeOK
  <2> QED  BY <1>1, <1>2, <1>3, <2>1, <2>2, LocalName DEF ForgeInv
<1>4. CASE ~(run.mirror \/ ~run.token)
  <2>1. SeedRepo(Target, "oauth")
    BY <1>4 DEF Seed
  <2>2. Target = Workspace /\ run.mirror = FALSE
    BY <1>1, <1>4, Targets DEF RunRecords
  <2>3. Seeds(Workspace, "oauth") /\ SeedRepo(Workspace, "oauth")
    BY <1>2, <2>1, <2>2 DEF Seeds
  <2> QED  BY <1>2, <2>3, PostingKeeps, JqlessKeeps DEF SeedRepo
<1> QED  BY <1>3, <1>4

\* Listing the OAuth applications.
LEMMA ListAppsKeeps == ForgeInv /\ ListApps => ForgeInv'
<1> SUFFICES ASSUME ForgeInv, ListApps PROVE ForgeInv'
  OBVIOUS
<1>1. TypeOK /\ forge \in ForgeRecords /\ run \in RunRecords
  BY DEF ForgeInv, TypeOK
<1>2. PICK r \in Reads :
       /\ run.token \/ r = "ok"
       /\ Spend(<<r>>)
       /\ run' = Noted(<<r>>, If(r = "ok", "partial"))
       /\ pc' = CASE ~run.token \/ r # "ok" -> "apply"
                  [] run.token /\ r = "ok" /\ forge.apps # {} -> "rotate"
                  [] OTHER -> "create"
  BY DEF ListApps
<1>3. pc = "oauth" /\ UNCHANGED <<forge, woodpecker, clone, epoch, upstream, runs>>
  BY DEF ListApps
<1>4. /\ pc' \in {"apply", "rotate", "create"}
      /\ pc' = "apply" => ~run.token \/ r # "ok"
      /\ pc' = "create" => forge.apps = {}
  BY <1>2
<1>5. If(r = "ok", "partial") \in Statuses /\ (If(r = "ok", "partial") = "ok" <=> r = "ok")
  BY DEF If
<1>6. /\ run' \in RunRecords
      /\ run'.clean => run.clean /\ r = "ok"
      /\ run'.status = "ok" <=> run.status = "ok" /\ r = "ok"
      /\ run'.mirror = run.mirror /\ run'.user = run.user /\ run'.known = run.known
      /\ run'.conf = run.conf /\ run'.token = run.token /\ run'.stale = run.stale
      /\ run'.fork = run.fork /\ run'.rotating = run.rotating /\ run'.client = run.client
      /\ run'.left = run.left /\ run'.login = run.login /\ run'.seen = run.seen /\ run'.jq = run.jq
  BY <1>1, <1>2, <1>5, Noting, OneCall
<1>7. faults' \in 0 .. MaxFaults
  BY <1>1, <1>2, OneCall, Spending
<1>8. TypeOK'
  BY <1>1, <1>3, <1>4, <1>6, <1>7 DEF TypeOK
<1> QED  BY <1>1, <1>3, <1>4, <1>6, <1>8, LocalName DEF ForgeInv

\* Deleting one of them: the run goes on only when it was rejected before any
\* was deleted, or when there is none left.
LEMMA DeleteAppKeeps == ForgeInv /\ DeleteApp => ForgeInv'
<1> SUFFICES ASSUME ForgeInv, DeleteApp PROVE ForgeInv'
  OBVIOUS
<1>1. TypeOK /\ forge \in ForgeRecords /\ run \in RunRecords
  BY DEF ForgeInv, TypeOK
<1>2. PICK r \in Calls :
       /\ Spend(<<r>>)
       /\ forge' = [forge EXCEPT !.apps = Deleted(r)]
       /\ CASE r = "ok" -> /\ run' = [run EXCEPT !.rotating = TRUE]
                           /\ pc' = IF forge'.apps = {} THEN "create" ELSE "rotate"
            [] r = "lost" -> Stop
            [] OTHER -> IF run.rotating THEN Stop
                        ELSE run' = Noted(<<r>>, "partial") /\ pc' = "apply"
  BY DEF DeleteApp
<1>3. pc = "rotate" /\ UNCHANGED <<woodpecker, clone, epoch, upstream, runs>>
  BY DEF DeleteApp
<1>4. Deleted(r) \in SUBSET AppIds /\ (r = "refused" => Deleted(r) = forge.apps)
  BY <1>1 DEF Deleted, Applied, ForgeRecords
<1>5. /\ forge' \in ForgeRecords /\ (r = "refused" => forge'.apps = forge.apps)
      /\ forge'.db = forge.db /\ forge'.account = forge.account
      /\ forge'.token = forge.token /\ forge'.repos = forge.repos
      /\ forge'.public = forge.public /\ forge'.members = forge.members
      /\ forge'.seeded = forge.seeded /\ forge'.forkToken = forge.forkToken
      /\ forge'.runner = forge.runner /\ forge'.head = forge.head
  BY <1>1, <1>2, <1>4 DEF ForgeRecords
<1>6. faults' \in 0 .. MaxFaults
  BY <1>1, <1>2, OneCall, Spending
<1>7. CASE Stop
  <2>1. TypeOK'
    BY <1>1, <1>3, <1>5, <1>6, <1>7, Stops DEF TypeOK
  <2> QED  BY <1>3, <1>5, <1>7, <2>1, StoppingKeeps
<1>8. CASE r = "ok"
  <2>1. /\ run' = [run EXCEPT !.rotating = TRUE]
        /\ pc' = IF forge'.apps = {} THEN "create" ELSE "rotate"
    BY <1>2, <1>8
  <2>2. /\ run' \in RunRecords /\ run'.rotating = TRUE
        /\ run'.clean = run.clean /\ run'.status = run.status
        /\ run'.mirror = run.mirror /\ run'.user = run.user /\ run'.known = run.known
        /\ run'.conf = run.conf /\ run'.token = run.token /\ run'.stale = run.stale
        /\ run'.fork = run.fork /\ run'.client = run.client /\ run'.left = run.left
        /\ run'.login = run.login /\ run'.seen = run.seen /\ run'.jq = run.jq
    BY <1>1, <2>1 DEF RunRecords
  <2>3. TypeOK'
    BY <1>1, <1>3, <1>5, <1>6, <2>1, <2>2 DEF TypeOK
  <2> QED  BY <1>1, <1>3, <1>5, <2>1, <2>2, <2>3, LocalName DEF ForgeInv
<1>9. CASE ~Stop /\ r # "ok"
  <2>1. r = "refused" /\ ~run.rotating /\ run' = Noted(<<r>>, "partial") /\ pc' = "apply"
    BY <1>2, <1>9 DEF Calls
  <2>2. /\ run' \in RunRecords /\ run'.status # "ok" /\ ~run'.clean
        /\ run'.mirror = run.mirror /\ run'.user = run.user /\ run'.known = run.known
        /\ run'.conf = run.conf /\ run'.token = run.token /\ run'.stale = run.stale
        /\ run'.fork = run.fork /\ run'.rotating = run.rotating /\ run'.client = run.client
        /\ run'.left = run.left /\ run'.login = run.login /\ run'.seen = run.seen /\ run'.jq = run.jq
    BY <1>1, <2>1, Noting, OneCall
  <2>3. TypeOK'
    BY <1>1, <1>3, <1>5, <1>6, <2>1, <2>2 DEF TypeOK
  <2> QED  BY <1>1, <1>3, <1>5, <2>1, <2>2, <2>3, LocalName DEF ForgeInv
<1> QED  BY <1>7, <1>8, <1>9

\* While there is no application, there is a free id for a new one.
LEMMA FreeApp == TypeOK /\ forge.apps = {} => FreshApp \in AppIds
<1> SUFFICES ASSUME TypeOK, forge.apps = {} PROVE FreshApp \in AppIds
  OBVIOUS
<1> DEFINE used == {woodpecker.env, woodpecker.container}
           S == AppIds \ (forge.apps \cup used)
           x == IF 1 \notin used THEN 1 ELSE IF 2 \notin used THEN 2 ELSE 3
<1>1. 1 \in AppIds /\ 2 \in AppIds /\ 3 \in AppIds /\ AppIds \subseteq Nat \ {0}
  BY ForgeAssumption DEF AppIds
<1>2. x \in S /\ \A y \in S : x <= y
  BY <1>1
<1>3. \E z \in S : \A y \in S : z <= y
  BY <1>2
<1>4. Min1(S) \in S
  BY <1>3 DEF Min1
<1> QED  BY <1>4 DEF FreshApp

\* Creating the new one.
LEMMA CreateAppKeeps == ForgeInv /\ CreateApp => ForgeInv'
<1> SUFFICES ASSUME ForgeInv, CreateApp PROVE ForgeInv'
  OBVIOUS
<1>1. TypeOK /\ forge \in ForgeRecords /\ run \in RunRecords
  BY DEF ForgeInv, TypeOK
<1>2. PICK r \in Calls :
       /\ Spend(<<r>>)
       /\ forge' = [forge EXCEPT !.apps = Created(r)]
       /\ IF r # "ok" /\ run.rotating
          THEN Stop
          ELSE /\ run' = [Noted(<<r>>, If(r = "ok", "partial")) EXCEPT
                            !.client = IF r = "ok" THEN FreshApp ELSE 0]
               /\ pc' = "apply"
  BY DEF CreateApp
<1>3. pc = "create" /\ UNCHANGED <<woodpecker, clone, epoch, upstream, runs>>
  BY DEF CreateApp
<1>4. forge.apps = {} /\ FreshApp \in AppIds /\ FreshApp # 0
  <2>1. forge.apps = {}
    BY <1>3 DEF ForgeInv
  <2>2. FreshApp \in AppIds
    BY <1>1, <2>1, FreeApp
  <2> QED  BY <2>1, <2>2 DEF AppIds
<1>5. Created(r) \in SUBSET AppIds /\ (r = "ok" => Created(r) = {FreshApp})
  BY <1>4 DEF Created, Applied
<1>6. /\ forge' \in ForgeRecords /\ forge'.apps = Created(r)
      /\ forge'.db = forge.db /\ forge'.account = forge.account
      /\ forge'.token = forge.token /\ forge'.repos = forge.repos
      /\ forge'.public = forge.public /\ forge'.members = forge.members
      /\ forge'.seeded = forge.seeded /\ forge'.forkToken = forge.forkToken
      /\ forge'.runner = forge.runner /\ forge'.head = forge.head
  BY <1>1, <1>2, <1>5 DEF ForgeRecords
<1>7. faults' \in 0 .. MaxFaults
  BY <1>1, <1>2, OneCall, Spending
<1>8. CASE r # "ok" /\ run.rotating
  <2>1. Stop
    BY <1>2, <1>8
  <2>2. TypeOK'
    BY <1>1, <1>3, <1>6, <1>7, <2>1, Stops DEF TypeOK
  <2> QED  BY <1>3, <1>6, <2>1, <2>2, StoppingKeeps
<1>9. CASE ~(r # "ok" /\ run.rotating)
  <2> DEFINE n == Noted(<<r>>, If(r = "ok", "partial"))
             client == IF r = "ok" THEN FreshApp ELSE 0
  <2>1. If(r = "ok", "partial") \in Statuses /\ (If(r = "ok", "partial") = "ok" <=> r = "ok")
    BY DEF If
  <2>2. /\ n \in RunRecords /\ client \in AppIds \cup {0} /\ pc' = "apply"
        /\ run' = [n EXCEPT !.client = client]
        /\ n.clean => run.clean /\ r = "ok"
        /\ n.status = "ok" <=> run.status = "ok" /\ r = "ok"
        /\ r = "ok" => client # 0 /\ Created(r) = {client}
    BY <1>1, <1>2, <1>4, <1>5, <1>9, <2>1, Noting, OneCall
  <2>3. /\ n.mirror = run.mirror /\ n.user = run.user /\ n.known = run.known /\ n.conf = run.conf
        /\ n.token = run.token /\ n.stale = run.stale /\ n.fork = run.fork
        /\ n.rotating = run.rotating /\ n.left = run.left /\ n.login = run.login
        /\ n.seen = run.seen /\ n.jq = run.jq
    BY <1>1, <2>1, Noting
  <2> HIDE DEF n, client
  <2>4. /\ run' \in RunRecords /\ run'.clean = n.clean /\ run'.status = n.status
        /\ run'.client = client
        /\ run'.mirror = run.mirror /\ run'.user = run.user /\ run'.known = run.known
        /\ run'.conf = run.conf /\ run'.token = run.token /\ run'.stale = run.stale
        /\ run'.fork = run.fork /\ run'.rotating = run.rotating /\ run'.left = run.left
        /\ run'.login = run.login /\ run'.seen = run.seen /\ run'.jq = run.jq
    BY <2>2, <2>3 DEF RunRecords
  <2>5. TypeOK'
    BY <1>1, <1>3, <1>6, <1>7, <2>2, <2>4 DEF TypeOK
  <2>6. r # "ok" => ~run.rotating
    BY <1>9
  <2>7. run.login => r = "ok"
    BY <1>3, <1>4, <2>6 DEF ForgeInv
  <2> QED  BY <1>1, <1>3, <1>6, <2>2, <2>4, <2>5, <2>7, LocalName DEF ForgeInv
<1> QED  BY <1>8, <1>9

\* Handing it to Woodpecker.
LEMMA ApplyWoodpeckerKeeps == ForgeInv /\ ApplyWoodpecker => ForgeInv'
<1> SUFFICES ASSUME ForgeInv, ApplyWoodpecker PROVE ForgeInv'
  OBVIOUS
<1>1. TypeOK /\ forge \in ForgeRecords /\ run \in RunRecords
  BY DEF ForgeInv, TypeOK
<1>2. PICK p \in Calls, u \in Calls :
       /\ Spend(<<p, u>>)
       /\ woodpecker' =
            IF run.client = 0 \/ ~Applied(p) THEN woodpecker
            ELSE Client(run.client, IF p = "ok" /\ Applied(u) THEN run.client
                                    ELSE woodpecker.container)
       /\ run' = Noted(<<p, u>>, If(p = "ok" /\ u = "ok", "partial"))
  BY DEF ApplyWoodpecker
<1>3. /\ pc = "apply" /\ pc' = IF run.mirror /\ run.token THEN "uid" ELSE "reseed"
      /\ UNCHANGED <<forge, clone, epoch, upstream, runs>>
  BY DEF ApplyWoodpecker
<1> DEFINE st == If(p = "ok" /\ u = "ok", "partial")
<1>4. st \in Statuses /\ (st = "ok" <=> p = "ok" /\ u = "ok")
  BY DEF If
<1>5. /\ run' \in RunRecords
      /\ run'.clean => run.clean /\ p = "ok" /\ u = "ok"
      /\ run'.status = "ok" <=> run.status = "ok" /\ p = "ok" /\ u = "ok"
      /\ run'.mirror = run.mirror /\ run'.user = run.user /\ run'.known = run.known
      /\ run'.conf = run.conf /\ run'.token = run.token /\ run'.stale = run.stale
      /\ run'.fork = run.fork /\ run'.rotating = run.rotating /\ run'.client = run.client
      /\ run'.left = run.left /\ run'.login = run.login
      /\ run'.seen = run.seen /\ run'.jq = run.jq
  BY <1>1, <1>2, <1>4, Noting, TwoCalls
<1>6. run.client \in AppIds \cup {0}
  BY <1>1 DEF RunRecords
<1>7. /\ woodpecker' \in [env : AppIds \cup {0}, container : AppIds \cup {0}]
      /\ p = "ok" /\ u = "ok" /\ run.client # 0 =>
           woodpecker'.env = run.client /\ woodpecker'.container = run.client
  BY <1>1, <1>2, <1>6 DEF Applied, Client, TypeOK
<1>8. faults' \in 0 .. MaxFaults
  BY <1>1, <1>2, TwoCalls, Spending
<1>9. TypeOK'
  BY <1>1, <1>3, <1>5, <1>7, <1>8 DEF TypeOK
<1> QED  BY <1>1, <1>3, <1>5, <1>7, <1>9, LocalName DEF ForgeInv, RunRecords

\* Beginning the loop over the mirrors.
LEMMA GetAdminIdKeeps == ForgeInv /\ GetAdminId => ForgeInv'
<1> SUFFICES ASSUME ForgeInv, GetAdminId PROVE ForgeInv'
  OBVIOUS
<1>1. TypeOK /\ forge \in ForgeRecords /\ run \in RunRecords
  BY DEF ForgeInv, TypeOK
<1>2. PICK r \in Reads :
       /\ Spend(<<r>>)
       /\ IF r = "ok"
          THEN run' = [run EXCEPT !.left = MirrorList] /\ pc' = "mirror"
          ELSE run' = Noted(<<r>>, "partial") /\ pc' = "reseed"
  BY DEF GetAdminId
<1>3. pc = "uid" /\ UNCHANGED <<forge, woodpecker, clone, epoch, upstream, runs>>
  BY DEF GetAdminId
<1>4. faults' \in 0 .. MaxFaults
  BY <1>1, <1>2, OneCall, Spending
<1>5. CASE r = "ok"
  <2>1. run' = [run EXCEPT !.left = MirrorList] /\ pc' = "mirror"
    BY <1>2, <1>5
  <2>2. /\ run' \in RunRecords /\ run'.left = MirrorList
        /\ run'.clean = run.clean /\ run'.status = run.status
        /\ run'.mirror = run.mirror /\ run'.user = run.user /\ run'.known = run.known
        /\ run'.conf = run.conf /\ run'.token = run.token /\ run'.stale = run.stale
        /\ run'.fork = run.fork /\ run'.rotating = run.rotating /\ run'.client = run.client
        /\ run'.login = run.login /\ run'.seen = run.seen /\ run'.jq = run.jq
    BY <1>1, <2>1, Suffixing DEF RunRecords
  <2>3. TypeOK'
    BY <1>1, <1>3, <1>4, <2>1, <2>2 DEF TypeOK
  <2>4. \A m \in Mirrors : m \in Rest(run'.left)
    BY <2>2, Suffixing
  <2> QED  BY <1>1, <1>3, <2>1, <2>2, <2>3, <2>4, LocalName DEF ForgeInv
<1>6. CASE r # "ok"
  <2>1. run' = Noted(<<r>>, "partial") /\ pc' = "reseed"
    BY <1>2, <1>6
  <2>2. /\ run' \in RunRecords /\ run'.status # "ok" /\ ~run'.clean
        /\ run'.mirror = run.mirror /\ run'.user = run.user /\ run'.known = run.known
        /\ run'.conf = run.conf /\ run'.token = run.token /\ run'.stale = run.stale
        /\ run'.fork = run.fork /\ run'.rotating = run.rotating /\ run'.client = run.client
        /\ run'.left = run.left /\ run'.login = run.login /\ run'.seen = run.seen /\ run'.jq = run.jq
    BY <1>1, <1>6, <2>1, Noting, OneCall
  <2>3. TypeOK'
    BY <1>1, <1>3, <1>4, <2>1, <2>2 DEF TypeOK
  <2> QED  BY <1>1, <1>3, <2>1, <2>2, <2>3, LocalName DEF ForgeInv
<1> QED  BY <1>5, <1>6

\* Migrating a mirror that is there changes nothing; a new one has the commits
\* of the day.
LEMMA Migrating ==
  ASSUME TypeOK, NEW m \in Mirrors, NEW r,
         \A x \in Repos : forge.head[x] <= upstream
  PROVE  LET f == Migrated(Mirror(m), r)
         IN  /\ f \in ForgeRecords
             /\ f.db = forge.db /\ f.account = forge.account /\ f.token = forge.token
             /\ f.public = forge.public /\ f.members = forge.members /\ f.seeded = forge.seeded
             /\ f.apps = forge.apps /\ f.forkToken = forge.forkToken /\ f.runner = forge.runner
             /\ forge.repos \subseteq f.repos /\ f.repos \subseteq forge.repos \cup {Mirror(m)}
             /\ r = "ok" => Mirror(m) \in f.repos
             /\ \A x \in Repos : f.head[x] >= forge.head[x] /\ f.head[x] <= upstream
<1> DEFINE f == Migrated(Mirror(m), r)
<1>1. forge \in ForgeRecords /\ Mirror(m) \in Repos /\ upstream \in 0 .. 1
  BY RepoNames DEF TypeOK
<1>2. CASE Mirror(m) \notin forge.repos /\ Applied(r)
  <2> DEFINE repos == forge.repos \cup {Mirror(m)}
             head == [forge.head EXCEPT ![Mirror(m)] = upstream]
  <2>1. repos \in SUBSET Repos /\ head \in [Repos -> 0 .. 1]
    BY <1>1 DEF ForgeRecords
  <2>2. f = [forge EXCEPT !.repos = repos, !.head = head]
    BY <1>1, <1>2 DEF Migrated
  <2>3. \A x \in Repos : head[x] >= forge.head[x] /\ head[x] <= upstream
    BY <1>1 DEF ForgeRecords
  <2>4. forge.repos \subseteq repos /\ Mirror(m) \in repos
    OBVIOUS
  <2>5. repos \subseteq forge.repos \cup {Mirror(m)}
    OBVIOUS
  <2> HIDE DEF repos, head
  <2> QED  BY <1>1, <2>1, <2>2, <2>3, <2>4, <2>5 DEF ForgeRecords
<1>3. CASE ~(Mirror(m) \notin forge.repos /\ Applied(r))
  <2>1. f = forge /\ (r = "ok" => Mirror(m) \in forge.repos)
    BY <1>3 DEF Migrated, Applied
  <2> QED  BY <1>1, <2>1 DEF ForgeRecords
<1> QED  BY <1>2, <1>3

\* One mirror.
LEMMA MirrorRepoKeeps == ForgeInv /\ MirrorRepo => ForgeInv'
<1> SUFFICES ASSUME ForgeInv, MirrorRepo PROVE ForgeInv'
  OBVIOUS
<1>1. TypeOK /\ forge \in ForgeRecords /\ run \in RunRecords
  BY DEF ForgeInv, TypeOK
<1> DEFINE m == Head(run.left)
<1>2. PICK l \in Reads, r \in Calls :
       /\ l = "ok" /\ Mirror(m) \in forge.repos => r = "ok"
       /\ Spend(<<l, r>>)
       /\ forge' = Migrated(Mirror(m), r)
       /\ IF r = "ok"
          THEN run' = Noted(<<l>>, "ok") /\ pc' = "reader"
          ELSE /\ run' = [Noted(<<l, r>>, "partial") EXCEPT !.left = Tail(@)]
               /\ pc' = "mirror"
  BY DEF MirrorRepo
<1>3. pc = "mirror" /\ run.left # <<>> /\ UNCHANGED <<woodpecker, clone, epoch, upstream, runs>>
  BY DEF MirrorRepo
<1>4. /\ m \in Mirrors /\ Tail(run.left) \in Suffixes
      /\ \A k \in Rest(run.left) : k = m \/ k \in Rest(Tail(run.left))
  BY <1>1, <1>3, Suffixing DEF RunRecords
<1> HIDE DEF m
<1>5. \A x \in Repos : forge.head[x] <= upstream
  BY DEF ForgeInv
<1>6. /\ forge' \in ForgeRecords
      /\ forge'.db = forge.db /\ forge'.account = forge.account
      /\ forge'.token = forge.token /\ forge'.public = forge.public
      /\ forge'.members = forge.members /\ forge'.seeded = forge.seeded
      /\ forge'.apps = forge.apps /\ forge'.forkToken = forge.forkToken
      /\ forge'.runner = forge.runner
      /\ forge.repos \subseteq forge'.repos /\ forge'.repos \subseteq forge.repos \cup {Mirror(m)}
      /\ r = "ok" => Mirror(m) \in forge'.repos
      /\ \A x \in Repos : forge'.head[x] >= forge.head[x] /\ forge'.head[x] <= upstream
  BY <1>1, <1>2, <1>4, <1>5, Migrating
<1>7. faults' \in 0 .. MaxFaults
  BY <1>1, <1>2, TwoCalls, Spending
<1>8. \A k \in Mirrors : Fork(k) \in forge'.repos => Mirror(k) \in forge'.repos
  BY <1>1, <1>4, <1>6, RepoNames DEF TypeOK
<1>9. /\ Mirror(First) \in Repos /\ run.seen \in Nat
      /\ forge'.head[Mirror(First)] \in Nat /\ forge.head[Mirror(First)] \in Nat
      /\ run.fork # NoRepo => /\ run.fork \in Repos /\ forge'.head[run.fork] \in Nat
                              /\ forge.head[run.fork] \in Nat
  BY <1>1, <1>6, FirstMirror, RepoNames DEF ForgeRecords, RunRecords
<1>10. CASE r = "ok"
  <2>1. run' = Noted(<<l>>, "ok") /\ pc' = "reader"
    BY <1>2, <1>10
  <2>2. /\ run' \in RunRecords
        /\ run'.clean => run.clean
        /\ run'.status = "ok" <=> run.status = "ok"
        /\ run'.mirror = run.mirror /\ run'.user = run.user /\ run'.known = run.known
        /\ run'.conf = run.conf /\ run'.token = run.token /\ run'.stale = run.stale
        /\ run'.fork = run.fork /\ run'.rotating = run.rotating /\ run'.client = run.client
        /\ run'.left = run.left /\ run'.login = run.login /\ run'.seen = run.seen /\ run'.jq = run.jq
    BY <1>1, <2>1, Noting, OneCall
  <2>3. TypeOK'
    BY <1>1, <1>3, <1>6, <1>7, <1>8, <2>1, <2>2 DEF TypeOK
  <2>4. Mirror(Head(run'.left)) \in forge'.repos
    BY <1>6, <1>10, <2>2 DEF m
  <2> QED  BY <1>1, <1>3, <1>6, <1>9, <2>1, <2>2, <2>3, <2>4, LocalName DEF ForgeInv
<1>11. CASE r # "ok"
  <2> DEFINE n == Noted(<<l, r>>, "partial")
  <2>1. /\ n \in RunRecords /\ run' = [n EXCEPT !.left = Tail(run.left)] /\ pc' = "mirror"
        /\ n.status # "ok" /\ ~n.clean
        /\ n.mirror = run.mirror /\ n.user = run.user /\ n.known = run.known /\ n.conf = run.conf
        /\ n.token = run.token /\ n.stale = run.stale /\ n.fork = run.fork
        /\ n.rotating = run.rotating /\ n.client = run.client /\ n.login = run.login
        /\ n.seen = run.seen /\ n.jq = run.jq
    BY <1>1, <1>2, <1>11, Noting, TwoCalls
  <2> HIDE DEF n
  <2>2. /\ run' \in RunRecords /\ run'.status # "ok" /\ ~run'.clean
        /\ run'.mirror = run.mirror /\ run'.user = run.user /\ run'.known = run.known
        /\ run'.conf = run.conf /\ run'.token = run.token /\ run'.stale = run.stale
        /\ run'.fork = run.fork /\ run'.rotating = run.rotating /\ run'.client = run.client
        /\ run'.login = run.login /\ run'.seen = run.seen /\ run'.jq = run.jq
    BY <1>4, <2>1 DEF RunRecords
  <2>3. TypeOK'
    BY <1>1, <1>3, <1>6, <1>7, <1>8, <2>1, <2>2 DEF TypeOK
  <2> QED  BY <1>1, <1>3, <1>6, <1>9, <2>1, <2>2, <2>3, LocalName DEF ForgeInv
<1> QED  BY <1>10, <1>11

\* Going on to the next mirror leaves none out.
LEMMA Popping ==
  ASSUME run \in RunRecords, run.left # <<>>, Mirror(Head(run.left)) \in forge.repos,
         \A m \in Mirrors : Mirror(m) \in forge.repos \/ m \in Rest(run.left)
  PROVE  \A m \in Mirrors : Mirror(m) \in forge.repos \/ m \in Rest(Tail(run.left))
BY Suffixing DEF RunRecords

\* The user as a reader of a mirror.
LEMMA AddReaderKeeps == ForgeInv /\ AddReader => ForgeInv'
<1> SUFFICES ASSUME ForgeInv, AddReader PROVE ForgeInv'
  OBVIOUS
<1>1. TypeOK /\ forge \in ForgeRecords /\ run \in RunRecords
  BY DEF ForgeInv, TypeOK
<1>2. PICK r \in Calls :
       /\ Spend(<<r>>)
       /\ forge' = Joined(Identity.login, Mirror(Head(run.left)), r)
       /\ run' = [Noted(<<r>>, "ok") EXCEPT
                    !.left = IF run.fork = NoRepo THEN @ ELSE Tail(@)]
  BY DEF AddReader
<1>3. /\ pc = "reader" /\ pc' = IF run.fork = NoRepo THEN "forktoken" ELSE "mirror"
      /\ UNCHANGED <<woodpecker, clone, epoch, upstream, runs>>
  BY DEF AddReader
<1>4. /\ Identity.login \in Names /\ run.left # <<>> /\ Mirror(Head(run.left)) \in forge.repos
      /\ run.user => Identity.login = "student" /\ Identity.local = "student"
      /\ Tail(run.left) \in Suffixes
  BY <1>1, <1>3, LocalName, Suffixing DEF Names, ForgeInv, RunRecords
<1> DEFINE n == Noted(<<r>>, "ok")
           left == IF run.fork = NoRepo THEN run.left ELSE Tail(run.left)
<1>5. /\ n \in RunRecords /\ left \in Suffixes \cup {<<>>} /\ run' = [n EXCEPT !.left = left]
      /\ n.clean => run.clean /\ r = "ok"
      /\ n.status = "ok" <=> run.status = "ok"
  <2>1. n \in RunRecords /\ n.left = run.left
    BY <1>1, Noting
  <2>2. left \in Suffixes \cup {<<>>}
    BY <1>1, <1>4 DEF RunRecords
  <2>3. run' = [n EXCEPT !.left = left]
    BY <1>2, <2>1
  <2>4. /\ n.clean => run.clean /\ r = "ok"
        /\ n.status = "ok" <=> run.status = "ok"
    BY <1>1, Noting, OneCall
  <2> QED  BY <2>1, <2>2, <2>3, <2>4
<1> HIDE DEF n, left
<1>6. /\ run' \in RunRecords /\ run'.left = left /\ run'.status = n.status /\ run'.clean = n.clean
      /\ run'.mirror = run.mirror /\ run'.user = run.user /\ run'.known = run.known
      /\ run'.conf = run.conf /\ run'.token = run.token /\ run'.stale = run.stale
      /\ run'.fork = run.fork /\ run'.rotating = run.rotating /\ run'.client = run.client
      /\ run'.login = run.login /\ run'.seen = run.seen /\ run'.jq = run.jq
  BY <1>1, <1>5, Noting DEF RunRecords, n
<1>7. /\ forge' \in ForgeRecords /\ forge' = [forge EXCEPT !.members = forge'.members]
      /\ forge.members \subseteq forge'.members
      /\ \A x \in forge'.members : x[2] \in forge.repos
      /\ run.user /\ r = "ok" /\ forge.account["student"] # Absent =>
           <<"student", Mirror(Head(run.left))>> \in forge'.members
  BY <1>1, <1>2, <1>4, Joining
<1>8. faults' \in 0 .. MaxFaults
  BY <1>1, <1>2, OneCall, Spending
<1>9.
      /\ forge'.db = forge.db /\ forge'.account = forge.account
      /\ forge'.token = forge.token /\ forge'.repos = forge.repos
      /\ forge'.public = forge.public /\ forge'.seeded = forge.seeded
      /\ forge'.apps = forge.apps /\ forge'.forkToken = forge.forkToken
      /\ forge'.runner = forge.runner /\ forge'.head = forge.head
  BY <1>1, <1>7 DEF ForgeRecords
<1>10. TypeOK'
  BY <1>1, <1>3, <1>6, <1>7, <1>8, <1>9 DEF TypeOK
<1>11. run.user /\ run.clean /\ ~run.stale => forge.account["student"].pw = epoch
  BY <1>1, <1>3, <1>4 DEF ForgeInv
<1>12. run.user /\ run.clean /\ ~run.stale => forge.account["student"] # Absent
  BY <1>1, <1>11, ForgeAssumption DEF Absent, TypeOK
<1>13. Fine => \A m \in Mirrors : Mirror(m) \in forge'.repos \/ m \in Rest(run'.left)
  <2>1. Fine => \A m \in Mirrors : Mirror(m) \in forge.repos \/ m \in Rest(run.left)
    BY <1>3 DEF ForgeInv
  <2>2. Fine => \A m \in Mirrors : Mirror(m) \in forge.repos \/ m \in Rest(Tail(run.left))
    BY <1>1, <1>4, <2>1, Popping
  <2> QED  BY <1>6, <1>9, <2>1, <2>2 DEF left
<1> QED  BY <1>1, <1>3, <1>4, <1>5, <1>6, <1>7, <1>9, <1>10, <1>12, <1>13, LocalName
           DEF ForgeInv, left

\* The user's temporary token.
LEMMA CreateForkTokenKeeps == ForgeInv /\ CreateForkToken => ForgeInv'
<1> SUFFICES ASSUME ForgeInv, CreateForkToken PROVE ForgeInv'
  OBVIOUS
<1>1. TypeOK /\ forge \in ForgeRecords /\ run \in RunRecords
  BY DEF ForgeInv, TypeOK
<1> DEFINE can == AdminAuth /\ forge.account[Identity.login] # Absent
           first(a) == can /\ Applied(a) /\ ~forge.forkToken
           got(a) == first(a) /\ a = "ok"
           kept(a, d) == (forge.forkToken \/ first(a)) /\ ~(AdminAuth /\ Applied(d))
           second(a, d, b) == can /\ Applied(b) /\ ~kept(a, d)
           done(a, d, b) == got(a) \/ (second(a, d, b) /\ b = "ok")
<1>2. PICK a \in Calls, d \in Calls, b \in Calls :
       /\ got(a) => d = "ok" /\ b = "ok"
       /\ Spend(<<a, d, b>>)
       /\ forge' = [forge EXCEPT !.forkToken = IF got(a) THEN TRUE ELSE kept(a, d) \/ second(a, d, b)]
       /\ run' = [Noted(<<a, d, b>>, "ok") EXCEPT
                    !.tried = @ \/ ~done(a, d, b),
                    !.left = IF done(a, d, b) THEN @ ELSE Tail(@)]
       /\ pc' = IF done(a, d, b) THEN "fork" ELSE "mirror"
  BY DEF CreateForkToken
<1>3. pc = "forktoken" /\ UNCHANGED <<woodpecker, clone, epoch, upstream, runs>>
  BY DEF CreateForkToken
<1>4. /\ run.left # <<>> /\ Tail(run.left) \in Suffixes /\ Mirror(Head(run.left)) \in forge.repos
      /\ run.user => Identity.login = "student" /\ Identity.local = "student"
  BY <1>1, <1>3, LocalName, Suffixing DEF ForgeInv, RunRecords
<1> DEFINE n == Noted(<<a, d, b>>, "ok")
           ok == done(a, d, b)
           tried == n.tried \/ ~ok
           held == IF got(a) THEN TRUE ELSE kept(a, d) \/ second(a, d, b)
           left == IF ok THEN run.left ELSE Tail(run.left)
<1>5. /\ n \in RunRecords /\ run' = [n EXCEPT !.tried = tried, !.left = left]
      /\ forge' = [forge EXCEPT !.forkToken = held]
      /\ left \in Suffixes \cup {<<>>} /\ tried \in BOOLEAN /\ held \in BOOLEAN
      /\ pc' = IF ok THEN "fork" ELSE "mirror"
      /\ n.clean => run.clean /\ a = "ok" /\ d = "ok" /\ b = "ok"
      /\ n.status = "ok" <=> run.status = "ok"
  <2>1. n \in RunRecords /\ n.left = run.left
    BY <1>1, Noting
  <2>2. left \in Suffixes \cup {<<>>} /\ tried \in BOOLEAN /\ held \in BOOLEAN
    BY <1>1, <1>4, <2>1 DEF RunRecords, ForgeRecords
  <2>3. run' = [n EXCEPT !.tried = tried, !.left = left]
    BY <1>2, <2>1
  <2>4. /\ n.clean => run.clean /\ a = "ok" /\ d = "ok" /\ b = "ok"
        /\ n.status = "ok" <=> run.status = "ok"
    BY <1>1, Noting, ThreeCalls
  <2>5. /\ forge' = [forge EXCEPT !.forkToken = held]
        /\ pc' = IF ok THEN "fork" ELSE "mirror"
    BY <1>2
  <2> HIDE DEF n, left, tried, held, ok
  <2> QED  BY <2>1, <2>2, <2>3, <2>4, <2>5
<1>6. can /\ a = "ok" /\ d = "ok" /\ b = "ok" => ok
  BY DEF Applied
<1>7. /\ n.mirror = run.mirror /\ n.user = run.user /\ n.known = run.known /\ n.conf = run.conf
      /\ n.token = run.token /\ n.stale = run.stale /\ n.fork = run.fork
      /\ n.rotating = run.rotating /\ n.client = run.client /\ n.login = run.login
      /\ n.seen = run.seen /\ n.jq = run.jq
  BY <1>1, Noting
<1>8. run.user /\ run.clean /\ ~run.stale =>
        forge.account["student"].pw = epoch /\ forge.account["admin"].pw = epoch
  BY <1>1, <1>3, <1>4 DEF ForgeInv
<1>9. run.user /\ run.clean /\ ~run.stale => can
  BY <1>1, <1>4, <1>8, ForgeAssumption DEF Absent, TypeOK, AdminAuth
<1> HIDE DEF n, ok, tried, held, can
<1>10. /\ run' \in RunRecords /\ run'.left = left /\ run'.status = n.status /\ run'.clean = n.clean
       /\ run'.mirror = run.mirror /\ run'.user = run.user /\ run'.known = run.known
       /\ run'.conf = run.conf /\ run'.token = run.token /\ run'.stale = run.stale
       /\ run'.fork = run.fork /\ run'.rotating = run.rotating /\ run'.client = run.client
       /\ run'.login = run.login /\ run'.seen = run.seen /\ run'.jq = run.jq
  BY <1>5, <1>7 DEF RunRecords
<1>11. /\ forge' \in ForgeRecords
       /\ forge'.db = forge.db /\ forge'.account = forge.account
       /\ forge'.token = forge.token /\ forge'.repos = forge.repos
       /\ forge'.public = forge.public /\ forge'.members = forge.members
       /\ forge'.seeded = forge.seeded /\ forge'.apps = forge.apps
       /\ forge'.runner = forge.runner /\ forge'.head = forge.head
  BY <1>1, <1>5 DEF ForgeRecords
<1>12. faults' \in 0 .. MaxFaults
  BY <1>1, <1>2, ThreeCalls, Spending
<1>13. TypeOK'
  BY <1>1, <1>3, <1>5, <1>10, <1>11, <1>12 DEF TypeOK
<1>14. Fine => \A m \in Mirrors : Mirror(m) \in forge'.repos \/ m \in Rest(run'.left)
  <2>1. Fine => \A m \in Mirrors : Mirror(m) \in forge.repos \/ m \in Rest(run.left)
    BY <1>3 DEF ForgeInv
  <2>2. Fine => \A m \in Mirrors : Mirror(m) \in forge.repos \/ m \in Rest(Tail(run.left))
    BY <1>1, <1>4, <2>1, Popping
  <2> QED  BY <1>10, <1>11, <2>1, <2>2
<1> QED  BY <1>1, <1>3, <1>4, <1>5, <1>6, <1>9, <1>10, <1>11, <1>13, <1>14, LocalName
           DEF ForgeInv

\* The fork.
LEMMA ForkMirrorKeeps == ForgeInv /\ ForkMirror => ForgeInv'
<1> SUFFICES ASSUME ForgeInv, ForkMirror PROVE ForgeInv'
  OBVIOUS
<1>1. TypeOK /\ forge \in ForgeRecords /\ run \in RunRecords
  BY DEF ForgeInv, TypeOK
<1> DEFINE m == Head(run.left)
           may(own) == IF run.user THEN <<"student", Mirror(m)>> \in forge.members ELSE own
<1>2. PICK r \in Calls, own \in BOOLEAN :
       /\ Spend(<<r>>)
       /\ forge' = Forked(m, Applied(r) /\ may(own))
       /\ run' = IF (Applied(r) /\ may(own)) /\ r = "ok"
                 THEN [run EXCEPT !.fork = Fork(m)]
                 ELSE [Noted(<<r>>, "ok") EXCEPT !.tried = TRUE]
  BY DEF ForkMirror
<1>3. pc = "fork" /\ pc' = "droptoken" /\ UNCHANGED <<woodpecker, clone, epoch, upstream, runs>>
  BY DEF ForkMirror
<1>4. /\ m \in Mirrors /\ run.left # <<>> /\ Mirror(m) \in forge.repos /\ run.fork = NoRepo
  BY <1>1, <1>3, Suffixing DEF ForgeInv, RunRecords
<1>5. faults' \in 0 .. MaxFaults
  BY <1>1, <1>2, OneCall, Spending
<1>6. /\ forge' \in ForgeRecords
      /\ forge'.db = forge.db /\ forge'.account = forge.account
      /\ forge'.token = forge.token /\ forge'.public = forge.public
      /\ forge'.members = forge.members /\ forge'.seeded = forge.seeded
      /\ forge'.apps = forge.apps /\ forge'.forkToken = forge.forkToken
      /\ forge'.runner = forge.runner
      /\ forge.repos \subseteq forge'.repos /\ forge'.repos \subseteq forge.repos \cup {Fork(m)}
      /\ Applied(r) /\ may(own) => Fork(m) \in forge'.repos
      /\ \A x \in Repos : forge'.head[x] <= upstream
      /\ \A k \in Mirrors : forge'.head[Mirror(k)] = forge.head[Mirror(k)]
  <2>1. Mirror(m) \in Repos /\ Fork(m) \in Repos /\ \A x \in Repos : forge.head[x] <= upstream
    BY <1>4, RepoNames DEF ForgeInv
  <2>2. CASE (Applied(r) /\ may(own)) /\ Fork(m) \notin forge.repos
    <3> DEFINE repos == forge.repos \cup {Fork(m)}
               head == [forge.head EXCEPT ![Fork(m)] = forge.head[Mirror(m)]]
    <3>1. repos \in SUBSET Repos /\ head \in [Repos -> 0 .. 1]
      BY <1>1, <2>1 DEF ForgeRecords
    <3>2. forge' = [forge EXCEPT !.repos = repos, !.head = head]
      BY <1>2, <2>2 DEF Forked
    <3>3. forge.repos \subseteq repos /\ Fork(m) \in repos
      OBVIOUS
    <3>4. repos \subseteq forge.repos \cup {Fork(m)}
      OBVIOUS
    <3>5. \A x \in Repos : head[x] <= upstream
      BY <1>1, <2>1 DEF ForgeRecords
    <3>6. \A k \in Mirrors : head[Mirror(k)] = forge.head[Mirror(k)]
      BY <1>1, <1>4, RepoNames DEF ForgeRecords
    <3> HIDE DEF repos, head, may
    <3> QED  BY <1>1, <3>1, <3>2, <3>3, <3>4, <3>5, <3>6 DEF ForgeRecords
  <2>3. CASE ~((Applied(r) /\ may(own)) /\ Fork(m) \notin forge.repos)
    <3>1. forge' = forge
      BY <1>2, <2>3 DEF Forked
    <3> HIDE DEF may
    <3> QED  BY <1>1, <2>1, <2>3, <3>1
  <2> QED  BY <2>2, <2>3
<1>7. \A k \in Mirrors : Fork(k) \in forge'.repos => Mirror(k) \in forge'.repos
  BY <1>1, <1>4, <1>6, RepoNames DEF TypeOK
<1>8. run.user /\ run.clean /\ ~run.stale => run.left = MirrorList
  BY <1>3, <1>4 DEF ForgeInv
<1>9. forge'.head[Mirror(First)] = forge.head[Mirror(First)]
  BY <1>6, FirstMirror
<1>10. Fine => \A k \in Mirrors : Mirror(k) \in forge.repos \/ k \in Rest(run.left)
  BY <1>3 DEF ForgeInv
<1>11. CASE (Applied(r) /\ may(own)) /\ r = "ok"
  <2>1. run' = [run EXCEPT !.fork = Fork(m)] /\ Fork(m) \in forge'.repos
    BY <1>2, <1>6, <1>11
  <2>2. Fork(m) \in Repos /\ Fork(m) # NoRepo
    BY <1>4, RepoNames
  <2>3. /\ run' \in RunRecords /\ run'.fork = Fork(m)
        /\ run'.clean = run.clean /\ run'.status = run.status
        /\ run'.mirror = run.mirror /\ run'.user = run.user /\ run'.known = run.known
        /\ run'.conf = run.conf /\ run'.token = run.token /\ run'.stale = run.stale
        /\ run'.rotating = run.rotating /\ run'.client = run.client /\ run'.left = run.left
        /\ run'.login = run.login /\ run'.seen = run.seen /\ run'.jq = run.jq
    BY <1>1, <2>1, <2>2 DEF RunRecords
  <2>4. TypeOK'
    BY <1>1, <1>3, <1>5, <1>6, <1>7, <2>3 DEF TypeOK
  <2>5. \E k \in Mirrors : run'.fork = Fork(k)
    BY <1>4, <2>3
  <2>6. run.left = MirrorList => Fork(m) = Fork(First)
    BY DEF First
  <2>7. Mirror(Head(run'.left)) \in forge'.repos /\ run'.left # <<>>
    BY <1>4, <1>6, <2>3
  <2> HIDE DEF may, m
  <2> QED  BY <1>1, <1>3, <1>6, <1>8, <1>9, <1>10, <2>1, <2>2, <2>3, <2>4, <2>6, <2>7,
             <2>5, LocalName DEF ForgeInv
<1>12. CASE ~((Applied(r) /\ may(own)) /\ r = "ok")
  <2> DEFINE n == Noted(<<r>>, "ok")
  <2>1. /\ n \in RunRecords /\ run' = [n EXCEPT !.tried = TRUE]
        /\ n.clean => run.clean /\ r = "ok"
        /\ n.status = "ok" <=> run.status = "ok"
        /\ n.mirror = run.mirror /\ n.user = run.user /\ n.known = run.known /\ n.conf = run.conf
        /\ n.token = run.token /\ n.stale = run.stale /\ n.fork = run.fork
        /\ n.rotating = run.rotating /\ n.client = run.client /\ n.left = run.left
        /\ n.login = run.login /\ n.seen = run.seen /\ n.jq = run.jq
    BY <1>1, <1>2, <1>12, Noting, OneCall
  <2>2. run.user /\ run.clean /\ ~run.stale => may(own)
    BY <1>3 DEF ForgeInv
  <2>3. r = "ok" /\ may(own) => FALSE
    BY <1>12 DEF Applied
  <2> HIDE DEF n, may, m
  <2>4. /\ run' \in RunRecords /\ run'.clean = n.clean /\ run'.status = n.status
        /\ run'.mirror = run.mirror /\ run'.user = run.user /\ run'.known = run.known
        /\ run'.conf = run.conf /\ run'.token = run.token /\ run'.stale = run.stale
        /\ run'.fork = run.fork /\ run'.rotating = run.rotating /\ run'.client = run.client
        /\ run'.left = run.left /\ run'.login = run.login /\ run'.seen = run.seen /\ run'.jq = run.jq
    BY <2>1 DEF RunRecords
  <2>5. TypeOK'
    BY <1>1, <1>3, <1>5, <1>6, <1>7, <2>4 DEF TypeOK
  <2>6. Mirror(Head(run'.left)) \in forge'.repos /\ run'.left # <<>>
    BY <1>4, <1>6, <2>4 DEF m
  <2> QED  BY <1>1, <1>3, <1>4, <1>6, <1>9, <1>10, <2>1, <2>4, <2>5, <2>6, <2>2, <2>3,
             LocalName DEF ForgeInv
<1> QED  BY <1>11, <1>12

\* Deleting the temporary token.
LEMMA DeleteForkTokenKeeps == ForgeInv /\ DeleteForkToken => ForgeInv'
<1> SUFFICES ASSUME ForgeInv, DeleteForkToken PROVE ForgeInv'
  OBVIOUS
<1>1. TypeOK /\ forge \in ForgeRecords /\ run \in RunRecords
  BY DEF ForgeInv, TypeOK
<1>2. PICK r \in Calls :
       /\ Spend(<<r>>)
       /\ forge' = [forge EXCEPT !.forkToken = @ /\ ~(AdminAuth /\ Applied(r))]
       /\ run' = [Noted(<<r>>, "ok") EXCEPT
                    !.left = IF run.fork # NoRepo THEN @ ELSE Tail(@)]
  BY DEF DeleteForkToken
<1>3. /\ pc = "droptoken" /\ pc' = IF run.fork # NoRepo THEN "sync" ELSE "mirror"
      /\ UNCHANGED <<woodpecker, clone, epoch, upstream, runs>>
  BY DEF DeleteForkToken
<1>4. run.left # <<>> /\ Tail(run.left) \in Suffixes /\ Mirror(Head(run.left)) \in forge.repos
  BY <1>1, <1>3, Suffixing DEF ForgeInv, RunRecords
<1> DEFINE n == Noted(<<r>>, "ok")
           left == IF run.fork # NoRepo THEN run.left ELSE Tail(run.left)
           held == forge.forkToken /\ ~(AdminAuth /\ Applied(r))
<1>5. /\ n \in RunRecords /\ run' = [n EXCEPT !.left = left]
      /\ left \in Suffixes \cup {<<>>} /\ held \in BOOLEAN
      /\ forge' = [forge EXCEPT !.forkToken = held]
      /\ AdminAuth /\ r = "ok" => ~held
      /\ n.clean => run.clean /\ r = "ok"
      /\ n.status = "ok" <=> run.status = "ok"
  <2>1. n \in RunRecords /\ n.left = run.left
    BY <1>1, Noting
  <2>2. left \in Suffixes \cup {<<>>} /\ held \in BOOLEAN
    BY <1>1, <1>4 DEF RunRecords
  <2>3. run' = [n EXCEPT !.left = left]
    BY <1>2, <2>1
  <2>4. /\ n.clean => run.clean /\ r = "ok"
        /\ n.status = "ok" <=> run.status = "ok"
    BY <1>1, Noting, OneCall
  <2>5. forge' = [forge EXCEPT !.forkToken = held]
    BY <1>2
  <2>6. AdminAuth /\ r = "ok" => ~held
    BY DEF Applied
  <2> HIDE DEF n, left, held
  <2> QED  BY <2>1, <2>2, <2>3, <2>4, <2>5, <2>6
<1> HIDE DEF n, left, held
<1>6. /\ run' \in RunRecords /\ run'.left = left /\ run'.status = n.status /\ run'.clean = n.clean
      /\ run'.mirror = run.mirror /\ run'.user = run.user /\ run'.known = run.known
      /\ run'.conf = run.conf /\ run'.token = run.token /\ run'.stale = run.stale
      /\ run'.fork = run.fork /\ run'.rotating = run.rotating /\ run'.client = run.client
      /\ run'.login = run.login /\ run'.seen = run.seen /\ run'.jq = run.jq
  BY <1>1, <1>5, Noting DEF RunRecords, n
<1>7. /\ forge' \in ForgeRecords /\ forge'.forkToken = held
      /\ forge'.db = forge.db /\ forge'.account = forge.account
      /\ forge'.token = forge.token /\ forge'.repos = forge.repos
      /\ forge'.public = forge.public /\ forge'.members = forge.members
      /\ forge'.seeded = forge.seeded /\ forge'.apps = forge.apps
      /\ forge'.runner = forge.runner /\ forge'.head = forge.head
  BY <1>1, <1>5 DEF ForgeRecords
<1>8. faults' \in 0 .. MaxFaults
  BY <1>1, <1>2, OneCall, Spending
<1>9. TypeOK'
  BY <1>1, <1>3, <1>6, <1>7, <1>8 DEF TypeOK
<1>10. Fine => \A m \in Mirrors : Mirror(m) \in forge'.repos \/ m \in Rest(run'.left)
  <2>1. Fine => \A m \in Mirrors : Mirror(m) \in forge.repos \/ m \in Rest(run.left)
    BY <1>3 DEF ForgeInv
  <2>2. Fine => \A m \in Mirrors : Mirror(m) \in forge.repos \/ m \in Rest(Tail(run.left))
    BY <1>1, <1>4, <2>1, Popping
  <2> QED  BY <1>6, <1>7, <2>1, <2>2 DEF left
<1>11. run.user /\ run.clean /\ ~run.stale => AdminAuth
  BY <1>3 DEF ForgeInv, AdminAuth
<1> QED  BY <1>1, <1>3, <1>4, <1>5, <1>6, <1>7, <1>9, <1>10, <1>11, LocalName
           DEF ForgeInv, left

\* Asking for the fetch.
LEMMA SyncMirrorKeeps == ForgeInv /\ SyncMirror => ForgeInv'
<1> SUFFICES ASSUME ForgeInv, SyncMirror PROVE ForgeInv'
  OBVIOUS
<1>1. TypeOK /\ forge \in ForgeRecords /\ run \in RunRecords
  BY DEF ForgeInv, TypeOK
<1>2. PICK r \in Calls : Spend(<<r>>) /\ run' = Noted(<<r>>, "ok")
  BY DEF SyncMirror
<1>3. pc = "sync" /\ pc' = "merge" /\ UNCHANGED <<forge, woodpecker, clone, epoch, upstream, runs>>
  BY DEF SyncMirror
<1>4. /\ run' \in RunRecords
      /\ run'.clean => run.clean
      /\ run'.status = "ok" <=> run.status = "ok"
      /\ run'.mirror = run.mirror /\ run'.user = run.user /\ run'.known = run.known
      /\ run'.conf = run.conf /\ run'.token = run.token /\ run'.stale = run.stale
      /\ run'.fork = run.fork /\ run'.rotating = run.rotating /\ run'.client = run.client
      /\ run'.left = run.left /\ run'.login = run.login /\ run'.seen = run.seen /\ run'.jq = run.jq
  BY <1>1, <1>2, Noting, OneCall
<1>5. faults' \in 0 .. MaxFaults
  BY <1>1, <1>2, OneCall, Spending
<1>6. TypeOK'
  BY <1>1, <1>3, <1>4, <1>5 DEF TypeOK
<1> QED  BY <1>1, <1>3, <1>4, <1>6, LocalName DEF ForgeInv

\* Merging the mirror into the fork.
LEMMA MergeUpstreamKeeps == ForgeInv /\ MergeUpstream => ForgeInv'
<1> SUFFICES ASSUME ForgeInv, MergeUpstream PROVE ForgeInv'
  OBVIOUS
<1>1. TypeOK /\ forge \in ForgeRecords /\ run \in RunRecords
  BY DEF ForgeInv, TypeOK
<1>2. PICK r \in Calls :
       /\ Spend(<<r>>)
       /\ forge' = Merged(r)
       /\ run' = [Noted(<<r>>, "ok") EXCEPT !.left = Tail(@)]
  BY DEF MergeUpstream
<1>3. pc = "merge" /\ pc' = "mirror" /\ UNCHANGED <<woodpecker, clone, epoch, upstream, runs>>
  BY DEF MergeUpstream
<1>4. /\ run.left # <<>> /\ Tail(run.left) \in Suffixes /\ Mirror(Head(run.left)) \in forge.repos
      /\ run.fork \in forge.repos /\ run.fork # NoRepo
  BY <1>1, <1>3, Suffixing DEF ForgeInv, RunRecords
<1> DEFINE n == Noted(<<r>>, "ok")
           left == Tail(run.left)
           head == IF Applied(r)
                   THEN [forge.head EXCEPT ![run.fork] = forge.head[Mirror(Head(run.left))]]
                   ELSE forge.head
<1>5. /\ n \in RunRecords /\ run' = [n EXCEPT !.left = left]
      /\ n.clean => run.clean /\ r = "ok"
      /\ n.status = "ok" <=> run.status = "ok"
  BY <1>1, <1>2, Noting, OneCall
<1>6. /\ run' \in RunRecords /\ run'.left = left /\ run'.status = n.status /\ run'.clean = n.clean
      /\ run'.mirror = run.mirror /\ run'.user = run.user /\ run'.known = run.known
      /\ run'.conf = run.conf /\ run'.token = run.token /\ run'.stale = run.stale
      /\ run'.fork = run.fork /\ run'.rotating = run.rotating /\ run'.client = run.client
      /\ run'.login = run.login /\ run'.seen = run.seen /\ run'.jq = run.jq
  <2>1. left \in Suffixes
    BY <1>4
  <2> HIDE DEF n, left
  <2> QED  BY <1>1, <1>5, <2>1, Noting DEF RunRecords, n
<1>7. /\ Mirror(Head(run.left)) \in Repos /\ run.fork \in Repos
      /\ Mirror(First) \in Repos /\ \A x \in Repos : forge.head[x] <= upstream
  BY <1>1, <1>4, FirstMirror, RepoNames DEF ForgeRecords, ForgeInv
<1>8. head \in [Repos -> 0 .. 1] /\ \A x \in Repos : head[x] <= upstream
  BY <1>1, <1>7 DEF ForgeRecords
<1>9. r = "ok" => head[run.fork] = forge.head[Mirror(Head(run.left))]
  BY <1>1, <1>7 DEF ForgeRecords, Applied
<1>10. run.fork # Mirror(First)
  BY <1>4, FirstMirror, RepoNames DEF ForgeInv
<1>11. head[Mirror(First)] = forge.head[Mirror(First)]
  BY <1>1, <1>7, <1>10 DEF ForgeRecords
<1>12. forge' = [forge EXCEPT !.head = head]
  BY <1>1, <1>2 DEF Merged, ForgeRecords
<1> HIDE DEF n, head
<1>13. /\ forge' \in ForgeRecords /\ forge'.head = head
       /\ forge'.db = forge.db /\ forge'.account = forge.account
       /\ forge'.token = forge.token /\ forge'.repos = forge.repos
       /\ forge'.public = forge.public /\ forge'.members = forge.members
       /\ forge'.seeded = forge.seeded /\ forge'.apps = forge.apps
       /\ forge'.forkToken = forge.forkToken /\ forge'.runner = forge.runner
  BY <1>1, <1>8, <1>12 DEF ForgeRecords
<1>14. faults' \in 0 .. MaxFaults
  BY <1>1, <1>2, OneCall, Spending
<1>15. TypeOK'
  BY <1>1, <1>3, <1>6, <1>13, <1>14 DEF TypeOK
<1>16. Fine => \A m \in Mirrors : Mirror(m) \in forge'.repos \/ m \in Rest(run'.left)
  <2>1. Fine => \A m \in Mirrors : Mirror(m) \in forge.repos \/ m \in Rest(run.left)
    BY <1>3 DEF ForgeInv
  <2>2. Fine => \A m \in Mirrors : Mirror(m) \in forge.repos \/ m \in Rest(Tail(run.left))
    BY <1>1, <1>4, <2>1, Popping
  <2> QED  BY <1>6, <1>13, <2>2
<1>17. head[Mirror(First)] >= run.seen
  <2>1. forge.head[Mirror(First)] >= run.seen
    BY <1>3 DEF ForgeInv
  <2> QED  BY <2>1, <1>11
<1>18. run.user /\ run.clean /\ ~run.stale /\ r = "ok" =>
         run.left = MirrorList /\ head[run.fork] = forge.head[Mirror(First)]
  BY <1>3, <1>9 DEF ForgeInv, First
<1> QED  BY <1>1, <1>3, <1>4, <1>5, <1>6, <1>8, <1>13, <1>15, <1>16, <1>17, <1>18,
           LocalName DEF ForgeInv

\* The end of the loop.
LEMMA MirrorsDoneKeeps == ForgeInv /\ MirrorsDone => ForgeInv'
<1> SUFFICES ASSUME ForgeInv, MirrorsDone PROVE ForgeInv'
  OBVIOUS
<1>1. TypeOK /\ forge \in ForgeRecords /\ run \in RunRecords
  BY DEF ForgeInv, TypeOK
<1>2. /\ pc = "mirror" /\ run.left = <<>> /\ pc' = "reseed"
      /\ run' = Noted(<<>>, If(run.fork # NoRepo \/ ~run.tried, "partial"))
      /\ UNCHANGED <<forge, woodpecker, clone, epoch, upstream, faults, runs>>
  BY DEF MirrorsDone
<1> DEFINE s == If(run.fork # NoRepo \/ ~run.tried, "partial")
<1>3. s \in Statuses /\ (run.fork # NoRepo => s = "ok")
  BY DEF If
<1>4. /\ run' \in RunRecords
      /\ run'.clean => run.clean
      /\ run'.status = "ok" <=> run.status = "ok" /\ s = "ok"
      /\ run'.mirror = run.mirror /\ run'.user = run.user /\ run'.known = run.known
      /\ run'.conf = run.conf /\ run'.token = run.token /\ run'.stale = run.stale
      /\ run'.fork = run.fork /\ run'.rotating = run.rotating /\ run'.client = run.client
      /\ run'.left = run.left /\ run'.login = run.login /\ run'.seen = run.seen /\ run'.jq = run.jq
  BY <1>1, <1>2, <1>3, Noting, NoCall
<1>5. TypeOK'
  BY <1>1, <1>2, <1>4 DEF TypeOK
<1>6. Fine => \A m \in Mirrors : Mirror(m) \in forge.repos
  BY <1>2, Suffixing DEF ForgeInv
<1>7. run.user /\ run.clean /\ ~run.stale => run.fork # NoRepo
  BY <1>1, <1>2, ForgeAssumption DEF ForgeInv
<1> HIDE DEF s
<1> QED  BY <1>1, <1>2, <1>3, <1>4, <1>5, <1>6, <1>7, LocalName DEF ForgeInv

\* The seed files of the fork.
LEMMA ReseedKeeps == ForgeInv /\ Reseed => ForgeInv'
<1> SUFFICES ASSUME ForgeInv, Reseed PROVE ForgeInv'
  OBVIOUS
<1>1. TypeOK /\ forge \in ForgeRecords /\ run \in RunRecords
  BY DEF ForgeInv, TypeOK
<1>2. pc = "reseed" /\ UNCHANGED <<woodpecker, clone, epoch, upstream, runs>>
  BY DEF Reseed
<1>3. CASE run.fork = NoRepo
  <2>1. pc' = "finalize" /\ UNCHANGED <<forge, run, faults>>
    BY <1>3 DEF Reseed
  <2>2. TypeOK'
    BY <1>1, <1>2, <2>1 DEF TypeOK
  <2> QED  BY <1>1, <1>2, <1>3, <2>1, <2>2, LocalName DEF ForgeInv
<1>4. CASE run.fork # NoRepo
  <2>1. Seeds(run.fork, "finalize") /\ SeedRepo(run.fork, "finalize")
    BY <1>2, <1>4 DEF Reseed, Seeds
  <2> QED  BY <1>2, <2>1, PostingKeeps, JqlessKeeps DEF SeedRepo
<1> QED  BY <1>3, <1>4

\* The last phase.
LEMMA FinalizeKeeps == ForgeInv /\ Finalize => ForgeInv'
<1> SUFFICES ASSUME ForgeInv, Finalize PROVE ForgeInv'
  OBVIOUS
<1>1. TypeOK /\ forge \in ForgeRecords /\ run \in RunRecords
  BY DEF ForgeInv, TypeOK
<1>2. PICK flow \in Calls, r \in Calls :
       /\ run.fork # NoRepo \/ (flow = "ok" /\ r = "ok")
       /\ Spend(<<flow, r>>)
       /\ clone' = IF run.fork = NoRepo THEN clone ELSE Recloned(r)
       /\ run' = Noted(<<flow, r>>, If(flow = "ok" /\ r = "ok", "partial"))
  BY DEF Finalize
<1>3. pc = "finalize" /\ pc' = "idle" /\ UNCHANGED <<forge, woodpecker, epoch, upstream, runs>>
  BY DEF Finalize
<1>4. If(flow = "ok" /\ r = "ok", "partial") \in Statuses
  BY DEF If
<1>5. run' \in RunRecords
      /\ run'.mirror = run.mirror /\ run'.user = run.user /\ run'.known = run.known
      /\ run'.conf = run.conf /\ run'.token = run.token /\ run'.stale = run.stale
      /\ run'.fork = run.fork /\ run'.rotating = run.rotating /\ run'.client = run.client
      /\ run'.left = run.left /\ run'.login = run.login /\ run'.seen = run.seen /\ run'.jq = run.jq
  BY <1>1, <1>2, <1>4, Noting
<1>6. clone' \in Repos \cup {NoRepo}
  BY <1>1, <1>2, Targets DEF Recloned, TypeOK
<1>7. faults' \in 0 .. MaxFaults
  BY <1>1, <1>2, TwoCalls, Spending
<1>8. TypeOK'
  BY <1>1, <1>3, <1>5, <1>6, <1>7 DEF TypeOK
<1> QED  BY <1>1, <1>3, <1>5, <1>8, LocalName DEF ForgeInv

\* New passwords between the runs.
LEMMA RotateKeeps == ForgeInv /\ Rotate => ForgeInv'
<1> SUFFICES ASSUME ForgeInv, Rotate PROVE ForgeInv'
  OBVIOUS
<1>1. TypeOK /\ forge \in ForgeRecords /\ run \in RunRecords
  BY DEF ForgeInv, TypeOK
<1>2. /\ pc = "idle" /\ epoch < MaxEpoch /\ epoch' = epoch + 1
      /\ UNCHANGED <<forge, woodpecker, clone, upstream, pc, run, faults, runs>>
  BY DEF Rotate
<1>3. epoch' \in 1 .. MaxEpoch
  BY <1>1, <1>2, ForgeAssumption DEF TypeOK
<1>4. TypeOK'
  BY <1>1, <1>2, <1>3 DEF TypeOK
<1> QED  BY <1>1, <1>2, <1>4, LocalName DEF ForgeInv

\* New commits on GitHub.
LEMMA PushKeeps == ForgeInv /\ Push => ForgeInv'
<1> SUFFICES ASSUME ForgeInv, Push PROVE ForgeInv'
  OBVIOUS
<1>1. TypeOK /\ forge \in ForgeRecords /\ run \in RunRecords
  BY DEF ForgeInv, TypeOK
<1>2. /\ pc = "idle" /\ upstream = 0 /\ upstream' = 1
      /\ UNCHANGED <<forge, woodpecker, clone, epoch, pc, run, faults, runs>>
  BY DEF Push
<1>3. TypeOK'
  BY <1>1, <1>2 DEF TypeOK
<1>4. \A x \in Repos : forge.head[x] <= 1
  BY <1>1 DEF ForgeRecords
<1> QED  BY <1>1, <1>2, <1>3, <1>4, LocalName DEF ForgeInv

\* A workspace made public by hand.
LEMMA PublishKeeps == ForgeInv /\ Publish => ForgeInv'
<1> SUFFICES ASSUME ForgeInv, Publish PROVE ForgeInv'
  OBVIOUS
<1>1. TypeOK /\ forge \in ForgeRecords /\ run \in RunRecords
  BY DEF ForgeInv, TypeOK
<1>2. /\ pc = "idle" /\ Workspace \in forge.repos /\ forge' = [forge EXCEPT !.public = TRUE]
      /\ UNCHANGED <<woodpecker, clone, epoch, upstream, pc, run, faults, runs>>
  BY DEF Publish
<1>3. forge' \in ForgeRecords
      /\ forge'.db = forge.db /\ forge'.account = forge.account
      /\ forge'.token = forge.token /\ forge'.repos = forge.repos
      /\ forge'.members = forge.members /\ forge'.seeded = forge.seeded
      /\ forge'.apps = forge.apps /\ forge'.forkToken = forge.forkToken
      /\ forge'.runner = forge.runner /\ forge'.head = forge.head
  BY <1>1, <1>2 DEF ForgeRecords
<1>4. TypeOK'
  BY <1>1, <1>2, <1>3 DEF TypeOK
<1> QED  BY <1>1, <1>2, <1>3, <1>4, LocalName DEF ForgeInv

\* Forgejo's own fetch, in any phase.
LEMMA FetchKeeps == ForgeInv /\ Fetch => ForgeInv'
<1> SUFFICES ASSUME ForgeInv, Fetch PROVE ForgeInv'
  OBVIOUS
<1>1. TypeOK /\ forge \in ForgeRecords /\ run \in RunRecords
  BY DEF ForgeInv, TypeOK
<1>2. PICK m \in Mirrors : forge' = [forge EXCEPT !.head[Mirror(m)] = upstream]
  BY DEF Fetch
<1>3. UNCHANGED <<woodpecker, clone, epoch, upstream, pc, run, faults, runs>>
  BY DEF Fetch
<1> DEFINE head == [forge.head EXCEPT ![Mirror(m)] = upstream]
<1>4. Mirror(m) \in Repos /\ upstream \in 0 .. 1 /\ \A x \in Repos : forge.head[x] <= upstream
  BY <1>1, RepoNames DEF TypeOK, ForgeInv
<1>5. head \in [Repos -> 0 .. 1] /\ \A x \in Repos : head[x] >= forge.head[x] /\ head[x] <= upstream
  BY <1>1, <1>4 DEF ForgeRecords
<1>6. forge' = [forge EXCEPT !.head = head]
  BY <1>2
<1> HIDE DEF head
<1>7. /\ forge' \in ForgeRecords /\ forge'.head = head
      /\ forge'.db = forge.db /\ forge'.account = forge.account
      /\ forge'.token = forge.token /\ forge'.repos = forge.repos
      /\ forge'.public = forge.public /\ forge'.members = forge.members
      /\ forge'.seeded = forge.seeded /\ forge'.apps = forge.apps
      /\ forge'.forkToken = forge.forkToken /\ forge'.runner = forge.runner
  BY <1>1, <1>5, <1>6 DEF ForgeRecords
<1>8. TypeOK'
  BY <1>1, <1>3, <1>7 DEF TypeOK
<1>9. /\ Mirror(First) \in Repos /\ run.seen \in Nat
      /\ head[Mirror(First)] \in Nat /\ forge.head[Mirror(First)] \in Nat
      /\ run.fork # NoRepo => /\ run.fork \in Repos /\ head[run.fork] \in Nat
                             /\ forge.head[run.fork] \in Nat
  BY <1>1, <1>5, FirstMirror, RepoNames DEF ForgeRecords, RunRecords
<1> QED  BY <1>1, <1>3, <1>5, <1>7, <1>8, <1>9, LocalName DEF ForgeInv

\* A new run.
LEMMA StartRunKeeps == ForgeInv /\ StartRun => ForgeInv'
<1> SUFFICES ASSUME ForgeInv, StartRun PROVE ForgeInv'
  OBVIOUS
<1>1. TypeOK /\ forge \in ForgeRecords /\ run \in RunRecords
  BY DEF ForgeInv, TypeOK
<1>2. PICK mirror \in BOOLEAN, r \in Calls :
       /\ Spend(<<r>>)
       /\ woodpecker' = IF Applied(r) THEN [woodpecker EXCEPT !.env = 0] ELSE woodpecker
       /\ run' = [mirror |-> mirror, user |-> run.user, known |-> FALSE, conf |-> TRUE,
                  token |-> FALSE, stale |-> FALSE, fork |-> NoRepo, tried |-> FALSE,
                  rotating |-> FALSE, client |-> 0, left |-> <<>>, jq |-> TRUE,
                  login |-> woodpecker.container \in forge.apps,
                  seen |-> forge.head[Mirror(Head(MirrorList))],
                  status |-> If(r = "ok", "partial"), clean |-> r = "ok"]
  BY DEF StartRun
<1>3. /\ pc = "idle" /\ runs < MaxRuns /\ runs' = runs + 1 /\ pc' = "db"
      /\ UNCHANGED <<forge, clone, epoch, upstream>>
  BY DEF StartRun
<1> DEFINE login == woodpecker.container \in forge.apps
           seen == forge.head[Mirror(First)]
           st == If(r = "ok", "partial")
           clean == r = "ok"
<1>4. /\ Mirror(First) \in Repos /\ seen \in 0 .. 1 /\ login \in BOOLEAN /\ run.user \in BOOLEAN
      /\ st \in Statuses /\ clean \in BOOLEAN /\ (clean => st = "ok")
  BY <1>1, FirstMirror, RepoNames DEF ForgeRecords, RunRecords, If
<1>5. login <=> woodpecker.container \in forge.apps
  OBVIOUS
<1>6. run' = [mirror |-> mirror, user |-> run.user, known |-> FALSE, conf |-> TRUE,
              token |-> FALSE, stale |-> FALSE, fork |-> NoRepo, tried |-> FALSE,
              rotating |-> FALSE, client |-> 0, left |-> <<>>, jq |-> TRUE,
              login |-> login, seen |-> seen, status |-> st, clean |-> clean]
  BY <1>2 DEF First
<1>7. forge.head[Mirror(First)] >= seen
  BY <1>4
<1> HIDE DEF login, seen, st, clean
<1>8. /\ run' \in RunRecords /\ run'.mirror = mirror /\ run'.user = run.user /\ run'.conf = TRUE
      /\ run'.stale = FALSE /\ run'.fork = NoRepo /\ run'.rotating = FALSE /\ run'.login = login
      /\ run'.seen = seen /\ (run'.clean => run'.status = "ok")
  BY <1>4, <1>6 DEF RunRecords
<1>9. runs' \in 0 .. MaxRuns /\ faults' \in 0 .. MaxFaults
  BY <1>1, <1>2, <1>3, OneCall, Spending, ForgeAssumption DEF TypeOK
<1>10. /\ woodpecker' \in [env : AppIds \cup {0}, container : AppIds \cup {0}]
       /\ woodpecker'.container = woodpecker.container
  BY <1>1, <1>2 DEF TypeOK
<1>11. TypeOK'
  BY <1>1, <1>3, <1>8, <1>9, <1>10 DEF TypeOK
<1> QED  BY <1>1, <1>3, <1>5, <1>7, <1>8, <1>10, <1>11, LocalName DEF ForgeInv

\* An exception out of a phase.
LEMMA RaiseKeeps == ForgeInv /\ Raise => ForgeInv'
<1> SUFFICES ASSUME ForgeInv, Raise PROVE ForgeInv'
  OBVIOUS
<1>1. TypeOK /\ forge \in ForgeRecords /\ run \in RunRecords
  BY DEF ForgeInv, TypeOK
<1>2. Spend(<<"refused">>) /\ Stop /\ UNCHANGED <<forge, woodpecker, clone, epoch, upstream, runs>>
  BY DEF Raise
<1>3. faults' \in 0 .. MaxFaults
  BY <1>1, <1>2, OneCall, Spending
<1>4. TypeOK'
  BY <1>1, <1>2, <1>3, Stops DEF TypeOK
<1> QED  BY <1>2, <1>4, StoppingKeeps

\* The invariant holds in every reachable state.
LEMMA Invariance == Spec => []ForgeInv
<1>1. ForgeInv /\ [Next]_vars => ForgeInv'
  <2> SUFFICES ASSUME ForgeInv, [Next]_vars PROVE ForgeInv'
    OBVIOUS
  <2>1. CASE Step
    BY <2>1, SyncDbPasswordKeeps, WaitReadyKeeps, ListAdminsKeeps, HealEmailKeeps,
       EnsureAdminKeeps, EnsureUserKeeps, MintTokenKeeps, CreateRepoKeeps, AddWriterKeeps,
       ConfiguredKeeps, RegisterRunnerKeeps, RestartServicesKeeps, SeedKeeps, ListAppsKeeps,
       DeleteAppKeeps, CreateAppKeeps, ApplyWoodpeckerKeeps, GetAdminIdKeeps, MirrorRepoKeeps,
       AddReaderKeeps, CreateForkTokenKeeps, ForkMirrorKeeps, DeleteForkTokenKeeps,
       SyncMirrorKeeps, MergeUpstreamKeeps, MirrorsDoneKeeps, ReseedKeeps, FinalizeKeeps
    DEF Step
  <2>2. CASE UNCHANGED vars
    BY <2>2 DEF vars, ForgeInv, TypeOK, Identity
  <2> QED  BY <2>1, <2>2, RotateKeeps, PushKeeps, PublishKeeps, FetchKeeps,
             StartRunKeeps, RaiseKeeps
           DEF Next
<1> QED  BY <1>1, InitKeeps, PTL DEF Spec

-----------------------------------------------------------------------------
\* The theorems.

\* Type correctness (TypeOK), for any mirrors, seed files and bounds: among
\* others, no seeded or shared repository is missing, and no fork is without
\* its mirror (forgejo.py).
THEOREM TypeCorrect == Spec => []TypeOK
<1>1. ForgeInv => TypeOK
  BY DEF ForgeInv
<1> QED  BY <1>1, Invariance, PTL

\* woodpecker-oauth never goes on with a rotation that has locked Woodpecker
\* out: whenever it reports no new client, a container whose login worked when
\* the spin-up began can still log in (PartialRotationKeepsLogin).
THEOREM LoginKept == Spec => []PartialRotationKeepsLogin
<1>1. ForgeInv => PartialRotationKeepsLogin
  BY DEF ForgeInv, PartialRotationKeepsLogin
<1> QED  BY <1>1, Invariance, PTL

\* What a run that comes to its end leaves.
LEMMA Ending ==
  ASSUME ForgeInv, Next, Ends
  PROVE  \E flow, r \in Calls :
           /\ Finalize /\ run' \in RunRecords
           /\ run'.status = "ok" <=> run.status = "ok" /\ flow = "ok" /\ r = "ok"
           /\ run'.clean <=> run.clean /\ flow = "ok" /\ r = "ok"
           /\ run'.jq = run.jq
           /\ clone' = IF run.fork = NoRepo THEN clone ELSE Recloned(r)
           /\ UNCHANGED <<forge, woodpecker, epoch>>
<1>1. TypeOK /\ pc = "finalize" /\ pc' = "idle"
  BY DEF ForgeInv, Ends
<1>2. Finalize
  BY <1>1 DEF Next, Step, Rotate, Push, Publish, Fetch, StartRun, Raise, SyncDbPassword,
     WaitReady,
     ListAdmins, HealEmail, EnsureAdmin, EnsureUser, MintToken, CreateRepo, AddWriter, Configured,
     RegisterRunner, RestartServices, Seed, ListApps, DeleteApp, CreateApp, ApplyWoodpecker,
     GetAdminId, MirrorRepo, AddReader, CreateForkToken, ForkMirror, DeleteForkToken, SyncMirror,
     MergeUpstream, MirrorsDone, Reseed
<1>3. PICK flow \in Calls, r \in Calls :
       /\ clone' = IF run.fork = NoRepo THEN clone ELSE Recloned(r)
       /\ run' = Noted(<<flow, r>>, If(flow = "ok" /\ r = "ok", "partial"))
  BY <1>2 DEF Finalize
<1>4. /\ If(flow = "ok" /\ r = "ok", "partial") \in Statuses
      /\ If(flow = "ok" /\ r = "ok", "partial") = "ok" <=> flow = "ok" /\ r = "ok"
  BY DEF If
<1>5. /\ run' \in RunRecords
      /\ run'.status = "ok" <=> run.status = "ok" /\ flow = "ok" /\ r = "ok"
      /\ run'.clean <=> run.clean /\ flow = "ok" /\ r = "ok"
      /\ run'.jq = run.jq
  BY <1>1, <1>3, <1>4, Noting, TwoCalls
<1>6. UNCHANGED <<forge, woodpecker, epoch>>
  BY <1>2 DEF Finalize
<1> QED  BY <1>2, <1>3, <1>5, <1>6

\* A spin-up that reports ok has current passwords, a live token, a runner, one
\* application that Woodpecker logs in with, now and from its .env, all
\* repositories, and all seeds unless the server has no jq (OkMeansProvisioned).
THEOREM OkIsProvisioned == Spec => OkMeansProvisioned
<1>1. ForgeInv /\ [Next]_vars =>
        [Ends /\ run'.status = "ok" =>
           /\ forge'.db = epoch
           /\ \A n \in {"admin", Identity.local} : forge'.account[n].pw = epoch
           /\ forge'.token /\ forge'.runner
           /\ SoleClient
           /\ ~run.mirror => /\ Workspace \in forge'.repos
                             /\ run'.jq => Seeded(Workspace)
           /\ run.mirror => /\ \A m \in Mirrors : Mirror(m) \in forge'.repos
                            /\ run.fork # NoRepo /\ run'.jq => Seeded(run.fork)]_vars
  <2> SUFFICES ASSUME ForgeInv, Next, Ends, run'.status = "ok"
               PROVE  /\ forge'.db = epoch
                      /\ \A n \in {"admin", Identity.local} : forge'.account[n].pw = epoch
                      /\ forge'.token /\ forge'.runner
                      /\ SoleClient
                      /\ ~run.mirror => /\ Workspace \in forge'.repos
                                        /\ run'.jq => Seeded(Workspace)
                      /\ run.mirror => /\ \A m \in Mirrors : Mirror(m) \in forge'.repos
                                       /\ run.fork # NoRepo /\ run'.jq => Seeded(run.fork)
    OBVIOUS
  <2>1. /\ run.status = "ok" /\ run'.jq = run.jq /\ pc = "finalize"
        /\ UNCHANGED <<forge, woodpecker, epoch>>
    BY Ending DEF Ends
  <2>2. Fine
    BY <2>1 DEF ForgeInv
  <2>3. /\ forge.db = epoch
        /\ \A n \in {"admin", Identity.local} : forge.account[n].pw = epoch
        /\ forge.token /\ forge.runner
        /\ forge.apps = {woodpecker.container} /\ woodpecker.env = woodpecker.container
        /\ ~run.mirror => /\ Workspace \in forge.repos
                          /\ run.jq => AllSeeded(Workspace)
        /\ run.mirror => /\ \A m \in Mirrors : Mirror(m) \in forge.repos
                         /\ run.fork # NoRepo /\ run.jq => AllSeeded(run.fork)
    BY <2>1, <2>2 DEF ForgeInv
  <2> QED  BY <2>1, <2>3 DEF Seeded, SoleClient
<1> QED  BY <1>1, Invariance, PTL DEF Spec, OkMeansProvisioned

\* A spin-up without a fault repairs whatever the ones before have left half
\* done (CleanRunRepairs).
THEOREM CleanRepairs == Spec => CleanRunRepairs
<1>1. ForgeInv /\ [Next]_vars =>
        [Ends /\ run'.clean /\ run.user /\ ~run.stale =>
           /\ run'.status = "ok"
           /\ clone' = Target
           /\ SoleClient
           /\ ~run.mirror => /\ ~forge'.public \/ Workspace \notin forge.repos
                             /\ <<"student", Workspace>> \in forge'.members
           /\ run.mirror => /\ run.fork = Target
                            /\ forge'.head[Target] >= run.seen
                            /\ ~forge'.forkToken]_vars
  <2> SUFFICES ASSUME ForgeInv, Next, Ends, run'.clean, run.user, ~run.stale
               PROVE  /\ run'.status = "ok"
                      /\ clone' = Target
                      /\ SoleClient
                      /\ ~run.mirror => /\ ~forge'.public \/ Workspace \notin forge.repos
                                        /\ <<"student", Workspace>> \in forge'.members
                      /\ run.mirror => /\ run.fork = Target
                                       /\ forge'.head[Target] >= run.seen
                                       /\ ~forge'.forkToken
    OBVIOUS
  <2>1. PICK flow \in Calls, r \in Calls :
           /\ run'.status = "ok" <=> run.status = "ok" /\ flow = "ok" /\ r = "ok"
           /\ run.clean /\ flow = "ok" /\ r = "ok"
           /\ clone' = IF run.fork = NoRepo THEN clone ELSE Recloned(r)
           /\ UNCHANGED <<forge, woodpecker, epoch>>
    BY Ending
  <2>2. pc = "finalize" /\ run \in RunRecords /\ Repairs
    BY <2>1 DEF Ends, ForgeInv, TypeOK
  <2>3. Fine /\ SoleClient /\ run'.status = "ok"
    BY <2>1, <2>2 DEF ForgeInv, SoleClient
  <2>4. CASE ~run.mirror
    <3>1. run.fork = NoRepo
      BY <2>2, <2>4 DEF ForgeInv
    <3> QED  BY <2>1, <2>2, <2>3, <2>4, <3>1, Targets DEF ForgeInv
  <2>5. CASE run.mirror
    <3>1. /\ run.fork = Fork(First) /\ run.fork # NoRepo /\ run.fork \in forge.repos
          /\ forge.head[run.fork] >= run.seen /\ ~forge.forkToken /\ Target = Fork(First)
      BY <2>2, <2>5, Targets DEF ForgeInv
    <3>2. clone' = Target
      BY <2>1, <3>1 DEF Recloned, Applied
    <3> QED  BY <2>1, <2>3, <2>5, <3>1, <3>2
  <2> QED  BY <2>2, <2>4, <2>5 DEF RunRecords
<1> QED  BY <1>1, Invariance, PTL DEF Spec, CleanRunRepairs
-----------------------------------------------------------------------------
\* How far a run still has to go.

\* The phases and their steps, last ones first; a round of the loop over the
\* mirrors takes at most seven steps.
Position(p) ==
  CASE p = "idle"   -> 0  [] p = "finalize"   -> 1  [] p = "reseed"   -> 2
    [] p = "merge"  -> 3  [] p = "sync"       -> 4  [] p = "droptoken" -> 5
    [] p = "fork"   -> 6  [] p = "forktoken"  -> 7  [] p = "reader"   -> 8
    [] p = "mirror" -> 9  [] p = "uid"        -> 10 [] p = "apply"    -> 11
    [] p = "create" -> 12 [] p = "rotate"     -> 13 [] p = "oauth"    -> 14
    [] p = "seed"   -> 15 [] p = "restart"    -> 16 [] p = "register" -> 17
    [] p = "configured" -> 18 [] p = "writer" -> 19 [] p = "repo"     -> 20
    [] p = "token"  -> 21 [] p = "user"       -> 22 [] p = "admin"    -> 23
    [] p = "heal"   -> 24 [] p = "list"       -> 25 [] p = "ready"    -> 26
    [] OTHER        -> 27

\* The rounds of the two loops that are still to come: one per mirror that is
\* left, and one per application of that name that Forgejo holds.
Rounds ==
  CASE pc \in Mirroring -> 7 * Len(run.left)
    [] pc \in {"uid", "apply", "create"} -> 7 * Len(MirrorList)
    [] pc = "rotate" -> 7 * Len(MirrorList) + Cardinality(forge.apps)
    [] pc \in ToOauth -> 7 * Len(MirrorList) + Cardinality(AppIds)
    [] OTHER -> 0

\* At most that many steps are left of the run.
StepsLeft == Position(pc) + Rounds

\* Every step of a run, also one whose call goes wrong, brings it nearer to its
\* end, and nothing that happens meanwhile takes it back: the part of RunEnds
\* that is not about fairness.
RunAdvances ==
  [][/\ Step \/ Raise => StepsLeft' < StepsLeft
     /\ pc # "idle" /\ ~(Step \/ Raise) => StepsLeft' = StepsLeft]_vars

\* A nonempty set of numbers has a least one.
LEMMA Least == ASSUME NEW S \in SUBSET Nat, S # {} PROVE Min1(S) \in S
<1> DEFINE R == OpToRel(<, Nat)
<1>1. \A x, y \in Nat : <<y, x>> \in R <=> y < x
  BY DEF OpToRel
<1>2. IsWellFoundedOn(R, Nat)
  BY NatLessThanWellFounded, Zenon
<1> HIDE DEF R
<1>3. \E x \in S : \A y \in S : ~ (<<y, x>> \in R)
  BY <1>2, WFMin
<1>4. PICK x \in S : \A y \in S : ~ (<<y, x>> \in R)
  BY <1>3
<1>5. \A y \in S : ~(y < x)
  BY <1>1, <1>4
<1>6. \A y \in S : x <= y
  BY <1>5
<1> QED  BY <1>6 DEF Min1

\* The lists and sets that are counted.
LEMMA Counts ==
  /\ Len(MirrorList) \in Nat /\ Cardinality(AppIds) \in Nat
  /\ \A S \in SUBSET AppIds : /\ Cardinality(S) \in Nat /\ Cardinality(S) <= Cardinality(AppIds)
                              /\ \A x \in S : Cardinality(S \ {x}) = Cardinality(S) - 1
  /\ \A s \in Suffixes \cup {<<>>} : /\ Len(s) \in Nat
                                     /\ s # <<>> => Len(Tail(s)) = Len(s) - 1
<1> DEFINE n == Len(MirrorList)
           X(i) == SubSeq(MirrorList, i, n)
<1>1. MirrorList \in Seq(STRING) /\ n \in Nat /\ DOMAIN MirrorList = 1 .. n
  BY ForgeAssumption
<1>2. IsFiniteSet(AppIds)
  BY ForgeAssumption, FS_Interval DEF AppIds
<1>3. \A S \in SUBSET AppIds : IsFiniteSet(S)
  BY <1>2, FS_Subset
<1>4. ASSUME NEW S \in SUBSET AppIds
      PROVE  /\ Cardinality(S) \in Nat /\ Cardinality(S) <= Cardinality(AppIds)
             /\ \A x \in S : Cardinality(S \ {x}) = Cardinality(S) - 1
  <2>1. IsFiniteSet(S)
    BY <1>3
  <2>2. Cardinality(S) \in Nat
    BY <2>1, FS_CardinalityType
  <2>3. Cardinality(S) <= Cardinality(AppIds)
    BY <1>2, FS_Subset
  <2>4. \A x \in S : Cardinality(S \ {x}) = Cardinality(S) - 1
    BY <2>1, FS_RemoveElement
  <2> QED  BY <2>2, <2>3, <2>4
<1>5. Cardinality(AppIds) \in Nat
  BY <1>2, FS_CardinalityType
<1>6. ASSUME NEW s \in Suffixes
      PROVE  s \in Seq(STRING)
  <2>1. PICK i \in 1 .. n + 1 : s = X(i)
    BY DEF Suffixes
  <2>2. i \in 1 .. n + 1 /\ \A j \in i .. n : MirrorList[j] \in STRING
    BY <1>1
  <2>3. CASE i = n + 1
    BY <1>1, <2>1, <2>3, SubSeqEmpty
  <2>4. CASE i # n + 1
    BY <1>1, <2>1, <2>2, <2>4, SubSeqProperties
  <2> QED  BY <2>3, <2>4
<1>7. <<>> \in Seq(STRING) /\ \A s \in Suffixes : s \in Seq(STRING)
  BY <1>6
<1>8. \A s \in Suffixes \cup {<<>>} : /\ Len(s) \in Nat
                                      /\ s # <<>> => Len(Tail(s)) = Len(s) - 1
  <2>1. \A s \in Seq(STRING) : Len(s) \in Nat
    OBVIOUS
  <2>2. \A s \in Seq(STRING) : s # <<>> => Len(Tail(s)) = Len(s) - 1
    BY HeadTailProperties
  <2> QED  BY <1>7, <2>1, <2>2
<1> QED  BY <1>1, <1>4, <1>5, <1>8

\* The positions.
LEMMA Positions ==
  /\ Position("idle") = 0 /\ Position("finalize") = 1 /\ Position("reseed") = 2
  /\ Position("merge") = 3 /\ Position("sync") = 4 /\ Position("droptoken") = 5
  /\ Position("fork") = 6 /\ Position("forktoken") = 7 /\ Position("reader") = 8
  /\ Position("mirror") = 9 /\ Position("uid") = 10 /\ Position("apply") = 11
  /\ Position("create") = 12 /\ Position("rotate") = 13 /\ Position("oauth") = 14
  /\ Position("seed") = 15 /\ Position("restart") = 16 /\ Position("register") = 17
  /\ Position("configured") = 18 /\ Position("writer") = 19 /\ Position("repo") = 20
  /\ Position("token") = 21 /\ Position("user") = 22 /\ Position("admin") = 23
  /\ Position("heal") = 24 /\ Position("list") = 25 /\ Position("ready") = 26
  /\ Position("db") = 27
BY DEF Position

\* The steps that are left are a number, which is zero when the run has ended.
LEMMA Numbers ==
  ASSUME TypeOK
  PROVE  StepsLeft \in Nat /\ (StepsLeft = 0 <=> pc = "idle")
<1>1. /\ pc \in Steps \cup {"idle"} /\ run.left \in Suffixes \cup {<<>>}
      /\ forge.apps \in SUBSET AppIds
  BY DEF TypeOK, RunRecords, ForgeRecords
<1>2. Position(pc) \in Nat /\ (Position(pc) = 0 <=> pc = "idle")
  BY <1>1, Positions
<1>3. /\ Len(run.left) \in Nat /\ Len(MirrorList) \in Nat
      /\ Cardinality(forge.apps) \in Nat /\ Cardinality(AppIds) \in Nat
  BY <1>1, Counts
<1>4. Rounds \in Nat /\ (pc = "idle" => Rounds = 0)
  BY <1>1, <1>3 DEF Rounds
<1> QED  BY <1>2, <1>4 DEF StepsLeft

\* Outside the two loops, a step that goes on to a later phase is enough.
LEMMA Straight ==
  ASSUME TypeOK, pc' \in (Steps \cup {"idle"}) \ (Mirroring \cup {"rotate"}),
         pc \notin Mirroring \cup {"rotate"}, Position(pc') < Position(pc)
  PROVE  StepsLeft' < StepsLeft
<1>1. pc \in Steps \cup {"idle"}
  BY DEF TypeOK
<1>2. Len(MirrorList) \in Nat /\ Cardinality(AppIds) \in Nat
  BY Counts
<1> DEFINE l == Len(MirrorList)
           c == Cardinality(AppIds)
           Weight(p) == IF p \in {"uid", "apply", "create"} THEN 7 * l
                        ELSE IF p \in ToOauth THEN 7 * l + c ELSE 0
<1>3. Rounds = Weight(pc) /\ Rounds' = Weight(pc')
  BY <1>1 DEF Rounds
<1>4. \A p \in (Steps \cup {"idle"}) \ (Mirroring \cup {"rotate"}) :
        \/ p \in {"idle", "finalize", "reseed"} /\ Position(p) \in 0 .. 2
        \/ p \in {"uid", "apply", "create"} /\ Position(p) \in 10 .. 12
        \/ p \in ToOauth /\ Position(p) \in 14 .. 27
  <2> TAKE p \in (Steps \cup {"idle"}) \ (Mirroring \cup {"rotate"})
  <2>1. CASE p \in {"idle", "finalize", "reseed"}
    BY <2>1, Positions
  <2>2. CASE p \in {"uid", "apply", "create"}
    BY <2>2, Positions
  <2>3. CASE p \in ToOauth
    BY <2>3, Positions
  <2> QED  BY <2>1, <2>2, <2>3
<1> HIDE DEF l, c
<1>5. l \in Nat /\ c \in Nat
  BY <1>2 DEF l, c
<1>6. Weight(pc') <= Weight(pc) /\ Weight(pc) \in Nat /\ Weight(pc') \in Nat
  BY <1>1, <1>4, <1>5
<1> QED  BY <1>1, <1>3, <1>4, <1>6 DEF StepsLeft

\* Every step of a run, up to the loop over the applications.
LEMMA EarlyAdvances ==
  ASSUME TypeOK, \/ SyncDbPassword \/ WaitReady \/ ListAdmins \/ HealEmail
                 \/ EnsureAdmin \/ EnsureUser \/ MintToken \/ CreateRepo \/ AddWriter
                 \/ Configured \/ RegisterRunner \/ RestartServices
  PROVE  StepsLeft' < StepsLeft
<1>1. \/ pc = "db" /\ pc' = "ready"
      \/ pc = "ready" /\ pc' \in {"list", "register"}
      \/ pc = "list" /\ pc' \in {"heal", "admin"}
      \/ pc = "heal" /\ pc' = "admin"
      \/ pc = "admin" /\ pc' = "user"
      \/ pc = "user" /\ pc' = "token"
      \/ pc = "token" /\ pc' \in {"repo", "configured"}
      \/ pc = "repo" /\ pc' \in {"writer", "configured"}
      \/ pc = "writer" /\ pc' = "configured"
      \/ pc = "configured" /\ pc' = "register"
      \/ pc = "register" /\ pc' = "restart"
      \/ pc = "restart" /\ pc' = "seed"
  BY DEF SyncDbPassword, WaitReady, ListAdmins, HealEmail, EnsureAdmin, EnsureUser, MintToken,
     CreateRepo, AddWriter, Configured, RegisterRunner, RestartServices
<1>2. Position(pc') < Position(pc)
  BY <1>1 DEF Position
<1> QED  BY <1>1, <1>2, Straight

\* A run that stops has no step left.
LEMMA StopAdvances ==
  ASSUME TypeOK, pc # "idle", pc' = "idle"
  PROVE  StepsLeft' < StepsLeft
<1>1. StepsLeft' = 0
  BY DEF StepsLeft, Position, Rounds
<1> QED  BY <1>1, Numbers

\* Seeding goes on or stops the run.
LEMMA SeedAdvances ==
  ASSUME ForgeInv, Seed \/ Reseed
  PROVE  StepsLeft' < StepsLeft
<1>1. TypeOK
  BY DEF ForgeInv
<1>2. \/ pc = "seed" /\ pc' \in {"idle", "oauth"}
      \/ pc = "reseed" /\ pc' \in {"idle", "finalize"}
  <2>1. \A repo, next : SeedRepo(repo, next) => pc' \in {"idle", next}
    BY DEF SeedRepo, PostFiles, NoJq, Stop
  <2> QED  BY <2>1 DEF Seed, Reseed
<1>3. Position(pc') < Position(pc)
  BY <1>2 DEF Position
<1> QED  BY <1>1, <1>2, <1>3, Straight

\* The rotation of the OAuth application: each deletion takes one application
\* away, whose number was bounded when it began.
LEMMA OauthAdvances ==
  ASSUME TypeOK, ListApps \/ DeleteApp \/ CreateApp \/ ApplyWoodpecker
  PROVE  StepsLeft' < StepsLeft
<1> DEFINE l == Len(MirrorList)
           c == Cardinality(AppIds)
           n == Cardinality(forge.apps)
<1>1. forge.apps \in SUBSET AppIds /\ forge \in ForgeRecords
  BY DEF TypeOK, ForgeRecords
<1>2. /\ l \in Nat /\ c \in Nat /\ n \in Nat /\ n <= c
      /\ \A x \in forge.apps : Cardinality(forge.apps \ {x}) = n - 1
  BY <1>1, Counts
<1>3. CASE ListApps
  <2>1. pc = "oauth" /\ pc' \in {"apply", "rotate", "create"} /\ UNCHANGED forge
    BY <1>3 DEF ListApps
  <2>2. CASE pc' = "rotate"
    <3>1. StepsLeft = 14 + (7 * l + c) /\ StepsLeft' = 13 + (7 * l + n)
      BY <2>1, <2>2 DEF StepsLeft, Position, Rounds
    <3> QED  BY <1>2, <3>1
  <2>3. CASE pc' # "rotate"
    <3>1. Position(pc') < Position(pc)
      BY <2>1, <2>3 DEF Position
    <3> QED  BY <2>1, <2>3, <3>1, Straight
  <2> QED  BY <2>2, <2>3
<1>4. CASE DeleteApp
  <2>1. pc = "rotate" /\ pc' \in {"create", "rotate", "apply", "idle"}
    BY <1>4 DEF DeleteApp, Stop
  <2>2. StepsLeft = 13 + (7 * l + n)
    BY <2>1 DEF StepsLeft, Position, Rounds
  <2>3. CASE pc' = "rotate"
    <3>1. forge'.apps = forge.apps \ {Min1(forge.apps)} /\ forge'.apps # {}
      BY <1>1, <1>4, <2>3 DEF DeleteApp, Stop, Deleted, Applied, ForgeRecords
    <3>2. Min1(forge.apps) \in forge.apps
      BY <1>1, <3>1, Least DEF AppIds
    <3>3. StepsLeft' = 13 + (7 * l + Cardinality(forge'.apps))
      BY <2>3 DEF StepsLeft, Position, Rounds
    <3>4. Cardinality(forge'.apps) = n - 1
      BY <1>2, <3>1, <3>2
    <3> HIDE DEF n, l
    <3> QED  BY <1>2, <2>2, <3>3, <3>4
  <2>4. CASE pc' # "rotate"
    <3>1. StepsLeft' \in {0, 11 + 7 * l, 12 + 7 * l}
      BY <1>2, <2>1, <2>4 DEF StepsLeft, Position, Rounds
    <3> QED  BY <1>2, <2>2, <3>1
  <2> QED  BY <2>3, <2>4
<1>5. CASE CreateApp \/ ApplyWoodpecker
  <2>1. \/ pc = "create" /\ pc' \in {"idle", "apply"}
        \/ pc = "apply" /\ pc' \in {"uid", "reseed"}
    BY <1>5 DEF CreateApp, ApplyWoodpecker, Stop
  <2>2. Position(pc') < Position(pc)
    BY <2>1 DEF Position
  <2> QED  BY <2>1, <2>2, Straight
<1> QED  BY <1>3, <1>4, <1>5

\* The loop over the mirrors: each round leaves one mirror less.
LEMMA MirrorAdvances ==
  ASSUME ForgeInv, \/ GetAdminId \/ MirrorRepo \/ AddReader \/ CreateForkToken \/ ForkMirror
                   \/ DeleteForkToken \/ SyncMirror \/ MergeUpstream \/ MirrorsDone
  PROVE  StepsLeft' < StepsLeft
<1> DEFINE k == Len(run.left)
           l == Len(MirrorList)
<1>1. TypeOK /\ run \in RunRecords /\ run.left \in Suffixes \cup {<<>>}
  BY DEF ForgeInv, TypeOK, RunRecords
<1>2. k \in Nat /\ l \in Nat /\ (run.left # <<>> => Len(Tail(run.left)) = k - 1)
  BY <1>1, Counts
<1>3. pc \in AtMirror => run.left # <<>>
  BY DEF ForgeInv, Looping
<1>4. \A xs : \A s \in Statuses : /\ Noted(xs, s).left = run.left
                                 /\ Noted(xs, s) \in RunRecords
  BY <1>1, Noting
<1>5. {"ok", "partial"} \subseteq Statuses
  BY DEF Statuses
<1>6. CASE GetAdminId
  <2>1. pc = "uid" /\ (pc' = "reseed" \/ (pc' = "mirror" /\ run'.left = MirrorList))
    BY <1>1, <1>6 DEF GetAdminId, RunRecords
  <2> QED  BY <1>2, <2>1 DEF StepsLeft, Position, Rounds
<1>7. CASE MirrorsDone
  <2>1. pc = "mirror" /\ pc' = "reseed"
    BY <1>7 DEF MirrorsDone
  <2> QED  BY <1>2, <2>1 DEF StepsLeft, Position, Rounds
<1>8. CASE \/ MirrorRepo \/ AddReader \/ CreateForkToken \/ ForkMirror
           \/ DeleteForkToken \/ SyncMirror \/ MergeUpstream
  <2>1. /\ pc \in Mirroring /\ pc' \in Mirroring /\ run.left # <<>>
        /\ \/ run'.left = run.left /\ Position(pc') < Position(pc)
           \/ run'.left = Tail(run.left) /\ pc' = "mirror"
    <3>1. CASE MirrorRepo
      <4>1. PICK l1 \in Reads, r \in Calls :
              IF r = "ok"
              THEN run' = Noted(<<l1>>, "ok") /\ pc' = "reader"
              ELSE /\ run' = [Noted(<<l1, r>>, "partial") EXCEPT !.left = Tail(@)]
                   /\ pc' = "mirror"
        BY <3>1 DEF MirrorRepo
      <4>2. pc = "mirror" /\ run.left # <<>>
        BY <3>1 DEF MirrorRepo
      <4>3. CASE r = "ok"
        <5>1. run'.left = run.left /\ pc' = "reader"
          BY <1>4, <1>5, <4>1, <4>3
        <5> QED  BY <4>2, <5>1, Positions
      <4>4. CASE r # "ok"
        <5>1. run' = [Noted(<<l1, r>>, "partial") EXCEPT !.left = Tail(@)] /\ pc' = "mirror"
          BY <4>1, <4>4
        <5>2. run'.left = Tail(run.left)
          BY <1>4, <1>5, <5>1 DEF RunRecords
        <5> QED  BY <4>2, <5>1, <5>2
      <4> QED  BY <4>3, <4>4
    <3>2. CASE AddReader
      <4>1. PICK r \in Calls : run' = [Noted(<<r>>, "ok") EXCEPT
                                         !.left = IF run.fork = NoRepo THEN @ ELSE Tail(@)]
        BY <3>2 DEF AddReader
      <4>2. pc = "reader" /\ pc' = IF run.fork = NoRepo THEN "forktoken" ELSE "mirror"
        BY <3>2 DEF AddReader
      <4> QED  BY <1>3, <1>4, <1>5, <4>1, <4>2, Positions DEF RunRecords
    <3>3. CASE CreateForkToken
      <4>1. \E xs : \E ok \in BOOLEAN :
              /\ run' = [Noted(xs, "ok") EXCEPT !.tried = @ \/ ~ok,
                                                !.left = IF ok THEN @ ELSE Tail(@)]
              /\ pc' = IF ok THEN "fork" ELSE "mirror"
        <5>1. PICK a \in Calls, d \in Calls, b \in Calls :
                LET can == AdminAuth /\ forge.account[Identity.login] # Absent
                    first == can /\ Applied(a) /\ ~forge.forkToken
                    got == first /\ a = "ok"
                    kept == (forge.forkToken \/ first) /\ ~(AdminAuth /\ Applied(d))
                    second == can /\ Applied(b) /\ ~kept
                    ok == got \/ (second /\ b = "ok")
                IN  /\ run' = [Noted(<<a, d, b>>, "ok") EXCEPT
                                 !.tried = @ \/ ~ok,
                                 !.left = IF ok THEN @ ELSE Tail(@)]
                    /\ pc' = IF ok THEN "fork" ELSE "mirror"
          BY <3>3 DEF CreateForkToken
        <5> DEFINE can == AdminAuth /\ forge.account[Identity.login] # Absent
                   first == can /\ Applied(a) /\ ~forge.forkToken
                   got == first /\ a = "ok"
                   kept == (forge.forkToken \/ first) /\ ~(AdminAuth /\ Applied(d))
                   second == can /\ Applied(b) /\ ~kept
                   ok == got \/ (second /\ b = "ok")
        <5>2. /\ run' = [Noted(<<a, d, b>>, "ok") EXCEPT
                           !.tried = @ \/ ~ok,
                           !.left = IF ok THEN @ ELSE Tail(@)]
              /\ pc' = IF ok THEN "fork" ELSE "mirror"
          BY <5>1
        <5>3. ok \in BOOLEAN
          OBVIOUS
        <5> HIDE DEF can, first, got, kept, second, ok
        <5> QED  BY <5>2, <5>3
      <4>2. pc = "forktoken"
        BY <3>3 DEF CreateForkToken
      <4> QED  BY <1>3, <1>4, <1>5, <4>1, <4>2, Positions DEF RunRecords
    <3>4. CASE ForkMirror
      <4>1. \E xs : \/ run' = [run EXCEPT !.fork = Fork(Head(run.left))]
                    \/ run' = [Noted(xs, "ok") EXCEPT !.tried = TRUE]
        BY <3>4 DEF ForkMirror
      <4>2. pc = "fork" /\ pc' = "droptoken"
        BY <3>4 DEF ForkMirror
      <4> QED  BY <1>1, <1>3, <1>4, <1>5, <4>1, <4>2, Positions DEF RunRecords
    <3>5. CASE DeleteForkToken
      <4>1. PICK r \in Calls : run' = [Noted(<<r>>, "ok") EXCEPT
                                         !.left = IF run.fork # NoRepo THEN @ ELSE Tail(@)]
        BY <3>5 DEF DeleteForkToken
      <4>2. pc = "droptoken" /\ pc' = IF run.fork # NoRepo THEN "sync" ELSE "mirror"
        BY <3>5 DEF DeleteForkToken
      <4> QED  BY <1>3, <1>4, <1>5, <4>1, <4>2, Positions DEF RunRecords
    <3>6. CASE SyncMirror
      <4>1. PICK r \in Calls : run' = Noted(<<r>>, "ok")
        BY <3>6 DEF SyncMirror
      <4>2. pc = "sync" /\ pc' = "merge"
        BY <3>6 DEF SyncMirror
      <4> QED  BY <1>3, <1>4, <1>5, <4>1, <4>2, Positions
    <3>7. CASE MergeUpstream
      <4>1. PICK r \in Calls : run' = [Noted(<<r>>, "ok") EXCEPT !.left = Tail(@)]
        BY <3>7 DEF MergeUpstream
      <4>2. pc = "merge" /\ pc' = "mirror"
        BY <3>7 DEF MergeUpstream
      <4> QED  BY <1>3, <1>4, <1>5, <4>1, <4>2 DEF RunRecords
    <3> QED  BY <1>8, <3>1, <3>2, <3>3, <3>4, <3>5, <3>6, <3>7
  <2>2. \A p \in Mirroring : Position(p) \in 3 .. 9 /\ (p = "mirror" <=> Position(p) = 9)
    BY Positions
  <2>3. Rounds = 7 * k /\ Rounds' = 7 * Len(run'.left)
    BY <2>1 DEF Rounds
  <2>4. \/ Len(run'.left) = k /\ Position(pc') < Position(pc)
        \/ Len(run'.left) = k - 1 /\ Position(pc') = 9
    BY <1>2, <2>1, <2>2
  <2>5. StepsLeft = Position(pc) + 7 * k /\ StepsLeft' = Position(pc') + 7 * Len(run'.left)
    BY <2>3 DEF StepsLeft
  <2>6. Position(pc) \in 3 .. 9 /\ Position(pc') \in 3 .. 9
    BY <2>1, <2>2
  <2>7. k \in Nat
    BY <1>2
  <2> HIDE DEF k
  <2>8. CASE Len(run'.left) = k /\ Position(pc') < Position(pc)
    BY <2>5, <2>6, <2>7, <2>8
  <2>9. CASE Len(run'.left) = k - 1 /\ Position(pc') = 9
    <3>1. StepsLeft' = 9 + 7 * (k - 1)
      BY <2>5, <2>9
    <3> HIDE DEF StepsLeft
    <3> QED  BY <2>5, <2>6, <2>7, <3>1
  <2> QED  BY <2>4, <2>8, <2>9
<1> QED  BY <1>6, <1>7, <1>8

\* No step of a run takes it back or around: with at most StepsLeft of them it
\* has come to its end, whatever its calls answer (RunAdvances; orchestrator.py
\* and forgejo.py, whose loops are over the mirrors and over the applications
\* found in the listing).
THEOREM RunsAdvance ==
  Spec => [](StepsLeft \in Nat /\ (StepsLeft = 0 <=> pc = "idle")) /\ RunAdvances
<1>1. ForgeInv => StepsLeft \in Nat /\ (StepsLeft = 0 <=> pc = "idle")
  BY Numbers DEF ForgeInv
<1>2. ForgeInv /\ [Next]_vars =>
        [/\ Step \/ Raise => StepsLeft' < StepsLeft
         /\ pc # "idle" /\ ~(Step \/ Raise) => StepsLeft' = StepsLeft]_vars
  <2> SUFFICES ASSUME ForgeInv, Next
               PROVE  /\ Step \/ Raise => StepsLeft' < StepsLeft
                      /\ pc # "idle" /\ ~(Step \/ Raise) => StepsLeft' = StepsLeft
    OBVIOUS
  <2>1. TypeOK /\ forge \in ForgeRecords
    BY DEF ForgeInv, TypeOK
  <2>2. Raise => StepsLeft' < StepsLeft
    BY <2>1, StopAdvances DEF Raise, Stop
  <2>3. Finalize => StepsLeft' < StepsLeft
    BY <2>1, StopAdvances DEF Finalize
  <2>4. Step => StepsLeft' < StepsLeft
    BY <2>1, <2>3, EarlyAdvances, SeedAdvances, OauthAdvances, MirrorAdvances DEF Step
  <2>5. ASSUME pc # "idle", ~(Step \/ Raise)
        PROVE  StepsLeft' = StepsLeft
    <3>1. Fetch
      BY <2>5 DEF Next, Rotate, Push, Publish, StartRun
    <3>2. UNCHANGED <<pc, run>> /\ forge'.apps = forge.apps
      BY <2>1, <3>1 DEF Fetch, ForgeRecords
    <3> QED  BY <3>2 DEF StepsLeft, Rounds
  <2> QED  BY <2>2, <2>4, <2>5
<1> QED  BY <1>1, <1>2, Invariance, PTL DEF Spec, RunAdvances
=============================================================================

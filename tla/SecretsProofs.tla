--------------------------- MODULE SecretsProofs ---------------------------
(* The proofs about Secrets, for any list of notebooks and any number of    *)
(* spin-ups, faults, generations of secrets and versions of the student's   *)
(* flows. A run is a row of steps with a loop over the stacks; the          *)
(* invariant says of each step what holds from it on in a run that is to    *)
(* be trusted, and what besides while no call ever went wrong.              *)
EXTENDS Secrets, FiniteSetTheorems, SequenceTheorems, TLAPS

-----------------------------------------------------------------------------
\* How far a run has come.

\* The steps before the automation token is rotated.
ToForgejo == {"sync", "up", "provision", "project", "saveToken", "saveProject",
              "push", "forgejo"}
\* The steps after the secret sync of Kestra, before that of the notebooks.
Between == {"register", "trigger", "seed", "finalize"}
\* The steps at one stack.
AtStack == {"read", "restart"}
\* The steps from the rotation of the token on, to the end of the run.
FromAwait == {"await", "back", "done"} \cup AtStack \cup Between
\* The steps from the push of the folders on, to the end of the run.
FromPush == FromAwait \cup {"push", "forgejo"}
\* The steps at which some stack may have been synced.
Syncing == FromAwait \ {"await"}
Steps == FromAwait \cup ToForgejo \cup {"idle"}

-----------------------------------------------------------------------------
\* What the invariant speaks of.

\* The stacks in a list.
Rest(s) == {s[i] : i \in DOMAIN s}
Suffixes == {SubSeq(StackList, i, Len(StackList)) : i \in 1 .. Len(StackList) + 1}

\* A run of which one of the two properties says that it delivers.
Trusted == run.clean \/ (run.status = "ok" /\ ~run.hidden)
\* There was a run, and no call ever went wrong.
Faultless == faults = 0 /\ runs > 0
\* The flows are registered from this point of a run on, and to its end.
Registered == \/ pc \in {"trigger", "seed", "finalize", "done", "idle"}
              \/ pc \in AtStack /\ run.left # StackList
\* The same of the seeds.
Seeded == \/ pc \in {"finalize", "done", "idle"}
          \/ pc \in AtStack /\ run.left # StackList
\* A token was stored in Infisical's root folder and is not valid any more: it
\* hides every new one.
StalePin == infisical.pinned # 0 /\ infisical.pinned # forgejo.valid

-----------------------------------------------------------------------------
\* The inductive invariant, one part per matter.

\* TypeOK, with its sets named.
RunRecords == [mirror : BOOLEAN, creds : BOOLEAN, token : Tokens, fork : BOOLEAN,
               left : Suffixes, before : [Stacks -> Blocks], hidden : BOOLEAN,
               status : {"ok", "partial", "failed"}, clean : BOOLEAN]
Typed == /\ infisical \in [admin : BOOLEAN, project : BOOLEAN,
                           secrets : [Folders -> 0 .. MaxEpoch], pinned : Tokens]
         /\ saved \in [token : BOOLEAN, project : BOOLEAN]
         /\ file \in [Stacks -> Blocks] /\ live \in [Stacks -> Blocks]
         /\ forgejo \in [valid : Tokens, minted : Tokens]
         /\ kestra \in [system : SUBSET SystemFlows, seeds : BOOLEAN,
                        mine : 0 .. MaxEdits, due : 0 .. MaxEdits]
         /\ git \in [repo : BOOLEAN, seeds : BOOLEAN, mine : 0 .. MaxEdits]
         /\ epoch \in 1 .. MaxEpoch /\ datalake \in BOOLEAN
         /\ pc \in Steps /\ run \in RunRecords
         /\ faults \in 0 .. MaxFaults /\ runs \in 0 .. MaxRuns

\* Tokens are numbered as they are minted, at most one in a run.
Minting == /\ forgejo.valid <= forgejo.minted /\ infisical.pinned <= forgejo.minted
           /\ forgejo.minted <= runs
           /\ pc \in ToForgejo => forgejo.minted < runs

\* Which stacks are still to come at a step.
Place == /\ pc \in ToForgejo \cup {"await", "back"} => run.left = StackList
         /\ pc \in Between => run.left = NotebookList
         /\ pc \in AtStack => run.left # <<>>
         /\ pc \in {"done", "idle"} /\ Trusted /\ run.creds => run.left = <<>>

\* A run without credentials is partial from infisical-provision on.
Credentials == pc \in FromPush /\ run.status = "ok" => run.creds

\* A trusted run has pushed every folder of this generation.
Pushed == /\ pc \in FromAwait \cup {"forgejo"} /\ Trusted /\ run.creds =>
               \A f \in ComputeFolders(datalake) : infisical.secrets[f] = epoch

\* A trusted run has the valid token once it was rotated.
Token == (pc \in FromAwait \/ (pc = "idle" /\ run.creds)) /\ Trusted =>
           run.token # 0 /\ run.token = forgejo.valid

\* The stacks whose turn has come have what they are to have: in their file when
\* it was written, in the container from the restart on.
Synced ==
  Trusted /\ run.creds =>
    /\ pc = "restart" => file[Stack] = Current
    /\ pc \in Syncing \cup {"idle"} => \A s \in Stacks \ Rest(run.left) : live[s] = Current
    /\ pc = "back" => live["kestra"] = Current

\* Before the first run there is nothing to lose; what is due was edited.
Flows == /\ kestra.due <= kestra.mine
         /\ runs = 0 => pc = "idle" /\ kestra.mine = 0

\* While no call went wrong, each run has its credentials, registers the flows
\* and seeds the repository.
Undisturbed ==
  /\ faults = 0 /\ infisical.admin /\ pc \notin {"project", "saveToken", "saveProject"} =>
       saved.token /\ saved.project
  /\ pc \in {"project", "saveToken", "saveProject"} => infisical.admin
  /\ pc = "saveProject" => saved.token
  /\ Faultless => /\ run.clean
                  /\ pc \in FromPush \cup {"idle"} => run.creds
                  /\ Registered => "flow-export" \in kestra.system
                  /\ Seeded => git.repo

\* While no call went wrong, what is due is in the repository, unless Kestra
\* cannot clone it and so cannot pull it either.
Exported == faults = 0 => git.mine >= kestra.due \/ StalePin

\* The inductive invariant.
SecretsInv == /\ Typed /\ Minting /\ Place /\ Credentials /\ Pushed /\ Token
              /\ Synced /\ Flows /\ Undisturbed /\ Exported

-----------------------------------------------------------------------------
\* The operators the steps share.

\* TypeOK, with its sets named.
LEMMA Typing == Typed <=> TypeOK
BY DEF TypeOK, Typed, RunRecords, Suffixes, Steps, FromAwait, ToForgejo, AtStack, Between

\* What Noted leaves alone in the run, and when it stays clean and ok.
LEMMA Noting ==
  ASSUME run \in RunRecords, NEW n \in Nat, NEW s \in {"ok", "partial", "failed"}
  PROVE  /\ Noted(n, s) \in RunRecords
         /\ Noted(n, s).mirror = run.mirror /\ Noted(n, s).creds = run.creds
         /\ Noted(n, s).token = run.token /\ Noted(n, s).fork = run.fork
         /\ Noted(n, s).left = run.left /\ Noted(n, s).before = run.before
         /\ Noted(n, s).hidden = run.hidden
         /\ Noted(n, s).clean <=> run.clean /\ n = 0
         /\ Noted(n, s).status = "ok" <=> run.status = "ok" /\ s = "ok"
<1>1. /\ Worse(run.status, s) \in {"ok", "partial", "failed"}
      /\ Worse(run.status, s) = "ok" <=> run.status = "ok" /\ s = "ok"
  BY DEF Worse, RunRecords
<1> DEFINE clean == run.clean /\ n = 0
           st == Worse(run.status, s)
<1>2. clean \in BOOLEAN /\ st \in {"ok", "partial", "failed"}
  BY <1>1
<1>3. Noted(n, s) = [run EXCEPT !.clean = clean, !.status = st]
  BY DEF Noted
<1>4. (clean <=> run.clean /\ n = 0) /\ (st = "ok" <=> run.status = "ok" /\ s = "ok")
  BY <1>1
<1> HIDE DEF clean, st
<1>5. /\ Noted(n, s) \in RunRecords /\ Noted(n, s).clean = clean /\ Noted(n, s).status = st
      /\ Noted(n, s).mirror = run.mirror /\ Noted(n, s).creds = run.creds
      /\ Noted(n, s).token = run.token /\ Noted(n, s).fork = run.fork
      /\ Noted(n, s).left = run.left /\ Noted(n, s).before = run.before
      /\ Noted(n, s).hidden = run.hidden
  BY <1>2, <1>3 DEF RunRecords
<1> QED  BY <1>4, <1>5

\* The faults never exceed their bound, and add up.
LEMMA Spending ==
  ASSUME faults \in 0 .. MaxFaults, NEW n \in Nat, Spend(n)
  PROVE  /\ faults' \in 0 .. MaxFaults
         /\ faults' = 0 <=> faults = 0 /\ n = 0
BY SecretsAssumption DEF Spend

\* One call is no fault if it is answered.
LEMMA OneCall == \A r : Cost(r) \in Nat /\ (Cost(r) = 0 <=> r = "ok")
BY DEF Cost

\* The failed calls of a finite set are counted.
LEMMA Counting ==
  ASSUME NEW S, IsFiniteSet(S), NEW bad \in SUBSET S
  PROVE  Cardinality(bad) \in Nat /\ (Cardinality(bad) = 0 <=> bad = {})
<1>1. IsFiniteSet(bad)
  BY FS_Subset
<1> QED  BY <1>1, FS_CardinalityType, FS_EmptySet

\* A set of at most three elements is finite.
LEMMA Triples == \A a, b, c : IsFiniteSet({a, b, c}) /\ IsFiniteSet({a, b}) /\ IsFiniteSet({a})
<1> TAKE a, b, c
<1>1. IsFiniteSet({})
  BY FS_EmptySet
<1>2. IsFiniteSet({} \cup {a})
  BY <1>1, FS_AddElement
<1>3. IsFiniteSet(({} \cup {a}) \cup {b})
  BY <1>2, FS_AddElement
<1>4. IsFiniteSet((({} \cup {a}) \cup {b}) \cup {c})
  BY <1>3, FS_AddElement
<1>5. /\ {} \cup {a} = {a} /\ ({} \cup {a}) \cup {b} = {a, b}
      /\ (({} \cup {a}) \cup {b}) \cup {c} = {a, b, c}
  OBVIOUS
<1> QED  BY <1>2, <1>3, <1>4, <1>5

\* The sets whose failed calls are counted are finite.
LEMMA Finite == /\ IsFiniteSet(Stacks) /\ IsFiniteSet(SystemFlows)
                /\ IsFiniteSet(Folders) /\ IsFiniteSet({"root"} \cup Folders)
<1>1. IsFiniteSet(SystemFlows) /\ IsFiniteSet(Folders)
  BY Triples DEF SystemFlows, Folders
<1>2. IsFiniteSet(Folders \cup {"root"})
  BY <1>1, FS_AddElement
<1>3. IsFiniteSet({"root"} \cup Folders)
  <2>1. {"root"} \cup Folders = Folders \cup {"root"}
    OBVIOUS
  <2> QED  BY <1>2, <2>1
<1>4. Stacks \subseteq {"kestra"} \cup ({"jupyter", "marimo", "code-server"})
  <2>1. ASSUME NEW i \in DOMAIN StackList
        PROVE  StackList[i] \in {"kestra"} \cup {"jupyter", "marimo", "code-server"}
    BY <2>1, SecretsAssumption DEF StackList
  <2> QED  BY <2>1 DEF Stacks
<1>5. IsFiniteSet({"jupyter", "marimo", "code-server"} \cup {"kestra"})
  BY Triples, FS_AddElement
<1>6. IsFiniteSet(Stacks)
  BY <1>4, <1>5, FS_Subset
<1> QED  BY <1>1, <1>3, <1>6

\* Blocks are made of what Infisical and the run hold.
LEMMA Blocking == /\ Empty \in Blocks
                  /\ Typed => \A fetched : NewBlock(fetched) \in Blocks
<1>1. Empty \in Blocks
  BY SecretsAssumption DEF Empty, Blocks, Tokens, Keys, Folders
<1>2. ASSUME Typed, NEW fetched
      PROVE  NewBlock(fetched) \in Blocks
  <2>1. \A k \in Folders : NewBlock(fetched)[k] \in 0 .. MaxEpoch
    BY <1>2, SecretsAssumption DEF Typed, NewBlock, Keys, Folders
  <2>2. NewBlock(fetched)["FORGEJO_TOKEN"] \in Tokens
    BY <1>2 DEF Typed, NewBlock, Keys, Folders, RunRecords
  <2>3. \A k \in Keys : NewBlock(fetched)[k] \in 0 .. (MaxEpoch + MaxRuns)
    BY <2>1, <2>2, SecretsAssumption DEF Keys, Tokens
  <2>4. NewBlock(fetched) \in [Keys -> 0 .. (MaxEpoch + MaxRuns)]
    BY <2>3 DEF NewBlock
  <2> QED  BY <2>1, <2>2, <2>4 DEF Blocks
<1> QED  BY <1>1, <1>2

\* With the folders listed and fetched and a valid token, the new block is the
\* current one, and there is something in it.
LEMMA Renewing ==
  ASSUME Typed, run.token # 0, run.token = forgejo.valid
  PROVE  /\ NewBlock(Listing(TRUE)) = Current
         /\ ~Gated(Listing(TRUE))
<1> DEFINE b == NewBlock(Listing(TRUE))
<1>1. b["FORGEJO_TOKEN"] = IF infisical.pinned # 0 THEN infisical.pinned ELSE run.token
  BY DEF NewBlock, Listing, Keys, Folders
<1>2. \A f \in Folders : b[f] = infisical.secrets[f]
  BY DEF NewBlock, Listing, Keys, Folders
<1>3. b = Current
  <2>1. \A k \in Keys : b[k] = Current[k]
    BY <1>1, <1>2 DEF Current, Keys, Folders
  <2>2. b = [k \in Keys |-> b[k]] /\ Current = [k \in Keys |-> Current[k]]
    BY DEF NewBlock, Current
  <2> QED  BY <2>1, <2>2
<1>4. b # Empty
  BY <1>1 DEF Empty, Keys
<1>5. Listing(TRUE) # {}
  BY DEF Listing
<1> QED  BY <1>3, <1>4, <1>5 DEF Gated

\* The lists of stacks still to come: Kestra first and only there, then the
\* notebooks; the tail of such a list is one again.
LEMMA Suffixing ==
  /\ StackList \in Suffixes /\ NotebookList \in Suffixes /\ <<>> \in Suffixes
  /\ StackList # <<>> /\ NotebookList # <<>> /\ StackList # NotebookList
  /\ Head(StackList) = "kestra" /\ Tail(StackList) = NotebookList /\ "kestra" \in Stacks
  /\ Rest(StackList) = Stacks /\ Rest(<<>>) = {}
  /\ Stacks \ Rest(NotebookList) = {"kestra"}
  /\ \A s \in Suffixes : s # <<>> =>
       /\ Head(s) \in Stacks /\ Tail(s) \in Suffixes /\ Tail(s) # StackList
       /\ Head(s) = "kestra" <=> s = StackList
       /\ Len(s) = 1 <=> Tail(s) = <<>>
       /\ \A x \in Rest(s) : x = Head(s) \/ x \in Rest(Tail(s))
<1> DEFINE n == Len(StackList)
           S == {"kestra", "jupyter", "marimo", "code-server"}
           X(i) == SubSeq(StackList, i, n)
<1>1. /\ StackList \in Seq(S) /\ n \in Nat /\ n >= 2 /\ DOMAIN StackList = 1 .. n
      /\ n = Len(NotebookList) + 1 /\ StackList[1] = "kestra"
      /\ \A i \in 2 .. n : StackList[i] = NotebookList[i - 1]
      /\ NotebookList \in Seq(S) /\ \A i \in 1 .. Len(NotebookList) : NotebookList[i] # "kestra"
  BY SecretsAssumption DEF StackList
<1>2. X(1) = StackList /\ X(n + 1) = <<>> /\ 1 \in 1 .. n + 1 /\ n + 1 \in 1 .. n + 1
  BY <1>1, SubSeqFull, SubSeqEmpty
<1>3. StackList \in Suffixes /\ <<>> \in Suffixes /\ StackList # <<>>
  BY <1>1, <1>2 DEF Suffixes
<1>4. \A i \in 2 .. n : StackList[i] # "kestra"
  BY <1>1
<1>5. ASSUME NEW s \in Suffixes, s # <<>>
      PROVE  /\ Head(s) \in Stacks /\ Tail(s) \in Suffixes /\ Tail(s) # StackList
             /\ Head(s) = "kestra" <=> s = StackList
             /\ Len(s) = 1 <=> Tail(s) = <<>>
             /\ \A x \in Rest(s) : x = Head(s) \/ x \in Rest(Tail(s))
  <2>1. PICK i \in 1 .. n + 1 : s = X(i)
    BY DEF Suffixes
  <2>2. i # n + 1
    BY <1>2, <1>5, <2>1
  <2>3. i \in 1 .. n /\ n \in i .. n
    BY <1>1, <2>2
  <2>4. Head(s) = StackList[i] /\ Tail(s) = X(i + 1)
    BY <1>1, <2>1, <2>3, HeadTailOfSubSeq
  <2>5. i + 1 \in 1 .. n + 1 /\ i \in DOMAIN StackList
    BY <1>1, <2>3
  <2>6. Tail(s) \in Suffixes /\ Head(s) \in Stacks
    BY <2>4, <2>5 DEF Suffixes, Stacks
  <2>7. \A j \in i .. n : StackList[j] \in S
    BY <1>1, <2>3
  <2>8. s \in Seq(S) /\ Len(s) = n - i + 1
    BY <1>1, <2>1, <2>3, <2>7, SubSeqProperties
  <2>9. /\ Head(s) = s[1] /\ DOMAIN s = 1 .. Len(s) /\ Len(s) \in Nat
        /\ Tail(s) \in Seq(S) /\ Len(Tail(s)) = Len(s) - 1
        /\ \A j \in 1 .. Len(Tail(s)) : Tail(s)[j] = s[j + 1]
    BY <1>5, <2>8, HeadTailProperties
  <2>10. Tail(s) # StackList
    BY <1>1, <2>3, <2>8, <2>9
  <2>11. Head(s) = "kestra" <=> s = StackList
    <3>1. CASE i = 1
      BY <3>1, <2>1, <2>4, <1>1, <1>2
    <3>2. CASE i # 1
      <4>1. i \in 2 .. n
        BY <3>2, <2>3
      <4> QED  BY <4>1, <1>1, <1>4, <2>4, <2>8
    <3> QED  BY <3>1, <3>2
  <2>12. Len(s) = 1 <=> Tail(s) = <<>>
    <3>1. Len(Tail(s)) = 0 <=> Tail(s) = <<>>
      BY <2>9, EmptySeq
    <3> QED  BY <2>9, <3>1
  <2>13. ASSUME NEW j \in DOMAIN s
         PROVE  s[j] = Head(s) \/ s[j] \in Rest(Tail(s))
    <3>1. CASE j = 1
      BY <3>1, <2>9
    <3>2. CASE j # 1
      <4>1. j - 1 \in 1 .. Len(Tail(s)) /\ (j - 1) + 1 = j
        BY <3>2, <2>9
      <4>2. Tail(s)[j - 1] = s[j] /\ j - 1 \in DOMAIN Tail(s)
        BY <4>1, <2>9
      <4> QED  BY <4>2 DEF Rest
    <3> QED  BY <3>1, <3>2
  <2> QED  BY <2>6, <2>10, <2>11, <2>12, <2>13 DEF Rest
<1>6. Tail(StackList) = NotebookList /\ Head(StackList) = "kestra"
  <2>1. Head(StackList) = "kestra"
    BY <1>3, <1>5
  <2>2. /\ Tail(StackList) \in Seq(S) /\ Len(Tail(StackList)) = n - 1
        /\ \A j \in 1 .. n - 1 : Tail(StackList)[j] = StackList[j + 1]
    BY <1>1, <1>3, HeadTailProperties
  <2>3. \A j \in 1 .. n - 1 : j + 1 \in 2 .. n /\ (j + 1) - 1 = j
    BY <1>1
  <2>4. \A j \in 1 .. n - 1 : Tail(StackList)[j] = NotebookList[j]
    BY <1>1, <2>2, <2>3
  <2>5. Tail(StackList) = NotebookList
    BY <1>1, <2>2, <2>4
  <2> QED  BY <2>1, <2>5
<1>7. NotebookList \in Suffixes /\ NotebookList # <<>> /\ StackList # NotebookList
  BY <1>1, <1>3, <1>5, <1>6, SecretsAssumption
<1>8. Rest(StackList) = Stacks /\ Rest(<<>>) = {} /\ "kestra" \in Stacks
  BY <1>3, <1>5, <1>6 DEF Rest, Stacks
<1>9. Stacks \ Rest(NotebookList) = {"kestra"}
  <2>1. \A x \in Stacks \ Rest(NotebookList) : x = "kestra"
    BY <1>3, <1>5, <1>6, <1>8
  <2>2. "kestra" \notin Rest(NotebookList)
    BY <1>1 DEF Rest
  <2> QED  BY <1>8, <2>1, <2>2
<1> QED  BY <1>3, <1>5, <1>6, <1>7, <1>8, <1>9

-----------------------------------------------------------------------------
\* The invariant holds at first and is kept, action by action.

\* Nothing is there yet.
LEMMA Beginning == Init => SecretsInv
<1> SUFFICES ASSUME Init PROVE SecretsInv
  OBVIOUS
<1>1. file \in [Stacks -> Blocks] /\ live \in [Stacks -> Blocks]
  BY Blocking DEF Init
<1>2. run \in RunRecords
  BY <1>1, Suffixing, SecretsAssumption DEF Init, RunRecords, Tokens
<1>3. Typed
  BY <1>1, <1>2, SecretsAssumption DEF Init, Typed, Steps, Tokens
<1>4. Minting /\ Place /\ Credentials /\ Pushed /\ Token /\ Synced /\ Flows
  BY DEF Init, Minting, Place, Credentials, Pushed, Token, Synced, Flows, ToForgejo,
         FromPush, FromAwait, Between, AtStack, Syncing, Trusted
<1>5. Undisturbed /\ Exported
  BY DEF Init, Undisturbed, Exported, Faultless
<1> QED  BY <1>3, <1>4, <1>5 DEF SecretsInv

\* New secrets only come between the runs.
LEMMA RotateKeeps == SecretsInv /\ Rotate => SecretsInv'
<1> SUFFICES ASSUME SecretsInv, Rotate PROVE SecretsInv'
  OBVIOUS
<1> USE DEF SecretsInv, Rotate
<1>1. Typed'
  BY SecretsAssumption DEF Typed
<1>2. (Minting /\ Place /\ Credentials /\ Pushed /\ Token /\ Flows)'
  BY DEF Minting, Place, Credentials, Pushed, Token, Flows, ToForgejo, FromPush,
         FromAwait, Between, AtStack, Trusted
<1>3. Synced'
  BY DEF Synced, Trusted, Current, Stack, Syncing
<1>4. (Undisturbed /\ Exported)'
  BY DEF Undisturbed, Exported, Faultless, Registered, Seeded, StalePin
<1> QED  BY <1>1, <1>2, <1>3, <1>4

\* Nor is the datalake dropped during a run.
LEMMA DropDatalakeKeeps == SecretsInv /\ DropDatalake => SecretsInv'
<1> SUFFICES ASSUME SecretsInv, DropDatalake PROVE SecretsInv'
  OBVIOUS
<1> USE DEF SecretsInv, DropDatalake
<1>1. Typed'
  BY DEF Typed
<1>2. (Minting /\ Place /\ Credentials /\ Pushed /\ Token /\ Flows)'
  BY DEF Minting, Place, Credentials, Pushed, Token, Flows, ToForgejo, FromPush,
         FromAwait, Between, AtStack, Trusted
<1>3. Synced'
  BY DEF Synced, Trusted, Current, Stack, Syncing
<1>4. (Undisturbed /\ Exported)'
  BY DEF Undisturbed, Exported, Faultless, Registered, Seeded, StalePin
<1> QED  BY <1>1, <1>2, <1>3, <1>4

\* The token that is stored is the valid one: what the stacks are to have stays.
LEMMA PinTokenKeeps == SecretsInv /\ PinToken => SecretsInv'
<1> SUFFICES ASSUME SecretsInv, PinToken PROVE SecretsInv'
  OBVIOUS
<1> USE DEF SecretsInv, PinToken
<1>0. /\ infisical'.pinned = forgejo.valid /\ infisical'.secrets = infisical.secrets
      /\ infisical'.admin = infisical.admin
  BY DEF Typed
<1>1. Typed'
  BY DEF Typed
<1>2. (Minting /\ Place /\ Credentials /\ Pushed /\ Token /\ Flows)'
  BY <1>0 DEF Minting, Place, Credentials, Pushed, Token, Flows, ToForgejo, FromPush,
         FromAwait, Between, AtStack, Trusted
<1>3. Current' = Current
  BY <1>0 DEF Current
<1>4. Synced'
  BY <1>3 DEF Synced, Trusted, Stack, Syncing
<1>5. (Undisturbed /\ Exported)'
  BY <1>0 DEF Undisturbed, Exported, Faultless, Registered, Seeded, StalePin
<1> QED  BY <1>1, <1>2, <1>4, <1>5

\* An edit is not due yet.
LEMMA EditKeeps == SecretsInv /\ Edit => SecretsInv'
<1> SUFFICES ASSUME SecretsInv, Edit PROVE SecretsInv'
  OBVIOUS
<1> USE DEF SecretsInv, Edit
<1>0. /\ kestra'.mine = kestra.mine + 1 /\ kestra'.due = kestra.due
      /\ kestra'.system = kestra.system
  BY DEF Typed
<1>1. Typed'
  <2>1. kestra.mine + 1 \in 0 .. MaxEdits
    BY SecretsAssumption DEF Typed
  <2> QED  BY <2>1 DEF Typed
<1>2. (Minting /\ Place /\ Credentials /\ Pushed /\ Token)'
  BY DEF Minting, Place, Credentials, Pushed, Token, ToForgejo, FromPush,
         FromAwait, Between, AtStack, Trusted
<1>3. Flows'
  BY <1>0, SecretsAssumption DEF Flows, Typed
<1>4. Synced'
  BY DEF Synced, Trusted, Current, Stack, Syncing
<1>5. (Undisturbed /\ Exported)'
  BY <1>0 DEF Undisturbed, Exported, Faultless, Registered, Seeded, StalePin
<1> QED  BY <1>1, <1>2, <1>3, <1>4, <1>5

\* A faultless run has given Kestra the valid token and the flow, or a stored
\* one that is not valid.
LEMMA FlowExportKeeps == SecretsInv /\ FlowExport => SecretsInv'
<1> SUFFICES ASSUME SecretsInv, FlowExport PROVE SecretsInv'
  OBVIOUS
<1> USE DEF SecretsInv, FlowExport
<1>0. /\ kestra'.mine = kestra.mine /\ kestra'.due = kestra.mine
      /\ kestra'.system = kestra.system /\ kestra.mine \in 0 .. MaxEdits
      /\ git'.repo = git.repo /\ git' \in [repo : BOOLEAN, seeds : BOOLEAN, mine : 0 .. MaxEdits]
  BY DEF Typed
<1>1. Typed'
  BY <1>0 DEF Typed
<1>2. (Minting /\ Place /\ Credentials /\ Pushed /\ Token)'
  BY DEF Minting, Place, Credentials, Pushed, Token, ToForgejo, FromPush,
         FromAwait, Between, AtStack, Trusted
<1>3. Flows'
  BY <1>0, SecretsAssumption DEF Flows, Typed
<1>4. Synced'
  BY DEF Synced, Trusted, Current, Stack, Syncing
<1>5. Undisturbed'
  BY <1>0 DEF Undisturbed, Faultless, Registered, Seeded
<1>6. Exported'
  <2>1. SUFFICES ASSUME faults = 0 PROVE git'.mine >= kestra'.due \/ StalePin'
    BY DEF Exported
  <2>2. Faultless
    BY <2>1, <1>0, SecretsAssumption DEF Flows, Faultless, Typed
  <2>3. run.clean /\ run.creds /\ "flow-export" \in kestra.system /\ git.repo
    BY <2>2 DEF Undisturbed, Registered, Seeded
  <2>4. live["kestra"] = Current
    <3>1. run.left = <<>>
      BY <2>3 DEF Place, Trusted
    <3> QED  BY <3>1, <2>3, Suffixing DEF Synced, Trusted, Syncing
  <2>5. live["kestra"]["FORGEJO_TOKEN"] = IF infisical.pinned # 0 THEN infisical.pinned
                                          ELSE forgejo.valid
    BY <2>4 DEF Current, Keys, Folders
  <2>6. CASE StalePin
    BY <2>6 DEF StalePin
  <2>7. CASE ~StalePin
    <3>1. live["kestra"]["FORGEJO_TOKEN"] = forgejo.valid
      BY <2>5, <2>7 DEF StalePin
    <3>2. forgejo.valid # 0
      BY <2>3 DEF Token, Trusted
    <3>3. git'.mine = kestra.mine
      BY <3>1, <3>2, <2>3 DEF CanClone, Typed
    <3> QED  BY <3>3, <1>0
  <2> QED  BY <2>6, <2>7
<1> QED  BY <1>1, <1>2, <1>3, <1>4, <1>5, <1>6

\* A run starts with everything still to do.
LEMMA StartRunKeeps == SecretsInv /\ StartRun => SecretsInv'
<1> SUFFICES ASSUME SecretsInv, StartRun PROVE SecretsInv'
  OBVIOUS
<1> USE DEF SecretsInv, StartRun, stores
<1>0. /\ run' \in RunRecords /\ run'.left = StackList /\ run'.clean = TRUE
      /\ run'.creds = FALSE
  <2>1. 0 \in Tokens /\ StackList \in Suffixes /\ file \in [Stacks -> Blocks] /\ run \in RunRecords
    BY Suffixing, SecretsAssumption DEF Typed, Tokens
  <2> QED  BY <2>1 DEF RunRecords
<1>1. Typed'
  BY <1>0, SecretsAssumption DEF Typed, Steps, ToForgejo
<1>2. (Minting /\ Place /\ Credentials /\ Pushed /\ Token /\ Flows)'
  BY <1>0, SecretsAssumption DEF Minting, Place, Credentials, Pushed, Token, Flows, ToForgejo,
         FromPush, FromAwait, Between, AtStack, Trusted, Typed, Tokens
<1>3. Synced'
  BY <1>0 DEF Synced
<1>4. (Undisturbed /\ Exported)'
  BY <1>0 DEF Undisturbed, Exported, Faultless, Registered, Seeded, StalePin, FromPush,
              FromAwait, AtStack, Between
<1> QED  BY <1>1, <1>2, <1>3, <1>4

\* A run that breaks off is not to be trusted.
LEMMA RaiseKeeps == SecretsInv /\ Raise => SecretsInv'
<1> SUFFICES ASSUME SecretsInv, Raise PROVE SecretsInv'
  OBVIOUS
<1> USE DEF SecretsInv, Raise, stores
<1>0. /\ run' \in RunRecords /\ ~run'.clean /\ run'.status # "ok" /\ ~Trusted'
  BY Noting DEF Typed, Trusted
<1>1. faults' \in 0 .. MaxFaults /\ faults' # 0
  BY Spending DEF Typed
<1>2. Typed'
  BY <1>0, <1>1 DEF Typed, Steps, FromAwait
<1>3. (Minting /\ Place /\ Credentials /\ Pushed /\ Token /\ Flows /\ Synced)'
  BY <1>0 DEF Minting, Place, Credentials, Pushed, Token, Flows, Synced, ToForgejo,
         Between, AtStack
<1>4. (Undisturbed /\ Exported)'
  BY <1>1 DEF Undisturbed, Exported, Faultless
<1> QED  BY <1>2, <1>3, <1>4

\* The end of a run changes nothing.
LEMMA FinishKeeps == SecretsInv /\ Finish => SecretsInv'
<1> SUFFICES ASSUME SecretsInv, Finish PROVE SecretsInv'
  OBVIOUS
<1> USE DEF SecretsInv, Finish, stores
<1>1. Typed'
  BY DEF Typed, Steps
<1>2. (Minting /\ Place /\ Credentials /\ Pushed /\ Token)'
  BY DEF Minting, Place, Credentials, Pushed, Token, ToForgejo, FromPush,
         FromAwait, Between, AtStack, Trusted
<1>3. Flows'
  BY DEF Flows
<1>4. Synced'
  BY DEF Synced, Trusted, Current, Stack, Syncing, FromAwait
<1>5. (Undisturbed /\ Exported)'
  BY DEF Undisturbed, Exported, Faultless, Registered, Seeded, StalePin, FromPush, FromAwait
<1> QED  BY <1>1, <1>2, <1>3, <1>4, <1>5

\* Until the secrets are pushed, no step says what a stack has.
LEMMA StackSyncKeeps == SecretsInv /\ StackSync => SecretsInv'
<1> SUFFICES ASSUME SecretsInv, StackSync PROVE SecretsInv'
  OBVIOUS
<1> USE DEF SecretsInv
<1>1. PICK r \in Calls : /\ Spend(Cost(r))
                         /\ file' = IF Applied(r) THEN [file EXCEPT !["kestra"] = Empty] ELSE file
                         /\ run' = Noted(Cost(r), If(r = "ok", "partial"))
  BY DEF StackSync
<1>2. /\ pc = "sync" /\ pc' = "up"
      /\ UNCHANGED <<infisical, saved, live, forgejo, kestra, git, epoch, datalake, runs>>
  BY DEF StackSync
<1>3. If(r = "ok", "partial") \in {"ok", "partial", "failed"}
  BY DEF If
<1>4. /\ run' \in RunRecords /\ run'.left = run.left
      /\ run'.clean <=> run.clean /\ Cost(r) = 0
  BY <1>1, <1>3, OneCall, Noting DEF Typed
<1>5. faults' \in 0 .. MaxFaults /\ (faults' = 0 <=> faults = 0 /\ Cost(r) = 0)
  BY <1>1, OneCall, Spending DEF Typed
<1>6. file' \in [Stacks -> Blocks]
  BY <1>1, Blocking DEF Typed
<1>7. Typed'
  BY <1>2, <1>4, <1>5, <1>6 DEF Typed, Steps, ToForgejo
<1>8. (Minting /\ Place /\ Credentials /\ Pushed /\ Token /\ Flows /\ Synced)'
  BY <1>2, <1>4 DEF Minting, Place, Credentials, Pushed, Token, Flows, Synced, ToForgejo,
         FromPush, FromAwait, Between, AtStack, Syncing
<1>9. (Undisturbed /\ Exported)'
  BY <1>2, <1>4, <1>5 DEF Undisturbed, Exported, Faultless, Registered, Seeded, StalePin,
         FromPush, FromAwait, AtStack, Between
<1> QED  BY <1>7, <1>8, <1>9

\* A container is started with its file or left as it was.
LEMMA ComposeUpKeeps == SecretsInv /\ ComposeUp => SecretsInv'
<1> SUFFICES ASSUME SecretsInv, ComposeUp PROVE SecretsInv'
  OBVIOUS
<1> USE DEF SecretsInv
<1>1. PICK bad \in SUBSET Stacks :
         /\ Spend(Cardinality(bad))
         /\ live' = [s \in Stacks |-> IF s \in bad THEN live[s] ELSE file[s]]
         /\ run' = Noted(Cardinality(bad), If(bad = {}, "partial"))
  BY DEF ComposeUp
<1>2. /\ pc = "up" /\ pc' = "provision"
      /\ UNCHANGED <<infisical, saved, file, forgejo, kestra, git, epoch, datalake, runs>>
  BY DEF ComposeUp
<1>3. If(bad = {}, "partial") \in {"ok", "partial", "failed"} /\ Cardinality(bad) \in Nat
  BY Counting, Finite DEF If
<1>4. /\ run' \in RunRecords /\ run'.left = run.left
      /\ run'.clean <=> run.clean /\ Cardinality(bad) = 0
  BY <1>1, <1>3, Noting DEF Typed
<1>5. faults' \in 0 .. MaxFaults /\ (faults' = 0 <=> faults = 0 /\ Cardinality(bad) = 0)
  BY <1>1, <1>3, Spending DEF Typed
<1>6. live' \in [Stacks -> Blocks]
  BY <1>1 DEF Typed
<1>7. Typed'
  BY <1>2, <1>4, <1>5, <1>6 DEF Typed, Steps, ToForgejo
<1>8. (Minting /\ Place /\ Credentials /\ Pushed /\ Token /\ Flows /\ Synced)'
  BY <1>2, <1>4 DEF Minting, Place, Credentials, Pushed, Token, Flows, Synced, ToForgejo,
         FromPush, FromAwait, Between, AtStack, Syncing
<1>9. (Undisturbed /\ Exported)'
  BY <1>2, <1>4, <1>5 DEF Undisturbed, Exported, Faultless, Registered, Seeded, StalePin,
         FromPush, FromAwait, AtStack, Between
<1> QED  BY <1>7, <1>8, <1>9

\* What a step does on its way to the push: it may bootstrap Infisical and save
\* its credentials, finds them or does without, and has no fault or counts it.
Provisioning(n) ==
  /\ pc \in {"provision", "project", "saveToken", "saveProject"}
  /\ pc' \in {"project", "saveToken", "saveProject", "push"}
  /\ faults' \in 0 .. MaxFaults /\ (faults' = 0 <=> faults = 0 /\ n = 0)
  /\ run' \in RunRecords /\ run'.left = run.left
  /\ run'.clean <=> run.clean /\ n = 0
  /\ pc' = "push" /\ run'.status = "ok" => run'.creds
  /\ pc' = "push" /\ n = 0 /\ faults = 0 /\ run.clean => run'.creds
  /\ pc' = "push" /\ n = 0 /\ faults = 0 /\ infisical'.admin => saved'.token /\ saved'.project
  /\ infisical' \in [admin : BOOLEAN, project : BOOLEAN,
                     secrets : [Folders -> 0 .. MaxEpoch], pinned : Tokens]
  /\ infisical'.secrets = infisical.secrets /\ infisical'.pinned = infisical.pinned
  /\ saved' \in [token : BOOLEAN, project : BOOLEAN]
  /\ pc' # "push" => infisical'.admin
  /\ pc' = "saveProject" => saved'.token
  /\ UNCHANGED <<file, live, forgejo, kestra, git, epoch, datalake, runs>>

\* Every such step keeps the invariant.
LEMMA ProvisioningKeeps ==
  ASSUME SecretsInv, NEW n \in Nat, Provisioning(n)
  PROVE  SecretsInv'
<1> USE DEF SecretsInv, Provisioning
<1>1. Typed'
  BY DEF Typed, Steps, ToForgejo
<1>2. (Minting /\ Place /\ Credentials /\ Pushed /\ Token /\ Flows /\ Synced)'
  BY DEF Minting, Place, Credentials, Pushed, Token, Flows, Synced, ToForgejo,
         FromPush, FromAwait, Between, AtStack, Syncing
<1>3. (Undisturbed /\ Exported)'
  BY DEF Undisturbed, Exported, Faultless, Registered, Seeded, StalePin,
         FromPush, FromAwait, AtStack, Between
<1> QED  BY <1>1, <1>2, <1>3

\* Without credentials the run is partial.
LEMMA NotReadyKeeps == SecretsInv /\ NotReady => SecretsInv'
<1> SUFFICES ASSUME SecretsInv, NotReady PROVE SecretsInv'
  OBVIOUS
<1> USE DEF SecretsInv
<1>1. /\ run' \in RunRecords /\ run'.left = run.left /\ ~run'.clean /\ run'.status # "ok"
  BY Noting DEF NotReady, NoCredentials, Typed
<1>2. faults' \in 0 .. MaxFaults /\ faults' # 0
  BY Spending DEF NotReady, Typed
<1>3. Provisioning(1)
  BY <1>1, <1>2 DEF Provisioning, NotReady, NoCredentials, Typed, stores
<1> QED  BY <1>3, ProvisioningKeeps

\* Faultless runs have saved both credentials of an Infisical that is set up.
LEMMA LoadExistingKeeps == SecretsInv /\ LoadExisting => SecretsInv'
<1> SUFFICES ASSUME SecretsInv, LoadExisting PROVE SecretsInv'
  OBVIOUS
<1> USE DEF SecretsInv
<1>1. CASE saved.token /\ saved.project
  <2>1. /\ run' \in RunRecords /\ run'.left = run.left /\ run'.clean = run.clean
        /\ run'.creds
    BY <1>1 DEF LoadExisting, Typed, RunRecords
  <2>2. Provisioning(0)
    BY <1>1, <2>1 DEF Provisioning, LoadExisting, Typed, stores
  <2> QED  BY <2>2, ProvisioningKeeps
<1>2. CASE ~(saved.token /\ saved.project)
  <2>1. /\ run' \in RunRecords /\ run'.left = run.left /\ (run'.clean <=> run.clean)
        /\ run'.status # "ok"
    BY <1>2, Noting DEF LoadExisting, NoCredentials, Typed
  <2>2. faults # 0
    BY <1>2 DEF LoadExisting, Undisturbed
  <2>3. Provisioning(0)
    BY <1>2, <2>1, <2>2 DEF Provisioning, LoadExisting, NoCredentials, Typed, stores
  <2> QED  BY <2>3, ProvisioningKeeps
<1> QED  BY <1>1, <1>2

\* The bootstrap goes on to the project when it is answered.
LEMMA BootstrapAdminKeeps == SecretsInv /\ BootstrapAdmin => SecretsInv'
<1> SUFFICES ASSUME SecretsInv, BootstrapAdmin PROVE SecretsInv'
  OBVIOUS
<1> USE DEF SecretsInv
<1>1. PICK r \in Calls : /\ Spend(Cost(r))
                         /\ infisical' = [infisical EXCEPT !.admin = Applied(r)]
                         /\ IF r = "ok" THEN pc' = "project" /\ run' = run
                                        ELSE NoCredentials(1)
  BY DEF BootstrapAdmin
<1>2. /\ pc = "provision"
      /\ UNCHANGED <<saved, file, live, forgejo, kestra, git, epoch, datalake, runs>>
  BY DEF BootstrapAdmin
<1>3. Cost(r) \in Nat /\ (Cost(r) = 0 <=> r = "ok")
  BY OneCall
<1>4. faults' \in 0 .. MaxFaults /\ (faults' = 0 <=> faults = 0 /\ Cost(r) = 0)
  BY <1>1, <1>3, Spending DEF Typed
<1>5. /\ infisical' \in [admin : BOOLEAN, project : BOOLEAN,
                         secrets : [Folders -> 0 .. MaxEpoch], pinned : Tokens]
      /\ infisical'.secrets = infisical.secrets /\ infisical'.pinned = infisical.pinned
      /\ r = "ok" => infisical'.admin
  BY <1>1 DEF Typed, Applied
<1>6. CASE r = "ok"
  <2>1. Provisioning(Cost(r))
    BY <1>1, <1>2, <1>3, <1>4, <1>5, <1>6 DEF Provisioning, Typed
  <2> QED  BY <1>3, <2>1, ProvisioningKeeps
<1>7. CASE r # "ok"
  <2>1. /\ run' \in RunRecords /\ run'.left = run.left /\ ~run'.clean /\ run'.status # "ok"
    BY <1>1, <1>7, Noting DEF NoCredentials, Typed
  <2>2. Provisioning(Cost(r))
    BY <1>1, <1>2, <1>3, <1>4, <1>5, <1>7, <2>1 DEF Provisioning, NoCredentials, Typed
  <2> QED  BY <1>3, <2>2, ProvisioningKeeps
<1> QED  BY <1>6, <1>7

\* The project is made by the run that made the admin.
LEMMA CreateProjectKeeps == SecretsInv /\ CreateProject => SecretsInv'
<1> SUFFICES ASSUME SecretsInv, CreateProject PROVE SecretsInv'
  OBVIOUS
<1> USE DEF SecretsInv
<1>1. PICK r \in Calls : /\ Spend(Cost(r))
                         /\ infisical' = [infisical EXCEPT !.project = Applied(r)]
                         /\ IF r = "ok" THEN pc' = "saveToken" /\ run' = run
                                        ELSE NoCredentials(1)
  BY DEF CreateProject
<1>2. /\ pc = "project"
      /\ UNCHANGED <<saved, file, live, forgejo, kestra, git, epoch, datalake, runs>>
  BY DEF CreateProject
<1>3. Cost(r) \in Nat /\ (Cost(r) = 0 <=> r = "ok")
  BY OneCall
<1>4. faults' \in 0 .. MaxFaults /\ (faults' = 0 <=> faults = 0 /\ Cost(r) = 0)
  BY <1>1, <1>3, Spending DEF Typed
<1>5. /\ infisical' \in [admin : BOOLEAN, project : BOOLEAN,
                         secrets : [Folders -> 0 .. MaxEpoch], pinned : Tokens]
      /\ infisical'.secrets = infisical.secrets /\ infisical'.pinned = infisical.pinned
      /\ infisical'.admin
  BY <1>1, <1>2 DEF Typed, Applied, Undisturbed
<1>6. CASE r = "ok"
  <2>1. Provisioning(Cost(r))
    BY <1>1, <1>2, <1>3, <1>4, <1>5, <1>6 DEF Provisioning, Typed
  <2> QED  BY <1>3, <2>1, ProvisioningKeeps
<1>7. CASE r # "ok"
  <2>1. /\ run' \in RunRecords /\ run'.left = run.left /\ ~run'.clean /\ run'.status # "ok"
    BY <1>1, <1>7, Noting DEF NoCredentials, Typed
  <2>2. Provisioning(Cost(r))
    BY <1>1, <1>2, <1>3, <1>4, <1>5, <1>7, <2>1 DEF Provisioning, NoCredentials, Typed
  <2> QED  BY <1>3, <2>2, ProvisioningKeeps
<1> QED  BY <1>6, <1>7

\* The first of the two credentials.
LEMMA SaveTokenKeeps == SecretsInv /\ SaveToken => SecretsInv'
<1> SUFFICES ASSUME SecretsInv, SaveToken PROVE SecretsInv'
  OBVIOUS
<1>1. /\ saved' \in [token : BOOLEAN, project : BOOLEAN] /\ saved'.token
      /\ run \in RunRecords
  BY DEF SecretsInv, SaveToken, Typed
<1>2. Provisioning(0)
  BY <1>1 DEF Provisioning, SaveToken, SecretsInv, Typed, Undisturbed
<1> QED  BY <1>2, ProvisioningKeeps

\* The second: the run has credentials.
LEMMA SaveProjectKeeps == SecretsInv /\ SaveProject => SecretsInv'
<1> SUFFICES ASSUME SecretsInv, SaveProject PROVE SecretsInv'
  OBVIOUS
<1>1. /\ saved' \in [token : BOOLEAN, project : BOOLEAN]
      /\ saved'.project /\ saved'.token = saved.token /\ saved.token
      /\ run' \in RunRecords /\ run'.left = run.left /\ run'.clean = run.clean /\ run'.creds
  BY DEF SecretsInv, SaveProject, Typed, RunRecords, Undisturbed
<1>2. Provisioning(0)
  BY <1>1 DEF Provisioning, SaveProject, SecretsInv, Typed, Undisturbed
<1> QED  BY <1>2, ProvisioningKeeps

\* A trusted run pushes every folder.
LEMMA PushFoldersKeeps == SecretsInv /\ PushFolders => SecretsInv'
<1> SUFFICES ASSUME SecretsInv, PushFolders PROVE SecretsInv'
  OBVIOUS
<1> USE DEF SecretsInv
<1>1. /\ pc = "push" /\ pc' = "forgejo"
      /\ UNCHANGED <<saved, file, live, forgejo, kestra, git, epoch, datalake, runs>>
  BY DEF PushFolders
<1>2. PICK n \in Nat :
         /\ faults' \in 0 .. MaxFaults /\ (faults' = 0 <=> faults = 0 /\ n = 0)
         /\ run' \in RunRecords /\ run'.left = run.left /\ run'.creds = run.creds
         /\ run'.clean <=> run.clean /\ n = 0
         /\ run'.status = "ok" => run.status = "ok"
         /\ infisical' \in [admin : BOOLEAN, project : BOOLEAN,
                            secrets : [Folders -> 0 .. MaxEpoch], pinned : Tokens]
         /\ infisical'.admin = infisical.admin /\ infisical'.pinned = infisical.pinned
         /\ run'.creds /\ (n = 0 \/ run'.status = "ok") =>
              \A f \in ComputeFolders(datalake) : infisical'.secrets[f] = epoch
  <2>1. CASE ~run.creds
    <3>1. UNCHANGED <<infisical, run, faults>>
      BY <2>1 DEF PushFolders
    <3> QED  BY <2>1, <3>1 DEF Typed
  <2>2. CASE run.creds
    <3>0. PICK bad \in SUBSET ComputeFolders(datalake) : \E lost \in SUBSET bad :
            /\ Spend(Cardinality(bad))
            /\ infisical' = [infisical EXCEPT !.secrets = [f \in Folders |->
                 IF f \in (ComputeFolders(datalake) \ bad) \cup lost
                 THEN epoch ELSE infisical.secrets[f]]]
            /\ run' = Noted(Cardinality(bad), PushStatus(bad))
      BY <2>2 DEF PushFolders
    <3>1. PICK lost \in SUBSET bad :
            /\ Spend(Cardinality(bad))
            /\ infisical' = [infisical EXCEPT !.secrets = [f \in Folders |->
                 IF f \in (ComputeFolders(datalake) \ bad) \cup lost
                 THEN epoch ELSE infisical.secrets[f]]]
            /\ run' = Noted(Cardinality(bad), PushStatus(bad))
      BY <3>0
    <3>2. ComputeFolders(datalake) \subseteq Folders
      BY DEF ComputeFolders, Folders
    <3>3. Cardinality(bad) \in Nat /\ (Cardinality(bad) = 0 <=> bad = {})
      BY <3>2, Counting, Finite
    <3>4. /\ PushStatus(bad) \in {"ok", "partial", "failed"}
          /\ PushStatus(bad) = "ok" <=> bad = {}
      BY DEF PushStatus, If
    <3>5. /\ run' \in RunRecords /\ run'.left = run.left /\ run'.creds = run.creds
          /\ run'.clean <=> run.clean /\ Cardinality(bad) = 0
          /\ run'.status = "ok" <=> run.status = "ok" /\ bad = {}
      BY <3>1, <3>3, <3>4, Noting DEF Typed
    <3>6. faults' \in 0 .. MaxFaults /\ (faults' = 0 <=> faults = 0 /\ Cardinality(bad) = 0)
      BY <3>1, <3>3, Spending DEF Typed
    <3>7. /\ infisical' \in [admin : BOOLEAN, project : BOOLEAN,
                             secrets : [Folders -> 0 .. MaxEpoch], pinned : Tokens]
          /\ infisical'.admin = infisical.admin /\ infisical'.pinned = infisical.pinned
          /\ infisical'.secrets = [f \in Folders |->
                 IF f \in (ComputeFolders(datalake) \ bad) \cup lost
                 THEN epoch ELSE infisical.secrets[f]]
      <4> DEFINE sec == [f \in Folders |-> IF f \in (ComputeFolders(datalake) \ bad) \cup lost
                                          THEN epoch ELSE infisical.secrets[f]]
      <4>1. sec \in [Folders -> 0 .. MaxEpoch]
        BY SecretsAssumption DEF Typed
      <4>2. infisical' = [infisical EXCEPT !.secrets = sec]
        BY <3>1
      <4> HIDE DEF sec
      <4>3. /\ infisical' \in [admin : BOOLEAN, project : BOOLEAN,
                               secrets : [Folders -> 0 .. MaxEpoch], pinned : Tokens]
            /\ infisical'.admin = infisical.admin /\ infisical'.pinned = infisical.pinned
            /\ infisical'.secrets = sec
        BY <4>1, <4>2 DEF Typed
      <4> QED  BY <4>3 DEF sec
    <3>8. bad = {} => \A f \in ComputeFolders(datalake) : infisical'.secrets[f] = epoch
      BY <3>2, <3>7
    <3> QED  BY <3>3, <3>5, <3>6, <3>7, <3>8
  <2> QED  BY <2>1, <2>2
<1>3. Typed'
  BY <1>1, <1>2 DEF Typed, Steps, ToForgejo
<1>4. (Minting /\ Place /\ Credentials /\ Token /\ Flows /\ Synced)'
  BY <1>1, <1>2 DEF Minting, Place, Credentials, Token, Flows, Synced, ToForgejo,
         FromPush, FromAwait, Between, AtStack, Syncing
<1>5. Pushed'
  BY <1>1, <1>2 DEF Pushed, Trusted, ComputeFolders
<1>6. (Undisturbed /\ Exported)'
  BY <1>1, <1>2 DEF Undisturbed, Exported, Faultless, Registered, Seeded, StalePin,
         FromPush, FromAwait, AtStack, Between
<1> QED  BY <1>3, <1>4, <1>5, <1>6

\* The token of a trusted run is the one that was minted; a stored one is older
\* and stale from now on.
LEMMA RotateTokenKeeps == SecretsInv /\ RotateToken => SecretsInv'
<1> SUFFICES ASSUME SecretsInv, RotateToken PROVE SecretsInv'
  OBVIOUS
<1> USE DEF SecretsInv
<1> DEFINE new == forgejo.minted + 1
<1>1. /\ pc = "forgejo" /\ pc' = "await"
      /\ UNCHANGED <<infisical, saved, file, live, kestra, epoch, datalake, runs>>
  BY DEF RotateToken
<1>2. new \in Tokens /\ new <= runs /\ new # 0 /\ forgejo.valid < new /\ infisical.pinned < new
  BY <1>1, SecretsAssumption DEF Minting, ToForgejo, Typed, Tokens
<1>3. PICK n \in Nat :
        /\ faults' \in 0 .. MaxFaults /\ (faults' = 0 <=> faults = 0 /\ n = 0)
        /\ run' \in RunRecords /\ run'.left = run.left /\ run'.creds = run.creds
        /\ run'.hidden = run.hidden
        /\ run'.clean <=> run.clean /\ n = 0
        /\ run'.status = "ok" => run.status = "ok" /\ n = 0
        /\ n = 0 => run'.token = new /\ forgejo'.valid = new
        /\ forgejo' \in [valid : Tokens, minted : Tokens]
        /\ forgejo'.valid <= forgejo'.minted /\ forgejo'.minted \in {forgejo.minted, new}
        /\ git' \in [repo : BOOLEAN, seeds : BOOLEAN, mine : 0 .. MaxEdits]
        /\ git'.mine = git.mine
  <2> DEFINE good == /\ forgejo' = [valid |-> new, minted |-> new]
                     /\ git' = [git EXCEPT !.repo = @ \/ ~run.mirror]
                     /\ run' = [run EXCEPT !.token = new]
                     /\ UNCHANGED faults
             bad == /\ Spend(1)
                    /\ forgejo' \in {forgejo, [forgejo EXCEPT !.valid = 0],
                                     [valid |-> new, minted |-> new]}
                    /\ run' = Noted(1, "partial")
                    /\ UNCHANGED git
  <2>1. good \/ bad
    BY DEF RotateToken
  <2>2. CASE good
    <3>1. /\ run' \in RunRecords /\ run'.left = run.left /\ run'.creds = run.creds
          /\ run'.hidden = run.hidden /\ run'.clean = run.clean /\ run'.status = run.status
          /\ run'.token = new
      BY <1>2, <2>2 DEF Typed, RunRecords
    <3>2. /\ git' \in [repo : BOOLEAN, seeds : BOOLEAN, mine : 0 .. MaxEdits]
          /\ git'.mine = git.mine
      BY <2>2 DEF Typed, RunRecords
    <3>3. /\ forgejo' \in [valid : Tokens, minted : Tokens] /\ forgejo'.valid = new
          /\ forgejo'.minted = new /\ faults' = faults /\ new \in Int
      BY <1>2, <2>2 DEF Tokens
    <3> HIDE DEF new, good, bad
    <3>4. faults \in 0 .. MaxFaults
      BY DEF Typed
    <3>5. forgejo'.valid <= forgejo'.minted
      BY <3>3
    <3>6. /\ faults' \in 0 .. MaxFaults /\ (faults' = 0 <=> faults = 0 /\ 0 = 0)
          /\ run'.clean <=> run.clean /\ 0 = 0
          /\ run'.status = "ok" => run.status = "ok" /\ 0 = 0
          /\ 0 = 0 => run'.token = new /\ forgejo'.valid = new
      BY <3>1, <3>3, <3>4
    <3>7. 0 \in Nat
      OBVIOUS
    <3> QED  BY <3>1, <3>2, <3>3, <3>5, <3>6, <3>7
  <2>3. CASE bad
    <3>1. /\ run' \in RunRecords /\ run'.left = run.left /\ run'.creds = run.creds
          /\ run'.hidden = run.hidden /\ ~run'.clean /\ run'.status # "ok"
      BY <2>3, Noting DEF Typed
    <3>2. faults' \in 0 .. MaxFaults /\ faults' # 0
      BY <2>3, Spending DEF Typed
    <3>3. /\ forgejo' \in [valid : Tokens, minted : Tokens]
          /\ forgejo'.valid <= forgejo'.minted /\ forgejo'.minted \in {forgejo.minted, new}
      BY <2>3, <1>2, SecretsAssumption DEF Typed, Minting, Tokens
    <3>4. git' = git
      BY <2>3
    <3> HIDE DEF new, good, bad
    <3>5. /\ faults' = 0 <=> faults = 0 /\ 1 = 0
          /\ run'.clean <=> run.clean /\ 1 = 0
          /\ run'.status = "ok" => run.status = "ok" /\ 1 = 0
          /\ 1 = 0 => run'.token = new /\ forgejo'.valid = new
          /\ 1 \in Nat
      BY <3>1, <3>2
    <3> QED  BY <3>1, <3>2, <3>3, <3>4, <3>5 DEF Typed
  <2> QED  BY <2>1, <2>2, <2>3
<1> HIDE DEF new
<1>4. Typed'
  BY <1>1, <1>3 DEF Typed, Steps, FromAwait
<1>5. Minting'
  BY <1>1, <1>2, <1>3, SecretsAssumption DEF Minting, ToForgejo, Typed, Tokens
<1>6. (Place /\ Credentials /\ Flows /\ Synced)'
  BY <1>1, <1>3 DEF Place, Credentials, Flows, Synced, ToForgejo, Typed,
         FromPush, FromAwait, Between, AtStack, Syncing
<1>7. Pushed' /\ Token'
  BY <1>1, <1>2, <1>3 DEF Pushed, Token, Trusted, FromAwait, ComputeFolders
<1>8. Undisturbed'
  BY <1>1, <1>3 DEF Undisturbed, Faultless, Registered, Seeded, FromPush, FromAwait, AtStack, Between
<1>9. Exported'
  <2>1. StalePin /\ faults' = 0 => StalePin'
    BY <1>1, <1>2, <1>3 DEF StalePin, Typed, Tokens
  <2> QED  BY <1>1, <1>3, <2>1 DEF Exported
<1> QED  BY <1>4, <1>5, <1>6, <1>7, <1>8, <1>9

\* What the steps after the rotation of the token have in common: Infisical, the
\* credentials and the tokens stay, and the run is worse for a fault or is not.
Moves(n) ==
  /\ pc \in FromAwait \ {"done"} /\ pc' \in FromAwait
  /\ faults' \in 0 .. MaxFaults /\ (faults' = 0 <=> faults = 0 /\ n = 0)
  /\ run' \in RunRecords /\ run'.creds = run.creds /\ run'.token = run.token
  /\ run'.clean <=> run.clean /\ n = 0
  /\ run'.status = "ok" => run.status = "ok"
  /\ run.hidden => run'.hidden
  /\ UNCHANGED <<infisical, saved, forgejo, epoch, datalake, runs>>
  /\ file' \in [Stacks -> Blocks] /\ live' \in [Stacks -> Blocks]
  /\ kestra' \in [system : SUBSET SystemFlows, seeds : BOOLEAN,
                  mine : 0 .. MaxEdits, due : 0 .. MaxEdits]
  /\ git' \in [repo : BOOLEAN, seeds : BOOLEAN, mine : 0 .. MaxEdits]

\* What is left to show of such a step.
LEMMA Moving ==
  ASSUME SecretsInv, NEW n \in Nat, Moves(n)
  PROVE  /\ (Typed /\ Minting /\ Credentials /\ Pushed /\ Token)'
         /\ Current' = Current /\ (Trusted' => Trusted) /\ (StalePin' <=> StalePin)
         /\ Faultless' => Faultless /\ run.clean /\ run.creds /\ n = 0
         /\ (Faultless' => /\ Registered' => "flow-export" \in kestra'.system
                           /\ Seeded' => git'.repo) => Undisturbed'
<1> USE DEF SecretsInv, Moves
<1>1. Typed'
  BY DEF Typed, Steps
<1>2. Trusted' => Trusted
  BY DEF Trusted, Typed, RunRecords
<1>3. (Minting /\ Credentials /\ Pushed /\ Token)'
  BY <1>2 DEF Minting, Credentials, Pushed, Token, FromPush, FromAwait, ToForgejo, AtStack, Between,
         ComputeFolders
<1>4. Current' = Current /\ (StalePin' <=> StalePin)
  BY DEF Current, StalePin
<1>5. Faultless' => Faultless /\ run.clean /\ run.creds /\ n = 0
  BY DEF Faultless, Undisturbed, FromPush
<1>6. (Faultless' => /\ Registered' => "flow-export" \in kestra'.system
                     /\ Seeded' => git'.repo) => Undisturbed'
  <2>1. Faultless' => run'.clean /\ run'.creds
    BY <1>5
  <2> QED  BY <2>1 DEF Undisturbed, FromAwait, AtStack, Between
<1> QED  BY <1>1, <1>2, <1>3, <1>4, <1>5, <1>6

\* Of a step that leaves the flows alone, only where it goes and what the stacks
\* have then.
LEMMA Turning ==
  ASSUME SecretsInv, NEW n \in Nat, Moves(n), UNCHANGED <<kestra, git>>, Place', Synced',
         Registered' => Registered, Seeded' => Seeded
  PROVE  SecretsInv'
<1>1. Undisturbed'
  <2>1. Faultless' => /\ Registered' => "flow-export" \in kestra'.system
                      /\ Seeded' => git'.repo
    BY Moving DEF SecretsInv, Undisturbed
  <2> QED  BY <2>1, Moving
<1>2. Flows' /\ Exported'
  <2>1. faults' = 0 => faults = 0
    BY DEF Moves
  <2>2. Exported'
    BY <2>1, Moving DEF SecretsInv, Exported
  <2>3. runs' = runs /\ pc # "idle"
    BY DEF Moves, FromAwait, AtStack, Between
  <2> QED  BY <2>2, <2>3 DEF SecretsInv, Flows
<1> QED  BY <1>1, <1>2, Moving DEF SecretsInv

\* Where the turn of a notebook leaves the run.
LEMMA NextTurn ==
  ASSUME SecretsInv, pc \in AtStack, Stack # "kestra",
         run'.left = Tail(run.left), pc' = AfterSync
  PROVE  /\ pc' \in {"done", "read"} /\ Place' /\ Registered /\ Seeded
         /\ run'.left \in Suffixes /\ Stack \in Stacks
         /\ \A s \in Stacks \ Rest(run'.left) : s = Stack \/ s \notin Rest(run.left)
<1>1. run.left \in Suffixes /\ run.left # <<>>
  BY DEF SecretsInv, Typed, RunRecords, Place
<1>2. run.left # StackList
  BY Suffixing DEF Stack
<1>3. /\ Tail(run.left) \in Suffixes /\ Stack \in Stacks
      /\ Len(run.left) = 1 <=> Tail(run.left) = <<>>
      /\ \A x \in Rest(run.left) : x = Stack \/ x \in Rest(Tail(run.left))
  BY <1>1, Suffixing DEF Stack
<1>4. pc' \in {"done", "read"} /\ (pc' = "done" <=> Tail(run.left) = <<>>)
  BY <1>3 DEF AfterSync
<1>5. Place'
  BY <1>4 DEF Place, ToForgejo, Between, AtStack
<1> QED  BY <1>2, <1>3, <1>4, <1>5 DEF Registered, Seeded

\* Kestra is first in the list, and its turn is where the list is whole.
LEMMA KestrasTurn ==
  ASSUME SecretsInv, pc \in AtStack
  PROVE  /\ run.left \in Suffixes /\ run.left # <<>> /\ Stack \in Stacks
         /\ Stack = "kestra" <=> run.left = StackList
BY Suffixing DEF SecretsInv, Typed, RunRecords, Place, Stack

\* Kestra is there in time, or its turn is over.
LEMMA AwaitKestraKeeps == SecretsInv /\ AwaitKestra => SecretsInv'
<1> SUFFICES ASSUME SecretsInv, AwaitKestra PROVE SecretsInv'
  OBVIOUS
<1>1. PICK r \in IF run.creds THEN Reads ELSE {"ok"} :
        /\ Spend(Cost(r))
        /\ run' = [Noted(Cost(r), If(r = "ok", "partial")) EXCEPT
                     !.left = IF run.creds /\ r = "ok" THEN @ ELSE Tail(@)]
        /\ pc' = IF run.creds /\ r = "ok" THEN "read" ELSE "register"
  BY DEF AwaitKestra
<1>2. pc = "await" /\ UNCHANGED <<stores, runs>> /\ run.left = StackList
  BY DEF AwaitKestra, SecretsInv, Place
<1>3. Cost(r) \in Nat /\ (Cost(r) = 0 <=> r = "ok")
  BY OneCall
<1>4. /\ If(r = "ok", "partial") \in {"ok", "partial", "failed"}
      /\ If(r = "ok", "partial") = "ok" <=> r = "ok"
  BY DEF If
<1>5. run \in RunRecords
  BY DEF SecretsInv, Typed
<1>6. /\ run' \in RunRecords /\ run'.creds = run.creds /\ run'.token = run.token
      /\ run'.hidden = run.hidden /\ (run'.clean <=> run.clean /\ r = "ok")
      /\ run'.status = "ok" <=> run.status = "ok" /\ r = "ok"
      /\ run'.left = IF run.creds /\ r = "ok" THEN StackList ELSE NotebookList
  <2> DEFINE noted == Noted(Cost(r), If(r = "ok", "partial"))
  <2>1. /\ noted \in RunRecords /\ noted.left = StackList /\ noted.creds = run.creds
        /\ noted.token = run.token /\ noted.hidden = run.hidden
        /\ noted.clean <=> run.clean /\ r = "ok"
        /\ noted.status = "ok" <=> run.status = "ok" /\ r = "ok"
    BY <1>2, <1>3, <1>4, <1>5, Noting
  <2>2. run' = [noted EXCEPT !.left = IF run.creds /\ r = "ok" THEN StackList ELSE NotebookList]
    BY <1>1, <2>1, Suffixing
  <2> HIDE DEF noted
  <2>3. StackList \in Suffixes /\ NotebookList \in Suffixes
    BY Suffixing
  <2> QED  BY <2>1, <2>2, <2>3 DEF RunRecords
<1>7. faults' \in 0 .. MaxFaults /\ (faults' = 0 <=> faults = 0 /\ Cost(r) = 0)
  BY <1>1, <1>3, Spending DEF SecretsInv, Typed
<1>8. Moves(Cost(r))
  BY <1>1, <1>2, <1>3, <1>6, <1>7 DEF Moves, SecretsInv, Typed, stores, FromAwait, AtStack, Between
<1>9. Place'
  BY <1>1, <1>6, Suffixing DEF Place, ToForgejo, Between, AtStack
<1>10. Synced'
  <2>1. CASE run.creds /\ r = "ok"
    BY <2>1, <1>1, <1>6, Suffixing DEF Synced
  <2>2. CASE run.creds /\ r # "ok"
    BY <2>2, <1>6 DEF Synced, Trusted
  <2>3. CASE ~run.creds
    BY <2>3, <1>6 DEF Synced
  <2> QED  BY <2>1, <2>2, <2>3
<1>11. ~Registered' /\ ~Seeded'
  BY <1>1, <1>6 DEF Registered, Seeded, AtStack
<1> QED  BY <1>2, <1>3, <1>8, <1>9, <1>10, <1>11, Turning DEF stores

\* The end of a stack's turn: Kestra has still to come back, a notebook has not.
LEMMA EndTurn ==
  ASSUME SecretsInv, NEW n \in Nat, Moves(n), pc \in AtStack, UNCHANGED <<kestra, git>>,
         Stack = "kestra" => run'.left = run.left /\ pc' = "back",
         Stack # "kestra" => run'.left = Tail(run.left) /\ pc' = AfterSync,
         Trusted' /\ run.creds => live' = [live EXCEPT ![Stack] = Current]
  PROVE  SecretsInv'
<1>1. run'.creds = run.creds /\ Current' = Current /\ (Trusted' => Trusted)
  BY Moving DEF Moves
<1>2. live \in [Stacks -> Blocks] /\ Stack \in Stacks
  BY KestrasTurn DEF SecretsInv, Typed
<1>3. CASE Stack = "kestra"
  <2>1. run'.left = StackList /\ pc' = "back"
    BY <1>3, KestrasTurn
  <2>2. Place' /\ ~Registered' /\ ~Seeded'
    BY <2>1, Suffixing DEF Place, Registered, Seeded, ToForgejo, AtStack, Between
  <2>3. Synced'
    BY <1>1, <1>2, <1>3, <2>1, Suffixing DEF Synced
  <2> QED  BY <2>2, <2>3, Turning
<1>4. CASE Stack # "kestra"
  <2>1. /\ pc' \in {"done", "read"} /\ Place' /\ Registered /\ Seeded
        /\ \A s \in Stacks \ Rest(run'.left) : s = Stack \/ s \notin Rest(run.left)
    BY <1>4, NextTurn
  <2>2. Synced'
    <3>1. SUFFICES ASSUME Trusted', run'.creds
                   PROVE  \A s \in Stacks \ Rest(run'.left) : live'[s] = Current
      BY <1>1, <2>1 DEF Synced
    <3>2. \A s \in Stacks \ Rest(run.left) : live[s] = Current
      BY <1>1, <3>1 DEF SecretsInv, Synced, Syncing, FromAwait, AtStack
    <3> QED  BY <1>1, <1>2, <2>1, <3>1, <3>2
  <2> QED  BY <2>1, <2>2, Turning
<1> QED  BY <1>3, <1>4

\* Without credentials no stack is said to have anything.
LEMMA SkipSyncKeeps == SecretsInv /\ SkipSync => SecretsInv'
<1> SUFFICES ASSUME SecretsInv, SkipSync PROVE SecretsInv'
  OBVIOUS
<1>1. /\ pc = "read" /\ ~run.creds /\ UNCHANGED <<stores, faults, runs>> /\ pc' = AfterSync
      /\ run' = [Noted(0, "partial") EXCEPT !.left = Tail(@)]
      /\ run.left \in Suffixes /\ run.left # <<>>
  BY KestrasTurn DEF SkipSync, AtStack
<1>2. /\ run' \in RunRecords /\ run'.creds = run.creds /\ run'.token = run.token
      /\ run'.hidden = run.hidden /\ (run'.clean <=> run.clean) /\ run'.status # "ok"
      /\ run'.left = Tail(run.left)
  <2> DEFINE noted == Noted(0, "partial")
  <2>1. /\ noted \in RunRecords /\ noted.left = run.left /\ noted.creds = run.creds
        /\ noted.token = run.token /\ noted.hidden = run.hidden
        /\ noted.clean <=> run.clean
        /\ noted.status # "ok"
    BY Noting DEF SecretsInv, Typed
  <2>2. run' = [noted EXCEPT !.left = Tail(run.left)]
    BY <1>1, <2>1
  <2> HIDE DEF noted
  <2>3. Tail(run.left) \in Suffixes
    BY <1>1, Suffixing
  <2> QED  BY <2>1, <2>2, <2>3 DEF RunRecords
<1>3. pc' \in {"register", "done", "read"}
  BY <1>1 DEF AfterSync
<1>4. Moves(0)
  BY <1>1, <1>2, <1>3 DEF Moves, SecretsInv, Typed, stores, FromAwait, AtStack, Between
<1>5. Synced'
  BY <1>1, <1>2 DEF Synced
<1>6. CASE Stack = "kestra"
  <2>1. run'.left = NotebookList /\ pc' = "register"
    BY <1>1, <1>2, <1>6, KestrasTurn, Suffixing DEF AfterSync, AtStack
  <2>2. Place' /\ ~Registered' /\ ~Seeded'
    BY <2>1, Suffixing DEF Place, Registered, Seeded, ToForgejo, AtStack, Between
  <2> QED  BY <1>1, <1>4, <1>5, <2>2, Turning DEF stores
<1>7. CASE Stack # "kestra"
  <2>1. Place' /\ Registered /\ Seeded
    BY <1>1, <1>2, <1>7, NextTurn DEF AtStack
  <2> QED  BY <1>1, <1>4, <1>5, <2>1, Turning DEF stores
<1> QED  BY <1>6, <1>7

\* A trusted run lists and fetches every folder, has a token, and so writes the
\* current block.
LEMMA ReadSecretsKeeps == SecretsInv /\ ReadSecrets => SecretsInv'
<1> SUFFICES ASSUME SecretsInv, ReadSecrets PROVE SecretsInv'
  OBVIOUS
<1>1. PICK ok \in BOOLEAN : \E bad \in SUBSET Listing(ok) :
       LET cost == Cardinality(bad) + (IF ok THEN 0 ELSE 1)
           fetched == Listing(ok) \ bad
           kept == Gated(fetched)
       IN  /\ Spend(cost)
           /\ file' = IF kept THEN file ELSE [file EXCEPT ![Stack] = NewBlock(fetched)]
           /\ run' = [Noted(cost, SyncStatus(bad, kept)) EXCEPT
                        !.hidden = @ \/ kept \/ ~ok,
                        !.left = IF kept /\ Stack # "kestra" THEN Tail(@) ELSE @]
           /\ pc' = IF ~kept THEN "restart"
                    ELSE IF Stack = "kestra" THEN "back" ELSE AfterSync
  BY DEF ReadSecrets
<1>2. PICK bad \in SUBSET Listing(ok) :
       LET cost == Cardinality(bad) + (IF ok THEN 0 ELSE 1)
           fetched == Listing(ok) \ bad
           kept == Gated(fetched)
       IN  /\ Spend(cost)
           /\ file' = IF kept THEN file ELSE [file EXCEPT ![Stack] = NewBlock(fetched)]
           /\ run' = [Noted(cost, SyncStatus(bad, kept)) EXCEPT
                        !.hidden = @ \/ kept \/ ~ok,
                        !.left = IF kept /\ Stack # "kestra" THEN Tail(@) ELSE @]
           /\ pc' = IF ~kept THEN "restart"
                    ELSE IF Stack = "kestra" THEN "back" ELSE AfterSync
  BY <1>1
<1> DEFINE cost == Cardinality(bad) + (IF ok THEN 0 ELSE 1)
           fetched == Listing(ok) \ bad
           kept == Gated(fetched)
           status == SyncStatus(bad, kept)
           left == IF kept /\ Stack # "kestra" THEN Tail(run.left) ELSE run.left
           hidden == run.hidden \/ kept \/ ~ok
<1>3. /\ pc = "read" /\ run.creds
      /\ UNCHANGED <<infisical, saved, live, forgejo, kestra, git, epoch, datalake, runs>>
      /\ run.left \in Suffixes /\ run.left # <<>> /\ Stack \in Stacks /\ run \in RunRecords
  BY KestrasTurn DEF ReadSecrets, AtStack, SecretsInv, Typed
<1>4. cost \in Nat /\ (cost = 0 <=> bad = {} /\ ok)
  <2>1. Listing(ok) \subseteq {"root"} \cup Folders
    BY DEF Listing
  <2>2. Cardinality(bad) \in Nat /\ (Cardinality(bad) = 0 <=> bad = {})
    BY <2>1, Counting, Finite
  <2> QED  BY <2>2
<1>5. status \in {"ok", "partial", "failed"} /\ (status = "ok" <=> bad = {} \/ kept)
  BY DEF SyncStatus, If
<1>6. left \in Suffixes /\ hidden \in BOOLEAN
  BY <1>3, Suffixing DEF RunRecords, Gated
<1>7. NewBlock(fetched) \in Blocks
  BY Blocking DEF SecretsInv
<1>8. /\ Spend(cost)
      /\ file' = IF kept THEN file ELSE [file EXCEPT ![Stack] = NewBlock(fetched)]
      /\ pc' = IF ~kept THEN "restart" ELSE IF Stack = "kestra" THEN "back" ELSE AfterSync
  BY <1>2
<1>9. /\ run' \in RunRecords /\ run'.creds = run.creds /\ run'.token = run.token
      /\ run'.hidden = hidden /\ (run'.clean <=> run.clean /\ cost = 0)
      /\ run'.status = "ok" <=> run.status = "ok" /\ status = "ok"
      /\ run'.left = left
  <2> DEFINE noted == Noted(cost, status)
  <2>1. /\ noted \in RunRecords /\ noted.left = run.left /\ noted.creds = run.creds
        /\ noted.token = run.token /\ noted.hidden = run.hidden
        /\ noted.clean <=> run.clean /\ cost = 0
        /\ noted.status = "ok" <=> run.status = "ok" /\ status = "ok"
    <3> HIDE DEF cost, status, kept
    <3> QED  BY <1>3, <1>4, <1>5, Noting
  <2>2. run' = [noted EXCEPT !.hidden = hidden, !.left = left]
    BY <1>2, <2>1
  <2> HIDE DEF noted, cost, hidden, left, status
  <2> QED  BY <1>6, <2>1, <2>2 DEF RunRecords
<1>10. faults' \in 0 .. MaxFaults /\ (faults' = 0 <=> faults = 0 /\ cost = 0)
  <2> HIDE DEF cost
  <2> QED  BY <1>4, <1>8, Spending DEF SecretsInv, Typed
<1>11. file' \in [Stacks -> Blocks]
  BY <1>7, <1>8 DEF SecretsInv, Typed
<1>12. Trusted' => ~kept /\ NewBlock(fetched) = Current
  <2>1. SUFFICES ASSUME Trusted' PROVE ~kept /\ NewBlock(fetched) = Current
    OBVIOUS
  <2>2. Trusted /\ bad = {} /\ ok
    BY <1>4, <1>5, <1>9, <2>1 DEF Trusted
  <2>3. run.token # 0 /\ run.token = forgejo.valid
    BY <1>3, <2>2 DEF SecretsInv, Token, FromAwait, AtStack
  <2>4. fetched = Listing(TRUE)
    BY <2>2
  <2> QED  BY <2>3, <2>4, Renewing DEF SecretsInv
<1> HIDE DEF cost, fetched, kept, status, left, hidden
<1>13. pc' \in {"restart", "back", "register", "done", "read"}
  BY <1>8 DEF AfterSync
<1>14. Moves(cost)
  BY <1>3, <1>4, <1>9, <1>10, <1>11, <1>13
     DEF Moves, hidden, SecretsInv, Typed, FromAwait, AtStack, Between
<1>15. CASE kept
  <2>1. Stack = "kestra" => run'.left = run.left /\ pc' = "back"
    BY <1>8, <1>9, <1>15 DEF left
  <2>2. Stack # "kestra" => run'.left = Tail(run.left) /\ pc' = AfterSync
    BY <1>8, <1>9, <1>15 DEF left
  <2>3. ~Trusted'
    BY <1>12, <1>15
  <2> QED  BY <1>3, <1>4, <1>14, <2>1, <2>2, <2>3, EndTurn DEF AtStack
<1>16. CASE ~kept
  <2>1. pc' = "restart" /\ run'.left = run.left
    BY <1>8, <1>9, <1>16 DEF left
  <2>2. Place'
    BY <1>3, <2>1 DEF Place, ToForgejo, Between, AtStack
  <2>3. (Registered' => Registered) /\ (Seeded' => Seeded)
    BY <1>3, <2>1 DEF Registered, Seeded, AtStack
  <2>4. Synced'
    <3>1. Current' = Current /\ (Trusted' => Trusted)
      BY <1>4, <1>14, Moving
    <3>2. Stack' = Stack
      BY <2>1 DEF Stack
    <3>3. Trusted' => file'[Stack] = Current
      BY <1>3, <1>8, <1>12, <1>16 DEF SecretsInv, Typed
    <3>4. Trusted' => \A s \in Stacks \ Rest(run.left) : live[s] = Current
      BY <1>3, <3>1 DEF SecretsInv, Synced, Syncing, FromAwait, AtStack
    <3> QED  BY <1>3, <2>1, <3>1, <3>2, <3>3, <3>4 DEF Synced
  <2> QED  BY <1>3, <1>4, <1>14, <2>2, <2>3, <2>4, Turning
<1> QED  BY <1>15, <1>16

\* A script that dies is hidden and no clean run's.
LEMMA NoResultKeeps == SecretsInv /\ NoResult => SecretsInv'
<1> SUFFICES ASSUME SecretsInv, NoResult PROVE SecretsInv'
  OBVIOUS
<1> DEFINE status == If(Stack = "kestra", "partial")
           left == IF Stack = "kestra" THEN run.left ELSE Tail(run.left)
<1>1. /\ pc = "read" /\ Spend(1) /\ UNCHANGED <<stores, runs>>
      /\ pc' = IF Stack = "kestra" THEN "back" ELSE AfterSync
      /\ run' = [Noted(1, status) EXCEPT
                   !.hidden = TRUE, !.left = IF Stack = "kestra" THEN @ ELSE Tail(@)]
      /\ run.left \in Suffixes /\ run.left # <<>> /\ Stack \in Stacks
  BY KestrasTurn DEF NoResult, AtStack
<1>2. /\ run' \in RunRecords /\ run'.creds = run.creds /\ run'.token = run.token
      /\ run'.hidden /\ ~run'.clean /\ (run'.status = "ok" => run.status = "ok")
      /\ run'.left = left
  <2> DEFINE noted == Noted(1, status)
  <2>1. /\ noted \in RunRecords /\ noted.left = run.left /\ noted.creds = run.creds
        /\ noted.token = run.token /\ ~noted.clean
        /\ noted.status = "ok" => run.status = "ok"
    <3>1. status \in {"ok", "partial", "failed"}
      BY DEF If
    <3> QED  BY <3>1, Noting DEF SecretsInv, Typed
  <2>2. run' = [noted EXCEPT !.hidden = TRUE, !.left = left]
    BY <1>1, <2>1
  <2>3. left \in Suffixes
    BY <1>1, Suffixing
  <2> HIDE DEF noted, left
  <2> QED  BY <2>1, <2>2, <2>3 DEF RunRecords
<1>3. faults' \in 0 .. MaxFaults /\ faults' # 0
  BY <1>1, Spending DEF SecretsInv, Typed
<1>4. pc' \in {"back", "register", "done", "read"}
  BY <1>1 DEF AfterSync
<1>5. Moves(1)
  BY <1>1, <1>2, <1>3, <1>4 DEF Moves, SecretsInv, Typed, stores, FromAwait, AtStack, Between
<1>6. ~Trusted'
  BY <1>2 DEF Trusted
<1> QED  BY <1>1, <1>2, <1>5, <1>6, EndTurn DEF stores, AtStack

\* A container of a trusted run is restarted on its file.
LEMMA RestartStackKeeps == SecretsInv /\ RestartStack => SecretsInv'
<1> SUFFICES ASSUME SecretsInv, RestartStack PROVE SecretsInv'
  OBVIOUS
<1> DEFINE left == IF Stack = "kestra" THEN run.left ELSE Tail(run.left)
<1>1. PICK r \in Calls :
        /\ Spend(Cost(r))
        /\ live' = IF Applied(r) THEN [live EXCEPT ![Stack] = file[Stack]] ELSE live
        /\ run' = [Noted(Cost(r), "ok") EXCEPT
                     !.hidden = @ \/ r # "ok",
                     !.left = IF Stack = "kestra" THEN @ ELSE Tail(@)]
  BY DEF RestartStack
<1>2. /\ pc = "restart" /\ pc' = IF Stack = "kestra" THEN "back" ELSE AfterSync
      /\ UNCHANGED <<infisical, saved, file, forgejo, kestra, git, epoch, datalake, runs>>
      /\ run.left \in Suffixes /\ run.left # <<>> /\ Stack \in Stacks
  BY KestrasTurn DEF RestartStack, AtStack
<1>3. Cost(r) \in Nat /\ (Cost(r) = 0 <=> r = "ok")
  BY OneCall
<1>4. /\ run' \in RunRecords /\ run'.creds = run.creds /\ run'.token = run.token
      /\ (run'.hidden <=> run.hidden \/ r # "ok") /\ (run'.clean <=> run.clean /\ Cost(r) = 0)
      /\ (run'.status = "ok" <=> run.status = "ok")
      /\ run'.left = left
  <2> DEFINE noted == Noted(Cost(r), "ok")
             hidden == run.hidden \/ r # "ok"
  <2>1. /\ noted \in RunRecords /\ noted.left = run.left /\ noted.creds = run.creds
        /\ noted.token = run.token /\ noted.hidden = run.hidden
        /\ noted.clean <=> run.clean /\ Cost(r) = 0
        /\ noted.status = "ok" <=> run.status = "ok"
    BY <1>3, Noting DEF SecretsInv, Typed
  <2>2. run' = [noted EXCEPT !.hidden = hidden, !.left = left]
    BY <1>1, <2>1
  <2>3. left \in Suffixes /\ hidden \in BOOLEAN
    BY <1>2, Suffixing DEF SecretsInv, Typed, RunRecords
  <2>4. hidden <=> run.hidden \/ r # "ok"
    OBVIOUS
  <2> HIDE DEF noted, left, hidden
  <2>5. run'.hidden = hidden
    BY <2>1, <2>2, <2>3 DEF RunRecords
  <2> QED  BY <2>1, <2>2, <2>3, <2>4, <2>5 DEF RunRecords
<1>5. faults' \in 0 .. MaxFaults /\ (faults' = 0 <=> faults = 0 /\ Cost(r) = 0)
  BY <1>1, <1>3, Spending DEF SecretsInv, Typed
<1>6. live' \in [Stacks -> Blocks]
  BY <1>1, <1>2 DEF SecretsInv, Typed
<1>7. pc' \in {"back", "register", "done", "read"}
  BY <1>2 DEF AfterSync
<1>8. Moves(Cost(r))
  BY <1>2, <1>3, <1>4, <1>5, <1>6, <1>7 DEF Moves, SecretsInv, Typed, FromAwait, AtStack, Between
<1>9. Trusted' /\ run.creds => live' = [live EXCEPT ![Stack] = Current]
  <2>1. SUFFICES ASSUME Trusted', run.creds PROVE live' = [live EXCEPT ![Stack] = Current]
    OBVIOUS
  <2>2. r = "ok"
    BY <1>3, <1>4, <2>1 DEF Trusted
  <2>3. Trusted
    BY <1>3, <1>8, <2>1, Moving
  <2>4. file[Stack] = Current
    BY <1>2, <2>1, <2>3 DEF SecretsInv, Synced
  <2> QED  BY <1>1, <2>2, <2>4 DEF Applied
<1> QED  BY <1>2, <1>3, <1>4, <1>8, <1>9, EndTurn DEF AtStack

\* The wait for Kestra ends its turn.
LEMMA AwaitRestartKeeps == SecretsInv /\ AwaitRestart => SecretsInv'
<1> SUFFICES ASSUME SecretsInv, AwaitRestart PROVE SecretsInv'
  OBVIOUS
<1>1. PICK r \in Reads :
        /\ Spend(Cost(r))
        /\ run' = [Noted(Cost(r), If(r = "ok", "partial")) EXCEPT !.left = Tail(@)]
  BY DEF AwaitRestart
<1>2. /\ pc = "back" /\ pc' = "register" /\ UNCHANGED <<stores, runs>> /\ run.left = StackList
  BY DEF AwaitRestart, SecretsInv, Place
<1>3. Cost(r) \in Nat /\ (Cost(r) = 0 <=> r = "ok")
  BY OneCall
<1>4. /\ If(r = "ok", "partial") \in {"ok", "partial", "failed"}
      /\ If(r = "ok", "partial") = "ok" <=> r = "ok"
  BY DEF If
<1>5. /\ run' \in RunRecords /\ run'.creds = run.creds /\ run'.token = run.token
      /\ run'.hidden = run.hidden /\ (run'.clean <=> run.clean /\ r = "ok")
      /\ run'.status = "ok" <=> run.status = "ok" /\ r = "ok"
      /\ run'.left = NotebookList
  <2> DEFINE noted == Noted(Cost(r), If(r = "ok", "partial"))
  <2>1. /\ noted \in RunRecords /\ noted.left = StackList /\ noted.creds = run.creds
        /\ noted.token = run.token /\ noted.hidden = run.hidden
        /\ noted.clean <=> run.clean /\ r = "ok"
        /\ noted.status = "ok" <=> run.status = "ok" /\ r = "ok"
    BY <1>2, <1>3, <1>4, Noting DEF SecretsInv, Typed
  <2>2. run' = [noted EXCEPT !.left = NotebookList]
    BY <1>1, <2>1, Suffixing
  <2> HIDE DEF noted
  <2>3. NotebookList \in Suffixes
    BY Suffixing
  <2> QED  BY <2>1, <2>2, <2>3 DEF RunRecords
<1>6. faults' \in 0 .. MaxFaults /\ (faults' = 0 <=> faults = 0 /\ Cost(r) = 0)
  BY <1>1, <1>3, Spending DEF SecretsInv, Typed
<1>7. Moves(Cost(r))
  BY <1>2, <1>3, <1>5, <1>6 DEF Moves, SecretsInv, Typed, stores, FromAwait, AtStack, Between
<1>8. Place' /\ ~Registered' /\ ~Seeded'
  BY <1>2, <1>5, Suffixing DEF Place, Registered, Seeded, ToForgejo, Between, AtStack
<1>9. Synced'
  <2>1. Current' = Current /\ (Trusted' => Trusted)
    BY <1>3, <1>7, Moving
  <2>2. Trusted /\ run.creds => live["kestra"] = Current
    BY <1>2 DEF SecretsInv, Synced
  <2> QED  BY <1>2, <1>5, <2>1, <2>2, Suffixing DEF Synced, stores
<1> QED  BY <1>2, <1>3, <1>7, <1>8, <1>9, Turning DEF stores

\* Of a step between the turns that leaves the stacks alone, what it makes of
\* the flows.
LEMMA Flowing ==
  ASSUME SecretsInv, NEW n \in Nat, Moves(n), pc \in Between, live' = live,
         pc' \in Between => run'.left = run.left,
         pc' \notin Between => pc' = "read" /\ run'.left = run.left,
         kestra'.due <= kestra'.mine,
         faults' = 0 => kestra'.due <= kestra.due /\ git'.mine = git.mine,
         Faultless' => /\ Registered' => "flow-export" \in kestra'.system
                       /\ Seeded' => git'.repo
  PROVE  SecretsInv'
<1>1. /\ Undisturbed' /\ Current' = Current /\ (Trusted' => Trusted) /\ (StalePin' <=> StalePin)
      /\ (Typed /\ Minting /\ Credentials /\ Pushed /\ Token)'
  BY Moving
<1>2. run.left = NotebookList /\ run'.left = NotebookList /\ pc' \in Between \cup {"read"}
  BY DEF SecretsInv, Place
<1>3. Place'
  BY <1>2, Suffixing DEF Place, ToForgejo, Between, AtStack
<1>4. Synced'
  <2>1. Trusted /\ run.creds => \A s \in Stacks \ Rest(NotebookList) : live[s] = Current
    BY <1>2 DEF SecretsInv, Synced, Syncing, FromAwait, Between
  <2>2. pc' # "restart" /\ pc' # "back" /\ run'.creds = run.creds
    BY <1>2 DEF Between, Moves
  <2> QED  BY <1>1, <1>2, <2>1, <2>2 DEF Synced
<1>5. Flows'
  BY DEF Flows, SecretsInv, Moves, Between
<1>6. Exported'
  <2>1. SUFFICES ASSUME faults' = 0 PROVE git'.mine >= kestra'.due \/ StalePin
    BY <1>1 DEF Exported
  <2>2. git.mine >= kestra.due \/ StalePin
    BY <2>1 DEF SecretsInv, Exported, Moves
  <2>3. /\ kestra.due \in Int /\ kestra'.due \in Int /\ git.mine \in Int
        /\ kestra'.due <= kestra.due /\ git'.mine = git.mine
    BY <2>1 DEF Moves, SecretsInv, Typed
  <2> QED  BY <2>2, <2>3
<1> QED  BY <1>1, <1>3, <1>4, <1>5, <1>6 DEF SecretsInv

\* Without a fault every system flow is registered.
LEMMA RegisterFlowsKeeps == SecretsInv /\ RegisterFlows => SecretsInv'
<1> SUFFICES ASSUME SecretsInv, RegisterFlows PROVE SecretsInv'
  OBVIOUS
<1>1. /\ pc = "register"
      /\ UNCHANGED <<infisical, saved, file, live, forgejo, git, epoch, datalake, runs>>
  BY DEF RegisterFlows
<1>2. PICK n \in Nat :
        /\ Spend(n)
        /\ \E s \in {"ok", "partial", "failed"} : run' = Noted(n, s)
        /\ kestra' \in [system : SUBSET SystemFlows, seeds : BOOLEAN,
                        mine : 0 .. MaxEdits, due : 0 .. MaxEdits]
        /\ kestra'.mine = kestra.mine /\ kestra'.due = kestra.due
        /\ n = 0 => "flow-export" \in kestra'.system
        /\ pc' \in {"trigger", "seed"}
  <2>1. CASE \E bad \in SUBSET SystemFlows : \E lost \in SUBSET bad :
          /\ Spend(Cardinality(bad))
          /\ kestra' = [kestra EXCEPT !.system = @ \cup (SystemFlows \ bad) \cup lost]
          /\ run' = Noted(Cardinality(bad), RegisterStatus(bad))
          /\ pc' = IF bad = {} /\ ~run.mirror THEN "trigger" ELSE "seed"
    <3>1. PICK bad \in SUBSET SystemFlows : \E lost \in SUBSET bad :
          /\ Spend(Cardinality(bad))
          /\ kestra' = [kestra EXCEPT !.system = @ \cup (SystemFlows \ bad) \cup lost]
          /\ run' = Noted(Cardinality(bad), RegisterStatus(bad))
          /\ pc' = IF bad = {} /\ ~run.mirror THEN "trigger" ELSE "seed"
      BY <2>1
    <3>2. PICK lost \in SUBSET bad :
          /\ Spend(Cardinality(bad))
          /\ kestra' = [kestra EXCEPT !.system = @ \cup (SystemFlows \ bad) \cup lost]
          /\ run' = Noted(Cardinality(bad), RegisterStatus(bad))
          /\ pc' = IF bad = {} /\ ~run.mirror THEN "trigger" ELSE "seed"
      BY <3>1
    <3>3. Cardinality(bad) \in Nat /\ (Cardinality(bad) = 0 <=> bad = {})
      BY Counting, Finite
    <3>4. RegisterStatus(bad) \in {"ok", "partial", "failed"}
      BY DEF RegisterStatus, If
    <3>5. /\ kestra' \in [system : SUBSET SystemFlows, seeds : BOOLEAN,
                          mine : 0 .. MaxEdits, due : 0 .. MaxEdits]
          /\ kestra'.mine = kestra.mine /\ kestra'.due = kestra.due
          /\ kestra'.system = kestra.system \cup (SystemFlows \ bad) \cup lost
      BY <3>2 DEF SecretsInv, Typed
    <3>6. bad = {} => "flow-export" \in kestra'.system
      BY <3>5 DEF SystemFlows
    <3> QED  BY <3>2, <3>3, <3>4, <3>5, <3>6
  <2>2. CASE Spend(1) /\ run' = Noted(1, "partial") /\ pc' = "seed" /\ UNCHANGED kestra
    <3>1. 1 \in Nat /\ 1 # 0 /\ "partial" \in {"ok", "partial", "failed"}
      OBVIOUS
    <3> QED  BY <2>2, <3>1 DEF SecretsInv, Typed
  <2> QED  BY <2>1, <2>2 DEF RegisterFlows
<1>3. /\ run' \in RunRecords /\ run'.creds = run.creds /\ run'.token = run.token
      /\ run'.hidden = run.hidden /\ (run'.clean <=> run.clean /\ n = 0)
      /\ run'.status = "ok" => run.status = "ok"
      /\ run'.left = run.left
  BY <1>2, Noting DEF SecretsInv, Typed
<1>4. faults' \in 0 .. MaxFaults /\ (faults' = 0 <=> faults = 0 /\ n = 0)
  BY <1>2, Spending DEF SecretsInv, Typed
<1>5. Moves(n)
  BY <1>1, <1>2, <1>3, <1>4 DEF Moves, SecretsInv, Typed, FromAwait, AtStack, Between
<1>6. kestra'.due <= kestra'.mine /\ kestra'.due <= kestra.due
  BY <1>2 DEF SecretsInv, Flows, Typed
<1>7. Faultless' => n = 0
  BY <1>5, Moving
<1>8. ~Seeded'
  BY <1>2 DEF Seeded, AtStack
<1> QED  BY <1>1, <1>2, <1>3, <1>5, <1>6, <1>7, <1>8, Flowing DEF Between

\* The pull of the flows, while no call went wrong: Kestra only reaches the
\* repository with the valid token, and then what is due is there.
LEMMA Pulling ==
  ASSUME SecretsInv, pc \in {"trigger", "finalize"}, FlowSync \/ UNCHANGED kestra
  PROVE  /\ kestra' \in [system : SUBSET SystemFlows, seeds : BOOLEAN,
                         mine : 0 .. MaxEdits, due : 0 .. MaxEdits]
         /\ kestra'.system = kestra.system
         /\ kestra'.due <= kestra'.mine /\ kestra'.due <= kestra.due
         /\ faults = 0 => kestra'.mine >= kestra.due
<1>1. /\ kestra \in [system : SUBSET SystemFlows, seeds : BOOLEAN,
                     mine : 0 .. MaxEdits, due : 0 .. MaxEdits]
      /\ kestra.due <= kestra.mine
      /\ kestra.mine \in 0 .. MaxEdits /\ kestra.due \in 0 .. MaxEdits /\ git.mine \in 0 .. MaxEdits
  BY DEF SecretsInv, Typed, Flows
<1>2. CASE UNCHANGED kestra
  BY <1>1, <1>2
<1>3. CASE FlowSync /\ ~FlowSyncWorks
  BY <1>1, <1>3 DEF FlowSync
<1>4. CASE FlowSync /\ FlowSyncWorks
  <2>1. PICK mine \in IF git.mine = 0 THEN {0, kestra.mine} ELSE {git.mine} :
          kestra' = [kestra EXCEPT !.seeds = TRUE, !.mine = mine,
                                   !.due = IF mine < @ THEN mine ELSE @]
    BY <1>4 DEF FlowSync
  <2>2. mine \in 0 .. MaxEdits /\ mine >= git.mine
    BY <1>1, <2>1
  <2> DEFINE due == IF mine < kestra.due THEN mine ELSE kestra.due
  <2>3. due \in 0 .. MaxEdits /\ due <= mine /\ due <= kestra.due
    BY <1>1, <2>2
  <2>4. kestra' = [kestra EXCEPT !.seeds = TRUE, !.mine = mine, !.due = due]
    BY <2>1
  <2> HIDE DEF due
  <2>5. /\ kestra' \in [system : SUBSET SystemFlows, seeds : BOOLEAN,
                        mine : 0 .. MaxEdits, due : 0 .. MaxEdits]
        /\ kestra'.system = kestra.system /\ kestra'.mine = mine /\ kestra'.due = due
    BY <1>1, <2>2, <2>3, <2>4
  <2>6. faults = 0 => git.mine >= kestra.due
    <3>1. SUFFICES ASSUME faults = 0 PROVE git.mine >= kestra.due
      OBVIOUS
    <3>2. Faultless
      BY <3>1, SecretsAssumption DEF SecretsInv, Flows, Typed, Faultless
    <3>3. run.clean /\ run.creds
      BY <3>2 DEF SecretsInv, Undisturbed, FromPush, FromAwait, Between
    <3>4. live["kestra"] = Current
      <4>1. run.left = NotebookList
        BY DEF SecretsInv, Place, Between
      <4> QED  BY <4>1, <3>3, Suffixing
                  DEF SecretsInv, Synced, Syncing, FromAwait, Between, Trusted
    <3>5. ~StalePin
      BY <1>4, <3>4 DEF FlowSyncWorks, CanClone, Current, Keys, Folders, StalePin
    <3> QED  BY <3>1, <3>5 DEF SecretsInv, Exported
  <2> QED  BY <1>1, <2>2, <2>3, <2>5, <2>6
<1> QED  BY <1>2, <1>3, <1>4

\* The pull at registration.
LEMMA TriggerOnboardingKeeps == SecretsInv /\ TriggerOnboarding => SecretsInv'
<1> SUFFICES ASSUME SecretsInv, TriggerOnboarding PROVE SecretsInv'
  OBVIOUS
<1>1. PICK r \in Calls :
        /\ Spend(Cost(r))
        /\ IF Applied(r) THEN FlowSync ELSE UNCHANGED kestra
        /\ run' = Noted(Cost(r), If(ExecutionState(r) = "SUCCESS", "partial"))
  BY DEF TriggerOnboarding
<1>2. /\ pc = "trigger" /\ pc' = "seed"
      /\ UNCHANGED <<infisical, saved, file, live, forgejo, git, epoch, datalake, runs>>
  BY DEF TriggerOnboarding
<1>3. Cost(r) \in Nat /\ If(ExecutionState(r) = "SUCCESS", "partial") \in {"ok", "partial", "failed"}
  BY OneCall DEF If
<1>4. /\ run' \in RunRecords /\ run'.creds = run.creds /\ run'.token = run.token
      /\ run'.hidden = run.hidden /\ (run'.clean <=> run.clean /\ Cost(r) = 0)
      /\ run'.status = "ok" => run.status = "ok"
      /\ run'.left = run.left
  BY <1>1, <1>3, Noting DEF SecretsInv, Typed
<1>5. faults' \in 0 .. MaxFaults /\ (faults' = 0 <=> faults = 0 /\ Cost(r) = 0)
  BY <1>1, <1>3, Spending DEF SecretsInv, Typed
<1>6. FlowSync \/ UNCHANGED kestra
  BY <1>1
<1>7. /\ kestra' \in [system : SUBSET SystemFlows, seeds : BOOLEAN,
                      mine : 0 .. MaxEdits, due : 0 .. MaxEdits]
      /\ kestra'.system = kestra.system
      /\ kestra'.due <= kestra'.mine /\ kestra'.due <= kestra.due
  BY <1>2, <1>6, Pulling
<1>8. Moves(Cost(r))
  BY <1>2, <1>4, <1>5, <1>7 DEF Moves, SecretsInv, Typed, FromAwait, Between
<1>9. Faultless' => "flow-export" \in kestra'.system
  <2>1. Faultless' => Faultless
    BY <1>3, <1>8, Moving
  <2> QED  BY <1>2, <1>7, <2>1 DEF SecretsInv, Undisturbed, Registered
<1>10. ~Seeded'
  BY <1>2 DEF Seeded, AtStack
<1> QED  BY <1>2, <1>3, <1>4, <1>7, <1>8, <1>9, <1>10, Flowing DEF Between

\* Without a fault the run has the token and makes sure of the repository.
LEMMA SeedKeeps == SecretsInv /\ Seed => SecretsInv'
<1> SUFFICES ASSUME SecretsInv, Seed PROVE SecretsInv'
  OBVIOUS
<1>1. PICK r \in IF run.token = 0 THEN {"ok"} ELSE Calls :
        LET done == run.token # 0 /\ Applied(r)
        IN  /\ Spend(Cost(r))
            /\ git' = IF done THEN [git EXCEPT !.repo = TRUE, !.seeds = TRUE] ELSE git
            /\ run' = [Noted(Cost(r), If(r = "ok", "partial")) EXCEPT
                         !.fork = done /\ run.mirror]
  BY DEF Seed
<1> DEFINE done == run.token # 0 /\ Applied(r)
           fork == done /\ run.mirror
<1>2. /\ pc = "seed" /\ pc' = IF run.mirror THEN "finalize" ELSE "read"
      /\ UNCHANGED <<infisical, saved, file, live, forgejo, kestra, epoch, datalake, runs>>
  BY DEF Seed
<1>3. Cost(r) \in Nat /\ (Cost(r) = 0 <=> r = "ok")
  BY OneCall
<1>4. /\ run' \in RunRecords /\ run'.creds = run.creds /\ run'.token = run.token
      /\ run'.hidden = run.hidden /\ (run'.clean <=> run.clean /\ Cost(r) = 0)
      /\ run'.status = "ok" => run.status = "ok"
      /\ run'.left = run.left
  <2> DEFINE noted == Noted(Cost(r), If(r = "ok", "partial"))
  <2>1. If(r = "ok", "partial") \in {"ok", "partial", "failed"}
    BY DEF If
  <2>2. /\ noted \in RunRecords /\ noted.left = run.left /\ noted.creds = run.creds
        /\ noted.token = run.token /\ noted.hidden = run.hidden
        /\ noted.clean <=> run.clean /\ Cost(r) = 0
        /\ noted.status = "ok" => run.status = "ok"
    BY <1>3, <2>1, Noting DEF SecretsInv, Typed
  <2>3. run' = [noted EXCEPT !.fork = fork] /\ fork \in BOOLEAN
    BY <1>1 DEF SecretsInv, Typed, RunRecords
  <2> HIDE DEF noted, fork
  <2> QED  BY <2>2, <2>3 DEF RunRecords
<1>5. faults' \in 0 .. MaxFaults /\ (faults' = 0 <=> faults = 0 /\ Cost(r) = 0)
  BY <1>1, <1>3, Spending DEF SecretsInv, Typed
<1>6. /\ git' \in [repo : BOOLEAN, seeds : BOOLEAN, mine : 0 .. MaxEdits]
      /\ git'.mine = git.mine /\ (done => git'.repo)
  BY <1>1 DEF SecretsInv, Typed
<1>7. Moves(Cost(r))
  BY <1>2, <1>4, <1>5, <1>6 DEF Moves, SecretsInv, Typed, FromAwait, AtStack, Between
<1>8. Faultless' => "flow-export" \in kestra'.system /\ git'.repo
  <2>1. SUFFICES ASSUME Faultless' PROVE "flow-export" \in kestra.system /\ git'.repo
    BY <1>2
  <2>2. Faultless /\ run.clean /\ run.creds /\ Cost(r) = 0
    BY <1>3, <1>7, <2>1, Moving
  <2>3. run.token # 0 /\ r = "ok"
    BY <1>2, <1>3, <2>2 DEF SecretsInv, Token, Trusted, FromAwait, Between
  <2>4. "flow-export" \in kestra.system
    <3>1. run.left # StackList
      BY <1>2, Suffixing DEF SecretsInv, Place, Between
    <3> QED  BY <1>2, <2>2 DEF SecretsInv, Undisturbed, Registered
  <2> QED  BY <1>6, <2>3, <2>4 DEF Applied
<1>9. kestra'.due <= kestra'.mine /\ kestra'.due <= kestra.due
  BY <1>2 DEF SecretsInv, Flows, Typed
<1> QED  BY <1>2, <1>3, <1>4, <1>6, <1>7, <1>8, <1>9, Flowing DEF Between

\* The pull after the fork.
LEMMA FinalizeKeeps == SecretsInv /\ Finalize => SecretsInv'
<1> SUFFICES ASSUME SecretsInv, Finalize PROVE SecretsInv'
  OBVIOUS
<1>1. PICK r \in IF run.fork THEN Calls ELSE {"refused"} :
        /\ Spend(IF run.fork THEN Cost(r) ELSE 0)
        /\ IF Applied(r) THEN FlowSync ELSE UNCHANGED kestra
        /\ run' = IF ~run.fork THEN run
                  ELSE Noted(Cost(r), If(ExecutionState(r) \in {"SUCCESS", "RUNNING"},
                                         "partial"))
  BY DEF Finalize
<1>2. /\ pc = "finalize" /\ pc' = "read"
      /\ UNCHANGED <<infisical, saved, file, live, forgejo, git, epoch, datalake, runs>>
  BY DEF Finalize
<1> DEFINE n == IF run.fork THEN Cost(r) ELSE 0
           s == If(ExecutionState(r) \in {"SUCCESS", "RUNNING"}, "partial")
<1>3. n \in Nat /\ Cost(r) \in Nat /\ s \in {"ok", "partial", "failed"}
  BY OneCall DEF If
<1>4. /\ run' \in RunRecords /\ run'.creds = run.creds /\ run'.token = run.token
      /\ run'.hidden = run.hidden /\ (run'.clean <=> run.clean /\ n = 0)
      /\ run'.status = "ok" => run.status = "ok"
      /\ run'.left = run.left
  <2>1. CASE run.fork
    <3>1. run' = Noted(Cost(r), s) /\ n = Cost(r)
      BY <1>1, <2>1
    <3> HIDE DEF s, n
    <3> QED  BY <1>3, <3>1, Noting DEF SecretsInv, Typed
  <2>2. CASE ~run.fork
    BY <1>1, <2>2 DEF SecretsInv, Typed, RunRecords
  <2> QED  BY <2>1, <2>2
<1>5. faults' \in 0 .. MaxFaults /\ (faults' = 0 <=> faults = 0 /\ n = 0)
  BY <1>1, <1>3, Spending DEF SecretsInv, Typed
<1> HIDE DEF n
<1>6. FlowSync \/ UNCHANGED kestra
  BY <1>1
<1>7. /\ kestra' \in [system : SUBSET SystemFlows, seeds : BOOLEAN,
                      mine : 0 .. MaxEdits, due : 0 .. MaxEdits]
      /\ kestra'.system = kestra.system
      /\ kestra'.due <= kestra'.mine /\ kestra'.due <= kestra.due
  BY <1>2, <1>6, Pulling
<1>8. Moves(n)
  BY <1>2, <1>4, <1>5, <1>7 DEF Moves, SecretsInv, Typed, FromAwait, AtStack, Between
<1>9. Faultless' => "flow-export" \in kestra'.system /\ git'.repo
  <2>1. Faultless' => Faultless
    BY <1>3, <1>8, Moving
  <2> QED  BY <1>2, <1>7, <2>1 DEF SecretsInv, Undisturbed, Registered, Seeded
<1> QED  BY <1>2, <1>3, <1>4, <1>7, <1>8, <1>9, Flowing DEF Between

-----------------------------------------------------------------------------
\* The theorems.

\* Every step keeps the invariant.
LEMMA Keeping == SecretsInv /\ [Next]_vars => SecretsInv'
<1> SUFFICES ASSUME SecretsInv, [Next]_vars PROVE SecretsInv'
  OBVIOUS
<1>1. CASE Step
  BY <1>1, StackSyncKeeps, ComposeUpKeeps, NotReadyKeeps, LoadExistingKeeps, BootstrapAdminKeeps,
     CreateProjectKeeps, SaveTokenKeeps, SaveProjectKeeps, PushFoldersKeeps, RotateTokenKeeps,
     AwaitKestraKeeps, SkipSyncKeeps, ReadSecretsKeeps, NoResultKeeps, RestartStackKeeps,
     AwaitRestartKeeps, RegisterFlowsKeeps, TriggerOnboardingKeeps, SeedKeeps, FinalizeKeeps,
     RaiseKeeps, FinishKeeps DEF Step
<1>2. CASE StartRun \/ Rotate \/ DropDatalake \/ PinToken \/ Edit \/ FlowExport
  BY <1>2, StartRunKeeps, RotateKeeps, DropDatalakeKeeps, PinTokenKeeps, EditKeeps, FlowExportKeeps
<1>3. CASE UNCHANGED vars
  <2>1. Typed' /\ Minting' /\ Place' /\ Credentials' /\ Pushed' /\ Token' /\ Flows'
    BY <1>3 DEF vars, SecretsInv, Typed, Minting, Place, Credentials, Pushed, Token, Flows,
                Trusted, ComputeFolders
  <2>2. Synced'
    BY <1>3 DEF vars, SecretsInv, Synced, Trusted, Stack, Current
  <2>3. Undisturbed' /\ Exported'
    BY <1>3 DEF vars, SecretsInv, Undisturbed, Exported, Faultless, Registered, Seeded, StalePin
  <2> QED  BY <2>1, <2>2, <2>3 DEF SecretsInv
<1> QED  BY <1>1, <1>2, <1>3 DEF Next

\* The invariant holds in every state.
LEMMA Invariance == Spec => []SecretsInv
BY Beginning, Keeping, PTL DEF Spec

\* TypeOK, for every list of notebooks and every bound.
THEOREM TypeCorrect == Spec => []TypeOK
<1>1. SecretsInv => TypeOK
  BY Typing DEF SecretsInv
<1> QED  BY <1>1, Invariance, PTL

\* Whatever earlier runs have left, a clean run with credentials ends with every
\* stack started with what Infisical holds, and that is this generation's.
THEOREM CleanDelivers == Spec => []CleanRunDelivers
<1>1. SecretsInv => CleanRunDelivers
  BY Suffixing DEF SecretsInv, CleanRunDelivers, Place, Synced, Pushed, Trusted, Syncing, FromAwait
<1> QED  BY <1>1, Invariance, PTL

\* A run that ends ok has delivered, unless one of the faults that no status
\* shows was among those it met.
THEOREM OkDelivers == Spec => []OkMeansDelivered
<1>1. SecretsInv => OkMeansDelivered
  <2>1. SUFFICES ASSUME SecretsInv, pc = "done", run.status = "ok", ~run.hidden
                 PROVE  \A s \in Stacks : live[s] = Current
    BY DEF OkMeansDelivered
  <2>2. run.creds /\ Trusted
    BY <2>1 DEF SecretsInv, Credentials, FromPush, FromAwait, Trusted
  <2>3. run.left = <<>>
    BY <2>1, <2>2 DEF SecretsInv, Place
  <2> QED  BY <2>1, <2>2, <2>3, Suffixing DEF SecretsInv, Synced, Syncing, FromAwait
<1> QED  BY <1>1, Invariance, PTL

\* While no call goes wrong, no pull takes back an edit that was due to be in the
\* repository: Kestra can pull only with the token it exports with.
THEOREM NoLoss == Spec => NoFaultNoLoss
<1>1. SecretsInv /\ SecretsInv' /\ [Next]_vars => [Loss => faults' > 0]_vars
  <2> SUFFICES ASSUME SecretsInv, SecretsInv', [Next]_vars, faults' = 0
               PROVE  ~Loss
    <3>1. SecretsInv' => faults' \in 0 .. MaxFaults
      BY DEF SecretsInv, Typed
    <3>2. SecretsInv' => (faults' = 0 \/ faults' > 0)
      BY <3>1, SecretsAssumption
    <3> QED  BY <3>2
  <2>1. kestra.mine \in Int /\ kestra.due \in Int /\ kestra.due <= kestra.mine
    BY DEF SecretsInv, Typed, Flows
  <2>2. CASE UNCHANGED kestra
    BY <2>1, <2>2 DEF Loss
  <2>3. CASE Edit
    <3>1. kestra'.mine = kestra.mine + 1
      BY <2>3 DEF Edit, SecretsInv, Typed
    <3> QED  BY <2>1, <3>1 DEF Loss
  <2>4. CASE FlowExport
    <3>1. kestra'.mine = kestra.mine
      BY <2>4 DEF FlowExport, SecretsInv, Typed
    <3> QED  BY <2>1, <3>1 DEF Loss
  <2>5. CASE RegisterFlows
    <3>1. kestra'.mine = kestra.mine
      BY <2>5 DEF RegisterFlows, SecretsInv, Typed
    <3> QED  BY <2>1, <3>1 DEF Loss
  <2>6. CASE TriggerOnboarding
    <3>1. pc = "trigger" /\ (FlowSync \/ UNCHANGED kestra) /\ faults = 0
      BY <2>6, SecretsAssumption DEF TriggerOnboarding, Spend, Cost, SecretsInv, Typed
    <3>2. kestra'.mine >= kestra.due /\ kestra'.mine \in Int
      BY <3>1, Pulling
    <3> QED  BY <2>1, <3>2 DEF Loss
  <2>7. CASE Finalize
    <3>1. pc = "finalize" /\ (FlowSync \/ UNCHANGED kestra) /\ faults = 0
      BY <2>7, SecretsAssumption DEF Finalize, Spend, Cost, SecretsInv, Typed
    <3>2. kestra'.mine >= kestra.due /\ kestra'.mine \in Int
      BY <3>1, Pulling
    <3> QED  BY <2>1, <3>2 DEF Loss
  <2>8. \/ UNCHANGED kestra \/ Edit \/ FlowExport \/ RegisterFlows \/ TriggerOnboarding \/ Finalize
    <3>1. CASE Step
      BY <3>1 DEF Step, StackSync, ComposeUp, NotReady, LoadExisting, BootstrapAdmin, CreateProject,
         SaveToken, SaveProject, PushFolders, RotateToken, AwaitKestra, SkipSync, ReadSecrets,
         NoResult, RestartStack, AwaitRestart, Seed, Raise, Finish, stores
    <3>2. CASE ~Step
      BY <3>2 DEF Next, vars, StartRun, Rotate, DropDatalake, PinToken, stores
    <3> QED  BY <3>1, <3>2
  <2> QED  BY <2>2, <2>3, <2>4, <2>5, <2>6, <2>7, <2>8
<1> QED  BY <1>1, Invariance, PTL DEF Spec, NoFaultNoLoss
=============================================================================

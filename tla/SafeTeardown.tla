---------------------------- MODULE SafeTeardown ----------------------------
(***************************************************************************)
(* What the persistence layer promises for the file trees of the stacks    *)
(* that survive a teardown.  The world has a live copy, on the server's    *)
(* SSD, and a saved copy, the one a restore would read.  The live copy     *)
(* changes freely while there is a server.  The saved copy is replaced in  *)
(* a single step and by a whole copy, the live one unless somebody else    *)
(* works on the server meanwhile; and the server goes away only while      *)
(* there is a saved copy, which equals the live one with the same          *)
(* exception.  S3Persistence is shown to implement this specification.     *)
(***************************************************************************)
CONSTANTS
    Contents,   \* the states the file trees can be in
    Gone,       \* the live copy when there is no server
    Nothing     \* the saved copy before the first snapshot

VARIABLES
    live,
    saved,
    disturbed   \* somebody else works on the server while it is torn down

vars == <<live, saved, disturbed>>

Init ==
    /\ live = Gone
    /\ saved = Nothing
    /\ disturbed = FALSE

\* A server appears with some content, its content changes, or somebody begins
\* or ceases to work on it.
Change ==
    /\ live' \in Contents
    /\ disturbed' \in BOOLEAN
    /\ UNCHANGED saved

\* The whole live copy becomes the saved copy, at once.
Save ==
    /\ live # Gone
    /\ saved' \in Contents
    /\ disturbed \/ saved' = live
    /\ UNCHANGED <<live, disturbed>>

\* The server is destroyed: never without a saved copy, and undisturbed only
\* while the saved copy equals the live one.
Destroy ==
    /\ live # Gone
    /\ saved # Nothing
    /\ disturbed \/ saved = live
    /\ live' = Gone
    /\ disturbed' = FALSE
    /\ UNCHANGED saved

Next == Change \/ Save \/ Destroy

Spec == Init /\ [][Next]_vars

=============================================================================

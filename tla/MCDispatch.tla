----------------------------- MODULE MCDispatch -----------------------------
(***************************************************************************)
(* Instances of Dispatch for TLC.  A tick is 30 s: the skew of 60 s is one *)
(* tick here, the grace period of 90 s two, the TTL three.                 *)
(***************************************************************************)
EXTENDS Dispatch

CONSTANT t1

OneTab == {t1}

\* A constraint: behaviours are followed until every run is there and listed.
\* After that nothing can break the invariants but TypeOK: there is no further
\* spin-up, and no run that is not listed.
UntilListed ==
    Len(runs) < MaxRuns \/ \E i \in DOMAIN runs : ~runs[i].listed
=============================================================================

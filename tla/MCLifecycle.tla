---------------------------- MODULE MCLifecycle ----------------------------
(***************************************************************************)
(* Instances of Lifecycle for TLC: how the pairs are used is a matter of   *)
(* the constants, and every run has its own .cfg.                          *)
(***************************************************************************)
EXTENDS Lifecycle

\* A constraint: behaviours are followed up to the third kind of departure from
\* the documented use.  A property that is conditional on the departures needs at
\* least two of the four not to have happened.
AtMostTwoDepartures == Cardinality(strayed) <= 2
=============================================================================

--------------------------- MODULE MCDesiredState ---------------------------
(***************************************************************************)
(* Instances of DesiredState for TLC: a core service from the start and    *)
(* one that an update brings, users toggle and an update may make core;    *)
(* two spin-ups.                                                           *)
(***************************************************************************)
EXTENDS DesiredState, TLC

CONSTANTS infisical, novel, kafka, first, second

TheServices == {infisical, novel}
TheFirstServices == {infisical}
TheCore == {infisical}
TheRules == {kafka}
TheSpinUps == {first, second}
TheSymmetry == Permutations(TheSpinUps)
=============================================================================

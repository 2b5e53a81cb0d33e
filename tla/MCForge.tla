------------------------------ MODULE MCForge ------------------------------
(* Two mirrors, two seed files, two spin-ups.                              *)
EXTENDS Forge

MCMirrorList == <<"course", "examples">>
MCSeedFiles == {"readme", "flow"}
=============================================================================

-------------------------- MODULE MCS3Persistence --------------------------
(***************************************************************************)
(* Instances of S3Persistence for TLC.  Forgejo stands for the stacks with *)
(* a tree and a database, MLflow for those with only a database, which the *)
(* snapshot never stops.                                                   *)
(***************************************************************************)
EXTENDS S3Persistence

CONSTANTS forgejo, mlflow

TheDatabases == {forgejo, mlflow}
TheTrees == {forgejo}
OnlyForgejo == {forgejo}
=============================================================================

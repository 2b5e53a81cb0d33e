----------------------------- MODULE MCSecrets -----------------------------
(* Kestra and one of the notebook services, two spin-ups.                  *)
EXTENDS Secrets

MCNotebookList == <<"jupyter">>
=============================================================================

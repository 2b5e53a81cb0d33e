------------------------------ MODULE MCDeploy ------------------------------
(* One stack of each kind: a database on a named volume with a rule, the   *)
(* broker with its two firewall files, a parent with a virtual service,    *)
(* a deferred stack, and the two that read the host's files at start.      *)
EXTENDS Deploy

MCStacks == {"postgres", "redpanda", "seaweedfs", "woodpecker",
             "dify", "forgejo-runner", "wetty"}
MCParentOf == [v \in {"seaweedfs-filer"} |-> "seaweedfs"]
MCDeferred == {"woodpecker"}
MCRendered == {"postgres", "seaweedfs", "woodpecker", "dify"}
MCGuarded == {"woodpecker", "dify"}
MCDatabases == {"postgres", "dify"}
MCBinds == {"dify"}
MCRuled == {"postgres", "redpanda", "seaweedfs-filer"}
=============================================================================

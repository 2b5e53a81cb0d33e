---------------------------- MODULE MCAdminSetup ----------------------------
(* Every hook on its own with two runs at once, and one list of a shell    *)
(* hook that may fail, one that is never ready and the Python hook.        *)
EXTENDS AdminSetup

MCRunners == {1, 2}
MCOneRunner == {1}
MCHookLists == {<<h>> : h \in Hooks}
               \cup {<<"filestash", "wikijs", "uptime-kuma">>}
=============================================================================

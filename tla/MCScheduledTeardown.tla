------------------------ MODULE MCScheduledTeardown ------------------------
(***************************************************************************)
(* Instances of ScheduledTeardown for TLC.  A day of five ticks has its    *)
(* notification at 3 and its teardown at 4; at the default settings both   *)
(* crons and the configured time name the same tick.                       *)
(***************************************************************************)
EXTENDS ScheduledTeardown

CONSTANTS r1, r2

OneRequest == {r1}
TwoRequests == {r1, r2}
OnlyTheCron == {TeardownAt}
CronAndEarlier == {TeardownAt, NotifyAt}
ShortAndLong == {1, 2}
=============================================================================

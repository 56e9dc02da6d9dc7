---------------------------- MODULE MCScheduler ----------------------------
(***************************************************************************)
(* Instances of Scheduler for TLC: one series open all the time and one    *)
(* with hours that leave out its first and last slots.                     *)
(***************************************************************************)
EXTENDS Scheduler

CONSTANTS always, hours

MCSeries == {always, hours}
MCEvery == [s \in MCSeries |-> IF s = always THEN 4 ELSE 5]
MCRunsAt(s, t) == s = always \/ t \in 4 .. 8
MCClockSteps == {-5, -1, 3, 6}

============================================================================

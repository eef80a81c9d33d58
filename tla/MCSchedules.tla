---------------------------- MODULE MCSchedules ----------------------------
(* Schedules for TLC: cron expressions as sets of instants, which reach    *)
(* beyond the horizon of the clock.                                        *)
EXTENDS Schedules

\* Two expressions: every other second, and one that falls out of step with it.
Expressions == {{1, 3, 5}, {2, 5}}
=============================================================================

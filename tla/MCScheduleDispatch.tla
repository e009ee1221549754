------------------------ MODULE MCScheduleDispatch -------------------------
(* ScheduleDispatch for TLC.                                               *)
EXTENDS ScheduleDispatch, TLC

\* Schedule 1 goes on beyond the last time of the clock, schedule 2 has an
\* expression that names one year and runs out.
Crontab == (1 :> {1, 2, 4}) @@ (2 :> {1})
=============================================================================

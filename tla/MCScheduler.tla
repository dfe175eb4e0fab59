---------------------------- MODULE MCScheduler ----------------------------
(* Four tasks, so that two sleepers can expire on the same tick behind a   *)
(* third one that has not, while a fourth keeps the ready queue alive.     *)
EXTENDS Scheduler

MCSleepArgs == {1, 3}
MCShellArgs == {2}
=============================================================================

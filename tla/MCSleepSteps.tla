---------------------------- MODULE MCSleepSteps ----------------------------
(* Three tasks are the fewest with a ready list that has a middle.  The    *)
(* longest sleep wraps from tick 1 on, there to 0, later to a deadline     *)
(* that has passed.  Behaviours in which sleep() has been interrupted are  *)
(* followed for a shorter time than the others.                            *)
EXTENDS SleepSteps

MCSleepArgs == {1, 2, TickMod - 1}

Bounded == (hit \/ wrapped = "to zero") => tick <= 3
=============================================================================

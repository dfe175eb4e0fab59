---------------------------- MODULE TaskingTest ----------------------------
(***************************************************************************)
(* do_tasking_test of kernel/kernel.c on top of the scheduler.  The boot   *)
(* task forks twice and then sleeps and prints in a loop, its second child *)
(* does the same with a shorter period, and its first child enters user    *)
(* mode and spins.                                                         *)
(*                                                                         *)
(* A sleep() of a loop is one step here.  In the code it can be preempted  *)
(* when it is called with interrupts on, as the first sleep() of each loop *)
(* always is and a later one, after a tick resumed the task, seldom.  A    *)
(* tick inside it is the step CutSleep, with which this module stops;      *)
(* SleepSteps follows sleep() statement by statement and shows that such a *)
(* tick can lose the task.                                                 *)
(***************************************************************************)
EXTENDS Scheduler

CONSTANTS ParentPeriod, ChildPeriod   \* 50 and 10 ticks in the code

ASSUME PeriodAssumption ==
    /\ MaxTasks >= 3
    /\ {ParentPeriod, ChildPeriod} \subseteq SleepArgs

VARIABLES
    at,    \* the next statement of every task
    cut    \* a tick has fallen inside an unmasked sleep()

tvars == <<vars, at, cut>>

Statement == {"unborn", "boot", "fork1", "fork2", "usermode", "spin", "sleep",
              "print"}

Period(t) == IF t = 1 THEN ParentPeriod ELSE ChildPeriod

TInit ==
    /\ Init
    /\ at = [t \in Task |-> IF t = 1 THEN "boot" ELSE "unborn"]
    /\ cut = FALSE

(* No tick has cut a sleep() short so far, and none does in this step.     *)
Uncut == ~cut /\ UNCHANGED cut

-----------------------------------------------------------------------------
(* A user mode entry that leaves the interrupt flag clear, and a loop that *)
(* only prints: slips for the mutation checks.                             *)
UserModeMasked ==
    /\ cur = 2 /\ at[2] = "usermode" /\ Uncut
    /\ iflag' = FALSE
    /\ at' = [at EXCEPT ![2] = "spin"]
    /\ UNCHANGED <<ready, sleepq, cur, nextPid, left, ctx>>

FirstChildSleeps ==
    /\ cur = 1 /\ at[1] = "fork1" /\ Uncut
    /\ Fork
    /\ at' = [at EXCEPT ![1] = "fork2", ![nextPid] = "sleep"]

-----------------------------------------------------------------------------
(* main() up to its call of do_tasking_test.                               *)
BootTasking ==
    /\ at[1] = "boot" /\ Uncut
    /\ InitialiseTasking
    /\ at' = [at EXCEPT ![1] = "fork1"]

(* The first fork(): the child runs do_user_mode.                          *)
FirstFork ==
    /\ cur = 1 /\ at[1] = "fork1" /\ Uncut
    /\ Fork
    /\ at' = [at EXCEPT ![1] = "fork2", ![nextPid] = "usermode"]

(* The second fork(): parent and child enter their sleep loops.            *)
SecondFork ==
    /\ cur = 1 /\ at[1] = "fork2" /\ Uncut
    /\ Fork
    /\ at' = [at EXCEPT ![1] = "sleep", ![nextPid] = "sleep"]

(***************************************************************************)
(* switch_to_user_mode: the code ORs 0x200 into the flags that its iret    *)
(* pops, so user mode runs with interrupts on, on the kernel stack that    *)
(* set_kernel_stack gives the TSS.  The comment at kernel.c:57 says that   *)
(* "in user mode irq's not working"; if that were so, the spinning child   *)
(* would keep the processor from its first time slice in user mode on,     *)
(* which is the slip UserModeMasked above.                                 *)
(***************************************************************************)
EnterUserMode ==
    /\ cur = 2 /\ at[2] = "usermode" /\ Uncut
    /\ iflag' = TRUE
    /\ at' = [at EXCEPT ![2] = "spin"]
    /\ UNCHANGED <<ready, sleepq, cur, nextPid, left, ctx>>

(* One turn of a loop: sleep(), here without a tick inside it, and once it *)
(* returns, printf().                                                      *)
LoopSleep(t) ==
    /\ cur = t /\ at[t] = "sleep" /\ Uncut
    /\ Sleep(Period(t))
    /\ at' = [at EXCEPT ![t] = "print"]

(***************************************************************************)
(* The tick falls inside a sleep() that is called with interrupts on and   *)
(* does not refuse.  What becomes of the task is left to SleepSteps.       *)
(***************************************************************************)
CutSleep(t) ==
    /\ cur = t /\ at[t] = "sleep"
    /\ iflag /\ Len(ready) > 1
    /\ cut' = TRUE
    /\ UNCHANGED <<vars, at>>

LoopPrint(t) ==
    /\ cur = t /\ at[t] = "print" /\ Uncut
    /\ at' = [at EXCEPT ![t] = "sleep"]
    /\ UNCHANGED vars

TaskStep(t) ==
    \/ t = 1 /\ (FirstFork \/ SecondFork)
    \/ t = 2 /\ EnterUserMode
    \/ LoopSleep(t)
    \/ LoopPrint(t)

(* The timer interrupts the running task between two of its statements.    *)
TTimer == TimerCallback /\ UNCHANGED at /\ Uncut

TNext ==
    \/ BootTasking
    \/ \E t \in Task : TaskStep(t)
    \/ TTimer
    \/ \E t \in Task : CutSleep(t)

(***************************************************************************)
(* Fairness: the periodic timer, and strong fairness of every task: one    *)
(* time slice of the 50 Hz timer is long enough for the next statement of  *)
(* the task it is given to, so a task that is dispatched over and over     *)
(* executes its next statement.  Nothing obliges a tick to fall inside a   *)
(* sleep(), and nothing keeps it from doing so.                            *)
(***************************************************************************)
TFairness ==
    /\ WF_tvars(BootTasking)
    /\ WF_tvars(TTimer)
    /\ \A t \in Task : SF_tvars(TaskStep(t))

TSafety == TInit /\ [][TNext]_tvars

TSpec == TSafety /\ TFairness

-----------------------------------------------------------------------------
(***************************************************************************)
(* The program keeps the scheduler's contract: what it does is allowed by  *)
(* Scheduler, and unless a tick falls inside an unmasked sleep(), a task   *)
(* that runs masked does sleep again, which is the assumption              *)
(* EveryTaskRuns rests on there.                                           *)
(***************************************************************************)
KeepsSchedulerContract == Spec /\ ([]~cut => Fairness)

(***************************************************************************)
(* In a run in which no tick falls inside an unmasked sleep(), both loops  *)
(* print for ever: every sleep() of the test returns, whatever the order   *)
(* of ticks, wake-ups and masked time slices.  NoTaskLost of SleepSteps    *)
(* shows that the condition cannot be dropped: the first sleep() of a loop *)
(* is unmasked, and a tick inside it can lose the task.                    *)
(***************************************************************************)
BothLoopsPrint == []~cut =>
    \A t \in {1, 3} : []<>(at[t] = "print" /\ cur = t)

(* sleep() never refuses a loop: the spinning process keeps the ready      *)
(* queue non-empty, so no turn prints without having slept.                *)
NeverRefused ==
    \A t \in {1, 3} : cur = t /\ at[t] = "sleep" => Len(ready) > 1
=============================================================================

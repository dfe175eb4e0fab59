----------------------------- MODULE Scheduler -----------------------------
(***************************************************************************)
(* The round-robin scheduler of cpu/task.c and the sleep queue of          *)
(* cpu/timer.c, at the granularity of whole kernel operations: a timer     *)
(* interrupt is taken between two operations and never inside one.         *)
(* SleepSteps.tla drops that restriction and shows what it hides.          *)
(*                                                                         *)
(* The two singly linked lists are sequences of process ids.  end_of_sleep *)
(* is kept relative to the tick counter (left[t] = end_of_sleep - tick),   *)
(* which is all that the comparison in timer_callback looks at.  A saved   *)
(* register context is abstracted to the place it resumes at:              *)
(*   "irq"    inside an interrupt handler, which ends in sti; iret         *)
(*   "call"   inside sleep(), called with the interrupt flag of its caller *)
(*   "child"  inside fork(), whose child branch executes sti               *)
(*   "none"   no context has been saved yet                                *)
(***************************************************************************)
EXTENDS Integers, Sequences, SequencesExt

CONSTANTS
    MaxTasks,    \* a bound on the processes fork() creates
    SleepArgs,   \* the arguments tasks pass to sleep()
    ShellArgs    \* the arguments of the sleep(n) lines typed at the shell

ASSUME MaxTasksAssumption == MaxTasks \in Nat \ {0}
ASSUME SleepArgsAssumption == SleepArgs \subseteq Nat \ {0}
ASSUME ShellArgsAssumption == ShellArgs \subseteq Nat \ {0}

VARIABLES
    ready,     \* ready_queue and its next links
    sleepq,    \* sleep_queue and its next links
    cur,       \* current_task, NoTask before initialise_tasking
    nextPid,   \* next_pid
    left,      \* end_of_sleep - tick of a sleeping task, 0 for the others
    ctx,       \* where the saved eip/esp/ebp of a task resume it
    iflag      \* the interrupt flag of the processor

vars == <<ready, sleepq, cur, nextPid, left, ctx, iflag>>

NoTask == 0
Task == 1..MaxTasks
Context == {"none", "irq", "call", "child"}

In(t, q) == \E i \in DOMAIN q : q[i] = t

Init ==
    /\ ready = <<>>
    /\ sleepq = <<>>
    /\ cur = NoTask
    /\ nextPid = 1
    /\ left = [t \in Task |-> 0]
    /\ ctx = [t \in Task |-> "none"]
    /\ iflag = TRUE

-----------------------------------------------------------------------------
(* Plausible bugs of the code, for the mutation checks of the README.      *)

NoWrapSuccessor(q, k) == q[1]

UnlinkForgotten(q, k) == q

LastExpired(i) ==
    /\ left[sleepq[i]] <= 0
    /\ \A j \in (i + 1)..Len(sleepq) : left[sleepq[j]] > 0

ForkWithoutSti ==
    /\ cur # NoTask
    /\ nextPid <= MaxTasks
    /\ ready' = Append(ready, nextPid)
    /\ ctx' = [ctx EXCEPT ![nextPid] = "child"]
    /\ nextPid' = nextPid + 1
    /\ iflag' = FALSE
    /\ UNCHANGED <<sleepq, cur, left>>

ForkWithoutContext ==
    /\ cur # NoTask
    /\ nextPid <= MaxTasks
    /\ ready' = Append(ready, nextPid)
    /\ nextPid' = nextPid + 1
    /\ iflag' = TRUE
    /\ UNCHANGED <<sleepq, cur, left, ctx>>

PidNotTaken ==
    /\ cur = NoTask
    /\ ready' = <<nextPid>>
    /\ cur' = nextPid
    /\ UNCHANGED <<sleepq, nextPid, left, ctx, iflag>>

-----------------------------------------------------------------------------
(* cli ... sti around the creation of the first task, the running code.    *)
InitialiseTasking ==
    /\ cur = NoTask
    /\ ready' = <<nextPid>>
    /\ cur' = nextPid
    /\ nextPid' = nextPid + 1
    /\ iflag' = TRUE
    /\ UNCHANGED <<sleepq, left, ctx>>

(* The task after position k; past the end the list starts again.          *)
Successor(q, k) == IF k < Len(q) THEN q[k + 1] ELSE q[1]

(* The list without the task at position k.                                *)
Unlink(q, k) == RemoveAt(q, k)

(***************************************************************************)
(* The end of switch_task: jump to the saved context of u.  The jump does  *)
(* not touch the interrupt flag: a task resumed in an interrupt handler or *)
(* in fork() enables interrupts itself, one resumed in sleep() goes on     *)
(* with the flag that the code switching to it had.                        *)
(***************************************************************************)
Resume(u, flag) ==
    /\ cur' = u
    /\ iflag' = (flag \/ ctx[u] # "call")

(* fork() between its cli and its sti: the child joins the ready queue.    *)
Fork ==
    /\ cur # NoTask
    /\ nextPid <= MaxTasks
    /\ ready' = Append(ready, nextPid)
    /\ ctx' = [ctx EXCEPT ![nextPid] = "child"]
    /\ nextPid' = nextPid + 1
    /\ iflag' = TRUE
    /\ UNCHANGED <<sleepq, cur, left>>

(***************************************************************************)
(* sleep(n) past its guard: the current task goes to the end of the sleep  *)
(* queue and switch_task unlinks it from the ready queue and resumes its   *)
(* successor there.                                                        *)
(***************************************************************************)
Suspend(n, kind, flag) ==
    /\ Len(ready) > 1
    /\ \E k \in DOMAIN ready :
          /\ ready[k] = cur
          /\ ready' = Unlink(ready, k)
          /\ sleepq' = Append(sleepq, cur)
          /\ left' = [left EXCEPT ![cur] = n]
          /\ ctx' = [ctx EXCEPT ![cur] = kind]
          /\ Resume(Successor(ready, k), flag)
    /\ UNCHANGED nextPid

(* The guard of sleep(): the only ready task gets a message and goes on.   *)
RefuseSleep ==
    /\ Len(ready) = 1
    /\ UNCHANGED vars

Sleep(n) ==
    /\ cur # NoTask
    /\ Suspend(n, "call", iflag) \/ RefuseSleep

(***************************************************************************)
(* sleep(n) typed at the shell runs inside the keyboard interrupt of the   *)
(* current task: interrupts are masked, and the saved context is one that  *)
(* will leave through the sti; iret of the interrupt stub.                 *)
(***************************************************************************)
ShellSleep(n) ==
    /\ cur # NoTask
    /\ iflag
    /\ Suspend(n, "irq", FALSE) \/ RefuseSleep

(* switch_task called by timer_callback, with q as the ready queue.        *)
SwitchFromTimer(q) ==
    /\ ready' = q
    /\ \/ /\ Len(q) = 1
          /\ UNCHANGED <<cur, ctx, iflag>>
       \/ /\ Len(q) > 1
          /\ ctx' = [ctx EXCEPT ![cur] = "irq"]
          /\ \E k \in DOMAIN q : q[k] = cur /\ Resume(Successor(q, k), FALSE)

(* The i-th sleeper is the first one that the new tick finds expired.      *)
FirstExpired(i) ==
    /\ left[sleepq[i]] <= 0
    /\ \A j \in 1..(i - 1) : left[sleepq[j]] > 0

(* The tick moves every deadline of the queue q one closer.                *)
Age(q) == left' = [t \in Task |-> IF In(t, q) THEN left[t] - 1 ELSE 0]

(* A plausible bug: the tick switches tasks before it wakes the sleeper.   *)
SwitchBeforeWake ==
    \E i \in DOMAIN sleepq :
       /\ FirstExpired(i)
       /\ sleepq' = Unlink(sleepq, i)
       /\ ready' = Append(ready, sleepq[i])
       /\ \/ /\ Len(ready) = 1
             /\ UNCHANGED <<cur, ctx, iflag>>
          \/ /\ Len(ready) > 1
             /\ ctx' = [ctx EXCEPT ![cur] = "irq"]
             /\ \E k \in DOMAIN ready :
                   ready[k] = cur /\ Resume(Successor(ready, k), FALSE)
       /\ Age(sleepq')

(***************************************************************************)
(* timer_callback.  The walk over the sleep queue ends with the first task *)
(* it wakes, because that task's next link is cleared on the way: at most  *)
(* one task is woken per tick.                                             *)
(***************************************************************************)
TickWake ==
    \E i \in DOMAIN sleepq :
       /\ FirstExpired(i)
       /\ sleepq' = Unlink(sleepq, i)
       /\ SwitchFromTimer(Append(ready, sleepq[i]))
       /\ Age(sleepq')

TickNoWake ==
    /\ \A i \in DOMAIN sleepq : left[sleepq[i]] > 0
    /\ SwitchFromTimer(ready)
    /\ Age(sleepq)
    /\ UNCHANGED sleepq

TimerCallback ==
    /\ iflag
    /\ nextPid # 1
    /\ TickWake \/ TickNoWake
    /\ UNCHANGED nextPid

Next ==
    \/ InitialiseTasking
    \/ Fork
    \/ \E n \in SleepArgs : Sleep(n)
    \/ \E n \in ShellArgs : ShellSleep(n)
    \/ TimerCallback

(***************************************************************************)
(* Fairness: the timer is periodic, so an unmasked tick is delivered; and  *)
(* a task that runs masked calls sleep() again, as both loops of           *)
(* do_tasking_test do.                                                     *)
(***************************************************************************)
MaskedTaskSleeps == ~iflag /\ \E n \in SleepArgs : Sleep(n)

Fairness ==
    /\ WF_vars(InitialiseTasking)
    /\ WF_vars(TimerCallback)
    /\ WF_vars(MaskedTaskSleeps)

Spec == Init /\ [][Next]_vars

FairSpec == Spec /\ Fairness

-----------------------------------------------------------------------------
(* The state of task.c and timer.c: process ids are handed out in order,   *)
(* and once tasking is on there is a current task among them.              *)
TypeOK ==
    /\ ready \in Seq(Task)
    /\ sleepq \in Seq(Task)
    /\ nextPid \in 1..(MaxTasks + 1)
    /\ cur \in 0..(nextPid - 1)
    /\ left \in [Task -> Int]
    /\ ctx \in [Task -> Context]
    /\ iflag \in BOOLEAN

Injective(q) == \A i, j \in DOMAIN q : q[i] = q[j] => i = j

(***************************************************************************)
(* Every process fork() ever created is on exactly one of the two queues,  *)
(* exactly once, and the running one is on the ready queue: the moves      *)
(* between the lists in sleep(), switch_task and timer_callback lose and   *)
(* duplicate nobody.                                                       *)
(***************************************************************************)
QueuesPartition ==
    /\ Injective(ready)
    /\ Injective(sleepq)
    /\ \A i \in DOMAIN ready, j \in DOMAIN sleepq : ready[i] # sleepq[j]
    /\ \A t \in Task : t < nextPid <=> In(t, ready) \/ In(t, sleepq)
    /\ Len(ready) + Len(sleepq) = nextPid - 1
    /\ nextPid > 1 => In(cur, ready)

(***************************************************************************)
(* Whatever switch_task may jump to next has a saved context, and a        *)
(* sleeper's context is one that was saved inside sleep().                 *)
(***************************************************************************)
Resumable ==
    /\ \A t \in Task : In(t, ready) /\ t # cur => ctx[t] # "none"
    /\ \A t \in Task : In(t, sleepq) => ctx[t] \in {"call", "irq"}

(***************************************************************************)
(* A task that goes on in sleep() after a tick switched to it runs with    *)
(* interrupts off.  Then some other ready task is suspended inside an      *)
(* interrupt, so sleep() cannot refuse the masked task for being the last  *)
(* ready one, and the flag comes back when that other task runs: no order  *)
(* of ticks, sleeps, forks and shell commands hangs the machine masked.    *)
(***************************************************************************)
NoMaskedDeadEnd ==
    ~iflag => \E t \in Task : t # cur /\ In(t, ready) /\ ctx[t] = "irq"

(* Going round the ready list from position p one meets c before x.        *)
RoundRobinOrder(p, c, x) ==
    \/ p < c /\ c < x
    \/ c < x /\ x < p
    \/ x < p /\ p < c

(***************************************************************************)
(* Why NoMaskedDeadEnd holds: a task that waits in the ready queue to go   *)
(* on in sleep() was woken by a tick that suspended the task then running, *)
(* and round robin reaches the woken task before the suspended one.        *)
(***************************************************************************)
WokenBeforeSuspended ==
    \A p, c \in DOMAIN ready :
       ready[p] = cur /\ c # p /\ ctx[ready[c]] = "call" =>
          \E x \in DOMAIN ready :
             ctx[ready[x]] = "irq" /\ RoundRobinOrder(p, c, x)

(***************************************************************************)
(* One wake-up per tick still keeps deadlines: the sleeper at position i   *)
(* of the queue is at most MaxTasks - 1 - i ticks overdue, because every   *)
(* tick that passes over an expired task wakes one queued before it.       *)
(***************************************************************************)
Punctual ==
    \A i \in DOMAIN sleepq : i - left[sleepq[i]] <= MaxTasks - 1

(***************************************************************************)
(* Nobody starves: every process, asleep or ready, is switched to again    *)
(* and again by timer_callback and sleep().                                *)
(***************************************************************************)
EveryTaskRuns == \A t \in Task : [](t < nextPid => <>(cur = t))
=============================================================================

---------------------------- MODULE TaskingProofs ----------------------------
(***************************************************************************)
(* Proofs about TaskingTest: what do_tasking_test does is allowed by the   *)
(* scheduler, and its loops always get the sleep they ask for.             *)
(***************************************************************************)
EXTENDS TaskingTest, SchedulerProofs

-----------------------------------------------------------------------------
(***************************************************************************)
(* Where the three processes are in the program follows from the number of *)
(* processes made so far.                                                  *)
(***************************************************************************)
ProgramInv ==
    /\ at \in [Task -> Statement]
    /\ \/ nextPid = 1 /\ at[1] = "boot"
       \/ nextPid = 2 /\ at[1] = "fork1"
       \/ nextPid = 3 /\ at[1] = "fork2"
       \/ nextPid = 4 /\ at[1] \in {"sleep", "print"}
    /\ at[2] \in IF nextPid <= 2 THEN {"unborn"} ELSE {"usermode", "spin"}
    /\ at[3] \in IF nextPid <= 3 THEN {"unborn"} ELSE {"sleep", "print"}
    /\ \A t \in Task : t > 3 => at[t] = "unborn"

(***************************************************************************)
(* The first child never sleeps: it stays on the ready queue, is resumed   *)
(* in fork() or in an interrupt, and so always runs with interrupts on,    *)
(* before it enters user mode too.                                         *)
(***************************************************************************)
SpinnerInv ==
    /\ ~In(2, sleepq)
    /\ nextPid > 2 => ctx[2] \in {"child", "irq"}
    /\ cur = 2 => iflag = TRUE

TestInv == QueueInv /\ ProgramInv /\ SpinnerInv

(* There are at least three tasks.                                         *)
LEMMA TestTasks ==
    /\ MaxTasks \in Nat /\ 1 \in Task /\ 2 \in Task /\ 3 \in Task
    /\ \A t \in Task : Period(t) \in SleepArgs
<1>1. MaxTasks \in Nat /\ MaxTasks >= 3
  BY MaxTasksAssumption, PeriodAssumption
<1> QED
  BY <1>1, PeriodAssumption DEF Task, Period

(* Before initialise_tasking.                                              *)
LEMMA TestInvInit == TInit => TestInv
<1> SUFFICES ASSUME TInit PROVE TestInv
  OBVIOUS
<1>1. QueueInv
  BY QueueInvInit DEF TInit
<1>2. ProgramInv
  BY TestTasks DEF TInit, Init, ProgramInv, Statement
<1>3. SpinnerInv
  BY DEF TInit, Init, SpinnerInv, In, NoTask
<1> QED
  BY <1>1, <1>2, <1>3 DEF TestInv

(***************************************************************************)
(* A step of the program is a step of the scheduler: entering user mode    *)
(* finds the interrupt flag set already.                                   *)
(***************************************************************************)
LEMMA TestStepAllowed == TestInv /\ [TNext]_tvars => [Next]_vars
<1> SUFFICES ASSUME TestInv, [TNext]_tvars PROVE [Next]_vars
  OBVIOUS
<1>1. CASE UNCHANGED tvars
  BY <1>1 DEF tvars
<1>2. CASE BootTasking \/ FirstFork \/ SecondFork \/ TTimer
  BY <1>2 DEF BootTasking, FirstFork, SecondFork, TTimer, Next
<1>3. CASE EnterUserMode
  <2>1. iflag' = TRUE /\ cur = 2 /\ UNCHANGED <<ready, sleepq, cur, nextPid, left, ctx>>
    BY <1>3 DEF EnterUserMode
  <2>2. iflag = TRUE
    BY <2>1 DEF TestInv, SpinnerInv
  <2> QED
    BY <2>1, <2>2 DEF vars
<1>4. ASSUME NEW t \in Task, LoopSleep(t) \/ LoopPrint(t) PROVE [Next]_vars
  <2>1. Period(t) \in SleepArgs
    BY TestTasks
  <2> QED
    BY <1>4, <2>1 DEF LoopSleep, LoopPrint, Next
<1>5. ASSUME NEW t \in Task, CutSleep(t) PROVE [Next]_vars
  BY <1>5 DEF CutSleep
<1> QED
  BY <1>1, <1>2, <1>3, <1>4, <1>5 DEF TNext, TaskStep

(* The program counters go round their loops.                              *)
LEMMA ProgramStep == TestInv /\ [TNext]_tvars => ProgramInv'
<1> SUFFICES ASSUME TestInv, [TNext]_tvars PROVE ProgramInv'
  OBVIOUS
<1>t. /\ 1 \in Task /\ 2 \in Task /\ 3 \in Task /\ \A t \in Task : t \in Nat
      /\ ProgramInv /\ at \in [Task -> Statement] /\ nextPid \in Nat
  BY TestTasks DEF TestInv, ProgramInv, QueueInv, TypeOK, Task
<1>1. CASE UNCHANGED tvars
  BY <1>1, <1>t DEF tvars, vars, ProgramInv
<1>2. CASE BootTasking
  <2>1. at[1] = "boot" /\ nextPid' = nextPid + 1 /\ at' = [at EXCEPT ![1] = "fork1"]
    BY <1>2 DEF BootTasking, InitialiseTasking
  <2> QED
    BY <1>t, <2>1 DEF ProgramInv, Statement
<1>3. CASE FirstFork
  <2>1. at[1] = "fork1" /\ nextPid' = nextPid + 1
        /\ at' = [at EXCEPT ![1] = "fork2", ![nextPid] = "usermode"]
    BY <1>3 DEF FirstFork, Fork
  <2>2. nextPid = 2
    BY <1>t, <2>1 DEF ProgramInv
  <2> QED
    BY <1>t, <2>1, <2>2 DEF ProgramInv, Statement
<1>4. CASE SecondFork
  <2>1. at[1] = "fork2" /\ nextPid' = nextPid + 1
        /\ at' = [at EXCEPT ![1] = "sleep", ![nextPid] = "sleep"]
    BY <1>4 DEF SecondFork, Fork
  <2>2. nextPid = 3
    BY <1>t, <2>1 DEF ProgramInv
  <2> QED
    BY <1>t, <2>1, <2>2 DEF ProgramInv, Statement
<1>5. CASE EnterUserMode
  <2>1. at[2] = "usermode" /\ nextPid' = nextPid /\ at' = [at EXCEPT ![2] = "spin"]
    BY <1>5 DEF EnterUserMode
  <2> QED
    BY <1>t, <2>1 DEF ProgramInv, Statement
<1>6. ASSUME NEW t \in Task, LoopSleep(t) \/ LoopPrint(t) PROVE ProgramInv'
  <2>1. PICK s \in {"sleep", "print"} : at' = [at EXCEPT ![t] = s]
    BY <1>6 DEF LoopSleep, LoopPrint
  <2>2. at[t] \in {"sleep", "print"} /\ nextPid' = nextPid
    BY <1>6 DEF LoopSleep, LoopPrint, Sleep, Suspend, RefuseSleep, vars
  <2>3. t \in {1, 3} /\ nextPid > 3
    BY <1>t, <2>2 DEF ProgramInv, Task
  <2> QED
    BY <1>t, <2>1, <2>2, <2>3 DEF ProgramInv, Statement
<1>7. CASE TTimer
  BY <1>7, <1>t DEF TTimer, TimerCallback, ProgramInv
<1>8. ASSUME NEW t \in Task, CutSleep(t) PROVE ProgramInv'
  BY <1>8, <1>t DEF CutSleep, vars, ProgramInv
<1> QED
  BY <1>1, <1>2, <1>3, <1>4, <1>5, <1>6, <1>7, <1>8 DEF TNext, TaskStep

(* No step puts the first child to sleep or switches to it masked.         *)
LEMMA SpinnerStep == TestInv /\ [TNext]_tvars => SpinnerInv'
<1> SUFFICES ASSUME TestInv, [TNext]_tvars PROVE SpinnerInv'
  OBVIOUS
<1>t. /\ 1 \in Task /\ 2 \in Task /\ 3 \in Task /\ nextPid \in Nat \ {0}
      /\ ready \in Seq(Task) /\ sleepq \in Seq(Task) /\ ctx \in [Task -> Context]
      /\ ProgramInv /\ SpinnerInv /\ QueueInv
      /\ Injective(ready) /\ Injective(sleepq)
      /\ \A i \in DOMAIN ready, j \in DOMAIN sleepq : ready[i] # sleepq[j]
      /\ nextPid > 1 => In(cur, ready)
  BY TestTasks DEF TestInv, QueueInv, TypeOK, QueuesPartition, Task
<1>2. \A t \in Task : t < nextPid <=> In(t, ready) \/ In(t, sleepq)
  BY <1>t DEF QueueInv, QueuesPartition
<1>r. ASSUME NEW u, NEW flag \in BOOLEAN, Resume(u, flag), u = 2 => ctx[2] # "call"
      PROVE  cur' = 2 => iflag' = TRUE
  BY <1>r DEF Resume
<1>u. CASE UNCHANGED vars
  BY <1>u, <1>t DEF vars, SpinnerInv, In
<1>b. CASE BootTasking
  <2>1. nextPid = 1 /\ nextPid' = 2 /\ cur' = 1 /\ sleepq' = sleepq
    BY <1>b, <1>t DEF BootTasking, InitialiseTasking, ProgramInv
  <2> QED
    BY <1>t, <2>1 DEF SpinnerInv, In
<1>f. CASE FirstFork \/ SecondFork
  <2>1. /\ Fork /\ cur = 1 /\ nextPid \in {2, 3}
    BY <1>f, <1>t DEF FirstFork, SecondFork, ProgramInv
  <2>2. /\ cur' = 1 /\ sleepq' = sleepq /\ nextPid' = nextPid + 1
        /\ ctx' = [ctx EXCEPT ![nextPid] = "child"]
    BY <2>1 DEF Fork
  <2>3. ctx'[2] \in {"child", "irq"}
    BY <1>t, <2>1, <2>2 DEF SpinnerInv
  <2> QED
    BY <1>t, <2>2, <2>3 DEF SpinnerInv, In
<1>e. CASE EnterUserMode
  BY <1>e, <1>t DEF EnterUserMode, SpinnerInv, In
<1>s. ASSUME NEW t \in Task, LoopSleep(t) PROVE SpinnerInv'
  <2>0. cur = t /\ at[t] = "sleep" /\ Sleep(Period(t))
    BY <1>s DEF LoopSleep
  <2>1. cur # 2
    BY <1>t, <2>0 DEF ProgramInv
  <2>2. CASE Suspend(Period(t), "call", iflag)
    <3>1. PICK k \in DOMAIN ready :
             /\ ready[k] = cur
             /\ sleepq' = Append(sleepq, cur)
             /\ ctx' = [ctx EXCEPT ![cur] = "call"]
             /\ Resume(Successor(ready, k), iflag)
      BY <2>2 DEF Suspend
    <3>2. nextPid' = nextPid /\ Len(ready) > 1 /\ cur \in Task
      BY <2>0, <2>2 DEF Suspend
    <3>3. ~In(2, sleepq')
      <4>1. \A u : In(u, Append(sleepq, ready[k])) <=> In(u, sleepq) \/ u = ready[k]
        BY <1>t, MoveFacts
      <4> QED
        BY <1>t, <2>1, <3>1, <4>1 DEF SpinnerInv
    <3>4. nextPid > 2 => ctx'[2] \in {"child", "irq"}
      BY <1>t, <2>1, <3>1, <3>2 DEF SpinnerInv
    <3>5. Successor(ready, k) = 2 => ctx[2] # "call"
      <4>1. In(Successor(ready, k), ready)
        BY <1>t, <3>2, SuccessorFacts
      <4>2. Successor(ready, k) = 2 => nextPid > 2
        BY <1>2, <1>t, <4>1
      <4> QED
        BY <1>t, <4>2 DEF SpinnerInv
    <3>6. iflag \in BOOLEAN
      BY <1>t DEF QueueInv, TypeOK
    <3>7. cur' = 2 => iflag' = TRUE
      BY <1>r, <3>1, <3>5, <3>6
    <3> QED
      BY <3>2, <3>3, <3>4, <3>7 DEF SpinnerInv
  <2>3. CASE RefuseSleep
    BY <1>u, <2>3 DEF RefuseSleep
  <2> QED
    BY <2>0, <2>2, <2>3 DEF Sleep
<1>p. ASSUME NEW t \in Task, LoopPrint(t) PROVE SpinnerInv'
  BY <1>p, <1>u DEF LoopPrint
<1>k. ASSUME NEW t \in Task, CutSleep(t) PROVE SpinnerInv'
  BY <1>k, <1>u DEF CutSleep
<1>c. CASE TTimer
  <2>1. TimerCallback /\ nextPid' = nextPid /\ nextPid > 1
    BY <1>c, <1>t DEF TTimer, TimerCallback
  <2>2. ASSUME NEW q \in Seq(Task), Injective(q), SwitchFromTimer(q),
               In(2, q) => nextPid > 2
        PROVE  /\ nextPid' > 2 => ctx'[2] \in {"child", "irq"}
               /\ cur' = 2 => iflag' = TRUE
    <3>1. CASE UNCHANGED <<cur, ctx, iflag>>
      BY <1>t, <2>1, <3>1 DEF SpinnerInv
    <3>2. CASE /\ Len(q) > 1
               /\ ctx' = [ctx EXCEPT ![cur] = "irq"]
               /\ \E k \in DOMAIN q : q[k] = cur /\ Resume(Successor(q, k), FALSE)
      <4>1. PICK k \in DOMAIN q : q[k] = cur /\ Resume(Successor(q, k), FALSE)
        BY <3>2
      <4>2. In(Successor(q, k), q)
        BY <2>2, <3>2, SuccessorFacts
      <4>3. Successor(q, k) = 2 => ctx[2] # "call"
        BY <1>t, <2>2, <4>2 DEF SpinnerInv
      <4>4. cur' = 2 => iflag' = TRUE
        BY <1>r, <4>1, <4>3
      <4>5. nextPid' > 2 => ctx'[2] \in {"child", "irq"}
        BY <1>t, <2>1, <3>2 DEF SpinnerInv
      <4> QED
        BY <4>4, <4>5
    <3> QED
      BY <2>2, <3>1, <3>2 DEF SwitchFromTimer
  <2>3. CASE TickWake
    <3>1. PICK i \in DOMAIN sleepq :
             sleepq' = Unlink(sleepq, i) /\ SwitchFromTimer(Append(ready, sleepq[i]))
      BY <2>3 DEF TickWake
    <3>2. /\ \A u : In(u, sleepq') => In(u, sleepq)
          /\ \A u : In(u, Append(ready, sleepq[i])) <=> In(u, ready) \/ u = sleepq[i]
          /\ Injective(Append(ready, sleepq[i]))
      BY <1>t, <3>1, MoveFacts
    <3>3. sleepq[i] \in Task /\ In(sleepq[i], sleepq)
      BY <1>t DEF In
    <3>4. In(2, Append(ready, sleepq[i])) => nextPid > 2
      BY <1>2, <1>t, <3>2, <3>3
    <3>5. Append(ready, sleepq[i]) \in Seq(Task)
      BY <1>t, <3>3
    <3> QED
      BY <1>t, <2>2, <3>1, <3>2, <3>4, <3>5 DEF SpinnerInv
  <2>4. CASE TickNoWake
    <3>1. SwitchFromTimer(ready) /\ sleepq' = sleepq
      BY <2>4 DEF TickNoWake
    <3>2. In(2, ready) => nextPid > 2
      BY <1>2, <1>t
    <3>3. In(2, sleepq)' = In(2, sleepq)
      BY <3>1 DEF In
    <3> QED
      BY <1>t, <2>2, <3>1, <3>2, <3>3 DEF SpinnerInv
  <2> QED
    BY <2>1, <2>3, <2>4 DEF TimerCallback
<1> QED
  BY <1>u, <1>b, <1>f, <1>e, <1>s, <1>p, <1>k, <1>c DEF TNext, TaskStep, tvars

(* The three invariants hold throughout.                                   *)
LEMMA TestInvariant == TSafety => []TestInv
<1>1. TInit => TestInv
  BY TestInvInit
<1>2. TestInv /\ [TNext]_tvars => TestInv'
  BY TestStepAllowed, QueueInvStep, ProgramStep, SpinnerStep DEF TestInv
<1> QED
  BY <1>1, <1>2, PTL DEF TSafety

-----------------------------------------------------------------------------
(* do_tasking_test keeps to the scheduler: with any periods, every one of  *)
(* its statements and ticks is a step of the scheduler or leaves it alone, *)
(* user mode included.  A tick inside a sleep(), with which TaskingTest    *)
(* stops, is left to SleepSteps.                                           *)
THEOREM TestImplementsScheduler == TSafety => Spec
<1>1. TInit => Init
  BY DEF TInit
<1>2. TestInv /\ [TNext]_tvars => [Next]_vars
  BY TestStepAllowed
<1> QED
  BY <1>1, <1>2, TestInvariant, PTL DEF TSafety, Spec

(* When a loop of do_tasking_test calls sleep() there is always another    *)
(* ready task, the spinning one: sleep() refuses neither loop.             *)
THEOREM LoopsAlwaysSleep == TSpec => []NeverRefused
<1>1. TestInv => NeverRefused
  <2> SUFFICES ASSUME TestInv, NEW t \in {1, 3}, cur = t, at[t] = "sleep"
               PROVE  Len(ready) > 1
    BY DEF NeverRefused
  <2>1. nextPid > 3 /\ nextPid \in Nat
    BY TestTasks DEF TestInv, ProgramInv, QueueInv, TypeOK
  <2>2. In(t, ready) /\ In(2, ready)
    BY <2>1, TestTasks DEF TestInv, SpinnerInv, QueueInv, QueuesPartition
  <2>3. ready \in Seq(Task)
    BY DEF TestInv, QueueInv, TypeOK
  <2>4. PICK i, j \in 1..Len(ready) : ready[i] = t /\ ready[j] = 2
    BY <2>2, <2>3 DEF In
  <2>5. i # j /\ Len(ready) \in Nat
    BY <2>3, <2>4
  <2> QED
    BY <2>4, <2>5
<1>2. TSpec => TSafety
  BY PTL DEF TSpec
<1> QED
  BY <1>1, <1>2, TestInvariant, PTL

=============================================================================

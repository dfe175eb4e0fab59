-------------------------- MODULE SchedulerProofs --------------------------
(***************************************************************************)
(* Proofs about Scheduler for every number of tasks and every set of sleep *)
(* arguments.                                                              *)
(***************************************************************************)
EXTENDS Scheduler, TLAPS

-----------------------------------------------------------------------------
(* What the two list operations do, position by position.                  *)

(* Unlink closes the gap at position k and keeps the order of the rest.    *)
LEMMA UnlinkFacts ==
    ASSUME NEW S, NEW q \in Seq(S), NEW k \in DOMAIN q
    PROVE  /\ Unlink(q, k) \in Seq(S)
           /\ Len(Unlink(q, k)) = Len(q) - 1
           /\ DOMAIN Unlink(q, k) = 1..(Len(q) - 1)
           /\ \A i \in 1..(Len(q) - 1) :
                 Unlink(q, k)[i] = IF i < k THEN q[i] ELSE q[i + 1]
<1> DEFINE a == SubSeq(q, 1, k - 1)
           b == SubSeq(q, k + 1, Len(q))
<1>0. k \in 1..Len(q) /\ Len(q) \in Nat
  OBVIOUS
<1>1. a \in Seq(S) /\ Len(a) = k - 1 /\ \A i \in 1..(k - 1) : a[i] = q[i]
  BY <1>0
<1>2. b \in Seq(S) /\ Len(b) = Len(q) - k
      /\ \A i \in 1..(Len(q) - k) : b[i] = q[k + i]
  BY <1>0
<1> DEFINE u == a \o b
<1>3. Unlink(q, k) = u
  BY DEF Unlink, RemoveAt
<1> HIDE DEF a, b
<1>4. /\ u \in Seq(S) /\ Len(u) = Len(a) + Len(b) /\ DOMAIN u = 1..Len(u)
      /\ \A i \in 1..Len(a) : u[i] = a[i]
      /\ \A i \in 1..Len(b) : u[Len(a) + i] = b[i]
  <2>1. a \in Seq(S) /\ b \in Seq(S)
    BY <1>1, <1>2
  <2> QED
    BY ONLY <2>1
<1> HIDE DEF u
<1>5. Len(u) = Len(q) - 1 /\ DOMAIN u = 1..(Len(q) - 1)
  BY <1>0, <1>1, <1>2, <1>4
<1>6. ASSUME NEW i \in 1..(Len(q) - 1)
      PROVE  u[i] = IF i < k THEN q[i] ELSE q[i + 1]
  <2>1. CASE i < k
    <3>1. i \in 1..(k - 1) /\ i \in 1..Len(a)
      BY <1>0, <1>1, <2>1
    <3> QED
      BY ONLY <1>1, <1>4, <2>1, <3>1
  <2>2. CASE ~(i < k)
    <3> DEFINE j == i - (k - 1)
    <3>1. j \in 1..(Len(q) - k) /\ j \in 1..Len(b) /\ Len(a) + j = i /\ k + j = i + 1
      BY <1>0, <1>1, <1>2, <2>2
    <3> HIDE DEF j
    <3>2. u[i] = b[j] /\ b[j] = q[i + 1]
      BY ONLY <1>2, <1>4, <3>1
    <3> QED
      BY ONLY <2>2, <3>2
  <2> QED
    BY <2>1, <2>2
<1> QED
  BY ONLY <1>3, <1>4, <1>5, <1>6

(* Append adds one position at the end.                                    *)
LEMMA AppendFacts ==
    ASSUME NEW S, NEW q \in Seq(S), NEW e \in S
    PROVE  /\ Append(q, e) \in Seq(S)
           /\ Len(Append(q, e)) = Len(q) + 1
           /\ DOMAIN Append(q, e) = 1..(Len(q) + 1)
           /\ \A i \in 1..Len(q) : Append(q, e)[i] = q[i]
           /\ Append(q, e)[Len(q) + 1] = e
  OBVIOUS

(* A task moved from the list q to the end of the disjoint list r leaves   *)
(* both without duplicates and disjoint, and moves nobody else.            *)
LEMMA MoveFacts ==
    ASSUME NEW S, NEW q \in Seq(S), NEW r \in Seq(S), NEW k \in DOMAIN q,
           Injective(q), Injective(r),
           \A i \in DOMAIN q, j \in DOMAIN r : q[i] # r[j]
    PROVE  /\ Injective(Unlink(q, k))
           /\ Injective(Append(r, q[k]))
           /\ \A i \in DOMAIN Unlink(q, k), j \in DOMAIN Append(r, q[k]) :
                 Unlink(q, k)[i] # Append(r, q[k])[j]
           /\ \A t : In(t, Unlink(q, k)) <=> In(t, q) /\ t # q[k]
           /\ \A t : In(t, Append(r, q[k])) <=> In(t, r) \/ t = q[k]
<1> DEFINE a == Unlink(q, k)
           b == Append(r, q[k])
<1>0. /\ k \in 1..Len(q) /\ Len(q) \in Nat /\ Len(r) \in Nat
      /\ DOMAIN q = 1..Len(q) /\ DOMAIN r = 1..Len(r) /\ q[k] \in S
  OBVIOUS
<1>1. /\ DOMAIN a = 1..(Len(q) - 1)
      /\ \A i \in 1..(Len(q) - 1) : a[i] = IF i < k THEN q[i] ELSE q[i + 1]
  BY UnlinkFacts
<1>2. /\ DOMAIN b = 1..(Len(r) + 1)
      /\ \A i \in 1..Len(r) : b[i] = r[i]
      /\ b[Len(r) + 1] = q[k]
  BY <1>0, AppendFacts
<1> HIDE DEF a, b
<1>3. Injective(a)
  <2> SUFFICES ASSUME NEW i \in 1..(Len(q) - 1), NEW j \in 1..(Len(q) - 1),
                      a[i] = a[j]
               PROVE  i = j
    BY <1>1 DEF Injective
  <2> DEFINE pos(n) == IF n < k THEN n ELSE n + 1
  <2>1. /\ pos(i) \in DOMAIN q /\ a[i] = q[pos(i)]
        /\ pos(j) \in DOMAIN q /\ a[j] = q[pos(j)]
    BY <1>0, <1>1
  <2>2. pos(i) = pos(j)
    BY <2>1 DEF Injective
  <2> QED
    BY <1>0, <2>2
<1>4. Injective(b)
  BY <1>0, <1>2 DEF Injective
<1>5. \A i \in DOMAIN a : a[i] # q[k] /\ In(a[i], q)
  <2> SUFFICES ASSUME NEW i \in 1..(Len(q) - 1)
               PROVE  a[i] # q[k] /\ In(a[i], q)
    BY <1>1
  <2> DEFINE p == IF i < k THEN i ELSE i + 1
  <2>1. p \in DOMAIN q /\ a[i] = q[p] /\ p # k
    BY <1>0, <1>1
  <2> QED
    BY <2>1 DEF Injective, In
<1>6. \A t : In(t, a) <=> In(t, q) /\ t # q[k]
  <2>1. ASSUME NEW t, In(t, q), t # q[k] PROVE In(t, a)
    <3>1. PICK i \in 1..Len(q) : q[i] = t
      BY <1>0, <2>1 DEF In
    <3>2. CASE i < k
      BY <1>0, <1>1, <3>1, <3>2 DEF In
    <3>3. CASE i > k
      <4>1. i - 1 \in DOMAIN a /\ a[i - 1] = t
        BY <1>0, <1>1, <3>1, <3>3
      <4> QED
        BY <4>1 DEF In
    <3> QED
      BY <1>0, <2>1, <3>1, <3>2, <3>3
  <2> QED
    BY <1>5, <2>1 DEF In
<1>7. \A t : In(t, b) <=> In(t, r) \/ t = q[k]
  <2>1. ASSUME NEW t, In(t, b) PROVE In(t, r) \/ t = q[k]
    BY <1>0, <1>2, <2>1 DEF In
  <2>2. ASSUME NEW t, In(t, r) PROVE In(t, b)
    BY <1>0, <1>2, <2>2 DEF In
  <2>3. In(q[k], b)
    BY <1>0, <1>2 DEF In
  <2> QED
    BY <2>1, <2>2, <2>3
<1>8. \A i \in DOMAIN a, j \in DOMAIN b : a[i] # b[j]
  <2> SUFFICES ASSUME NEW i \in DOMAIN a, NEW j \in DOMAIN b, a[i] = b[j] PROVE FALSE
    OBVIOUS
  <2>1. PICK n \in DOMAIN q : a[i] = q[n]
    BY <1>5 DEF In
  <2>2. a[i] # q[k]
    BY <1>5
  <2>3. j \in DOMAIN r /\ b[j] = r[j]
    BY <1>0, <1>2, <2>2
  <2> QED
    BY <2>1, <2>3
<1> QED
  BY <1>3, <1>4, <1>6, <1>7, <1>8 DEF a, b

(* The round-robin successor of one of several tasks is another task.      *)
LEMMA SuccessorFacts ==
    ASSUME NEW S, NEW q \in Seq(S), Injective(q), NEW k \in DOMAIN q,
           Len(q) > 1
    PROVE  /\ Successor(q, k) \in S
           /\ In(Successor(q, k), q)
           /\ Successor(q, k) # q[k]
  BY DEF Successor, In, Injective

-----------------------------------------------------------------------------
(* TypeOK and QueuesPartition are inductive together.                      *)

QueueInv == TypeOK /\ QueuesPartition

(* switch_task called by the timer leaves the lists alone and makes a      *)
(* ready task the current one.                                             *)
LEMMA SwitchFacts ==
    ASSUME NEW q \in Seq(Task), Injective(q), cur \in Task, In(cur, q),
           ctx \in [Task -> Context], iflag \in BOOLEAN, SwitchFromTimer(q)
    PROVE  /\ ready' = q
           /\ cur' \in Task
           /\ In(cur', q)
           /\ ctx' \in [Task -> Context]
           /\ iflag' \in BOOLEAN
<1>1. CASE UNCHANGED <<cur, ctx, iflag>>
  BY <1>1 DEF SwitchFromTimer
<1>2. CASE /\ Len(q) > 1
           /\ ctx' = [ctx EXCEPT ![cur] = "irq"]
           /\ \E k \in DOMAIN q : q[k] = cur /\ Resume(Successor(q, k), FALSE)
  <2>1. PICK k \in DOMAIN q : q[k] = cur /\ Resume(Successor(q, k), FALSE)
    BY <1>2
  <2>2. Successor(q, k) \in Task /\ In(Successor(q, k), q)
    BY <1>2, SuccessorFacts
  <2>3. "irq" \in Context
    BY DEF Context
  <2> QED
    BY <1>2, <2>1, <2>2, <2>3 DEF SwitchFromTimer, Resume
<1> QED
  BY <1>1, <1>2 DEF SwitchFromTimer

(* sleep() moves the current task to the sleep queue and keeps QueueInv.   *)
LEMMA SuspendQueueInv ==
    ASSUME QueueInv, NEW n \in Int, NEW kind \in Context,
           NEW flag \in BOOLEAN, Suspend(n, kind, flag)
    PROVE  QueueInv'
<1> USE MaxTasksAssumption
<1>1. /\ ready \in Seq(Task) /\ sleepq \in Seq(Task)
      /\ nextPid \in 1..(MaxTasks + 1) /\ cur \in 0..(nextPid - 1)
      /\ left \in [Task -> Int] /\ ctx \in [Task -> Context]
      /\ nextPid' = nextPid
  BY DEF QueueInv, TypeOK, Suspend
<1>2. PICK k \in DOMAIN ready :
         /\ ready[k] = cur
         /\ ready' = Unlink(ready, k)
         /\ sleepq' = Append(sleepq, cur)
         /\ left' = [left EXCEPT ![cur] = n]
         /\ ctx' = [ctx EXCEPT ![cur] = kind]
         /\ Resume(Successor(ready, k), flag)
  BY DEF Suspend
<1>3. cur \in Task
  BY <1>1, <1>2
<1>4. /\ Injective(ready') /\ Injective(sleepq')
      /\ \A i \in DOMAIN ready', j \in DOMAIN sleepq' : ready'[i] # sleepq'[j]
      /\ \A t : In(t, ready') <=> In(t, ready) /\ t # cur
      /\ \A t : In(t, sleepq') <=> In(t, sleepq) \/ t = cur
  <2>1. /\ Injective(ready) /\ Injective(sleepq)
        /\ \A i \in DOMAIN ready, j \in DOMAIN sleepq : ready[i] # sleepq[j]
    BY DEF QueueInv, QueuesPartition
  <2>2. /\ ready \in Seq(Task) /\ sleepq \in Seq(Task) /\ k \in DOMAIN ready
        /\ cur = ready[k] /\ ready' = Unlink(ready, k) /\ sleepq' = Append(sleepq, ready[k])
    BY <1>1, <1>2
  <2> QED
    BY ONLY <2>1, <2>2, MoveFacts
<1>5. /\ ready' \in Seq(Task) /\ sleepq' \in Seq(Task)
      /\ Len(ready') = Len(ready) - 1 /\ Len(sleepq') = Len(sleepq) + 1
  BY <1>1, <1>2, <1>3, UnlinkFacts, AppendFacts
<1>6. cur' \in Task /\ In(cur', ready') /\ iflag' \in BOOLEAN
  <2>1. /\ Successor(ready, k) \in Task /\ In(Successor(ready, k), ready)
        /\ Successor(ready, k) # cur
    BY <1>1, <1>2, SuccessorFacts DEF Suspend, QueueInv, QueuesPartition
  <2> QED
    BY <1>2, <1>4, <2>1 DEF Resume
<1>7. \A t \in Task : t < nextPid <=> In(t, ready) \/ In(t, sleepq)
  BY DEF QueueInv, QueuesPartition
<1>8. In(cur, ready)
  BY <1>2 DEF In
<1>9. QueuesPartition'
  <2>1. \A t \in Task : t < nextPid' <=> In(t, ready') \/ In(t, sleepq')
    BY <1>1, <1>4, <1>7, <1>8
  <2>2. Len(ready) + Len(sleepq) = nextPid - 1
    BY DEF QueueInv, QueuesPartition
  <2>3. Len(ready') + Len(sleepq') = nextPid' - 1
    BY <1>1, <1>5, <2>2
  <2> QED
    BY <1>4, <1>6, <2>1, <2>3 DEF QueuesPartition
<1>10. TypeOK'
  <2>1. cur' < nextPid
    BY <1>4, <1>6, <1>7
  <2>2. cur' \in 0..(nextPid' - 1)
    BY <1>1, <1>6, <2>1 DEF Task
  <2> QED
    BY <1>1, <1>2, <1>3, <1>5, <1>6, <2>2 DEF TypeOK
<1> QED
  BY <1>9, <1>10 DEF QueueInv

(* Every action of the scheduler and of the timer keeps the two lists      *)
(* well-typed and a partition of the processes.                            *)
LEMMA QueueInvStep == QueueInv /\ [Next]_vars => QueueInv'
<1> USE MaxTasksAssumption, SleepArgsAssumption, ShellArgsAssumption
<1> SUFFICES ASSUME QueueInv, [Next]_vars PROVE QueueInv'
  OBVIOUS
<1>t. /\ ready \in Seq(Task) /\ sleepq \in Seq(Task)
      /\ nextPid \in 1..(MaxTasks + 1) /\ cur \in 0..(nextPid - 1)
      /\ left \in [Task -> Int] /\ ctx \in [Task -> Context]
      /\ iflag \in BOOLEAN
  BY DEF QueueInv, TypeOK
<1>q. /\ Injective(ready) /\ Injective(sleepq)
      /\ \A i \in DOMAIN ready, j \in DOMAIN sleepq : ready[i] # sleepq[j]
      /\ \A t \in Task : t < nextPid <=> In(t, ready) \/ In(t, sleepq)
      /\ Len(ready) + Len(sleepq) = nextPid - 1
      /\ nextPid > 1 => In(cur, ready)
  BY DEF QueueInv, QueuesPartition
<1>r. \A t : In(t, ready) => t \in Task /\ t < nextPid
  BY <1>t, <1>q DEF In
<1>0. ASSUME UNCHANGED vars PROVE QueueInv'
  BY <1>0 DEF vars, QueueInv, TypeOK, QueuesPartition, Injective, In
<1>1. CASE InitialiseTasking
  <2>1. nextPid = 1
    BY <1>1, <1>t, <1>q, <1>r DEF InitialiseTasking, NoTask, Task
  <2>2. ready = <<>> /\ sleepq = <<>>
    BY <1>t, <1>q, <2>1
  <2>3. /\ ready' = <<1>> /\ sleepq' = <<>> /\ nextPid' = 2 /\ cur' = 1
        /\ left' = left /\ ctx' = ctx /\ iflag' = TRUE
    BY <1>1, <2>1, <2>2 DEF InitialiseTasking
  <2>4. TypeOK'
    BY <1>t, <2>3 DEF TypeOK, Task
  <2>5. In(1, <<1>>) /\ Injective(<<1>>) /\ Injective(<<>>)
    BY DEF In, Injective
  <2>6. \A t : (In(t, <<1>>) => t = 1) /\ ~In(t, <<>>)
    BY DEF In
  <2>7. QueuesPartition'
    BY <2>3, <2>5, <2>6 DEF QueuesPartition, Task
  <2> QED
    BY <2>4, <2>7 DEF QueueInv
<1>2. CASE Fork
  <2>1. nextPid \in Task /\ nextPid' = nextPid + 1 /\ nextPid > 1
    BY <1>2, <1>t DEF Fork, Task, NoTask
  <2>2. /\ ready' = Append(ready, nextPid) /\ sleepq' = sleepq
        /\ cur' = cur /\ left' = left /\ iflag' = TRUE
        /\ ctx' = [ctx EXCEPT ![nextPid] = "child"]
    BY <1>2 DEF Fork
  <2>3. /\ ready' \in Seq(Task) /\ Len(ready') = Len(ready) + 1
        /\ DOMAIN ready' = 1..(Len(ready) + 1)
        /\ \A i \in 1..Len(ready) : ready'[i] = ready[i]
        /\ ready'[Len(ready) + 1] = nextPid
    BY <1>t, <2>1, <2>2, AppendFacts
  <2>4. ~In(nextPid, ready) /\ ~In(nextPid, sleepq)
    BY <1>t, <1>q, <2>1
  <2>5. Len(ready) \in Nat /\ DOMAIN ready = 1..Len(ready)
    BY <1>t
  <2>6. \A t : In(t, ready') <=> In(t, ready) \/ t = nextPid
    <3>1. ASSUME NEW t, In(t, ready') PROVE In(t, ready) \/ t = nextPid
      BY <2>3, <2>5, <3>1 DEF In
    <3>2. ASSUME NEW t, In(t, ready) PROVE In(t, ready')
      BY <2>3, <2>5, <3>2 DEF In
    <3>3. In(nextPid, ready')
      BY <2>3, <2>5 DEF In
    <3> QED
      BY <3>1, <3>2, <3>3
  <2>7. Injective(ready')
    BY <1>q, <2>3, <2>4, <2>5 DEF Injective, In
  <2>8. \A i \in DOMAIN ready', j \in DOMAIN sleepq' : ready'[i] # sleepq'[j]
    BY <1>q, <2>2, <2>3, <2>4, <2>5 DEF In
  <2>9. \A t \in Task : t < nextPid' <=> In(t, ready') \/ In(t, sleepq')
    <3>1. \A t \in Task : t < nextPid + 1 <=> t < nextPid \/ t = nextPid
      BY <2>1 DEF Task
    <3> QED
      BY <1>q, <2>1, <2>2, <2>6, <3>1
  <2>10. Len(ready') + Len(sleepq') = nextPid' - 1
    BY <1>t, <1>q, <2>1, <2>2, <2>3
  <2>11. QueuesPartition'
    BY <1>q, <2>1, <2>2, <2>6, <2>7, <2>8, <2>9, <2>10 DEF QueuesPartition
  <2>12. TypeOK'
    BY <1>t, <2>1, <2>2, <2>3 DEF TypeOK, Context, Task
  <2> QED
    BY <2>11, <2>12 DEF QueueInv
<1>3. CASE \E n \in SleepArgs : Sleep(n)
  <2>1. PICK n \in SleepArgs : Sleep(n)
    BY <1>3
  <2>2. CASE Suspend(n, "call", iflag)
    <3>1. n \in Int /\ "call" \in Context /\ iflag \in BOOLEAN
      BY <1>t DEF Context
    <3> QED
      BY <2>2, <3>1, SuspendQueueInv
  <2>3. CASE RefuseSleep
    BY <1>0, <2>3 DEF RefuseSleep
  <2> QED
    BY <2>1, <2>2, <2>3 DEF Sleep
<1>4. CASE \E n \in ShellArgs : ShellSleep(n)
  <2>1. PICK n \in ShellArgs : ShellSleep(n)
    BY <1>4
  <2>2. CASE Suspend(n, "irq", FALSE)
    <3>1. n \in Int /\ "irq" \in Context /\ FALSE \in BOOLEAN
      BY <1>t DEF Context
    <3> QED
      BY <2>2, <3>1, SuspendQueueInv
  <2>3. CASE RefuseSleep
    BY <1>0, <2>3 DEF RefuseSleep
  <2> QED
    BY <2>1, <2>2, <2>3 DEF ShellSleep
<1>5. CASE TimerCallback
  <2>1. /\ nextPid' = nextPid /\ nextPid > 1 /\ In(cur, ready) /\ cur \in Task
    BY <1>5, <1>t, <1>q, <1>r DEF TimerCallback
  <2>2. CASE TickWake
    <3>1. PICK i \in DOMAIN sleepq :
             /\ sleepq' = Unlink(sleepq, i)
             /\ SwitchFromTimer(Append(ready, sleepq[i]))
             /\ Age(sleepq')
      BY <2>2 DEF TickWake
    <3> DEFINE q == Append(ready, sleepq[i])
    <3>2. /\ Injective(sleepq') /\ Injective(q)
          /\ \A m \in DOMAIN sleepq', j \in DOMAIN q : sleepq'[m] # q[j]
          /\ \A t : In(t, sleepq') <=> In(t, sleepq) /\ t # sleepq[i]
          /\ \A t : In(t, q) <=> In(t, ready) \/ t = sleepq[i]
      BY <1>t, <1>q, <3>1, MoveFacts
    <3>3. /\ sleepq' \in Seq(Task) /\ q \in Seq(Task)
          /\ Len(sleepq') = Len(sleepq) - 1 /\ Len(q) = Len(ready) + 1
      <4>1. sleepq[i] \in Task
        BY <1>t
      <4> QED
        BY <1>t, <3>1, <4>1, UnlinkFacts, AppendFacts
    <3>4. SwitchFromTimer(q)
      BY <3>1
    <3> HIDE DEF q
    <3>5. /\ ready' = q /\ cur' \in Task /\ In(cur', q)
          /\ ctx' \in [Task -> Context] /\ iflag' \in BOOLEAN
      BY <1>t, <2>1, <3>2, <3>3, <3>4, SwitchFacts
    <3>6. left' \in [Task -> Int]
      BY <1>t, <3>1 DEF Age
    <3>7. In(sleepq[i], sleepq)
      BY DEF In
    <3>8. \A t \in Task : t < nextPid' <=> In(t, ready') \/ In(t, sleepq')
      BY <1>q, <2>1, <3>2, <3>5, <3>7
    <3>9. Len(ready') + Len(sleepq') = nextPid' - 1
      <4>1. Len(ready) \in Nat /\ Len(sleepq) \in Nat /\ nextPid \in Int
        BY <1>t
      <4>2. Len(ready') = Len(ready) + 1
        BY <3>3, <3>5
      <4> QED
        BY <1>q, <2>1, <3>3, <4>1, <4>2
    <3>10. QueuesPartition'
      BY <3>2, <3>5, <3>8, <3>9 DEF QueuesPartition
    <3>11. cur' \in 0..(nextPid' - 1)
      BY <1>t, <2>1, <3>5, <3>8 DEF Task
    <3>12. TypeOK'
      BY <1>t, <2>1, <3>3, <3>5, <3>6, <3>11 DEF TypeOK
    <3> QED
      BY <3>10, <3>12 DEF QueueInv
  <2>3. CASE TickNoWake
    <3>1. sleepq' = sleepq /\ SwitchFromTimer(ready) /\ Age(sleepq)
      BY <2>3 DEF TickNoWake
    <3>2. /\ ready' = ready /\ cur' \in Task /\ In(cur', ready)
          /\ ctx' \in [Task -> Context] /\ iflag' \in BOOLEAN
      BY <1>t, <1>q, <2>1, <3>1, SwitchFacts
    <3>3. left' \in [Task -> Int]
      BY <1>t, <3>1 DEF Age
    <3>4. QueuesPartition'
      BY <1>q, <2>1, <3>1, <3>2 DEF QueuesPartition
    <3>5. cur' \in 0..(nextPid' - 1)
      BY <1>t, <1>r, <2>1, <3>2 DEF Task
    <3>6. TypeOK'
      BY <1>t, <2>1, <3>1, <3>2, <3>3, <3>5 DEF TypeOK
    <3> QED
      BY <3>4, <3>6 DEF QueueInv
  <2> QED
    BY <1>5, <2>2, <2>3 DEF TimerCallback
<1> QED
  BY <1>0, <1>1, <1>2, <1>3, <1>4, <1>5 DEF Next

(* The queues are empty before initialise_tasking.                         *)
LEMMA QueueInvInit == Init => QueueInv
<1> USE MaxTasksAssumption
<1> SUFFICES ASSUME Init PROVE QueueInv
  OBVIOUS
<1>1. TypeOK
  BY DEF Init, TypeOK, NoTask, Task, Context
<1>2. \A t : ~In(t, <<>>)
  BY DEF In
<1>3. QueuesPartition
  BY <1>2 DEF Init, QueuesPartition, Injective, Task
<1> QED
  BY <1>1, <1>3 DEF QueueInv

(* The lists, the process ids and the contexts stay well-typed.            *)
THEOREM TypeCorrect == Spec => []TypeOK
<1>1. Spec => []QueueInv
  BY QueueInvInit, QueueInvStep, PTL DEF Spec
<1>2. QueueInv => TypeOK
  BY DEF QueueInv
<1> QED
  BY <1>1, <1>2, PTL

(* No process is ever lost or duplicated by the moves between the lists.   *)
THEOREM NobodyLost == Spec => []QueuesPartition
<1>1. Spec => []QueueInv
  BY QueueInvInit, QueueInvStep, PTL DEF Spec
<1>2. QueueInv => QueuesPartition
  BY DEF QueueInv
<1> QED
  BY <1>1, <1>2, PTL

-----------------------------------------------------------------------------
(* Deadlines.                                                              *)

(* A sleeping task keeps its bound: a new sleeper has a deadline ahead of  *)
(* it, and a tick that finds an expired task moves it up the queue.        *)
LEMMA PunctualStep ==
    ASSUME QueueInv, QueueInv', Punctual, [Next]_vars
    PROVE  Punctual'
<1> USE MaxTasksAssumption, SleepArgsAssumption, ShellArgsAssumption
<1>t. /\ ready \in Seq(Task) /\ sleepq \in Seq(Task)
      /\ ready' \in Seq(Task) /\ sleepq' \in Seq(Task)
      /\ left \in [Task -> Int] /\ nextPid' \in 1..(MaxTasks + 1)
  BY DEF QueueInv, TypeOK
<1>l. nextPid' > 1 => Len(sleepq') \in Nat /\ Len(sleepq') <= MaxTasks - 1
  <2>1. nextPid' > 1 => In(cur', ready')
    BY DEF QueueInv, QueuesPartition
  <2>2. In(cur', ready') => Len(ready') \in Nat /\ Len(ready') >= 1
    BY <1>t DEF In
  <2>3. Len(ready') + Len(sleepq') = nextPid' - 1
    BY DEF QueueInv, QueuesPartition
  <2>4. Len(sleepq') \in Nat
    BY <1>t
  <2> QED
    BY <1>t, <2>1, <2>2, <2>3, <2>4
<1>p. \A i \in DOMAIN sleepq : i - left[sleepq[i]] <= MaxTasks - 1
  BY DEF Punctual
<1>0. ASSUME sleepq' = sleepq, left' = left PROVE Punctual'
  BY <1>0 DEF Punctual
<1>1. ASSUME NEW n \in Nat \ {0}, NEW kind, NEW flag, Suspend(n, kind, flag)
      PROVE  Punctual'
  <2>1. PICK k \in DOMAIN ready :
           /\ ready[k] = cur
           /\ ready' = Unlink(ready, k)
           /\ sleepq' = Append(sleepq, cur)
           /\ left' = [left EXCEPT ![cur] = n]
    BY <1>1 DEF Suspend
  <2>2. cur \in Task /\ \A i \in DOMAIN sleepq : sleepq[i] # cur
    BY <1>t, <2>1 DEF QueueInv, QueuesPartition
  <2>3. /\ DOMAIN sleepq' = 1..(Len(sleepq) + 1)
        /\ Len(sleepq') = Len(sleepq) + 1
        /\ \A i \in 1..Len(sleepq) : sleepq'[i] = sleepq[i]
        /\ sleepq'[Len(sleepq) + 1] = cur
    BY <1>t, <2>1, <2>2, AppendFacts
  <2>4. Len(sleepq) \in Nat /\ DOMAIN sleepq = 1..Len(sleepq)
    BY <1>t
  <2>5. ASSUME NEW i \in 1..Len(sleepq)
        PROVE  i - left'[sleepq'[i]] <= MaxTasks - 1
    <3>0. sleepq[i] \in Task /\ sleepq[i] # cur /\ sleepq'[i] = sleepq[i]
      <4>1. i \in DOMAIN sleepq
        BY <2>4
      <4>2. sleepq[i] \in Task
        BY <1>t, <4>1
      <4> QED
        BY <2>2, <2>3, <4>1, <4>2
    <3>1. left'[sleepq'[i]] = left[sleepq[i]]
      BY <1>t, <2>1, <3>0
    <3> QED
      BY <1>p, <2>4, <3>1
  <2> SUFFICES ASSUME NEW i \in DOMAIN sleepq'
               PROVE  i - left'[sleepq'[i]] <= MaxTasks - 1
    BY DEF Punctual
  <2>6. i \in 1..Len(sleepq) \/ i = Len(sleepq) + 1
    BY <2>3, <2>4
  <2>7. CASE i \in 1..Len(sleepq)
    BY <2>5, <2>7
  <2>8. CASE i = Len(sleepq) + 1
    <3>1. left'[sleepq'[i]] = n
      BY <1>t, <2>1, <2>2, <2>3, <2>8
    <3>2. nextPid' > 1
      <4>1. Len(sleepq') >= 1 /\ Len(ready') \in Nat
        BY <1>t, <2>3, <2>4
      <4>2. Len(ready') + Len(sleepq') = nextPid' - 1
        BY DEF QueueInv, QueuesPartition
      <4> QED
        BY <1>t, <2>3, <2>4, <4>1, <4>2
    <3>3. Len(sleepq') \in Nat /\ Len(sleepq') <= MaxTasks - 1 /\ i = Len(sleepq')
      BY <1>l, <2>3, <2>8, <3>2
    <3> QED
      BY <3>1, <3>3
  <2> QED
    BY <2>6, <2>7, <2>8
<1>2. ASSUME TickWake, nextPid' > 1 PROVE Punctual'
  <2>1. PICK m \in DOMAIN sleepq :
           FirstExpired(m) /\ sleepq' = Unlink(sleepq, m) /\ Age(sleepq')
    BY <1>2 DEF TickWake
  <2>2. /\ m \in 1..Len(sleepq) /\ Len(sleepq) \in Nat
        /\ DOMAIN sleepq = 1..Len(sleepq)
        /\ Len(sleepq') = Len(sleepq) - 1
        /\ DOMAIN sleepq' = 1..(Len(sleepq) - 1)
        /\ \A i \in 1..(Len(sleepq) - 1) :
              sleepq'[i] = IF i < m THEN sleepq[i] ELSE sleepq[i + 1]
    <3>1. /\ Len(Unlink(sleepq, m)) = Len(sleepq) - 1
          /\ DOMAIN Unlink(sleepq, m) = 1..(Len(sleepq) - 1)
          /\ \A i \in 1..(Len(sleepq) - 1) :
                Unlink(sleepq, m)[i] = IF i < m THEN sleepq[i] ELSE sleepq[i + 1]
      BY <1>t, UnlinkFacts
    <3>2. /\ m \in 1..Len(sleepq) /\ Len(sleepq) \in Nat
          /\ DOMAIN sleepq = 1..Len(sleepq)
      BY <1>t
    <3> QED
      BY <2>1, <3>1, <3>2
  <2> SUFFICES ASSUME NEW i \in DOMAIN sleepq'
               PROVE  i - left'[sleepq'[i]] <= MaxTasks - 1
    BY DEF Punctual
  <2>3. left'[sleepq'[i]] = left[sleepq'[i]] - 1
    <3>1. sleepq'[i] \in Task /\ In(sleepq'[i], sleepq')
      BY <1>t DEF In
    <3> QED
      BY <2>1, <3>1 DEF Age
  <2>4. CASE i < m
    <3>1. sleepq'[i] = sleepq[i] /\ left[sleepq[i]] > 0 /\ sleepq[i] \in Task
      <4>1. i \in 1..(Len(sleepq) - 1) /\ i \in 1..(m - 1) /\ i \in DOMAIN sleepq
        BY <2>2, <2>4
      <4>2. sleepq'[i] = sleepq[i]
        BY <2>2, <2>4, <4>1
      <4>3. left[sleepq[i]] > 0
        BY <2>1, <4>1 DEF FirstExpired
      <4>4. sleepq[i] \in Task
        BY <1>t, <4>1
      <4> QED
        BY <4>2, <4>3, <4>4
    <3>2. left[sleepq[i]] \in Int
      BY <1>t, <3>1
    <3>3. i \in 1..Len(sleepq')
      BY <2>2
    <3>4. Len(sleepq') \in Nat /\ Len(sleepq') <= MaxTasks - 1
      BY <1>l, <1>2
    <3>5. left'[sleepq'[i]] \in Int /\ left'[sleepq'[i]] >= 0
      BY <2>3, <3>1, <3>2
    <3> QED
      BY <3>3, <3>4, <3>5
  <2>5. CASE i >= m
    <3>1. /\ sleepq'[i] = sleepq[i + 1] /\ i + 1 \in DOMAIN sleepq
          /\ sleepq[i + 1] \in Task
      <4>1. i \in 1..(Len(sleepq) - 1) /\ ~(i < m)
        BY <2>2, <2>5
      <4>2. sleepq'[i] = sleepq[i + 1]
        BY <2>2, <4>1
      <4>3. i + 1 \in DOMAIN sleepq
        BY <2>2, <4>1
      <4>4. sleepq[i + 1] \in Task
        BY <1>t, <4>3
      <4> QED
        BY <4>2, <4>3, <4>4
    <3>2. left[sleepq[i + 1]] \in Int /\ i \in Int
      BY <1>t, <2>2, <3>1
    <3>3. (i + 1) - left[sleepq[i + 1]] <= MaxTasks - 1
      BY <1>p, <3>1
    <3> QED
      BY <2>3, <3>1, <3>2, <3>3
  <2>6. i \in Int /\ m \in Int
    BY <2>2
  <2> QED
    BY <2>4, <2>5, <2>6
<1>3. ASSUME TickNoWake, nextPid' > 1 PROVE Punctual'
  <2> SUFFICES ASSUME NEW i \in DOMAIN sleepq
               PROVE  i - left'[sleepq[i]] <= MaxTasks - 1
    BY <1>3 DEF TickNoWake, Punctual
  <2>1. sleepq[i] \in Task /\ In(sleepq[i], sleepq)
    BY <1>t DEF In
  <2>2. left'[sleepq[i]] = left[sleepq[i]] - 1 /\ left[sleepq[i]] > 0
    BY <1>3, <2>1 DEF TickNoWake, Age
  <2>3. left[sleepq[i]] \in Int /\ i \in Int /\ i <= Len(sleepq)
    BY <1>t, <2>1
  <2>4. sleepq' = sleepq
    BY <1>3 DEF TickNoWake
  <2>5. Len(sleepq) \in Nat /\ Len(sleepq) <= MaxTasks - 1
    BY <1>l, <1>3, <2>4
  <2>6. left'[sleepq[i]] \in Int /\ left'[sleepq[i]] >= 0
    BY <2>2, <2>3
  <2> QED
    BY <2>3, <2>5, <2>6
<1>4. CASE InitialiseTasking
  BY <1>0, <1>4 DEF InitialiseTasking
<1>5. CASE Fork
  BY <1>0, <1>5 DEF Fork
<1>6. CASE \E n \in SleepArgs : Sleep(n)
  <2>1. PICK n \in SleepArgs : Sleep(n)
    BY <1>6
  <2>2. n \in Nat \ {0}
    OBVIOUS
  <2> QED
    BY <1>0, <1>1, <2>1, <2>2 DEF Sleep, RefuseSleep, vars
<1>7. CASE \E n \in ShellArgs : ShellSleep(n)
  <2>1. PICK n \in ShellArgs : ShellSleep(n)
    BY <1>7
  <2>2. n \in Nat \ {0}
    OBVIOUS
  <2> QED
    BY <1>0, <1>1, <2>1, <2>2 DEF ShellSleep, RefuseSleep, vars
<1>8. CASE TimerCallback
  <2>1. nextPid' > 1
    <3>1. nextPid' = nextPid /\ nextPid # 1
      BY <1>8 DEF TimerCallback
    <3> QED
      BY <1>t, <3>1
  <2> QED
    BY <1>2, <1>3, <1>8, <2>1 DEF TimerCallback
<1>9. CASE UNCHANGED vars
  BY <1>0, <1>9 DEF vars
<1> QED
  BY <1>4, <1>5, <1>6, <1>7, <1>8, <1>9 DEF Next

(* Waking one task per tick keeps every deadline within MaxTasks ticks.    *)
THEOREM DeadlinesKept == Spec => []Punctual
<1>1. Init => Punctual
  BY DEF Init, Punctual
<1>2. Spec => []QueueInv
  BY QueueInvInit, QueueInvStep, PTL DEF Spec
<1>3. QueueInv /\ QueueInv' /\ Punctual /\ [Next]_vars => Punctual'
  BY PunctualStep
<1> QED
  BY <1>1, <1>2, <1>3, PTL DEF Spec

-----------------------------------------------------------------------------
(* Interrupts.                                                             *)

MaskInv == WokenBeforeSuspended /\ NoMaskedDeadEnd

(* Whatever the flag and the contexts were, a tick that switches tasks     *)
(* leaves the interrupted task last in round-robin order.                  *)
LEMMA SwitchMaskInv ==
    ASSUME NEW q \in Seq(Task), Injective(q), cur \in Task,
           ctx \in [Task -> Context], iflag, SwitchFromTimer(q)
    PROVE  MaskInv'
<1>0. Len(q) \in Nat /\ DOMAIN q = 1..Len(q) /\ ready' = q
  BY DEF SwitchFromTimer
<1>1. CASE Len(q) = 1 /\ UNCHANGED <<cur, ctx, iflag>>
  <2>1. \A p, c \in DOMAIN q : p = c
    BY <1>0, <1>1
  <2>2. WokenBeforeSuspended'
    BY <1>0, <2>1 DEF WokenBeforeSuspended
  <2> QED
    BY <1>1, <2>2 DEF MaskInv, NoMaskedDeadEnd
<1>2. CASE /\ Len(q) > 1
           /\ ctx' = [ctx EXCEPT ![cur] = "irq"]
           /\ \E k \in DOMAIN q : q[k] = cur /\ Resume(Successor(q, k), FALSE)
  <2>1. PICK k \in DOMAIN q : q[k] = cur /\ Resume(Successor(q, k), FALSE)
    BY <1>2
  <2>2. cur' = Successor(q, k) /\ cur' # cur
    BY <1>2, <2>1, SuccessorFacts DEF Resume
  <2>3. ctx'[q[k]] = "irq"
    BY <1>2, <2>1
  <2>4. NoMaskedDeadEnd'
    BY <1>0, <2>1, <2>2, <2>3 DEF NoMaskedDeadEnd, In
  <2>5. ASSUME NEW p \in DOMAIN q, NEW c \in DOMAIN q,
               q[p] = cur', c # p, ctx'[q[c]] = "call"
        PROVE  RoundRobinOrder(p, c, k)
    <3>1. c # k
      BY <2>3, <2>5
    <3>2. p = IF k < Len(q) THEN k + 1 ELSE 1
      BY <1>0, <2>2, <2>5 DEF Successor, Injective
    <3> QED
      BY <1>0, <2>5, <3>1, <3>2 DEF RoundRobinOrder
  <2>6. WokenBeforeSuspended'
    BY <1>0, <2>3, <2>5 DEF WokenBeforeSuspended, RoundRobinOrder
  <2> QED
    BY <2>4, <2>6 DEF MaskInv
<1> QED
  BY <1>1, <1>2 DEF SwitchFromTimer

(* sleep() takes the current task out of the round and starts the next     *)
(* turn at its successor: the order of the others does not change, and a   *)
(* successor that goes on masked is met before a suspended task.           *)
LEMMA SuspendMaskInv ==
    ASSUME QueueInv, MaskInv, NEW n, NEW kind \in Context,
           NEW flag \in BOOLEAN, Suspend(n, kind, flag)
    PROVE  MaskInv'
<1>1. /\ ready \in Seq(Task) /\ Injective(ready) /\ ctx \in [Task -> Context]
      /\ Len(ready) \in Nat /\ DOMAIN ready = 1..Len(ready)
  BY DEF QueueInv, TypeOK, QueuesPartition
<1>2. PICK k \in DOMAIN ready :
         /\ ready[k] = cur
         /\ ready' = Unlink(ready, k)
         /\ ctx' = [ctx EXCEPT ![cur] = kind]
         /\ Resume(Successor(ready, k), flag)
  BY DEF Suspend
<1> DEFINE s == IF k < Len(ready) THEN k + 1 ELSE 1
           old(i) == IF i < k THEN i ELSE i + 1
           new(i) == IF i < k THEN i ELSE i - 1
<1>3. k \in 1..Len(ready) /\ Len(ready) > 1
  BY <1>1 DEF Suspend
<1>4. s \in DOMAIN ready /\ s # k /\ cur' = ready[s]
  BY <1>1, <1>2, <1>3 DEF Successor, Resume
<1>5. /\ DOMAIN ready' = 1..(Len(ready) - 1)
      /\ \A i \in 1..(Len(ready) - 1) :
            /\ old(i) \in DOMAIN ready /\ old(i) # k
            /\ ready'[i] = ready[old(i)]
            /\ new(old(i)) = i
  <2>1. /\ DOMAIN Unlink(ready, k) = 1..(Len(ready) - 1)
        /\ \A i \in 1..(Len(ready) - 1) :
              Unlink(ready, k)[i] = IF i < k THEN ready[i] ELSE ready[i + 1]
    BY <1>1, UnlinkFacts
  <2>2. \A i \in 1..(Len(ready) - 1) : ready'[i] = ready[old(i)]
    BY <1>2, <2>1
  <2>3. \A i \in 1..(Len(ready) - 1) :
           old(i) \in DOMAIN ready /\ old(i) # k /\ new(old(i)) = i
    BY <1>1, <1>3
  <2> QED
    BY <1>2, <2>1, <2>2, <2>3
<1>6. \A i \in DOMAIN ready \ {k} :
         /\ new(i) \in DOMAIN ready'
         /\ ready'[new(i)] = ready[i]
         /\ ready[i] \in Task
         /\ ctx'[ready[i]] = ctx[ready[i]]
  <2> SUFFICES ASSUME NEW i \in DOMAIN ready \ {k}
               PROVE  /\ new(i) \in DOMAIN ready'
                      /\ ready'[new(i)] = ready[i]
                      /\ ready[i] \in Task
                      /\ ctx'[ready[i]] = ctx[ready[i]]
    OBVIOUS
  <2>1. new(i) \in 1..(Len(ready) - 1) /\ old(new(i)) = i
    BY <1>1, <1>3
  <2>2. ready[i] \in Task /\ ready[i] # cur
    BY <1>1, <1>2 DEF Injective
  <2> QED
    BY <1>1, <1>2, <1>5, <2>1, <2>2
<1>7. ASSUME NEW c \in DOMAIN ready \ {k}, ctx[ready[c]] = "call"
      PROVE  \E x \in DOMAIN ready :
                ctx[ready[x]] = "irq" /\ RoundRobinOrder(k, c, x)
  BY <1>2, <1>7 DEF MaskInv, WokenBeforeSuspended
<1>8. NoMaskedDeadEnd'
  <2> SUFFICES ASSUME ~iflag'
               PROVE  \E t \in Task : /\ t # cur' /\ In(t, ready')
                                     /\ ctx'[t] = "irq"
    BY DEF NoMaskedDeadEnd
  <2>1. ctx[ready[s]] = "call"
    BY <1>2, <1>4 DEF Resume, Successor
  <2>2. PICK x \in DOMAIN ready :
           ctx[ready[x]] = "irq" /\ RoundRobinOrder(k, s, x)
    BY <1>4, <1>7, <2>1
  <2>3. x # k /\ x # s
    BY <1>1, <1>3, <2>2 DEF RoundRobinOrder
  <2>4. ready[x] # cur' /\ ctx'[ready[x]] = "irq" /\ ready[x] \in Task
    BY <1>1, <1>4, <1>6, <2>2, <2>3 DEF Injective
  <2>5. In(ready[x], ready')
    BY <1>6, <2>3 DEF In
  <2> QED
    BY <2>4, <2>5
<1>9. WokenBeforeSuspended'
  <2> SUFFICES ASSUME NEW p \in DOMAIN ready', NEW c \in DOMAIN ready',
                      ready'[p] = cur', c # p, ctx'[ready'[c]] = "call"
               PROVE  \E x \in DOMAIN ready' :
                         /\ ctx'[ready'[x]] = "irq"
                         /\ RoundRobinOrder(p, c, x)
    BY DEF WokenBeforeSuspended, RoundRobinOrder
  <2>1. /\ old(p) \in DOMAIN ready /\ old(p) # k /\ ready[old(p)] = ready[s]
        /\ old(c) \in DOMAIN ready /\ old(c) # k /\ ready'[c] = ready[old(c)]
    BY <1>4, <1>5
  <2>2. old(p) = s
    BY <1>1, <1>4, <2>1 DEF Injective
  <2>3. ctx[ready[old(c)]] = "call"
    BY <1>6, <2>1
  <2>4. PICK x \in DOMAIN ready :
           ctx[ready[x]] = "irq" /\ RoundRobinOrder(k, old(c), x)
    BY <1>7, <2>1, <2>3
  <2>5. x # k
    BY <1>1, <1>3, <2>1, <2>4 DEF RoundRobinOrder
  <2>6. p \in 1..(Len(ready) - 1) /\ c \in 1..(Len(ready) - 1) /\ x \in 1..Len(ready)
    BY <1>1, <1>5
  <2>7. RoundRobinOrder(p, c, new(x))
    BY <1>1, <1>3, <2>2, <2>4, <2>5, <2>6 DEF RoundRobinOrder
  <2>8. new(x) \in DOMAIN ready' /\ ctx'[ready'[new(x)]] = "irq"
    BY <1>6, <2>4, <2>5
  <2> QED
    BY <2>7, <2>8
<1> QED
  BY <1>8, <1>9 DEF MaskInv

(* The other actions keep the round-robin order of the contexts.           *)
LEMMA MaskInvStep ==
    ASSUME QueueInv, QueueInv', MaskInv, [Next]_vars
    PROVE  MaskInv'
<1> USE MaxTasksAssumption
<1>t. /\ ready \in Seq(Task) /\ sleepq \in Seq(Task)
      /\ Len(ready) \in Nat /\ DOMAIN ready = 1..Len(ready)
      /\ Injective(ready) /\ Injective(sleepq)
      /\ nextPid \in 1..(MaxTasks + 1) /\ ctx \in [Task -> Context]
      /\ iflag \in BOOLEAN
      /\ \A t \in Task : t < nextPid <=> In(t, ready) \/ In(t, sleepq)
      /\ \A i \in DOMAIN ready, j \in DOMAIN sleepq : ready[i] # sleepq[j]
      /\ nextPid > 1 => In(cur, ready)
  BY DEF QueueInv, TypeOK, QueuesPartition
<1>0. ASSUME UNCHANGED vars PROVE MaskInv'
  BY <1>0 DEF vars, MaskInv, WokenBeforeSuspended, NoMaskedDeadEnd, In,
              RoundRobinOrder
<1>1. CASE InitialiseTasking
  <2>1. ready' = <<nextPid>> /\ iflag'
    BY <1>1 DEF InitialiseTasking
  <2>2. \A p, c \in DOMAIN ready' : p = c
    BY <2>1
  <2> QED
    BY <2>1, <2>2 DEF MaskInv, WokenBeforeSuspended, NoMaskedDeadEnd
<1>2. CASE Fork
  <2>1. /\ ready' = Append(ready, nextPid) /\ cur' = cur /\ iflag'
        /\ ctx' = [ctx EXCEPT ![nextPid] = "child"]
        /\ nextPid \in Task
    BY <1>2, <1>t DEF Fork, Task
  <2>2. /\ DOMAIN ready' = 1..(Len(ready) + 1)
        /\ \A i \in 1..Len(ready) : ready'[i] = ready[i]
        /\ ready'[Len(ready) + 1] = nextPid
    BY <1>t, <2>1, AppendFacts
  <2>3. \A i \in DOMAIN ready :
           ready[i] \in Task /\ ready[i] # nextPid
           /\ ctx'[ready[i]] = ctx[ready[i]]
    <3>1. \A t \in Task : In(t, ready) => t < nextPid
      BY <1>t
    <3>2. ~In(nextPid, ready)
      BY <2>1, <3>1 DEF Task
    <3> QED
      BY <1>t, <2>1, <3>2 DEF In
  <2>4. In(cur, ready)
    <3>1. cur \in 0..(nextPid - 1) /\ cur # 0
      BY <1>2 DEF Fork, NoTask, QueueInv, TypeOK
    <3> QED
      BY <1>t, <3>1
  <2>5. cur # nextPid
    BY <2>3, <2>4 DEF In
  <2>6. WokenBeforeSuspended'
    <3> SUFFICES ASSUME NEW p \in DOMAIN ready', NEW c \in DOMAIN ready',
                        ready'[p] = cur', c # p, ctx'[ready'[c]] = "call"
                 PROVE  \E x \in DOMAIN ready' :
                           /\ ctx'[ready'[x]] = "irq"
                           /\ RoundRobinOrder(p, c, x)
      BY DEF WokenBeforeSuspended, RoundRobinOrder
    <3>1. ctx'[nextPid] = "child"
      BY <1>t, <2>1
    <3>2. p # Len(ready) + 1 /\ c # Len(ready) + 1
      BY <2>1, <2>2, <2>5, <3>1
    <3>3. p \in DOMAIN ready /\ c \in DOMAIN ready
      BY <1>t, <2>2, <3>2
    <3>4. ready[p] = cur /\ ctx[ready[c]] = "call"
      BY <1>t, <2>1, <2>2, <2>3, <3>3
    <3>5. PICK x \in DOMAIN ready :
             ctx[ready[x]] = "irq" /\ RoundRobinOrder(p, c, x)
      BY <3>3, <3>4 DEF MaskInv, WokenBeforeSuspended
    <3>6. x \in DOMAIN ready' /\ ctx'[ready'[x]] = "irq"
      BY <1>t, <2>2, <2>3, <3>5
    <3> QED
      BY <3>5, <3>6
  <2> QED
    BY <2>1, <2>6 DEF MaskInv, NoMaskedDeadEnd
<1>3. CASE \E n \in SleepArgs : Sleep(n)
  <2>1. PICK n \in SleepArgs : Sleep(n)
    BY <1>3
  <2>2. "call" \in Context
    BY DEF Context
  <2>3. CASE Suspend(n, "call", iflag)
    BY <1>t, <2>2, <2>3, SuspendMaskInv
  <2>4. CASE RefuseSleep
    BY <1>0, <2>4 DEF RefuseSleep
  <2> QED
    BY <2>1, <2>3, <2>4 DEF Sleep
<1>4. CASE \E n \in ShellArgs : ShellSleep(n)
  <2>1. PICK n \in ShellArgs : ShellSleep(n)
    BY <1>4
  <2>2. "irq" \in Context /\ FALSE \in BOOLEAN
    BY DEF Context
  <2>3. CASE Suspend(n, "irq", FALSE)
    BY <2>2, <2>3, SuspendMaskInv
  <2>4. CASE RefuseSleep
    BY <1>0, <2>4 DEF RefuseSleep
  <2> QED
    BY <2>1, <2>3, <2>4 DEF ShellSleep
<1>5. CASE TimerCallback
  <2>1. iflag /\ nextPid > 1
    BY <1>5, <1>t DEF TimerCallback
  <2>2. cur \in Task
    BY <1>t, <2>1 DEF In
  <2>3. CASE TickWake
    <3>1. PICK i \in DOMAIN sleepq : SwitchFromTimer(Append(ready, sleepq[i]))
      BY <2>3 DEF TickWake
    <3>2. Append(ready, sleepq[i]) \in Seq(Task)
      BY <1>t
    <3>3. Injective(Append(ready, sleepq[i]))
      BY <1>t, MoveFacts
    <3> QED
      BY <1>t, <2>1, <2>2, <3>1, <3>2, <3>3, SwitchMaskInv
  <2>4. CASE TickNoWake
    BY <1>t, <2>1, <2>2, <2>4, SwitchMaskInv DEF TickNoWake
  <2> QED
    BY <1>5, <2>3, <2>4 DEF TimerCallback
<1> QED
  BY <1>0, <1>1, <1>2, <1>3, <1>4, <1>5 DEF Next

(* The two parts of MaskInv are inductive together over QueueInv.          *)
LEMMA MaskInvAlways == Spec => []MaskInv
<1>1. Init => MaskInv
  BY DEF Init, MaskInv, WokenBeforeSuspended, NoMaskedDeadEnd
<1>2. Spec => []QueueInv
  BY QueueInvInit, QueueInvStep, PTL DEF Spec
<1>3. QueueInv /\ QueueInv' /\ MaskInv /\ [Next]_vars => MaskInv'
  BY MaskInvStep
<1> QED
  BY <1>1, <1>2, <1>3, PTL DEF Spec

(* However ticks, sleeps, forks and shell commands are interleaved, a task *)
(* that runs with interrupts off is never the only ready one, and the one  *)
(* that will turn them on again is in the ready queue.                     *)
THEOREM MaskedTaskCanSleep == Spec => []NoMaskedDeadEnd
<1>1. MaskInv => NoMaskedDeadEnd
  BY DEF MaskInv
<1> QED
  BY <1>1, MaskInvAlways, PTL

(* The round-robin order behind it: switch_task reaches a task woken by a  *)
(* tick before it comes back to the task that tick suspended.              *)
THEOREM WokenRunsFirst == Spec => []WokenBeforeSuspended
<1>1. MaskInv => WokenBeforeSuspended
  BY DEF MaskInv
<1> QED
  BY <1>1, MaskInvAlways, PTL

-----------------------------------------------------------------------------
(* Saved contexts.                                                         *)

(* A tick that switches tasks saves a context for the one it takes the     *)
(* processor from; q is the ready queue it finds.                          *)
LEMMA SwitchSavesContext ==
    ASSUME NEW q \in Seq(Task), cur \in Task, ctx \in [Task -> Context],
           SwitchFromTimer(q)
    PROVE  \A t \in Task :
              /\ ctx'[t] # "none" \/ ctx'[t] = ctx[t]
              /\ t # cur => ctx'[t] = ctx[t]
              /\ t = cur /\ t # cur' => ctx'[t] = "irq"
<1>1. CASE UNCHANGED <<cur, ctx, iflag>>
  BY <1>1
<1>2. CASE ctx' = [ctx EXCEPT ![cur] = "irq"]
  BY <1>2
<1> QED
  BY <1>1, <1>2 DEF SwitchFromTimer

(* sleep() saves the context of the task it takes out of the round.        *)
LEMMA SuspendResumable ==
    ASSUME QueueInv, Resumable, NEW n, NEW kind \in {"call", "irq"},
           NEW flag, Suspend(n, kind, flag)
    PROVE  Resumable'
<1>1. /\ ready \in Seq(Task) /\ sleepq \in Seq(Task)
      /\ Injective(ready) /\ Injective(sleepq) /\ ctx \in [Task -> Context]
      /\ \A i \in DOMAIN ready, j \in DOMAIN sleepq : ready[i] # sleepq[j]
  BY DEF QueueInv, TypeOK, QueuesPartition
<1>2. PICK k \in DOMAIN ready :
         /\ ready[k] = cur
         /\ ready' = Unlink(ready, k)
         /\ sleepq' = Append(sleepq, cur)
         /\ ctx' = [ctx EXCEPT ![cur] = kind]
  BY DEF Suspend
<1>3. /\ \A t : In(t, ready') <=> In(t, ready) /\ t # cur
      /\ \A t : In(t, sleepq') <=> In(t, sleepq) \/ t = cur
  BY <1>1, <1>2, MoveFacts
<1>4. \A t \in Task : ctx'[t] = IF t = cur THEN kind ELSE ctx[t]
  BY <1>1, <1>2
<1> QED
  BY <1>3, <1>4 DEF Resumable

(* Every action leaves a context for whatever can be switched to next.     *)
LEMMA ResumableStep ==
    ASSUME QueueInv, QueueInv', Resumable, [Next]_vars
    PROVE  Resumable'
<1> USE MaxTasksAssumption
<1>t. /\ ready \in Seq(Task) /\ sleepq \in Seq(Task)
      /\ Injective(ready) /\ Injective(sleepq)
      /\ nextPid \in 1..(MaxTasks + 1) /\ ctx \in [Task -> Context]
      /\ \A t \in Task : t < nextPid <=> In(t, ready) \/ In(t, sleepq)
      /\ \A i \in DOMAIN ready, j \in DOMAIN sleepq : ready[i] # sleepq[j]
      /\ nextPid > 1 => In(cur, ready)
  BY DEF QueueInv, TypeOK, QueuesPartition
<1>0. ASSUME UNCHANGED vars PROVE Resumable'
  BY <1>0 DEF vars, Resumable, In
<1>1. CASE InitialiseTasking
  <2>1. /\ ready' = <<nextPid>> /\ cur' = nextPid
        /\ sleepq' = sleepq /\ ctx' = ctx
    BY <1>1 DEF InitialiseTasking
  <2>2. \A t : In(t, ready') => t = cur'
    BY <2>1 DEF In
  <2> QED
    BY <2>1, <2>2 DEF Resumable, In
<1>2. CASE Fork
  <2>1. /\ ready' = Append(ready, nextPid) /\ cur' = cur /\ sleepq' = sleepq
        /\ ctx' = [ctx EXCEPT ![nextPid] = "child"]
        /\ nextPid \in Task
    BY <1>2, <1>t DEF Fork, Task
  <2>2. ~In(nextPid, sleepq)
    BY <1>t, <2>1 DEF Task
  <2>3. \A t : In(t, ready') => In(t, ready) \/ t = nextPid
    BY <1>t, <2>1, AppendFacts DEF In
  <2>4. \A t \in Task : ctx'[t] = IF t = nextPid THEN "child" ELSE ctx[t]
    BY <1>t, <2>1
  <2>5. \A t : In(t, sleepq') <=> In(t, sleepq)
    BY <2>1
  <2> QED
    BY <2>1, <2>2, <2>3, <2>4, <2>5 DEF Resumable
<1>3. CASE \E n \in SleepArgs : Sleep(n)
  BY <1>0, <1>3, SuspendResumable DEF Sleep, RefuseSleep
<1>4. CASE \E n \in ShellArgs : ShellSleep(n)
  BY <1>0, <1>4, SuspendResumable DEF ShellSleep, RefuseSleep
<1>5. CASE TimerCallback
  <2>1. nextPid > 1 /\ cur \in Task /\ In(cur, ready)
    BY <1>5, <1>t DEF TimerCallback, In
  <2>2. CASE TickWake
    <3>1. PICK i \in DOMAIN sleepq :
             /\ sleepq' = Unlink(sleepq, i)
             /\ SwitchFromTimer(Append(ready, sleepq[i]))
      BY <2>2 DEF TickWake
    <3> DEFINE q == Append(ready, sleepq[i])
    <3>2. /\ \A t : In(t, sleepq') <=> In(t, sleepq) /\ t # sleepq[i]
          /\ \A t : In(t, q) <=> In(t, ready) \/ t = sleepq[i]
      BY <1>t, <3>1, MoveFacts
    <3>3. q \in Seq(Task) /\ ready' = q /\ In(sleepq[i], sleepq)
      BY <1>t, <3>1 DEF SwitchFromTimer, In
    <3>4. SwitchFromTimer(q)
      BY <3>1
    <3> HIDE DEF q
    <3>5. \A t \in Task :
             /\ t # cur => ctx'[t] = ctx[t]
             /\ t = cur /\ t # cur' => ctx'[t] = "irq"
      BY <1>t, <2>1, <3>3, <3>4, SwitchSavesContext
    <3>6. ~In(cur, sleepq)
      BY <1>t, <2>1 DEF In
    <3> QED
      BY <3>2, <3>3, <3>5, <3>6 DEF Resumable
  <2>3. CASE TickNoWake
    <3>1. sleepq' = sleepq /\ SwitchFromTimer(ready) /\ ready' = ready
      BY <2>3 DEF TickNoWake, SwitchFromTimer
    <3>2. \A t \in Task :
             /\ t # cur => ctx'[t] = ctx[t]
             /\ t = cur /\ t # cur' => ctx'[t] = "irq"
      BY <1>t, <2>1, <3>1, SwitchSavesContext
    <3>3. ~In(cur, sleepq)
      BY <1>t, <2>1 DEF In
    <3>4. \A t : (In(t, ready') <=> In(t, ready)) /\ (In(t, sleepq') <=> In(t, sleepq))
      BY <3>1
    <3> QED
      BY <3>2, <3>3, <3>4 DEF Resumable
  <2> QED
    BY <1>5, <2>2, <2>3 DEF TimerCallback
<1> QED
  BY <1>0, <1>1, <1>2, <1>3, <1>4, <1>5 DEF Next

(* switch_task never jumps to a task whose eip, esp and ebp were not saved *)
(* before, and a sleeper is resumed inside sleep() or inside an interrupt. *)
THEOREM SwitchesToSavedContext == Spec => []Resumable
<1>1. Init => Resumable
  BY DEF Init, Resumable, In
<1>2. Spec => []QueueInv
  BY QueueInvInit, QueueInvStep, PTL DEF Spec
<1>3. QueueInv /\ QueueInv' /\ Resumable /\ [Next]_vars => Resumable'
  BY ResumableStep
<1> QED
  BY <1>1, <1>2, <1>3, PTL DEF Spec
=============================================================================

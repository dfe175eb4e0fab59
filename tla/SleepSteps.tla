----------------------------- MODULE SleepSteps -----------------------------
(***************************************************************************)
(* sleep() and switch_task() statement by statement, on the task structs,  *)
(* list heads and next links of cpu/task.c and cpu/timer.c.  Neither       *)
(* function masks interrupts, so the timer interrupt may be taken between  *)
(* any two of their statements; until that happens the module implements   *)
(* Scheduler.  The interrupt handler itself runs masked and is one step.   *)
(* Deadlines are unsigned sums and wrap at TickMod.                        *)
(*                                                                         *)
(* run is the task whose stack the processor is on.  It differs from       *)
(* current_task between the assignment to current_task and the jump at the *)
(* end of switch_task.                                                     *)
(***************************************************************************)
EXTENDS Integers, Sequences, SequencesExt

CONSTANTS
    MaxTasks,        \* a bound on the processes fork() creates
    SleepArgs,       \* the arguments tasks pass to sleep()
    MaxTick,         \* a bound on the tick counter
    TickMod          \* deadlines are computed modulo this, 2^32 in the code

ASSUME SleepStepsAssumption ==
    /\ MaxTasks \in Nat \ {0}
    /\ SleepArgs \subseteq Nat \ {0}
    /\ TickMod \in Nat
    /\ MaxTick \in 0..(TickMod - 1)

VARIABLES
    next,       \* the next link of every task struct
    readyQ,     \* ready_queue
    sleepQ,     \* sleep_queue
    current,    \* current_task
    tmpCur,     \* tmp_current_task, a global
    eos,        \* end_of_sleep of every task struct
    saved,      \* the eip/esp/ebp of every task struct: whose stack, what kind
                \* of context, and whether it is still suspended there
    nextPid, tick,
    run, iflag, \* the stack the processor is on, and its interrupt flag
    pc, it, arg,\* per stack: the next statement, the iterator, the argument
    fault,      \* the processor has read NULL or jumped to a dead context
    hit,        \* history: a tick has been taken inside sleep()
    wrapped,    \* history: a deadline has wrapped, and one that is 0
    snap        \* history: queues and contexts when sleep() was entered

list == <<next, readyQ, sleepQ>>
task == <<eos, saved, nextPid>>
stack == <<pc, it, arg>>
history == <<hit, wrapped, snap>>
vars == <<list, current, tmpCur, task, tick, run, iflag, stack, fault,
          history>>

NULL == 0
Task == 1..MaxTasks
NoContext == [owner |-> NULL, kind |-> "none", live |-> FALSE]
Label == {"boot", "user", "stamp", "enqueue", "walk", "link", "save", "pick",
          "wrap", "unlink", "seek", "skip", "clear", "set", "jump"}

(* The tasks met from h along the links nx; a list that is longer than     *)
(* MaxTasks has a cycle.                                                   *)
Walk(nx, h) ==
    LET w[k \in 0..MaxTasks] ==
          IF k = 0 THEN h ELSE IF w[k - 1] = NULL THEN NULL ELSE nx[w[k - 1]]
    IN  w

Chain(nx, h) ==
    LET w == Walk(nx, h)
    IN  [k \in 1..Min({j \in 0..MaxTasks : j = MaxTasks \/ w[j] = NULL}) |-> w[k - 1]]

(* The kinds of context in the task structs.                               *)
Kinds == [t \in Task |-> saved[t].kind]

Cyclic(nx, h) == Walk(nx, h)[MaxTasks] # NULL

Init ==
    /\ next = [t \in Task |-> NULL] /\ readyQ = NULL /\ sleepQ = NULL
    /\ current = NULL /\ tmpCur = NULL
    /\ eos = [t \in Task |-> 0] /\ saved = [t \in Task |-> NoContext]
    /\ nextPid = 1 /\ tick = 0 /\ iflag = TRUE /\ run = 1
    /\ pc = [t \in Task |-> IF t = 1 THEN "boot" ELSE "user"]
    /\ it = [t \in Task |-> NULL] /\ arg = [t \in Task |-> 0]
    /\ fault = FALSE /\ hit = FALSE /\ wrapped = "no"
    /\ snap = [ready |-> <<>>, sleepq |-> <<>>, kinds |-> [t \in Task |-> "none"]]

-----------------------------------------------------------------------------
(* Plausible bugs of the code, for the mutation checks of the README.      *)

NextByPid ==
    /\ ~fault /\ pc[run] = "pick" /\ pc' = [pc EXCEPT ![run] = "wrap"]
    /\ tmpCur' = current + 1
    /\ UNCHANGED <<list, current, task, tick, run, iflag, it, arg, fault, history>>

LinkKept ==
    /\ ~fault /\ pc[run] = "clear" /\ pc' = [pc EXCEPT ![run] = "set"]
    /\ UNCHANGED <<list, current, tmpCur, task, tick, run, iflag, it, arg, fault,
                   history>>

-----------------------------------------------------------------------------
At(label) == ~fault /\ pc[run] = label
Goto(label) == pc' = [pc EXCEPT ![run] = label]
SetIt(t) == it' = [it EXCEPT ![run] = t]

OnlyTask == current = readyQ /\ next[readyQ] = NULL

InitialiseTasking ==
    /\ At("boot") /\ Goto("user")
    /\ current' = nextPid /\ readyQ' = nextPid /\ nextPid' = nextPid + 1
    /\ iflag' = TRUE
    /\ UNCHANGED <<next, sleepQ, tmpCur, eos, saved, tick, run, it, arg, fault,
                   history>>

Fork ==
    /\ At("user") /\ nextPid <= MaxTasks
    /\ next' = [next EXCEPT ![Last(Chain(next, readyQ))] = nextPid]
    /\ saved' = [saved EXCEPT ![nextPid] =
                   [owner |-> nextPid, kind |-> "child", live |-> TRUE]]
    /\ nextPid' = nextPid + 1 /\ iflag' = TRUE
    /\ UNCHANGED <<readyQ, sleepQ, current, tmpCur, eos, tick, run, stack,
                   fault, history>>

-----------------------------------------------------------------------------
(* sleep(), from its guard to the call of switch_task.                     *)
CallSleep(n) ==
    /\ At("user") /\ ~OnlyTask
    /\ Goto("stamp") /\ arg' = [arg EXCEPT ![run] = n]
    /\ snap' = [ready |-> Chain(next, readyQ), sleepq |-> Chain(next, sleepQ),
                kinds |-> Kinds]
    /\ UNCHANGED <<list, current, tmpCur, task, tick, run, iflag, it, fault,
                   hit, wrapped>>

Stamp ==
    /\ At("stamp") /\ Goto("enqueue")
    /\ eos' = [eos EXCEPT ![current] = (tick + arg[run]) % TickMod]
    /\ wrapped' = IF tick + arg[run] < TickMod \/ wrapped = "to zero" THEN wrapped
                  ELSE IF eos'[current] = 0 THEN "to zero" ELSE "yes"
    /\ UNCHANGED <<list, current, tmpCur, saved, nextPid, tick, run, iflag,
                   it, arg, fault, hit, snap>>

EnqueueOnly ==
    /\ At("enqueue") /\ sleepQ = NULL
    /\ sleepQ' = current
    /\ Goto("save")
    /\ UNCHANGED <<next, readyQ, current, tmpCur, task, tick, run, iflag, it,
                   arg, fault, history>>

EnqueueStart ==
    /\ At("enqueue") /\ sleepQ # NULL
    /\ SetIt(sleepQ) /\ Goto("walk")
    /\ UNCHANGED <<list, current, tmpCur, task, tick, run, iflag, arg, fault, history>>

EnqueueWalk ==
    /\ At("walk")
    /\ \/ next[it[run]] # NULL /\ SetIt(next[it[run]]) /\ UNCHANGED pc
       \/ next[it[run]] = NULL /\ Goto("link") /\ UNCHANGED it
    /\ UNCHANGED <<list, current, tmpCur, task, tick, run, iflag, arg, fault, history>>

EnqueueLink ==
    /\ At("link") /\ Goto("save")
    /\ next' = [next EXCEPT ![it[run]] = current]
    /\ UNCHANGED <<readyQ, sleepQ, current, tmpCur, task, tick, run, iflag, it,
                   arg, fault, history>>

-----------------------------------------------------------------------------
(* switch_task() as called by sleep().                                     *)
Save(kind) ==
    saved' = [saved EXCEPT ![current] =
                [owner |-> run, kind |-> kind, live |-> TRUE]]

SaveContext ==
    /\ At("save")
    /\ \/ OnlyTask /\ Goto("user") /\ UNCHANGED saved
       \/ ~OnlyTask /\ Save("call") /\ Goto("pick")
    /\ UNCHANGED <<list, current, tmpCur, eos, nextPid, tick, run, iflag, it,
                   arg, fault, history>>

PickNext ==
    /\ At("pick") /\ Goto("wrap")
    /\ tmpCur' = next[current]
    /\ UNCHANGED <<list, current, task, tick, run, iflag, it, arg, fault, history>>

WrapNext ==
    /\ At("wrap") /\ Goto("unlink")
    /\ tmpCur' = IF tmpCur = NULL THEN readyQ ELSE tmpCur
    /\ UNCHANGED <<list, current, task, tick, run, iflag, it, arg, fault, history>>

UnlinkStart ==
    /\ At("unlink")
    /\ \/ eos[current] = 0 /\ Goto("set") /\ UNCHANGED <<readyQ, it>>
       \/ /\ eos[current] # 0 /\ readyQ = current
          /\ readyQ' = next[current] /\ Goto("clear") /\ UNCHANGED it
       \/ /\ eos[current] # 0 /\ readyQ # current
          /\ SetIt(readyQ) /\ Goto("seek") /\ UNCHANGED readyQ
    /\ UNCHANGED <<next, sleepQ, current, tmpCur, task, tick, run, iflag, arg,
                   fault, history>>

UnlinkSeek ==
    /\ At("seek")
    /\ \/ it[run] = NULL /\ fault' = TRUE /\ UNCHANGED <<pc, it>>
       \/ /\ it[run] # NULL /\ next[it[run]] # current
          /\ SetIt(next[it[run]]) /\ UNCHANGED <<pc, fault>>
       \/ /\ it[run] # NULL /\ next[it[run]] = current
          /\ Goto("skip") /\ UNCHANGED <<it, fault>>
    /\ UNCHANGED <<list, current, tmpCur, task, tick, run, iflag, arg, history>>

UnlinkSkip ==
    /\ At("skip") /\ Goto("clear")
    /\ next' = [next EXCEPT ![it[run]] = next[current]]
    /\ UNCHANGED <<readyQ, sleepQ, current, tmpCur, task, tick, run, iflag, it,
                   arg, fault, history>>

UnlinkClear ==
    /\ At("clear") /\ Goto("set")
    /\ next' = [next EXCEPT ![current] = NULL]
    /\ UNCHANGED <<readyQ, sleepQ, current, tmpCur, task, tick, run, iflag, it,
                   arg, fault, history>>

SetCurrent ==
    /\ At("set") /\ Goto("jump")
    /\ current' = tmpCur
    /\ UNCHANGED <<list, tmpCur, task, tick, run, iflag, it, arg, fault, history>>

(***************************************************************************)
(* The jump to the context ctxs[u] of task u.  A context in an interrupt   *)
(* handler leads back to the interrupted statement of u, the others to the *)
(* return of sleep() or fork().  A context that nobody is suspended in, or *)
(* that lies on another task's stack, sends the processor astray.          *)
(***************************************************************************)
Sound(u, ctxs) == u # NULL /\ ctxs[u].live /\ ctxs[u].owner = u

Jump(u, ctxs, flag) ==
    \/ /\ Sound(u, ctxs)
       /\ run' = u
       /\ iflag' = (flag \/ ctxs[u].kind # "call")
       /\ pc' = IF ctxs[u].kind = "irq" THEN pc ELSE [pc EXCEPT ![u] = "user"]
       /\ saved' = [ctxs EXCEPT ![u].live = FALSE]
       /\ UNCHANGED fault
    \/ /\ ~Sound(u, ctxs)
       /\ fault' = TRUE
       /\ saved' = ctxs
       /\ UNCHANGED <<run, iflag, pc>>

JumpFromSleep ==
    /\ At("jump")
    /\ Jump(current, saved, iflag)
    /\ UNCHANGED <<list, current, tmpCur, eos, nextPid, tick, it, arg, history>>

SleepStep ==
    \/ Stamp \/ EnqueueOnly \/ EnqueueStart \/ EnqueueWalk \/ EnqueueLink
    \/ SaveContext \/ PickNext \/ WrapNext \/ UnlinkStart \/ UnlinkSeek
    \/ UnlinkSkip \/ UnlinkClear \/ SetCurrent \/ JumpFromSleep

-----------------------------------------------------------------------------
(* timer_callback, which runs masked: one step on lists as it finds them.  *)

Sleepers == Chain(next, sleepQ)

Expired(i) == tick + 1 > eos[Sleepers[i]]

FirstExpired(i) == Expired(i) /\ \A j \in 1..(i - 1) : ~Expired(j)

(* The links after the task at position i of the sleep list has been taken *)
(* out of it, and then moved to the end of the ready list.                 *)
CutLinks(i) ==
    IF i = 1 THEN next
    ELSE [next EXCEPT ![Sleepers[i - 1]] = next[Sleepers[i]]]

WokenLinks(i) ==
    [CutLinks(i) EXCEPT ![Last(Chain(CutLinks(i), readyQ))] = Sleepers[i],
                        ![Sleepers[i]] = NULL]

(* switch_task() as called by the handler, on the links nx and deadlines e *)
(* that the handler leaves.                                                *)
SwitchFromTimer(nx, e) ==
    LET u == IF nx[current] = NULL THEN readyQ ELSE nx[current]
        ctxs == [saved EXCEPT ![current] =
                   [owner |-> run, kind |-> "irq", live |-> TRUE]]
        preds == {p \in ToSet(Chain(nx, readyQ)) : nx[p] = current}
    IN  \/ /\ current = readyQ /\ nx[readyQ] = NULL
           /\ next' = nx
           /\ UNCHANGED <<readyQ, current, tmpCur, saved, run, iflag, pc, fault>>
        \/ /\ ~(current = readyQ /\ nx[readyQ] = NULL)
           /\ e[current] = 0 \/ readyQ = current \/ preds # {}
           /\ \/ e[current] = 0 /\ next' = nx /\ UNCHANGED readyQ
              \/ /\ e[current] # 0 /\ readyQ = current
                 /\ readyQ' = nx[current]
                 /\ next' = [nx EXCEPT ![current] = NULL]
              \/ /\ e[current] # 0 /\ readyQ # current
                 /\ UNCHANGED readyQ
                 /\ \E p \in preds :
                       next' = [nx EXCEPT ![p] = nx[current], ![current] = NULL]
           /\ current' = u /\ tmpCur' = u
           /\ Jump(u, ctxs, FALSE)
        \/ /\ ~(current = readyQ /\ nx[readyQ] = NULL)
           /\ e[current] # 0 /\ readyQ # current /\ preds = {}
           /\ fault' = TRUE
           /\ next' = nx
           /\ UNCHANGED <<readyQ, current, tmpCur, saved, run, iflag, pc>>

(* A list walk of the handler that never ends or starts from NULL.         *)
TimerAstray ==
    /\ fault' = TRUE
    /\ UNCHANGED <<list, current, tmpCur, eos, saved, run, iflag, pc>>

TimerWake ==
    \E i \in DOMAIN Sleepers :
       /\ FirstExpired(i)
       /\ \/ /\ readyQ # NULL /\ ~Cyclic(CutLinks(i), readyQ)
             /\ sleepQ' = IF i = 1 THEN next[Sleepers[i]] ELSE sleepQ
             /\ eos' = [eos EXCEPT ![Sleepers[i]] = 0]
             /\ SwitchFromTimer(WokenLinks(i), eos')
          \/ /\ readyQ = NULL \/ Cyclic(CutLinks(i), readyQ)
             /\ TimerAstray

TimerNoWake ==
    /\ \A i \in DOMAIN Sleepers : ~Expired(i)
    /\ \/ /\ ~Cyclic(next, sleepQ)
          /\ SwitchFromTimer(next, eos)
          /\ UNCHANGED <<sleepQ, eos>>
       \/ Cyclic(next, sleepQ) /\ TimerAstray

TimerCallback ==
    /\ ~fault /\ iflag /\ nextPid # 1
    /\ tick < MaxTick /\ tick' = tick + 1
    /\ TimerWake \/ TimerNoWake
    /\ hit' = (hit \/ pc[run] # "user")
    /\ UNCHANGED <<nextPid, it, arg, wrapped, snap>>

Next ==
    \/ InitialiseTasking
    \/ Fork
    \/ \E n \in SleepArgs : CallSleep(n)
    \/ SleepStep
    \/ TimerCallback

Spec == Init /\ [][Next]_vars

-----------------------------------------------------------------------------
(* The task structs, list heads and per-stack state hold values of their   *)
(* C types.                                                                *)
TypeOK ==
    /\ next \in [Task -> Task \cup {NULL}]
    /\ {readyQ, sleepQ, current, tmpCur} \subseteq Task \cup {NULL}
    /\ eos \in [Task -> Nat]
    /\ \A t \in Task : /\ saved[t].owner \in Task \cup {NULL}
                       /\ saved[t].kind \in {"none", "irq", "call", "child"}
                       /\ saved[t].live \in BOOLEAN
    /\ nextPid \in 1..(MaxTasks + 1) /\ tick \in 0..MaxTick
    /\ run \in Task /\ {iflag, fault, hit} \subseteq BOOLEAN
    /\ pc \in [Task -> Label] /\ wrapped \in {"no", "yes", "to zero"}

(***************************************************************************)
(* switch_task() only ever jumps to a context its owner is suspended in,   *)
(* on the owner's own stack, and no list walk of task.c and timer.c runs   *)
(* off a list or round a cycle.                                            *)
(***************************************************************************)
SoundJumps == ~fault

(***************************************************************************)
(* Every process stays on a list from which timer_callback or switch_task  *)
(* will reach it, also half way through sleep().                           *)
(***************************************************************************)
NoTaskLost ==
    \A t \in 1..(nextPid - 1) :
       Contains(Chain(next, readyQ), t) \/ Contains(Chain(next, sleepQ), t)

(***************************************************************************)
(* Both hold until the first tick that is taken inside sleep(), or until a *)
(* deadline wraps to exactly 0, which switch_task() takes for `not asleep' *)
(* and leaves the task on both lists.  Whatever goes wrong in the lists    *)
(* and the contexts starts with one of these; other wrapped deadlines only *)
(* end a sleep early.                                                      *)
(***************************************************************************)
SoundUntilPreempted ==
    hit \/ wrapped = "to zero" \/ (SoundJumps /\ NoTaskLost)

(***************************************************************************)
(* The abstraction: the two lists as sequences, as they were on entry      *)
(* while sleep() is under way, and deadlines relative to the tick.         *)
(***************************************************************************)
Stable == pc[run] \in {"boot", "user"}
AbsReady == IF Stable THEN Chain(next, readyQ) ELSE snap.ready
AbsSleepq == IF Stable THEN Chain(next, sleepQ) ELSE snap.sleepq
AbsCur == IF Stable THEN current ELSE run
AbsLeft == [t \in Task |-> IF Contains(AbsSleepq, t) THEN eos[t] - tick ELSE 0]
AbsCtx == IF Stable THEN Kinds ELSE snap.kinds

Abstract == INSTANCE Scheduler WITH
    ready <- AbsReady, sleepq <- AbsSleepq, cur <- AbsCur, left <- AbsLeft,
    ctx <- AbsCtx, ShellArgs <- {}

(***************************************************************************)
(* As long as no tick has interrupted sleep() and no deadline has wrapped, *)
(* the statements of sleep(), switch_task() and timer_callback() on linked *)
(* lists implement the queue operations of Scheduler.                      *)
(***************************************************************************)
ImplementsUntilPreempted ==
    /\ Abstract!Init
    /\ [][hit' \/ wrapped' # "no" \/ Abstract!Next]_(Abstract!vars)
=============================================================================

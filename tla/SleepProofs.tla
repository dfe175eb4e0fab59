---------------------------- MODULE SleepProofs ----------------------------
(***************************************************************************)
(* Proofs about SleepSteps for every number of tasks: until a tick is      *)
(* taken inside sleep(), or a deadline wraps to 0, the statements of       *)
(* sleep(), switch_task() and timer_callback() keep every task on a linked *)
(* list and jump to sound contexts only, and until a deadline wraps at all *)
(* they implement the queue operations of Scheduler.                       *)
(***************************************************************************)
EXTENDS SleepSteps, SequenceTheorems, WellFoundedInduction, TLAPS

-----------------------------------------------------------------------------
(* The inductive invariant.                                                *)

In(t, q) == \E i \in DOMAIN q : q[i] = t

Injective(q) == \A i, j \in DOMAIN q : q[i] = q[j] => i = j

(* Following nx from h one meets the tasks of q in order, and then e.      *)
Seg(nx, h, q, e) ==
    /\ h = IF q = <<>> THEN e ELSE q[1]
    /\ \A i \in DOMAIN q : nx[q[i]] = IF i < Len(q) THEN q[i + 1] ELSE e

Link == Task \cup {NULL}
Kind == {"none", "irq", "call", "child"}

Typed ==
    /\ next \in [Task -> Link] /\ eos \in [Task -> Nat]
    /\ readyQ \in Link /\ sleepQ \in Link /\ current \in Link /\ tmpCur \in Link
    /\ saved \in [Task -> [owner : Link, kind : Kind, live : BOOLEAN]]
    /\ nextPid \in 1..(MaxTasks + 1) /\ tick \in 0..MaxTick
    /\ run \in Task /\ iflag \in BOOLEAN /\ fault = FALSE /\ hit = FALSE
    /\ pc \in [Task -> Label] /\ it \in [Task -> Link] /\ arg \in [Task -> Nat]
    /\ wrapped \in {"no", "yes"}
    /\ snap \in [ready : Seq(Task), sleepq : Seq(Task), kinds : [Task -> Kind]]

(* Every process is on exactly one of the two lists, exactly once.         *)
Partition(r, z, n) ==
    /\ r \in Seq(Task) /\ z \in Seq(Task)
    /\ Injective(r) /\ Injective(z)
    /\ \A i \in DOMAIN r, j \in DOMAIN z : r[i] # z[j]
    /\ \A t \in Task : t < n <=> In(t, r) \/ In(t, z)
    /\ Len(r) + Len(z) = n - 1

(* The processes that do not run are suspended on their own stacks, those  *)
(* in an interrupt handler with their own code at rest.                    *)
Suspended ==
    \A t \in Task : t < nextPid /\ t # run =>
       /\ saved[t].live = TRUE /\ saved[t].owner = t /\ saved[t].kind # "none"
       /\ saved[t].kind = "irq" => pc[t] = "user"

(* Only sleepers have a deadline, and structs not yet in use are clear.    *)
Unstamped ==
    \A t \in Task :
       /\ t >= nextPid => eos[t] = 0 /\ next[t] = NULL
       /\ In(t, AbsReady) /\ (t # run \/ pc[run] \in {"user", "stamp"}) => eos[t] = 0

(* Between calls of sleep() the links spell the two lists.                 *)
AtRest ==
    Stable => /\ Seg(next, readyQ, AbsReady, NULL)
              /\ Seg(next, sleepQ, AbsSleepq, NULL)
              /\ pc[run] = "boot" => nextPid = 1 /\ run = 1 /\ current = NULL
              /\ pc[run] = "user" => nextPid > 1 /\ current = run /\ In(run, AbsReady)

(* The round-robin successor of the task at position k.                    *)
After(q, k) == IF k < Len(q) THEN q[k + 1] ELSE q[1]

Linking == {"stamp", "enqueue", "walk", "link"}
Unlinking == {"save", "pick", "wrap", "unlink", "seek", "skip"}

(* How far sleep() has got with the lists r and z it found, where the      *)
(* caller is at position k of r.                                           *)
SleepAt(label, r, z, k) ==
    /\ label \in Linking =>
          Seg(next, readyQ, r, NULL) /\ Seg(next, sleepQ, z, NULL)
    /\ label = "walk" => \E j \in DOMAIN z : it[run] = z[j]
    /\ label = "link" => Len(z) > 0 /\ it[run] = z[Len(z)]
    /\ label \in Unlinking =>
          Seg(next, readyQ, r, NULL) /\ Seg(next, sleepQ, z, run)
    /\ label = "wrap" => tmpCur = IF k < Len(r) THEN r[k + 1] ELSE NULL
    /\ label \in {"unlink", "seek", "skip", "clear", "set"} => tmpCur = After(r, k)
    /\ label = "seek" => \E j \in 1..(k - 1) : it[run] = r[j]
    /\ label = "skip" => k > 1 /\ it[run] = r[k - 1]
    /\ label = "clear" =>
          Seg(next, readyQ, RemoveAt(r, k), NULL) /\ Seg(next, sleepQ, z, run)
    /\ label \in {"set", "jump"} =>
          /\ Seg(next, readyQ, RemoveAt(r, k), NULL)
          /\ Seg(next, sleepQ, Append(z, run), NULL)
    /\ current = IF label = "jump" THEN After(r, k) ELSE run
    /\ label \notin Linking \cup {"save"} =>
          saved[run] = [owner |-> run, kind |-> "call", live |-> TRUE]
    /\ label # "stamp" =>
          eos[run] # 0 /\ (wrapped = "no" => eos[run] = tick + arg[run])

InSleep ==
    ~Stable => /\ nextPid > 1 /\ Len(snap.ready) > 1 /\ arg[run] \in SleepArgs
               /\ \A t \in Task : t # run => snap.kinds[t] = saved[t].kind
               /\ \E k \in DOMAIN snap.ready :
                     /\ snap.ready[k] = run
                     /\ SleepAt(pc[run], snap.ready, snap.sleepq, k)

Good ==
    /\ Typed /\ Partition(AbsReady, AbsSleepq, nextPid)
    /\ Suspended /\ Unstamped /\ AtRest /\ InSleep

SleepInv == hit \/ wrapped = "to zero" \/ Good

-----------------------------------------------------------------------------
(* The walk along the links of a list.                                     *)

(* A set of natural numbers has a least element.                           *)
LEMMA LeastFacts ==
    ASSUME NEW S \in SUBSET Nat, S # {}
    PROVE  Min(S) \in S /\ \A y \in S : Min(S) <= y
<1>1. PICK x \in S : \A y \in S : ~(<<y, x>> \in OpToRel(<, Nat))
  BY NatLessThanWellFounded, WFMin
<1>2. \A y \in S : x <= y
  <2> SUFFICES ASSUME NEW y \in S, y < x PROVE FALSE
    OBVIOUS
  <2>1. <<y, x>> \in {ss \in Nat \X Nat : ss[1] < ss[2]}
    OBVIOUS
  <2> QED
    BY <1>1, <2>1 DEF OpToRel
<1> QED
  BY <1>2 DEF Min

(* One step of the walk that is in state v.                                *)
Follow(nx, v) == IF v = NULL THEN NULL ELSE nx[v]

(* f takes the first n steps of the walk.                                  *)
WalkTo(nx, h, n, f) == f = [k \in 0..n |-> IF k = 0 THEN h ELSE Follow(nx, f[k - 1])]

(* The walk can always take one more step.                                 *)
LEMMA WalkFurther ==
    ASSUME NEW nx, NEW h, NEW n \in Nat, NEW g, WalkTo(nx, h, n, g)
    PROVE  \E f : WalkTo(nx, h, n + 1, f)
<1> DEFINE f == [k \in 0..(n + 1) |-> IF k <= n THEN g[k] ELSE Follow(nx, g[n])]
           r == [k \in 0..(n + 1) |-> IF k = 0 THEN h ELSE Follow(nx, f[k - 1])]
<1>1. \A k \in 0..n : g[k] = IF k = 0 THEN h ELSE Follow(nx, g[k - 1])
  BY DEF WalkTo
<1>2. ASSUME NEW k \in 0..(n + 1) PROVE f[k] = r[k]
  <2>1. CASE k = 0
    BY <1>1, <2>1
  <2>2. CASE k \in 1..n
    <3>1. k - 1 \in 0..(n + 1) /\ k - 1 <= n /\ k <= n /\ k # 0 /\ k \in 0..n
      BY <2>2
    <3>2. f[k] = g[k] /\ f[k - 1] = g[k - 1]
      BY <3>1
    <3>3. r[k] = Follow(nx, f[k - 1])
      BY <3>1
    <3>4. g[k] = Follow(nx, g[k - 1])
      BY <1>1, <3>1
    <3> HIDE DEF f, r
    <3> QED
      BY <3>2, <3>3, <3>4
  <2>3. CASE k = n + 1
    <3>1. k - 1 = n /\ ~(k <= n) /\ k # 0 /\ n \in 0..(n + 1)
      BY <2>3
    <3>2. f[k] = Follow(nx, g[n]) /\ f[n] = g[n]
      BY <3>1
    <3>3. r[k] = Follow(nx, f[k - 1])
      BY <3>1
    <3> HIDE DEF f, r
    <3> QED
      BY <3>1, <3>2, <3>3
  <2> QED
    BY <2>1, <2>2, <2>3
<1>3. f = r
  <2> DEFINE D == 0..(n + 1)
  <2>1. f = [k \in D |-> f[k]] /\ r = [k \in D |-> r[k]]
    OBVIOUS
  <2> HIDE DEF f, r
  <2> QED
    BY <1>2, <2>1
<1> QED
  <2>1. WalkTo(nx, h, n + 1, f)
    BY <1>3 DEF WalkTo
  <2> HIDE DEF f
  <2> QED
    BY <2>1

(* The recursive definition of Walk has a solution.                        *)
LEMMA WalkExists ==
    ASSUME NEW nx, NEW h, NEW n \in Nat
    PROVE  \E f : WalkTo(nx, h, n, f)
<1> DEFINE S == {m \in Nat : ~\E f : WalkTo(nx, h, m, f)}
<1> SUFFICES ASSUME S # {} PROVE FALSE
  OBVIOUS
<1>1. Min(S) \in S /\ \A y \in S : Min(S) <= y
  <2>1. S \in SUBSET Nat
    OBVIOUS
  <2> HIDE DEF S
  <2> QED
    BY <2>1, LeastFacts
<1> DEFINE m == Min(S)
<1>2. CASE m = 0
  <2> DEFINE f == [k \in 0..0 |-> h]
  <2>1. f = [k \in 0..0 |-> IF k = 0 THEN h ELSE Follow(nx, f[k - 1])]
    OBVIOUS
  <2>2. WalkTo(nx, h, 0, f)
    BY <2>1 DEF WalkTo
  <2> HIDE DEF f
  <2> QED
    BY <1>1, <1>2, <2>2
<1>3. CASE m # 0
  <2> HIDE DEF m
  <2>1. m \in Nat /\ m - 1 \in Nat /\ m - 1 + 1 = m /\ ~(m <= m - 1)
    BY <1>1, <1>3 DEF m
  <2>2. m - 1 \notin S /\ m \in S
    BY <1>1, <2>1 DEF m
  <2>3. PICK g : WalkTo(nx, h, m - 1, g)
    BY <2>1, <2>2
  <2>4. \E f : WalkTo(nx, h, m - 1 + 1, f)
    BY <2>1, <2>3, WalkFurther
  <2> QED
    BY <2>1, <2>2, <2>4
<1> QED
  BY <1>2, <1>3

(* Walk starts at h and follows the links from there.                      *)
LEMMA WalkFacts ==
    ASSUME NEW nx, NEW h
    PROVE  /\ Walk(nx, h)[0] = h
           /\ \A k \in 0..(MaxTasks - 1) : Walk(nx, h)[k + 1] = Follow(nx, Walk(nx, h)[k])
<1> DEFINE w == Walk(nx, h)
<1>0. MaxTasks \in Nat
  BY SleepStepsAssumption
<1>1. PICK f : WalkTo(nx, h, MaxTasks, f)
  BY <1>0, WalkExists
<1>2. f = [k \in 0..MaxTasks |->
             IF k = 0 THEN h ELSE IF f[k - 1] = NULL THEN NULL ELSE nx[f[k - 1]]]
  BY <1>1 DEF WalkTo, Follow
<1>3. w = [k \in 0..MaxTasks |->
             IF k = 0 THEN h ELSE IF w[k - 1] = NULL THEN NULL ELSE nx[w[k - 1]]]
  BY <1>2 DEF Walk
<1> HIDE DEF w
<1>4. \A k \in 0..MaxTasks : w[k] = IF k = 0 THEN h ELSE Follow(nx, w[k - 1])
  BY <1>3 DEF Follow
<1>5. ASSUME NEW k \in 0..(MaxTasks - 1) PROVE w[k + 1] = Follow(nx, w[k])
  <2>1. k + 1 \in 0..MaxTasks /\ k + 1 # 0 /\ k + 1 - 1 = k
    BY <1>0
  <2> QED
    BY <1>4, <2>1
<1> QED
  BY <1>0, <1>4, <1>5 DEF w

(* The walk meets the tasks of a segment in order, and then its end.       *)
LEMMA SegWalk ==
    ASSUME NEW nx, NEW h, NEW e, NEW q \in Seq(Task), Seg(nx, h, q, e),
           Len(q) <= MaxTasks
    PROVE  \A i \in 0..Len(q) : Walk(nx, h)[i] = IF i < Len(q) THEN q[i + 1] ELSE e
<1> DEFINE w == Walk(nx, h)
           at(i) == IF i < Len(q) THEN q[i + 1] ELSE e
           S == {i \in 0..Len(q) : w[i] # at(i)}
<1>0. MaxTasks \in Nat /\ Len(q) \in Nat /\ DOMAIN q = 1..Len(q)
  BY SleepStepsAssumption
<1>1. w[0] = h /\ \A k \in 0..(MaxTasks - 1) : w[k + 1] = Follow(nx, w[k])
  BY WalkFacts
<1> HIDE DEF w
<1> SUFFICES ASSUME S # {} PROVE FALSE
  BY DEF w
<1>2. Min(S) \in S /\ \A y \in S : Min(S) <= y
  <2>1. S \in SUBSET Nat
    BY <1>0
  <2> HIDE DEF S
  <2> QED
    BY <2>1, LeastFacts
<1> DEFINE m == Min(S)
<1>3. m \in 0..Len(q) /\ w[m] # at(m)
  BY <1>2
<1>4. w[0] = at(0)
  <2>1. h = at(0)
    BY <1>0 DEF Seg
  <2> QED
    BY <1>1, <2>1
<1>5. m # 0
  BY <1>3, <1>4
<1> HIDE DEF m
<1>6. /\ m - 1 \in 0..Len(q) /\ m - 1 \in 0..(MaxTasks - 1) /\ m - 1 + 1 = m
      /\ m - 1 < Len(q) /\ m \in 1..Len(q) /\ ~(m <= m - 1)
  BY <1>0, <1>3, <1>5
<1>7. w[m - 1] = at(m - 1)
  BY <1>2, <1>6 DEF m
<1>8. w[m - 1] = q[m]
  BY <1>6, <1>7
<1>9. w[m] = nx[q[m]]
  <2>1. q[m] # NULL
    BY <1>0, <1>6 DEF Task, NULL
  <2>2. w[m - 1 + 1] = Follow(nx, w[m - 1])
    BY <1>1, <1>6
  <2> QED
    BY <1>6, <1>8, <2>1, <2>2 DEF Follow
<1>10. nx[q[m]] = at(m)
  BY <1>0, <1>6 DEF Seg
<1> QED
  BY <1>3, <1>9, <1>10

(* A walk that has come to NULL stays there.                               *)
LEMMA WalkEnds ==
    ASSUME NEW nx, NEW h, NEW i \in 0..MaxTasks, Walk(nx, h)[i] = NULL
    PROVE  Walk(nx, h)[MaxTasks] = NULL
<1> DEFINE w == Walk(nx, h)
           S == {j \in 0..MaxTasks : i <= j /\ w[j] # NULL}
<1>0. MaxTasks \in Nat
  BY SleepStepsAssumption
<1>1. \A k \in 0..(MaxTasks - 1) : w[k + 1] = Follow(nx, w[k])
  BY WalkFacts
<1>2. w[i] = NULL
  OBVIOUS
<1> HIDE DEF w
<1> SUFFICES ASSUME S # {} PROVE FALSE
  BY <1>0 DEF w
<1>3. Min(S) \in S /\ \A y \in S : Min(S) <= y
  <2>1. S \in SUBSET Nat
    BY <1>0
  <2> HIDE DEF S
  <2> QED
    BY <2>1, LeastFacts
<1> DEFINE m == Min(S)
<1>4. m \in 0..MaxTasks /\ i <= m /\ w[m] # NULL
  BY <1>3
<1>5. m # i
  BY <1>2, <1>4
<1> HIDE DEF m
<1>6. /\ m - 1 \in 0..MaxTasks /\ m - 1 \in 0..(MaxTasks - 1) /\ m - 1 + 1 = m
      /\ i <= m - 1 /\ ~(m <= m - 1)
  BY <1>0, <1>4, <1>5
<1>7. w[m - 1] = NULL
  BY <1>3, <1>6 DEF m
<1>8. w[m - 1 + 1] = Follow(nx, w[m - 1])
  BY <1>1, <1>6
<1> QED
  BY <1>4, <1>6, <1>7, <1>8 DEF Follow

(* The list that starts with a segment holds the tasks of the segment and  *)
(* the task it leads to; a segment that leads to NULL is the whole list.   *)
LEMMA SegChain ==
    ASSUME NEW nx, NEW h, NEW e, NEW q \in Seq(Task), Seg(nx, h, q, e),
           Len(q) <= MaxTasks
    PROVE  /\ \A t : In(t, q) => Contains(Chain(nx, h), t)
           /\ e # NULL /\ Len(q) < MaxTasks => Contains(Chain(nx, h), e)
           /\ e = NULL => Chain(nx, h) = q /\ ~Cyclic(nx, h)
<1> DEFINE w == Walk(nx, h)
           S == {j \in 0..MaxTasks : j = MaxTasks \/ w[j] = NULL}
           m == Min(S)
           c == Chain(nx, h)
<1>0. MaxTasks \in Nat /\ Len(q) \in Nat /\ DOMAIN q = 1..Len(q)
  BY SleepStepsAssumption
<1>1. \A i \in 0..Len(q) : w[i] = IF i < Len(q) THEN q[i + 1] ELSE e
  BY SegWalk
<1>2. c = [k \in 1..m |-> w[k - 1]]
  BY DEF Chain
<1>c. Cyclic(nx, h) <=> w[MaxTasks] # NULL
  BY DEF Cyclic
<1>e. ASSUME e = NULL PROVE w[MaxTasks] = NULL
  <2>1. w[Len(q)] = NULL
    BY <1>0, <1>1, <1>e
  <2> QED
    BY <1>0, <2>1, WalkEnds
<1> HIDE DEF w, c
<1>3. m \in S /\ \A y \in S : m <= y
  <2>1. S \in SUBSET Nat /\ MaxTasks \in S
    BY <1>0
  <2> HIDE DEF S
  <2> QED
    BY <2>1, LeastFacts
<1>4. \A i \in 1..Len(q) : w[i - 1] = q[i] /\ q[i] # NULL
  <2> SUFFICES ASSUME NEW i \in 1..Len(q) PROVE w[i - 1] = q[i] /\ q[i] # NULL
    OBVIOUS
  <2>1. i - 1 \in 0..Len(q) /\ i - 1 < Len(q) /\ i - 1 + 1 = i
    BY <1>0
  <2>2. q[i] # NULL
    BY <1>0 DEF Task, NULL
  <2> QED
    BY <1>1, <2>1, <2>2
<1>5. m \in 0..MaxTasks /\ (m = MaxTasks \/ w[m] = NULL)
  BY <1>3
<1>m. \A y \in 0..MaxTasks : w[y] = NULL => m <= y
  BY <1>3
<1> HIDE DEF m
<1>6. m >= Len(q)
  <2> SUFFICES ASSUME m < Len(q) PROVE FALSE
    BY <1>0, <1>5
  <2>1. m + 1 \in 1..Len(q) /\ m + 1 - 1 = m /\ m # MaxTasks
    BY <1>0, <1>5
  <2> QED
    BY <1>4, <1>5, <2>1
<1>n. m \in Nat /\ Len(q) \in Nat
  BY <1>0, <1>5
<1>7. Len(c) = m /\ \A k \in 1..m : c[k] = w[k - 1]
  <2>1. DOMAIN c = 1..m /\ \A k \in 1..m : c[k] = w[k - 1]
    BY ONLY <1>2
  <2>2. Len(c) = m
    BY <1>2, <1>n, <2>1
  <2> QED
    BY <2>1, <2>2
<1>8. ASSUME NEW t, In(t, q) PROVE Contains(c, t)
  <2>1. PICK i \in 1..Len(q) : q[i] = t
    BY <1>0, <1>8 DEF In
  <2>2. i \in 1..m
    BY <1>0, <1>5, <1>6
  <2>3. c[i] = t /\ i \in 1..Len(c)
    BY <1>4, <1>7, <2>1, <2>2
  <2> QED
    BY <2>3 DEF Contains
<1>9. ASSUME e # NULL, Len(q) < MaxTasks PROVE Contains(c, e)
  <2>1. w[Len(q)] = e
    BY <1>0, <1>1
  <2>2. m # Len(q)
    BY <1>5, <1>9, <2>1
  <2>3. Len(q) + 1 \in 1..m /\ Len(q) + 1 - 1 = Len(q)
    BY ONLY <1>n, <1>6, <2>2
  <2>4. c[Len(q) + 1] = e /\ Len(q) + 1 \in 1..Len(c)
    BY <1>7, <2>1, <2>3
  <2> QED
    BY <2>4 DEF Contains
<1>10. ASSUME e = NULL PROVE c = q
  <2>1. w[Len(q)] = NULL /\ Len(q) \in 0..MaxTasks
    BY <1>0, <1>1, <1>10
  <2>2. m <= Len(q)
    BY <1>m, <2>1
  <2>5. m = Len(q)
    BY ONLY <1>n, <1>6, <2>2
  <2>3. c = [k \in 1..Len(q) |-> w[k - 1]]
    BY <1>2, <2>5
  <2>4. q = [k \in 1..Len(q) |-> q[k]]
    BY <1>0
  <2> QED
    BY <1>4, <2>3, <2>4
<1> QED
  BY <1>8, <1>9, <1>10, <1>c, <1>e DEF c

-----------------------------------------------------------------------------
(* What the moves between lists do to sequences.                           *)

(* RemoveAt closes the gap at position k and keeps the order of the rest.  *)
LEMMA RemoveFacts ==
    ASSUME NEW S, NEW q \in Seq(S), NEW k \in DOMAIN q
    PROVE  /\ RemoveAt(q, k) \in Seq(S)
           /\ Len(RemoveAt(q, k)) = Len(q) - 1
           /\ DOMAIN RemoveAt(q, k) = 1..(Len(q) - 1)
           /\ \A i \in 1..(Len(q) - 1) :
                 RemoveAt(q, k)[i] = IF i < k THEN q[i] ELSE q[i + 1]
<1> DEFINE a == SubSeq(q, 1, k - 1)
           b == SubSeq(q, k + 1, Len(q))
<1>0. k \in 1..Len(q) /\ Len(q) \in Nat
  OBVIOUS
<1>1. a \in Seq(S) /\ Len(a) = k - 1 /\ \A i \in 1..(k - 1) : a[i] = q[i]
  BY <1>0
<1>2. b \in Seq(S) /\ Len(b) = Len(q) - k
      /\ \A i \in 1..(Len(q) - k) : b[i] = q[k + i]
  BY <1>0
<1> DEFINE u == a \o b
<1>3. RemoveAt(q, k) = u
  BY DEF RemoveAt
<1> HIDE DEF a, b
<1>4. /\ u \in Seq(S) /\ Len(u) = Len(a) + Len(b) /\ DOMAIN u = 1..Len(u)
      /\ \A i \in 1..Len(a) : u[i] = a[i]
      /\ \A i \in 1..Len(b) : u[Len(a) + i] = b[i]
  <2>1. a \in Seq(S) /\ b \in Seq(S)
    BY <1>1, <1>2
  <2> QED
    BY ONLY <2>1
<1> HIDE DEF u
<1>5. Len(u) = Len(q) - 1 /\ DOMAIN u = 1..(Len(q) - 1)
  BY <1>0, <1>1, <1>2, <1>4
<1>6. ASSUME NEW i \in 1..(Len(q) - 1)
      PROVE  u[i] = IF i < k THEN q[i] ELSE q[i + 1]
  <2>1. CASE i < k
    <3>1. i \in 1..(k - 1) /\ i \in 1..Len(a)
      BY <1>0, <1>1, <2>1
    <3> QED
      BY ONLY <1>1, <1>4, <2>1, <3>1
  <2>2. CASE ~(i < k)
    <3> DEFINE j == i - (k - 1)
    <3>1. j \in 1..(Len(q) - k) /\ j \in 1..Len(b) /\ Len(a) + j = i /\ k + j = i + 1
      BY <1>0, <1>1, <1>2, <2>2
    <3> HIDE DEF j
    <3>2. u[i] = b[j] /\ b[j] = q[i + 1]
      BY ONLY <1>2, <1>4, <3>1
    <3> QED
      BY ONLY <2>2, <3>2
  <2> QED
    BY <2>1, <2>2
<1> QED
  BY ONLY <1>3, <1>4, <1>5, <1>6

(* Append adds one position at the end.                                    *)
LEMMA AppendFacts ==
    ASSUME NEW S, NEW q \in Seq(S), NEW e \in S
    PROVE  /\ Append(q, e) \in Seq(S)
           /\ Len(Append(q, e)) = Len(q) + 1
           /\ DOMAIN Append(q, e) = 1..(Len(q) + 1)
           /\ \A i \in 1..Len(q) : Append(q, e)[i] = q[i]
           /\ Append(q, e)[Len(q) + 1] = e
  OBVIOUS

(* The tasks left on a list without duplicates are the others.             *)
LEMMA RemoveIn ==
    ASSUME NEW S, NEW q \in Seq(S), NEW k \in DOMAIN q, Injective(q)
    PROVE  /\ Injective(RemoveAt(q, k))
           /\ \A t : In(t, RemoveAt(q, k)) <=> In(t, q) /\ t # q[k]
<1> DEFINE a == RemoveAt(q, k)
<1>0. k \in 1..Len(q) /\ Len(q) \in Nat /\ DOMAIN q = 1..Len(q)
  OBVIOUS
<1>1. /\ DOMAIN a = 1..(Len(q) - 1)
      /\ \A i \in 1..(Len(q) - 1) : a[i] = IF i < k THEN q[i] ELSE q[i + 1]
  BY RemoveFacts
<1> HIDE DEF a
<1>2. Injective(a)
  <2> SUFFICES ASSUME NEW i \in 1..(Len(q) - 1), NEW j \in 1..(Len(q) - 1),
                      a[i] = a[j]
               PROVE  i = j
    BY <1>1 DEF Injective
  <2> DEFINE pos(n) == IF n < k THEN n ELSE n + 1
  <2>1. /\ pos(i) \in DOMAIN q /\ a[i] = q[pos(i)]
        /\ pos(j) \in DOMAIN q /\ a[j] = q[pos(j)]
    BY <1>0, <1>1
  <2>2. pos(i) = pos(j)
    BY <2>1 DEF Injective
  <2> QED
    BY <1>0, <2>2
<1>3. ASSUME NEW i \in DOMAIN a PROVE a[i] # q[k] /\ In(a[i], q)
  <2> DEFINE p == IF i < k THEN i ELSE i + 1
  <2>1. p \in DOMAIN q /\ a[i] = q[p] /\ p # k
    BY <1>0, <1>1
  <2> QED
    BY <2>1 DEF Injective, In
<1>4. ASSUME NEW t, In(t, q), t # q[k] PROVE In(t, a)
  <2>1. PICK i \in 1..Len(q) : q[i] = t
    BY <1>0, <1>4 DEF In
  <2>2. CASE i < k
    BY <1>0, <1>1, <2>1, <2>2 DEF In
  <2>3. CASE i > k
    <3>1. i - 1 \in DOMAIN a /\ a[i - 1] = t
      BY <1>0, <1>1, <2>1, <2>3
    <3> QED
      BY <3>1 DEF In
  <2> QED
    BY <1>0, <1>4, <2>1, <2>2, <2>3
<1> QED
  BY <1>2, <1>3, <1>4 DEF a, In

(* The tasks of a list to which another one is appended.                   *)
LEMMA AppendIn ==
    ASSUME NEW S, NEW q \in Seq(S), Injective(q), NEW e \in S, ~In(e, q)
    PROVE  /\ Injective(Append(q, e))
           /\ \A t : In(t, Append(q, e)) <=> In(t, q) \/ t = e
<1> DEFINE b == Append(q, e)
<1>0. Len(q) \in Nat /\ DOMAIN q = 1..Len(q)
  OBVIOUS
<1>1. /\ DOMAIN b = 1..(Len(q) + 1)
      /\ \A i \in 1..Len(q) : b[i] = q[i]
      /\ b[Len(q) + 1] = e
  BY AppendFacts
<1> HIDE DEF b
<1>2. \A i \in 1..Len(q) : q[i] # e
  BY <1>0 DEF In
<1>3. Injective(b)
  BY <1>0, <1>1, <1>2 DEF Injective
<1>4. ASSUME NEW t, In(t, b) PROVE In(t, q) \/ t = e
  BY <1>0, <1>1, <1>4 DEF In
<1>5. ASSUME NEW t, In(t, q) PROVE In(t, b)
  BY <1>0, <1>1, <1>5 DEF In
<1>6. In(e, b)
  BY <1>0, <1>1 DEF In
<1> QED
  BY <1>3, <1>4, <1>5, <1>6 DEF b

(* No task is on both lists.                                               *)
LEMMA PartitionFacts ==
    ASSUME NEW r, NEW z, NEW n \in 1..(MaxTasks + 1), Partition(r, z, n)
    PROVE  /\ r \in Seq(Task) /\ z \in Seq(Task) /\ Injective(r) /\ Injective(z)
           /\ Len(r) \in Nat /\ Len(z) \in Nat /\ Len(r) + Len(z) <= MaxTasks
           /\ \A t : ~(In(t, r) /\ In(t, z))
           /\ \A t : In(t, r) \/ In(t, z) <=> t \in Task /\ t < n
<1>0. MaxTasks \in Nat
  BY SleepStepsAssumption
<1>1. r \in Seq(Task) /\ z \in Seq(Task) /\ Injective(r) /\ Injective(z)
  BY DEF Partition
<1>2. Len(r) \in Nat /\ Len(z) \in Nat
  BY <1>1
<1>3. Len(r) + Len(z) = n - 1
  BY DEF Partition
<1>4. Len(r) + Len(z) <= MaxTasks
  BY ONLY <1>0, <1>2, <1>3, n \in 1..(MaxTasks + 1)
<1>5. \A t : ~(In(t, r) /\ In(t, z))
  BY DEF Partition, In
<1>6. \A t : In(t, r) \/ In(t, z) => t \in Task
  BY <1>1 DEF In
<1> QED
  BY <1>1, <1>2, <1>4, <1>5, <1>6 DEF Partition

(* What makes two lists a partition of the processes.                      *)
LEMMA PartitionIs ==
    ASSUME NEW r \in Seq(Task), NEW z \in Seq(Task), NEW n,
           Injective(r), Injective(z), Len(r) + Len(z) = n - 1,
           \A t : ~(In(t, r) /\ In(t, z)),
           \A t : In(t, r) \/ In(t, z) <=> t \in Task /\ t < n
    PROVE  Partition(r, z, n)
<1>1. \A i \in DOMAIN r, j \in DOMAIN z : r[i] # z[j]
  BY DEF In
<1> QED
  BY <1>1 DEF Partition

(* sleep() moves a task from the ready list to the end of the sleep list,  *)
(* and a tick moves one the other way.                                     *)
LEMMA PartitionMove ==
    ASSUME NEW r, NEW z, NEW n \in 1..(MaxTasks + 1),
           Partition(r, z, n) \/ Partition(z, r, n), NEW k \in DOMAIN r
    PROVE  /\ Partition(r, z, n) => Partition(RemoveAt(r, k), Append(z, r[k]), n)
           /\ Partition(z, r, n) => Partition(Append(z, r[k]), RemoveAt(r, k), n)
           /\ \A t : In(t, RemoveAt(r, k)) <=> In(t, r) /\ t # r[k]
           /\ \A t : In(t, Append(z, r[k])) <=> In(t, z) \/ t = r[k]
<1> DEFINE a == RemoveAt(r, k)
           b == Append(z, r[k])
<1>1. /\ r \in Seq(Task) /\ z \in Seq(Task) /\ Injective(r) /\ Injective(z)
      /\ Len(r) \in Nat /\ Len(z) \in Nat
      /\ \A t : ~(In(t, r) /\ In(t, z))
      /\ \A t : In(t, r) \/ In(t, z) <=> t \in Task /\ t < n
  BY PartitionFacts
<1>2. In(r[k], r) /\ r[k] \in Task /\ ~In(r[k], z)
  BY <1>1 DEF In
<1>3. /\ a \in Seq(Task) /\ Injective(a) /\ Len(a) = Len(r) - 1
      /\ \A t : In(t, a) <=> In(t, r) /\ t # r[k]
  BY <1>1, RemoveFacts, RemoveIn
<1>4. /\ b \in Seq(Task) /\ Injective(b) /\ Len(b) = Len(z) + 1
      /\ \A t : In(t, b) <=> In(t, z) \/ t = r[k]
  BY <1>1, <1>2, AppendFacts, AppendIn
<1> HIDE DEF a, b
<1>5. \A t : In(t, a) \/ In(t, b) <=> t \in Task /\ t < n
  BY <1>1, <1>2, <1>3, <1>4
<1>6. \A t : ~(In(t, a) /\ In(t, b))
  BY <1>1, <1>3, <1>4
<1>7. ASSUME Partition(r, z, n) PROVE Partition(a, b, n)
  <2>1. Len(r) + Len(z) = n - 1
    BY <1>7 DEF Partition
  <2>2. Len(a) + Len(b) = n - 1
    BY ONLY <1>1, <1>3, <1>4, <2>1
  <2> QED
    BY <1>3, <1>4, <1>5, <1>6, <2>2, PartitionIs
<1>8. ASSUME Partition(z, r, n) PROVE Partition(b, a, n)
  <2>1. Len(z) + Len(r) = n - 1
    BY <1>8 DEF Partition
  <2>2. Len(b) + Len(a) = n - 1
    BY ONLY <1>1, <1>3, <1>4, <2>1
  <2> QED
    BY <1>3, <1>4, <1>5, <1>6, <2>2, PartitionIs
<1> QED
  BY <1>3, <1>4, <1>7, <1>8 DEF a, b

(* fork() appends a new task to the ready list.                            *)
LEMMA PartitionFork ==
    ASSUME NEW r, NEW z, NEW n \in Task, Partition(r, z, n)
    PROVE  /\ Partition(Append(r, n), z, n + 1)
           /\ \A t : In(t, Append(r, n)) <=> In(t, r) \/ t = n
<1> DEFINE b == Append(r, n)
<1>0. MaxTasks \in Nat /\ n \in Nat /\ n \in 1..(MaxTasks + 1) /\ ~(n < n)
  BY SleepStepsAssumption DEF Task
<1>1. /\ r \in Seq(Task) /\ z \in Seq(Task) /\ Injective(r) /\ Injective(z)
      /\ Len(r) \in Nat /\ Len(z) \in Nat
      /\ \A t : ~(In(t, r) /\ In(t, z))
      /\ \A t : In(t, r) \/ In(t, z) <=> t \in Task /\ t < n
  BY <1>0, PartitionFacts
<1>2. ~In(n, r) /\ ~In(n, z)
  BY <1>0, <1>1
<1>3. /\ b \in Seq(Task) /\ Injective(b) /\ Len(b) = Len(r) + 1
      /\ \A t : In(t, b) <=> In(t, r) \/ t = n
  BY <1>1, <1>2, AppendFacts, AppendIn
<1> HIDE DEF b
<1>4. \A t \in Task : t < n + 1 <=> t < n \/ t = n
  BY <1>0 DEF Task
<1>5. ASSUME NEW t PROVE In(t, b) \/ In(t, z) <=> t \in Task /\ t < n + 1
  <2>1. CASE t \in Task
    <3>1. t < n + 1 <=> t < n \/ t = n
      BY <1>4, <2>1
    <3> QED
      BY ONLY <1>1, <1>3, <2>1, <3>1
  <2>2. CASE t \notin Task
    BY ONLY <1>1, <1>3, <2>2, n \in Task
  <2> QED
    BY <2>1, <2>2
<1>6. \A t : ~(In(t, b) /\ In(t, z))
  BY <1>1, <1>2, <1>3
<1>7. Len(r) + Len(z) = n - 1
  BY DEF Partition
<1>8. Partition(b, z, n + 1)
  <2> DEFINE m == n + 1
  <2>1. Len(b) + Len(z) = m - 1
    BY ONLY <1>0, <1>1, <1>3, <1>7
  <2>4. \A t : In(t, b) \/ In(t, z) <=> t \in Task /\ t < m
    BY ONLY <1>5
  <2>2. b \in Seq(Task) /\ z \in Seq(Task) /\ Injective(b) /\ Injective(z)
    BY <1>1, <1>3
  <2> HIDE DEF m
  <2>3. Partition(b, z, m)
    BY ONLY <1>6, <2>1, <2>2, <2>4, PartitionIs
  <2> QED
    BY <2>3 DEF m
<1> QED
  BY <1>3, <1>8 DEF b

-----------------------------------------------------------------------------
(* What assignments to links do to the lists.                              *)

(* A list does not notice changes to the links of other tasks.             *)
LEMMA SegFrame ==
    ASSUME NEW nx, NEW nx2, NEW h, NEW e, NEW q, Seg(nx, h, q, e),
           \A t : In(t, q) => nx2[t] = nx[t]
    PROVE  Seg(nx2, h, q, e)
  BY DEF Seg, In

(* The task a segment leads to joins it.                                   *)
LEMMA SegExtend ==
    ASSUME NEW nx, NEW nx2, NEW h, NEW t \in Task, NEW e, NEW q \in Seq(Task),
           Seg(nx, h, q, t), \A u : In(u, q) => nx2[u] = nx[u], nx2[t] = e
    PROVE  Seg(nx2, h, Append(q, t), e)
<1> DEFINE b == Append(q, t)
<1>0. Len(q) \in Nat /\ DOMAIN q = 1..Len(q)
  OBVIOUS
<1>1. /\ DOMAIN b = 1..(Len(q) + 1) /\ Len(b) = Len(q) + 1
      /\ \A i \in 1..Len(q) : b[i] = q[i]
      /\ b[Len(q) + 1] = t
  BY AppendFacts
<1> HIDE DEF b
<1>2. /\ h = IF q = <<>> THEN t ELSE q[1]
      /\ \A i \in 1..Len(q) : nx[q[i]] = IF i < Len(q) THEN q[i + 1] ELSE t
  BY <1>0 DEF Seg
<1>3. b # <<>> /\ h = b[1]
  <2>1. b # <<>>
    BY <1>0, <1>1
  <2>2. CASE q = <<>>
    <3>1. Len(q) = 0
      BY <2>2
    <3> QED
      BY <1>1, <1>2, <2>1, <2>2, <3>1
  <2>3. CASE q # <<>>
    <3>1. 1 \in 1..Len(q)
      BY <1>0, <2>3
    <3> QED
      BY <1>1, <1>2, <2>1, <2>3, <3>1
  <2> QED
    BY <2>2, <2>3
<1>4. ASSUME NEW i \in 1..(Len(q) + 1)
      PROVE  nx2[b[i]] = IF i < Len(q) + 1 THEN b[i + 1] ELSE e
  <2>1. CASE i = Len(q) + 1
    BY <1>0, <1>1, <2>1
  <2>2. CASE i \in 1..Len(q)
    <3>1. b[i] = q[i] /\ In(q[i], q)
      BY <1>0, <1>1, <2>2 DEF In
    <3>2. nx2[b[i]] = nx[q[i]]
      BY <3>1
    <3>3. CASE i < Len(q)
      <4>1. i + 1 \in 1..Len(q) /\ i < Len(q) + 1
        BY <1>0, <2>2, <3>3
      <4> QED
        BY <1>1, <1>2, <2>2, <3>2, <3>3, <4>1
    <3>4. CASE i = Len(q)
      <4>1. i < Len(q) + 1 /\ ~(i < Len(q))
        BY <1>0, <3>4
      <4> QED
        BY <1>1, <1>2, <2>2, <3>2, <3>4, <4>1
    <3>5. i < Len(q) \/ i = Len(q)
      <4>1. Len(q) \in Nat
        OBVIOUS
      <4> QED
        BY ONLY <2>2, <4>1
    <3> QED
      BY <3>3, <3>4, <3>5
  <2> QED
    BY <1>0, <2>1, <2>2
<1>5. Seg(nx2, h, b, e)
  BY <1>1, <1>3, <1>4 DEF Seg
<1> QED
  BY <1>5 DEF b

(* The last task of a segment is made to lead elsewhere.                   *)
LEMMA SegRetarget ==
    ASSUME NEW nx, NEW nx2, NEW h, NEW e, NEW q \in Seq(Task), Injective(q),
           Seg(nx, h, q, e), Len(q) > 0,
           \A u : In(u, q) /\ u # q[Len(q)] => nx2[u] = nx[u]
    PROVE  Seg(nx2, h, q, nx2[q[Len(q)]])
<1>0. Len(q) \in Nat /\ DOMAIN q = 1..Len(q) /\ q # <<>>
  OBVIOUS
<1>1. /\ h = q[1]
      /\ \A i \in 1..Len(q) : nx[q[i]] = IF i < Len(q) THEN q[i + 1] ELSE e
  BY <1>0 DEF Seg
<1>2. ASSUME NEW i \in 1..Len(q)
      PROVE  nx2[q[i]] = IF i < Len(q) THEN q[i + 1] ELSE nx2[q[Len(q)]]
  <2>1. CASE i = Len(q)
    BY <1>0, <2>1
  <2>2. CASE i < Len(q)
    <3>1. q[i] # q[Len(q)] /\ In(q[i], q)
      BY <1>0, <2>2 DEF Injective, In
    <3> QED
      BY <1>1, <2>2, <3>1
  <2>3. i < Len(q) \/ i = Len(q)
    <3>1. Len(q) \in Nat
      OBVIOUS
    <3> QED
      BY ONLY <3>1, i \in 1..Len(q)
  <2> QED
    BY <2>1, <2>2, <2>3
<1> QED
  BY <1>0, <1>1, <1>2 DEF Seg

(* The first task leaves a list when the head moves on.                    *)
LEMMA SegBehead ==
    ASSUME NEW nx, NEW h, NEW e, NEW q \in Seq(Task), Seg(nx, h, q, e), Len(q) > 0
    PROVE  Seg(nx, nx[h], RemoveAt(q, 1), e)
<1> DEFINE a == RemoveAt(q, 1)
<1>0. Len(q) \in Nat /\ DOMAIN q = 1..Len(q) /\ q # <<>> /\ 1 \in DOMAIN q
  OBVIOUS
<1>1. a \in Seq(Task) /\ Len(a) = Len(q) - 1 /\ DOMAIN a = 1..(Len(q) - 1)
  BY <1>0, RemoveFacts
<1>2. \A i \in 1..(Len(q) - 1) : a[i] = q[i + 1]
  <2>1. \A i \in 1..(Len(q) - 1) : a[i] = IF i < 1 THEN q[i] ELSE q[i + 1]
    BY <1>0, RemoveFacts
  <2> QED
    BY <2>1
<1> HIDE DEF a
<1>3. /\ h = q[1]
      /\ \A i \in 1..Len(q) : nx[q[i]] = IF i < Len(q) THEN q[i + 1] ELSE e
  BY <1>0 DEF Seg
<1>4. nx[h] = IF a = <<>> THEN e ELSE a[1]
  <2>1. CASE Len(q) = 1
    <3>1. Len(a) = 0 /\ a = <<>>
      BY <1>1, <2>1
    <3> QED
      BY <1>3, <2>1, <3>1
  <2>2. CASE Len(q) > 1
    <3>1. a # <<>> /\ 1 \in 1..(Len(q) - 1) /\ 1 \in 1..Len(q) /\ 1 < Len(q)
      BY <1>0, <1>1, <2>2
    <3>2. nx[h] = q[1 + 1] /\ a[1] = q[1 + 1]
      BY <1>2, <1>3, <3>1
    <3> QED
      BY <3>1, <3>2
  <2> QED
    BY <1>0, <2>1, <2>2
<1>5. ASSUME NEW i \in DOMAIN a
      PROVE  nx[a[i]] = IF i < Len(a) THEN a[i + 1] ELSE e
  <2>1. i + 1 \in 1..Len(q) /\ i \in 1..(Len(q) - 1)
    BY <1>0, <1>1
  <2>2. nx[a[i]] = IF i + 1 < Len(q) THEN q[i + 1 + 1] ELSE e
    BY <1>2, <1>3, <2>1
  <2>3. CASE i < Len(a)
    <3>1. i + 1 < Len(q) /\ i + 1 \in 1..(Len(q) - 1)
      BY <1>0, <1>1, <2>1, <2>3
    <3>2. a[i + 1] = q[i + 1 + 1]
      BY <1>2, <3>1
    <3> QED
      BY <2>2, <2>3, <3>1, <3>2
  <2>4. CASE ~(i < Len(a))
    <3>1. ~(i + 1 < Len(q))
      BY <1>0, <1>1, <2>1, <2>4
    <3> QED
      BY <2>2, <2>4, <3>1
  <2> QED
    BY <2>3, <2>4
<1>6. Seg(nx, nx[h], a, e)
  BY <1>4, <1>5 DEF Seg
<1> QED
  BY <1>6 DEF a

(* A later task leaves a list when the link to it is made to skip it.      *)
LEMMA SegSkip ==
    ASSUME NEW nx, NEW nx2, NEW h, NEW e, NEW q \in Seq(Task), Injective(q),
           Seg(nx, h, q, e), NEW k \in DOMAIN q, k > 1,
           nx2[q[k - 1]] = nx[q[k]],
           \A u : In(u, q) /\ u # q[k - 1] => nx2[u] = nx[u]
    PROVE  Seg(nx2, h, RemoveAt(q, k), e)
<1> DEFINE a == RemoveAt(q, k)
<1>0. /\ Len(q) \in Nat /\ DOMAIN q = 1..Len(q) /\ q # <<>>
      /\ k \in 1..Len(q) /\ k - 1 \in 1..Len(q)
  OBVIOUS
<1>1. /\ Len(a) = Len(q) - 1 /\ DOMAIN a = 1..(Len(q) - 1) /\ a \in Seq(Task)
      /\ \A i \in 1..(Len(q) - 1) : a[i] = IF i < k THEN q[i] ELSE q[i + 1]
  BY RemoveFacts
<1> HIDE DEF a
<1>2. /\ h = q[1]
      /\ \A i \in 1..Len(q) : nx[q[i]] = IF i < Len(q) THEN q[i + 1] ELSE e
  BY <1>0 DEF Seg
<1>3. a # <<>> /\ a[1] = h
  <2>1. 1 \in 1..(Len(q) - 1) /\ 1 < k
    BY <1>0
  <2>2. a # <<>>
    BY <1>1, <2>1
  <2> QED
    BY <1>1, <1>2, <2>1, <2>2
<1>n. \A i \in 1..Len(q) : i # k - 1 => nx2[q[i]] = nx[q[i]]
  BY <1>0 DEF Injective, In
<1>4. ASSUME NEW i \in 1..(Len(q) - 1)
      PROVE  nx2[a[i]] = IF i < Len(q) - 1 THEN a[i + 1] ELSE e
  <2>1. CASE i < k - 1
    <3>1. /\ i < k /\ i + 1 < k /\ i \in 1..Len(q) /\ i # k - 1
          /\ i < Len(q) /\ i < Len(q) - 1 /\ i + 1 \in 1..(Len(q) - 1)
      BY <1>0, <2>1
    <3>2. a[i] = q[i] /\ a[i + 1] = q[i + 1]
      BY <1>1, <3>1
    <3>3. nx2[q[i]] = q[i + 1]
      BY <1>2, <1>n, <3>1
    <3> QED
      BY <3>1, <3>2, <3>3
  <2>2. CASE i = k - 1
    <3>1. i < k /\ i + 1 = k /\ ~(k < k)
      BY <1>0, <2>2
    <3>2. a[i] = q[k - 1]
      BY <1>1, <2>2, <3>1
    <3>3. nx2[a[i]] = IF k < Len(q) THEN q[k + 1] ELSE e
      BY <1>0, <1>2, <3>2
    <3>4. CASE k < Len(q)
      <4>1. i < Len(q) - 1 /\ k \in 1..(Len(q) - 1)
        BY <1>0, <2>2, <3>4
      <4>2. a[k] = q[k + 1]
        BY <1>1, <3>1, <4>1
      <4> QED
        BY <3>1, <3>3, <3>4, <4>1, <4>2
    <3>5. CASE ~(k < Len(q))
      <4>1. ~(i < Len(q) - 1)
        BY <1>0, <2>2, <3>5
      <4> QED
        BY <3>3, <3>5, <4>1
    <3> QED
      BY <3>4, <3>5
  <2>3. CASE i > k - 1
    <3>1. ~(i < k) /\ ~(i + 1 < k) /\ i + 1 \in 1..Len(q) /\ i + 1 # k - 1
      BY <1>0, <2>3
    <3>2. a[i] = q[i + 1]
      BY <1>1, <3>1
    <3>3. nx2[a[i]] = IF i + 1 < Len(q) THEN q[i + 1 + 1] ELSE e
      BY <1>2, <1>n, <3>1, <3>2
    <3>4. CASE i + 1 < Len(q)
      <4>1. i < Len(q) - 1 /\ i + 1 \in 1..(Len(q) - 1)
        BY <1>0, <3>4
      <4>2. a[i + 1] = q[i + 1 + 1]
        BY <1>1, <3>1, <4>1
      <4> QED
        BY <3>3, <3>4, <4>1, <4>2
    <3>5. CASE ~(i + 1 < Len(q))
      <4>1. ~(i < Len(q) - 1)
        BY <1>0, <3>5
      <4> QED
        BY <3>3, <3>5, <4>1
    <3> QED
      BY <3>4, <3>5
  <2> QED
    BY <1>0, <2>1, <2>2, <2>3
<1>5. Seg(nx2, h, a, e)
  BY <1>1, <1>3, <1>4 DEF Seg
<1> QED
  BY <1>5 DEF a

-----------------------------------------------------------------------------
(* The steps inside sleep() and switch_task().                             *)

SavedType == [Task -> [owner : Link, kind : Kind, live : BOOLEAN]]

(* What a step of sleep() leaves alone on its way to the given label.      *)
SleepMove(label) ==
    /\ pc' = [pc EXCEPT ![run] = label]
    /\ run' = run /\ snap' = snap /\ nextPid' = nextPid /\ tick' = tick
    /\ iflag' = iflag /\ arg' = arg /\ fault' = fault /\ hit' = hit
    /\ next' \in [Task -> Link]
    /\ \A t \in Task : t >= nextPid => next'[t] = next[t]
    /\ eos' \in [Task -> Nat] /\ \A t \in Task : t # run => eos'[t] = eos[t]
    /\ saved' \in SavedType /\ \A t \in Task : t # run => saved'[t] = saved[t]
    /\ readyQ' \in Link /\ sleepQ' \in Link /\ current' \in Link /\ tmpCur' \in Link
    /\ it' \in [Task -> Link] /\ wrapped' \in {"no", "yes"}

(* The lists r and z and the position k that sleep() has started from.     *)
SleepFrom(r, z, k) ==
    /\ snap.ready = r /\ snap.sleepq = z /\ AbsReady = r /\ AbsSleepq = z
    /\ AbsCur = run /\ AbsCtx = snap.kinds
    /\ r \in Seq(Task) /\ z \in Seq(Task) /\ Injective(r) /\ Injective(z)
    /\ Len(r) \in Nat /\ Len(z) \in Nat /\ Len(r) + Len(z) <= MaxTasks
    /\ \A t : ~(In(t, r) /\ In(t, z))
    /\ \A t : In(t, r) \/ In(t, z) <=> t \in Task /\ t < nextPid
    /\ DOMAIN r = 1..Len(r) /\ DOMAIN z = 1..Len(z)
    /\ k \in 1..Len(r) /\ Len(r) > 1 /\ r[k] = run /\ In(run, r) /\ run \in Task

LEMMA SleepFromFacts ==
    ASSUME Good, ~Stable
    PROVE  \E r, z, k : SleepFrom(r, z, k) /\ SleepAt(pc[run], r, z, k)
<1> DEFINE r == snap.ready
           z == snap.sleepq
<1>1. AbsReady = r /\ AbsSleepq = z /\ AbsCur = run /\ AbsCtx = snap.kinds
  BY DEF AbsReady, AbsSleepq, AbsCur, AbsCtx
<1>2. Partition(r, z, nextPid) /\ nextPid \in 1..(MaxTasks + 1)
  BY <1>1 DEF Good, Typed
<1>3. PICK k \in DOMAIN r : r[k] = run /\ SleepAt(pc[run], r, z, k)
  BY DEF Good, InSleep
<1>4. Len(r) > 1
  BY DEF Good, InSleep
<1> HIDE DEF r, z
<1>5. /\ r \in Seq(Task) /\ z \in Seq(Task) /\ Injective(r) /\ Injective(z)
      /\ Len(r) \in Nat /\ Len(z) \in Nat /\ Len(r) + Len(z) <= MaxTasks
      /\ \A t : ~(In(t, r) /\ In(t, z))
      /\ \A t : In(t, r) \/ In(t, z) <=> t \in Task /\ t < nextPid
  BY <1>2, PartitionFacts
<1>6. DOMAIN r = 1..Len(r) /\ DOMAIN z = 1..Len(z)
  BY <1>5
<1>7. In(run, r) /\ run \in Task
  BY <1>3, <1>5 DEF In
<1>8. snap.ready = r /\ snap.sleepq = z
  BY DEF r, z
<1>9. SleepFrom(r, z, k)
  BY <1>1, <1>3, <1>4, <1>5, <1>6, <1>7, <1>8 DEF SleepFrom
<1> QED
  BY <1>3, <1>9

(* A step inside sleep() that leads to a place where sleep() can be keeps  *)
(* the invariant, and Scheduler does not see it.                           *)
LEMMA SleepFrame ==
    ASSUME Good, ~Stable, NEW label \in Label \ {"boot", "user", "stamp"},
           SleepMove(label),
           NEW r, NEW z, NEW k, SleepFrom(r, z, k), SleepAt(label, r, z, k)'
    PROVE  Good' /\ UNCHANGED Abstract!vars
<1>r. run \in Task /\ pc \in [Task -> Label] /\ eos \in [Task -> Nat]
  BY DEF Good, Typed
<1>0. /\ pc' \in [Task -> Label] /\ pc'[run'] = label
      /\ \A t \in Task : t # run => pc'[t] = pc[t]
  BY <1>r DEF SleepMove
<1>1. ~Stable'
  BY <1>0 DEF Stable
<1>2. snap' = snap /\ run' = run /\ nextPid' = nextPid /\ tick' = tick
  BY DEF SleepMove
<1>3. AbsReady' = r /\ AbsSleepq' = z /\ AbsCur' = run /\ AbsCtx' = AbsCtx
  BY <1>1, <1>2 DEF AbsReady, AbsSleepq, AbsCur, AbsCtx, SleepFrom
<1>4. Typed'
  BY <1>0 DEF SleepMove, Good, Typed, SavedType
<1>5. Partition(AbsReady, AbsSleepq, nextPid)'
  <2>1. Partition(r, z, nextPid)
    BY DEF Good, SleepFrom
  <2> QED
    BY <1>2, <1>3, <2>1
<1>6. Suspended'
  BY <1>0, <1>2 DEF SleepMove, Good, Suspended
<1>7. Unstamped'
  <2> SUFFICES ASSUME NEW t \in Task
               PROVE  /\ t >= nextPid => eos'[t] = 0 /\ next'[t] = NULL
                      /\ In(t, r) /\ (t # run \/ label \in {"user", "stamp"}) => eos'[t] = 0
    BY <1>0, <1>2, <1>3 DEF Unstamped
  <2>1. t >= nextPid => t # run
    BY DEF SleepFrom, Good, Typed, Task
  <2>2. t # run => eos'[t] = eos[t]
    BY DEF SleepMove
  <2>3. t >= nextPid => eos[t] = 0 /\ next[t] = NULL /\ next'[t] = next[t]
    BY DEF Good, Unstamped, SleepMove
  <2>4. In(t, r) /\ t # run => eos[t] = 0
    BY DEF Good, Unstamped, SleepFrom
  <2>5. label \notin {"user", "stamp"}
    OBVIOUS
  <2> QED
    BY <2>1, <2>2, <2>3, <2>4, <2>5
<1>8. AtRest'
  BY <1>1 DEF AtRest
<1>9. InSleep'
  <2>1. /\ nextPid > 1 /\ arg[run] \in SleepArgs
        /\ \A t \in Task : t # run => snap.kinds[t] = saved[t].kind
    BY DEF Good, InSleep
  <2>2. /\ nextPid' > 1 /\ (arg[run] \in SleepArgs)' /\ Len(snap.ready)' > 1
        /\ \A t \in Task : t # run' => snap.kinds'[t] = saved'[t].kind
    BY <1>2, <2>1 DEF SleepMove, SleepFrom
  <2>3. k \in DOMAIN snap.ready' /\ snap.ready'[k] = run'
    BY <1>2 DEF SleepFrom
  <2>4. SleepAt(pc[run], snap.ready, snap.sleepq, k)'
    <3>1. pc'[run'] = label /\ snap'.ready = r /\ snap'.sleepq = z
      BY <1>0, <1>2 DEF SleepFrom
    <3> QED
      BY <3>1
  <2> QED
    BY <2>2, <2>3, <2>4 DEF InSleep
<1>10. AbsLeft' = AbsLeft
  <2>1. \A t \in Task : Contains(z, t) => t # run
    <3>1. \A t \in Task : Contains(z, t) => In(t, z)
      BY DEF Contains, In, SleepFrom
    <3> QED
      BY <3>1 DEF SleepFrom
  <2>2. \A t \in Task : Contains(z, t) => eos'[t] = eos[t]
    BY <2>1 DEF SleepMove
  <2> QED
    BY <1>2, <1>3, <2>2 DEF AbsLeft, SleepFrom
<1>11. UNCHANGED Abstract!vars
  <2>1. AbsReady' = AbsReady /\ AbsSleepq' = AbsSleepq /\ AbsCur' = AbsCur
    BY <1>3 DEF SleepFrom
  <2>2. iflag' = iflag
    BY DEF SleepMove
  <2> QED
    BY <1>2, <1>3, <1>10, <2>1, <2>2 DEF Abstract!vars
<1> QED
  BY <1>4, <1>5, <1>6, <1>7, <1>8, <1>9, <1>11 DEF Good

(* A sum that does not reach the modulus is its own remainder.             *)
LEMMA ModFacts ==
    ASSUME NEW a \in Nat, NEW b \in Nat, b > 0
    PROVE  a % b \in Nat /\ (a < b => a % b = a)
  OBVIOUS

LEMMA StampStep ==
    ASSUME Good, Stamp, wrapped' # "to zero"
    PROVE  Good' /\ UNCHANGED Abstract!vars
<1>1. ~Stable /\ pc[run] = "stamp"
  BY DEF Stamp, At, Stable
<1>2. PICK r, z, k : SleepFrom(r, z, k) /\ SleepAt(pc[run], r, z, k)
  BY <1>1, SleepFromFacts
<1>3. current = run /\ run \in Task
  BY <1>1, <1>2 DEF SleepAt, SleepFrom
<1> DEFINE sum == tick + arg[run]
<1>4. sum \in Nat /\ sum > 0 /\ TickMod \in Nat /\ TickMod > 0
  <2>1. arg[run] \in Nat /\ arg[run] # 0
    BY <1>1, SleepStepsAssumption DEF Good, InSleep
  <2>0. tick \in 0..MaxTick
    BY DEF Good, Typed
  <2>2. tick \in Nat /\ TickMod \in Nat /\ TickMod > 0
    BY ONLY <2>0, SleepStepsAssumption
  <2> QED
    BY ONLY <2>1, <2>2
<1>5. /\ eos' = [eos EXCEPT ![run] = sum % TickMod]
      /\ wrapped' = IF sum < TickMod \/ wrapped = "to zero" THEN wrapped
                    ELSE IF eos'[run] = 0 THEN "to zero" ELSE "yes"
  BY <1>3 DEF Stamp
<1> HIDE DEF sum
<1>6. sum % TickMod \in Nat /\ (sum < TickMod => sum % TickMod = sum)
  BY <1>4, ModFacts
<1>7. /\ eos' \in [Task -> Nat] /\ eos'[run] = sum % TickMod
      /\ \A t \in Task : t # run => eos'[t] = eos[t]
  BY <1>3, <1>5, <1>6 DEF Good, Typed
<1>8. /\ wrapped' \in {"no", "yes"} /\ eos'[run] # 0
      /\ wrapped' = "no" => eos'[run] = sum
  <2>1. wrapped \in {"no", "yes"}
    BY DEF Good, Typed
  <2>2. CASE sum < TickMod
    <3>1. wrapped' = wrapped
      BY <1>5, <2>2
    <3>2. eos'[run] = sum
      BY ONLY <1>6, <1>7, <2>2
    <3>3. sum # 0
      BY ONLY <1>4
    <3> QED
      BY <2>1, <3>1, <3>2, <3>3
  <2>3. CASE ~(sum < TickMod)
    <3>1. wrapped' = IF eos'[run] = 0 THEN "to zero" ELSE "yes"
      BY <1>5, <2>1, <2>3
    <3> QED
      BY ONLY <3>1, wrapped' # "to zero"
  <2> QED
    BY <2>2, <2>3
<1>9. /\ next' = next /\ readyQ' = readyQ /\ sleepQ' = sleepQ /\ current' = current
      /\ tmpCur' = tmpCur /\ saved' = saved /\ nextPid' = nextPid /\ tick' = tick
      /\ run' = run /\ iflag' = iflag /\ it' = it /\ arg' = arg /\ fault' = fault
      /\ hit' = hit /\ snap' = snap /\ pc' = [pc EXCEPT ![run] = "enqueue"]
  BY DEF Stamp, Goto, list
<1>10. SleepMove("enqueue")
  BY <1>7, <1>8, <1>9 DEF SleepMove, Good, Typed, SavedType
<1>11. SleepAt("enqueue", r, z, k)'
  <2>1. Seg(next, readyQ, r, NULL) /\ Seg(next, sleepQ, z, NULL)
    BY <1>1, <1>2 DEF SleepAt, Linking
  <2> QED
    BY <1>3, <1>8, <1>9, <2>1 DEF SleepAt, Linking, Unlinking, sum
<1> QED
  BY <1>1, <1>2, <1>10, <1>11, SleepFrame DEF Label

LEMMA EnqueueOnlyStep ==
    ASSUME Good, EnqueueOnly
    PROVE  Good' /\ UNCHANGED Abstract!vars
<1>1. ~Stable /\ pc[run] = "enqueue"
  BY DEF EnqueueOnly, At, Stable
<1>2. PICK r, z, k : SleepFrom(r, z, k) /\ SleepAt(pc[run], r, z, k)
  BY <1>1, SleepFromFacts
<1>3. /\ current = run /\ run \in Task /\ Seg(next, readyQ, r, NULL)
      /\ Seg(next, sleepQ, z, NULL)
      /\ eos[run] # 0 /\ (wrapped = "no" => eos[run] = tick + arg[run])
  BY <1>1, <1>2 DEF SleepAt, SleepFrom, Linking
<1>4. /\ sleepQ = NULL /\ sleepQ' = run
      /\ next' = next /\ readyQ' = readyQ /\ current' = current
      /\ tmpCur' = tmpCur /\ saved' = saved /\ nextPid' = nextPid /\ tick' = tick
      /\ run' = run /\ iflag' = iflag /\ it' = it /\ arg' = arg /\ fault' = fault
      /\ hit' = hit /\ snap' = snap /\ pc' = [pc EXCEPT ![run] = "save"]
      /\ eos' = eos /\ wrapped' = wrapped
  BY <1>3 DEF EnqueueOnly, Goto, task, history
<1>5. SleepMove("save")
  BY <1>3, <1>4 DEF SleepMove, Good, Typed, SavedType, Link
<1>6. z = <<>>
  <2> SUFFICES ASSUME z # <<>> PROVE FALSE
    OBVIOUS
  <2>1. z[1] \in Task
    BY <1>2 DEF SleepFrom
  <2> QED
    BY <1>3, <1>4, <2>1 DEF Seg, Task, NULL
<1>7. Seg(next', sleepQ', z, run)
  BY <1>4, <1>6 DEF Seg
<1>8. SleepAt("save", r, z, k)'
  BY <1>3, <1>4, <1>7 DEF SleepAt, Linking, Unlinking
<1> QED
  BY <1>1, <1>2, <1>5, <1>8, SleepFrame DEF Label

LEMMA EnqueueStartStep ==
    ASSUME Good, EnqueueStart
    PROVE  Good' /\ UNCHANGED Abstract!vars
<1>1. ~Stable /\ pc[run] = "enqueue"
  BY DEF EnqueueStart, At, Stable
<1>2. PICK r, z, k : SleepFrom(r, z, k) /\ SleepAt(pc[run], r, z, k)
  BY <1>1, SleepFromFacts
<1>3. /\ current = run /\ run \in Task /\ Seg(next, readyQ, r, NULL)
      /\ Seg(next, sleepQ, z, NULL)
      /\ eos[run] # 0 /\ (wrapped = "no" => eos[run] = tick + arg[run])
  BY <1>1, <1>2 DEF SleepAt, SleepFrom, Linking
<1>4. /\ sleepQ # NULL /\ it' = [it EXCEPT ![run] = sleepQ]
      /\ next' = next /\ readyQ' = readyQ /\ sleepQ' = sleepQ /\ current' = current
      /\ tmpCur' = tmpCur /\ saved' = saved /\ nextPid' = nextPid /\ tick' = tick
      /\ run' = run /\ iflag' = iflag /\ arg' = arg /\ fault' = fault
      /\ hit' = hit /\ snap' = snap /\ pc' = [pc EXCEPT ![run] = "walk"]
      /\ eos' = eos /\ wrapped' = wrapped
  BY DEF EnqueueStart, Goto, SetIt, list, task, history
<1>5. it' \in [Task -> Link] /\ it'[run] = sleepQ
  BY <1>3, <1>4 DEF Good, Typed
<1>6. SleepMove("walk")
  BY <1>4, <1>5 DEF SleepMove, Good, Typed, SavedType
<1>7. \E j \in DOMAIN z : sleepQ = z[j]
  <2>1. z # <<>> /\ sleepQ = z[1]
    BY <1>3, <1>4 DEF Seg
  <2>2. 1 \in DOMAIN z
    BY <1>2, <2>1 DEF SleepFrom
  <2> QED
    BY <2>1, <2>2
<1>8. SleepAt("walk", r, z, k)'
  BY <1>3, <1>4, <1>5, <1>7 DEF SleepAt, Linking, Unlinking
<1> QED
  BY <1>1, <1>2, <1>6, <1>8, SleepFrame DEF Label

LEMMA EnqueueWalkStep ==
    ASSUME Good, EnqueueWalk
    PROVE  Good' /\ UNCHANGED Abstract!vars
<1>1. ~Stable /\ pc[run] = "walk"
  BY DEF EnqueueWalk, At, Stable
<1>2. PICK r, z, k : SleepFrom(r, z, k) /\ SleepAt(pc[run], r, z, k)
  BY <1>1, SleepFromFacts
<1>3. /\ current = run /\ run \in Task /\ Seg(next, readyQ, r, NULL)
      /\ Seg(next, sleepQ, z, NULL)
      /\ eos[run] # 0 /\ (wrapped = "no" => eos[run] = tick + arg[run])
  BY <1>1, <1>2 DEF SleepAt, SleepFrom, Linking
<1>4. PICK j \in 1..Len(z) : it[run] = z[j]
  BY <1>1, <1>2 DEF SleepAt, SleepFrom
<1>5. next[it[run]] = IF j < Len(z) THEN z[j + 1] ELSE NULL
  BY <1>2, <1>3, <1>4 DEF Seg, SleepFrom
<1>6. /\ next' = next /\ readyQ' = readyQ /\ sleepQ' = sleepQ /\ current' = current
      /\ tmpCur' = tmpCur /\ saved' = saved /\ nextPid' = nextPid /\ tick' = tick
      /\ run' = run /\ iflag' = iflag /\ arg' = arg /\ fault' = fault
      /\ hit' = hit /\ snap' = snap /\ eos' = eos /\ wrapped' = wrapped
  BY DEF EnqueueWalk, list, task, history
<1>l. Len(z) \in Nat /\ z \in Seq(Task) /\ DOMAIN z = 1..Len(z)
  BY <1>2 DEF SleepFrom
<1>7. CASE /\ next[it[run]] # NULL /\ it' = [it EXCEPT ![run] = next[it[run]]]
           /\ pc' = pc
  <2>1. j < Len(z) /\ it' = [it EXCEPT ![run] = z[j + 1]]
    BY <1>5, <1>7
  <2>2. j + 1 \in 1..Len(z)
    BY <1>l, <2>1
  <2>3. z[j + 1] \in Link
    BY <1>l, <2>2 DEF Link
  <2>4. it' \in [Task -> Link] /\ it'[run] = z[j + 1]
    BY <1>3, <2>1, <2>3 DEF Good, Typed
  <2>5. pc' = [pc EXCEPT ![run] = "walk"]
    BY <1>1, <1>3, <1>7 DEF Good, Typed
  <2>6. SleepMove("walk")
    BY <1>6, <2>4, <2>5 DEF SleepMove, Good, Typed, SavedType
  <2>7. \E i \in DOMAIN z : it'[run] = z[i]
    BY <1>l, <2>2, <2>4
  <2>8. SleepAt("walk", r, z, k)'
    BY <1>3, <1>6, <2>7 DEF SleepAt, Linking, Unlinking
  <2> QED
    BY <1>1, <1>2, <2>6, <2>8, SleepFrame DEF Label
<1>8. CASE next[it[run]] = NULL /\ pc' = [pc EXCEPT ![run] = "link"] /\ it' = it
  <2>1. ~(j < Len(z))
    <3> SUFFICES ASSUME j < Len(z) PROVE FALSE
      OBVIOUS
    <3>1. j + 1 \in 1..Len(z)
      BY <1>l
    <3>2. z[j + 1] \in Task
      BY <1>l, <3>1
    <3> QED
      BY <1>5, <1>8, <3>2 DEF Task, NULL
  <2>2. j = Len(z) /\ Len(z) > 0
    <3>1. Len(z) \in Nat
      BY <1>l
    <3> QED
      BY ONLY <2>1, <3>1, j \in 1..Len(z)
  <2>3. SleepMove("link")
    BY <1>6, <1>8 DEF SleepMove, Good, Typed, SavedType
  <2>4. SleepAt("link", r, z, k)'
    BY <1>3, <1>4, <1>6, <1>8, <2>2 DEF SleepAt, Linking, Unlinking
  <2> QED
    BY <1>1, <1>2, <2>3, <2>4, SleepFrame DEF Label
<1> QED
  BY <1>7, <1>8 DEF EnqueueWalk, SetIt, Goto

LEMMA EnqueueLinkStep ==
    ASSUME Good, EnqueueLink
    PROVE  Good' /\ UNCHANGED Abstract!vars
<1>1. ~Stable /\ pc[run] = "link"
  BY DEF EnqueueLink, At, Stable
<1>2. PICK r, z, k : SleepFrom(r, z, k) /\ SleepAt(pc[run], r, z, k)
  BY <1>1, SleepFromFacts
<1>3. /\ current = run /\ run \in Task /\ Seg(next, readyQ, r, NULL)
      /\ Seg(next, sleepQ, z, NULL) /\ Len(z) > 0 /\ it[run] = z[Len(z)]
      /\ eos[run] # 0 /\ (wrapped = "no" => eos[run] = tick + arg[run])
  BY <1>1, <1>2 DEF SleepAt, SleepFrom, Linking
<1>4. /\ next' = [next EXCEPT ![z[Len(z)]] = run]
      /\ readyQ' = readyQ /\ sleepQ' = sleepQ /\ current' = current
      /\ tmpCur' = tmpCur /\ saved' = saved /\ nextPid' = nextPid /\ tick' = tick
      /\ run' = run /\ iflag' = iflag /\ it' = it /\ arg' = arg /\ fault' = fault
      /\ hit' = hit /\ snap' = snap /\ pc' = [pc EXCEPT ![run] = "save"]
      /\ eos' = eos /\ wrapped' = wrapped
  BY <1>3 DEF EnqueueLink, Goto, task, history
<1>5. z[Len(z)] \in Task /\ In(z[Len(z)], z) /\ z[Len(z)] < nextPid
  <2>1. Len(z) \in DOMAIN z
    BY <1>2, <1>3 DEF SleepFrom
  <2>2. In(z[Len(z)], z)
    BY <2>1 DEF In
  <2> QED
    BY <1>2, <2>2 DEF SleepFrom
<1>6. /\ next' \in [Task -> Link] /\ next'[z[Len(z)]] = run
      /\ \A t \in Task : t # z[Len(z)] => next'[t] = next[t]
  BY <1>3, <1>4, <1>5 DEF Good, Typed, Link
<1>7. \A t \in Task : t >= nextPid => t # z[Len(z)]
  BY <1>5 DEF Good, Typed, Task
<1>8. SleepMove("save")
  BY <1>4, <1>6, <1>7 DEF SleepMove, Good, Typed, SavedType
<1>9. Seg(next', readyQ', r, NULL)
  <2>1. \A t : In(t, r) => t \in Task /\ t # z[Len(z)]
    BY <1>2, <1>5 DEF SleepFrom
  <2>2. \A t : In(t, r) => next'[t] = next[t]
    BY <1>6, <2>1
  <2> QED
    BY <1>3, <1>4, <2>2, SegFrame
<1>10. Seg(next', sleepQ', z, run)
  <2>1. \A t : In(t, z) /\ t # z[Len(z)] => next'[t] = next[t]
    BY <1>2, <1>6 DEF SleepFrom
  <2>2. z \in Seq(Task) /\ Injective(z) /\ Len(z) > 0 /\ Seg(next, sleepQ, z, NULL)
    BY <1>2, <1>3 DEF SleepFrom
  <2>3. Seg(next', sleepQ, z, next'[z[Len(z)]])
    BY ONLY <2>1, <2>2, SegRetarget
  <2> QED
    BY <1>4, <1>6, <2>3
<1>11. SleepAt("save", r, z, k)'
  BY <1>3, <1>4, <1>9, <1>10 DEF SleepAt, Linking, Unlinking
<1> QED
  BY <1>1, <1>2, <1>8, <1>11, SleepFrame DEF Label

(* The round-robin successor of one of several tasks is another task.      *)
LEMMA AfterFacts ==
    ASSUME NEW S, NEW q \in Seq(S), Injective(q), NEW k \in 1..Len(q), Len(q) > 1
    PROVE  After(q, k) \in S /\ In(After(q, k), q) /\ After(q, k) # q[k]
  BY DEF After, In, Injective

LEMMA SaveContextStep ==
    ASSUME Good, SaveContext
    PROVE  Good' /\ UNCHANGED Abstract!vars
<1>1. ~Stable /\ pc[run] = "save"
  BY DEF SaveContext, At, Stable
<1>2. PICK r, z, k : SleepFrom(r, z, k) /\ SleepAt(pc[run], r, z, k)
  BY <1>1, SleepFromFacts
<1>3. /\ current = run /\ run \in Task /\ Seg(next, readyQ, r, NULL)
      /\ Seg(next, sleepQ, z, run)
      /\ eos[run] # 0 /\ (wrapped = "no" => eos[run] = tick + arg[run])
  BY <1>1, <1>2 DEF SleepAt, SleepFrom, Unlinking
<1>4. ~OnlyTask
  <2>1. 1 \in DOMAIN r /\ 1 < Len(r) /\ r # <<>> /\ r[1 + 1] \in Task
    BY <1>2 DEF SleepFrom
  <2>2. readyQ = r[1] /\ next[r[1]] = r[1 + 1]
    BY <1>3, <2>1 DEF Seg
  <2> QED
    BY <2>1, <2>2 DEF OnlyTask, Task, NULL
<1> DEFINE ctx == [owner |-> run, kind |-> "call", live |-> TRUE]
<1>5. /\ saved' = [saved EXCEPT ![run] = ctx]
      /\ next' = next /\ readyQ' = readyQ /\ sleepQ' = sleepQ /\ current' = current
      /\ tmpCur' = tmpCur /\ nextPid' = nextPid /\ tick' = tick
      /\ run' = run /\ iflag' = iflag /\ it' = it /\ arg' = arg /\ fault' = fault
      /\ hit' = hit /\ snap' = snap /\ pc' = [pc EXCEPT ![run] = "pick"]
      /\ eos' = eos /\ wrapped' = wrapped
  BY <1>3, <1>4 DEF SaveContext, Save, Goto, list, history
<1>6. ctx \in [owner : Link, kind : Kind, live : BOOLEAN]
  BY <1>3 DEF Link, Kind
<1> HIDE DEF ctx
<1>7. /\ saved' \in SavedType /\ saved'[run] = ctx
      /\ \A t \in Task : t # run => saved'[t] = saved[t]
  BY <1>3, <1>5, <1>6 DEF Good, Typed, SavedType
<1>8. SleepMove("pick")
  BY <1>5, <1>7 DEF SleepMove, Good, Typed
<1>9. SleepAt("pick", r, z, k)'
  BY <1>3, <1>5, <1>7 DEF SleepAt, Linking, Unlinking, ctx
<1> QED
  BY <1>1, <1>2, <1>8, <1>9, SleepFrame DEF Label

LEMMA PickNextStep ==
    ASSUME Good, PickNext
    PROVE  Good' /\ UNCHANGED Abstract!vars
<1>1. ~Stable /\ pc[run] = "pick"
  BY DEF PickNext, At, Stable
<1>2. PICK r, z, k : SleepFrom(r, z, k) /\ SleepAt(pc[run], r, z, k)
  BY <1>1, SleepFromFacts
<1>3. /\ current = run /\ run \in Task /\ Seg(next, readyQ, r, NULL)
      /\ Seg(next, sleepQ, z, run)
      /\ saved[run] = [owner |-> run, kind |-> "call", live |-> TRUE]
      /\ eos[run] # 0 /\ (wrapped = "no" => eos[run] = tick + arg[run])
  BY <1>1, <1>2 DEF SleepAt, SleepFrom, Linking, Unlinking
<1>4. /\ tmpCur' = next[run] /\ saved' = saved
      /\ next' = next /\ readyQ' = readyQ /\ sleepQ' = sleepQ /\ current' = current
      /\ nextPid' = nextPid /\ tick' = tick
      /\ run' = run /\ iflag' = iflag /\ it' = it /\ arg' = arg /\ fault' = fault
      /\ hit' = hit /\ snap' = snap /\ pc' = [pc EXCEPT ![run] = "wrap"]
      /\ eos' = eos /\ wrapped' = wrapped
  BY <1>3 DEF PickNext, Goto, list, task, history
<1>5. next[run] = IF k < Len(r) THEN r[k + 1] ELSE NULL
  BY <1>2, <1>3 DEF Seg, SleepFrom
<1>6. next[run] \in Link
  BY <1>3 DEF Good, Typed
<1>7. SleepMove("wrap")
  BY <1>4, <1>6 DEF SleepMove, Good, Typed, SavedType
<1>8. SleepAt("wrap", r, z, k)'
  BY <1>3, <1>4, <1>5 DEF SleepAt, Linking, Unlinking
<1> QED
  BY <1>1, <1>2, <1>7, <1>8, SleepFrame DEF Label

LEMMA WrapNextStep ==
    ASSUME Good, WrapNext
    PROVE  Good' /\ UNCHANGED Abstract!vars
<1>1. ~Stable /\ pc[run] = "wrap"
  BY DEF WrapNext, At, Stable
<1>2. PICK r, z, k : SleepFrom(r, z, k) /\ SleepAt(pc[run], r, z, k)
  BY <1>1, SleepFromFacts
<1>3. /\ current = run /\ run \in Task /\ Seg(next, readyQ, r, NULL)
      /\ Seg(next, sleepQ, z, run)
      /\ tmpCur = IF k < Len(r) THEN r[k + 1] ELSE NULL
      /\ saved[run] = [owner |-> run, kind |-> "call", live |-> TRUE]
      /\ eos[run] # 0 /\ (wrapped = "no" => eos[run] = tick + arg[run])
  BY <1>1, <1>2 DEF SleepAt, SleepFrom, Linking, Unlinking
<1>4. /\ tmpCur' = IF tmpCur = NULL THEN readyQ ELSE tmpCur
      /\ next' = next /\ readyQ' = readyQ /\ sleepQ' = sleepQ /\ current' = current
      /\ nextPid' = nextPid /\ tick' = tick /\ saved' = saved
      /\ run' = run /\ iflag' = iflag /\ it' = it /\ arg' = arg /\ fault' = fault
      /\ hit' = hit /\ snap' = snap /\ pc' = [pc EXCEPT ![run] = "unlink"]
      /\ eos' = eos /\ wrapped' = wrapped
  BY DEF WrapNext, Goto, list, task, history
<1>5. tmpCur' = After(r, k)
  <2>1. readyQ = r[1]
    BY <1>2, <1>3 DEF Seg, SleepFrom
  <2>2. k < Len(r) => r[k + 1] \in Task
    BY <1>2 DEF SleepFrom
  <2>3. k < Len(r) => r[k + 1] # NULL
    BY <2>2 DEF Task, NULL
  <2> QED
    BY <1>3, <1>4, <2>1, <2>3 DEF After
<1>6. SleepMove("unlink")
  BY <1>4 DEF SleepMove, Good, Typed, SavedType
<1>7. SleepAt("unlink", r, z, k)'
  BY <1>3, <1>4, <1>5 DEF SleepAt, Linking, Unlinking
<1> QED
  BY <1>1, <1>2, <1>6, <1>7, SleepFrame DEF Label

LEMMA UnlinkStartStep ==
    ASSUME Good, UnlinkStart
    PROVE  Good' /\ UNCHANGED Abstract!vars
<1>1. ~Stable /\ pc[run] = "unlink"
  BY DEF UnlinkStart, At, Stable
<1>2. PICK r, z, k : SleepFrom(r, z, k) /\ SleepAt(pc[run], r, z, k)
  BY <1>1, SleepFromFacts
<1>3. /\ current = run /\ run \in Task /\ Seg(next, readyQ, r, NULL)
      /\ Seg(next, sleepQ, z, run) /\ tmpCur = After(r, k)
      /\ saved[run] = [owner |-> run, kind |-> "call", live |-> TRUE]
      /\ eos[run] # 0 /\ (wrapped = "no" => eos[run] = tick + arg[run])
  BY <1>1, <1>2 DEF SleepAt, SleepFrom, Linking, Unlinking
<1>4. /\ tmpCur' = tmpCur /\ next' = next /\ sleepQ' = sleepQ /\ current' = current
      /\ nextPid' = nextPid /\ tick' = tick /\ saved' = saved
      /\ run' = run /\ iflag' = iflag /\ arg' = arg /\ fault' = fault
      /\ hit' = hit /\ snap' = snap /\ eos' = eos /\ wrapped' = wrapped
  BY DEF UnlinkStart, task, history
<1>5. /\ r \in Seq(Task) /\ Injective(r) /\ Len(r) \in Nat /\ Len(r) > 1 /\ r # <<>>
      /\ DOMAIN r = 1..Len(r) /\ k \in 1..Len(r) /\ r[k] = run /\ readyQ = r[1]
  BY <1>2, <1>3 DEF SleepFrom, Seg
<1>6. CASE /\ readyQ = run /\ readyQ' = next[run]
           /\ pc' = [pc EXCEPT ![run] = "clear"] /\ it' = it
  <2>1. k = 1
    <3>1. 1 \in DOMAIN r /\ k \in DOMAIN r /\ r[1] = r[k]
      BY <1>5, <1>6
    <3> QED
      BY ONLY <3>1, <1>5 DEF Injective
  <2>2. Seg(next, next[readyQ], RemoveAt(r, 1), NULL)
    BY <1>3, <1>5, SegBehead
  <2>3. Seg(next', readyQ', RemoveAt(r, k), NULL)
    BY <1>4, <1>6, <2>1, <2>2
  <2>4. readyQ' \in Link
    BY <1>3, <1>6 DEF Good, Typed
  <2>5. SleepMove("clear")
    BY <1>4, <1>6, <2>4 DEF SleepMove, Good, Typed, SavedType
  <2>6. SleepAt("clear", r, z, k)'
    BY <1>3, <1>4, <2>3 DEF SleepAt, Linking, Unlinking
  <2> QED
    BY <1>1, <1>2, <2>5, <2>6, SleepFrame DEF Label
<1>7. CASE /\ readyQ # run /\ readyQ' = readyQ
           /\ pc' = [pc EXCEPT ![run] = "seek"] /\ it' = [it EXCEPT ![run] = readyQ]
  <2>1. it' \in [Task -> Link] /\ it'[run] = r[1]
    BY <1>3, <1>5, <1>7 DEF Good, Typed
  <2>2. 1 \in 1..(k - 1)
    <3>1. k # 1
      BY <1>5, <1>7
    <3> QED
      BY <1>5, <3>1
  <2>3. SleepMove("seek")
    BY <1>4, <1>7, <2>1 DEF SleepMove, Good, Typed, SavedType
  <2>4. \E j \in 1..(k - 1) : it'[run] = r[j]
    BY <2>1, <2>2
  <2>5. SleepAt("seek", r, z, k)'
    BY <1>3, <1>4, <1>7, <2>4 DEF SleepAt, Linking, Unlinking
  <2> QED
    BY <1>1, <1>2, <2>3, <2>5, SleepFrame DEF Label
<1> QED
  BY <1>3, <1>6, <1>7 DEF UnlinkStart, Goto, SetIt

LEMMA UnlinkSeekStep ==
    ASSUME Good, UnlinkSeek
    PROVE  Good' /\ UNCHANGED Abstract!vars
<1>1. ~Stable /\ pc[run] = "seek"
  BY DEF UnlinkSeek, At, Stable
<1>2. PICK r, z, k : SleepFrom(r, z, k) /\ SleepAt(pc[run], r, z, k)
  BY <1>1, SleepFromFacts
<1>3. /\ current = run /\ run \in Task /\ Seg(next, readyQ, r, NULL)
      /\ Seg(next, sleepQ, z, run) /\ tmpCur = After(r, k)
      /\ saved[run] = [owner |-> run, kind |-> "call", live |-> TRUE]
      /\ eos[run] # 0 /\ (wrapped = "no" => eos[run] = tick + arg[run])
  BY <1>1, <1>2 DEF SleepAt, SleepFrom, Linking, Unlinking
<1>4. PICK j \in 1..(k - 1) : it[run] = r[j]
  BY <1>1, <1>2 DEF SleepAt
<1>5. /\ r \in Seq(Task) /\ Injective(r) /\ Len(r) \in Nat
      /\ DOMAIN r = 1..Len(r) /\ k \in 1..Len(r) /\ r[k] = run
  BY <1>2 DEF SleepFrom
<1>6. j \in 1..Len(r) /\ j < Len(r) /\ j + 1 \in 1..Len(r) /\ j + 1 <= k
  <2>1. k \in 1..Len(r) /\ Len(r) \in Nat
    BY <1>5
  <2> QED
    BY ONLY <2>1, j \in 1..(k - 1)
<1>7. it[run] \in Task /\ it[run] # NULL /\ next[it[run]] = r[j + 1] /\ r[j + 1] \in Task
  <2>1. r[j] \in Task /\ r[j + 1] \in Task
    BY <1>5, <1>6
  <2>2. next[r[j]] = r[j + 1]
    BY <1>3, <1>5, <1>6 DEF Seg
  <2> QED
    BY <1>4, <2>1, <2>2 DEF Task, NULL
<1>8. /\ tmpCur' = tmpCur /\ next' = next /\ sleepQ' = sleepQ /\ current' = current
      /\ readyQ' = readyQ /\ nextPid' = nextPid /\ tick' = tick /\ saved' = saved
      /\ run' = run /\ iflag' = iflag /\ arg' = arg
      /\ hit' = hit /\ snap' = snap /\ eos' = eos /\ wrapped' = wrapped
  BY DEF UnlinkSeek, list, task, history
<1>9. CASE /\ r[j + 1] # run /\ it' = [it EXCEPT ![run] = r[j + 1]]
           /\ pc' = pc /\ fault' = fault
  <2>1. it' \in [Task -> Link] /\ it'[run] = r[j + 1]
    BY <1>3, <1>7, <1>9 DEF Good, Typed, Link
  <2>2. j + 1 \in 1..(k - 1)
    <3>1. j + 1 # k
      BY <1>5, <1>9
    <3>2. k \in Nat
      BY <1>5
    <3> QED
      BY ONLY <1>6, <3>1, <3>2, j \in 1..(k - 1)
  <2>3. pc' = [pc EXCEPT ![run] = "seek"]
    BY <1>1, <1>3, <1>9 DEF Good, Typed
  <2>4. SleepMove("seek")
    BY <1>8, <1>9, <2>1, <2>3 DEF SleepMove, Good, Typed, SavedType
  <2>5. \E i \in 1..(k - 1) : it'[run] = r[i]
    BY <2>1, <2>2
  <2>6. SleepAt("seek", r, z, k)'
    BY <1>3, <1>8, <2>5 DEF SleepAt, Linking, Unlinking
  <2> QED
    BY <1>1, <1>2, <2>4, <2>6, SleepFrame DEF Label
<1>10. CASE /\ r[j + 1] = run /\ pc' = [pc EXCEPT ![run] = "skip"]
            /\ it' = it /\ fault' = fault
  <2>1. j + 1 = k
    BY <1>5, <1>6, <1>10 DEF Injective
  <2>2. j = k - 1 /\ k > 1
    BY ONLY <2>1, j \in 1..(k - 1)
  <2>3. SleepMove("skip")
    BY <1>8, <1>10 DEF SleepMove, Good, Typed, SavedType
  <2>4. it'[run] = r[k - 1]
    BY <1>4, <1>10, <2>2
  <2>5. SleepAt("skip", r, z, k)'
    BY <1>3, <1>8, <2>2, <2>4 DEF SleepAt, Linking, Unlinking
  <2> QED
    BY <1>1, <1>2, <2>3, <2>5, SleepFrame DEF Label
<1> QED
  BY <1>3, <1>7, <1>9, <1>10 DEF UnlinkSeek, Goto, SetIt

LEMMA UnlinkSkipStep ==
    ASSUME Good, UnlinkSkip
    PROVE  Good' /\ UNCHANGED Abstract!vars
<1>1. ~Stable /\ pc[run] = "skip"
  BY DEF UnlinkSkip, At, Stable
<1>2. PICK r, z, k : SleepFrom(r, z, k) /\ SleepAt(pc[run], r, z, k)
  BY <1>1, SleepFromFacts
<1>3. /\ current = run /\ run \in Task /\ Seg(next, readyQ, r, NULL)
      /\ Seg(next, sleepQ, z, run) /\ tmpCur = After(r, k)
      /\ k > 1 /\ it[run] = r[k - 1]
      /\ saved[run] = [owner |-> run, kind |-> "call", live |-> TRUE]
      /\ eos[run] # 0 /\ (wrapped = "no" => eos[run] = tick + arg[run])
  BY <1>1, <1>2 DEF SleepAt, SleepFrom, Linking, Unlinking
<1> DEFINE p == r[k - 1]
<1>4. /\ next' = [next EXCEPT ![p] = next[run]]
      /\ readyQ' = readyQ /\ sleepQ' = sleepQ /\ current' = current
      /\ tmpCur' = tmpCur /\ saved' = saved /\ nextPid' = nextPid /\ tick' = tick
      /\ run' = run /\ iflag' = iflag /\ it' = it /\ arg' = arg /\ fault' = fault
      /\ hit' = hit /\ snap' = snap /\ pc' = [pc EXCEPT ![run] = "clear"]
      /\ eos' = eos /\ wrapped' = wrapped
  BY <1>3 DEF UnlinkSkip, Goto, task, history
<1>5. /\ r \in Seq(Task) /\ Injective(r) /\ Len(r) \in Nat
      /\ DOMAIN r = 1..Len(r) /\ k \in 1..Len(r) /\ r[k] = run
  BY <1>2 DEF SleepFrom
<1>6. p \in Task /\ In(p, r) /\ p < nextPid
  <2>1. k - 1 \in DOMAIN r
    BY <1>3, <1>5
  <2>2. In(p, r)
    BY <2>1 DEF In
  <2> QED
    BY <1>2, <2>2 DEF SleepFrom
<1> HIDE DEF p
<1>7. /\ next' \in [Task -> Link] /\ next'[p] = next[run]
      /\ \A t \in Task : t # p => next'[t] = next[t]
  BY <1>3, <1>4, <1>6 DEF Good, Typed
<1>8. \A t \in Task : t >= nextPid => t # p
  BY <1>6 DEF Good, Typed, Task
<1>9. SleepMove("clear")
  BY <1>4, <1>7, <1>8 DEF SleepMove, Good, Typed, SavedType
<1>10. Seg(next', readyQ', RemoveAt(r, k), NULL)
  <2>1. \A t : In(t, r) /\ t # r[k - 1] => next'[t] = next[t]
    BY <1>2, <1>7 DEF SleepFrom, p
  <2>2. next'[r[k - 1]] = next[r[k]]
    BY <1>5, <1>7 DEF p
  <2>3. r \in Seq(Task) /\ Injective(r) /\ k \in DOMAIN r /\ k > 1
    BY <1>3, <1>5
  <2>4. Seg(next', readyQ, RemoveAt(r, k), NULL)
    BY ONLY <1>3, <2>1, <2>2, <2>3, SegSkip
  <2> QED
    BY <1>4, <2>4
<1>11. Seg(next', sleepQ', z, run)
  <2>1. \A t : In(t, z) => next'[t] = next[t]
    BY <1>2, <1>6, <1>7 DEF SleepFrom
  <2> QED
    BY <1>3, <1>4, <2>1, SegFrame
<1>12. SleepAt("clear", r, z, k)'
  BY <1>3, <1>4, <1>10, <1>11 DEF SleepAt, Linking, Unlinking
<1> QED
  BY <1>1, <1>2, <1>9, <1>12, SleepFrame DEF Label

LEMMA UnlinkClearStep ==
    ASSUME Good, UnlinkClear
    PROVE  Good' /\ UNCHANGED Abstract!vars
<1>1. ~Stable /\ pc[run] = "clear"
  BY DEF UnlinkClear, At, Stable
<1>2. PICK r, z, k : SleepFrom(r, z, k) /\ SleepAt(pc[run], r, z, k)
  BY <1>1, SleepFromFacts
<1>3. /\ current = run /\ run \in Task /\ Seg(next, readyQ, RemoveAt(r, k), NULL)
      /\ Seg(next, sleepQ, z, run) /\ tmpCur = After(r, k)
      /\ saved[run] = [owner |-> run, kind |-> "call", live |-> TRUE]
      /\ eos[run] # 0 /\ (wrapped = "no" => eos[run] = tick + arg[run])
  BY <1>1, <1>2 DEF SleepAt, SleepFrom, Linking, Unlinking
<1>4. /\ next' = [next EXCEPT ![run] = NULL]
      /\ readyQ' = readyQ /\ sleepQ' = sleepQ /\ current' = current
      /\ tmpCur' = tmpCur /\ saved' = saved /\ nextPid' = nextPid /\ tick' = tick
      /\ run' = run /\ iflag' = iflag /\ it' = it /\ arg' = arg /\ fault' = fault
      /\ hit' = hit /\ snap' = snap /\ pc' = [pc EXCEPT ![run] = "set"]
      /\ eos' = eos /\ wrapped' = wrapped
  BY <1>3 DEF UnlinkClear, Goto, task, history
<1>5. /\ r \in Seq(Task) /\ Injective(r) /\ k \in DOMAIN r /\ r[k] = run
      /\ In(run, r) /\ run < nextPid
  BY <1>2 DEF SleepFrom
<1>6. /\ next' \in [Task -> Link] /\ next'[run] = NULL
      /\ \A t \in Task : t # run => next'[t] = next[t]
  BY <1>3, <1>4 DEF Good, Typed, Link
<1>7. \A t \in Task : t >= nextPid => t # run
  BY <1>5 DEF Good, Typed, Task
<1>8. SleepMove("set")
  BY <1>4, <1>6, <1>7 DEF SleepMove, Good, Typed, SavedType
<1>9. Seg(next', readyQ', RemoveAt(r, k), NULL)
  <2>1. \A t : In(t, RemoveAt(r, k)) => In(t, r) /\ t # run
    BY <1>5, RemoveIn
  <2>2. \A t : In(t, RemoveAt(r, k)) => next'[t] = next[t]
    BY <1>2, <1>6, <2>1 DEF SleepFrom
  <2> QED
    BY <1>3, <1>4, <2>2, SegFrame
<1>10. Seg(next', sleepQ', Append(z, run), NULL)
  <2>1. \A t : In(t, z) => next'[t] = next[t]
    BY <1>2, <1>5, <1>6 DEF SleepFrom
  <2>2. z \in Seq(Task)
    BY <1>2 DEF SleepFrom
  <2> QED
    BY <1>3, <1>4, <1>6, <2>1, <2>2, SegExtend
<1>11. SleepAt("set", r, z, k)'
  BY <1>3, <1>4, <1>9, <1>10 DEF SleepAt, Linking, Unlinking
<1> QED
  BY <1>1, <1>2, <1>8, <1>11, SleepFrame DEF Label

LEMMA SetCurrentStep ==
    ASSUME Good, SetCurrent
    PROVE  Good' /\ UNCHANGED Abstract!vars
<1>1. ~Stable /\ pc[run] = "set"
  BY DEF SetCurrent, At, Stable
<1>2. PICK r, z, k : SleepFrom(r, z, k) /\ SleepAt(pc[run], r, z, k)
  BY <1>1, SleepFromFacts
<1>3. /\ run \in Task /\ Seg(next, readyQ, RemoveAt(r, k), NULL)
      /\ Seg(next, sleepQ, Append(z, run), NULL) /\ tmpCur = After(r, k)
      /\ saved[run] = [owner |-> run, kind |-> "call", live |-> TRUE]
      /\ eos[run] # 0 /\ (wrapped = "no" => eos[run] = tick + arg[run])
  BY <1>1, <1>2 DEF SleepAt, SleepFrom, Linking, Unlinking
<1>4. /\ next' = next /\ readyQ' = readyQ /\ sleepQ' = sleepQ /\ current' = tmpCur
      /\ tmpCur' = tmpCur /\ saved' = saved /\ nextPid' = nextPid /\ tick' = tick
      /\ run' = run /\ iflag' = iflag /\ it' = it /\ arg' = arg /\ fault' = fault
      /\ hit' = hit /\ snap' = snap /\ pc' = [pc EXCEPT ![run] = "jump"]
      /\ eos' = eos /\ wrapped' = wrapped
  BY DEF SetCurrent, Goto, list, task, history
<1>5. SleepMove("jump")
  BY <1>4 DEF SleepMove, Good, Typed, SavedType
<1>6. SleepAt("jump", r, z, k)'
  BY <1>3, <1>4 DEF SleepAt, Linking, Unlinking
<1> QED
  BY <1>1, <1>2, <1>5, <1>6, SleepFrame DEF Label

-----------------------------------------------------------------------------
(* The steps between calls of sleep().                                     *)

(* The lists r and z at rest.                                              *)
RestWith(r, z) ==
    /\ Partition(r, z, nextPid)
    /\ Seg(next, readyQ, r, NULL) /\ Seg(next, sleepQ, z, NULL)
    /\ \A t \in Task : t >= nextPid => eos[t] = 0 /\ next[t] = NULL
    /\ \A t : In(t, r) => eos[t] = 0
    /\ nextPid > 1 /\ current = run /\ In(run, r) /\ pc[run] = "user"

(* The abstraction at rest.                                                *)
LEMMA RestAbs ==
    ASSUME NEW r, NEW z, Typed, Stable, Partition(r, z, nextPid),
           Seg(next, readyQ, r, NULL), Seg(next, sleepQ, z, NULL)
    PROVE  /\ AbsReady = r /\ AbsSleepq = z /\ AbsCur = current /\ AbsCtx = Kinds
           /\ Chain(next, readyQ) = r /\ Chain(next, sleepQ) = z
           /\ ~Cyclic(next, readyQ) /\ ~Cyclic(next, sleepQ)
<1>0. nextPid \in 1..(MaxTasks + 1)
  BY DEF Typed
<1>1. /\ r \in Seq(Task) /\ z \in Seq(Task)
      /\ Len(r) \in Nat /\ Len(z) \in Nat /\ Len(r) + Len(z) <= MaxTasks
  BY <1>0, PartitionFacts
<1>2. Len(r) <= MaxTasks /\ Len(z) <= MaxTasks
  BY <1>1, SleepStepsAssumption
<1>3. Chain(next, readyQ) = r /\ ~Cyclic(next, readyQ)
  BY <1>1, <1>2, SegChain
<1>4. Chain(next, sleepQ) = z /\ ~Cyclic(next, sleepQ)
  BY <1>1, <1>2, SegChain
<1> QED
  BY <1>3, <1>4 DEF AbsReady, AbsSleepq, AbsCur, AbsCtx

LEMMA RestGood ==
    ASSUME NEW r, NEW z, Typed, Suspended, RestWith(r, z)
    PROVE  Good
<1>1. Stable
  BY DEF Stable, RestWith
<1>2. AbsReady = r /\ AbsSleepq = z
  BY <1>1, RestAbs DEF RestWith
<1>3. Unstamped
  BY <1>2 DEF Unstamped, RestWith
<1>4. AtRest /\ InSleep
  BY <1>1, <1>2 DEF AtRest, InSleep, RestWith
<1> QED
  BY <1>2, <1>3, <1>4 DEF Good, RestWith

LEMMA RestFacts ==
    ASSUME Good, pc[run] = "user"
    PROVE  RestWith(AbsReady, AbsSleepq)
<1>1. Stable
  BY DEF Stable
<1>2. /\ Seg(next, readyQ, AbsReady, NULL) /\ Seg(next, sleepQ, AbsSleepq, NULL)
      /\ nextPid > 1 /\ current = run /\ In(run, AbsReady)
  BY <1>1 DEF Good, AtRest
<1>3. Partition(AbsReady, AbsSleepq, nextPid)
  BY DEF Good
<1>4. /\ \A t \in Task : t >= nextPid => eos[t] = 0 /\ next[t] = NULL
      /\ \A t \in Task : In(t, AbsReady) => eos[t] = 0
  BY DEF Good, Unstamped
<1>5. \A t : In(t, AbsReady) => t \in Task
  BY <1>3, PartitionFacts DEF Good, Typed
<1> QED
  BY <1>2, <1>3, <1>4, <1>5 DEF RestWith

(* The same for the state after a step.                                    *)
LEMMA RestAfter ==
    \A r, z : Typed' /\ Suspended' /\ RestWith(r, z)' =>
       /\ Good' /\ AbsReady' = r /\ AbsSleepq' = z
       /\ AbsCur' = current' /\ AbsCtx' = Kinds'
<1> DEFINE F == \A r, z : Typed /\ Suspended /\ RestWith(r, z) =>
                   /\ Good /\ AbsReady = r /\ AbsSleepq = z
                   /\ AbsCur = current /\ AbsCtx = Kinds
<1>1. F
  <2> SUFFICES ASSUME NEW r, NEW z, Typed, Suspended, RestWith(r, z)
               PROVE  /\ Good /\ AbsReady = r /\ AbsSleepq = z
                      /\ AbsCur = current /\ AbsCtx = Kinds
    OBVIOUS
  <2>1. Good
    BY RestGood
  <2>2. /\ Stable /\ Partition(r, z, nextPid)
        /\ Seg(next, readyQ, r, NULL) /\ Seg(next, sleepQ, z, NULL)
    BY DEF RestWith, Stable
  <2> QED
    BY <2>1, <2>2, RestAbs
<1> HIDE DEF F
<1>2. F'
  BY <1>1, PTL
<1> QED
  BY <1>2 DEF F

-----------------------------------------------------------------------------
(* The actions of Scheduler, on the abstraction.                           *)

LEMMA AbsFork ==
    ASSUME AbsCur # NULL, nextPid <= MaxTasks, AbsReady' = Append(AbsReady, nextPid),
           AbsCtx' = [AbsCtx EXCEPT ![nextPid] = "child"], nextPid' = nextPid + 1,
           iflag' = TRUE, AbsSleepq' = AbsSleepq, AbsCur' = AbsCur, AbsLeft' = AbsLeft
    PROVE  Abstract!Next
<1>1. Abstract!Fork
  BY DEF Abstract!Fork, Abstract!NoTask, NULL
<1> QED
  BY <1>1 DEF Abstract!Next

LEMMA AbsInitialise ==
    ASSUME AbsCur = NULL, AbsReady' = <<nextPid>>, AbsCur' = nextPid,
           nextPid' = nextPid + 1, iflag' = TRUE, AbsSleepq' = AbsSleepq,
           AbsLeft' = AbsLeft, AbsCtx' = AbsCtx
    PROVE  Abstract!Next
<1>1. Abstract!InitialiseTasking
  BY DEF Abstract!InitialiseTasking, Abstract!NoTask, NULL
<1> QED
  BY <1>1 DEF Abstract!Next

LEMMA AbsSleep ==
    ASSUME NEW n \in SleepArgs, AbsCur # NULL, Len(AbsReady) > 1,
           NEW k \in DOMAIN AbsReady, AbsReady[k] = AbsCur,
           AbsReady' = RemoveAt(AbsReady, k), AbsSleepq' = Append(AbsSleepq, AbsCur),
           AbsLeft' = [AbsLeft EXCEPT ![AbsCur] = n],
           AbsCtx' = [AbsCtx EXCEPT ![AbsCur] = "call"],
           AbsCur' = After(AbsReady, k),
           iflag' = (iflag \/ AbsCtx[After(AbsReady, k)] # "call"), nextPid' = nextPid
    PROVE  Abstract!Next
<1>1. Abstract!Unlink(AbsReady, k) = RemoveAt(AbsReady, k)
  BY DEF Abstract!Unlink, Abstract!RemoveAt, RemoveAt
<1>2. Abstract!Successor(AbsReady, k) = After(AbsReady, k)
  BY DEF Abstract!Successor, After
<1>3. Abstract!Resume(Abstract!Successor(AbsReady, k), iflag)
  BY <1>2 DEF Abstract!Resume
<1>4. Abstract!Suspend(n, "call", iflag)
  BY <1>1, <1>3 DEF Abstract!Suspend
<1>5. Abstract!Sleep(n)
  BY <1>4 DEF Abstract!Sleep, Abstract!NoTask, NULL
<1> QED
  BY <1>5 DEF Abstract!Next

(* What switch_task does when a tick calls it with q as the ready list.    *)
AbsSwitched(q) ==
    /\ AbsReady' = q
    /\ \/ Len(q) = 1 /\ AbsCur' = AbsCur /\ AbsCtx' = AbsCtx /\ iflag' = iflag
       \/ /\ Len(q) > 1 /\ AbsCtx' = [AbsCtx EXCEPT ![AbsCur] = "irq"]
          /\ \E k \in DOMAIN q :
                /\ q[k] = AbsCur /\ AbsCur' = After(q, k)
                /\ iflag' = (AbsCtx[After(q, k)] # "call")

LEMMA AbsSwitch ==
    ASSUME NEW q, AbsSwitched(q)
    PROVE  Abstract!SwitchFromTimer(q)
<1>1. CASE Len(q) = 1 /\ AbsCur' = AbsCur /\ AbsCtx' = AbsCtx /\ iflag' = iflag
  BY <1>1 DEF Abstract!SwitchFromTimer, AbsSwitched
<1>2. CASE /\ Len(q) > 1 /\ AbsCtx' = [AbsCtx EXCEPT ![AbsCur] = "irq"]
           /\ \E k \in DOMAIN q :
                 /\ q[k] = AbsCur /\ AbsCur' = After(q, k)
                 /\ iflag' = (AbsCtx[After(q, k)] # "call")
  <2>1. PICK k \in DOMAIN q :
           /\ q[k] = AbsCur /\ AbsCur' = After(q, k)
           /\ iflag' = (AbsCtx[After(q, k)] # "call")
    BY <1>2
  <2>2. Abstract!Successor(q, k) = After(q, k)
    BY DEF Abstract!Successor, After
  <2>3. Abstract!Resume(Abstract!Successor(q, k), FALSE)
    BY <2>1, <2>2 DEF Abstract!Resume
  <2> QED
    BY <1>2, <2>1, <2>3 DEF Abstract!SwitchFromTimer, AbsSwitched
<1> QED
  BY <1>1, <1>2 DEF AbsSwitched

(* How far the deadlines have moved after a tick that leaves z asleep.     *)
AbsAged(z) == AbsLeft' = [t \in Task |-> IF In(t, z) THEN AbsLeft[t] - 1 ELSE 0]

LEMMA AbsTickWake ==
    ASSUME iflag, nextPid # 1, nextPid' = nextPid, NEW i \in DOMAIN AbsSleepq,
           AbsLeft[AbsSleepq[i]] <= 0,
           \A j \in 1..(i - 1) : AbsLeft[AbsSleepq[j]] > 0,
           AbsSleepq' = RemoveAt(AbsSleepq, i),
           AbsSwitched(Append(AbsReady, AbsSleepq[i])), AbsAged(AbsSleepq')
    PROVE  Abstract!Next
<1>1. Abstract!Unlink(AbsSleepq, i) = RemoveAt(AbsSleepq, i)
  BY DEF Abstract!Unlink, Abstract!RemoveAt, RemoveAt
<1>2. Abstract!SwitchFromTimer(Append(AbsReady, AbsSleepq[i]))
  BY AbsSwitch
<1>3. Abstract!FirstExpired(i)
  BY DEF Abstract!FirstExpired
<1>4. Abstract!Age(AbsSleepq')
  BY DEF Abstract!Age, Abstract!In, Abstract!Task, AbsAged, In, Task
<1>5. Abstract!TickWake
  BY <1>1, <1>2, <1>3, <1>4 DEF Abstract!TickWake
<1>6. Abstract!TimerCallback
  BY <1>5 DEF Abstract!TimerCallback
<1> QED
  BY <1>6 DEF Abstract!Next

LEMMA AbsTickNoWake ==
    ASSUME iflag, nextPid # 1, nextPid' = nextPid,
           \A i \in DOMAIN AbsSleepq : AbsLeft[AbsSleepq[i]] > 0,
           AbsSleepq' = AbsSleepq, AbsSwitched(AbsReady), AbsAged(AbsSleepq)
    PROVE  Abstract!Next
<1>1. Abstract!SwitchFromTimer(AbsReady)
  BY AbsSwitch
<1>2. Abstract!Age(AbsSleepq)
  BY DEF Abstract!Age, Abstract!In, Abstract!Task, AbsAged, In, Task
<1>3. Abstract!TickNoWake
  BY <1>1, <1>2 DEF Abstract!TickNoWake
<1>4. Abstract!TimerCallback
  BY <1>3 DEF Abstract!TimerCallback
<1> QED
  BY <1>4 DEF Abstract!Next

-----------------------------------------------------------------------------
(* The steps that begin or end between calls of sleep().                   *)

LEMMA InitialiseStep ==
    ASSUME Good, InitialiseTasking
    PROVE  Good' /\ Abstract!Next
<1>0. MaxTasks \in Nat /\ 1 \in Task
  BY SleepStepsAssumption DEF Task
<1>1. pc[run] = "boot" /\ Stable
  BY DEF InitialiseTasking, At, Stable
<1>2. nextPid = 1 /\ run = 1 /\ current = NULL
  BY <1>1 DEF Good, AtRest
<1>3. AbsReady = <<>> /\ AbsSleepq = <<>> /\ sleepQ = NULL
  <2>1. Partition(AbsReady, AbsSleepq, 1) /\ 1 \in 1..(MaxTasks + 1)
    BY <1>0, <1>2 DEF Good
  <2>2. AbsReady \in Seq(Task) /\ AbsSleepq \in Seq(Task)
    BY <2>1 DEF Partition
  <2>3. Len(AbsReady) + Len(AbsSleepq) = 1 - 1
    BY <2>1 DEF Partition
  <2>4. Len(AbsReady) \in Nat /\ Len(AbsSleepq) \in Nat
    BY <2>2
  <2>5. Len(AbsReady) = 0 /\ Len(AbsSleepq) = 0
    BY ONLY <2>3, <2>4
  <2>6. AbsReady = <<>> /\ AbsSleepq = <<>>
    BY <2>2, <2>5
  <2>7. Seg(next, sleepQ, AbsSleepq, NULL)
    BY <1>1 DEF Good, AtRest
  <2> QED
    BY <2>6, <2>7 DEF Seg
<1>4. /\ current' = 1 /\ readyQ' = 1 /\ nextPid' = 2 /\ iflag' = TRUE
      /\ pc' = [pc EXCEPT ![run] = "user"]
      /\ next' = next /\ sleepQ' = sleepQ /\ tmpCur' = tmpCur /\ eos' = eos
      /\ saved' = saved /\ tick' = tick /\ run' = run /\ it' = it /\ arg' = arg
      /\ fault' = fault /\ hit' = hit /\ wrapped' = wrapped /\ snap' = snap
  BY <1>2 DEF InitialiseTasking, Goto, history
<1>5. pc' \in [Task -> Label] /\ pc'[1] = "user"
  BY <1>0, <1>2, <1>4 DEF Good, Typed, Label
<1>6. Typed'
  <2>1. 2 \in 1..(MaxTasks + 1)
    BY SleepStepsAssumption
  <2> QED
    BY <1>0, <1>4, <1>5, <2>1 DEF Good, Typed, Link
<1>7. Suspended'
  BY <1>2, <1>4 DEF Suspended, Task
<1> DEFINE r == <<1>>
           z == <<>>
<1>8. Partition(r, z, 2)
  <2>1. r \in Seq(Task) /\ z \in Seq(Task) /\ Len(r) + Len(z) = 2 - 1
    BY <1>0
  <2>2. Injective(r) /\ Injective(z)
    BY DEF Injective
  <2>3. \A t : In(t, r) <=> t = 1
    BY DEF In
  <2>4. \A t : ~In(t, z)
    BY DEF In
  <2>5. \A t : t \in Task /\ t < 2 <=> t = 1
    BY <1>0 DEF Task
  <2> HIDE DEF r, z
  <2> QED
    BY ONLY <2>1, <2>2, <2>3, <2>4, <2>5, PartitionIs
<1>9. \A t \in Task : t >= 1 => eos[t] = 0 /\ next[t] = NULL
  BY <1>2 DEF Good, Unstamped
<1>10. Seg(next', readyQ', r, NULL) /\ Seg(next', sleepQ', z, NULL)
  <2>1. next[1] = NULL
    BY <1>0, <1>9
  <2> QED
    BY <1>3, <1>4, <2>1 DEF Seg
<1>11. RestWith(r, z)'
  <2>1. \A t \in Task : t >= nextPid' => eos'[t] = 0 /\ next'[t] = NULL
    BY <1>4, <1>9 DEF Task
  <2>2. \A t : In(t, r) => t = 1
    BY DEF In
  <2>3. In(1, r)
    BY DEF In
  <2>4. \A t : In(t, r) => eos'[t] = 0
    BY <1>0, <1>4, <1>9, <2>2
  <2>5. nextPid' > 1 /\ current' = run' /\ In(run', r) /\ pc'[run'] = "user"
    BY <1>2, <1>4, <1>5, <2>3
  <2>6. Partition(r, z, nextPid')
    BY <1>4, <1>8
  <2> HIDE DEF r, z
  <2> QED
    BY <1>10, <2>1, <2>4, <2>5, <2>6 DEF RestWith
<1>12. /\ Good' /\ AbsReady' = r /\ AbsSleepq' = z
       /\ AbsCur' = current' /\ AbsCtx' = Kinds'
  BY <1>6, <1>7, <1>11, RestAfter
<1>13. AbsCur = NULL /\ AbsCtx = Kinds
  BY <1>1, <1>2 DEF AbsCur, AbsCtx
<1>14. Kinds' = Kinds
  BY <1>4 DEF Kinds
<1>15. AbsLeft' = AbsLeft
  <2>1. \A t : ~Contains(AbsSleepq, t) /\ ~Contains(AbsSleepq', t)
    BY <1>3, <1>12 DEF Contains
  <2> QED
    BY <2>1 DEF AbsLeft
<1>16. Abstract!Next
  <2>1. AbsReady' = <<nextPid>> /\ AbsCur' = nextPid /\ nextPid' = nextPid + 1
    BY <1>2, <1>4, <1>12
  <2>2. AbsSleepq' = AbsSleepq /\ AbsCtx' = AbsCtx /\ iflag' = TRUE
    BY <1>3, <1>4, <1>12, <1>13, <1>14
  <2> QED
    BY <1>13, <1>15, <2>1, <2>2, AbsInitialise
<1> QED
  BY <1>12, <1>16

LEMMA ForkStep ==
    ASSUME Good, Fork
    PROVE  Good' /\ Abstract!Next
<1>0. MaxTasks \in Nat
  BY SleepStepsAssumption
<1>1. pc[run] = "user" /\ Stable
  BY DEF Fork, At, Stable
<1>2. PICK r, z : r = AbsReady /\ z = AbsSleepq
  OBVIOUS
<1>3. RestWith(r, z)
  BY <1>1, <1>2, RestFacts
<1>4. /\ Partition(r, z, nextPid) /\ Seg(next, readyQ, r, NULL)
      /\ Seg(next, sleepQ, z, NULL) /\ current = run /\ In(run, r) /\ nextPid > 1
      /\ \A t \in Task : t >= nextPid => eos[t] = 0 /\ next[t] = NULL
      /\ \A t : In(t, r) => eos[t] = 0
  BY <1>3 DEF RestWith
<1>5. /\ r \in Seq(Task) /\ z \in Seq(Task) /\ Injective(r) /\ Len(r) \in Nat
      /\ \A t : ~(In(t, r) /\ In(t, z))
      /\ \A t : In(t, r) \/ In(t, z) <=> t \in Task /\ t < nextPid
  BY <1>4, PartitionFacts DEF Good, Typed
<1>6. Chain(next, readyQ) = r /\ AbsCur = current /\ AbsCtx = Kinds
  BY <1>1, <1>4, RestAbs DEF Good
<1>7. nextPid \in Task /\ nextPid \in Nat
  BY <1>0 DEF Fork, Good, Typed, Task
<1> DEFINE l == r[Len(r)]
           new == [owner |-> nextPid, kind |-> "child", live |-> TRUE]
<1>8. Len(r) > 0 /\ Len(r) \in DOMAIN r /\ l \in Task /\ In(l, r) /\ l # nextPid
  <2>1. Len(r) > 0 /\ Len(r) \in DOMAIN r
    BY <1>4, <1>5 DEF In
  <2>2. In(l, r)
    BY <2>1 DEF In
  <2> QED
    BY <1>5, <1>7, <2>1, <2>2
<1>9. /\ next' = [next EXCEPT ![l] = nextPid]
      /\ saved' = [saved EXCEPT ![nextPid] = new]
      /\ nextPid' = nextPid + 1 /\ iflag' = TRUE
      /\ readyQ' = readyQ /\ sleepQ' = sleepQ /\ current' = current
      /\ tmpCur' = tmpCur /\ eos' = eos /\ tick' = tick /\ run' = run
      /\ pc' = pc /\ it' = it /\ arg' = arg /\ fault' = fault
      /\ hit' = hit /\ wrapped' = wrapped /\ snap' = snap
  BY <1>6 DEF Fork, Last, stack, history
<1>10. new \in [owner : Link, kind : Kind, live : BOOLEAN] /\ new.kind = "child"
       /\ new.live = TRUE /\ new.owner = nextPid
  BY <1>7 DEF Link, Kind
<1> HIDE DEF l, new
<1>11. /\ next' \in [Task -> Link] /\ next'[l] = nextPid
       /\ \A t \in Task : t # l => next'[t] = next[t]
  BY <1>7, <1>8, <1>9 DEF Good, Typed, Link
<1>12. /\ saved' \in SavedType /\ saved'[nextPid] = new
       /\ \A t \in Task : t # nextPid => saved'[t] = saved[t]
  BY <1>7, <1>9, <1>10 DEF Good, Typed, SavedType
<1>13. Typed'
  <2>1. nextPid' \in 1..(MaxTasks + 1)
    BY <1>0, <1>7, <1>9 DEF Task
  <2> QED
    BY <1>9, <1>11, <1>12, <2>1 DEF Good, Typed, SavedType
<1>14. Suspended'
  <2> SUFFICES ASSUME NEW t \in Task, t < nextPid + 1, t # run
               PROVE  /\ saved'[t].live = TRUE /\ saved'[t].owner = t
                      /\ saved'[t].kind # "none"
                      /\ saved'[t].kind = "irq" => pc'[t] = "user"
    BY <1>9 DEF Suspended
  <2>1. CASE t = nextPid
    BY <1>10, <1>12, <2>1
  <2>2. CASE t # nextPid
    <3>1. t < nextPid
      BY <1>7, <2>2 DEF Task
    <3> QED
      BY <1>9, <1>12, <2>2, <3>1 DEF Good, Suspended
  <2> QED
    BY <2>1, <2>2
<1>a. PICK r2 : r2 = Append(r, nextPid)
  OBVIOUS
<1>15. Partition(r2, z, nextPid + 1) /\ \A t : In(t, r2) <=> In(t, r) \/ t = nextPid
  BY <1>4, <1>7, <1>a, PartitionFork
<1>16. Seg(next', readyQ', r2, NULL)
  <2>1. Seg(next', readyQ, r, nextPid)
    <3>1. \A t : In(t, r) /\ t # r[Len(r)] => next'[t] = next[t]
      BY <1>5, <1>11 DEF l
    <3>2. next'[r[Len(r)]] = nextPid
      BY <1>11 DEF l
    <3>3. /\ r \in Seq(Task) /\ Injective(r) /\ Len(r) > 0
          /\ Seg(next, readyQ, r, NULL)
      BY <1>4, <1>5, <1>8
    <3>4. Seg(next', readyQ, r, next'[r[Len(r)]])
      BY ONLY <3>1, <3>3, SegRetarget
    <3> QED
      BY <3>2, <3>4
  <2>2. next'[nextPid] = NULL
    <3>1. nextPid >= nextPid
      BY <1>7
    <3> QED
      BY <1>4, <1>7, <1>8, <1>11, <3>1
  <2>3. Seg(next', readyQ, r2, NULL)
    BY <1>5, <1>7, <1>a, <2>1, <2>2, SegExtend
  <2> QED
    BY <1>9, <2>3
<1>17. Seg(next', sleepQ', z, NULL)
  <2>1. \A t : In(t, z) => next'[t] = next[t]
    BY <1>5, <1>8, <1>11
  <2> QED
    BY <1>4, <1>9, <2>1, SegFrame
<1>18. RestWith(r2, z)'
  <2>1. \A t \in Task : t >= nextPid' => eos'[t] = 0 /\ next'[t] = NULL
    <3> SUFFICES ASSUME NEW t \in Task, t >= nextPid + 1
                 PROVE  eos'[t] = 0 /\ next'[t] = NULL
      BY <1>9
    <3>1. t >= nextPid /\ t # l
      BY <1>5, <1>7, <1>8 DEF Task
    <3> QED
      BY <1>4, <1>9, <1>11, <3>1
  <2>2. \A t : In(t, r2) => eos'[t] = 0
    <3>1. eos[nextPid] = 0
      BY <1>4, <1>7
    <3> QED
      BY <1>4, <1>9, <1>15, <3>1
  <2>3. nextPid' > 1 /\ current' = run' /\ In(run', r2) /\ pc'[run'] = "user"
    BY <1>1, <1>4, <1>7, <1>9, <1>15
  <2>4. Partition(r2, z, nextPid')
    BY <1>9, <1>15
  <2> QED
    BY <1>16, <1>17, <2>1, <2>2, <2>3, <2>4 DEF RestWith
<1>19. /\ Good' /\ AbsReady' = r2 /\ AbsSleepq' = z
       /\ AbsCur' = current' /\ AbsCtx' = Kinds'
  BY <1>13, <1>14, <1>18, RestAfter
<1>20. AbsCtx' = [AbsCtx EXCEPT ![nextPid] = "child"]
  <2>1. Kinds' = [Kinds EXCEPT ![nextPid] = "child"]
    BY <1>7, <1>10, <1>12 DEF Kinds
  <2> QED
    BY <1>6, <1>19, <2>1
<1>21. AbsLeft' = AbsLeft
  BY <1>2, <1>9, <1>19 DEF AbsLeft
<1>22. Abstract!Next
  <2>1. AbsCur # NULL /\ AbsCur' = AbsCur
    <3>1. run \in Task
      BY DEF Good, Typed
    <3> QED
      BY <1>4, <1>6, <1>9, <1>19, <3>1 DEF Task, NULL
  <2>2. nextPid <= MaxTasks
    BY DEF Fork
  <2>3. AbsReady' = Append(AbsReady, nextPid) /\ AbsSleepq' = AbsSleepq
    BY <1>2, <1>19, <1>a
  <2>4. nextPid' = nextPid + 1 /\ iflag' = TRUE
    BY <1>9
  <2> QED
    BY ONLY <1>20, <1>21, <2>1, <2>2, <2>3, <2>4, AbsFork
<1> QED
  BY <1>19, <1>22

LEMMA CallSleepStep ==
    ASSUME Good, NEW n \in SleepArgs, CallSleep(n)
    PROVE  Good' /\ UNCHANGED Abstract!vars
<1>1. pc[run] = "user" /\ Stable
  BY DEF CallSleep, At, Stable
<1>2. PICK r, z : r = AbsReady /\ z = AbsSleepq
  OBVIOUS
<1>3. RestWith(r, z)
  BY <1>1, <1>2, RestFacts
<1>4. /\ Partition(r, z, nextPid) /\ Seg(next, readyQ, r, NULL)
      /\ Seg(next, sleepQ, z, NULL) /\ current = run /\ In(run, r) /\ nextPid > 1
      /\ \A t \in Task : t >= nextPid => eos[t] = 0 /\ next[t] = NULL
      /\ \A t : In(t, r) => eos[t] = 0
  BY <1>3 DEF RestWith
<1>5. r \in Seq(Task) /\ z \in Seq(Task) /\ Len(r) \in Nat /\ DOMAIN r = 1..Len(r)
  BY <1>4, PartitionFacts DEF Good, Typed
<1>6. /\ Chain(next, readyQ) = r /\ Chain(next, sleepQ) = z
      /\ AbsCur = current /\ AbsCtx = Kinds
  BY <1>1, <1>4, RestAbs DEF Good
<1>7. PICK k \in DOMAIN r : r[k] = run
  BY <1>4 DEF In
<1>8. Len(r) > 1
  <2> SUFFICES ASSUME ~(Len(r) > 1) PROVE FALSE
    OBVIOUS
  <2>0. PICK m \in Nat : m = Len(r) /\ k \in 1..m /\ ~(m > 1)
    BY <1>5, <1>7
  <2>e. m = 1 /\ k = 1
    BY ONLY <2>0
  <2>1. Len(r) = 1 /\ k = 1
    BY <2>0, <2>e
  <2>2. 1 \in DOMAIN r /\ r # <<>> /\ r[1] = run /\ ~(1 < Len(r))
    BY <1>7, <2>1
  <2>3. /\ readyQ = IF r = <<>> THEN NULL ELSE r[1]
        /\ next[r[1]] = IF 1 < Len(r) THEN r[1 + 1] ELSE NULL
    BY <1>4, <2>2 DEF Seg
  <2> QED
    BY <1>4, <2>2, <2>3 DEF CallSleep, OnlyTask
<1>9. /\ pc' = [pc EXCEPT ![run] = "stamp"] /\ arg' = [arg EXCEPT ![run] = n]
      /\ snap' = [ready |-> r, sleepq |-> z, kinds |-> Kinds]
      /\ next' = next /\ readyQ' = readyQ /\ sleepQ' = sleepQ /\ current' = current
      /\ tmpCur' = tmpCur /\ eos' = eos /\ saved' = saved /\ nextPid' = nextPid
      /\ tick' = tick /\ run' = run /\ iflag' = iflag /\ it' = it /\ fault' = fault
      /\ hit' = hit /\ wrapped' = wrapped
  BY <1>6 DEF CallSleep, Goto, list, task
<1>10. run \in Task /\ n \in Nat
  BY SleepStepsAssumption DEF Good, Typed
<1>11. /\ pc' \in [Task -> Label] /\ pc'[run] = "stamp"
       /\ \A t \in Task : t # run => pc'[t] = pc[t]
  BY <1>9, <1>10 DEF Good, Typed, Label
<1>12. arg' \in [Task -> Nat] /\ arg'[run] = n
  BY <1>9, <1>10 DEF Good, Typed
<1>13. Kinds \in [Task -> Kind] /\ \A t \in Task : Kinds[t] = saved[t].kind
  BY DEF Kinds, Good, Typed
<1>14. /\ snap'.ready = r /\ snap'.sleepq = z /\ snap'.kinds = Kinds
       /\ snap' \in [ready : Seq(Task), sleepq : Seq(Task), kinds : [Task -> Kind]]
  BY <1>5, <1>9, <1>13
<1>15. Typed'
  BY <1>9, <1>11, <1>12, <1>14 DEF Good, Typed
<1>16. ~Stable'
  BY <1>9, <1>11 DEF Stable
<1>17. AbsReady' = r /\ AbsSleepq' = z /\ AbsCur' = run /\ AbsCtx' = Kinds
  BY <1>9, <1>14, <1>16 DEF AbsReady, AbsSleepq, AbsCur, AbsCtx
<1>18. Partition(AbsReady, AbsSleepq, nextPid)'
  BY <1>4, <1>9, <1>17
<1>19. Suspended'
  BY <1>9, <1>11 DEF Good, Suspended
<1>20. Unstamped'
  BY <1>4, <1>9, <1>17 DEF Unstamped
<1>21. AtRest'
  BY <1>16 DEF AtRest
<1>22. InSleep'
  <2>1. SleepAt("stamp", r, z, k)'
    BY <1>4, <1>9 DEF SleepAt, Linking, Unlinking
  <2>2. SleepAt(pc[run], snap.ready, snap.sleepq, k)'
    <3>1. pc'[run'] = "stamp" /\ snap'.ready = r /\ snap'.sleepq = z
      BY <1>9, <1>11, <1>14
    <3> QED
      BY <2>1, <3>1
  <2>3. /\ nextPid' > 1 /\ Len(snap'.ready) > 1 /\ arg'[run'] \in SleepArgs
        /\ k \in DOMAIN snap'.ready /\ snap'.ready[k] = run'
        /\ \A t \in Task : t # run' => snap'.kinds[t] = saved'[t].kind
    BY <1>4, <1>7, <1>8, <1>9, <1>12, <1>13, <1>14
  <2> QED
    BY <2>2, <2>3 DEF InSleep
<1>23. UNCHANGED Abstract!vars
  <2>1. AbsLeft' = AbsLeft
    BY <1>2, <1>9, <1>17 DEF AbsLeft
  <2> QED
    BY <1>2, <1>4, <1>6, <1>9, <1>17, <2>1 DEF Abstract!vars
<1> QED
  BY <1>15, <1>18, <1>19, <1>20, <1>21, <1>22, <1>23 DEF Good

(* The task u is suspended in its context, its own code at rest.           *)
Suspension(u, ctxs) ==
    /\ u \in Task /\ ctxs \in SavedType
    /\ ctxs[u].live = TRUE /\ ctxs[u].owner = u
    /\ ctxs[u].kind = "irq" => pc[u] = "user"

(* What a jump to that context does.                                       *)
Resumption(u, ctxs, flag) ==
    /\ run' = u /\ fault' = fault
    /\ iflag' = (flag \/ ctxs[u].kind # "call") /\ iflag' \in BOOLEAN
    /\ pc' \in [Task -> Label] /\ pc'[u] = "user"
    /\ \A t \in Task : t # u => pc'[t] = pc[t]
    /\ saved' \in SavedType
    /\ \A t \in Task : saved'[t].kind = ctxs[t].kind
    /\ \A t \in Task : t # u => saved'[t] = ctxs[t]

(* A jump to a context its owner is suspended in resumes the owner.        *)
LEMMA JumpFacts ==
    ASSUME NEW u, NEW ctxs, NEW flag \in BOOLEAN, Suspension(u, ctxs),
           pc \in [Task -> Label], Jump(u, ctxs, flag)
    PROVE  Resumption(u, ctxs, flag)
<1>0. /\ u \in Task /\ ctxs \in SavedType /\ ctxs[u].live = TRUE
      /\ ctxs[u].owner = u /\ (ctxs[u].kind = "irq" => pc[u] = "user")
  BY DEF Suspension
<1>1. Sound(u, ctxs)
  BY <1>0 DEF Sound, Task, NULL
<1>2. /\ run' = u /\ fault' = fault
      /\ iflag' = (flag \/ ctxs[u].kind # "call")
      /\ pc' = IF ctxs[u].kind = "irq" THEN pc ELSE [pc EXCEPT ![u] = "user"]
      /\ saved' = [ctxs EXCEPT ![u].live = FALSE]
  BY <1>1 DEF Jump
<1>3. /\ pc' \in [Task -> Label] /\ pc'[u] = "user"
      /\ \A t \in Task : t # u => pc'[t] = pc[t]
  <2>1. CASE ctxs[u].kind = "irq"
    BY <1>0, <1>2, <2>1
  <2>2. CASE ctxs[u].kind # "irq"
    <3>1. pc' = [pc EXCEPT ![u] = "user"]
      BY <1>0, <1>2, <2>2
    <3> QED
      BY <1>0, <3>1 DEF Label
  <2> QED
    BY <2>1, <2>2
<1>4. /\ saved' \in SavedType
      /\ \A t \in Task : saved'[t].kind = ctxs[t].kind
      /\ \A t \in Task : t # u => saved'[t] = ctxs[t]
  <2> DEFINE c == [ctxs[u] EXCEPT !.live = FALSE]
  <2>1. c \in [owner : Link, kind : Kind, live : BOOLEAN] /\ c.kind = ctxs[u].kind
    BY <1>0 DEF SavedType
  <2>2. saved' = [ctxs EXCEPT ![u] = c]
    BY <1>0, <1>2
  <2> HIDE DEF c
  <2> QED
    BY <1>0, <2>1, <2>2 DEF SavedType
<1>5. iflag' \in BOOLEAN
  BY <1>2
<1> QED
  BY <1>2, <1>3, <1>4, <1>5 DEF Resumption

LEMMA JumpFromSleepStep ==
    ASSUME Good, JumpFromSleep
    PROVE  Good' /\ (wrapped' = "no" => Abstract!Next)
<1>1. ~Stable /\ pc[run] = "jump"
  BY DEF JumpFromSleep, At, Stable
<1>2. PICK r, z, k : SleepFrom(r, z, k) /\ SleepAt(pc[run], r, z, k)
  BY <1>1, SleepFromFacts
<1>3. PICK u, c : u = After(r, k) /\ c = run
  OBVIOUS
<1>4. /\ current = u /\ c \in Task /\ Seg(next, readyQ, RemoveAt(r, k), NULL)
      /\ Seg(next, sleepQ, Append(z, c), NULL)
      /\ saved[c] = [owner |-> c, kind |-> "call", live |-> TRUE]
      /\ eos[c] # 0 /\ (wrapped = "no" => eos[c] = tick + arg[c])
  BY <1>1, <1>2, <1>3 DEF SleepAt, SleepFrom, Linking, Unlinking
<1>5. /\ r \in Seq(Task) /\ z \in Seq(Task) /\ Injective(r) /\ Len(r) > 1
      /\ k \in 1..Len(r) /\ k \in DOMAIN r /\ r[k] = c /\ In(c, r)
      /\ AbsReady = r /\ AbsSleepq = z /\ AbsCur = c /\ AbsCtx = snap.kinds
      /\ \A t : ~(In(t, r) /\ In(t, z))
      /\ \A t : In(t, r) \/ In(t, z) <=> t \in Task /\ t < nextPid
  BY <1>2, <1>3 DEF SleepFrom
<1>6. u \in Task /\ In(u, r) /\ u # c /\ u < nextPid
  <2>1. u \in Task /\ In(u, r) /\ u # c
    BY <1>3, <1>5, AfterFacts
  <2> QED
    BY <1>5, <2>1
<1>7. /\ saved \in SavedType /\ pc \in [Task -> Label] /\ iflag \in BOOLEAN
      /\ nextPid \in 1..(MaxTasks + 1) /\ eos \in [Task -> Nat] /\ tick \in 0..MaxTick
      /\ arg \in [Task -> Nat]
  BY DEF Good, Typed, SavedType
<1>8. saved[u].live = TRUE /\ saved[u].owner = u /\ (saved[u].kind = "irq" => pc[u] = "user")
  BY <1>3, <1>6 DEF Good, Suspended
<1>9. /\ next' = next /\ readyQ' = readyQ /\ sleepQ' = sleepQ /\ current' = current
      /\ tmpCur' = tmpCur /\ eos' = eos /\ nextPid' = nextPid /\ tick' = tick
      /\ it' = it /\ arg' = arg /\ hit' = hit /\ wrapped' = wrapped /\ snap' = snap
      /\ Jump(u, saved, iflag)
  BY <1>4 DEF JumpFromSleep, list, history
<1>10. /\ run' = u /\ fault' = fault
       /\ iflag' = (iflag \/ saved[u].kind # "call") /\ iflag' \in BOOLEAN
       /\ pc' \in [Task -> Label] /\ pc'[u] = "user"
       /\ \A t \in Task : t # u => pc'[t] = pc[t]
       /\ saved' \in SavedType
       /\ \A t \in Task : saved'[t].kind = saved[t].kind
       /\ \A t \in Task : t # u => saved'[t] = saved[t]
  <2>1. Suspension(u, saved)
    BY <1>6, <1>7, <1>8 DEF Suspension
  <2>2. Resumption(u, saved, iflag)
    BY <1>7, <1>9, <2>1, JumpFacts
  <2> QED
    BY <2>2 DEF Resumption
<1>11. Typed'
  BY <1>6, <1>9, <1>10 DEF Good, Typed, SavedType
<1>12. Suspended'
  <2> SUFFICES ASSUME NEW t \in Task, t < nextPid, t # u
               PROVE  /\ saved'[t].live = TRUE /\ saved'[t].owner = t
                      /\ saved'[t].kind # "none"
                      /\ saved'[t].kind = "irq" => pc'[t] = "user"
    BY <1>9, <1>10 DEF Suspended
  <2>1. saved'[t] = saved[t] /\ pc'[t] = pc[t]
    BY <1>10
  <2>2. CASE t = c
    BY <1>4, <2>1, <2>2
  <2>3. CASE t # c
    BY <1>3, <2>1, <2>3 DEF Good, Suspended
  <2> QED
    BY <2>2, <2>3
<1>13. PICK r2, z2 : r2 = RemoveAt(r, k) /\ z2 = Append(z, c)
  OBVIOUS
<1>14. /\ Partition(r2, z2, nextPid)
       /\ \A t : In(t, r2) <=> In(t, r) /\ t # c
       /\ \A t : In(t, z2) <=> In(t, z) \/ t = c
  <2>1. Partition(r, z, nextPid)
    BY <1>5 DEF Good
  <2> QED
    BY <1>5, <1>7, <1>13, <2>1, PartitionMove
<1>15. RestWith(r2, z2)'
  <2>1. \A t \in Task : t >= nextPid' => eos'[t] = 0 /\ next'[t] = NULL
    BY <1>9 DEF Good, Unstamped
  <2>2. \A t : In(t, r2) => eos'[t] = 0
    BY <1>3, <1>5, <1>9, <1>14 DEF Good, Unstamped
  <2>3. nextPid' > 1 /\ current' = run' /\ In(run', r2) /\ pc'[run'] = "user"
    <3>1. nextPid > 1
      BY <1>1 DEF Good, InSleep
    <3> QED
      BY <1>4, <1>6, <1>9, <1>10, <1>14, <3>1
  <2>4. Partition(r2, z2, nextPid')
    BY <1>9, <1>14
  <2>5. Seg(next', readyQ', r2, NULL) /\ Seg(next', sleepQ', z2, NULL)
    BY <1>4, <1>9, <1>13
  <2> QED
    BY <2>1, <2>2, <2>3, <2>4, <2>5 DEF RestWith
<1>16. /\ Good' /\ AbsReady' = r2 /\ AbsSleepq' = z2
       /\ AbsCur' = u /\ AbsCtx' = Kinds'
  BY <1>4, <1>9, <1>11, <1>12, <1>15, RestAfter
<1>17. /\ arg[c] \in SleepArgs /\ snap.kinds \in [Task -> Kind]
       /\ \A t \in Task : t # c => snap.kinds[t] = saved[t].kind
  BY <1>1, <1>3 DEF Good, InSleep, Typed
<1>18. AbsCtx' = [AbsCtx EXCEPT ![c] = "call"]
  <2>1. \A t \in Task : Kinds'[t] = IF t = c THEN "call" ELSE snap.kinds[t]
    BY <1>4, <1>10, <1>17 DEF Kinds
  <2>2. Kinds' = [snap.kinds EXCEPT ![c] = "call"]
    BY <1>17, <2>1 DEF Kinds
  <2> QED
    BY <1>5, <1>16, <2>2
<1>19. iflag' = (iflag \/ AbsCtx[u] # "call")
  BY <1>5, <1>6, <1>10, <1>17
<1>20. ASSUME wrapped = "no" PROVE AbsLeft' = [AbsLeft EXCEPT ![c] = arg[c]]
  <2>1. \A q, t : q \in Seq(Task) => (Contains(q, t) <=> In(t, q))
    BY DEF Contains, In
  <2>2. z2 \in Seq(Task)
    BY <1>4, <1>5, <1>13, AppendFacts
  <2>3. \A t \in Task : Contains(z2, t) <=> Contains(z, t) \/ t = c
    BY <1>5, <1>14, <2>1, <2>2
  <2>4. AbsLeft' = [t \in Task |-> IF Contains(z2, t) THEN eos[t] - tick ELSE 0]
    BY <1>9, <1>16 DEF AbsLeft
  <2>5. AbsLeft = [t \in Task |-> IF Contains(z, t) THEN eos[t] - tick ELSE 0]
    BY <1>5 DEF AbsLeft
  <2>6. eos[c] - tick = arg[c]
    <3>1. eos[c] = tick + arg[c] /\ tick \in Int /\ arg[c] \in Int
      BY <1>4, <1>7, <1>20
    <3> QED
      BY ONLY <3>1
  <2>7. \A t \in Task : AbsLeft'[t] = IF t = c THEN arg[c] ELSE AbsLeft[t]
    BY <2>3, <2>4, <2>5, <2>6
  <2> QED
    BY <2>4, <2>5, <2>7
<1>21. ASSUME wrapped' = "no" PROVE Abstract!Next
  <2>1. AbsLeft' = [AbsLeft EXCEPT ![AbsCur] = arg[c]]
    BY <1>5, <1>9, <1>20, <1>21
  <2>2. /\ AbsCur # NULL /\ Len(AbsReady) > 1 /\ k \in DOMAIN AbsReady
        /\ AbsReady[k] = AbsCur
    BY <1>4, <1>5 DEF Task, NULL
  <2>3. /\ AbsReady' = RemoveAt(AbsReady, k) /\ AbsSleepq' = Append(AbsSleepq, AbsCur)
        /\ AbsCtx' = [AbsCtx EXCEPT ![AbsCur] = "call"]
        /\ AbsCur' = After(AbsReady, k)
        /\ iflag' = (iflag \/ AbsCtx[After(AbsReady, k)] # "call")
        /\ nextPid' = nextPid
    BY <1>3, <1>5, <1>9, <1>13, <1>16, <1>18, <1>19
  <2> QED
    BY ONLY <1>17, <2>1, <2>2, <2>3, AbsSleep
<1> QED
  BY <1>16, <1>21


-----------------------------------------------------------------------------
(* The tick taken between calls of sleep().                                *)

(* What switch_task does with the ready list q, linked by nx.              *)
Switched(nx, q) ==
    /\ next' = nx /\ readyQ' = readyQ /\ fault' = fault
    /\ run' \in Task /\ In(run', q) /\ current' = run' /\ tmpCur' \in Link
    /\ iflag' \in BOOLEAN /\ saved' \in SavedType
    /\ pc' \in [Task -> Label] /\ pc'[run'] = "user"
    /\ \A t \in Task : t < nextPid /\ t # run' =>
          /\ saved'[t].live = TRUE /\ saved'[t].owner = t /\ saved'[t].kind # "none"
          /\ saved'[t].kind = "irq" => pc'[t] = "user"
    /\ \/ Len(q) = 1 /\ run' = run /\ iflag' = iflag /\ Kinds' = Kinds
       \/ /\ Len(q) > 1 /\ Kinds' = [Kinds EXCEPT ![run] = "irq"]
          /\ \E k \in DOMAIN q : /\ q[k] = run /\ run' = After(q, k)
                                 /\ iflag' = (Kinds[After(q, k)] # "call")

LEMMA SwitchFromTimerStep ==
    ASSUME Typed, Suspended, current = run, pc[run] = "user", NEW e, e[run] = 0,
           NEW nx, NEW q \in Seq(Task), Injective(q), Seg(nx, readyQ, q, NULL),
           In(run, q), \A t : In(t, q) => t < nextPid, SwitchFromTimer(nx, e)
    PROVE  Switched(nx, q)
<1>1. PICK k \in DOMAIN q : q[k] = run
  BY DEF In
<1>2. Len(q) \in Nat /\ k \in 1..Len(q) /\ q # <<>> /\ DOMAIN q = 1..Len(q)
  BY <1>1
<1>3. PICK m \in Nat : m = Len(q)
  BY <1>2
<1>4. /\ k \in 1..m /\ 1 \in 1..m /\ DOMAIN q = 1..m
  BY ONLY <1>2, <1>3
<1>5. /\ readyQ = q[1] /\ \A i \in 1..m : q[i] \in Task
      /\ \A i \in 1..m : nx[q[i]] = IF i < m THEN q[i + 1] ELSE NULL
  BY <1>2, <1>3, <1>4 DEF Seg
<1>6. \A t \in Task : t # NULL
  BY DEF Task, NULL
<1>7. /\ saved \in SavedType /\ pc \in [Task -> Label] /\ iflag \in BOOLEAN
      /\ run \in Task /\ tmpCur \in Link
  BY DEF Typed, SavedType
<1>8. CASE m = 1
  <2>1. nx[readyQ] = NULL /\ readyQ = run
    <3>1. k = 1 /\ ~(1 < m)
      BY ONLY <1>4, <1>8
    <3> QED
      BY <1>1, <1>4, <1>5, <3>1
  <2>2. /\ next' = nx /\ readyQ' = readyQ /\ current' = current /\ tmpCur' = tmpCur
        /\ saved' = saved /\ run' = run /\ iflag' = iflag /\ pc' = pc /\ fault' = fault
    BY <2>1 DEF SwitchFromTimer
  <2>3. Kinds' = Kinds
    BY <2>2 DEF Kinds
  <2>4. \A t \in Task : t < nextPid /\ t # run' =>
           /\ saved'[t].live = TRUE /\ saved'[t].owner = t /\ saved'[t].kind # "none"
           /\ saved'[t].kind = "irq" => pc'[t] = "user"
    BY <2>2 DEF Suspended
  <2>5. Len(q) = 1
    BY <1>3, <1>8
  <2> QED
    BY <1>7, <2>2, <2>3, <2>4, <2>5 DEF Switched
<1>9. CASE m # 1
  <2>1. Len(q) > 1 /\ m > 1 /\ 2 \in 1..m
    BY ONLY <1>3, <1>4, <1>9
  <2>2. nx[readyQ] # NULL
    <3>1. nx[q[1]] = q[1 + 1] /\ 1 + 1 = 2
      BY <1>4, <1>5, <2>1
    <3> QED
      BY <1>5, <1>6, <2>1, <3>1
  <2>3. PICK u : u = After(q, k)
    OBVIOUS
  <2>4. u \in Task /\ In(u, q) /\ u # run
    BY <1>1, <1>2, <2>1, <2>3, AfterFacts
  <2>5. u = IF nx[current] = NULL THEN readyQ ELSE nx[current]
    <3>1. CASE k < m
      <4>1. nx[run] = q[k + 1] /\ u = q[k + 1] /\ k + 1 \in 1..m
        BY <1>1, <1>3, <1>4, <1>5, <2>3, <3>1 DEF After
      <4> QED
        BY <1>5, <1>6, <4>1
    <3>2. CASE ~(k < m)
      <4>1. nx[run] = NULL /\ u = q[1]
        BY <1>1, <1>3, <1>4, <1>5, <2>3, <3>2 DEF After
      <4> QED
        BY <1>5, <4>1
    <3> QED
      BY <3>1, <3>2
  <2>6. PICK ctxs : ctxs = [saved EXCEPT ![current] =
                              [owner |-> run, kind |-> "irq", live |-> TRUE]]
    OBVIOUS
  <2>7. /\ next' = nx /\ readyQ' = readyQ /\ current' = u /\ tmpCur' = u
        /\ Jump(u, ctxs, FALSE)
    BY <2>2, <2>5, <2>6 DEF SwitchFromTimer
  <2>8. /\ ctxs \in SavedType
        /\ ctxs[run].live = TRUE /\ ctxs[run].owner = run /\ ctxs[run].kind = "irq"
        /\ \A t \in Task : t # run => ctxs[t] = saved[t]
    BY <1>7, <2>6 DEF SavedType, Link, Kind
  <2>9. Suspension(u, ctxs)
    <3>1. u < nextPid
      BY <2>4
    <3> QED
      BY <2>4, <2>8, <3>1 DEF Suspended, Suspension
  <2>10. Resumption(u, ctxs, FALSE)
    BY <1>7, <2>7, <2>9, JumpFacts
  <2>11. /\ run' = u /\ fault' = fault
         /\ iflag' = (ctxs[u].kind # "call") /\ iflag' \in BOOLEAN
         /\ pc' \in [Task -> Label] /\ pc'[u] = "user"
         /\ \A t \in Task : t # u => pc'[t] = pc[t]
         /\ saved' \in SavedType
         /\ \A t \in Task : saved'[t].kind = ctxs[t].kind
         /\ \A t \in Task : t # u => saved'[t] = ctxs[t]
    BY <2>10 DEF Resumption
  <2>12. Kinds' = [Kinds EXCEPT ![run] = "irq"]
    <3>1. \A t \in Task : Kinds'[t] = IF t = run THEN "irq" ELSE Kinds[t]
      BY <2>8, <2>11 DEF Kinds
    <3> QED
      BY <3>1 DEF Kinds
  <2>13. iflag' = (Kinds[After(q, k)] # "call")
    BY <2>3, <2>4, <2>8, <2>11 DEF Kinds
  <2>14. ASSUME NEW t \in Task, t < nextPid, t # run'
         PROVE  /\ saved'[t].live = TRUE /\ saved'[t].owner = t
                /\ saved'[t].kind # "none" /\ (saved'[t].kind = "irq" => pc'[t] = "user")
    <3>1. saved'[t] = ctxs[t] /\ pc'[t] = pc[t]
      BY <2>11, <2>14
    <3>2. CASE t = run
      BY <2>8, <3>1, <3>2
    <3>3. CASE t # run
      BY <2>8, <2>14, <3>1, <3>3 DEF Suspended
    <3> QED
      BY <3>2, <3>3
  <2>15. \E i \in DOMAIN q : /\ q[i] = run /\ run' = After(q, i)
                             /\ iflag' = (Kinds[After(q, i)] # "call")
    BY <1>1, <2>3, <2>11, <2>13
  <2>16. tmpCur' \in Link
    BY <2>4, <2>7 DEF Link
  <2>17. /\ next' = nx /\ readyQ' = readyQ /\ fault' = fault
         /\ run' \in Task /\ In(run', q) /\ current' = run'
         /\ pc' \in [Task -> Label] /\ pc'[run'] = "user"
    BY <2>4, <2>7, <2>11
  <2> QED
    BY ONLY <2>1, <2>11, <2>12, <2>14, <2>15, <2>16, <2>17 DEF Switched
<1> QED
  BY <1>8, <1>9


(* A tick that leaves the lists q and z.                                   *)
LEMMA TickRest ==
    ASSUME Good, pc[run] = "user", TimerCallback, NEW nx \in [Task -> Link],
           NEW q, NEW z, Partition(q, z, nextPid), Switched(nx, q),
           Seg(nx, readyQ, q, NULL), Seg(nx, sleepQ', z, NULL), sleepQ' \in Link,
           eos' \in [Task -> Nat], \A t : In(t, q) => eos'[t] = 0,
           \A t \in Task : t >= nextPid => eos'[t] = 0 /\ nx[t] = NULL
    PROVE  Good' /\ AbsReady' = q /\ AbsSleepq' = z /\ AbsSwitched(q)
<1>1. /\ next' = nx /\ readyQ' = readyQ /\ fault' = fault
      /\ run' \in Task /\ In(run', q) /\ current' = run' /\ tmpCur' \in Link
      /\ iflag' \in BOOLEAN /\ saved' \in SavedType
      /\ pc' \in [Task -> Label] /\ pc'[run'] = "user"
      /\ \A t \in Task : t < nextPid /\ t # run' =>
            /\ saved'[t].live = TRUE /\ saved'[t].owner = t /\ saved'[t].kind # "none"
            /\ saved'[t].kind = "irq" => pc'[t] = "user"
  BY DEF Switched
<1>2. /\ nextPid' = nextPid /\ it' = it /\ arg' = arg /\ wrapped' = wrapped
      /\ snap' = snap /\ hit' = hit
  BY DEF TimerCallback, Good, Typed
<1>3. tick' \in 0..MaxTick
  <2>1. tick \in 0..MaxTick /\ MaxTick \in Nat
    BY SleepStepsAssumption DEF Good, Typed
  <2>2. tick < MaxTick /\ tick' = tick + 1
    BY DEF TimerCallback
  <2> QED
    BY ONLY <2>1, <2>2
<1>4. Typed'
  <2>1. readyQ' \in Link /\ next' \in [Task -> Link] /\ current' \in Link
    BY <1>1 DEF Good, Typed, Link
  <2>2. /\ nextPid' \in 1..(MaxTasks + 1) /\ it' \in [Task -> Link]
        /\ arg' \in [Task -> Nat] /\ wrapped' \in {"no", "yes"} /\ fault' = FALSE
        /\ hit' = FALSE
        /\ snap' \in [ready : Seq(Task), sleepq : Seq(Task), kinds : [Task -> Kind]]
    BY <1>1, <1>2 DEF Good, Typed
  <2> QED
    BY <1>1, <1>3, <2>1, <2>2 DEF Typed, SavedType
<1>5. Suspended'
  BY <1>1, <1>2 DEF Suspended
<1>6. RestWith(q, z)'
  <2>1. nextPid > 1
    BY RestFacts DEF RestWith
  <2>2. /\ Partition(q, z, nextPid') /\ nextPid' > 1
        /\ Seg(next', readyQ', q, NULL) /\ Seg(next', sleepQ', z, NULL)
        /\ \A t \in Task : t >= nextPid' => eos'[t] = 0 /\ next'[t] = NULL
    BY <1>1, <1>2, <2>1
  <2> QED
    BY <1>1, <2>2 DEF RestWith
<1>7. /\ Good' /\ AbsReady' = q /\ AbsSleepq' = z
      /\ AbsCur' = current' /\ AbsCtx' = Kinds'
  BY <1>4, <1>5, <1>6, RestAfter
<1>8. AbsCur = run /\ AbsCtx = Kinds
  BY RestFacts DEF AbsCur, AbsCtx, Stable, RestWith
<1>9. AbsSwitched(q)
  <2>1. CASE Len(q) = 1 /\ run' = run /\ iflag' = iflag /\ Kinds' = Kinds
    BY <1>1, <1>7, <1>8, <2>1 DEF AbsSwitched
  <2>2. CASE /\ Len(q) > 1 /\ Kinds' = [Kinds EXCEPT ![run] = "irq"]
             /\ \E k \in DOMAIN q : /\ q[k] = run /\ run' = After(q, k)
                                    /\ iflag' = (Kinds[After(q, k)] # "call")
    <3>1. AbsCtx' = [AbsCtx EXCEPT ![AbsCur] = "irq"]
      BY ONLY <1>7, <1>8, <2>2
    <3>2. PICK k \in DOMAIN q : /\ q[k] = run /\ run' = After(q, k)
                                /\ iflag' = (Kinds[After(q, k)] # "call")
      BY ONLY <2>2
    <3>3. \E i \in DOMAIN q : /\ q[i] = AbsCur /\ AbsCur' = After(q, i)
                              /\ iflag' = (AbsCtx[After(q, i)] # "call")
      BY ONLY <1>1, <1>7, <1>8, <3>2
    <3> QED
      BY ONLY <1>7, <2>2, <3>1, <3>3 DEF AbsSwitched
  <2> QED
    BY <2>1, <2>2 DEF Switched
<1> QED
  BY <1>7, <1>9

(* What the handler finds between calls of sleep(): the lists r and z.     *)
TickFinds(r, z) ==
    /\ RestWith(r, z) /\ AbsReady = r /\ AbsSleepq = z /\ Sleepers = z
    /\ r \in Seq(Task) /\ z \in Seq(Task) /\ Injective(r) /\ Injective(z)
    /\ Len(r) \in Nat /\ Len(z) \in Nat
    /\ \A t : ~(In(t, r) /\ In(t, z))
    /\ \A t : In(t, r) \/ In(t, z) <=> t \in Task /\ t < nextPid
    /\ ~Cyclic(next, sleepQ) /\ eos[run] = 0 /\ current = run
    /\ \A t \in Task : In(t, z) => AbsLeft[t] = eos[t] - tick
    /\ \A t \in Task : eos[t] \in Nat /\ tick \in Nat /\ tick' = tick + 1

LEMMA TickFindsFacts ==
    ASSUME Good, pc[run] = "user", TimerCallback
    PROVE  TickFinds(AbsReady, AbsSleepq)
<1>1. PICK r, z : r = AbsReady /\ z = AbsSleepq
  OBVIOUS
<1>2. RestWith(r, z)
  BY <1>1, RestFacts
<1>3. /\ Typed /\ Stable /\ Partition(r, z, nextPid) /\ nextPid \in 1..(MaxTasks + 1)
      /\ Seg(next, readyQ, r, NULL) /\ Seg(next, sleepQ, z, NULL)
  BY <1>2 DEF Good, Typed, Stable, RestWith
<1>4. Chain(next, sleepQ) = z /\ ~Cyclic(next, sleepQ)
  BY <1>3, RestAbs
<1>5. /\ r \in Seq(Task) /\ z \in Seq(Task) /\ Injective(r) /\ Injective(z)
      /\ Len(r) \in Nat /\ Len(z) \in Nat
      /\ \A t : ~(In(t, r) /\ In(t, z))
      /\ \A t : In(t, r) \/ In(t, z) <=> t \in Task /\ t < nextPid
  BY <1>3, PartitionFacts
<1>6. eos[run] = 0 /\ current = run
  BY <1>2 DEF RestWith
<1>7. ASSUME NEW t \in Task, In(t, z) PROVE AbsLeft[t] = eos[t] - tick
  <2>1. Contains(z, t)
    BY <1>5, <1>7 DEF Contains, In
  <2> QED
    BY <1>1, <2>1 DEF AbsLeft
<1>8. \A t \in Task : eos[t] \in Nat /\ tick \in Nat /\ tick' = tick + 1
  <2>1. eos \in [Task -> Nat] /\ tick \in 0..MaxTick /\ MaxTick \in Nat
    BY SleepStepsAssumption DEF Good, Typed
  <2> QED
    BY <2>1 DEF TimerCallback
<1> QED
  BY <1>1, <1>2, <1>4, <1>5, <1>6, <1>7, <1>8 DEF TickFinds, Sleepers

(* A deadline the new tick has passed is one that Scheduler finds expired. *)
LEMMA TickExpired ==
    ASSUME NEW r, NEW z, TickFinds(r, z), NEW i \in DOMAIN z
    PROVE  Expired(i) <=> AbsLeft[z[i]] <= 0
<1>1. z[i] \in Task /\ In(z[i], z) /\ Sleepers = z
  BY DEF TickFinds, In
<1>2. AbsLeft[z[i]] = eos[z[i]] - tick /\ eos[z[i]] \in Nat /\ tick \in Nat
  BY <1>1 DEF TickFinds
<1>3. Expired(i) <=> tick + 1 > eos[z[i]]
  BY <1>1 DEF Expired
<1> QED
  BY ONLY <1>2, <1>3

(* The deadlines of the tasks a tick leaves asleep.                        *)
LEMMA TickAged ==
    ASSUME NEW r, NEW z, TickFinds(r, z), NEW y \in Seq(Task), AbsSleepq' = y,
           \A t : In(t, y) => In(t, z) /\ eos'[t] = eos[t]
    PROVE  AbsAged(y)
<1>1. AbsLeft' = [t \in Task |-> IF Contains(y, t) THEN eos'[t] - tick' ELSE 0]
  BY DEF AbsLeft
<1>2. ASSUME NEW t \in Task
      PROVE  (IF Contains(y, t) THEN eos'[t] - tick' ELSE 0)
                = IF In(t, y) THEN AbsLeft[t] - 1 ELSE 0
  <2>1. Contains(y, t) <=> In(t, y)
    BY DEF Contains, In
  <2>2. CASE In(t, y)
    <3>1. /\ eos'[t] = eos[t] /\ AbsLeft[t] = eos[t] - tick
          /\ eos[t] \in Nat /\ tick \in Nat /\ tick' = tick + 1
      BY <2>2 DEF TickFinds
    <3>2. eos'[t] - tick' = AbsLeft[t] - 1
      BY ONLY <3>1
    <3> QED
      BY <2>1, <2>2, <3>2
  <2>3. CASE ~In(t, y)
    BY <2>1, <2>3
  <2> QED
    BY <2>2, <2>3
<1> QED
  BY <1>1, <1>2 DEF AbsAged


LEMMA TimerNoWakeStep ==
    ASSUME Good, pc[run] = "user", TimerCallback, TimerNoWake
    PROVE  Good' /\ Abstract!Next
<1>1. PICK r, z : r = AbsReady /\ z = AbsSleepq
  OBVIOUS
<1>2. TickFinds(r, z)
  BY <1>1, TickFindsFacts
<1>3. /\ RestWith(r, z) /\ AbsReady = r /\ AbsSleepq = z /\ Sleepers = z
      /\ r \in Seq(Task) /\ z \in Seq(Task) /\ Injective(r)
      /\ \A t : In(t, r) \/ In(t, z) <=> t \in Task /\ t < nextPid
      /\ ~Cyclic(next, sleepQ) /\ eos[run] = 0 /\ current = run
  BY <1>2 DEF TickFinds
<1>4. /\ \A i \in DOMAIN z : ~Expired(i)
      /\ SwitchFromTimer(next, eos) /\ sleepQ' = sleepQ /\ eos' = eos
  BY <1>3 DEF TimerNoWake
<1>5. /\ Partition(r, z, nextPid) /\ Seg(next, readyQ, r, NULL)
      /\ Seg(next, sleepQ, z, NULL) /\ In(run, r)
      /\ \A t : In(t, r) => eos[t] = 0
      /\ \A t \in Task : t >= nextPid => eos[t] = 0 /\ next[t] = NULL
  BY <1>3 DEF RestWith
<1>6. /\ Typed /\ Suspended /\ next \in [Task -> Link] /\ sleepQ \in Link
      /\ eos \in [Task -> Nat]
  BY DEF Good, Typed
<1>7. Switched(next, r)
  BY <1>3, <1>4, <1>5, <1>6, SwitchFromTimerStep
<1>8. Good' /\ AbsReady' = r /\ AbsSleepq' = z /\ AbsSwitched(r)
  <2>1. /\ Seg(next, sleepQ', z, NULL) /\ sleepQ' \in Link
        /\ eos' \in [Task -> Nat] /\ \A t : In(t, r) => eos'[t] = 0
        /\ \A t \in Task : t >= nextPid => eos'[t] = 0 /\ next[t] = NULL
    BY <1>4, <1>5, <1>6
  <2> QED
    BY <1>5, <1>6, <1>7, <2>1, TickRest
<1>9. AbsAged(z)
  BY <1>2, <1>3, <1>4, <1>8, TickAged
<1>10. \A i \in DOMAIN AbsSleepq : AbsLeft[AbsSleepq[i]] > 0
  <2> SUFFICES ASSUME NEW i \in DOMAIN z PROVE AbsLeft[z[i]] > 0
    BY <1>3
  <2>1. ~(AbsLeft[z[i]] <= 0)
    BY <1>2, <1>4, TickExpired
  <2>2. AbsLeft[z[i]] \in Int
    <3>1. z[i] \in Task /\ In(z[i], z)
      BY <1>3 DEF In
    <3>2. AbsLeft[z[i]] = eos[z[i]] - tick /\ eos[z[i]] \in Nat /\ tick \in Nat
      BY <1>2, <3>1 DEF TickFinds
    <3> QED
      BY ONLY <3>2
  <2> QED
    BY ONLY <2>1, <2>2
<1>11. iflag /\ nextPid # 1 /\ nextPid' = nextPid
  BY DEF TimerCallback
<1>12. /\ AbsSleepq' = AbsSleepq /\ AbsSwitched(AbsReady) /\ AbsAged(AbsSleepq)
  BY <1>3, <1>8, <1>9
<1> QED
  BY ONLY <1>8, <1>10, <1>11, <1>12, AbsTickNoWake

(* The links after the sleeper at position i has been taken out.           *)
LEMMA CutLinksFacts ==
    ASSUME Typed, NEW r, NEW z, TickFinds(r, z), NEW i \in DOMAIN z
    PROVE  /\ CutLinks(i) \in [Task -> Link]
           /\ Seg(CutLinks(i), IF i = 1 THEN next[z[i]] ELSE sleepQ, RemoveAt(z, i), NULL)
           /\ \A t \in Task : ~In(t, z) => CutLinks(i)[t] = next[t]
<1>1. /\ Sleepers = z /\ z \in Seq(Task) /\ Injective(z) /\ Len(z) \in Nat
      /\ Seg(next, sleepQ, z, NULL)
  BY DEF TickFinds, RestWith
<1>2. /\ i \in 1..Len(z) /\ z # <<>> /\ z[i] \in Task /\ next \in [Task -> Link]
      /\ Len(z) > 0
  BY <1>1 DEF Typed
<1>3. CASE i = 1
  <2>1. CutLinks(i) = next /\ sleepQ = z[1]
    BY <1>1, <1>2, <1>3 DEF CutLinks, Seg
  <2>2. Seg(next, next[z[1]], RemoveAt(z, 1), NULL)
    BY <1>1, <1>2, <2>1, SegBehead
  <2> QED
    BY <1>2, <1>3, <2>1, <2>2
<1>4. CASE i # 1
  <2>1. i > 1 /\ i - 1 \in 1..Len(z)
    BY ONLY <1>1, <1>2, <1>4
  <2>2. PICK p : p = z[i - 1]
    OBVIOUS
  <2>3. p \in Task /\ In(p, z)
    BY <1>1, <2>1, <2>2 DEF In
  <2>4. CutLinks(i) = [next EXCEPT ![p] = next[z[i]]]
    BY <1>1, <1>4, <2>2 DEF CutLinks
  <2>5. PICK nx : nx = CutLinks(i)
    OBVIOUS
  <2>6. /\ nx \in [Task -> Link] /\ nx[p] = next[z[i]]
        /\ \A t \in Task : t # p => nx[t] = next[t]
    BY <1>2, <2>3, <2>4, <2>5
  <2>7. \A t : In(t, z) /\ t # p => nx[t] = next[t]
    BY <1>1, <2>6 DEF In
  <2>8. Seg(nx, sleepQ, RemoveAt(z, i), NULL)
    BY <1>1, <2>1, <2>2, <2>6, <2>7, SegSkip
  <2> QED
    BY <1>4, <2>3, <2>5, <2>6, <2>7, <2>8
<1> QED
  BY <1>3, <1>4


(* The links after the sleeper has been moved to the end of the ready list.*)
LEMMA WokenLinksFacts ==
    ASSUME Typed, NEW r, NEW z, TickFinds(r, z), NEW i \in DOMAIN z
    PROVE  /\ ~Cyclic(CutLinks(i), readyQ) /\ readyQ # NULL
           /\ WokenLinks(i) \in [Task -> Link]
           /\ Seg(WokenLinks(i), readyQ, Append(r, z[i]), NULL)
           /\ Seg(WokenLinks(i), IF i = 1 THEN next[z[i]] ELSE sleepQ,
                  RemoveAt(z, i), NULL)
           /\ \A t \in Task : t >= nextPid => WokenLinks(i)[t] = NULL
<1>1. PICK nx, nx2, h, x, l : /\ nx = CutLinks(i) /\ nx2 = WokenLinks(i)
                              /\ h = IF i = 1 THEN next[z[i]] ELSE sleepQ
                              /\ x = z[i] /\ l = r[Len(r)]
  OBVIOUS
<1>2. /\ Sleepers = z /\ z \in Seq(Task) /\ r \in Seq(Task) /\ Injective(r)
      /\ Injective(z) /\ Len(r) \in Nat
      /\ \A t : ~(In(t, r) /\ In(t, z))
      /\ \A t : In(t, r) \/ In(t, z) <=> t \in Task /\ t < nextPid
  BY DEF TickFinds
<1>3. /\ Seg(next, readyQ, r, NULL) /\ Partition(r, z, nextPid) /\ In(run, r)
      /\ \A t \in Task : t >= nextPid => next[t] = NULL
      /\ nextPid \in 1..(MaxTasks + 1) /\ next \in [Task -> Link]
  BY DEF TickFinds, RestWith, Typed
<1>4. /\ nx \in [Task -> Link] /\ Seg(nx, h, RemoveAt(z, i), NULL)
      /\ \A t \in Task : ~In(t, z) => nx[t] = next[t]
  BY <1>1, CutLinksFacts
<1>5. \A t : In(t, r) => t \in Task /\ nx[t] = next[t]
  BY <1>2, <1>4
<1>6. Seg(nx, readyQ, r, NULL)
  BY <1>3, <1>5, SegFrame
<1>7. Len(r) <= MaxTasks
  <2>1. /\ Len(r) \in Nat /\ Len(z) \in Nat /\ Len(r) + Len(z) <= MaxTasks
        /\ MaxTasks \in Nat
    BY <1>3, PartitionFacts, SleepStepsAssumption
  <2> QED
    BY ONLY <2>1
<1>8. Chain(nx, readyQ) = r /\ ~Cyclic(nx, readyQ)
  BY <1>2, <1>6, <1>7, SegChain
<1>9. /\ Len(r) > 0 /\ Len(r) \in DOMAIN r /\ 1 \in DOMAIN r /\ r # <<>>
      /\ readyQ = r[1] /\ r[1] \in Task
  <2>1. Len(r) > 0
    BY <1>2, <1>3 DEF In
  <2>2. Len(r) \in DOMAIN r /\ 1 \in DOMAIN r /\ r # <<>> /\ r[1] \in Task
    BY <1>2, <2>1
  <2> QED
    BY <1>3, <2>1, <2>2 DEF Seg
<1>10. l \in Task /\ x \in Task /\ In(l, r) /\ In(x, z) /\ l # x /\ x < nextPid /\ l < nextPid
  <2>1. In(l, r) /\ In(x, z)
    BY <1>1, <1>9 DEF In
  <2> QED
    BY <1>2, <2>1
<1>11. nx2 = [nx EXCEPT ![l] = x, ![x] = NULL]
  <2>1. Last(r) = l
    BY <1>1 DEF Last
  <2> QED
    BY <1>1, <1>2, <1>8, <2>1 DEF WokenLinks
<1>12. /\ nx2 \in [Task -> Link] /\ nx2[l] = x /\ nx2[x] = NULL
       /\ \A t \in Task : t # l /\ t # x => nx2[t] = nx[t]
  BY <1>4, <1>10, <1>11 DEF Link
<1>13. Seg(nx2, readyQ, Append(r, x), NULL)
  <2>1. \A t : In(t, r) /\ t # r[Len(r)] => nx2[t] = nx[t]
    BY <1>1, <1>2, <1>5, <1>10, <1>12
  <2>2. Seg(nx2, readyQ, r, x)
    BY <1>1, <1>2, <1>6, <1>9, <1>12, <2>1, SegRetarget
  <2> QED
    BY <1>2, <1>10, <1>12, <2>2, SegExtend
<1>14. Seg(nx2, h, RemoveAt(z, i), NULL)
  <2>1. \A t : In(t, RemoveAt(z, i)) <=> In(t, z) /\ t # x
    BY <1>1, <1>2, RemoveIn
  <2>2. \A t : In(t, RemoveAt(z, i)) => nx2[t] = nx[t]
    BY <1>2, <1>10, <1>12, <2>1
  <2> QED
    BY <1>4, <2>2, SegFrame
<1>15. ASSUME NEW t \in Task, t >= nextPid PROVE nx2[t] = NULL
  <2>1. ~(t < nextPid)
    BY <1>3, <1>15 DEF Task
  <2>2. t # l /\ t # x /\ ~In(t, z)
    BY <1>2, <1>10, <2>1
  <2> QED
    BY <1>3, <1>4, <1>12, <1>15, <2>2
<1>16. readyQ # NULL
  BY <1>9 DEF Task, NULL
<1> QED
  BY ONLY <1>1, <1>8, <1>12, <1>13, <1>14, <1>15, <1>16


LEMMA TimerWakeStep ==
    ASSUME Good, pc[run] = "user", TimerCallback, TimerWake
    PROVE  Good' /\ Abstract!Next
<1>1. PICK r, z : r = AbsReady /\ z = AbsSleepq
  OBVIOUS
<1>2. TickFinds(r, z)
  BY <1>1, TickFindsFacts
<1>3. /\ RestWith(r, z) /\ AbsReady = r /\ AbsSleepq = z /\ Sleepers = z
      /\ r \in Seq(Task) /\ z \in Seq(Task) /\ Injective(r) /\ Injective(z)
      /\ \A t : In(t, r) \/ In(t, z) <=> t \in Task /\ t < nextPid
      /\ eos[run] = 0 /\ current = run
  BY <1>2 DEF TickFinds
<1>4. /\ Typed /\ Suspended /\ next \in [Task -> Link] /\ sleepQ \in Link
      /\ eos \in [Task -> Nat] /\ nextPid \in 1..(MaxTasks + 1) /\ run \in Task
  BY DEF Good, Typed
<1>5. PICK i \in DOMAIN z :
         /\ FirstExpired(i)
         /\ \/ /\ sleepQ' = IF i = 1 THEN next[z[i]] ELSE sleepQ
               /\ eos' = [eos EXCEPT ![z[i]] = 0]
               /\ SwitchFromTimer(WokenLinks(i), eos')
            \/ readyQ = NULL \/ Cyclic(CutLinks(i), readyQ)
  BY <1>3 DEF TimerWake
<1>6. PICK nx, q, y, x : /\ nx = WokenLinks(i) /\ x = z[i]
                         /\ q = Append(r, x) /\ y = RemoveAt(z, i)
  OBVIOUS
<1>7. /\ ~Cyclic(CutLinks(i), readyQ) /\ readyQ # NULL
      /\ nx \in [Task -> Link] /\ Seg(nx, readyQ, q, NULL)
      /\ Seg(nx, IF i = 1 THEN next[z[i]] ELSE sleepQ, y, NULL)
      /\ \A t \in Task : t >= nextPid => nx[t] = NULL
  BY <1>2, <1>4, <1>6, WokenLinksFacts
<1>8. /\ sleepQ' = IF i = 1 THEN next[z[i]] ELSE sleepQ
      /\ eos' = [eos EXCEPT ![x] = 0] /\ SwitchFromTimer(nx, eos')
  BY <1>5, <1>6, <1>7
<1>9. x \in Task /\ In(x, z) /\ x < nextPid
  <2>1. In(x, z)
    BY <1>6 DEF In
  <2> QED
    BY <1>3, <2>1
<1>10. /\ Partition(r, z, nextPid) /\ In(run, r)
       /\ \A t : In(t, r) => eos[t] = 0
       /\ \A t \in Task : t >= nextPid => eos[t] = 0
  BY <1>3 DEF RestWith
<1>11. /\ Partition(q, y, nextPid)
       /\ \A t : In(t, y) <=> In(t, z) /\ t # x
       /\ \A t : In(t, q) <=> In(t, r) \/ t = x
  BY <1>4, <1>6, <1>10, PartitionMove
<1>12. /\ q \in Seq(Task) /\ y \in Seq(Task) /\ Injective(q)
       /\ \A t : In(t, q) \/ In(t, y) <=> t \in Task /\ t < nextPid
  BY <1>4, <1>11, PartitionFacts
<1>13. Switched(nx, q)
  <2>1. In(run, q) /\ \A t : In(t, q) => t < nextPid
    BY <1>10, <1>11, <1>12
  <2>2. eos'[run] = 0
    BY <1>3, <1>4, <1>8, <1>9
  <2> QED
    BY <1>3, <1>4, <1>7, <1>8, <1>12, <2>1, <2>2, SwitchFromTimerStep
<1>14. /\ eos' \in [Task -> Nat] /\ eos'[x] = 0
       /\ \A t \in Task : t # x => eos'[t] = eos[t]
  BY <1>4, <1>8, <1>9
<1>15. Good' /\ AbsReady' = q /\ AbsSleepq' = y /\ AbsSwitched(q)
  <2>1. Seg(nx, sleepQ', y, NULL) /\ sleepQ' \in Link
    <3>1. z[i] \in Task
      BY <1>6, <1>9
    <3> QED
      BY <1>4, <1>7, <1>8, <3>1
  <2>2. \A t : In(t, q) => eos'[t] = 0
    BY <1>10, <1>11, <1>12, <1>14
  <2>3. \A t \in Task : t >= nextPid => eos'[t] = 0 /\ nx[t] = NULL
    BY <1>7, <1>10, <1>14
  <2> QED
    BY <1>7, <1>11, <1>13, <1>14, <2>1, <2>2, <2>3, TickRest
<1>16. AbsAged(y)
  <2>1. \A t : In(t, y) => In(t, z) /\ eos'[t] = eos[t]
    BY <1>11, <1>12, <1>14
  <2> QED
    BY <1>2, <1>12, <1>15, <2>1, TickAged
<1>17. AbsLeft[z[i]] <= 0
  BY <1>2, <1>5, TickExpired DEF FirstExpired
<1>18. ASSUME NEW j \in 1..(i - 1) PROVE AbsLeft[z[j]] > 0
  <2>1. j \in DOMAIN z
    <3>1. Len(z) \in Nat /\ i \in 1..Len(z) /\ DOMAIN z = 1..Len(z)
      BY <1>3
    <3> QED
      BY ONLY <3>1, j \in 1..(i - 1)
  <2>2. ~(AbsLeft[z[j]] <= 0)
    BY <1>2, <1>5, <2>1, TickExpired DEF FirstExpired
  <2>3. AbsLeft[z[j]] \in Int
    <3>1. z[j] \in Task /\ In(z[j], z)
      BY <1>3, <2>1 DEF In
    <3>2. AbsLeft[z[j]] = eos[z[j]] - tick /\ eos[z[j]] \in Nat /\ tick \in Nat
      BY <1>2, <3>1 DEF TickFinds
    <3> QED
      BY ONLY <3>2
  <2> QED
    BY ONLY <2>2, <2>3
<1>19. iflag /\ nextPid # 1 /\ nextPid' = nextPid
  BY DEF TimerCallback
<1>20. /\ i \in DOMAIN AbsSleepq /\ AbsLeft[AbsSleepq[i]] <= 0
       /\ \A j \in 1..(i - 1) : AbsLeft[AbsSleepq[j]] > 0
       /\ AbsSleepq' = RemoveAt(AbsSleepq, i)
       /\ AbsSwitched(Append(AbsReady, AbsSleepq[i])) /\ AbsAged(AbsSleepq')
  BY <1>3, <1>6, <1>15, <1>16, <1>17, <1>18
<1> QED
  BY ONLY <1>15, <1>19, <1>20, AbsTickWake

LEMMA TimerCallbackStep ==
    ASSUME Good, TimerCallback
    PROVE  hit' \/ (Good' /\ Abstract!Next)
<1>1. CASE pc[run] = "user"
  BY <1>1, TimerWakeStep, TimerNoWakeStep DEF TimerCallback
<1>2. CASE pc[run] # "user"
  BY <1>2 DEF TimerCallback
<1> QED
  BY <1>1, <1>2


-----------------------------------------------------------------------------
(* The invariant holds.                                                    *)

LEMMA InitGood ==
    ASSUME Init
    PROVE  Good /\ Abstract!Init
<1>0. MaxTasks \in Nat /\ 1 \in Task /\ MaxTick \in Nat /\ 0 <= MaxTasks
  BY SleepStepsAssumption DEF Task
<1>e. <<>> \in Seq(Task)
  OBVIOUS
<1>1. PICK q : q = <<>>
  OBVIOUS
<1>2. q \in Seq(Task) /\ Len(q) = 0 /\ DOMAIN q = {} /\ \A t : ~In(t, q)
  BY <1>e, <1>1 DEF In
<1>3. Seg(next, readyQ, q, NULL) /\ Seg(next, sleepQ, q, NULL)
  BY <1>1, <1>2 DEF Init, Seg
<1>4. Typed
  <2>1. /\ next \in [Task -> Link] /\ eos \in [Task -> Nat]
        /\ readyQ \in Link /\ sleepQ \in Link /\ current \in Link /\ tmpCur \in Link
        /\ it \in [Task -> Link] /\ arg \in [Task -> Nat]
    BY DEF Init, Link
  <2>2. saved \in [Task -> [owner : Link, kind : Kind, live : BOOLEAN]]
    BY DEF Init, NoContext, Link, Kind
  <2>3. nextPid \in 1..(MaxTasks + 1) /\ tick \in 0..MaxTick
    <3>1. nextPid = 1 /\ tick = 0
      BY DEF Init
    <3> QED
      BY ONLY <1>0, <3>1
  <2>4. /\ run \in Task /\ iflag \in BOOLEAN /\ fault = FALSE /\ hit = FALSE
        /\ pc \in [Task -> Label] /\ wrapped \in {"no", "yes"}
    BY <1>0 DEF Init, Label
  <2>5. snap \in [ready : Seq(Task), sleepq : Seq(Task), kinds : [Task -> Kind]]
    <3>1. [t \in Task |-> "none"] \in [Task -> Kind]
      BY DEF Kind
    <3>2. PICK f \in [Task -> Kind] : f = [t \in Task |-> "none"]
      BY <3>1
    <3>3. snap = [ready |-> q, sleepq |-> q, kinds |-> f]
      BY <1>1, <3>2 DEF Init
    <3> QED
      BY ONLY <1>2, <3>2, <3>3
  <2> QED
    BY <2>1, <2>2, <2>3, <2>4, <2>5 DEF Typed
<1>5. pc[run] = "boot" /\ Stable /\ nextPid = 1 /\ run = 1 /\ current = NULL
  BY <1>0 DEF Init, Stable
<1>6. Partition(q, q, nextPid)
  <2>1. \A t \in Task : ~(t < nextPid)
    BY <1>0, <1>5 DEF Task
  <2>2. Len(q) + Len(q) = nextPid - 1
    BY <1>2, <1>5
  <2> QED
    BY <1>2, <2>1, <2>2 DEF Partition, Injective
<1>7. AbsReady = q /\ AbsSleepq = q /\ AbsCur = current /\ AbsCtx = Kinds
  BY <1>3, <1>4, <1>5, <1>6, RestAbs
<1>8. Suspended
  <2>1. \A t \in Task : ~(t < nextPid)
    BY <1>0, <1>5 DEF Task
  <2> QED
    BY <2>1 DEF Suspended
<1>9. Unstamped
  BY <1>2, <1>7 DEF Unstamped, Init
<1>10. AtRest /\ InSleep
  BY <1>3, <1>5, <1>7 DEF AtRest, InSleep
<1>11. AbsLeft = [t \in Task |-> 0]
  BY <1>2, <1>7 DEF AbsLeft, Contains
<1>12. Kinds = [t \in Task |-> "none"]
  BY DEF Kinds, Init, NoContext
<1>13. Abstract!Init
  BY <1>1, <1>5, <1>7, <1>11, <1>12
     DEF Abstract!Init, Abstract!NoTask, Abstract!Task, Init, NULL, Task
<1> QED
  BY <1>4, <1>6, <1>7, <1>8, <1>9, <1>10, <1>13 DEF Good

LEMMA StutterGood ==
    ASSUME Good, UNCHANGED vars
    PROVE  Good' /\ UNCHANGED Abstract!vars
<1>1. /\ next' = next /\ readyQ' = readyQ /\ sleepQ' = sleepQ /\ current' = current
      /\ tmpCur' = tmpCur /\ eos' = eos /\ saved' = saved /\ nextPid' = nextPid
      /\ tick' = tick /\ run' = run /\ iflag' = iflag /\ pc' = pc /\ it' = it
      /\ arg' = arg /\ fault' = fault /\ hit' = hit /\ wrapped' = wrapped
      /\ snap' = snap
  BY DEF vars, list, task, stack, history
<1>2. Stable' <=> Stable
  BY <1>1 DEF Stable
<1>3. Kinds' = Kinds
  BY <1>1 DEF Kinds
<1>4. AbsReady' = AbsReady /\ AbsSleepq' = AbsSleepq /\ AbsCur' = AbsCur /\ AbsCtx' = AbsCtx
  BY <1>1, <1>2, <1>3 DEF AbsReady, AbsSleepq, AbsCur, AbsCtx
<1>5. AbsLeft' = AbsLeft
  BY <1>1, <1>4 DEF AbsLeft
<1>6. Typed' /\ Suspended' /\ Partition(AbsReady, AbsSleepq, nextPid)'
  BY <1>1, <1>4 DEF Good, Typed, Suspended
<1>7. Unstamped' /\ AtRest'
  BY <1>1, <1>2, <1>4 DEF Good, Unstamped, AtRest
<1>8. InSleep'
  <2> SUFFICES ASSUME ~Stable PROVE InSleep'
    BY <1>2 DEF InSleep
  <2>2. PICK k \in DOMAIN snap.ready :
           snap.ready[k] = run /\ SleepAt(pc[run], snap.ready, snap.sleepq, k)
    BY DEF Good, InSleep
  <2>3. SleepAt(pc[run], snap.ready, snap.sleepq, k)'
    BY ONLY <1>1, <2>2 DEF SleepAt
  <2>4. \E j \in DOMAIN snap'.ready :
           snap'.ready[j] = run' /\ SleepAt(pc[run], snap.ready, snap.sleepq, j)'
    BY <1>1, <2>2, <2>3
  <2>5. /\ nextPid' > 1 /\ Len(snap'.ready) > 1 /\ arg'[run'] \in SleepArgs
        /\ \A t \in Task : t # run' => snap'.kinds[t] = saved'[t].kind
    BY <1>1 DEF Good, InSleep
  <2> QED
    BY <2>4, <2>5 DEF InSleep
<1> QED
  BY <1>1, <1>4, <1>5, <1>6, <1>7, <1>8 DEF Good, Abstract!vars

(* Every step from a good state, but one that a tick or a deadline spoils, *)
(* leads to a good state and is a step of Scheduler or none at all.        *)
LEMMA GoodStep ==
    ASSUME Good, [Next]_vars
    PROVE  /\ hit' \/ wrapped' = "to zero" \/ Good'
           /\ hit' \/ wrapped' # "no" \/ Abstract!Next \/ UNCHANGED Abstract!vars
<1>1. CASE InitialiseTasking
  BY <1>1, InitialiseStep
<1>2. CASE Fork
  BY <1>2, ForkStep
<1>3. CASE \E n \in SleepArgs : CallSleep(n)
  BY <1>3, CallSleepStep
<1>4. CASE Stamp
  BY <1>4, StampStep
<1>5. CASE EnqueueOnly \/ EnqueueStart \/ EnqueueWalk \/ EnqueueLink
  BY <1>5, EnqueueOnlyStep, EnqueueStartStep, EnqueueWalkStep, EnqueueLinkStep
<1>6. CASE SaveContext \/ PickNext \/ WrapNext
  BY <1>6, SaveContextStep, PickNextStep, WrapNextStep
<1>7. CASE UnlinkStart \/ UnlinkSeek \/ UnlinkSkip \/ UnlinkClear
  BY <1>7, UnlinkStartStep, UnlinkSeekStep, UnlinkSkipStep, UnlinkClearStep
<1>8. CASE SetCurrent
  BY <1>8, SetCurrentStep
<1>9. CASE JumpFromSleep
  BY <1>9, JumpFromSleepStep
<1>10. CASE TimerCallback
  BY <1>10, TimerCallbackStep
<1>11. CASE UNCHANGED vars
  BY <1>11, StutterGood
<1> QED
  BY <1>1, <1>2, <1>3, <1>4, <1>5, <1>6, <1>7, <1>8, <1>9, <1>10, <1>11
     DEF Next, SleepStep

(* What has spoiled the invariant is remembered.                           *)
LEMMA SpoiltStays ==
    ASSUME [Next]_vars
    PROVE  (hit => hit') /\ (wrapped = "to zero" => wrapped' = "to zero")
<1>1. CASE TimerCallback
  BY <1>1 DEF TimerCallback
<1>2. CASE Stamp
  BY <1>2 DEF Stamp
<1>3. CASE \E n \in SleepArgs : CallSleep(n)
  <2>1. hit' = hit /\ wrapped' = wrapped
    BY <1>3 DEF CallSleep
  <2> QED
    BY <2>1
<1>4. ASSUME \/ InitialiseTasking \/ Fork \/ JumpFromSleep \/ EnqueueOnly
             \/ EnqueueStart \/ EnqueueWalk \/ EnqueueLink \/ SaveContext
             \/ PickNext \/ WrapNext \/ UnlinkStart \/ UnlinkSeek
             \/ UnlinkSkip \/ UnlinkClear \/ SetCurrent \/ UNCHANGED vars
      PROVE  (hit => hit') /\ (wrapped = "to zero" => wrapped' = "to zero")
  <2>1. history' = history
    BY <1>4
       DEF InitialiseTasking, Fork, JumpFromSleep, EnqueueOnly, EnqueueStart,
           EnqueueWalk, EnqueueLink, SaveContext, PickNext, WrapNext, UnlinkStart,
           UnlinkSeek, UnlinkSkip, UnlinkClear, SetCurrent, vars
  <2>2. hit' = hit /\ wrapped' = wrapped
    BY ONLY <2>1 DEF history
  <2> QED
    BY ONLY <2>2
<1> QED
  BY <1>1, <1>2, <1>3, <1>4 DEF Next, SleepStep

(* Good states have every process on a list and no fault.                  *)
LEMMA GoodSound ==
    ASSUME Good
    PROVE  SoundJumps /\ NoTaskLost
<1>0. /\ MaxTasks \in Nat /\ nextPid \in 1..(MaxTasks + 1) /\ ~fault
  BY SleepStepsAssumption DEF Good, Typed
<1> SUFFICES ASSUME NEW t \in 1..(nextPid - 1)
             PROVE  \/ Contains(Chain(next, readyQ), t)
                    \/ Contains(Chain(next, sleepQ), t)
  BY <1>0 DEF SoundJumps, NoTaskLost
<1>1. t \in Task /\ t < nextPid /\ t # NULL
  BY ONLY <1>0, t \in 1..(nextPid - 1) DEF Task, NULL
<1>2. PICK r, z : r = AbsReady /\ z = AbsSleepq
  OBVIOUS
<1>3. /\ r \in Seq(Task) /\ z \in Seq(Task) /\ Injective(r)
      /\ Len(r) \in Nat /\ Len(z) \in Nat /\ Len(r) + Len(z) <= MaxTasks
      /\ In(t, r) \/ In(t, z)
  BY <1>0, <1>1, <1>2, PartitionFacts DEF Good
<1>4. Len(r) <= MaxTasks /\ Len(z) <= MaxTasks
  BY ONLY <1>0, <1>3
<1>5. ASSUME NEW e, Seg(next, readyQ, r, NULL), Seg(next, sleepQ, z, e)
      PROVE  \/ Contains(Chain(next, readyQ), t)
             \/ Contains(Chain(next, sleepQ), t)
  BY <1>3, <1>4, <1>5, SegChain
<1>6. CASE Stable
  BY <1>2, <1>5, <1>6 DEF Good, AtRest
<1>7. CASE ~Stable
  <2>1. PICK r2, z2, k : SleepFrom(r2, z2, k) /\ SleepAt(pc[run], r2, z2, k)
    BY <1>7, SleepFromFacts
  <2>2. /\ r2 = r /\ z2 = z /\ k \in DOMAIN r /\ r[k] = run /\ run \in Task
        /\ Len(r) > 1
    BY <1>2, <2>1 DEF SleepFrom
  <2>3. CASE pc[run] \in Linking \cup Unlinking
    BY <1>5, <2>1, <2>2, <2>3 DEF SleepAt
  <2>4. CASE pc[run] \in {"clear", "set", "jump"}
    <3>1. PICK a, b : a = RemoveAt(r, k) /\ b = Append(z, run)
      OBVIOUS
    <3>2. /\ a \in Seq(Task) /\ Len(a) = Len(r) - 1
          /\ \A u : In(u, a) <=> In(u, r) /\ u # run
      BY <1>3, <2>2, <3>1, RemoveFacts, RemoveIn
    <3>3. Seg(next, readyQ, a, NULL)
      BY <2>1, <2>2, <2>4, <3>1 DEF SleepAt
    <3>4. Len(a) <= MaxTasks /\ Len(z) < MaxTasks /\ Len(z) + 1 <= MaxTasks
      BY ONLY <1>0, <1>3, <2>2, <3>2
    <3>5. \A u : In(u, a) => Contains(Chain(next, readyQ), u)
      BY <3>2, <3>3, <3>4, SegChain
    <3>6. In(t, z) \/ t = run => Contains(Chain(next, sleepQ), t)
      <4>1. CASE pc[run] = "clear"
        <5>1. Seg(next, sleepQ, z, run)
          BY <2>1, <2>2, <4>1 DEF SleepAt
        <5>2. run # NULL
          BY <2>2 DEF Task, NULL
        <5> QED
          BY <1>3, <1>4, <3>4, <5>1, <5>2, SegChain
      <4>2. CASE pc[run] \in {"set", "jump"}
        <5>1. Seg(next, sleepQ, b, NULL)
          BY <2>1, <2>2, <3>1, <4>2 DEF SleepAt
        <5>2. /\ b \in Seq(Task) /\ Len(b) = Len(z) + 1 /\ DOMAIN b = 1..(Len(z) + 1)
              /\ \A i \in 1..Len(z) : b[i] = z[i]
              /\ b[Len(z) + 1] = run
          BY <1>3, <2>2, <3>1, AppendFacts
        <5>3. In(t, z) \/ t = run => In(t, b)
          <6>1. /\ DOMAIN z = 1..Len(z) /\ Len(z) + 1 \in 1..(Len(z) + 1)
                /\ \A i \in 1..Len(z) : i \in 1..(Len(z) + 1)
            BY <1>3
          <6> QED
            BY <5>2, <6>1 DEF In
        <5> QED
          BY <3>4, <5>1, <5>2, <5>3, SegChain
      <4> QED
        BY <2>4, <4>1, <4>2
    <3> QED
      BY <1>3, <3>2, <3>5, <3>6
  <2> QED
    BY <1>7, <2>3, <2>4 DEF Good, Typed, Label, Linking, Unlinking, Stable
<1> QED
  BY <1>6, <1>7


(* The invariant is inductive, and with it every step is one of Scheduler. *)
LEMMA SleepInvStep ==
    ASSUME SleepInv, [Next]_vars
    PROVE  /\ SleepInv'
           /\ [hit' \/ wrapped' # "no" \/ Abstract!Next]_(Abstract!vars)
<1>1. CASE hit
  <2>1. hit'
    BY <1>1, SpoiltStays
  <2> QED
    BY <2>1 DEF SleepInv
<1>2. CASE wrapped = "to zero"
  <2>1. wrapped' = "to zero"
    BY <1>2, SpoiltStays
  <2> QED
    BY <2>1 DEF SleepInv
<1>3. CASE Good
  <2>1. /\ hit' \/ wrapped' = "to zero" \/ Good'
        /\ hit' \/ wrapped' # "no" \/ Abstract!Next \/ UNCHANGED Abstract!vars
    BY <1>3, GoodStep
  <2> QED
    BY <2>1 DEF SleepInv
<1> QED
  BY <1>1, <1>2, <1>3 DEF SleepInv

-----------------------------------------------------------------------------
(***************************************************************************)
(* For any number of tasks, any arguments of sleep() and any tick counter: *)
(* until a tick is taken inside sleep() or a deadline wraps to exactly 0,  *)
(* switch_task() jumps only to contexts their owners are suspended in, no  *)
(* list walk of task.c or timer.c leaves its list, and every process is    *)
(* reachable from ready_queue or sleep_queue after every statement.        *)
(***************************************************************************)
THEOREM SleepKeepsTasks == Spec => []SoundUntilPreempted
<1>1. Init => SleepInv
  BY InitGood DEF SleepInv
<1>2. SleepInv /\ [Next]_vars => SleepInv'
  BY SleepInvStep
<1>3. SleepInv => SoundUntilPreempted
  BY GoodSound DEF SleepInv, SoundUntilPreempted
<1> QED
  BY <1>1, <1>2, <1>3, PTL DEF Spec

(***************************************************************************)
(* For any number of tasks: until a tick is taken inside sleep() or a      *)
(* deadline wraps, the assignments of sleep(), switch_task() and           *)
(* timer_callback() to linked lists implement the operations of Scheduler  *)
(* on sequences, so that the theorems about Scheduler hold of them.        *)
(***************************************************************************)
THEOREM SleepImplementsScheduler == Spec => ImplementsUntilPreempted
<1>1. Init => SleepInv /\ Abstract!Init
  BY InitGood DEF SleepInv
<1>2. SleepInv /\ [Next]_vars => SleepInv'
  BY SleepInvStep
<1>3. SleepInv /\ [Next]_vars =>
         [hit' \/ wrapped' # "no" \/ Abstract!Next]_(Abstract!vars)
  BY SleepInvStep
<1> QED
  BY <1>1, <1>2, <1>3, PTL DEF Spec, ImplementsUntilPreempted
=============================================================================

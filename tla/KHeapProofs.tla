---------------------------- MODULE KHeapProofs ----------------------------
(***************************************************************************)
(* Proofs about KHeap for every page size, every length of the heap and    *)
(* every set of request sizes: as long as alloc and free meet none of the  *)
(* cases the code leaves out, blocks and holes tile the heap, holes never  *)
(* lie side by side and no word belongs to two callers.                    *)
(***************************************************************************)
EXTENDS KHeap, WellFoundedInduction, TLAPS

-----------------------------------------------------------------------------
(* The inductive invariant, on a memory m of length l with the holes H and *)
(* the blocks B.                                                           *)

(* The first word behind the part at p.                                    *)
End(m, p) == p + Size(m, p)

(* The parts p of size s[p] tile the words from 0 to l.                    *)
Tiling(s, l) ==
    /\ DOMAIN s \subseteq Nat /\ 0 \in DOMAIN s
    /\ \A p \in DOMAIN s :
          /\ s[p] \in Nat /\ s[p] >= Overhead /\ p + s[p] <= l
          /\ p + s[p] \in DOMAIN s \cup {l}
          /\ p # 0 => \E q \in DOMAIN s : q + s[q] = p
    /\ \A p, q \in DOMAIN s : p < q => p + s[p] <= q
    /\ \E q \in DOMAIN s : q + s[q] = l

(* A block has its header, and its footer leads back to it.                *)
BlockOK(m, p) ==
    /\ m[p] = Magic /\ Hole(m, p) = 0
    /\ m[End(m, p) - 2] = Magic /\ m[End(m, p) - 1] = p

(***************************************************************************)
(* A hole has its header.  Its footer, which is there unless the hole ends *)
(* the heap, leads to it or to the header of a hole that was merged into   *)
(* it: free does not rewrite the footer of the hole to its right.          *)
(***************************************************************************)
HoleOK(m, l, p) ==
    /\ m[p] = Magic /\ Hole(m, p) = 1
    /\ End(m, p) < l =>
          LET x == m[End(m, p) - 1] IN
             /\ m[End(m, p) - 2] = Magic
             /\ x = p \/ (p + Overhead <= x /\ x + Overhead <= End(m, p))
             /\ Hole(m, x) = 1

(* The sizes the headers of the parts P give.                              *)
Sized(m, P) == [p \in P |-> Size(m, p)]

(* Holes and blocks tile the heap, and each is as it should be. No footer  *)
(* in front of the heap leads anywhere.                                    *)
Layout(m, H, B, l) ==
    /\ m \in [Address -> Int] /\ l \in MinWords..MaxWords
    /\ m[-2] # Magic
    /\ H \cap B = {}
    /\ Tiling(Sized(m, H \cup B), l)
    /\ \A p \in H : HoleOK(m, l, p)
    /\ \A p \in B : BlockOK(m, p)

(* No two holes lie side by side.                                          *)
Apart(m, H) == \A p \in H : End(m, p) \notin H

(* The index lists nothing twice.                                          *)
Injective(q) == \A i, j \in DOMAIN q : q[i] = q[j] => i = j

(* What the callers hold: one block each, with room for what they asked.   *)
Held(m, held) ==
    /\ \A b \in held :
          /\ b[1] \in Int /\ b[2] \in Sizes
          /\ Size(m, b[1] - HeaderSize) >= b[2] + Overhead
    /\ \A b, c \in held : b[1] = c[1] => b = c

(* The headers of the blocks the callers hold.                             *)
BlocksOf(held) == {b[1] - HeaderSize : b \in held}

(* A heap with memory m, index q, length l and the blocks held.            *)
HeapOK(m, q, l, held) ==
    /\ q \in Seq(Int) /\ Injective(q)
    /\ Layout(m, ToSet(q), BlocksOf(held), l)
    /\ Held(m, held)
    /\ Apart(m, ToSet(q))

(* The inductive invariant.                                                *)
HeapInv == slip = "none" => HeapOK(mem, index, len, live)

-----------------------------------------------------------------------------
(* How tilings change.                                                     *)

(* A part cut in two at c.                                                 *)
Split(s, p, c) ==
    [q \in DOMAIN s \cup {c} |->
        IF q = p THEN c - p ELSE IF q = c THEN p + s[p] - c ELSE s[q]]

(* A part cut in two leaves a tiling, if both pieces have room for a       *)
(* header and a footer.                                                    *)
LEMMA SplitTiling ==
    ASSUME NEW s, NEW l \in Nat, Tiling(s, l), NEW p \in DOMAIN s, NEW c \in Nat,
           p + Overhead <= c, c + Overhead <= p + s[p]
    PROVE  Tiling(Split(s, p, c), l)
<1> DEFINE t == Split(s, p, c)
<1>0. Overhead = 5
  BY DEF Overhead, HeaderSize, FooterSize
<1>1. /\ DOMAIN t = DOMAIN s \cup {c} /\ t[p] = c - p /\ t[c] = p + s[p] - c
      /\ \A q \in DOMAIN s \ {p, c} : t[q] = s[q]
  BY <1>0 DEF Tiling, Split
<1>2. c \notin DOMAIN s
  BY <1>0 DEF Tiling
<1> HIDE DEF t
<1>3. DOMAIN t \subseteq Nat /\ 0 \in DOMAIN t
  BY <1>1 DEF Tiling
<1>4. ASSUME NEW x \in DOMAIN t
      PROVE  /\ t[x] \in Nat /\ t[x] >= Overhead /\ x + t[x] <= l
             /\ x + t[x] \in DOMAIN t \cup {l}
  BY <1>0, <1>1, <1>2 DEF Tiling
<1>5. ASSUME NEW x \in DOMAIN t, x # 0
      PROVE  \E q \in DOMAIN t : q + t[q] = x
  <2>1. CASE x = c
    BY <1>0, <1>1, <1>2, <2>1 DEF Tiling
  <2>2. CASE x # c
    <3>1. PICK q \in DOMAIN s : q + s[q] = x
      BY <1>1, <1>5, <2>2 DEF Tiling
    <3>2. CASE q = p
      <4>1. c + t[c] = x
        BY <1>0, <1>1, <3>1, <3>2 DEF Tiling
      <4> QED
        BY <1>1, <4>1
    <3>3. CASE q # p
      BY <1>1, <1>2, <3>1, <3>3
    <3> QED
      BY <3>2, <3>3
  <2> QED
    BY <2>1, <2>2
<1>6. ASSUME NEW x \in DOMAIN t, NEW y \in DOMAIN t, x < y
      PROVE  x + t[x] <= y
  <2>1. CASE x = c
    BY <1>0, <1>1, <1>2, <1>6, <2>1 DEF Tiling
  <2>2. CASE y = c
    BY <1>0, <1>1, <1>2, <1>6, <2>2 DEF Tiling
  <2>3. CASE x # c /\ y # c
    BY <1>0, <1>1, <1>2, <1>6, <2>3 DEF Tiling
  <2> QED
    BY <2>1, <2>2, <2>3
<1>7. \E q \in DOMAIN t : q + t[q] = l
  <2>1. PICK q \in DOMAIN s : q + s[q] = l
    BY DEF Tiling
  <2>2. CASE q = p
    <3>1. c + t[c] = l
      BY <1>0, <1>1, <2>1, <2>2 DEF Tiling
    <3> QED
      BY <1>1, <3>1
  <2>3. CASE q # p
    BY <1>1, <1>2, <2>1, <2>3
  <2> QED
    BY <2>2, <2>3
<1>8. Tiling(t, l)
  BY <1>3, <1>4, <1>5, <1>6, <1>7 DEF Tiling
<1> QED
  BY <1>8 DEF t

(* A part merged with the one behind it.                                   *)
Merge(s, p, q) ==
    [x \in DOMAIN s \ {q} |-> IF x = p THEN s[p] + s[q] ELSE s[x]]

(* Two neighbours made one leave a tiling.                                 *)
LEMMA MergeTiling ==
    ASSUME NEW s, NEW l \in Nat, Tiling(s, l), NEW p \in DOMAIN s, NEW q \in DOMAIN s,
           p + s[p] = q
    PROVE  Tiling(Merge(s, p, q), l)
<1> DEFINE t == Merge(s, p, q)
<1>0. Overhead = 5
  BY DEF Overhead, HeaderSize, FooterSize
<1>1. /\ DOMAIN t = DOMAIN s \ {q} /\ t[p] = s[p] + s[q] /\ p # q
      /\ \A x \in DOMAIN s \ {p, q} : t[x] = s[x]
  BY <1>0 DEF Tiling, Merge
<1>2. /\ \A x \in DOMAIN s : x \in Nat /\ s[x] \in Nat /\ s[x] >= 5
      /\ q # 0 /\ p < q
  BY <1>0 DEF Tiling
<1> HIDE DEF t
<1>3. DOMAIN t \subseteq Nat /\ 0 \in DOMAIN t
  BY <1>1, <1>2 DEF Tiling
<1>4. ASSUME NEW x \in DOMAIN t
      PROVE  /\ t[x] \in Nat /\ t[x] >= Overhead /\ x + t[x] <= l
             /\ x + t[x] \in DOMAIN t \cup {l}
  <2>1. CASE x = p
    <3>1. x + t[x] = q + s[q]
      BY <1>1, <1>2, <2>1
    <3>2. q + s[q] \in (DOMAIN s \cup {l}) \ {q} /\ q + s[q] <= l
      BY <1>2 DEF Tiling
    <3> QED
      BY <1>0, <1>1, <1>2, <2>1, <3>1, <3>2
  <2>2. CASE x # p
    <3>1. x \in DOMAIN s \ {p, q} /\ t[x] = s[x]
      BY <1>1, <2>2
    <3>2. x + s[x] # q
      <4>1. x < p => x + s[x] <= p
        BY <3>1 DEF Tiling
      <4>2. p < x => q <= x
        BY <3>1 DEF Tiling
      <4> QED
        BY <1>2, <3>1, <2>2, <4>1, <4>2
    <3> QED
      BY <1>1, <3>1, <3>2 DEF Tiling
  <2> QED
    BY <2>1, <2>2
<1>5. ASSUME NEW x \in DOMAIN t, x # 0
      PROVE  \E y \in DOMAIN t : y + t[y] = x
  <2>1. PICK y \in DOMAIN s : y + s[y] = x
    BY <1>1, <1>5 DEF Tiling
  <2>2. CASE y = q
    <3>1. p + t[p] = x
      BY <1>1, <1>2, <2>1, <2>2
    <3> QED
      BY <1>1, <3>1
  <2>3. CASE y # q
    <3>1. y # p
      BY <1>1, <2>1
    <3> QED
      BY <1>1, <2>1, <2>3, <3>1
  <2> QED
    BY <2>2, <2>3
<1>6. ASSUME NEW x \in DOMAIN t, NEW y \in DOMAIN t, x < y
      PROVE  x + t[x] <= y
  <2>1. CASE x = p
    <3>1. q < y
      BY <1>1, <1>2, <1>6, <2>1 DEF Tiling
    <3> QED
      BY <1>1, <1>2, <2>1, <3>1 DEF Tiling
  <2>2. CASE x # p
    BY <1>1, <1>2, <1>6, <2>2 DEF Tiling
  <2> QED
    BY <2>1, <2>2
<1>7. \E y \in DOMAIN t : y + t[y] = l
  <2>1. PICK y \in DOMAIN s : y + s[y] = l
    BY DEF Tiling
  <2>2. CASE y = q
    <3>1. p + t[p] = l
      BY <1>1, <1>2, <2>1, <2>2
    <3> QED
      BY <1>1, <3>1
  <2>3. CASE y # q
    <3>1. y # p
      BY <1>2, <2>1 DEF Tiling
    <3> QED
      BY <1>1, <2>1, <2>3, <3>1
  <2> QED
    BY <2>2, <2>3
<1>8. Tiling(t, l)
  BY <1>3, <1>4, <1>5, <1>6, <1>7 DEF Tiling
<1> QED
  BY <1>8 DEF t

(* The last part made longer or shorter, and the heap with it.             *)
LEMMA ResizeTiling ==
    ASSUME NEW s, NEW l \in Nat, Tiling(s, l), NEW p \in DOMAIN s, p + s[p] = l,
           NEW k \in Nat, Overhead <= k
    PROVE  Tiling([x \in DOMAIN s |-> IF x = p THEN k ELSE s[x]], p + k)
<1> DEFINE t == [x \in DOMAIN s |-> IF x = p THEN k ELSE s[x]]
<1>0. Overhead = 5
  BY DEF Overhead, HeaderSize, FooterSize
<1>1. /\ DOMAIN t = DOMAIN s /\ t[p] = k
      /\ \A x \in DOMAIN s \ {p} : t[x] = s[x]
  OBVIOUS
<1>2. \A x \in DOMAIN s : x \in Nat /\ s[x] \in Nat /\ s[x] >= 5
  BY <1>0 DEF Tiling
<1> HIDE DEF t
<1>3. ASSUME NEW x \in DOMAIN s \ {p}
      PROVE  x < p /\ x + s[x] <= p
  BY <1>2 DEF Tiling
<1>4. ASSUME NEW x \in DOMAIN t
      PROVE  /\ t[x] \in Nat /\ t[x] >= Overhead /\ x + t[x] <= p + k
             /\ x + t[x] \in DOMAIN t \cup {p + k}
  <2>1. CASE x = p
    BY <1>0, <1>1, <1>2, <2>1
  <2>2. CASE x # p
    <3>1. x + s[x] <= p /\ x + s[x] \in DOMAIN s \cup {l} /\ p < l
      BY <1>1, <1>2, <1>3, <2>2 DEF Tiling
    <3> QED
      BY <1>0, <1>1, <1>2, <2>2, <3>1
  <2> QED
    BY <2>1, <2>2
<1>5. ASSUME NEW x \in DOMAIN t, x # 0
      PROVE  \E y \in DOMAIN t : y + t[y] = x
  <2>1. PICK y \in DOMAIN s : y + s[y] = x
    BY <1>1, <1>5 DEF Tiling
  <2>2. y # p
    BY <1>1, <1>2, <2>1 DEF Tiling
  <2> QED
    BY <1>1, <2>1, <2>2
<1>6. ASSUME NEW x \in DOMAIN t, NEW y \in DOMAIN t, x < y
      PROVE  x + t[x] <= y
  BY <1>1, <1>2, <1>3, <1>6 DEF Tiling
<1>8. Tiling(t, p + k)
  BY <1>1, <1>4, <1>5, <1>6 DEF Tiling
<1> QED
  BY <1>8 DEF t

(* A part added behind the last one.                                       *)
LEMMA AppendTiling ==
    ASSUME NEW s, NEW l \in Nat, Tiling(s, l), NEW k \in Nat, Overhead <= k
    PROVE  /\ l \notin DOMAIN s
           /\ Tiling([x \in DOMAIN s \cup {l} |-> IF x = l THEN k ELSE s[x]], l + k)
<1> DEFINE t == [x \in DOMAIN s \cup {l} |-> IF x = l THEN k ELSE s[x]]
<1>0. Overhead = 5
  BY DEF Overhead, HeaderSize, FooterSize
<1>2. \A x \in DOMAIN s : x \in Nat /\ s[x] \in Nat /\ s[x] >= 5 /\ x + s[x] <= l
  BY <1>0 DEF Tiling
<1>n. l \notin DOMAIN s
  BY <1>2
<1>1. /\ DOMAIN t = DOMAIN s \cup {l} /\ t[l] = k
      /\ \A x \in DOMAIN s : t[x] = s[x]
  BY <1>n
<1> HIDE DEF t
<1>4. ASSUME NEW x \in DOMAIN t
      PROVE  /\ t[x] \in Nat /\ t[x] >= Overhead /\ x + t[x] <= l + k
             /\ x + t[x] \in DOMAIN t \cup {l + k}
  BY <1>0, <1>1, <1>2 DEF Tiling
<1>5. ASSUME NEW x \in DOMAIN t, x # 0
      PROVE  \E y \in DOMAIN t : y + t[y] = x
  <2>1. PICK y \in DOMAIN s : y + s[y] = x
    BY <1>1, <1>5 DEF Tiling
  <2> QED
    BY <1>1, <2>1
<1>6. ASSUME NEW x \in DOMAIN t, NEW y \in DOMAIN t, x < y
      PROVE  x + t[x] <= y
  BY <1>1, <1>2, <1>6 DEF Tiling
<1>8. Tiling(t, l + k)
  BY <1>1, <1>4, <1>5, <1>6 DEF Tiling
<1> QED
  BY <1>n, <1>8 DEF t

-----------------------------------------------------------------------------
(* The index.                                                              *)

(* A nonempty set of naturals has a least element.                         *)
LEMMA MinFacts ==
    ASSUME NEW S, S \subseteq Nat, S # {}
    PROVE  Min(S) \in S /\ \A y \in S : Min(S) <= y
<1>1. PICK x \in S : \A y \in S : ~(<<y, x>> \in OpToRel(<, Nat))
  BY NatLessThanWellFounded, WFMin
<1>2. \A y \in S : x <= y
  <2> SUFFICES ASSUME NEW y \in S, y < x PROVE FALSE
    OBVIOUS
  <2>1. <<y, x>> \in {ss \in Nat \X Nat : ss[1] < ss[2]}
    OBVIOUS
  <2> QED
    BY <1>1, <2>1 DEF OpToRel
<1> QED
  BY <1>2 DEF Min

(* A nonempty set of naturals with a bound has a greatest element.         *)
LEMMA MaxFacts ==
    ASSUME NEW S, NEW n \in Nat, S \subseteq 0..n, S # {}
    PROVE  Max(S) \in S /\ \A y \in S : y <= Max(S)
<1> DEFINE T == {n - y : y \in S}
<1>1. T \subseteq Nat /\ T # {}
  <2>1. PICK y \in S : TRUE
    OBVIOUS
  <2>2. n - y \in T
    OBVIOUS
  <2>3. T \subseteq Nat
    OBVIOUS
  <2> QED
    BY <2>2, <2>3
<1>2. Min(T) \in T /\ \A z \in T : Min(T) <= z
  BY <1>1, MinFacts
<1>3. PICK x \in S : Min(T) = n - x
  BY <1>2
<1>4. \A y \in S : n - y \in T
  OBVIOUS
<1> HIDE DEF T
<1>5. \A y \in S : x >= y
  BY <1>2, <1>3, <1>4
<1> QED
  BY <1>5 DEF Max

(* A concatenation, position by position.                                  *)
LEMMA ConcatFacts ==
    ASSUME NEW S, NEW a \in Seq(S), NEW b \in Seq(S)
    PROVE  /\ a \o b \in Seq(S) /\ DOMAIN (a \o b) = 1..(Len(a) + Len(b))
           /\ Len(a \o b) = Len(a) + Len(b)
           /\ \A i \in 1..Len(a) : (a \o b)[i] = a[i]
           /\ \A i \in 1..Len(b) : (a \o b)[Len(a) + i] = b[i]
  OBVIOUS

(* A removal from the index takes one hole out of it.                      *)
LEMMA RemoveAtFacts ==
    ASSUME NEW S, NEW q \in Seq(S), Injective(q), NEW k \in DOMAIN q
    PROVE  /\ RemoveAt(q, k) \in Seq(S) /\ Injective(RemoveAt(q, k))
           /\ ToSet(RemoveAt(q, k)) = ToSet(q) \ {q[k]}
<1> DEFINE a == SubSeq(q, 1, k - 1)
           b == SubSeq(q, k + 1, Len(q))
           t == RemoveAt(q, k)
<1>0. k \in 1..Len(q) /\ Len(q) \in Nat /\ DOMAIN q = 1..Len(q)
  OBVIOUS
<1>1. a \in Seq(S) /\ Len(a) = k - 1 /\ \A i \in 1..(k - 1) : a[i] = q[i]
  BY <1>0
<1>2. b \in Seq(S) /\ Len(b) = Len(q) - k
      /\ \A i \in 1..(Len(q) - k) : b[i] = q[k + i]
  BY <1>0
<1>3. t = a \o b
  BY DEF RemoveAt
<1> HIDE DEF a, b, t
<1>4. /\ t \in Seq(S) /\ DOMAIN t = 1..(Len(q) - 1)
      /\ \A i \in 1..(Len(q) - 1) : t[i] = IF i < k THEN q[i] ELSE q[i + 1]
  <2>1. /\ t \in Seq(S) /\ DOMAIN t = 1..(Len(a) + Len(b))
        /\ \A i \in 1..Len(a) : t[i] = a[i]
        /\ \A i \in 1..Len(b) : t[Len(a) + i] = b[i]
    <3>1. a \in Seq(S) /\ b \in Seq(S)
      BY <1>1, <1>2
    <3> QED
      BY ONLY <1>3, <3>1, ConcatFacts
  <2>2. ASSUME NEW i \in 1..(Len(q) - 1)
        PROVE  t[i] = IF i < k THEN q[i] ELSE q[i + 1]
    <3>0. i \in Int /\ k \in Int
      BY <1>0
    <3>1. CASE i < k
      <4>1. i \in 1..(k - 1) /\ i \in 1..Len(a)
        BY ONLY <1>0, <1>1, <3>0, <3>1, i \in 1..(Len(q) - 1)
      <4>2. t[i] = a[i] /\ a[i] = q[i]
        BY ONLY <1>1, <2>1, <4>1
      <4> QED
        BY ONLY <3>1, <4>2
    <3>2. CASE i >= k
      <4>1. i - (k - 1) \in 1..Len(b) /\ Len(a) + (i - (k - 1)) = i
            /\ k + (i - (k - 1)) = i + 1
        BY <1>0, <1>1, <1>2, <3>2
      <4>2. t[i] = b[i - (k - 1)]
        BY <2>1, <4>1
      <4>3. b[i - (k - 1)] = q[i + 1]
        BY <1>2, <4>1
      <4> QED
        BY <1>0, <3>2, <4>2, <4>3
    <3> QED
      BY <1>0, <3>1, <3>2
  <2>3. Len(a) + Len(b) = Len(q) - 1
    BY <1>0, <1>1, <1>2
  <2> QED
    BY <2>1, <2>2, <2>3
<1>5. Injective(t)
  <2> SUFFICES ASSUME NEW i \in DOMAIN t, NEW j \in DOMAIN t, t[i] = t[j]
               PROVE  i = j
    BY DEF Injective
  <2> DEFINE up(x) == IF x < k THEN x ELSE x + 1
  <2>1. up(i) \in DOMAIN q /\ up(j) \in DOMAIN q /\ q[up(i)] = t[i] /\ q[up(j)] = t[j]
    BY <1>0, <1>4
  <2>2. up(i) = up(j)
    BY <2>1 DEF Injective
  <2> QED
    BY <1>0, <1>4, <2>2
<1>6. ASSUME NEW x PROVE x \in ToSet(t) <=> x \in ToSet(q) \ {q[k]}
  <2>1. ASSUME NEW i \in DOMAIN t, t[i] = x PROVE x \in ToSet(q) \ {q[k]}
    <3>0. i \in 1..(Len(q) - 1) /\ k \in Int /\ t[i] = IF i < k THEN q[i] ELSE q[i + 1]
      BY ONLY <1>0, <1>4, <2>1
    <3>1. PICK j \in DOMAIN q : j # k /\ q[j] = x
      <4>1. i \in DOMAIN q /\ i + 1 \in DOMAIN q /\ (i < k => i # k) /\ (~(i < k) => i + 1 # k)
        BY ONLY <1>0, <3>0
      <4> QED
        BY ONLY <2>1, <3>0, <4>1
    <3> QED
      BY <3>1 DEF ToSet, Injective
  <2>2. ASSUME NEW j \in DOMAIN q, q[j] = x, j # k PROVE x \in ToSet(t)
    <3>1. PICK i \in DOMAIN t : t[i] = x
      <4>1. CASE j < k
        BY <1>0, <1>4, <2>2, <4>1
      <4>2. CASE j > k
        <5>1. j - 1 \in 1..(Len(q) - 1) /\ ~(j - 1 < k) /\ (j - 1) + 1 = j
          BY <1>0, <4>2
        <5>2. t[j - 1] = x
          BY <1>4, <2>2, <5>1
        <5> QED
          BY <1>4, <5>1, <5>2
      <4> QED
        BY <1>0, <2>2, <4>1, <4>2
    <3> QED
      BY <3>1 DEF ToSet
  <2> QED
    BY <2>1, <2>2 DEF ToSet
<1>7. ToSet(t) = ToSet(q) \ {q[k]}
  BY <1>6
<1> QED
  BY <1>4, <1>5, <1>7 DEF t

(* Removing a hole from the index removes it and nothing else.             *)
LEMMA RemoveItemFacts ==
    ASSUME NEW S, NEW q \in Seq(S), Injective(q), NEW item \in ToSet(q)
    PROVE  /\ RemoveItem(q, item) \in Seq(S) /\ Injective(RemoveItem(q, item))
           /\ ToSet(RemoveItem(q, item)) = ToSet(q) \ {item}
<1> DEFINE I == {i \in 1..Len(q) : q[i] = item}
<1>1. I \subseteq Nat /\ I # {} /\ DOMAIN q = 1..Len(q)
  BY DEF ToSet
<1>2. Min(I) \in I
  BY <1>1, MinFacts
<1>3. RemoveItem(q, item) = RemoveAt(q, Min(I))
  BY <1>1 DEF RemoveItem, RemoveFirst, SelectInSeq
<1> DEFINE k == Min(I)
<1>4. k \in DOMAIN q /\ q[k] = item
  BY <1>1, <1>2
<1>5. RemoveItem(q, item) = RemoveAt(q, k)
  BY <1>3
<1> HIDE DEF k, I
<1> QED
  BY <1>4, <1>5, RemoveAtFacts

(* An insertion adds one hole, wherever it puts it.                        *)
LEMMA InsertFacts ==
    ASSUME NEW S, NEW q \in Seq(S), Injective(q), NEW item \in S, item \notin ToSet(q),
           NEW m
    PROVE  /\ Insert(q, item, m) \in Seq(S) /\ Injective(Insert(q, item, m))
           /\ ToSet(Insert(q, item, m)) = ToSet(q) \cup {item}
<1> DEFINE notLess == {i \in DOMAIN q : ~(Size(m, q[i]) < Size(m, item))}
           t == Insert(q, item, m)
<1>0. Len(q) \in Nat /\ DOMAIN q = 1..Len(q)
  OBVIOUS
<1>1. PICK k \in 1..(Len(q) + 1) :
         /\ t \in Seq(S) /\ DOMAIN t = 1..(Len(q) + 1)
         /\ \A i \in 1..(Len(q) + 1) :
               t[i] = IF i < k THEN q[i] ELSE IF i = k THEN item ELSE q[i - 1]
  <2>1. CASE notLess = {}
    <3>1. t = Append(q, item)
      BY <2>1 DEF Insert
    <3> HIDE DEF t
    <3>2. /\ t \in Seq(S) /\ DOMAIN t = 1..(Len(q) + 1)
          /\ \A i \in 1..Len(q) : t[i] = q[i]
          /\ t[Len(q) + 1] = item
      BY <3>1
    <3>3. Len(q) + 1 \in 1..(Len(q) + 1)
      BY <1>0
    <3>4. \A i \in 1..(Len(q) + 1) : i < Len(q) + 1 => i \in 1..Len(q)
      BY <1>0
    <3> QED
      BY <1>0, <3>2, <3>3, <3>4
  <2>2. CASE notLess # {}
    <3> DEFINE k == Min(notLess)
               a == SubSeq(q, 1, k - 1)
               b == SubSeq(q, k, Len(q))
    <3>1. k \in 1..Len(q)
      <4>1. notLess \subseteq Nat
        BY <1>0
      <4>2. k \in notLess
        BY <2>2, <4>1, MinFacts
      <4> QED
        BY <1>0, <4>2
    <3>2. t = a \o <<item>> \o b
      BY <2>2 DEF Insert, InsertAt
    <3> HIDE DEF k, t
    <3>3. a \in Seq(S) /\ Len(a) = k - 1 /\ \A i \in 1..(k - 1) : a[i] = q[i]
      BY <1>0, <3>1
    <3>4. b \in Seq(S) /\ Len(b) = Len(q) - k + 1
          /\ \A i \in 1..(Len(q) - k + 1) : b[i] = q[k + i - 1]
      BY <1>0, <3>1
    <3> HIDE DEF a, b
    <3> DEFINE c == <<item>> \o b
    <3>5. /\ c \in Seq(S) /\ Len(c) = Len(q) - k + 2 /\ c[1] = item
          /\ \A i \in 2..(Len(q) - k + 2) : c[i] = b[i - 1]
      <4> DEFINE d == <<item>>
      <4>1. d \in Seq(S) /\ Len(d) = 1 /\ d[1] = item
        OBVIOUS
      <4>2. c = d \o b
        OBVIOUS
      <4> HIDE DEF c, d
      <4>3. /\ c \in Seq(S) /\ Len(c) = 1 + Len(b) /\ c[1] = item
            /\ \A i \in 1..Len(b) : c[1 + i] = b[i]
        <5>0. d \in Seq(S) /\ b \in Seq(S)
          BY <3>4, <4>1
        <5>a. d \o b \in Seq(S) /\ Len(d \o b) = Len(d) + Len(b)
          BY <5>0, ConcatFacts
        <5>b. \A i \in 1..Len(d) : (d \o b)[i] = d[i]
          BY <5>0, ConcatFacts
        <5>c. \A i \in 1..Len(b) : (d \o b)[Len(d) + i] = b[i]
          BY <5>0, ConcatFacts
        <5>1. /\ c \in Seq(S) /\ Len(c) = Len(d) + Len(b)
              /\ \A i \in 1..Len(d) : c[i] = d[i]
              /\ \A i \in 1..Len(b) : c[Len(d) + i] = b[i]
          BY <4>2, <5>a, <5>b, <5>c
        <5>2. 1 \in 1..Len(d)
          BY <4>1
        <5> QED
          BY <4>1, <5>1, <5>2
      <4>4. ASSUME NEW i \in 2..(Len(q) - k + 2) PROVE c[i] = b[i - 1]
        <5>1. i - 1 \in 1..Len(b) /\ 1 + (i - 1) = i
          BY <1>0, <3>1, <3>4
        <5> QED
          BY <4>3, <5>1
      <4> QED
        BY <1>0, <3>1, <3>4, <4>3, <4>4
    <3>6. t = a \o c
      BY <3>2, <3>3, <3>4
    <3> HIDE DEF c
    <3>7. /\ t \in Seq(S) /\ DOMAIN t = 1..(Len(q) + 1)
          /\ \A i \in 1..Len(a) : t[i] = a[i]
          /\ \A i \in 1..Len(c) : t[Len(a) + i] = c[i]
      <4>1. Len(a) + Len(c) = Len(q) + 1
        BY <1>0, <3>1, <3>3, <3>5
      <4>2. a \in Seq(S) /\ c \in Seq(S)
        BY <3>3, <3>5
      <4>3. /\ t \in Seq(S) /\ DOMAIN t = 1..(Len(a) + Len(c))
            /\ \A i \in 1..Len(a) : t[i] = a[i]
            /\ \A i \in 1..Len(c) : t[Len(a) + i] = c[i]
        BY ONLY <3>6, <4>2, ConcatFacts
      <4> QED
        BY ONLY <4>1, <4>3
    <3>8. ASSUME NEW i \in 1..(Len(q) + 1)
          PROVE  t[i] = IF i < k THEN q[i] ELSE IF i = k THEN item ELSE q[i - 1]
      <4>1. CASE i < k
        BY <1>0, <3>1, <3>3, <3>7, <4>1
      <4>2. CASE i >= k
        <5>1. i - (k - 1) \in 1..Len(c) /\ Len(a) + (i - (k - 1)) = i
          BY <1>0, <3>1, <3>3, <3>5, <4>2
        <5>2. t[i] = c[i - (k - 1)]
          BY <3>7, <5>1
        <5>3. CASE i = k
          BY <1>0, <3>1, <3>5, <5>2, <5>3
        <5>4. CASE i > k
          <6>1. /\ i - (k - 1) \in 2..(Len(q) - k + 2)
                /\ i - (k - 1) - 1 \in 1..(Len(q) - k + 1)
                /\ k + (i - (k - 1) - 1) - 1 = i - 1
            BY <1>0, <3>1, <5>4
          <6>2. c[i - (k - 1)] = b[i - (k - 1) - 1]
            BY <3>5, <6>1
          <6>3. b[i - (k - 1) - 1] = q[i - 1]
            BY <3>4, <6>1
          <6> QED
            BY <1>0, <3>1, <5>2, <5>4, <6>2, <6>3
        <5> QED
          BY <1>0, <3>1, <4>2, <5>3, <5>4
      <4> QED
        BY <1>0, <3>1, <4>1, <4>2
    <3>9. k \in 1..(Len(q) + 1)
      BY <1>0, <3>1
    <3> QED
      BY <3>7, <3>8, <3>9
  <2> QED
    BY <2>1, <2>2
<1> HIDE DEF t, notLess
<1>2. ASSUME NEW x PROVE x \in ToSet(t) <=> x \in ToSet(q) \/ x = item
  <2>1. ASSUME NEW i \in DOMAIN t, t[i] = x PROVE x \in ToSet(q) \/ x = item
    <3>1. CASE i < k
      BY <1>0, <1>1, <2>1, <3>1 DEF ToSet
    <3>2. CASE i > k
      <4>1. i - 1 \in DOMAIN q /\ q[i - 1] = x
        BY <1>0, <1>1, <2>1, <3>2
      <4> QED
        BY <4>1 DEF ToSet
    <3>3. CASE i = k
      BY <1>1, <2>1, <3>3
    <3> QED
      BY <1>1, <3>1, <3>2, <3>3
  <2>2. ASSUME NEW j \in DOMAIN q, q[j] = x PROVE x \in ToSet(t)
    <3>1. CASE j < k
      <4>1. j \in DOMAIN t /\ t[j] = x
        BY <1>0, <1>1, <2>2, <3>1
      <4> QED
        BY <4>1 DEF ToSet
    <3>2. CASE j >= k
      <4>1. j + 1 \in DOMAIN t /\ t[j + 1] = x
        BY <1>0, <1>1, <2>2, <3>2
      <4> QED
        BY <4>1 DEF ToSet
    <3> QED
      BY <1>0, <1>1, <3>1, <3>2
  <2>3. t[k] = item /\ k \in DOMAIN t
    BY <1>1
  <2>4. item \in ToSet(t)
    BY <2>3 DEF ToSet
  <2> QED
    BY <2>1, <2>2, <2>4 DEF ToSet
<1>3. Injective(t)
  <2> SUFFICES ASSUME NEW i \in DOMAIN t, NEW j \in DOMAIN t, t[i] = t[j]
               PROVE  i = j
    BY DEF Injective
  <2>1. \A x \in DOMAIN q : q[x] # item
    BY DEF ToSet
  <2> DEFINE down(x) == IF x < k THEN x ELSE x - 1
  <2>2. \A x \in DOMAIN t : x # k => down(x) \in DOMAIN q /\ q[down(x)] = t[x]
    BY <1>0, <1>1
  <2>3. t[k] = item
    BY <1>1
  <2>4. CASE i = k
    BY <2>1, <2>2, <2>3, <2>4
  <2>5. CASE j = k
    BY <2>1, <2>2, <2>3, <2>5
  <2>6. CASE i # k /\ j # k
    <3>1. down(i) = down(j)
      BY <2>2, <2>6 DEF Injective
    <3> QED
      BY <1>0, <1>1, <2>6, <3>1
  <2> QED
    BY <2>4, <2>5, <2>6
<1>4. ToSet(t) = ToSet(q) \cup {item}
  BY <1>2
<1> QED
  BY <1>1, <1>3, <1>4 DEF t

(* The hole found is in the index and large enough; none is found only if  *)
(* none is large enough.                                                   *)
LEMMA FindFacts ==
    ASSUME NEW S, NEW q \in Seq(S), NEW m, NEW n \in Nat, NEW align \in BOOLEAN,
           NEW i, i = FindSmallestHole(q, m, n, align), n < Words \div 2,
           \A j \in DOMAIN q : Size(m, q[j]) < Words \div 2
    PROVE  /\ i # 0 => i \in DOMAIN q /\ Size(m, q[i]) >= n
           /\ i = 0 => \A j \in DOMAIN q : ~(Size(m, q[j]) >= n)
<1> DEFINE fits(size) == IF align THEN Signed(size) >= Signed(n) ELSE size >= n
           fit == {j \in DOMAIN q : fits(Size(m, q[j]))}
<1>0. \A j \in DOMAIN q : fits(Size(m, q[j])) <=> Size(m, q[j]) >= n
  BY DEF Signed
<1>1. fit \subseteq Nat /\ DOMAIN q = 1..Len(q)
  OBVIOUS
<1>2. CASE fit = {}
  <2>1. i = 0
    BY <1>2 DEF FindSmallestHole
  <2> QED
    BY <1>0, <1>2, <2>1
<1>3. CASE fit # {}
  <2>1. i = Min(fit)
    BY <1>3 DEF FindSmallestHole
  <2>2. i \in fit
    BY <1>1, <1>3, <2>1, MinFacts
  <2> QED
    BY <1>0, <1>1, <2>2
<1> QED
  BY <1>2, <1>3

-----------------------------------------------------------------------------
(* Memory.                                                                 *)

(* The constants, and the bounds on them that the proofs use.              *)
LEMMA ConstantFacts ==
    /\ Overhead = 5 /\ HeaderSize = 3 /\ FooterSize = 2
    /\ PageWords \in Nat /\ PageWords >= 5 /\ MinWords \in Nat /\ MaxWords \in Nat
    /\ InitWords \in MinWords..MaxWords /\ MaxWords < Words /\ MinWords >= 10
    /\ Words \in Nat
    /\ Address = -2..(MaxWords - 1)
    /\ Sizes \subseteq Nat \ {0}
    /\ MaxWords < Words \div 2 /\ \A n \in Sizes : n + Overhead < Words \div 2
<1>1. /\ Words \in Nat /\ StartWord \in Nat /\ Words \div 2 \in Nat
      /\ Words - StartWord < Words \div 2 /\ Words \div 2 < Words
  BY SMT DEF Words, StartWord
<1>2. /\ Overhead = 5 /\ HeaderSize = 3 /\ FooterSize = 2
      /\ Address = -2..(MaxWords - 1)
  BY SMT DEF Overhead, HeaderSize, FooterSize, Address
<1>3. /\ {PageWords, InitWords, MinWords, MaxWords} \subseteq Nat
      /\ Overhead <= PageWords
      /\ 2 * PageWords <= MinWords /\ MinWords <= InitWords /\ InitWords <= MaxWords
      /\ MaxWords <= Words - StartWord
      /\ Sizes \subseteq 1..(Words \div 2 - Overhead - 1)
  BY KHeapAssumption
<1> HIDE DEF Words, StartWord, Overhead, HeaderSize, FooterSize
<1>4. Sizes \subseteq Nat \ {0} /\ \A n \in Sizes : n + Overhead < Words \div 2
  BY <1>1, <1>2, <1>3, SMT
<1>5. MaxWords < Words \div 2 /\ MaxWords < Words
  BY <1>1, <1>3, SMT
<1> QED
  BY <1>1, <1>2, <1>3, <1>4, <1>5, SMT

(* An address of the heap's memory does not wrap.                          *)
LEMMA WrappedFacts ==
    ASSUME NEW a \in Nat, a < MaxWords
    PROVE  Wrapped(a) = a
<1>1. MaxWords \in Nat /\ MaxWords <= Words - StartWord
  BY KHeapAssumption
<1> QED
  BY <1>1, SMT DEF Wrapped, Words, StartWord

(* Differences that are not negative are exact.                            *)
LEMMA MinusFacts ==
    ASSUME NEW a \in Int, NEW b \in Int, b <= a, a - b < Words
    PROVE  Minus(a, b) = a - b
  BY SMT DEF Minus, Words

(* Sums that fit the address space are exact.                              *)
LEMMA PlusFacts ==
    ASSUME NEW a \in Nat, NEW b \in Nat, a + b < Words
    PROVE  Plus(a, b) = a + b
  BY SMT DEF Plus, Words

(* The header of a part inside of the heap's memory is read as it is.      *)
LEMMA HeaderFacts ==
    ASSUME NEW m, NEW p \in Nat, p + 2 < MaxWords
    PROVE  Size(m, p) = m[p + 2] /\ Hole(m, p) = m[p + 1]
<1>1. p + 2 \in Address /\ p + 1 \in Address
  BY ConstantFacts
<1> QED
  BY <1>1 DEF Size, Hole, Word

(* A header is three words.                                                *)
LEMMA PutHeaderFacts ==
    ASSUME NEW m \in [Address -> Int], NEW h \in Int, NEW flag \in Int, NEW size \in Int
    PROVE  /\ PutHeader(m, h, flag, size) \in [Address -> Int]
           /\ \A a \in Address : PutHeader(m, h, flag, size)[a] =
                 IF a = h THEN Magic ELSE IF a = h + 1 THEN flag
                 ELSE IF a = h + 2 THEN size ELSE m[a]
<1>1. Address \subseteq Int /\ Magic \in Int
  BY DEF Address, Magic
<1>2. ASSUME NEW a \in Address
      PROVE  PutHeader(m, h, flag, size)[a] =
                 IF a = h THEN Magic ELSE IF a = h + 1 THEN flag
                 ELSE IF a = h + 2 THEN size ELSE m[a]
  BY <1>1 DEF PutHeader
<1>3. \A a \in Address : PutHeader(m, h, flag, size)[a] \in Int
  BY <1>1, <1>2
<1>4. PutHeader(m, h, flag, size) \in [Address -> Int]
  BY <1>3 DEF PutHeader
<1> QED
  BY <1>2, <1>4

(* A size is one word.                                                     *)
LEMMA PutSizeFacts ==
    ASSUME NEW m \in [Address -> Int], NEW h \in Int, NEW size \in Int
    PROVE  /\ PutSize(m, h, size) \in [Address -> Int]
           /\ \A a \in Address :
                 PutSize(m, h, size)[a] = IF a = h + 2 THEN size ELSE m[a]
  BY DEF PutSize

(* A footer is two words.                                                  *)
LEMMA PutFooterFacts ==
    ASSUME NEW m \in [Address -> Int], NEW f \in Int, NEW h \in Int
    PROVE  /\ PutFooter(m, f, h) \in [Address -> Int]
           /\ \A a \in Address : PutFooter(m, f, h)[a] =
                 IF a = f THEN Magic ELSE IF a = f + 1 THEN h ELSE m[a]
<1>1. Address \subseteq Int /\ Magic \in Int
  BY DEF Address, Magic
<1>2. ASSUME NEW a \in Address
      PROVE  PutFooter(m, f, h)[a] =
                 IF a = f THEN Magic ELSE IF a = f + 1 THEN h ELSE m[a]
  BY <1>1 DEF PutFooter
<1>3. \A a \in Address : PutFooter(m, f, h)[a] \in Int
  BY <1>1, <1>2
<1>4. PutFooter(m, f, h) \in [Address -> Int]
  BY <1>3 DEF PutFooter
<1> QED
  BY <1>2, <1>4

(* What a layout says of the size and the place of a part.                 *)
LEMMA LayoutFacts ==
    ASSUME NEW m, NEW H, NEW B, NEW l, Layout(m, H, B, l), NEW p \in H \cup B
    PROVE  /\ p \in Nat /\ Size(m, p) \in Nat /\ Size(m, p) >= 5
           /\ End(m, p) <= l /\ l <= MaxWords /\ l \in Nat
           /\ End(m, p) \in H \cup B \cup {l}
           /\ Size(m, p) = m[p + 2] /\ Hole(m, p) = m[p + 1]
           /\ \A q \in H \cup B : q \in Nat /\ (p < q => End(m, p) <= q)
           /\ p # 0 => \E q \in H \cup B : End(m, q) = p
<1> DEFINE s == Sized(m, H \cup B)
<1>1. DOMAIN s = H \cup B /\ \A q \in H \cup B : s[q] = Size(m, q)
  BY DEF Sized
<1>2. Tiling(s, l) /\ l \in Nat /\ l <= MaxWords
  BY ConstantFacts DEF Layout
<1> HIDE DEF s
<1>3. /\ p \in Nat /\ Size(m, p) \in Nat /\ Size(m, p) >= 5
      /\ p + Size(m, p) <= l /\ p + Size(m, p) \in H \cup B \cup {l}
      /\ \A q \in H \cup B : q \in Nat /\ (p < q => p + Size(m, p) <= q)
  BY <1>1, <1>2, ConstantFacts DEF Tiling
<1>4. p # 0 => \E q \in H \cup B : q + Size(m, q) = p
  BY <1>1, <1>2 DEF Tiling
<1>5. p + 2 < MaxWords
  BY <1>2, <1>3, ConstantFacts
<1> QED
  BY <1>2, <1>3, <1>4, <1>5, HeaderFacts DEF End

(* A layout from its parts.                                                *)
LEMMA LayoutIntro ==
    ASSUME NEW n \in [Address -> Int], NEW H, NEW B, NEW l \in MinWords..MaxWords,
           n[-2] # Magic, H \cap B = {},
           NEW s, Tiling(s, l), DOMAIN s = H \cup B,
           \A p \in H \cup B : Size(n, p) = s[p],
           \A p \in H : HoleOK(n, l, p),
           \A p \in B : BlockOK(n, p)
    PROVE  Layout(n, H, B, l)
<1> DEFINE t == Sized(n, H \cup B)
<1>1. DOMAIN t = DOMAIN s /\ \A p \in DOMAIN s : t[p] = s[p]
  BY DEF Sized
<1> HIDE DEF t
<1>2. Tiling(t, l)
  BY <1>1 DEF Tiling
<1> QED
  BY <1>2 DEF Layout, t

(* A part whose words are not written stays what it is.                    *)
LEMMA PartFrame ==
    ASSUME NEW m \in [Address -> Int], NEW n \in [Address -> Int], NEW p \in Nat,
           Size(m, p) \in Nat, Size(m, p) >= 5, End(m, p) <= MaxWords,
           \A a \in Address : p <= a /\ a < End(m, p) => n[a] = m[a]
    PROVE  /\ Size(n, p) = Size(m, p)
           /\ BlockOK(m, p) => BlockOK(n, p)
           /\ \A l, k : HoleOK(m, l, p) /\ (End(m, p) < k => End(m, p) < l)
                           => HoleOK(n, k, p)
<1> DEFINE e == End(m, p)
<1>1. e \in Nat /\ p + 5 <= e /\ e <= MaxWords
  BY DEF End
<1>2. \A a \in Int : p <= a /\ a < e => a \in Address
  BY <1>1, ConstantFacts
<1>3. /\ Size(m, p) = m[p + 2] /\ Hole(m, p) = m[p + 1]
      /\ Size(n, p) = n[p + 2] /\ Hole(n, p) = n[p + 1]
  <2>1. p + 2 < MaxWords
    BY <1>1, ConstantFacts
  <2> QED
    BY <2>1, HeaderFacts
<1>4. \A a \in Int : p <= a /\ a < e => n[a] = m[a]
  BY <1>2
<1>5. /\ n[p] = m[p] /\ n[p + 1] = m[p + 1] /\ n[p + 2] = m[p + 2]
      /\ n[e - 1] = m[e - 1] /\ n[e - 2] = m[e - 2]
  BY <1>1, <1>4
<1>6. Size(n, p) = Size(m, p) /\ Hole(n, p) = Hole(m, p)
  BY <1>3, <1>5
<1>7. End(n, p) = e
  BY <1>6 DEF End
<1>8. ASSUME NEW x \in Int, p <= x, x + 5 <= e
      PROVE  Hole(n, x) = Hole(m, x)
  <2>1. x \in Nat /\ x + 2 < MaxWords /\ n[x + 1] = m[x + 1]
    BY <1>1, <1>4, <1>8, ConstantFacts
  <2> QED
    BY <2>1, HeaderFacts
<1>9. m[e - 1] \in Int
  <2>1. e - 1 \in Address
    BY <1>1, <1>2
  <2> QED
    BY <2>1
<1> HIDE DEF e
<1>10. BlockOK(m, p) => BlockOK(n, p)
  BY <1>5, <1>6, <1>7 DEF BlockOK, e
<1>11. ASSUME NEW l, NEW k, HoleOK(m, l, p), e < k => e < l
       PROVE  HoleOK(n, k, p)
  <2>1. n[p] = Magic /\ Hole(n, p) = 1
    BY <1>5, <1>6, <1>11 DEF HoleOK
  <2>2. ASSUME e < k
        PROVE  /\ n[e - 2] = Magic
               /\ n[e - 1] = p \/ (p + Overhead <= n[e - 1] /\ n[e - 1] + Overhead <= e)
               /\ Hole(n, n[e - 1]) = 1
    <3>1. /\ m[e - 2] = Magic
          /\ m[e - 1] = p \/ (p + Overhead <= m[e - 1] /\ m[e - 1] + Overhead <= e)
          /\ Hole(m, m[e - 1]) = 1
      BY <1>11, <2>2 DEF HoleOK, e
    <3>2. p <= m[e - 1] /\ m[e - 1] + 5 <= e
      <4> DEFINE x == m[e - 1]
      <4>1. x \in Int /\ (x = p \/ (p + 5 <= x /\ x + 5 <= e))
        BY <1>9, <3>1, ConstantFacts
      <4> HIDE DEF x
      <4>2. p <= x /\ x + 5 <= e
        BY ONLY <1>1, <4>1, p \in Nat
      <4> QED
        BY <4>2 DEF x
    <3> QED
      BY <1>5, <1>8, <1>9, <3>1, <3>2
  <2> QED
    BY <1>7, <2>1, <2>2 DEF HoleOK
<1> QED
  BY <1>6, <1>10, <1>11 DEF e

-----------------------------------------------------------------------------
(* alloc.                                                                  *)

(***************************************************************************)
(* A hole at pos is split into a hole of f words, a block of ns words and  *)
(* a hole of k words; there is no hole where f or k is 0.                  *)
(***************************************************************************)
Cut(size, l, pos, f, ns, k) ==
    /\ pos \in Nat /\ f \in Nat /\ ns \in Nat /\ k \in Nat /\ l \in Nat
    /\ f = 0 \/ f >= 5
    /\ k = 0 \/ k >= 5
    /\ ns >= 5 /\ size = f + ns + k /\ pos + f + ns + k <= l

(* The holes after such a split.                                           *)
SplitHoles(H, pos, f, behind, k) ==
    {p \in H : p = pos => f # 0} \cup {x \in {behind} : k # 0}

(* The memory Placed leaves after such a split.                            *)
PlacedMem(m, pos, f, ns, k, l) ==
    LET block == pos + f
        behind == block + ns
        m1 == IF f # 0
              THEN PutFooter(PutHeader(m, pos, 1, f), block - FooterSize, pos)
              ELSE m
        m2 == PutFooter(PutHeader(m1, block, 0, ns), behind - FooterSize, block)
        m3 == PutHeader(m2, behind, 1, k)
        foot == behind + k - FooterSize
        m4 == IF foot < l THEN PutFooter(m3, foot, behind) ELSE m3
    IN  IF k > 0 THEN m4 ELSE m2

(***************************************************************************)
(* It has the headers and footers of the parts, and nothing else than them *)
(* and the interior of the block is written.                               *)
(***************************************************************************)
PlacedWords(n, m, pos, f, ns, k) ==
    LET block == pos + f
        behind == block + ns
    IN  /\ n \in [Address -> Int]
        /\ \A a \in Address : a < pos \/ a >= pos + f + ns + k => n[a] = m[a]
        /\ f # 0 => /\ n[pos] = Magic /\ n[pos + 1] = 1 /\ n[pos + 2] = f
                    /\ n[block - 2] = Magic /\ n[block - 1] = pos
        /\ n[block] = Magic /\ n[block + 1] = 0 /\ n[block + 2] = ns
        /\ n[behind - 2] = Magic /\ n[behind - 1] = block
        /\ k # 0 => /\ n[behind] = Magic /\ n[behind + 1] = 1 /\ n[behind + 2] = k
                    /\ n[behind + k - 2] = Magic /\ n[behind + k - 1] = behind

(* alloc's writes, and the caller's own, lead to these words.              *)
LEMMA PlacedMemFacts ==
    ASSUME NEW m \in [Address -> Int], NEW size, NEW l, NEW pos, NEW f, NEW ns, NEW k,
           Cut(size, l, pos, f, ns, k), l <= MaxWords,
           NEW asked \in Nat, ns >= asked + 5,
           NEW n, n = Filled(PlacedMem(m, pos, f, ns, k, l), <<pos + f + 3, asked>>)
    PROVE  PlacedWords(n, m, pos, f, ns, k)
<1>z. /\ pos \in Nat /\ f \in Nat /\ ns \in Nat /\ k \in Nat /\ l \in Nat
      /\ f = 0 \/ f >= 5
      /\ k = 0 \/ k >= 5
      /\ ns >= 5 /\ pos + f + ns + k <= l
  BY DEF Cut
<1> USE <1>z
<1> DEFINE block == pos + f
           behind == block + ns
<1>e. block = pos + f /\ behind = block + ns
  OBVIOUS
<1> HIDE DEF block, behind
<1> USE <1>e
<1>c. /\ Overhead = 5 /\ HeaderSize = 3 /\ FooterSize = 2 /\ MaxWords \in Nat
      /\ Address = -2..(MaxWords - 1) 
  BY ConstantFacts
<1>i. block \in Nat /\ behind \in Nat
  OBVIOUS
<1>j. /\ pos \in Int /\ f \in Int /\ ns \in Int /\ k \in Int /\ block \in Int
      /\ behind \in Int /\ 0 \in Int /\ 1 \in Int
  BY <1>i
<1> DEFINE A0 == PutHeader(m, pos, 1, f)
           A1 == IF f # 0 THEN PutFooter(A0, block - 2, pos) ELSE m
           B0 == PutHeader(A1, block, 0, ns)
           B1 == PutFooter(B0, behind - 2, block)
           C0 == PutHeader(B1, behind, 1, k)
           C1 == PutFooter(C0, behind + k - 2, behind)
           w == IF k > 0 THEN C1 ELSE B1
<1>w. w = PlacedMem(m, pos, f, ns, k, l)
  <2>1. behind + k - 2 < l
    BY <1>i
  <2> QED
    BY <2>1, <1>c DEF PlacedMem
<1>1. /\ A0 \in [Address -> Int]
      /\ \A a \in Address : A0[a] =
            IF a = pos THEN Magic ELSE IF a = pos + 1 THEN 1
            ELSE IF a = pos + 2 THEN f ELSE m[a]
  <2>1. m \in [Address -> Int]
    OBVIOUS
  <2> QED
    BY ONLY <2>1, <1>j, PutHeaderFacts
<1> HIDE DEF A0
<1>2. /\ A1 \in [Address -> Int]
      /\ f = 0 => A1 = m
      /\ f # 0 => \A a \in Address : A1[a] =
            IF a = block - 2 THEN Magic ELSE IF a = block - 1 THEN pos ELSE A0[a]
  <2>1. block - 2 \in Int /\ (block - 2) + 1 = block - 1
    BY <1>i
  <2> QED
    BY <1>1, <2>1, PutFooterFacts
<1> HIDE DEF A1
<1>3. /\ B0 \in [Address -> Int]
      /\ \A a \in Address : B0[a] =
            IF a = block THEN Magic ELSE IF a = block + 1 THEN 0
            ELSE IF a = block + 2 THEN ns ELSE A1[a]
  BY <1>j, <1>2, PutHeaderFacts
<1> HIDE DEF B0
<1>4. /\ B1 \in [Address -> Int]
      /\ \A a \in Address : B1[a] =
            IF a = behind - 2 THEN Magic ELSE IF a = behind - 1 THEN block ELSE B0[a]
  <2>1. behind - 2 \in Int /\ (behind - 2) + 1 = behind - 1
    BY <1>i
  <2> QED
    BY <1>i, <1>3, <2>1, PutFooterFacts
<1> HIDE DEF B1
<1>5. /\ C0 \in [Address -> Int]
      /\ \A a \in Address : C0[a] =
            IF a = behind THEN Magic ELSE IF a = behind + 1 THEN 1
            ELSE IF a = behind + 2 THEN k ELSE B1[a]
  BY <1>j, <1>4, PutHeaderFacts
<1> HIDE DEF C0
<1>6. /\ C1 \in [Address -> Int]
      /\ \A a \in Address : C1[a] =
            IF a = behind + k - 2 THEN Magic
            ELSE IF a = behind + k - 1 THEN behind ELSE C0[a]
  <2>1. behind + k - 2 \in Int /\ (behind + k - 2) + 1 = behind + k - 1
    BY <1>i
  <2> QED
    BY <1>i, <1>5, <2>1, PutFooterFacts
<1> HIDE DEF C1
<1>7. /\ w \in [Address -> Int]
      /\ k = 0 => w = B1
      /\ k # 0 => w = C1
  BY <1>4, <1>6
<1> HIDE DEF w
<1>8. /\ n \in [Address -> Int]
      /\ \A a \in Address : n[a] =
            IF block + 3 <= a /\ a < block + 3 + asked THEN 0 ELSE w[a]
  BY <1>c, <1>w, <1>7 DEF Filled
<1>9. ASSUME NEW a \in Address, a < pos \/ a >= pos + f + ns + k
      PROVE  n[a] = m[a]
  <2>0. a \in Int
    BY <1>c
  <2>1. n[a] = w[a]
    BY <1>i, <1>8, <1>9, <2>0
  <2>2. B1[a] = B0[a] /\ B0[a] = A1[a]
    BY <1>i, <1>3, <1>4, <1>9, <2>0
  <2>3. A1[a] = m[a]
    BY <1>i, <1>1, <1>2, <1>9, <2>0
  <2>4. k # 0 => C1[a] = C0[a] /\ C0[a] = B1[a]
    BY <1>i, <1>5, <1>6, <1>9, <2>0
  <2> QED
    BY <1>7, <2>1, <2>2, <2>3, <2>4
<1>10. ASSUME NEW a \in Int, a \in Address, a < behind, a < block + 3 \/ a >= block + 3 + asked
       PROVE  n[a] = B1[a]
  <2>1. n[a] = w[a]
    BY <1>i, <1>8, <1>10
  <2>2. k # 0 => C1[a] = C0[a] /\ C0[a] = B1[a]
    BY <1>i, <1>5, <1>6, <1>10
  <2> QED
    BY <1>7, <2>1, <2>2
<1>11. /\ n[block] = Magic /\ n[block + 1] = 0 /\ n[block + 2] = ns
       /\ n[behind - 2] = Magic /\ n[behind - 1] = block
  <2>1. {block, block + 1, block + 2, behind - 2, behind - 1} \subseteq Address
    BY <1>c, <1>i
  <2>2. n[block] = B1[block] /\ n[block + 1] = B1[block + 1] /\ n[block + 2] = B1[block + 2]
    BY <1>i, <1>10, <2>1
  <2>3. n[behind - 2] = B1[behind - 2] /\ n[behind - 1] = B1[behind - 1]
    BY <1>i, <1>10, <2>1
  <2>4. B1[behind - 2] = Magic /\ B1[behind - 1] = block
    BY <1>i, <1>4, <2>1
  <2>5. /\ B1[block] = B0[block] /\ B1[block + 1] = B0[block + 1]
        /\ B1[block + 2] = B0[block + 2]
    BY <1>i, <1>4, <2>1
  <2>6. B0[block] = Magic /\ B0[block + 1] = 0 /\ B0[block + 2] = ns
    BY <1>i, <1>3, <2>1
  <2> QED
    BY <2>2, <2>3, <2>4, <2>5, <2>6
<1>12. ASSUME f # 0
       PROVE  /\ n[pos] = Magic /\ n[pos + 1] = 1 /\ n[pos + 2] = f
              /\ n[block - 2] = Magic /\ n[block - 1] = pos
  <2>1. {pos, pos + 1, pos + 2, block - 2, block - 1} \subseteq Address
    BY <1>c, <1>i, <1>12
  <2>2. ASSUME NEW a \in Int, a \in Address, pos <= a, a < block
        PROVE  n[a] = A1[a]
    <3>1. n[a] = B1[a]
      BY <1>i, <1>10, <2>2
    <3> QED
      BY <1>i, <1>3, <1>4, <2>2, <3>1
  <2>3. /\ n[pos] = A1[pos] /\ n[pos + 1] = A1[pos + 1] /\ n[pos + 2] = A1[pos + 2]
        /\ n[block - 2] = A1[block - 2] /\ n[block - 1] = A1[block - 1]
    BY <1>i, <1>12, <2>1, <2>2
  <2>4. A1[block - 2] = Magic /\ A1[block - 1] = pos
    BY <1>i, <1>2, <1>12, <2>1
  <2>5. A1[pos] = A0[pos] /\ A1[pos + 1] = A0[pos + 1] /\ A1[pos + 2] = A0[pos + 2]
    BY <1>i, <1>2, <1>12, <2>1
  <2>6. A0[pos] = Magic /\ A0[pos + 1] = 1 /\ A0[pos + 2] = f
    BY <1>1, <2>1
  <2> QED
    BY <2>3, <2>4, <2>5, <2>6
<1>13. ASSUME k # 0
       PROVE  /\ n[behind] = Magic /\ n[behind + 1] = 1 /\ n[behind + 2] = k
              /\ n[behind + k - 2] = Magic /\ n[behind + k - 1] = behind
  <2>1. {behind, behind + 1, behind + 2, behind + k - 2, behind + k - 1} \subseteq Address
    BY <1>c, <1>i, <1>13
  <2>2. \A a \in Int : a \in Address /\ behind <= a => n[a] = C1[a]
    BY <1>i, <1>7, <1>8, <1>13
  <2>3. /\ n[behind] = C1[behind] /\ n[behind + 1] = C1[behind + 1]
        /\ n[behind + 2] = C1[behind + 2]
        /\ n[behind + k - 2] = C1[behind + k - 2] /\ n[behind + k - 1] = C1[behind + k - 1]
    BY <1>i, <1>13, <2>1, <2>2
  <2>4. C1[behind + k - 2] = Magic /\ C1[behind + k - 1] = behind
    BY <1>i, <1>6, <1>13, <2>1
  <2>5. /\ C1[behind] = C0[behind] /\ C1[behind + 1] = C0[behind + 1]
        /\ C1[behind + 2] = C0[behind + 2]
    BY <1>i, <1>6, <1>13, <2>1
  <2>6. C0[behind] = Magic /\ C0[behind + 1] = 1 /\ C0[behind + 2] = k
    BY <1>i, <1>5, <2>1
  <2> QED
    BY <2>3, <2>4, <2>5, <2>6
<1> QED
  BY <1>8, <1>9, <1>11, <1>12, <1>13 DEF PlacedWords

(* The tiling after the split.                                             *)
PlacedTile(t, s, l, pos, f, ns, k) ==
    LET block == pos + f
        behind == block + ns
    IN  /\ Tiling(t, l)
        /\ DOMAIN t = DOMAIN s \cup {block} \cup {x \in {behind} : k # 0}
        /\ t[block] = ns /\ (f # 0 => t[pos] = f) /\ (k # 0 => t[behind] = k)
        /\ \A p \in DOMAIN s : p # pos =>
              /\ t[p] = s[p] /\ p # block
              /\ p + s[p] <= pos \/ p >= pos + s[pos]

(* A hole that is cut as alloc cuts it leaves a tiling.                    *)
LEMMA PlacedTiling ==
    ASSUME NEW s, NEW l, NEW pos \in DOMAIN s, NEW f, NEW ns, NEW k, NEW size,
           Cut(size, l, pos, f, ns, k), Tiling(s, l), s[pos] = size
    PROVE  \E t : PlacedTile(t, s, l, pos, f, ns, k)
<1>z. /\ pos \in Nat /\ f \in Nat /\ ns \in Nat /\ k \in Nat /\ l \in Nat
      /\ f = 0 \/ f >= 5
      /\ k = 0 \/ k >= 5
      /\ ns >= 5 /\ s[pos] = f + ns + k /\ pos + f + ns + k <= l
  BY DEF Cut
<1> USE <1>z
<1> DEFINE block == pos + f
           behind == block + ns
<1>e. block = pos + f /\ behind = block + ns
  OBVIOUS
<1> HIDE DEF block, behind
<1> USE <1>e
<1>0. /\ Overhead = 5 /\ pos \in Nat /\ block \in Nat /\ behind \in Nat
      /\ \A p \in DOMAIN s : p \in Nat /\ s[p] \in Nat /\ s[p] >= 5
  <2>1. \A p \in DOMAIN s : p \in Nat /\ s[p] \in Nat /\ s[p] >= Overhead
    BY DEF Tiling
  <2>2. Overhead = 5
    BY ConstantFacts
  <2>3. block \in Nat /\ behind \in Nat
    OBVIOUS
  <2> QED
    BY <2>1, <2>2, <2>3
<1>1. \A p \in DOMAIN s : p # pos => p + s[p] <= pos \/ p >= pos + s[pos]
  <2>1. \A p, q \in DOMAIN s : p < q => p + s[p] <= q
    BY DEF Tiling
  <2> QED
    BY ONLY <1>0, <2>1, pos \in DOMAIN s
<1>2. \A p \in DOMAIN s : p # pos => p # block /\ (k # 0 => p # behind)
  BY <1>0, <1>1
<1>3. PICK u : /\ Tiling(u, l) /\ DOMAIN u = DOMAIN s \cup {block}
               /\ u[block] = ns + k /\ (f # 0 => u[pos] = f)
               /\ \A p \in DOMAIN s : p # pos => u[p] = s[p]
  <2>1. CASE f = 0
    <3>0. block = pos
      BY <2>1
    <3>a. f + ns + k = ns + k
      BY <2>1
    <3>b. DOMAIN s = DOMAIN s \cup {block}
      BY <3>0
    <3>1. s[block] = ns + k /\ DOMAIN s = DOMAIN s \cup {block}
      BY <3>0, <3>a, <3>b
    <3>2. /\ Tiling(s, l) /\ DOMAIN s = DOMAIN s \cup {block}
          /\ s[block] = ns + k /\ (f # 0 => s[pos] = f)
          /\ \A p \in DOMAIN s : p # pos => s[p] = s[p]
      BY <2>1, <3>1
    <3> QED
      BY <3>2
  <2>2. CASE f # 0
    <3> DEFINE u == Split(s, pos, block)
    <3>1. Tiling(u, l)
      BY <1>0, <2>2, SplitTiling
    <3>2. /\ DOMAIN u = DOMAIN s \cup {block}
          /\ \A q \in DOMAIN u : u[q] = IF q = pos THEN block - pos
                ELSE IF q = block THEN pos + s[pos] - block ELSE s[q]
      BY DEF Split
    <3> HIDE DEF u
    <3>3. u[block] = ns + k /\ u[pos] = f
      BY <1>0, <2>2, <3>2
    <3> QED
      BY <1>2, <3>1, <3>2, <3>3
  <2> QED
    BY <2>1, <2>2
<1>4. CASE k = 0
  <2>1. DOMAIN u = DOMAIN s \cup {block} \cup {x \in {behind} : k # 0}
    BY <1>3, <1>4
  <2>2. u[block] = ns
    BY <1>3, <1>4
  <2>3. PlacedTile(u, s, l, pos, f, ns, k)
    BY <1>1, <1>2, <1>3, <1>4, <2>1, <2>2 DEF PlacedTile
  <2> QED
    BY <2>3
<1>5. CASE k # 0
  <2> DEFINE t == Split(u, block, behind)
  <2>1. Tiling(t, l)
    BY <1>0, <1>3, <1>5, SplitTiling
  <2>2. /\ DOMAIN t = DOMAIN u \cup {behind}
        /\ \A q \in DOMAIN t : t[q] = IF q = block THEN behind - block
              ELSE IF q = behind THEN block + u[block] - behind ELSE u[q]
    BY DEF Split
  <2> HIDE DEF t
  <2>3. t[block] = ns /\ t[behind] = k
    BY <1>0, <1>3, <1>5, <2>2
  <2>4. f # 0 => t[pos] = f
    BY <1>0, <1>3, <2>2
  <2>5. DOMAIN t = DOMAIN s \cup {block} \cup {x \in {behind} : k # 0}
    BY <1>3, <1>5, <2>2
  <2>6. \A p \in DOMAIN s : p # pos => t[p] = s[p]
    BY <1>2, <1>3, <1>5, <2>2
  <2>7. PlacedTile(t, s, l, pos, f, ns, k)
    BY <1>1, <1>2, <2>1, <2>3, <2>4, <2>5, <2>6 DEF PlacedTile
  <2> QED
    BY <2>7
<1> QED
  BY <1>4, <1>5

(***************************************************************************)
(* The layout after the split: the hole at pos has become a hole, a block  *)
(* and a hole.                                                             *)
(***************************************************************************)
PlacedSound(n, m, H, B, l, pos, f, ns, k) ==
    LET block == pos + f
        behind == block + ns
        H2 == SplitHoles(H, pos, f, behind, k)
    IN  /\ Layout(n, H2, B \cup {block}, l)
        /\ block \notin B /\ Size(n, block) = ns /\ block \in Nat
        /\ \A p \in B : Size(n, p) = Size(m, p)
        /\ (k # 0 => behind \notin H) /\ behind \in Nat
        /\ Apart(m, H) => Apart(n, H2)

(* alloc's writes and the caller's keep the layout, with the new block.    *)
LEMMA PlacedLayout ==
    ASSUME NEW m, NEW H, NEW B, NEW l, Layout(m, H, B, l), NEW pos \in H,
           NEW f, NEW ns, NEW k, Cut(Size(m, pos), l, pos, f, ns, k),
           NEW asked \in Nat, ns >= asked + 5,
           NEW n, n = Filled(PlacedMem(m, pos, f, ns, k, l), <<pos + f + 3, asked>>)
    PROVE  PlacedSound(n, m, H, B, l, pos, f, ns, k)
<1> DEFINE block == pos + f
           behind == block + ns
           H2 == SplitHoles(H, pos, f, behind, k)
<1>e. block = pos + f /\ behind = block + ns
  OBVIOUS
<1>h. H2 = {p \in H : p = pos => f # 0} \cup {x \in {behind} : k # 0}
  BY DEF SplitHoles
<1> HIDE DEF block, behind, H2
<1> USE <1>e, <1>h
<1> DEFINE s == Sized(m, H \cup B)
<1>0. /\ pos \in Nat /\ f \in Nat /\ ns \in Nat /\ k \in Nat /\ l \in Nat
      /\ f = 0 \/ f >= 5
      /\ k = 0 \/ k >= 5
      /\ ns >= 5 /\ Size(m, pos) = f + ns + k /\ pos + f + ns + k <= l
  BY DEF Cut
<1> USE <1>0
<1>1. /\ DOMAIN s = H \cup B /\ \A q \in H \cup B : s[q] = Size(m, q)
      /\ s[pos] = f + ns + k
  BY DEF Sized
<1>2. /\ Tiling(s, l) /\ l \in Nat /\ l \in MinWords..MaxWords /\ l <= MaxWords
      /\ m \in [Address -> Int] /\ m[-2] # Magic /\ H \cap B = {}
  BY ConstantFacts DEF Layout
<1> HIDE DEF s
<1>3. /\ pos \in Nat /\ pos + f + ns + k <= l /\ block \in Nat /\ behind \in Nat
      /\ ns >= 5 /\ pos \in DOMAIN s
  BY <1>1, <1>2, LayoutFacts DEF End
<1>4. PICK t : /\ Tiling(t, l)
               /\ DOMAIN t = DOMAIN s \cup {block} \cup {x \in {behind} : k # 0}
               /\ t[block] = ns /\ (f # 0 => t[pos] = f) /\ (k # 0 => t[behind] = k)
               /\ \A p \in DOMAIN s : p # pos =>
                     /\ t[p] = s[p] /\ p # block
                     /\ p + s[p] <= pos \/ p >= pos + s[pos]
  <2>1. s[pos] = Size(m, pos)
    BY <1>1, <1>3
  <2>2. PICK t : PlacedTile(t, s, l, pos, f, ns, k)
    BY <1>2, <1>3, <2>1, PlacedTiling
  <2> QED
    BY <2>2 DEF PlacedTile
<1>5. /\ n \in [Address -> Int]
      /\ \A a \in Address : a < pos \/ a >= pos + f + ns + k => n[a] = m[a]
      /\ f # 0 => /\ n[pos] = Magic /\ n[pos + 1] = 1 /\ n[pos + 2] = f
                  /\ n[block - 2] = Magic /\ n[block - 1] = pos
      /\ n[block] = Magic /\ n[block + 1] = 0 /\ n[block + 2] = ns
      /\ n[behind - 2] = Magic /\ n[behind - 1] = block
      /\ k # 0 => /\ n[behind] = Magic /\ n[behind + 1] = 1 /\ n[behind + 2] = k
                  /\ n[behind + k - 2] = Magic /\ n[behind + k - 1] = behind
  <2>1. PlacedWords(n, m, pos, f, ns, k)
    BY <1>2, PlacedMemFacts
  <2> QED
    BY <2>1 DEF PlacedWords
<1>6. ASSUME NEW p \in H \cup B, p # pos
      PROVE  /\ p \in Nat /\ Size(m, p) \in Nat /\ Size(m, p) >= 5
             /\ p + Size(m, p) <= pos \/ p >= pos + f + ns + k
             /\ Size(n, p) = Size(m, p)
             /\ BlockOK(m, p) => BlockOK(n, p)
             /\ HoleOK(m, l, p) => HoleOK(n, l, p)
  <2>1. /\ p \in Nat /\ Size(m, p) \in Nat /\ Size(m, p) >= 5
        /\ End(m, p) <= MaxWords /\ End(m, p) = p + Size(m, p)
    <3>1. /\ p \in Nat /\ Size(m, p) \in Nat /\ Size(m, p) >= 5 /\ End(m, p) <= l
      BY LayoutFacts
    <3>2. End(m, p) = p + Size(m, p)
      BY DEF End
    <3>3. l <= MaxWords /\ l \in Nat /\ MaxWords \in Nat
      BY <1>2, ConstantFacts
    <3> QED
      BY ONLY <3>1, <3>2, <3>3
  <2>2. p + Size(m, p) <= pos \/ p >= pos + f + ns + k
    BY <1>1, <1>3, <1>4, <1>6
  <2>3. \A a \in Address : p <= a /\ a < End(m, p) => n[a] = m[a]
    <3>1. Address \subseteq Int
      BY ConstantFacts
    <3> QED
      BY <1>3, <1>5, <2>1, <2>2, <3>1
  <2> QED
    BY <1>2, <1>5, <2>1, <2>2, <2>3, PartFrame
<1>7. Size(n, block) = ns /\ Hole(n, block) = 0
  <2>1. block + 2 < MaxWords
    BY <1>2, <1>3, ConstantFacts
  <2> QED
    BY <1>3, <1>5, <2>1, HeaderFacts
<1>8. f # 0 => Size(n, pos) = f /\ Hole(n, pos) = 1
  <2>1. f # 0 => pos + 2 < MaxWords
    BY <1>2, <1>3, ConstantFacts
  <2> QED
    BY <1>3, <1>5, <2>1, HeaderFacts
<1>9. k # 0 => Size(n, behind) = k /\ Hole(n, behind) = 1
  <2>1. k # 0 => behind + 2 < MaxWords
    BY <1>2, <1>3, ConstantFacts
  <2> QED
    BY <1>3, <1>5, <2>1, HeaderFacts
<1>10. /\ k # 0 => behind \notin H \cup B
       /\ block \notin B /\ pos \notin B /\ behind # block /\ behind # pos
       /\ f # 0 => block \notin H
       /\ f = 0 => block = pos
       /\ \A p \in H \cup B : p # pos => p # block /\ (k # 0 => p # behind)
  <2>1. behind # pos /\ behind # block /\ (f # 0 => block # pos) /\ (f = 0 => block = pos)
    BY <1>3
  <2>2. \A p \in H \cup B : p # pos => p # block /\ (k # 0 => p # behind)
    BY <1>1, <1>3, <1>4
  <2>3. pos \notin B
    BY <1>2
  <2> QED
    BY <2>1, <2>2, <2>3
<1>11. H2 \cap (B \cup {block}) = {} /\ DOMAIN t = H2 \cup (B \cup {block})
  <2>1. H2 \cap (B \cup {block}) = {}
    <3> SUFFICES ASSUME NEW x \in H2, x \in B \/ x = block PROVE FALSE
      OBVIOUS
    <3>1. CASE x = behind /\ k # 0
      BY <1>10, <3>1
    <3>2. CASE x \in H /\ (x = pos => f # 0)
      BY <1>2, <1>10, <3>2
    <3> QED
      BY <3>1, <3>2
  <2>2. DOMAIN t = H2 \cup (B \cup {block})
    <3>1. CASE f = 0
      BY <1>1, <1>4, <1>10, <3>1
    <3>2. CASE f # 0
      BY <1>1, <1>4, <3>2
    <3> QED
      BY <3>1, <3>2
  <2> QED
    BY <2>1, <2>2
<1>12. \A p \in H2 \cup (B \cup {block}) : Size(n, p) = t[p]
  <2> SUFFICES ASSUME NEW p \in H2 \cup (B \cup {block}) PROVE Size(n, p) = t[p]
    OBVIOUS
  <2>1. CASE p = block
    BY <1>4, <1>7, <2>1
  <2>2. CASE p = behind /\ k # 0
    BY <1>4, <1>9, <2>2
  <2>3. CASE p = pos /\ f # 0
    BY <1>4, <1>8, <2>3
  <2>4. CASE p \in H \cup B /\ p # pos
    BY <1>1, <1>4, <1>6, <2>4
  <2> QED
    BY <1>10, <2>1, <2>2, <2>3, <2>4
<1>13. ASSUME NEW p \in H2 PROVE HoleOK(n, l, p)
  <2>1. CASE p = behind /\ k # 0
    <3>1. End(n, p) = behind + k
      BY <1>9, <2>1 DEF End
    <3> QED
      BY <1>5, <1>9, <2>1, <3>1 DEF HoleOK
  <2>2. CASE p = pos /\ f # 0
    <3>1. End(n, p) = block
      BY <1>8, <2>2 DEF End
    <3> QED
      BY <1>5, <1>8, <2>2, <3>1 DEF HoleOK
  <2>3. CASE p \in H /\ p # pos
    BY <1>6, <2>3 DEF Layout
  <2> QED
    BY <2>1, <2>2, <2>3
<1>14. ASSUME NEW p \in B \cup {block} PROVE BlockOK(n, p)
  <2>1. CASE p = block
    <3>1. End(n, p) = behind
      BY <1>7, <2>1 DEF End
    <3> QED
      BY <1>5, <1>7, <2>1, <3>1 DEF BlockOK
  <2>2. CASE p \in B
    BY <1>6, <1>10, <2>2 DEF Layout
  <2> QED
    BY <2>1, <2>2
<1>15. n[-2] # Magic
  <2>1. -2 \in Address /\ -2 < pos
    BY <1>3, ConstantFacts
  <2> QED
    BY <1>2, <1>5, <2>1
<1>16. Layout(n, H2, B \cup {block}, l)
  <2>1. n \in [Address -> Int] /\ l \in MinWords..MaxWords
    BY <1>2, <1>5
  <2>2. Tiling(t, l)
    BY <1>4
  <2>3. \A p \in H2 : HoleOK(n, l, p)
    BY ONLY <1>13
  <2>4. \A p \in B \cup {block} : BlockOK(n, p)
    BY ONLY <1>14
  <2> QED
    BY ONLY <1>11, <1>12, <1>15, <2>1, <2>2, <2>3, <2>4, LayoutIntro
<1>17. ASSUME Apart(m, H), NEW p \in H2, End(n, p) \in H2 PROVE FALSE
  <2> DEFINE e == End(n, p)
  <2>1. e \notin B \cup {block}
    BY <1>11, <1>17
  <2>2. CASE p = behind /\ k # 0
    <3>1. e = End(m, pos) /\ e > behind
      BY <1>3, <1>9, <2>2 DEF End
    <3>2. e \in H
      BY <1>3, <1>17, <3>1
    <3> QED
      BY <1>17, <3>1, <3>2 DEF Apart
  <2>3. CASE p = pos /\ f # 0
    <3>1. e = block
      BY <1>8, <2>3 DEF End
    <3> QED
      BY <2>1, <3>1
  <2>4. CASE p \in H /\ p # pos
    <3>1. e = End(m, p) /\ e \notin H
      BY <1>6, <1>17, <2>4 DEF End, Apart
    <3>2. e = behind /\ k # 0
      BY <1>17, <3>1
    <3>3. e = p + Size(m, p) /\ p \in Nat /\ Size(m, p) >= 5 /\ Size(m, p) \in Nat
          /\ (e <= pos \/ p >= pos + f + ns + k)
      BY <1>6, <2>4, <3>1 DEF End
    <3> QED
      BY <1>3, <3>2, <3>3
  <2> QED
    BY <2>2, <2>3, <2>4
<1>18. Apart(m, H) => Apart(n, H2)
  BY <1>17 DEF Apart
<1>19. \A p \in B : Size(n, p) = Size(m, p)
  BY <1>6, <1>10
<1> QED
  BY <1>3, <1>7, <1>10, <1>16, <1>18, <1>19 DEF PlacedSound, block, behind, H2

(* A remainder is less than its divisor.                                   *)
LEMMA ModFacts ==
    ASSUME NEW a \in Nat, NEW b \in Nat \ {0}
    PROVE  a % b \in 0..(b - 1)
  OBVIOUS

(***************************************************************************)
(* The amounts Placed computes: as long as it meets none of the cases left *)
(* out, it splits the hole it was given, and the block is large enough.    *)
(***************************************************************************)
FrontSize(pos, align) == IF align THEN PageWords - (pos % PageWords) - HeaderSize ELSE 0

(* The size of the block taken from a hole of size hs.                     *)
NewSize(hs, asked) ==
    IF Minus(hs, asked + Overhead) < Overhead THEN hs ELSE asked + Overhead

(* The block has room for what was asked and fits the hole.                *)
LEMMA NewSizeFacts ==
    ASSUME NEW hs \in Nat, NEW asked \in Nat, hs >= asked + 5, hs < Words
    PROVE  /\ NewSize(hs, asked) \in Nat
           /\ asked + 5 <= NewSize(hs, asked) /\ NewSize(hs, asked) <= hs
<1>1. Minus(hs, asked + 5) = hs - (asked + 5)
  <2>1. asked + 5 \in Int /\ asked + 5 <= hs /\ hs - (asked + 5) < Words
    BY ConstantFacts
  <2> QED
    BY <2>1, MinusFacts
<1> QED
  BY <1>1, ConstantFacts DEF NewSize

(* The hole in front of an aligned block.                                  *)
LEMMA FrontFacts ==
    ASSUME NEW pos \in Nat, NEW align \in BOOLEAN
    PROVE  /\ FrontSize(pos, align) \in Int /\ FrontSize(pos, align) < PageWords
           /\ ~align => FrontSize(pos, align) = 0
<1>0. PageWords \in Nat \ {0} /\ HeaderSize = 3 /\ 0 < PageWords
  BY ConstantFacts
<1>1. pos % PageWords \in 0..(PageWords - 1)
  BY <1>0, ModFacts
<1>2. CASE align
  <2>0. FrontSize(pos, align) = PageWords - (pos % PageWords) - HeaderSize
    BY <1>2 DEF FrontSize
  <2>1. FrontSize(pos, align) = PageWords - (pos % PageWords) - 3
    BY <1>0, <2>0
  <2>2. PageWords - (pos % PageWords) - 3 \in Int /\ PageWords - (pos % PageWords) - 3 < PageWords
    BY <1>0, <1>1
  <2> QED
    BY <1>2, <2>1, <2>2
<1>3. CASE ~align
  <2>1. FrontSize(pos, align) = 0
    BY <1>3 DEF FrontSize
  <2> QED
    BY <1>0, <1>3, <2>1
<1> QED
  BY <1>2, <1>3

(* What Placed returns for a hole that is large enough.                    *)
PlacedAs(r, g, i, asked, align) ==
    \E f, ns, k, w :
        /\ Cut(Size(g.mem, g.index[i]), g.len, g.index[i], f, ns, k)
        /\ ns >= asked + 5 /\ (f # 0 <=> align)
        /\ r.mem = PlacedMem(g.mem, g.index[i], f, ns, k, g.len)
        /\ r.block = <<g.index[i] + f + 3, asked>>
        /\ r.len = g.len /\ g.slip = "none"
        /\ r.index = LET ix == IF align THEN g.index ELSE RemoveAt(g.index, i)
                     IN  IF k > 0 THEN Insert(ix, g.index[i] + f + ns, w) ELSE ix

(* Placed, in terms of these amounts.                                      *)
LEMMA PlacedFacts ==
    ASSUME NEW g, NEW i, g.index[i] \in Nat, Size(g.mem, g.index[i]) \in Nat,
           g.index[i] + Size(g.mem, g.index[i]) <= g.len, g.len \in Nat, g.len <= MaxWords,
           NEW asked \in Nat, Size(g.mem, g.index[i]) >= asked + 5, NEW align \in BOOLEAN,
           NEW r, r = Placed(g, i, asked, align), r.slip = "none"
    PROVE  PlacedAs(r, g, i, asked, align)
<1> SUFFICES \E f, ns, k, w :
             /\ Cut(Size(g.mem, g.index[i]), g.len, g.index[i], f, ns, k)
             /\ ns >= asked + 5 /\ (f # 0 <=> align)
             /\ r.mem = PlacedMem(g.mem, g.index[i], f, ns, k, g.len)
             /\ r.block = <<g.index[i] + f + 3, asked>>
             /\ r.len = g.len /\ g.slip = "none"
             /\ r.index = LET ix == IF align THEN g.index ELSE RemoveAt(g.index, i)
                          IN  IF k > 0 THEN Insert(ix, g.index[i] + f + ns, w) ELSE ix
  BY DEF PlacedAs
<1> DEFINE m == g.mem
           q == g.index
           l == g.len
           pos == q[i]
           hs == Size(m, pos)
<1>0. /\ pos \in Nat /\ hs \in Nat /\ pos + hs <= l /\ l \in Nat /\ l <= MaxWords
      /\ hs >= asked + 5
  OBVIOUS
<1> DEFINE front == IF align THEN PageWords - (pos % PageWords) - HeaderSize ELSE 0
           takeAll == Minus(hs, asked + Overhead) < Overhead
           ns == IF takeAll THEN hs ELSE asked + Overhead
           block == pos + front
           behind == block + ns
           rest == Minus(hs - front, ns)
           m1 == IF align
                 THEN PutFooter(PutHeader(m, pos, 1, Minus(front, 0)),
                                block - FooterSize, pos)
                 ELSE m
           m2 == PutFooter(PutHeader(m1, block, 0, ns), behind - FooterSize, block)
           m3 == PutHeader(m2, behind, 1, rest)
           foot == Wrapped(behind + rest - FooterSize)
           m4 == IF foot < l THEN PutFooter(m3, foot, behind) ELSE m3
           ix == IF align THEN q ELSE RemoveAt(q, i)
           sl == IF g.slip # "none" THEN g.slip
                 ELSE IF align /\ front < Overhead THEN "no room for a hole in front"
                 ELSE IF hs - front < ns THEN "hole too small once aligned"
                 ELSE IF rest \in 1..(Overhead - 1) THEN "no room for a hole behind"
                 ELSE "none"
<1>1. r = [mem |-> IF rest > 0 THEN m4 ELSE m2,
           index |-> IF rest > 0 THEN Insert(ix, behind, m4) ELSE ix,
           len |-> l,
           block |-> <<block + HeaderSize, asked>>,
           slip |-> sl]
  BY DEF Placed
<1> HIDE DEF m, q, l, pos, hs
<1> USE <1>0
<1>2. /\ r.mem = IF rest > 0 THEN m4 ELSE m2
      /\ r.index = IF rest > 0 THEN Insert(ix, behind, m4) ELSE ix
      /\ r.len = l /\ r.block = <<block + HeaderSize, asked>> /\ sl = "none"
  <2> HIDE DEF m2, m4, ix, behind, block, rest, sl
  <2> QED
    BY <1>1
<1>3. /\ g.slip = "none"
      /\ ~(align /\ front < Overhead)
      /\ ~(hs - front < ns)
      /\ ~(rest \in 1..(Overhead - 1))
  <2> HIDE DEF front, ns, rest
  <2> QED
    BY <1>2
<1>4. /\ front = FrontSize(pos, align) /\ ns = NewSize(hs, asked)
  BY DEF FrontSize, NewSize
<1>c. /\ Overhead = 5 /\ HeaderSize = 3 /\ FooterSize = 2 /\ hs < Words
      /\ PageWords \in Nat /\ Words \in Nat
  BY ConstantFacts
<1>5. /\ ns \in Nat /\ asked + 5 <= ns /\ ns <= hs
      /\ front \in Int /\ front < PageWords /\ (~align => front = 0)
  <2> HIDE DEF front, ns
  <2>1. ns \in Nat /\ asked + 5 <= ns /\ ns <= hs
    BY <1>4, <1>c, NewSizeFacts
  <2>2. front \in Int /\ front < PageWords /\ (~align => front = 0)
    BY <1>4, FrontFacts
  <2> QED
    BY <2>1, <2>2
<1>6. align => front >= 5
  <2> HIDE DEF front, ns, rest
  <2>1. ~(front < 5) => front >= 5
    BY <1>5
  <2> QED
    BY <1>3, <1>c, <2>1
<1>7. front \in Nat /\ (front = 0 \/ front >= 5) /\ (front # 0 <=> align)
  <2> HIDE DEF front, ns, rest
  <2>1. front >= 5 => front \in Nat /\ front # 0
    BY <1>5
  <2> QED
    BY <1>5, <1>6, <2>1
<1>8. rest = hs - front - ns /\ rest \in Nat /\ (rest = 0 \/ rest >= 5)
  <2> HIDE DEF front, ns
  <2>1. /\ hs - front \in Int /\ ns \in Int /\ ns <= hs - front
        /\ (hs - front) - ns < Words
    BY <1>3, <1>5, <1>7, <1>c
  <2>2. rest = (hs - front) - ns
    BY <2>1, MinusFacts
  <2> HIDE DEF rest
  <2> QED
    BY <1>3, <1>5, <1>7, <1>c, <2>1, <2>2
<1>9. Cut(hs, l, pos, front, ns, rest)
  <2> HIDE DEF front, ns, rest
  <2>1. ns \in Nat /\ ns >= 5
    BY <1>5
  <2>2. front \in Nat /\ rest \in Nat /\ rest = hs - front - ns
    BY <1>7, <1>8
  <2>3. hs = front + ns + rest /\ pos + front + ns + rest <= l
    BY <2>1, <2>2
  <2> QED
    BY <1>7, <1>8, <2>1, <2>2, <2>3 DEF Cut
<1>10. Minus(front, 0) = front
  <2> HIDE DEF front, ns
  <2>1. 0 <= front /\ front - 0 < Words /\ 0 \in Int /\ front \in Int
    BY <1>3, <1>5, <1>7, <1>c
  <2>2. Minus(front, 0) = front - 0
    BY <2>1, MinusFacts
  <2> QED
    BY <1>7, <2>2
<1>11. m1 = IF front # 0
            THEN PutFooter(PutHeader(m, pos, 1, front), block - FooterSize, pos)
            ELSE m
  <2> HIDE DEF front
  <2> QED
    BY <1>7, <1>10
<1>f. foot = behind + rest - FooterSize
  <2> DEFINE a == behind + rest - FooterSize
  <2>1. a \in Nat /\ a < MaxWords
    <3> HIDE DEF front, ns, rest
    <3>1. a = pos + front + ns + rest - 2
      BY <1>5, <1>7, <1>8, <1>c
    <3> QED
      BY <1>9, <3>1, ConstantFacts DEF Cut
  <2> HIDE DEF a
  <2>2. Wrapped(a) = a
    BY <2>1, WrappedFacts
  <2> QED
    BY <2>2 DEF a
<1>12. r.mem = PlacedMem(m, pos, front, ns, rest, l)
  <2> DEFINE u1 == IF front # 0
                   THEN PutFooter(PutHeader(m, pos, 1, front), block - FooterSize, pos)
                   ELSE m
  <2>1. PlacedMem(m, pos, front, ns, rest, l) =
          LET n2 == PutFooter(PutHeader(u1, block, 0, ns), behind - FooterSize, block)
              n3 == PutHeader(n2, behind, 1, rest)
              n4 == IF foot < l THEN PutFooter(n3, foot, behind) ELSE n3
          IN  IF rest > 0 THEN n4 ELSE n2
    <3> HIDE DEF front, ns, rest, foot
    <3> QED
      BY <1>f DEF PlacedMem
  <2>2. u1 = m1
    BY <1>11
  <2> HIDE DEF u1, m1, behind, block, rest, ns, foot
  <2> QED
    BY <1>2, <2>1, <2>2
<1>13. /\ r.block = <<pos + front + 3, asked>>
       /\ r.index = IF rest > 0 THEN Insert(ix, pos + front + ns, m4) ELSE ix
  <2> HIDE DEF front, ns, m4, ix, rest
  <2> QED
    BY <1>2, <1>c
<1>14. r.len = l /\ ns >= asked + 5
  <2> HIDE DEF front, ns, m4, ix, rest
  <2> QED
    BY <1>2, <1>5
<1> HIDE DEF front, ns, m4, rest
<1>15. \E f, ns2, k, w :
              /\ Cut(hs, l, pos, f, ns2, k)
              /\ ns2 >= asked + 5 /\ (f # 0 <=> align)
              /\ r.mem = PlacedMem(m, pos, f, ns2, k, l)
              /\ r.block = <<pos + f + 3, asked>>
              /\ r.len = l /\ g.slip = "none"
              /\ r.index = LET ixx == IF align THEN q ELSE RemoveAt(q, i)
                           IN  IF k > 0 THEN Insert(ixx, pos + f + ns2, w) ELSE ixx
  BY <1>3, <1>7, <1>9, <1>12, <1>13, <1>14
<1> QED
  BY <1>15 DEF m, q, l, pos, hs

(* The index after the split.                                              *)
PlacedIx(q, i, align, k, behind, w) ==
    LET ix == IF align THEN q ELSE RemoveAt(q, i)
    IN  IF k > 0 THEN Insert(ix, behind, w) ELSE ix

(* The index after alloc lists the holes that are there then.              *)
LEMMA PlacedIndex ==
    ASSUME NEW q \in Seq(Int), Injective(q), NEW i \in DOMAIN q, NEW align \in BOOLEAN,
           NEW f, NEW k \in Nat, NEW behind \in Int, NEW w,
           f # 0 <=> align, k # 0 => behind \notin ToSet(q),
           NEW t, t = PlacedIx(q, i, align, k, behind, w)
    PROVE  /\ t \in Seq(Int) /\ Injective(t)
           /\ ToSet(t) = SplitHoles(ToSet(q), q[i], f, behind, k)
<1> DEFINE ix == IF align THEN q ELSE RemoveAt(q, i)
<1>0. t = IF k > 0 THEN Insert(ix, behind, w) ELSE ix
  BY DEF PlacedIx
<1> USE DEF SplitHoles
<1>1. /\ ix \in Seq(Int) /\ Injective(ix)
      /\ ToSet(ix) = {p \in ToSet(q) : p = q[i] => f # 0}
  <2>1. CASE align
    BY <2>1
  <2>2. CASE ~align
    BY <2>2, RemoveAtFacts
  <2> QED
    BY <2>1, <2>2
<1> HIDE DEF ix
<1>2. CASE k = 0
  <2>1. t = ix
    BY <1>0, <1>2
  <2> QED
    BY <1>1, <1>2, <2>1
<1>3. CASE k # 0
  <2>1. t = Insert(ix, behind, w)
    BY <1>0, <1>3
  <2>2. behind \notin ToSet(ix)
    BY <1>1, <1>3
  <2>3. t \in Seq(Int) /\ Injective(t) /\ ToSet(t) = ToSet(ix) \cup {behind}
    BY <1>1, <2>1, <2>2, InsertFacts
  <2> QED
    BY <1>1, <1>3, <2>3
<1> QED
  BY <1>2, <1>3

(* A block added to those held, all of them as large as they were.         *)
LEMMA HeldAdded ==
    ASSUME NEW m, NEW n, NEW held, Held(m, held), NEW h \in Nat, NEW asked \in Sizes,
           h \notin BlocksOf(held), Size(n, h) >= asked + 5,
           \A p \in BlocksOf(held) : Size(n, p) = Size(m, p),
           NEW b, b = <<h + 3, asked>>
    PROVE  /\ Held(n, held \cup {b})
           /\ BlocksOf(held \cup {b}) = BlocksOf(held) \cup {h}
<1>0. HeaderSize = 3 /\ Overhead = 5
  BY ConstantFacts
<1>1. b[1] = h + 3 /\ b[2] = asked /\ b[1] - HeaderSize = h /\ b[1] \in Int
  BY <1>0
<1>2. \A c \in held : c[1] - HeaderSize \in BlocksOf(held)
  BY DEF BlocksOf
<1>3. \A c \in held : c[1] # b[1]
  BY <1>1, <1>2
<1>4. BlocksOf(held \cup {b}) = BlocksOf(held) \cup {h}
  BY <1>1 DEF BlocksOf
<1>5. \A c \in held : /\ c[1] \in Int /\ c[2] \in Sizes
                      /\ Size(n, c[1] - HeaderSize) >= c[2] + Overhead
  BY <1>2 DEF Held
<1>6. \A c, d \in held : c[1] = d[1] => c = d
  BY DEF Held
<1>7. Size(n, b[1] - HeaderSize) >= b[2] + Overhead
  BY <1>0, <1>1
<1>8. \A c \in held \cup {b} : /\ c[1] \in Int /\ c[2] \in Sizes
                               /\ Size(n, c[1] - HeaderSize) >= c[2] + Overhead
  BY <1>1, <1>5, <1>7
<1>9. \A c, d \in held \cup {b} : c[1] = d[1] => c = d
  BY <1>3, <1>6
<1> QED
  BY <1>4, <1>8, <1>9 DEF Held

(* alloc on a hole that is large enough keeps the heap well formed.        *)
LEMMA PlacedOK ==
    ASSUME NEW g, NEW held, HeapOK(g.mem, g.index, g.len, held), NEW i \in DOMAIN g.index,
           NEW asked \in Sizes, Size(g.mem, g.index[i]) >= asked + Overhead,
           NEW align \in BOOLEAN, NEW r, r = Placed(g, i, asked, align), r.slip = "none"
    PROVE  /\ g.slip = "none"
           /\ HeapOK(Filled(r.mem, r.block), r.index, r.len, held \cup {r.block})
<1> DEFINE m == g.mem
           q == g.index
           l == g.len
           pos == q[i]
           H == ToSet(q)
           B == BlocksOf(held)
<1>1. /\ q \in Seq(Int) /\ Injective(q) /\ Layout(m, H, B, l) /\ Held(m, held)
      /\ Apart(m, H)
  BY DEF HeapOK
<1>2. pos \in H /\ pos \in H \cup B
  BY DEF ToSet
<1>3. /\ pos \in Nat /\ Size(m, pos) \in Nat /\ pos + Size(m, pos) <= l /\ l <= MaxWords
      /\ l \in Nat
  BY <1>1, <1>2, LayoutFacts DEF End
<1>4. asked \in Nat /\ Size(m, pos) >= asked + 5
  BY ConstantFacts
<1>5. PICK f, ns, k, w :
              /\ Cut(Size(m, pos), l, pos, f, ns, k)
              /\ ns >= asked + 5 /\ (f # 0 <=> align)
              /\ r.mem = PlacedMem(m, pos, f, ns, k, l)
              /\ r.block = <<pos + f + 3, asked>>
              /\ r.len = l /\ g.slip = "none"
              /\ r.index = LET ix == IF align THEN q ELSE RemoveAt(q, i)
                           IN  IF k > 0 THEN Insert(ix, pos + f + ns, w) ELSE ix
  <2>1. /\ g.index[i] \in Nat /\ Size(g.mem, g.index[i]) \in Nat
        /\ g.index[i] + Size(g.mem, g.index[i]) <= g.len /\ g.len \in Nat
        /\ g.len <= MaxWords /\ Size(g.mem, g.index[i]) >= asked + 5 /\ asked \in Nat
    BY <1>3, <1>4
  <2>2. r = Placed(g, i, asked, align) /\ r.slip = "none" /\ align \in BOOLEAN
    OBVIOUS
  <2>3. PlacedAs(r, g, i, asked, align)
    BY ONLY <2>1, <2>2, PlacedFacts
  <2> QED
    BY ONLY <2>3 DEF PlacedAs
<1> DEFINE n == Filled(r.mem, r.block)
           block == pos + f
           behind == block + ns
           H2 == SplitHoles(H, pos, f, behind, k)
           t == r.index
           b == r.block
<1>6. n = Filled(PlacedMem(m, pos, f, ns, k, l), <<pos + f + 3, asked>>)
  BY <1>5
<1> HIDE DEF m, q, l, pos, H, B, n, t, b
<1>7. /\ block = pos + f /\ behind = block + ns
      /\ H2 = SplitHoles(H, pos, f, behind, k)
      /\ behind = pos + f + ns
  OBVIOUS
<1> HIDE DEF block, behind, H2
<1>8. /\ Layout(n, H2, B \cup {block}, l)
      /\ block \notin B /\ Size(n, block) = ns /\ block \in Nat
      /\ \A p \in B : Size(n, p) = Size(m, p)
      /\ (k # 0 => behind \notin H) /\ behind \in Nat
      /\ Apart(m, H) => Apart(n, H2)
  <2>1. Cut(Size(m, pos), l, pos, f, ns, k) /\ ns >= asked + 5
    BY <1>5
  <2>2. Layout(m, H, B, l) /\ pos \in H /\ asked \in Nat
    BY <1>1, <1>2, <1>4
  <2>3. PlacedSound(n, m, H, B, l, pos, f, ns, k)
    BY ONLY <1>6, <2>1, <2>2, PlacedLayout
  <2> QED
    BY <2>3 DEF PlacedSound, block, behind, H2
<1>9. t \in Seq(Int) /\ Injective(t) /\ ToSet(t) = H2
  <2>1. t = PlacedIx(q, i, align, k, behind, w)
    BY <1>5, <1>7 DEF t, PlacedIx
  <2>2. k \in Nat /\ behind \in Int /\ i \in DOMAIN q
    BY <1>5, <1>8 DEF Cut, q
  <2>3. /\ f # 0 <=> align
        /\ align \in BOOLEAN /\ q \in Seq(Int) /\ Injective(q)
    BY <1>1, <1>5
  <2>4. k # 0 => behind \notin ToSet(q)
    BY <1>8 DEF H
  <2>5. /\ t \in Seq(Int) /\ Injective(t)
        /\ ToSet(t) = SplitHoles(ToSet(q), q[i], f, behind, k)
    BY ONLY <2>1, <2>2, <2>3, <2>4, PlacedIndex
  <2> QED
    BY <1>7, <2>5 DEF H, pos
<1>10. /\ Held(n, held \cup {b})
       /\ BlocksOf(held \cup {b}) = B \cup {block}
  <2>1. b = <<block + 3, asked>> /\ Size(n, block) >= asked + 5
    BY <1>5, <1>7, <1>8 DEF b
  <2>2. Held(m, held) /\ block \in Nat /\ asked \in Sizes
    BY <1>1, <1>8
  <2>3. /\ block \notin BlocksOf(held)
        /\ \A p \in BlocksOf(held) : Size(n, p) = Size(m, p)
    BY <1>8 DEF B
  <2>4. /\ Held(n, held \cup {b})
        /\ BlocksOf(held \cup {b}) = BlocksOf(held) \cup {block}
    BY ONLY <2>1, <2>2, <2>3, HeldAdded
  <2> QED
    BY <2>4 DEF B
<1>11. HeapOK(n, t, l, held \cup {b})
  BY <1>1, <1>8, <1>9, <1>10 DEF HeapOK
<1> QED
  BY <1>5, <1>11 DEF n, t, l, b

(* Blocks that keep their sizes are still large enough.                    *)
LEMMA HeldKept ==
    ASSUME NEW m, NEW n, NEW held, Held(m, held), NEW kept, kept \subseteq held,
           \A p \in BlocksOf(kept) : Size(n, p) = Size(m, p)
    PROVE  Held(n, kept)
<1>1. \A c \in kept : c[1] - HeaderSize \in BlocksOf(kept)
  BY DEF BlocksOf
<1>2. \A c \in kept : /\ c[1] \in Int /\ c[2] \in Sizes
                      /\ Size(n, c[1] - HeaderSize) >= c[2] + Overhead
  BY <1>1 DEF Held
<1>3. \A c, d \in kept : c[1] = d[1] => c = d
  BY DEF Held
<1> QED
  BY <1>2, <1>3 DEF Held

(* expand without any hole: the new words become one.                      *)
LEMMA GrownFresh ==
    ASSUME NEW m, NEW B, NEW l, Layout(m, {}, B, l), NEW k \in Nat, k >= 5,
           l + k <= MaxWords,
           NEW n, n = PutFooter(PutHeader(m, l, 1, k), l + k - FooterSize, l)
    PROVE  /\ Layout(n, {l}, B, l + k) /\ Size(n, l) = k
           /\ \A p \in B : Size(n, p) = Size(m, p)
<1> DEFINE s == Sized(m, {} \cup B)
<1>1. DOMAIN s = B /\ \A q \in B : s[q] = Size(m, q)
  BY DEF Sized
<1>2. /\ Tiling(s, l) /\ l \in Nat /\ l >= MinWords /\ MinWords \in Nat /\ MaxWords \in Nat
      /\ m \in [Address -> Int] /\ m[-2] # Magic
  BY ConstantFacts DEF Layout
<1> HIDE DEF s
<1> DEFINE t == [x \in DOMAIN s \cup {l} |-> IF x = l THEN k ELSE s[x]]
           u == PutHeader(m, l, 1, k)
<1>3. l \notin B /\ Tiling(t, l + k)
  <2>1. Overhead <= k
    BY ConstantFacts
  <2> QED
    BY <1>1, <1>2, <2>1, AppendTiling
<1>4. /\ u \in [Address -> Int]
      /\ \A a \in Address : u[a] =
            IF a = l THEN Magic ELSE IF a = l + 1 THEN 1
            ELSE IF a = l + 2 THEN k ELSE m[a]
  <2>1. l \in Int /\ 1 \in Int /\ k \in Int /\ m \in [Address -> Int]
    BY <1>2
  <2> QED
    BY ONLY <2>1, PutHeaderFacts
<1>c. /\ FooterSize = 2 /\ Address = -2..(MaxWords - 1)
  BY ConstantFacts
<1> HIDE DEF u
<1>5. /\ n \in [Address -> Int]
      /\ \A a \in Address : n[a] =
            IF a = l + k - 2 THEN Magic ELSE IF a = l + k - 1 THEN l ELSE u[a]
  <2>1. l + k - 2 \in Int /\ (l + k - 2) + 1 = l + k - 1 /\ l \in Int
    BY <1>2
  <2> DEFINE f == l + k - 2
  <2>2. n = PutFooter(u, f, l) /\ u \in [Address -> Int]
    BY <1>4, <1>c DEF u
  <2>3. f \in Int /\ f + 1 = l + k - 1 /\ l \in Int
    BY <2>1
  <2> HIDE DEF f
  <2>4. /\ n \in [Address -> Int]
        /\ \A a \in Address : n[a] =
              IF a = f THEN Magic ELSE IF a = f + 1 THEN l ELSE u[a]
    BY ONLY <2>2, <2>3, PutFooterFacts
  <2> QED
    BY ONLY <2>3, <2>4 DEF f
<1>6. \A a \in Address : a < l => n[a] = m[a]
  <2> SUFFICES ASSUME NEW a \in Address, a < l PROVE n[a] = m[a]
    OBVIOUS
  <2>1. a \in Int /\ l \in Int /\ k \in Int /\ k >= 5
    BY <1>2, <1>c
  <2>2. a # l /\ a # l + 1 /\ a # l + 2 /\ a # l + k - 2 /\ a # l + k - 1
    BY ONLY <2>1, a < l
  <2> QED
    BY ONLY <1>4, <1>5, <2>2, a \in Address
<1>7. n[l] = Magic /\ n[l + 1] = 1 /\ n[l + 2] = k
  <2>1. {l, l + 1, l + 2} \subseteq Address
    BY <1>2, <1>c
  <2>2. u[l] = Magic /\ u[l + 1] = 1 /\ u[l + 2] = k
    BY <1>2, <1>4, <2>1
  <2> QED
    BY <1>2, <1>5, <2>1, <2>2
<1>8. Size(n, l) = k /\ Hole(n, l) = 1 /\ End(n, l) = l + k
  <2>1. l + 2 < MaxWords
    BY <1>2
  <2> QED
    BY <1>2, <1>7, <2>1, HeaderFacts DEF End
<1>9. ASSUME NEW p \in B
      PROVE  Size(n, p) = Size(m, p) /\ BlockOK(n, p)
  <2>1. /\ p \in Nat /\ Size(m, p) \in Nat /\ Size(m, p) >= 5 /\ End(m, p) <= l
    BY LayoutFacts
  <2>2. \A a \in Address : p <= a /\ a < End(m, p) => n[a] = m[a]
    BY <1>2, <1>6, <1>c, <2>1 DEF End
  <2>3. End(m, p) <= MaxWords
    BY <1>2, <2>1 DEF End
  <2>4. BlockOK(m, p)
    BY DEF Layout
  <2> QED
    BY <1>2, <1>5, <2>1, <2>2, <2>3, <2>4, PartFrame
<1>10. HoleOK(n, l + k, l)
  BY <1>2, <1>7, <1>8 DEF HoleOK
<1>11. DOMAIN t = {l} \cup B /\ \A p \in {l} \cup B : Size(n, p) = t[p]
  BY <1>1, <1>3, <1>8, <1>9
<1>12. n[-2] # Magic
  <2>1. -2 \in Address /\ -2 < l
    BY <1>2, <1>c
  <2> QED
    BY <1>2, <1>6, <2>1
<1>13. l + k \in MinWords..MaxWords
  BY <1>2
<1> HIDE DEF t
<1>14. Layout(n, {l}, B, l + k)
  <2>1. {l} \cap B = {}
    BY <1>3
  <2> QED
    BY <1>3, <1>5, <1>9, <1>10, <1>11, <1>12, <1>13, <2>1, LayoutIntro
<1> QED
  BY <1>8, <1>9, <1>14

(* expand with a hole at the end of the heap: it gets the new words.       *)
LEMMA GrownLast ==
    ASSUME NEW m, NEW H, NEW B, NEW l, Layout(m, H, B, l), NEW h \in H, End(m, h) = l,
           NEW k \in Nat, k >= 5, l + k <= MaxWords,
           NEW n, n = PutFooter(PutSize(m, h, Size(m, h) + k),
                                h + (Size(m, h) + k) - FooterSize, h)
    PROVE  /\ Layout(n, H, B, l + k) /\ Size(n, h) >= k
           /\ \A p \in B : Size(n, p) = Size(m, p)
           /\ Apart(m, H) => Apart(n, H)
<1> DEFINE s == Sized(m, H \cup B)
           size == Size(m, h) + k
<1>1. DOMAIN s = H \cup B /\ \A q \in H \cup B : s[q] = Size(m, q)
  BY DEF Sized
<1>2. /\ Tiling(s, l) /\ l \in Nat /\ l >= MinWords /\ MinWords \in Nat /\ MaxWords \in Nat
      /\ m \in [Address -> Int] /\ m[-2] # Magic /\ H \cap B = {}
  BY ConstantFacts DEF Layout
<1> HIDE DEF s
<1>3. /\ h \in Nat /\ Size(m, h) \in Nat /\ Size(m, h) >= 5 /\ h + Size(m, h) = l
      /\ Hole(m, h) = m[h + 1]
  BY LayoutFacts DEF End
<1>a. /\ h \in Nat /\ l \in Nat /\ h + 5 <= l /\ k \in Nat /\ k >= 5
      /\ l + k <= MaxWords /\ MaxWords \in Nat
  BY <1>2, <1>3
<1>4. size \in Nat /\ size >= 10 /\ h + size = l + k
  BY <1>3
<1>c. /\ FooterSize = 2 /\ Address = -2..(MaxWords - 1) /\ Overhead = 5
  BY ConstantFacts
<1> DEFINE t == [x \in DOMAIN s |-> IF x = h THEN size ELSE s[x]]
           u == PutSize(m, h, size)
<1>5. n = PutFooter(u, l + k - 2, h)
  <2>1. h + size - 2 = l + k - 2
    BY <1>3, <1>4
  <2> QED
    BY <1>c, <2>1
<1> HIDE DEF size
<1>6. Tiling(t, l + k)
  <2>1. h \in DOMAIN s /\ h + s[h] = l /\ Overhead <= size
    BY <1>1, <1>3, <1>4, <1>c
  <2> QED
    BY <1>2, <1>4, <2>1, ResizeTiling
<1>7. /\ u \in [Address -> Int]
      /\ \A a \in Address : u[a] = IF a = h + 2 THEN size ELSE m[a]
  <2>1. h \in Int /\ size \in Int /\ m \in [Address -> Int]
    BY <1>2, <1>3, <1>4
  <2> QED
    BY ONLY <2>1, PutSizeFacts
<1> HIDE DEF u
<1>8. /\ n \in [Address -> Int]
      /\ \A a \in Address : n[a] =
            IF a = l + k - 2 THEN Magic ELSE IF a = l + k - 1 THEN h ELSE u[a]
  <2>1. l + k - 2 \in Int /\ (l + k - 2) + 1 = l + k - 1 /\ h \in Int
    BY <1>2, <1>3
  <2> QED
    BY <1>5, <1>7, <2>1, PutFooterFacts
<1>9. \A a \in Address : a < l /\ a # h + 2 => n[a] = m[a]
  BY ONLY <1>a, <1>7, <1>8, <1>c
<1>10. n[h] = Magic /\ n[h + 1] = 1 /\ n[h + 2] = size
  <2>1. {h, h + 1, h + 2} \subseteq Address /\ h + 2 < l
    BY ONLY <1>a, <1>c
  <2>2. m[h] = Magic /\ m[h + 1] = 1
    BY <1>3 DEF Layout, HoleOK
  <2>3. n[h] = m[h] /\ n[h + 1] = m[h + 1]
    BY <1>2, <1>3, <1>9, <2>1
  <2>4. n[h + 2] = u[h + 2] /\ u[h + 2] = size
    BY <1>2, <1>3, <1>7, <1>8, <2>1
  <2> QED
    BY <2>2, <2>3, <2>4
<1>11. Size(n, h) = size /\ Hole(n, h) = 1 /\ End(n, h) = l + k
  <2>1. h + 2 < MaxWords
    BY <1>2, <1>3
  <2> QED
    BY <1>3, <1>4, <1>10, <2>1, HeaderFacts DEF End
<1>12. ASSUME NEW p \in H \cup B, p # h
       PROVE  /\ Size(n, p) = Size(m, p) /\ End(n, p) = End(m, p)
              /\ BlockOK(m, p) => BlockOK(n, p)
              /\ HoleOK(m, l, p) => HoleOK(n, l + k, p)
              /\ p < l
  <2>1. /\ p \in Nat /\ Size(m, p) \in Nat /\ Size(m, p) >= 5 /\ End(m, p) <= l
        /\ (p < h => End(m, p) <= h)
    BY LayoutFacts
  <2>2. h < p => End(m, h) <= p
    BY <2>1, LayoutFacts
  <2>3. End(m, p) <= h
    BY <1>3, <1>12, <2>1, <2>2 DEF End
  <2>4. \A a \in Address : p <= a /\ a < End(m, p) => n[a] = m[a]
    <3>1. End(m, p) \in Int
      BY <2>1 DEF End
    <3> QED
      BY ONLY <1>a, <1>9, <1>c, <2>1, <2>3, <3>1
  <2>5. End(m, p) <= MaxWords /\ End(m, p) < l /\ p < l
    BY <1>2, <1>3, <2>1, <2>3 DEF End
  <2>6. /\ Size(n, p) = Size(m, p)
        /\ BlockOK(m, p) => BlockOK(n, p)
        /\ HoleOK(m, l, p) => HoleOK(n, l + k, p)
    BY <1>2, <1>8, <2>1, <2>4, <2>5, PartFrame
  <2> QED
    BY <2>5, <2>6 DEF End
<1>13. HoleOK(n, l + k, h)
  BY <1>2, <1>10, <1>11 DEF HoleOK
<1>14. \A p \in H : HoleOK(n, l + k, p)
  BY <1>12, <1>13 DEF Layout
<1>15. \A p \in B : BlockOK(n, p) /\ Size(n, p) = Size(m, p)
  BY <1>2, <1>12 DEF Layout
<1>16. DOMAIN t = H \cup B /\ \A p \in H \cup B : Size(n, p) = t[p]
  BY <1>1, <1>11, <1>12
<1>17. n[-2] # Magic
  <2>1. -2 \in Address /\ -2 < l /\ -2 # h + 2
    BY <1>2, <1>3, <1>c
  <2> QED
    BY <1>2, <1>9, <2>1
<1>18. l + k \in MinWords..MaxWords
  BY <1>2
<1> HIDE DEF t
<1>19. Layout(n, H, B, l + k)
  BY <1>2, <1>6, <1>8, <1>14, <1>15, <1>16, <1>17, <1>18, LayoutIntro
<1>20. ASSUME Apart(m, H) PROVE Apart(n, H)
  <2>1. l + k \notin H
    BY <1>2, <1>3, <1>12
  <2> QED
    BY <1>11, <1>12, <1>20, <2>1 DEF Apart
<1>21. Size(n, h) >= k
  BY <1>3, <1>11 DEF size
<1> QED
  BY <1>15, <1>19, <1>20, <1>21

(* The heap after expand, with a hole that is large enough.                *)
LEMMA GrownOK ==
    ASSUME HeapOK(mem, index, len, live), NEW n \in Nat, n >= 5, len + n <= MaxWords,
           NEW g, g = Grown(n), g.slip = "none"
    PROVE  /\ HeapOK(g.mem, g.index, g.len, live)
           /\ \E j \in DOMAIN g.index : Size(g.mem, g.index[j]) >= n
<1> DEFINE H == ToSet(index)
           B == BlocksOf(live)
<1>1. /\ index \in Seq(Int) /\ Injective(index) /\ Layout(mem, H, B, len)
      /\ Held(mem, live) /\ Apart(mem, H) /\ len \in Nat
  BY ConstantFacts DEF HeapOK, Layout
<1>2. CASE index = <<>>
  <2>1. /\ g.mem = PutFooter(PutHeader(mem, len, 1, n), len + n - FooterSize, len)
        /\ g.index = <<len>> /\ g.len = len + n
    BY <1>2 DEF Grown
  <2>2. H = {}
    BY <1>2 DEF ToSet
  <2>3. /\ Layout(g.mem, {len}, B, len + n) /\ Size(g.mem, len) = n
        /\ \A p \in B : Size(g.mem, p) = Size(mem, p)
    <3>1. Layout(mem, {}, B, len)
      BY <1>1, <2>2
    <3> QED
      BY <2>1, <3>1, GrownFresh
  <2>4. /\ g.index \in Seq(Int) /\ Injective(g.index) /\ ToSet(g.index) = {len}
        /\ 1 \in DOMAIN g.index /\ g.index[1] = len
    <3> DEFINE q == <<len>>
    <3>1. q \in Seq(Int) /\ DOMAIN q = {1} /\ q[1] = len
      BY <1>1
    <3>2. g.index = q
      BY <2>1
    <3> HIDE DEF q
    <3>3. Injective(q) /\ ToSet(q) = {len}
      BY <3>1 DEF Injective, ToSet
    <3> QED
      BY <3>1, <3>2, <3>3
  <2>5. Held(g.mem, live)
    BY <1>1, <2>3, HeldKept
  <2>6. Apart(g.mem, {len})
    <3>1. End(g.mem, len) # len
      BY <1>1, <2>3 DEF End
    <3> QED
      BY <3>1 DEF Apart
  <2>7. Size(g.mem, g.index[1]) >= n
    BY <2>3, <2>4
  <2>8. HeapOK(g.mem, g.index, g.len, live)
    BY <2>1, <2>3, <2>4, <2>5, <2>6 DEF HeapOK
  <2> QED
    BY <2>4, <2>7, <2>8
<1>3. CASE index # <<>>
  <2> DEFINE h == Max(H)
             size == Plus(Size(mem, h), n)
  <2>1. g = [mem |-> PutFooter(PutSize(mem, h, size), h + size - FooterSize, h),
             index |-> index, len |-> len + n,
             slip |-> IF h + Size(mem, h) = len THEN "none"
                      ELSE "endmost hole not at the end"]
    BY <1>3 DEF Grown
  <2>2. h \in H
    <3>1. H # {}
      <4>1. Len(index) \in Nat /\ Len(index) # 0 /\ DOMAIN index = 1..Len(index)
        BY <1>1, <1>3
      <4>2. 1 \in DOMAIN index
        BY <4>1
      <4> QED
        BY <4>2 DEF ToSet
    <3>2. \A p \in H : p \in Nat /\ p <= len
      <4> SUFFICES ASSUME NEW p \in H PROVE p \in Nat /\ p <= len
        OBVIOUS
      <4>1. p \in Nat /\ Size(mem, p) \in Nat /\ End(mem, p) <= len
        BY <1>1, LayoutFacts
      <4> QED
        BY <1>1, <4>1 DEF End
    <3>3. H \subseteq 0..len
      BY <1>1, <3>2
    <3> HIDE DEF H
    <3> QED
      BY <1>1, <3>1, <3>3, MaxFacts
  <2> HIDE DEF h
  <2>3. /\ g.mem = PutFooter(PutSize(mem, h, size), h + size - FooterSize, h)
        /\ g.index = index /\ g.len = len + n /\ End(mem, h) = len
    <3>1. /\ g.mem = PutFooter(PutSize(mem, h, size), h + size - FooterSize, h)
          /\ g.index = index /\ g.len = len + n
          /\ g.slip = IF h + Size(mem, h) = len THEN "none"
                      ELSE "endmost hole not at the end"
      <4> DEFINE fm == PutFooter(PutSize(mem, h, size), h + size - FooterSize, h)
                 fs == IF h + Size(mem, h) = len THEN "none"
                       ELSE "endmost hole not at the end"
      <4>1. g = [mem |-> fm, index |-> index, len |-> len + n, slip |-> fs]
        BY <2>1
      <4> HIDE DEF fm, fs
      <4>2. g.mem = fm /\ g.index = index /\ g.len = len + n /\ g.slip = fs
        BY <4>1
      <4> QED
        BY <4>2 DEF fm, fs
    <3>2. "endmost hole not at the end" # "none"
      OBVIOUS
    <3>3. h + Size(mem, h) = len
      BY <3>1, <3>2
    <3> QED
      BY <3>1, <3>3 DEF End
  <2>4. /\ Layout(g.mem, H, B, len + n) /\ Size(g.mem, h) >= n
        /\ \A p \in B : Size(g.mem, p) = Size(mem, p)
        /\ Apart(mem, H) => Apart(g.mem, H)
    <3>1. g.mem = PutFooter(PutSize(mem, h, Size(mem, h) + n),
                            h + (Size(mem, h) + n) - FooterSize, h)
      <4>1. /\ h \in Nat /\ Size(mem, h) \in Nat /\ h + Size(mem, h) = len
        BY <1>1, <2>2, <2>3, LayoutFacts DEF End
      <4>2. Size(mem, h) + n < Words
        BY ONLY <4>1, n \in Nat, len \in Nat, len + n <= MaxWords, ConstantFacts
      <4>3. Plus(Size(mem, h), n) = Size(mem, h) + n
        BY ONLY <4>1, <4>2, n \in Nat, PlusFacts
      <4> QED
        BY <2>3, <4>3
    <3>2. Layout(mem, H, B, len) /\ h \in H /\ End(mem, h) = len /\ n \in Nat /\ n >= 5
          /\ len + n <= MaxWords
      BY <1>1, <2>2, <2>3
    <3> HIDE DEF H, B
    <3> QED
      BY ONLY <3>1, <3>2, GrownLast
  <2>5. Held(g.mem, live)
    BY <1>1, <2>4, HeldKept
  <2>6. \E j \in DOMAIN index : Size(g.mem, index[j]) >= n
    BY <2>2, <2>4 DEF ToSet
  <2> QED
    BY <1>1, <2>3, <2>4, <2>5, <2>6 DEF HeapOK
<1> QED
  BY <1>2, <1>3

(* Holes are smaller than half of the address space.                       *)
LEMMA HoleSizes ==
    ASSUME NEW m, NEW q, NEW l, NEW held, HeapOK(m, q, l, held), NEW j \in DOMAIN q
    PROVE  Size(m, q[j]) < Words \div 2
<1> DEFINE H == ToSet(q)
           B == BlocksOf(held)
           p == q[j]
<1>1. Layout(m, H, B, l) /\ p \in H /\ p \in H \cup B
  BY DEF HeapOK, ToSet
<1> HIDE DEF H, B, p
<1>2. p \in Nat /\ Size(m, p) \in Nat /\ p + Size(m, p) <= l /\ l <= MaxWords /\ l \in Nat
  BY <1>1, LayoutFacts DEF End
<1>3. Size(m, p) < Words \div 2
  BY <1>2, ConstantFacts
<1> QED
  BY <1>3 DEF p

(* alloc, with or without expand, keeps the heap well formed.              *)
LEMMA AllocStep ==
    ASSUME HeapInv, NEW asked \in Sizes, NEW align \in BOOLEAN, Alloc(asked, align)
    PROVE  HeapInv'
<1> SUFFICES ASSUME slip' = "none" PROVE HeapOK(mem', index', len', live')
  BY DEF HeapInv
<1>0. /\ asked \in Nat /\ asked + Overhead \in Nat /\ asked + Overhead >= 5
      /\ asked + Overhead < Words \div 2
  BY ConstantFacts
<1>1. ASSUME NEW r, Took(r)
      PROVE  /\ slip = "none" /\ r.slip = "none"
             /\ HeapOK(Filled(r.mem, r.block), r.index, r.len, live \cup {r.block})
                   => HeapOK(mem', index', len', live')
  BY <1>1 DEF Took, First
<1>2. CASE AllocFits(asked, align)
  <2> DEFINE i == FindSmallestHole(index, mem, asked + Overhead, align)
             r == Placed(Heap, i, asked, align)
  <2>1. i # 0 /\ Took(r)
    BY <1>2 DEF AllocFits
  <2>2. slip = "none" /\ r.slip = "none" /\ HeapOK(mem, index, len, live)
    BY <1>1, <2>1 DEF HeapInv
  <2>3. i \in DOMAIN index /\ Size(mem, index[i]) >= asked + Overhead
    <3>1. index \in Seq(Int)
      BY <2>2 DEF HeapOK
    <3>2. \A j \in DOMAIN index : Size(mem, index[j]) < Words \div 2
      BY <2>2, HoleSizes
    <3> HIDE DEF r
    <3> QED
      BY <1>0, <2>1, <3>1, <3>2, FindFacts
  <2>4. Heap.mem = mem /\ Heap.index = index /\ Heap.len = len
    BY DEF Heap
  <2>5. r = Placed(Heap, i, asked, align)
    OBVIOUS
  <2> HIDE DEF r, i
  <2>6. HeapOK(Filled(r.mem, r.block), r.index, r.len, live \cup {r.block})
    <3>1. HeapOK(Heap.mem, Heap.index, Heap.len, live) /\ i \in DOMAIN Heap.index
          /\ Size(Heap.mem, Heap.index[i]) >= asked + Overhead
      BY <2>2, <2>3, <2>4
    <3>2. asked \in Sizes /\ align \in BOOLEAN
      OBVIOUS
    <3> QED
      BY ONLY <2>2, <2>5, <3>1, <3>2, PlacedOK
  <2> QED
    BY <1>1, <2>1, <2>6
<1>3. CASE AllocGrows(asked, align)
  <2> DEFINE n == asked + Overhead
             g == Grown(n)
             i == FindSmallestHole(g.index, g.mem, n, align)
             r == Placed(g, i, asked, align)
  <2>1. len + n <= MaxWords /\ Took(r)
    BY <1>3 DEF AllocGrows
  <2>2. slip = "none" /\ r.slip = "none" /\ HeapOK(mem, index, len, live)
    BY <1>1, <2>1 DEF HeapInv
  <2>3. g.slip = "none"
    <3> HIDE DEF g, i
    <3>1. r = Placed(g, i, asked, align)
      OBVIOUS
    <3> HIDE DEF r
    <3> QED
      BY <2>2, <3>1 DEF Placed
  <2>4. g = Grown(n) /\ r = Placed(g, i, asked, align)
        /\ i = FindSmallestHole(g.index, g.mem, n, align)
    OBVIOUS
  <2>5. n \in Nat /\ n >= 5
    BY <1>0
  <2> HIDE DEF r, i, g, n
  <2>6. /\ HeapOK(g.mem, g.index, g.len, live)
        /\ \E j \in DOMAIN g.index : Size(g.mem, g.index[j]) >= n
    BY <2>1, <2>2, <2>3, <2>4, <2>5, GrownOK
  <2>7. i \in DOMAIN g.index /\ Size(g.mem, g.index[i]) >= n
    <3>1. g.index \in Seq(Int)
      BY <2>6 DEF HeapOK
    <3>2. /\ i # 0 => i \in DOMAIN g.index /\ Size(g.mem, g.index[i]) >= n
          /\ i = 0 => \A j \in DOMAIN g.index : ~(Size(g.mem, g.index[j]) >= n)
      <4>1. \A j \in DOMAIN g.index : Size(g.mem, g.index[j]) < Words \div 2
        BY <2>6, HoleSizes
      <4>2. n \in Nat /\ n < Words \div 2
        BY <1>0 DEF n
      <4> QED
        BY ONLY <2>4, <3>1, <4>1, <4>2, FindFacts
    <3> QED
      BY <2>6, <3>2
  <2>8. HeapOK(Filled(r.mem, r.block), r.index, r.len, live \cup {r.block})
    <3>1. asked \in Sizes /\ align \in BOOLEAN /\ Size(g.mem, g.index[i]) >= asked + Overhead
      BY <2>7 DEF n
    <3> QED
      BY ONLY <2>2, <2>4, <2>6, <2>7, <3>1, PlacedOK
  <2> QED
    BY <1>1, <2>1, <2>8
<1> QED
  BY <1>2, <1>3 DEF Alloc

-----------------------------------------------------------------------------
(* free.                                                                   *)

(* A block becomes a hole.                                                 *)
LEMMA HoleMade ==
    ASSUME NEW m, NEW H, NEW B, NEW l, Layout(m, H, B, l), NEW h \in B,
           NEW n \in [Address -> Int], n[h + 1] = 1,
           \A a \in Address : a # h + 1 => n[a] = m[a]
    PROVE  /\ Layout(n, H \cup {h}, B \ {h}, l)
           /\ \A p \in H \cup B : Size(n, p) = Size(m, p)
<1> DEFINE s == Sized(m, H \cup B)
<1>1. DOMAIN s = H \cup B /\ \A q \in H \cup B : s[q] = Size(m, q)
  BY DEF Sized
<1>2. /\ Tiling(s, l) /\ l \in Nat /\ l \in MinWords..MaxWords /\ l <= MaxWords
      /\ MaxWords \in Nat /\ m \in [Address -> Int] /\ m[-2] # Magic /\ H \cap B = {}
  BY ConstantFacts DEF Layout
<1> HIDE DEF s
<1>3. /\ h \in Nat /\ Size(m, h) \in Nat /\ Size(m, h) >= 5 /\ End(m, h) <= l
      /\ Size(m, h) = m[h + 2] /\ Hole(m, h) = m[h + 1]
  BY LayoutFacts
<1>a. h \in Nat /\ l \in Nat /\ h + 5 <= l /\ l <= MaxWords /\ MaxWords \in Nat
  BY <1>2, <1>3 DEF End
<1>c. Address = -2..(MaxWords - 1)
  BY ConstantFacts
<1>4. n \in [Address -> Int] /\ \A a \in Address : n[a] = IF a = h + 1 THEN 1 ELSE m[a]
  OBVIOUS
<1>5. ASSUME NEW p \in H \cup B, p # h
      PROVE  /\ Size(n, p) = Size(m, p)
             /\ BlockOK(m, p) => BlockOK(n, p)
             /\ HoleOK(m, l, p) => HoleOK(n, l, p)
  <2>1. /\ p \in Nat /\ Size(m, p) \in Nat /\ Size(m, p) >= 5 /\ End(m, p) <= l
        /\ (p < h => End(m, p) <= h)
    BY LayoutFacts
  <2>2. h < p => End(m, h) <= p
    BY <2>1, LayoutFacts
  <2>3. End(m, p) \in Nat /\ (p >= h + 5 \/ End(m, p) <= h)
    BY <1>3, <1>5, <2>1, <2>2 DEF End
  <2>4. \A a \in Address : p <= a /\ a < End(m, p) => n[a] = m[a]
    BY ONLY <1>a, <1>c, <1>4, <2>1, <2>3
  <2>5. End(m, p) <= MaxWords
    BY ONLY <1>a, <2>1, <2>3
  <2>6. m \in [Address -> Int] /\ n \in [Address -> Int]
    BY <1>2, <1>4
  <2> QED
    BY ONLY <2>1, <2>4, <2>5, <2>6, PartFrame
<1>6. BlockOK(m, h)
  BY DEF Layout
<1>7. /\ n[h] = Magic /\ n[h + 1] = 1 /\ n[h + 2] = m[h + 2]
      /\ n[End(m, h) - 2] = Magic /\ n[End(m, h) - 1] = h
  <2> DEFINE e == End(m, h)
  <2>1. e \in Nat /\ h + 5 <= e /\ e <= l
    BY <1>3 DEF End
  <2>2. m[h] = Magic /\ m[e - 2] = Magic /\ m[e - 1] = h
    BY <1>6 DEF BlockOK
  <2> HIDE DEF e
  <2>3. {h, h + 1, h + 2, e - 2, e - 1} \subseteq Address /\ h # h + 1
        /\ h + 2 # h + 1 /\ e - 2 # h + 1 /\ e - 1 # h + 1
    BY ONLY <1>a, <1>c, <2>1
  <2>4. n[h] = Magic /\ n[h + 1] = 1 /\ n[h + 2] = m[h + 2]
        /\ n[e - 2] = Magic /\ n[e - 1] = h
    BY <1>4, <2>2, <2>3
  <2> QED
    BY <2>4 DEF e
<1>8. Size(n, h) = Size(m, h) /\ Hole(n, h) = 1
  <2>1. h + 2 < MaxWords
    BY ONLY <1>a
  <2> QED
    BY <1>3, <1>7, <2>1, HeaderFacts
<1>9. HoleOK(n, l, h)
  <2>1. End(n, h) = End(m, h)
    BY <1>8 DEF End
  <2> QED
    BY <1>7, <1>8, <2>1 DEF HoleOK
<1>10. \A p \in H \cup {h} : HoleOK(n, l, p)
  BY <1>2, <1>5, <1>9 DEF Layout
<1>11. \A p \in B \ {h} : BlockOK(n, p)
  BY <1>5 DEF Layout
<1>12. \A p \in H \cup B : Size(n, p) = Size(m, p)
  BY <1>5, <1>8
<1>13. /\ DOMAIN s = (H \cup {h}) \cup (B \ {h})
       /\ \A p \in (H \cup {h}) \cup (B \ {h}) : Size(n, p) = s[p]
  BY <1>1, <1>12
<1>14. n[-2] # Magic
  <2>1. -2 \in Address /\ -2 # h + 1
    BY ONLY <1>a, <1>c
  <2> QED
    BY <1>2, <1>4, <2>1
<1>15. (H \cup {h}) \cap (B \ {h}) = {}
  BY <1>2
<1>16. Layout(n, H \cup {h}, B \ {h}, l)
  BY <1>2, <1>4, <1>10, <1>11, <1>13, <1>14, <1>15, LayoutIntro
<1> QED
  BY <1>12, <1>16

(***************************************************************************)
(* The hole r behind the hole p is merged into it.  Where the merged hole  *)
(* does not end the heap, its last word leads to p or to the header of a   *)
(* hole that is now inside of it.                                          *)
(***************************************************************************)
LEMMA HolesJoined ==
    ASSUME NEW m, NEW H, NEW B, NEW l, Layout(m, H, B, l), NEW p \in H, NEW r \in H,
           End(m, p) = r, NEW n \in [Address -> Int],
           \A a \in Address : a # p + 2 /\ a # End(m, r) - 1 => n[a] = m[a],
           n[p + 2] = Size(m, p) + Size(m, r),
           n[End(m, r) - 1] = m[End(m, r) - 1] \/ n[End(m, r) - 1] = p
    PROVE  /\ Layout(n, H \ {r}, B, l) /\ End(n, p) = End(m, r) /\ p # r
           /\ \A q \in (H \cup B) \ {p, r} : Size(n, q) = Size(m, q)
<1> DEFINE s == Sized(m, H \cup B)
           t == Merge(s, p, r)
           e == End(m, r)
<1>1. DOMAIN s = H \cup B /\ \A q \in H \cup B : s[q] = Size(m, q)
  BY DEF Sized
<1>2. /\ Tiling(s, l) /\ l \in Nat /\ l \in MinWords..MaxWords /\ l <= MaxWords
      /\ MaxWords \in Nat /\ m \in [Address -> Int] /\ m[-2] # Magic /\ H \cap B = {}
  BY ConstantFacts DEF Layout
<1> HIDE DEF s
<1>3. /\ p \in Nat /\ Size(m, p) \in Nat /\ Size(m, p) >= 5 /\ r = p + Size(m, p)
      /\ Hole(m, p) = m[p + 1]
  BY LayoutFacts DEF End
<1>4. /\ r \in Nat /\ Size(m, r) \in Nat /\ Size(m, r) >= 5 /\ e = r + Size(m, r) /\ e <= l
  BY LayoutFacts DEF End
<1>5. Tiling(t, l) /\ DOMAIN t = (H \cup B) \ {r}
      /\ \A q \in (H \cup B) \ {r} :
            t[q] = IF q = p THEN Size(m, p) + Size(m, r) ELSE Size(m, q)
  <2>1. p \in DOMAIN s /\ r \in DOMAIN s /\ p + s[p] = r
    BY <1>1, <1>3
  <2>2. Tiling(t, l)
    BY <1>2, <2>1, MergeTiling
  <2> QED
    BY <1>1, <2>2 DEF Merge
<1>6. /\ e \in Nat /\ p + 5 <= r /\ r + 5 <= e /\ e <= MaxWords /\ p # r
      /\ p \in Nat /\ r \in Nat
  BY <1>2, <1>3, <1>4
<1> HIDE DEF t
<1>c. Address = -2..(MaxWords - 1) /\ MaxWords \in Nat /\ Overhead = 5
  BY ConstantFacts
<1>7. \A a \in Address : a # p + 2 /\ a # e - 1 => n[a] = m[a]
  OBVIOUS
<1>8. /\ m[p] = Magic /\ m[p + 1] = 1
      /\ e < l => /\ m[e - 2] = Magic
                  /\ m[e - 1] = r \/ (r + Overhead <= m[e - 1] /\ m[e - 1] + Overhead <= e)
                  /\ Hole(m, m[e - 1]) = 1
  BY <1>3 DEF Layout, HoleOK
<1>s. n[p + 2] = Size(m, p) + Size(m, r) /\ (n[e - 1] = m[e - 1] \/ n[e - 1] = p)
  OBVIOUS
<1> HIDE DEF e
<1>9. n[p] = Magic /\ n[p + 1] = 1 /\ n[e - 2] = m[e - 2]
  <2>1. {p, p + 1, e - 2} \subseteq Address /\ p # p + 2 /\ p + 1 # p + 2 /\ p # e - 1
        /\ p + 1 # e - 1 /\ e - 2 # p + 2 /\ e - 2 # e - 1
    BY ONLY <1>6, <1>c
  <2> QED
    BY <1>7, <1>8, <2>1
<1>10. Size(n, p) = Size(m, p) + Size(m, r) /\ Hole(n, p) = 1 /\ End(n, p) = e
  <2>1. p + 2 < MaxWords
    BY ONLY <1>6, <1>c
  <2>2. Size(n, p) = n[p + 2] /\ Hole(n, p) = n[p + 1]
    BY <1>3, <2>1, HeaderFacts
  <2>3. p + (Size(m, p) + Size(m, r)) = e
    BY <1>3, <1>4
  <2> QED
    BY <1>9, <1>s, <2>2, <2>3 DEF End
<1>11. ASSUME NEW q \in H \cup B, q # p, q # r
       PROVE  /\ Size(n, q) = Size(m, q)
              /\ BlockOK(m, q) => BlockOK(n, q)
              /\ HoleOK(m, l, q) => HoleOK(n, l, q)
  <2>1. /\ q \in Nat /\ Size(m, q) \in Nat /\ Size(m, q) >= 5 /\ End(m, q) <= l
        /\ (q < p => End(m, q) <= p) /\ (q < r => End(m, q) <= r)
    BY LayoutFacts
  <2>2. (p < q => r <= q) /\ (r < q => e <= q)
    BY <2>1, LayoutFacts DEF e
  <2>3. End(m, q) \in Nat /\ End(m, q) >= q + 5
    BY <2>1 DEF End
  <2>4. q >= e \/ End(m, q) <= p
    <3>1. q # p /\ q # r
      BY <1>11
    <3>2. CASE q < p
      BY <2>1, <3>2
    <3>3. CASE p < q
      <4>1. r <= q
        BY <2>2, <3>3
      <4>2. r < q
        BY ONLY <1>6, <2>1, <3>1, <4>1
      <4> QED
        BY ONLY <1>6, <2>1, <2>2, <4>2
    <3> QED
      BY ONLY <1>6, <2>1, <3>1, <3>2, <3>3
  <2>5. \A a \in Address : q <= a /\ a < End(m, q) => n[a] = m[a]
    <3> SUFFICES ASSUME NEW a \in Address, q <= a, a < End(m, q) PROVE n[a] = m[a]
      OBVIOUS
    <3>0. a \in Int /\ q \in Nat
      BY <1>c, <2>1
    <3>1. a # p + 2 /\ a # e - 1
      BY <1>6, <2>3, <2>4, <3>0
    <3> QED
      BY <1>7, <3>1
  <2>6. End(m, q) <= MaxWords
    BY <1>2, <2>1, <2>3
  <2> QED
    BY <1>2, <2>1, <2>5, <2>6, PartFrame
<1>12. HoleOK(n, l, p)
  <2>1. ASSUME e < l
        PROVE  /\ n[e - 2] = Magic
               /\ n[e - 1] = p \/ (p + Overhead <= n[e - 1] /\ n[e - 1] + Overhead <= e)
               /\ Hole(n, n[e - 1]) = 1
    <3>1. n[e - 2] = Magic
      BY <1>8, <1>9, <2>1
    <3>2. CASE n[e - 1] = p
      BY <1>10, <3>1, <3>2
    <3>3. CASE n[e - 1] = m[e - 1]
      <4> DEFINE x == m[e - 1]
      <4>1. x = r \/ (r + 5 <= x /\ x + 5 <= e)
        BY <1>8, <1>c, <2>1
      <4>2. x \in Int /\ Hole(m, x) = 1
        <5>1. e - 1 \in Address
          BY ONLY <1>6, <1>c
        <5> QED
          BY <1>2, <1>8, <2>1, <5>1
      <4> HIDE DEF x
      <4>3. p + 5 <= x /\ x + 5 <= e /\ x \in Nat /\ x + 2 < MaxWords
        BY ONLY <1>6, <1>c, <4>1, <4>2
      <4>4. x + 1 \in Address /\ x + 1 # p + 2 /\ x + 1 # e - 1
        BY ONLY <1>6, <1>c, <4>3
      <4>5. n[x + 1] = m[x + 1]
        BY <1>7, <4>4
      <4>6. Hole(n, x) = 1
        BY <4>2, <4>3, <4>5, HeaderFacts
      <4> QED
        BY <1>c, <3>1, <3>3, <4>3, <4>6 DEF x
    <3> QED
      BY <1>s, <3>2, <3>3
  <2> QED
    BY <1>9, <1>10, <2>1 DEF HoleOK
<1>13. \A q \in H \ {r} : HoleOK(n, l, q)
  BY <1>11, <1>12 DEF Layout
<1>14. \A q \in B : BlockOK(n, q)
  BY <1>2, <1>11 DEF Layout
<1>15. DOMAIN t = (H \ {r}) \cup B /\ \A q \in (H \ {r}) \cup B : Size(n, q) = t[q]
  BY <1>2, <1>5, <1>10, <1>11
<1>16. n[-2] # Magic
  <2>1. -2 \in Address /\ -2 # p + 2 /\ -2 # e - 1
    BY ONLY <1>6, <1>c
  <2> QED
    BY <1>2, <1>7, <2>1
<1>17. (H \ {r}) \cap B = {}
  BY <1>2
<1>18. Layout(n, H \ {r}, B, l)
  BY <1>2, <1>5, <1>13, <1>14, <1>15, <1>16, <1>17, LayoutIntro
<1> QED
  BY <1>6, <1>10, <1>11, <1>18 DEF e

(***************************************************************************)
(* The test of the word in front of a hole: the footer it finds belongs to *)
(* a hole exactly if the part in front is one, and it leads to that hole   *)
(* or to none of the index.                                                *)
(***************************************************************************)
LEMMA LeftFacts ==
    ASSUME NEW n, NEW K, NEW B, NEW l, Layout(n, K, B, l), NEW h \in K
    PROVE  /\ n[h - 2] = Magic /\ Hole(n, n[h - 1]) = 1 =>
                 \E p \in K : End(n, p) = h /\ (n[h - 1] \in K => n[h - 1] = p)
           /\ ~(n[h - 2] = Magic /\ Hole(n, n[h - 1]) = 1) =>
                 \A p \in K : End(n, p) # h
<1>1. /\ h \in Nat /\ Size(n, h) \in Nat /\ Size(n, h) >= 5 /\ End(n, h) <= l /\ l \in Nat
      /\ h # 0 => \E q \in K \cup B : End(n, q) = h
  BY LayoutFacts
<1>2. h < l
  BY <1>1 DEF End
<1>c. Overhead = 5
  BY ConstantFacts
<1>3. ASSUME NEW p \in K, End(n, p) = h
      PROVE  /\ n[h - 2] = Magic /\ Hole(n, n[h - 1]) = 1
             /\ n[h - 1] = p \/ (p + 5 <= n[h - 1] /\ n[h - 1] + 5 <= h)
  <2>1. HoleOK(n, l, p)
    BY DEF Layout
  <2> QED
    BY <1>2, <1>3, <1>c, <2>1 DEF HoleOK
<1>4. ASSUME n[h - 2] = Magic, Hole(n, n[h - 1]) = 1
      PROVE  \E p \in K : End(n, p) = h /\ (n[h - 1] \in K => n[h - 1] = p)
  <2>1. h # 0
    BY <1>4 DEF Layout
  <2>2. PICK q \in K \cup B : End(n, q) = h
    BY <1>1, <2>1
  <2>3. q \notin B
    <3> SUFFICES ASSUME q \in B PROVE FALSE
      OBVIOUS
    <3>1. BlockOK(n, q)
      BY DEF Layout
    <3>2. n[h - 1] = q /\ Hole(n, q) = 0
      BY <2>2, <3>1 DEF BlockOK
    <3> QED
      BY <1>4, <3>2
  <2>4. q \in K
    BY <2>3
  <2>5. n[h - 1] \in K => n[h - 1] = q
    <3> SUFFICES ASSUME n[h - 1] \in K, n[h - 1] # q PROVE FALSE
      OBVIOUS
    <3> DEFINE x == n[h - 1]
    <3>1. q + 5 <= x /\ x + 5 <= h
      BY <1>3, <2>2, <2>4
    <3>2. x \in Nat /\ q \in Nat /\ (q < x => End(n, q) <= x)
      BY <2>4, LayoutFacts
    <3> HIDE DEF x
    <3> QED
      BY <1>1, <2>2, <3>1, <3>2
  <2> QED
    BY <2>2, <2>4, <2>5
<1> QED
  BY <1>3, <1>4

(* The layout after the unification to the left, with the hole at hd: only *)
(* behind it there may be another one.                                     *)
FreedLeft(n, hd, h, r) ==
    /\ Layout(n, Holes \cup {hd}, BlocksOf(live) \ {h}, len)
    /\ End(n, hd) = r /\ hd \in Nat
    /\ \A p \in BlocksOf(live) \ {h} : Size(n, p) = Size(mem, p)
    /\ \A p \in Holes : p # hd => End(n, p) \notin Holes \cup {hd}

(* The unification to the left turns the block into a hole, merged with    *)
(* the one in front of it if there is one.                                 *)
LEMMA UnifiedLeftOK ==
    ASSUME HeapOK(mem, index, len, live), NEW h \in BlocksOf(live),
           NEW u, u = UnifiedLeft(h), u.slip = "none"
    PROVE  /\ FreedLeft(u.mem, u.header, h, h + Size(mem, h))
           /\ u.add \in BOOLEAN /\ (u.add <=> u.header \notin Holes)
<1> DEFINE H == ToSet(index)
           B == BlocksOf(live)
           K == H \cup {h}
           m == [mem EXCEPT ![h + 1] = 1]
           to == m[h - 1]
           left == m[h - 2] = Magic /\ Hole(m, to) = 1
           f == h + Size(m, h) - FooterSize
<1>1. /\ index \in Seq(Int) /\ Layout(mem, H, B, len) /\ Apart(mem, H)
      /\ H \cap B = {} /\ mem \in [Address -> Int]
  BY DEF HeapOK, Layout
<1>c. FooterSize = 2 /\ Address = -2..(MaxWords - 1) /\ MaxWords \in Nat
  BY ConstantFacts
<1>2. /\ Layout(m, K, B \ {h}, len)
      /\ \A p \in H \cup B : Size(m, p) = Size(mem, p)
  <2> DEFINE x == h + 1
  <2>1. m = [mem EXCEPT ![x] = 1] /\ h \in B /\ 1 \in Int
    OBVIOUS
  <2>2. x \in Address
    <3>1. h \in H \cup B
      BY <2>1
    <3>2. h \in Nat /\ Size(mem, h) \in Nat /\ Size(mem, h) >= 5 /\ h + Size(mem, h) <= len
          /\ len <= MaxWords /\ len \in Nat
      BY ONLY <1>1, <3>1, LayoutFacts DEF End
    <3>3. h + 1 \in -2..(MaxWords - 1)
      BY ONLY <1>c, <3>2
    <3> QED
      BY <1>c, <3>3
  <2> HIDE DEF m, H, B, x
  <2>3. m \in [Address -> Int] /\ m[x] = 1 /\ \A a \in Address : a # x => m[a] = mem[a]
    BY ONLY <1>1, <2>1, <2>2
  <2>4. m[h + 1] = 1 /\ \A a \in Address : a # h + 1 => m[a] = mem[a]
    BY <2>3 DEF x
  <2> QED
    <3>1. H \cup {h} = K
      BY DEF K
    <3>2. Layout(mem, H, B, len) /\ h \in B
      BY <1>1, <2>1
    <3> HIDE DEF K
    <3>3. /\ Layout(m, H \cup {h}, B \ {h}, len)
          /\ \A p \in H \cup B : Size(m, p) = Size(mem, p)
      BY ONLY <3>2, <2>3, <2>4, HoleMade
    <3> QED
      BY ONLY <3>1, <3>3
<1>3. u = IF left
          THEN [mem |-> PutSize([m EXCEPT ![f + 1] = to], to, Plus(Size(m, to), Size(m, h))),
                header |-> to, add |-> FALSE,
                slip |-> IF Contains(index, to) THEN "none" ELSE "stale footer"]
          ELSE [mem |-> m, header |-> h, add |-> TRUE, slip |-> "none"]
  <2>1. left = (m[h - FooterSize] = Magic /\ Hole(m, to) = 1)
    BY ONLY <1>c
  <2>2. u = UnifiedLeft(h)
    OBVIOUS
  <2> QED
    BY ONLY <2>1, <2>2 DEF UnifiedLeft
<1>4. /\ h \in Nat /\ Size(m, h) \in Nat /\ Size(m, h) >= 5 /\ End(m, h) <= len
      /\ len <= MaxWords /\ len \in Nat /\ Size(m, h) = Size(mem, h)
  <2>1. h \in K \cup (B \ {h}) /\ h \in H \cup B
    OBVIOUS
  <2> HIDE DEF m, H, B, K
  <2> QED
    BY ONLY <1>2, <2>1, LayoutFacts
<1>5. \A p \in H : End(m, p) = End(mem, p) /\ End(m, p) \notin H
  BY <1>1, <1>2 DEF End, Apart
<1>6. h \notin H /\ h \in K /\ h \in B
  BY <1>1
<1>7. Holes = H
  BY DEF Holes
<1>t. m \in [Address -> Int]
  BY <1>2 DEF Layout
<1> HIDE DEF m, to
<1>8. CASE ~left
  <2>1. u.mem = m /\ u.header = h /\ u.add = TRUE
    <3>1. u = [mem |-> m, header |-> h, add |-> TRUE, slip |-> "none"]
      BY <1>3, <1>8
    <3> QED
      BY <3>1
  <2>2. \A p \in K : End(m, p) # h
    BY <1>2, <1>6, <1>8, LeftFacts DEF to
  <2>3. FreedLeft(m, h, h, h + Size(mem, h))
    <3>1. End(m, h) = h + Size(mem, h)
      BY <1>4 DEF End
    <3>2. \A p \in H : p # h => End(m, p) \notin H \cup {h}
      BY <1>5, <2>2
    <3> QED
      BY <1>2, <1>4, <1>7, <3>1, <3>2 DEF FreedLeft
  <2> QED
    BY <1>6, <1>7, <2>1, <2>3
<1>9. CASE left
  <2> DEFINE m2 == [m EXCEPT ![f + 1] = to]
             n == PutSize(m2, to, Plus(Size(m, to), Size(m, h)))
             sl == IF Contains(index, to) THEN "none" ELSE "stale footer"
  <2>1. u.mem = n /\ u.header = to /\ u.add = FALSE /\ u.slip = sl
    <3>1. u = [mem |-> n, header |-> to, add |-> FALSE, slip |-> sl]
      BY <1>3, <1>9
    <3> HIDE DEF n, sl
    <3> QED
      BY <3>1
  <2>2. to \in H
    <3>1. "stale footer" # "none"
      OBVIOUS
    <3>2. Contains(index, to)
      BY <2>1, <3>1
    <3> QED
      BY <1>1, <3>2 DEF Contains, ToSet
  <2>3. End(m, to) = h /\ to \in K
    BY <1>2, <1>6, <1>9, <2>2, LeftFacts DEF to
  <2>4. /\ to \in Nat /\ Size(m, to) \in Nat /\ Size(m, to) >= 5 /\ to + Size(m, to) = h
    BY <1>2, <2>3, LayoutFacts DEF End
  <2>5. f + 1 = End(m, h) - 1 /\ f + 1 \in Nat /\ f + 1 \in Address /\ to + 2 \in Address
        /\ f + 1 # to + 2 /\ f \in Nat /\ h + 5 <= f + 2 /\ f + 2 = h + Size(mem, h)
    <3> DEFINE k == Size(m, h)
               e == End(m, h)
    <3>1. /\ h \in Nat /\ k \in Nat /\ k >= 5 /\ e <= len /\ len <= MaxWords /\ len \in Nat
          /\ k = Size(mem, h) /\ e = h + k
      BY <1>4 DEF End
    <3>2. f = h + k - 2
      BY <1>c DEF f
    <3> HIDE DEF k, e, f
    <3>3. /\ f + 1 = e - 1 /\ f + 1 \in Nat /\ f \in Nat /\ h + 5 <= f + 2
          /\ f + 2 = h + k
      BY ONLY <3>1, <3>2
    <3>4. f + 1 \in Address /\ to + 2 \in Address /\ f + 1 # to + 2
      <4>1. to \in Nat /\ to + 5 <= h
        BY ONLY <2>4, <3>1
      <4>2. f + 1 <= MaxWords - 1 /\ to + 2 <= MaxWords - 1 /\ f + 1 # to + 2
        BY ONLY <1>c, <3>1, <3>3, <4>1
      <4> QED
        BY ONLY <1>c, <3>3, <4>1, <4>2
    <3> QED
      BY <3>1, <3>3, <3>4 DEF e
  <2> DEFINE x == f + 1
  <2>6. m2 \in [Address -> Int] /\ \A a \in Address : m2[a] = IF a = x THEN to ELSE m[a]
    <3>1. m2 = [m EXCEPT ![x] = to] /\ to \in Int
      BY <2>4
    <3> HIDE DEF x, m2
    <3> QED
      BY ONLY <1>t, <3>1
  <2> HIDE DEF m2
  <2>7. /\ n \in [Address -> Int]
        /\ \A a \in Address : n[a] =
              IF a = to + 2 THEN Size(m, to) + Size(m, h) ELSE m2[a]
    <3>1. to \in Int /\ Size(m, to) + Size(m, h) \in Int
      BY <1>4, <2>4
    <3>2. Plus(Size(m, to), Size(m, h)) = Size(m, to) + Size(m, h)
      <4>1. Size(m, to) \in Nat /\ Size(m, h) \in Nat /\ Size(m, to) + Size(m, h) <= MaxWords
        BY ONLY <1>4, <1>c, <2>4 DEF End
      <4>2. Size(m, to) + Size(m, h) < Words
        BY ONLY <4>1, ConstantFacts
      <4> QED
        BY ONLY <4>1, <4>2, PlusFacts
    <3> QED
      BY <2>6, <3>1, <3>2, PutSizeFacts
  <2> HIDE DEF n, f
  <2>8. /\ \A a \in Address : a # to + 2 /\ a # End(m, h) - 1 => n[a] = m[a]
        /\ n[to + 2] = Size(m, to) + Size(m, h)
        /\ n[End(m, h) - 1] = to
    <3>1. x = End(m, h) - 1 /\ x \in Address /\ x # to + 2
      BY <2>5
    <3> HIDE DEF x
    <3> QED
      BY <2>5, <2>6, <2>7, <3>1
  <2>9. /\ Layout(n, K \ {h}, B \ {h}, len) /\ End(n, to) = End(m, h) /\ to # h
        /\ \A q \in (K \cup (B \ {h})) \ {to, h} : Size(n, q) = Size(m, q)
    <3>1. Layout(m, K, B \ {h}, len) /\ to \in K /\ h \in K /\ End(m, to) = h
          /\ n \in [Address -> Int]
      BY <1>2, <1>6, <2>3, <2>7
    <3>2. n[End(m, h) - 1] = m[End(m, h) - 1] \/ n[End(m, h) - 1] = to
      BY <2>8
    <3> HIDE DEF K, B
    <3> QED
      BY <2>8, <3>1, <3>2, HolesJoined
  <2>10. H = K \ {h} /\ H \cup {to} = H
    BY <1>6, <2>2
  <2>11. End(n, to) = h + Size(mem, h)
    BY <1>4, <2>9 DEF End
  <2>12. \A p \in B \ {h} : Size(n, p) = Size(mem, p)
    BY <1>1, <1>2, <2>2, <2>9
  <2>13. \A p \in H : p # to => End(n, p) \notin H
    BY <1>5, <1>6, <2>9 DEF End
  <2>14. FreedLeft(n, to, h, h + Size(mem, h))
    BY <1>7, <2>4, <2>9, <2>10, <2>11, <2>12, <2>13 DEF FreedLeft
  <2> QED
    BY <1>7, <2>1, <2>2, <2>14
<1> QED
  BY <1>8, <1>9

(* A unification to the right without a slip follows one to the left       *)
(* without.                                                                *)
LEMMA RightFacts ==
    ASSUME NEW u, NEW r, UnifiedRight(u, r).slip = "none"
    PROVE  u.slip = "none"
<1> DEFINE astray == r = len /\ len % PageWords = 0
<1>1. UnifiedRight(u, r).slip = IF astray THEN "read behind the heap" ELSE u.slip
  BY DEF UnifiedRight
<1> HIDE DEF astray
<1> QED
  BY <1>1

(* The heap after both unifications, with the hole at hd, which may not be *)
(* in the index yet: no two holes lie side by side.                        *)
Freed(n, q, l, hd, h) ==
    /\ q \in Seq(Int) /\ Injective(q) /\ hd \in Nat
    /\ Layout(n, ToSet(q) \cup {hd}, BlocksOf(live) \ {h}, l)
    /\ \A p \in BlocksOf(live) \ {h} : Size(n, p) = Size(mem, p)
    /\ Apart(n, ToSet(q) \cup {hd})
    /\ hd \in ToSet(q) <=> hd \in Holes

(* The unification to the right, on the hole that the block has become.    *)
LEMMA UnifiedRightOK ==
    ASSUME HeapOK(mem, index, len, live), NEW h \in BlocksOf(live), NEW u, NEW r,
           FreedLeft(u.mem, u.header, h, r),
           RightHole(u.mem, r) => Contains(index, r),
           NEW v, v = UnifiedRight(u, r), v.slip = "none"
    PROVE  Freed(v.mem, v.index, len, u.header, h) /\ End(v.mem, u.header) = v.stop
<1> DEFINE n == u.mem
           hd == u.header
           H == ToSet(index)
           J == H \cup {hd}
           B == BlocksOf(live) \ {h}
           right == Word(n, r) = Magic /\ Hole(n, r) # 0
<1>1. /\ index \in Seq(Int) /\ Injective(index) /\ Holes = H
  BY DEF HeapOK, Holes
<1>2. /\ Layout(n, J, B, len) /\ End(n, hd) = r /\ hd \in Nat
      /\ \A p \in B : Size(n, p) = Size(mem, p)
      /\ \A p \in H : p # hd => End(n, p) \notin J
  BY <1>1 DEF FreedLeft
<1>c. Address = -2..(MaxWords - 1) /\ MaxWords \in Nat
  BY ConstantFacts
<1>v. /\ v.mem = IF right THEN PutSize(n, hd, Plus(Size(n, hd), Size(n, r))) ELSE n
      /\ v.index = IF right THEN RemoveItem(index, r) ELSE index
      /\ v.stop = IF right THEN r + Size(n, r) ELSE r
  BY DEF UnifiedRight, RightHole
<1>s. right => Contains(index, r)
  BY DEF RightHole
<1>j. hd \in J /\ H \subseteq J
  OBVIOUS
<1>d. J \cap B = {} /\ n \in [Address -> Int]
  BY <1>2 DEF Layout
<1>w. J = H \cup {hd}
  OBVIOUS
<1> HIDE DEF n, hd, H, J, B
<1>3. /\ hd \in Nat /\ Size(n, hd) \in Nat /\ Size(n, hd) >= 5 /\ hd + Size(n, hd) = r
      /\ len \in Nat /\ len <= MaxWords
  <2>1. hd \in J \cup B
    BY <1>j
  <2> QED
    BY ONLY <1>2, <2>1, LayoutFacts DEF End
<1>4. r # hd /\ r \in Nat /\ hd + 5 <= r
  BY ONLY <1>3
<1>5. CASE right
  <2> DEFINE k == Size(n, hd) + Size(n, r)
             n2 == PutSize(n, hd, k)
             q == RemoveItem(index, r)
  <2>1. r \in H
    BY <1>1, <1>5, <1>s DEF Contains, ToSet, H
  <2>2. r \in J
    BY <1>j, <2>1
  <2>3. /\ Size(n, r) \in Nat /\ Size(n, r) >= 5 /\ r + Size(n, r) <= len
        /\ End(n, r) = r + Size(n, r)
    <3>1. r \in J \cup B
      BY <2>2
    <3> QED
      BY ONLY <1>2, <3>1, LayoutFacts DEF End
  <2>4. k \in Int /\ Plus(Size(n, hd), Size(n, r)) = k
    <3>1. /\ Size(n, hd) \in Nat /\ Size(n, r) \in Nat
          /\ Size(n, hd) + Size(n, r) <= MaxWords
      BY ONLY <1>3, <1>c, <2>3
    <3>2. Size(n, hd) + Size(n, r) < Words
      BY ONLY <3>1, ConstantFacts
    <3> QED
      BY ONLY <3>1, <3>2, PlusFacts
  <2>5. /\ n2 \in [Address -> Int]
        /\ \A a \in Address : n2[a] = IF a = hd + 2 THEN k ELSE n[a]
    <3>1. hd \in Int
      BY <1>3
    <3> HIDE DEF k
    <3> QED
      BY <1>d, <2>4, <3>1, PutSizeFacts
  <2>6. /\ hd + 2 \in Address /\ End(n, r) - 1 \in Address
        /\ End(n, r) - 1 # hd + 2
    BY ONLY <1>3, <1>4, <1>c, <2>3
  <2> HIDE DEF k, n2
  <2>7. /\ \A a \in Address : a # hd + 2 /\ a # End(n, r) - 1 => n2[a] = n[a]
        /\ n2[hd + 2] = k /\ n2[End(n, r) - 1] = n[End(n, r) - 1]
    BY ONLY <2>5, <2>6
  <2>8. /\ Layout(n2, J \ {r}, B, len) /\ End(n2, hd) = End(n, r)
        /\ \A p \in (J \cup B) \ {hd, r} : Size(n2, p) = Size(n, p)
    <3>1. n2[hd + 2] = Size(n, hd) + Size(n, r)
      BY <2>7 DEF k
    <3> QED
      BY ONLY <1>2, <1>j, <2>2, <2>5, <2>7, <3>1, HolesJoined
  <2>9. /\ q \in Seq(Int) /\ Injective(q) /\ ToSet(q) = H \ {r}
    BY ONLY <1>1, <2>1, RemoveItemFacts DEF H
  <2>10. ToSet(q) \cup {hd} = J \ {r} /\ (hd \in ToSet(q) <=> hd \in H)
    BY ONLY <1>4, <1>w, <2>9
  <2>11. \A p \in B : Size(n2, p) = Size(mem, p)
    BY ONLY <1>2, <1>d, <1>j, <2>2, <2>8
  <2>12. Apart(n2, J \ {r})
    <3>1. End(n2, hd) \notin J \ {r}
      BY ONLY <1>2, <1>4, <2>1, <2>8
    <3>2. ASSUME NEW p \in J \ {r}, p # hd
          PROVE  End(n2, p) \notin J \ {r}
      <4>1. p \in H /\ p \in (J \cup B) \ {hd, r}
        BY ONLY <1>w, <3>2
      <4>2. End(n2, p) = End(n, p)
        BY ONLY <2>8, <4>1 DEF End
      <4> QED
        BY ONLY <1>2, <3>2, <4>1, <4>2
    <3> QED
      BY ONLY <3>1, <3>2 DEF Apart
  <2>13. v.mem = n2 /\ v.index = q /\ v.stop = End(n, r)
    BY <1>5, <1>v, <2>3, <2>4 DEF n2
  <2> HIDE DEF q
  <2>14. Freed(n2, q, len, hd, h) /\ End(n2, hd) = End(n, r)
    BY ONLY <1>1, <1>3, <2>8, <2>9, <2>10, <2>11, <2>12 DEF Freed, B
  <2> QED
    BY <2>13, <2>14 DEF hd
<1>6. CASE ~right
  <2>1. v.mem = n /\ v.index = index /\ v.stop = r
    BY <1>6, <1>v
  <2>2. r \notin H
    <3> SUFFICES ASSUME r \in H PROVE FALSE
      OBVIOUS
    <3>1. r \in J /\ r \in J \cup B
      BY <1>j
    <3>2. HoleOK(n, len, r)
      BY <1>2, <3>1 DEF Layout
    <3>3. Size(n, r) \in Nat /\ Size(n, r) >= 5 /\ r + Size(n, r) <= len
      BY ONLY <1>2, <3>1, LayoutFacts DEF End
    <3>4. r \in Address
      BY ONLY <1>3, <1>4, <1>c, <3>3
    <3>5. Word(n, r) = Magic /\ Hole(n, r) = 1
      BY <3>2, <3>4 DEF HoleOK, Word
    <3> QED
      BY <1>6, <3>5
  <2>3. Apart(n, J)
    <3>1. End(n, hd) \notin J
      BY ONLY <1>2, <1>4, <1>w, <2>2
    <3> QED
      BY ONLY <1>2, <1>w, <3>1 DEF Apart
  <2>4. Freed(n, index, len, hd, h) /\ End(n, hd) = r
    BY ONLY <1>1, <1>2, <2>3 DEF Freed, B, J, H
  <2> QED
    BY <2>1, <2>4 DEF hd
<1> QED
  BY <1>5, <1>6

(***************************************************************************)
(* The last hole p is cut short at k, and so is the heap.  Its footer and  *)
(* what lies behind k do not matter to the layout.                         *)
(***************************************************************************)
LEMMA Shortened ==
    ASSUME NEW m, NEW H, NEW B, NEW l, Layout(m, H, B, l), NEW p \in H, End(m, p) = l,
           NEW k \in Nat, MinWords <= k, k <= l, p + 5 <= k, NEW n \in [Address -> Int],
           \A a \in Address : a < k - 2 /\ a # p + 2 => n[a] = m[a],
           n[p + 2] = k - p
    PROVE  /\ Layout(n, H, B, k)
           /\ \A q \in B : Size(n, q) = Size(m, q)
           /\ Apart(m, H) => Apart(n, H)
<1> DEFINE s == Sized(m, H \cup B)
<1>1. DOMAIN s = H \cup B /\ \A q \in H \cup B : s[q] = Size(m, q)
  BY DEF Sized
<1>2. /\ Tiling(s, l) /\ l \in Nat /\ l <= MaxWords /\ MinWords \in Nat /\ MaxWords \in Nat
      /\ m \in [Address -> Int] /\ m[-2] # Magic /\ H \cap B = {}
  BY ConstantFacts DEF Layout
<1> HIDE DEF s
<1>3. /\ p \in Nat /\ Size(m, p) \in Nat /\ Size(m, p) >= 5 /\ p + Size(m, p) = l
      /\ Hole(m, p) = m[p + 1]
  BY LayoutFacts DEF End
<1>a. /\ p \in Nat /\ l \in Nat /\ p + 5 <= k /\ k \in Nat /\ k <= l
      /\ l <= MaxWords /\ MaxWords \in Nat
  BY <1>2, <1>3
<1>c. /\ Address = -2..(MaxWords - 1) /\ Overhead = 5
  BY ConstantFacts
<1> DEFINE size == k - p
           t == [x \in DOMAIN s |-> IF x = p THEN size ELSE s[x]]
<1>4. size \in Nat /\ size >= 5 /\ p + size = k
  BY ONLY <1>a
<1>f. \A a \in Address : a < k - 2 /\ a # p + 2 => n[a] = m[a]
  OBVIOUS
<1>g. n[p + 2] = size
  OBVIOUS
<1> HIDE DEF size
<1>6. Tiling(t, k)
  <2>1. p \in DOMAIN s /\ p + s[p] = l /\ Overhead <= size
    BY <1>1, <1>3, <1>4, <1>c
  <2>2. Tiling(t, p + size)
    BY <1>2, <1>4, <2>1, ResizeTiling
  <2> QED
    BY <1>4, <2>2
<1>10. n[p] = Magic /\ n[p + 1] = 1
  <2>1. {p, p + 1} \subseteq Address /\ p < k - 2 /\ p + 1 < k - 2 /\ p # p + 2
        /\ p + 1 # p + 2
    BY ONLY <1>a, <1>c
  <2>2. m[p] = Magic /\ m[p + 1] = 1
    BY <1>3 DEF Layout, HoleOK
  <2> QED
    BY <1>f, <2>1, <2>2
<1>11. Size(n, p) = size /\ Hole(n, p) = 1 /\ End(n, p) = k
  <2>1. p + 2 < MaxWords
    BY ONLY <1>a
  <2> QED
    BY <1>3, <1>4, <1>g, <1>10, <2>1, HeaderFacts DEF End
<1>12. ASSUME NEW q \in H \cup B, q # p
       PROVE  /\ Size(n, q) = Size(m, q) /\ End(n, q) = End(m, q)
              /\ BlockOK(m, q) => BlockOK(n, q)
              /\ HoleOK(m, l, q) => HoleOK(n, k, q)
              /\ q < k
  <2>1. /\ q \in Nat /\ Size(m, q) \in Nat /\ Size(m, q) >= 5 /\ End(m, q) <= l
        /\ (q < p => End(m, q) <= p)
    BY LayoutFacts
  <2>2. p < q => End(m, p) <= q
    BY <2>1, LayoutFacts
  <2>3. End(m, q) <= p
    BY <1>3, <1>12, <2>1, <2>2 DEF End
  <2>e. End(m, q) \in Int /\ q < End(m, q)
    BY <2>1 DEF End
  <2>4. \A a \in Address : q <= a /\ a < End(m, q) => n[a] = m[a]
    <3> SUFFICES ASSUME NEW a \in Address, a < End(m, q) PROVE n[a] = m[a]
      OBVIOUS
    <3>1. a \in Int
      BY <1>c
    <3>2. a < k - 2 /\ a # p + 2
      BY ONLY <1>a, <2>3, <2>e, <3>1, a < End(m, q)
    <3> QED
      BY <1>f, <3>2
  <2>5. End(m, q) <= MaxWords /\ End(m, q) < l /\ q < k
    BY ONLY <1>a, <2>1, <2>3, <2>e
  <2>6. /\ Size(n, q) = Size(m, q)
        /\ BlockOK(m, q) => BlockOK(n, q)
        /\ HoleOK(m, l, q) => HoleOK(n, k, q)
    BY <1>2, <2>1, <2>4, <2>5, PartFrame
  <2> QED
    BY <2>5, <2>6 DEF End
<1>13. HoleOK(n, k, p)
  BY <1>a, <1>10, <1>11 DEF HoleOK
<1>14. \A q \in H : HoleOK(n, k, q)
  BY <1>12, <1>13 DEF Layout
<1>15. \A q \in B : BlockOK(n, q) /\ Size(n, q) = Size(m, q)
  BY <1>2, <1>12 DEF Layout
<1>16. DOMAIN t = H \cup B /\ \A q \in H \cup B : Size(n, q) = t[q]
  BY <1>1, <1>11, <1>12
<1>17. n[-2] # Magic
  <2>1. -2 \in Address /\ -2 < k - 2 /\ -2 # p + 2
    BY ONLY <1>a, <1>c
  <2> QED
    BY <1>2, <1>f, <2>1
<1>18. k \in MinWords..MaxWords
  BY <1>2
<1> HIDE DEF t
<1>19. Layout(n, H, B, k)
  BY <1>2, <1>6, <1>14, <1>15, <1>16, <1>17, <1>18, LayoutIntro
<1>20. ASSUME Apart(m, H) PROVE Apart(n, H)
  <2>1. k \notin H
    BY <1>a, <1>12
  <2> QED
    BY <1>11, <1>12, <1>20, <2>1 DEF Apart
<1> QED
  BY <1>15, <1>19, <1>20

(* A product grows with its factor.                                        *)
LEMMA MulMono ==
    ASSUME NEW a \in Int, NEW b \in Int, NEW c \in Nat \ {0}
    PROVE  a * c \in Int /\ (a < b <=> a * c < b * c)
  OBVIOUS

(* Words on either side of the start of a page are on different pages.     *)
LEMMA PagesApart ==
    ASSUME NEW a \in Int, NEW x \in Int, NEW k \in Nat, NEW c \in Nat \ {0},
           k % c = 0, a < k, k < x
    PROVE  a \div c # x \div c
<1> DEFINE d == k \div c
           y == a \div c
           z == x \div c
<1>1. /\ d \in Int /\ y \in Int /\ z \in Int
      /\ k = d * c /\ y * c <= a /\ x < (z + 1) * c
  OBVIOUS
<1> HIDE DEF d, y, z
<1>2. y * c \in Int /\ d * c \in Int /\ (z + 1) * c \in Int
  BY <1>1, MulMono
<1>3. y < d
  <2>1. y * c < d * c
    BY ONLY <1>1, <1>2, a \in Int, a < k, k \in Nat
  <2> QED
    BY <1>1, <2>1, MulMono
<1>4. d < z + 1
  <2>1. d * c < (z + 1) * c
    BY ONLY <1>1, <1>2, x \in Int, k < x, k \in Nat
  <2> QED
    BY <1>1, <2>1, MulMono
<1> QED
  BY <1>1, <1>3, <1>4 DEF y, z

(* contract unmaps no page in front of the end it leaves the heap.         *)
LEMMA UnmappedFacts ==
    ASSUME NEW m \in [Address -> Int], NEW l \in Nat
    PROVE  /\ Unmapped(m, l, MinWords) \in [Address -> Int]
           /\ \A a \in Address : a < MinWords => Unmapped(m, l, MinWords)[a] = m[a]
<1> DEFINE Out(a) == \E k \in 1..(MaxWords \div PageWords) :
                        /\ l - k * PageWords > MinWords
                        /\ a \div PageWords = (l - k * PageWords) \div PageWords
<1>1. Unmapped(m, l, MinWords) = [a \in Address |-> IF Out(a) THEN 0 ELSE m[a]]
  BY DEF Unmapped
<1>2. ASSUME NEW a \in Address, a < MinWords PROVE ~Out(a)
  <2> SUFFICES ASSUME NEW k \in 1..(MaxWords \div PageWords),
                      l - k * PageWords > MinWords
               PROVE  a \div PageWords # (l - k * PageWords) \div PageWords
    OBVIOUS
  <2> DEFINE x == l - k * PageWords
  <2>1. PageWords \in Nat \ {0} /\ MinWords \in Nat /\ MinWords % PageWords = 0 /\ a \in Int
    BY KHeapAssumption, ConstantFacts
  <2>2. k * PageWords \in Int
    BY <2>1, MulMono
  <2>3. x \in Int /\ MinWords < x
    BY <2>1, <2>2
  <2> HIDE DEF x
  <2>4. a \div PageWords # x \div PageWords
    BY ONLY <1>2, <2>1, <2>3, PagesApart
  <2> QED
    BY <2>4 DEF x
<1> HIDE DEF Out
<1> QED
  BY <1>1, <1>2

(* contract either leaves HEAP_MIN_SIZE or cuts the hole off entirely.     *)
LEMMA ContractedFacts ==
    ASSUME NEW p \in Nat, ~(Contracted(p) < p + Overhead)
    PROVE  Contracted(p) = MinWords /\ p + 5 <= MinWords
<1>1. /\ PageWords \in Nat /\ MinWords \in Nat /\ 2 * PageWords <= MinWords /\ Overhead = 5
  BY KHeapAssumption, ConstantFacts
<1> DEFINE kept == IF (p \div PageWords) % 2 = 1 THEN 2 * PageWords ELSE p
<1>2. kept = 2 * PageWords \/ kept = p
  OBVIOUS
<1>3. Contracted(p) = IF kept < MinWords THEN MinWords ELSE kept
  BY DEF Contracted
<1> DEFINE c == Contracted(p)
<1>4. ~(c < p + 5) /\ c = IF kept < MinWords THEN MinWords ELSE kept
  BY <1>1, <1>3
<1> HIDE DEF kept, c
<1>5. p \in Nat /\ kept \in Nat
  BY <1>1, <1>2
<1>6. CASE kept < MinWords
  BY ONLY <1>1, <1>4, <1>5, <1>6 DEF c
<1>7. CASE ~(kept < MinWords)
  BY ONLY <1>1, <1>2, <1>4, <1>5, <1>7 DEF c
<1> QED
  BY <1>6, <1>7

(* A free that trims as it should has unified as it should.                *)
LEMMA TrimmedFacts ==
    ASSUME NEW v, NEW hd, NEW r, Trimmed(v, hd, r).slip = "none"
    PROVE  v.slip = "none"
<1>1. "contracted too far" # "none"
  OBVIOUS
<1>2. Trimmed(v, hd, r).slip \in {v.slip, "contracted too far"}
  BY DEF Trimmed
<1> QED
  BY <1>1, <1>2

(* The heap after free has trimmed it, in the cases the code is made for.  *)
LEMMA TrimmedOK ==
    ASSUME NEW v, NEW hd, NEW h, NEW r,
           Freed(v.mem, v.index, len, hd, h), End(v.mem, hd) = v.stop,
           NEW t, t = Trimmed(v, hd, r), t.slip = "none"
    PROVE  Freed(t.mem, t.index, t.len, hd, h)
<1> DEFINE m == v.mem
           q == v.index
           H == ToSet(q) \cup {hd}
           B == BlocksOf(live) \ {h}
           new == Contracted(hd)
           rest == Minus(Size(m, hd), len - new)
           w == Unmapped(m, len, new)
           w2 == PutSize(w, hd, rest)
           n == PutFooter(w2, hd + rest - FooterSize, hd)
           s1 == IF new < hd + Overhead THEN "contracted too far" ELSE v.slip
<1>1. /\ q \in Seq(Int) /\ Injective(q) /\ hd \in Nat /\ Layout(m, H, B, len)
      /\ \A p \in B : Size(m, p) = Size(mem, p)
      /\ Apart(m, H) /\ (hd \in ToSet(q) <=> hd \in Holes)
  BY DEF Freed
<1>2. "contracted too far" # "none"
  OBVIOUS
<1>3. t = IF v.stop # len
          THEN [mem |-> m, index |-> q, len |-> len, slip |-> v.slip]
          ELSE IF rest > 0
          THEN [mem |-> n, index |-> q, len |-> new, slip |-> s1]
          ELSE [mem |-> w, index |-> RemoveItem(q, r), len |-> new,
                slip |-> "contracted too far"]
  BY DEF Trimmed
<1>4. CASE v.stop # len
  <2>1. t = [mem |-> m, index |-> q, len |-> len, slip |-> v.slip]
    BY <1>3, <1>4
  <2>2. t.mem = m /\ t.index = q /\ t.len = len /\ t.slip = v.slip
    BY <2>1
  <2> QED
    BY <2>2
<1>5. CASE v.stop = len
  <2>e. End(m, hd) = len
    BY <1>5
  <2>h. hd \in H
    OBVIOUS
  <2> HIDE DEF m, q, H, B, new, rest, w, w2, n, s1
  <2>1. t = [mem |-> n, index |-> q, len |-> new, slip |-> s1]
    <3> SUFFICES ASSUME ~(rest > 0) PROVE FALSE
      BY <1>3, <1>5
    <3>1. t = [mem |-> w, index |-> RemoveItem(q, r), len |-> new,
               slip |-> "contracted too far"]
      BY <1>3, <1>5
    <3> DEFINE y == RemoveItem(q, r)
    <3>2. t.slip = "contracted too far"
      <4>1. t = [mem |-> w, index |-> y, len |-> new, slip |-> "contracted too far"]
        BY <3>1
      <4> HIDE DEF y
      <4> QED
        BY ONLY <4>1
    <3> QED
      BY <1>2, <3>2
  <2>2. t.mem = n /\ t.index = q /\ t.len = new /\ t.slip = s1
    BY <2>1
  <2>3. ~(new < hd + Overhead)
    BY <1>2, <2>2 DEF s1
  <2>4. new = MinWords /\ hd + 5 <= MinWords
    BY <1>1, <2>3, ContractedFacts DEF new
  <2>5. /\ Size(m, hd) \in Nat /\ hd + Size(m, hd) = len /\ len \in Nat
        /\ len <= MaxWords
    <3>1. hd \in H \cup B
      BY <2>h
    <3> QED
      BY ONLY <1>1, <2>e, <3>1, LayoutFacts DEF End
  <2>6. m \in [Address -> Int] /\ len \in MinWords..MaxWords
    BY <1>1 DEF Layout
  <2>c. /\ Address = -2..(MaxWords - 1) /\ MaxWords \in Nat /\ MinWords \in Nat
        /\ FooterSize = 2 /\ MaxWords < Words /\ Words \in Nat
    BY ConstantFacts
  <2>7. MinWords <= len /\ hd \in Nat
    BY <1>1, <2>6, <2>c
  <2>8. rest = MinWords - hd
    <3> DEFINE x == Size(m, hd)
               y == len - MinWords
    <3>1. x \in Int /\ y \in Int /\ y <= x /\ x - y < Words /\ x - y = MinWords - hd
      BY ONLY <2>4, <2>5, <2>7, <2>c
    <3>2. rest = Minus(x, y)
      BY <2>4 DEF rest
    <3> HIDE DEF x, y
    <3>3. Minus(x, y) = x - y
      BY ONLY <3>1, MinusFacts
    <3> QED
      BY ONLY <3>1, <3>2, <3>3
  <2>9. /\ w \in [Address -> Int]
        /\ \A a \in Address : a < MinWords => w[a] = m[a]
    <3>1. w = Unmapped(m, len, MinWords)
      BY <2>4 DEF w
    <3> QED
      BY ONLY <2>5, <2>6, <3>1, UnmappedFacts
  <2>i. rest \in Int /\ hd \in Int /\ hd + rest - FooterSize = MinWords - 2
    BY ONLY <2>4, <2>7, <2>8, <2>c
  <2>10. /\ w2 \in [Address -> Int]
         /\ \A a \in Address : w2[a] = IF a = hd + 2 THEN rest ELSE w[a]
    BY ONLY <2>9, <2>i, PutSizeFacts DEF w2
  <2>11. /\ n \in [Address -> Int]
         /\ \A a \in Address : n[a] = IF a = MinWords - 2 THEN Magic
                                      ELSE IF a = MinWords - 1 THEN hd ELSE w2[a]
    <3> DEFINE f == MinWords - 2
    <3>1. n = PutFooter(w2, f, hd)
      BY <2>i DEF n
    <3>2. f \in Int /\ f + 1 = MinWords - 1 /\ hd \in Int
      BY <2>c, <2>i
    <3> HIDE DEF f
    <3>3. /\ n \in [Address -> Int]
          /\ \A a \in Address : n[a] = IF a = f THEN Magic ELSE IF a = f + 1 THEN hd ELSE w2[a]
      BY ONLY <2>10, <3>1, <3>2, PutFooterFacts
    <3> QED
      BY ONLY <3>2, <3>3 DEF f
  <2>12. \A a \in Address : a < MinWords - 2 /\ a # hd + 2 => n[a] = m[a]
    <3> SUFFICES ASSUME NEW a \in Address, a < MinWords - 2, a # hd + 2
                 PROVE  n[a] = m[a]
      OBVIOUS
    <3>1. a \in Int
      BY <2>c
    <3>2. a < MinWords /\ a # MinWords - 2 /\ a # MinWords - 1
      BY ONLY <2>c, <3>1, a < MinWords - 2
    <3> QED
      BY <2>9, <2>10, <2>11, <3>2
  <2>13. n[hd + 2] = MinWords - hd
    <3>1. hd + 2 \in Address /\ hd + 2 # MinWords - 2 /\ hd + 2 # MinWords - 1
      BY ONLY <2>4, <2>5, <2>7, <2>c
    <3> QED
      BY <2>8, <2>10, <2>11, <3>1
  <2>14. /\ Layout(n, H, B, MinWords)
         /\ \A p \in B : Size(n, p) = Size(m, p)
         /\ Apart(n, H)
    <3>1. /\ MinWords \in Nat /\ MinWords <= MinWords /\ MinWords <= len
          /\ hd + 5 <= MinWords
      BY <2>4, <2>7, <2>c
    <3>2. Layout(m, H, B, len) /\ Apart(m, H) /\ n \in [Address -> Int]
      BY <1>1, <2>11
    <3> QED
      BY ONLY <2>e, <2>h, <2>12, <2>13, <3>1, <3>2, Shortened
  <2>15. Freed(n, q, MinWords, hd, h)
    BY ONLY <1>1, <2>14 DEF Freed, H, B
  <2> QED
    BY <2>2, <2>4, <2>15
<1> QED
  BY <1>4, <1>5

(* free keeps the heap well formed.                                        *)
LEMMA FreeStep ==
    ASSUME HeapInv, NEW b \in live, Free(b)
    PROVE  HeapInv'
<1> SUFFICES ASSUME slip' = "none" PROVE HeapOK(mem', index', len', live')
  BY DEF HeapInv
<1> DEFINE h == b[1] - HeaderSize
           r == h + Size(mem, h)
           u == UnifiedLeft(h)
           v == UnifiedRight(u, r)
           t == Trimmed(v, u.header, r)
<1>1. /\ mem' = t.mem /\ len' = t.len /\ slip' = First(t.slip)
      /\ index' = IF u.add THEN Insert(t.index, u.header, t.mem) ELSE t.index
      /\ live' = live \ {b} /\ (RightHole(u.mem, r) => Contains(index, r))
  BY DEF Free
<1>2. slip = "none" /\ t.slip = "none"
  BY <1>1 DEF First
<1>3. HeapOK(mem, index, len, live)
  BY <1>2 DEF HeapInv
<1>4. h \in BlocksOf(live)
  BY DEF BlocksOf
<1> HIDE DEF h
<1>5. v.slip = "none"
  <2> DEFINE hd == u.header
  <2>1. Trimmed(v, hd, r).slip = "none"
    BY <1>2
  <2> HIDE DEF v, r, hd
  <2> QED
    BY <2>1, TrimmedFacts
<1>6. u.slip = "none"
  <2> HIDE DEF u, r
  <2> QED
    BY <1>5, RightFacts
<1>7. FreedLeft(u.mem, u.header, h, r) /\ (u.add <=> u.header \notin Holes)
      /\ u.add \in BOOLEAN
  <2>1. u = UnifiedLeft(h)
    OBVIOUS
  <2> HIDE DEF u
  <2> QED
    BY ONLY <1>3, <1>4, <1>6, <2>1, UnifiedLeftOK DEF r
<1>8. Freed(v.mem, v.index, len, u.header, h) /\ End(v.mem, u.header) = v.stop
  <2>1. v = UnifiedRight(u, r) /\ (RightHole(u.mem, r) => Contains(index, r))
    BY <1>1
  <2> HIDE DEF u, r, v
  <2> QED
    BY ONLY <1>3, <1>4, <1>5, <1>7, <2>1, UnifiedRightOK
<1> DEFINE hd == u.header
<1>9. Freed(t.mem, t.index, t.len, hd, h)
  <2>1. t = Trimmed(v, hd, r)
    OBVIOUS
  <2>2. Freed(v.mem, v.index, len, hd, h) /\ End(v.mem, hd) = v.stop
    BY <1>8
  <2> HIDE DEF u, r, v, t, hd
  <2> QED
    BY ONLY <1>2, <2>1, <2>2, TrimmedOK
<1>10. u.add <=> hd \notin Holes
  BY <1>7
<1> DEFINE n == t.mem
           q == t.index
           q2 == IF u.add THEN Insert(q, hd, n) ELSE q
<1>11. mem' = n /\ index' = q2 /\ len' = t.len /\ live' = live \ {b}
  BY <1>1
<1>12. Freed(n, q, t.len, hd, h)
  BY <1>9
<1> HIDE DEF t, u, v, r, hd, n, q
<1>13. q2 \in Seq(Int) /\ Injective(q2) /\ ToSet(q2) = ToSet(q) \cup {hd}
  <2>1. q \in Seq(Int) /\ Injective(q) /\ hd \in Int /\ (hd \in ToSet(q) <=> hd \in Holes)
    BY <1>12 DEF Freed
  <2>2. CASE u.add
    <3>1. hd \notin ToSet(q)
      BY <1>10, <2>1, <2>2
    <3>2. q2 = Insert(q, hd, n)
      BY <2>2
    <3> QED
      BY ONLY <2>1, <3>1, <3>2, InsertFacts
  <2>3. CASE ~u.add
    BY <1>10, <2>1, <2>3
  <2> QED
    BY <2>2, <2>3
<1>14. BlocksOf(live \ {b}) = BlocksOf(live) \ {h}
  <2>1. \A c \in live : c[1] \in Int /\ (c[1] = b[1] => c = b)
    BY <1>3 DEF HeapOK, Held
  <2>2. HeaderSize \in Int
    BY ConstantFacts
  <2>3. \A c \in live : c[1] - HeaderSize = h => c = b
    BY <2>1, <2>2 DEF h
  <2> QED
    BY <2>3 DEF BlocksOf, h
<1>15. Held(n, live \ {b})
  <2>1. \A p \in BlocksOf(live \ {b}) : Size(n, p) = Size(mem, p)
    BY <1>12, <1>14 DEF Freed
  <2>2. Held(mem, live)
    BY <1>3 DEF HeapOK
  <2> QED
    BY <2>1, <2>2, HeldKept
<1> HIDE DEF q2
<1>16. HeapOK(n, q2, t.len, live \ {b})
  BY ONLY <1>12, <1>13, <1>14, <1>15 DEF Freed, HeapOK
<1> QED
  BY <1>11, <1>16

-----------------------------------------------------------------------------
(* The heap create_heap makes is one hole.                                 *)
LEMMA InitInv == Init => HeapInv
<1> SUFFICES ASSUME Init PROVE HeapOK(mem, index, len, live)
  BY DEF HeapInv
<1> DEFINE z == [a \in Address |-> 0]
           s == [p \in {0} |-> InitWords]
<1>1. /\ mem = PutHeader(z, 0, 1, InitWords) /\ index = <<0>> /\ len = InitWords
      /\ live = {}
  BY DEF Init
<1>c. /\ Address = -2..(MaxWords - 1) /\ MaxWords \in Nat /\ MinWords \in Nat
      /\ InitWords \in MinWords..MaxWords /\ MinWords >= 10 /\ Overhead = 5 /\ Magic = -1
  BY ConstantFacts DEF Magic
<1>2. /\ mem \in [Address -> Int]
      /\ \A a \in Address : mem[a] =
            IF a = 0 THEN Magic ELSE IF a = 1 THEN 1 ELSE IF a = 2 THEN InitWords ELSE z[a]
  <2>1. z \in [Address -> Int] /\ 0 \in Int /\ 1 \in Int /\ InitWords \in Int
        /\ 0 + 1 = 1 /\ 0 + 2 = 2
    BY <1>c
  <2> HIDE DEF z
  <2> QED
    BY ONLY <1>1, <2>1, PutHeaderFacts
<1>3. /\ mem[0] = Magic /\ mem[1] = 1 /\ mem[2] = InitWords /\ mem[-2] # Magic
  <2>1. {0, 1, 2, -2} \subseteq Address
    BY ONLY <1>c
  <2> QED
    BY <1>2, <1>c, <2>1
<1>4. Size(mem, 0) = InitWords /\ Hole(mem, 0) = 1 /\ End(mem, 0) = InitWords
  <2>1. Size(mem, 0) = mem[0 + 2] /\ Hole(mem, 0) = mem[0 + 1]
    BY <1>c, HeaderFacts
  <2> QED
    BY <1>3, <1>c, <2>1 DEF End
<1>5. Tiling(s, InitWords)
  <2>1. DOMAIN s = {0} /\ s[0] = InitWords /\ InitWords \in Nat /\ InitWords >= 5
    BY <1>c
  <2> HIDE DEF s
  <2> QED
    BY <1>c, <2>1 DEF Tiling
<1>6. ToSet(index) = {0} /\ index \in Seq(Int) /\ Injective(index) /\ BlocksOf(live) = {}
  BY <1>1 DEF ToSet, Injective, BlocksOf
<1>7. HoleOK(mem, InitWords, 0)
  BY <1>3, <1>4, <1>c DEF HoleOK
<1>8. Layout(mem, {0}, {}, InitWords)
  <2>1. DOMAIN s = {0} \cup {} /\ \A p \in {0} \cup {} : Size(mem, p) = s[p]
    BY <1>4
  <2>2. \A p \in {0} : HoleOK(mem, InitWords, p)
    BY <1>7
  <2> HIDE DEF s
  <2> QED
    <3>1. /\ mem \in [Address -> Int] /\ InitWords \in MinWords..MaxWords
          /\ mem[-2] # Magic /\ {0} \cap {} = {} /\ \A p \in {} : BlockOK(mem, p)
      BY <1>2, <1>3, <1>c
    <3> QED
      BY ONLY <1>5, <2>1, <2>2, <3>1, LayoutIntro
<1>9. Apart(mem, {0})
  BY <1>4, <1>c DEF Apart
<1>10. Held(mem, {})
  BY DEF Held
<1> QED
  BY <1>1, <1>6, <1>8, <1>9, <1>10 DEF HeapOK

(* The invariant holds of every state: until the code meets a case it      *)
(* leaves out, alloc and free keep the heap well formed.                   *)
THEOREM HeapInvAlways == Spec => []HeapInv
<1>1. Init => HeapInv
  BY InitInv
<1>2. HeapInv /\ [Next]_vars => HeapInv'
  <2> SUFFICES ASSUME HeapInv, [Next]_vars PROVE HeapInv'
    OBVIOUS
  <2>1. CASE \E n \in Sizes, align \in BOOLEAN : Alloc(n, align)
    BY <2>1, AllocStep
  <2>2. CASE \E b \in live : Free(b)
    BY <2>2, FreeStep
  <2>3. CASE UNCHANGED vars
    BY <2>3 DEF vars, HeapInv
  <2> QED
    BY <2>1, <2>2, <2>3 DEF Next
<1> QED
  BY <1>1, <1>2, PTL DEF Spec

(* TypeOK for every page size and every length of the heap: alloc, free,   *)
(* expand and contract keep the index, the length and the memory of the    *)
(* heap in their ranges until a case is met that the code leaves out.      *)
THEOREM TypeCorrect == Spec => []TypeOK
<1>1. HeapInv => TypeOK
  BY DEF HeapInv, HeapOK, Layout, Held, TypeOK
<1> QED
  BY <1>1, HeapInvAlways, PTL

(* Every part of a layout has what Tiled asks of it.                       *)
LEMMA PartFacts ==
    ASSUME NEW m, NEW H, NEW B, NEW l, Layout(m, H, B, l), NEW p \in H \cup B
    PROVE  /\ m[p] = Magic /\ Size(m, p) >= Overhead
           /\ Hole(m, p) = IF p \in H THEN 1 ELSE 0
           /\ p + Size(m, p) < l => m[p + Size(m, p) - FooterSize] = Magic
<1>1. /\ Size(m, p) >= Overhead /\ FooterSize = 2
      /\ p \in Nat /\ Size(m, p) \in Nat
  BY LayoutFacts, ConstantFacts
<1> DEFINE e == End(m, p)
<1>e. e = p + Size(m, p)
  BY DEF End
<1>2. CASE p \in H
  <2>1. HoleOK(m, l, p)
    BY <1>2 DEF Layout
  <2>2. m[p] = Magic /\ Hole(m, p) = 1 /\ (e < l => m[e - 2] = Magic)
    BY ONLY <2>1 DEF HoleOK
  <2> HIDE DEF e
  <2>3. /\ e < l => m[e - FooterSize] = Magic
    BY ONLY <1>1, <2>2
  <2> QED
    BY ONLY <1>1, <1>2, <1>e, <2>2, <2>3
<1>3. CASE p \in B
  <2>1. BlockOK(m, p) /\ p \notin H
    BY <1>3 DEF Layout
  <2>2. m[p] = Magic /\ Hole(m, p) = 0 /\ m[e - 2] = Magic
    BY ONLY <2>1 DEF BlockOK
  <2> HIDE DEF e
  <2>3. m[e - FooterSize] = Magic
    BY ONLY <1>1, <2>2
  <2> QED
    BY ONLY <1>1, <1>e, <2>1, <2>2, <2>3
<1> QED
  BY <1>2, <1>3

(* The ends of a layout's parts are the other parts and the end.           *)
LEMMA EndsFacts ==
    ASSUME NEW m, NEW H, NEW B, NEW l, Layout(m, H, B, l)
    PROVE  /\ {p + Size(m, p) : p \in H \cup B} = ((H \cup B) \ {0}) \cup {l}
           /\ 0 \in H \cup B
<1> DEFINE P == H \cup B
           s == Sized(m, P)
<1>1. DOMAIN s = P /\ \A q \in P : s[q] = Size(m, q)
  BY DEF Sized
<1>2. Tiling(s, l)
  BY DEF Layout
<1> HIDE DEF s
<1>3. 0 \in P /\ \E q \in P : q + Size(m, q) = l
  BY <1>1, <1>2 DEF Tiling
<1>4. ASSUME NEW p \in P
      PROVE  /\ p + Size(m, p) \in (P \ {0}) \cup {l}
             /\ p # 0 => \E q \in P : q + Size(m, q) = p
  <2>1. /\ p \in Nat /\ Size(m, p) \in Nat /\ Size(m, p) >= 5
        /\ p + Size(m, p) \in P \cup {l}
        /\ p # 0 => \E q \in P : q + Size(m, q) = p
    BY LayoutFacts DEF End
  <2>2. p + Size(m, p) # 0
    BY <2>1
  <2> QED
    BY <2>1, <2>2
<1> QED
  BY <1>3, <1>4

(***************************************************************************)
(* Tiled for every page size, heap length and request: until a case is met *)
(* that the code leaves out, blocks and holes tile the heap with their     *)
(* headers and footers and the index lists each hole once.                 *)
(***************************************************************************)
THEOREM HeapStaysTiled == Spec => []Tiled
<1>1. HeapInv => Tiled
  <2> SUFFICES ASSUME HeapOK(mem, index, len, live) PROVE Tiled
    BY DEF HeapInv, Tiled
  <2>1. Blocks = BlocksOf(live) /\ Holes = ToSet(index) /\ Parts = Holes \cup Blocks
    BY DEF Blocks, BlocksOf, Holes, Parts
  <2>2. /\ Layout(mem, Holes, Blocks, len) /\ Held(mem, live) /\ Injective(index)
    BY <2>1 DEF HeapOK
  <2>3. Holes \cap Blocks = {}
    BY <2>2 DEF Layout
  <2>4. \A h \in Parts :
           /\ mem[h] = Magic /\ Size(mem, h) >= Overhead
           /\ Hole(mem, h) = IF h \in Holes THEN 1 ELSE 0
           /\ h + Size(mem, h) < len => mem[h + Size(mem, h) - FooterSize] = Magic
    BY ONLY <2>1, <2>2, PartFacts
  <2>5. ASSUME NEW b \in live
        PROVE  /\ Size(mem, b[1] - HeaderSize) >= b[2] + Overhead
               /\ mem[(b[1] - HeaderSize) + Size(mem, b[1] - HeaderSize) - 1]
                     = b[1] - HeaderSize
    <3>1. b[1] - HeaderSize \in Blocks
      BY DEF Blocks
    <3>2. BlockOK(mem, b[1] - HeaderSize)
      BY <2>2, <3>1 DEF Layout
    <3> DEFINE h == b[1] - HeaderSize
    <3>3. Size(mem, h) >= b[2] + Overhead
      BY ONLY <2>2, <2>5 DEF Held
    <3>4. BlockOK(mem, h)
      BY <3>2
    <3>h. h \in Holes \cup Blocks
      BY <3>1
    <3> HIDE DEF h
    <3>t. h \in Nat /\ Size(mem, h) \in Nat
      BY ONLY <2>2, <3>h, LayoutFacts
    <3>5. mem[h + Size(mem, h) - 1] = h
      <4> DEFINE e == End(mem, h)
      <4>1. mem[e - 1] = h
        BY <3>4 DEF BlockOK
      <4>2. e = h + Size(mem, h)
        BY DEF End
      <4> HIDE DEF e
      <4> QED
        BY ONLY <3>t, <4>1, <4>2
    <3> QED
      BY ONLY <3>3, <3>5 DEF h
  <2>6. /\ {h + Size(mem, h) : h \in Parts} = (Parts \ {0}) \cup {len}
        /\ 0 \in Parts
    <3>1. /\ {h + Size(mem, h) : h \in Holes \cup Blocks}
                = ((Holes \cup Blocks) \ {0}) \cup {len}
          /\ 0 \in Holes \cup Blocks
      BY ONLY <2>2, EndsFacts
    <3> QED
      BY ONLY <2>1, <3>1
  <2> QED
    BY <2>2, <2>3, <2>4, <2>5, <2>6 DEF Tiled, Injective
<1> QED
  BY <1>1, HeapInvAlways, PTL

(* Coalesced for every page size, heap length and request: free's two      *)
(* unifications, and alloc's splits, never leave two holes side by side.   *)
THEOREM HolesMerged == Spec => []Coalesced
<1>1. HeapInv => Coalesced
  BY DEF HeapInv, HeapOK, Apart, End, Holes, Coalesced
<1> QED
  BY <1>1, HeapInvAlways, PTL

(* What kheap.h promises of alloc, until a case is met that it leaves out. *)
DisjointUntilSlip == slip = "none" => BlocksDisjoint

(* No word belongs to two callers before the code meets a case it leaves   *)
(* out: every overlap of alloc's results begins with one of those cases.   *)
THEOREM BlocksApart == Spec => []DisjointUntilSlip
<1>1. HeapInv => DisjointUntilSlip
  <2> SUFFICES ASSUME HeapOK(mem, index, len, live), NEW a \in live, NEW b \in live, a # b
               PROVE  a[1] + a[2] <= b[1] \/ b[1] + b[2] <= a[1]
    BY DEF HeapInv, DisjointUntilSlip, BlocksDisjoint
  <2>1. Layout(mem, ToSet(index), BlocksOf(live), len) /\ Held(mem, live)
    BY DEF HeapOK
  <2> DEFINE p == a[1] - 3
             q == b[1] - 3
  <2>2. p \in BlocksOf(live) /\ q \in BlocksOf(live)
    BY ConstantFacts DEF BlocksOf
  <2>3. /\ a[1] \in Int /\ b[1] \in Int /\ a[1] # b[1]
        /\ a[2] \in Nat /\ b[2] \in Nat
        /\ Size(mem, p) >= a[2] + 5 /\ Size(mem, q) >= b[2] + 5
    BY <2>1, ConstantFacts DEF Held
  <2>4. /\ Size(mem, p) \in Nat /\ Size(mem, q) \in Nat
        /\ p < q => p + Size(mem, p) <= q
        /\ q < p => q + Size(mem, q) <= p
    <3>1. p \in ToSet(index) \cup BlocksOf(live) /\ q \in ToSet(index) \cup BlocksOf(live)
      BY <2>2
    <3> HIDE DEF p, q
    <3> QED
      BY ONLY <2>1, <3>1, LayoutFacts DEF End
  <2> QED
    BY ONLY <2>3, <2>4
<1> QED
  BY <1>1, HeapInvAlways, PTL

=============================================================================

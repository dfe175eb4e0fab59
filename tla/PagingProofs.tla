---------------------------- MODULE PagingProofs ----------------------------
(***************************************************************************)
(* Proofs about Paging for every number of frames, every layout of the     *)
(* kernel's memory that keeps its parts apart and every sequence of heap   *)
(* operations and forks: frames belong to one page, the kernel is in every *)
(* directory, and so are the placed blocks; fork() gives the child a copy  *)
(* of its parent's stack, and no task ever sees what another one does to   *)
(* its own.                                                                *)
(***************************************************************************)
EXTENDS Paging, FiniteSetTheorems, WellFoundedInduction, TLAPS

-----------------------------------------------------------------------------
(* Addresses and pages.                                                    *)

(* Quotient and remainder.                                                 *)
LEMMA DivFacts ==
    ASSUME NEW a \in Nat, NEW b \in Nat \ {0}
    PROVE  /\ a \div b \in Nat /\ a % b \in 0..(b - 1)
           /\ a = b * (a \div b) + (a % b)
  OBVIOUS

(* A product grows with its factor.                                        *)
LEMMA MulMono ==
    ASSUME NEW a \in Int, NEW b \in Int, NEW c \in Nat \ {0}
    PROVE  /\ a * c \in Int
           /\ a <= b <=> a * c <= b * c
           /\ a < b <=> a * c < b * c
  OBVIOUS

(* A quotient grows with its dividend.                                     *)
LEMMA DivMono ==
    ASSUME NEW a \in Nat, NEW b \in Nat, NEW c \in Nat \ {0}, a <= b
    PROVE  a \div c <= b \div c
  OBVIOUS

(* Every page number below the end of the last table has a table.          *)
LEMMA PageFacts ==
    ASSUME NEW v \in Page
    PROVE  v \in Nat /\ v \div TableSpan \in TableIdx /\ v % TableSpan \in 0..(TableSpan - 1)
<1> DEFINE last == StackTop \div TableSpan
           q == v \div TableSpan
<1>1. StackTop \in Nat /\ TableSpan \in Nat \ {0}
  BY PagingAssumption
<1>2. last \in Nat /\ last * TableSpan \in Int
  BY <1>1, DivFacts, MulMono
<1>3. v \in Nat /\ v < (last + 1) * TableSpan
  BY <1>1, <1>2 DEF Page
<1>4. /\ q \in Nat /\ v % TableSpan \in 0..(TableSpan - 1)
      /\ v = TableSpan * q + (v % TableSpan)
  BY <1>1, <1>3, DivFacts
<1> HIDE DEF last, q
<1>5. q * TableSpan <= v
  BY <1>1, <1>4
<1>6. q * TableSpan < (last + 1) * TableSpan
  BY <1>1, <1>2, <1>3, <1>4, <1>5
<1>7. q < last + 1
  BY <1>1, <1>2, <1>4, <1>6, MulMono
<1> QED
  BY <1>2, <1>3, <1>4, <1>7 DEF q, last, TableIdx

(* A page is known by its table and its entry in it.                       *)
LEMMA PageUnique ==
    ASSUME NEW v \in Nat, NEW w \in Nat, v \div TableSpan = w \div TableSpan,
           v % TableSpan = w % TableSpan
    PROVE  v = w
  BY PagingAssumption, DivFacts

(* kmalloc moves up by a page at most to align a block.                    *)
LEMMA AlignFacts ==
    ASSUME NEW a \in Nat
    PROVE  AlignUp(a) \in Nat /\ a <= AlignUp(a) /\ AlignUp(a) <= a + PageSize
<1> DEFINE q == a \div PageSize
<1>1. PageSize \in Nat \ {0}
  BY PagingAssumption
<1>2. q \in Nat /\ a % PageSize \in 0..(PageSize - 1)
      /\ a = PageSize * q + (a % PageSize)
  BY <1>1, DivFacts
<1> HIDE DEF q
<1>3. (q + 1) * PageSize = PageSize * q + PageSize
  BY <1>1, <1>2
<1>4. (q + 1) * PageSize \in Nat /\ a <= (q + 1) * PageSize
      /\ (q + 1) * PageSize <= a + PageSize
  BY <1>1, <1>2, <1>3
<1> QED
  BY <1>1, <1>4 DEF AlignUp, q

(* The sizes that expand and contract come to are sizes.                   *)
LEMMA RoundFacts ==
    ASSUME NEW n \in Nat
    PROVE  RoundUp(n) \in Nat /\ RoundDown(n) \in Nat
<1>1. PageSize \in Nat \ {0} /\ HeapMin \in Nat
  BY PagingAssumption
<1> DEFINE q == n \div PageSize
<1>2. q \in Nat
  BY <1>1, DivFacts
<1> HIDE DEF q
<1>3. (q + 1) * PageSize \in Nat /\ 2 * PageSize \in Nat
  BY <1>1, <1>2
<1> QED
  BY <1>1, <1>3 DEF RoundUp, RoundDown, q

-----------------------------------------------------------------------------
(* Types, with the loop variables of the operations and the phases: the    *)
(* boot is over before a directory is cloned, and the directories used are *)
(* ones that exist.                                                        *)

Booting == {"boot", "heaptables", "identity", "heappages"}

ShapeInv ==
    \/ op = Idle
    \/ op = [kind |-> "boot"]
    \/ op \in [kind : {"heaptables", "heappages"}, v : HeapBase..(HeapBase + InitPages)]
    \/ op \in [kind : {"identity"}, v : Nat]
    \/ op \in [kind : {"movestack"}, v : (StackTop - 2)..StackTop]
    \/ op \in [kind : {"expand"}, i : Nat, n : 0..HeapMax]
    \/ op \in [kind : {"contract"}, i : Int, n : Nat]
    \/ op \in [kind : {"clone"}, src : Dir, dst : Dir, todo : SUBSET Page]

PhaseInv ==
    /\ cur < nextDir
    /\ op.kind \in Booting => nextDir = 1
    /\ op.kind \in {"expand", "contract", "movestack"} => cur # 0
    /\ op.kind = "clone" =>
          /\ op.src = cur /\ op.dst \in 1..(nextDir - 1) /\ op.dst # cur
          /\ \A v \in op.todo : HasTable(op.src, v)

TypeInv ==
    /\ TypeOK /\ ShapeInv /\ PhaseInv
    /\ \A s \in Slot : pte[s].frame \in Frame

(* What the kind of the operation says of its loop variables.              *)
LEMMA ShapeFacts ==
    ASSUME ShapeInv
    PROVE  /\ op.kind \in {"heaptables", "heappages"} =>
                 op.v \in HeapBase..(HeapBase + InitPages)
           /\ op.kind = "identity" => op.v \in Nat
           /\ op.kind = "movestack" => op.v \in (StackTop - 2)..StackTop
           /\ op.kind = "expand" =>
                 op \in [kind : {"expand"}, i : Nat, n : 0..HeapMax]
           /\ op.kind = "contract" =>
                 op \in [kind : {"contract"}, i : Int, n : Nat]
           /\ op.kind = "clone" =>
                 op \in [kind : {"clone"}, src : Dir, dst : Dir, todo : SUBSET Page]
  BY DEF ShapeInv, Idle

(* The tables of a clone: new ones, numbered from nextTab, in the place of *)
(* the private ones, and the very same ones otherwise.                     *)
LEMMA CloneFacts ==
    ASSUME tables \in [Dir -> [TableIdx -> 0..MaxTables]], nextTab \in Nat,
           NEW src \in Dir
    PROVE  /\ Cardinality(Private(src)) \in Nat
           /\ \A t \in TableIdx \ Private(src) : ClonedTables(src)[t] = tables[src][t]
           /\ \A t \in Private(src) :
                 ClonedTables(src)[t] \in
                    nextTab..(nextTab + Cardinality(Private(src)) - 1)
           /\ \A t1, t2 \in Private(src) :
                 ClonedTables(src)[t1] = ClonedTables(src)[t2] => t1 = t2
<1> DEFINE P == Private(src)
           below(t) == {u \in P : u < t}
<1>1. P \subseteq TableIdx /\ TableIdx \subseteq Nat
  BY DEF Private, TableIdx
<1>2. StackTop \div TableSpan \in Nat
  BY PagingAssumption, DivFacts
<1>3. IsFiniteSet(P)
  <2>1. IsFiniteSet(TableIdx)
    BY <1>2, FS_Interval DEF TableIdx
  <2> QED
    BY <1>1, <2>1, FS_Subset
<1>4. \A t \in TableIdx \ P : ClonedTables(src)[t] = tables[src][t]
  BY DEF ClonedTables
<1>5. \A t \in P : ClonedTables(src)[t] = nextTab + Cardinality(below(t))
  BY <1>1 DEF ClonedTables
<1>b. \A t, u : u \in below(t) <=> u \in P /\ u < t
  OBVIOUS
<1> HIDE DEF P, below
<1>6. Cardinality(P) \in Nat
  BY <1>3, FS_CardinalityType
<1>7. ASSUME NEW t \in P
      PROVE  /\ IsFiniteSet(below(t)) /\ Cardinality(below(t)) \in Nat
             /\ Cardinality(below(t)) <= Cardinality(P) - 1
  <2>1. below(t) \subseteq P \ {t}
    BY <1>1, <1>b
  <2>2. IsFiniteSet(P \ {t}) /\ Cardinality(P \ {t}) = Cardinality(P) - 1
    BY <1>3, FS_RemoveElement
  <2>3. /\ IsFiniteSet(below(t))
        /\ Cardinality(below(t)) <= Cardinality(P \ {t})
    BY <2>1, <2>2, FS_Subset
  <2>4. Cardinality(below(t)) \in Nat
    BY <2>3, FS_CardinalityType
  <2> QED
    BY <2>2, <2>3, <2>4
<1>8. ASSUME NEW t1 \in P, NEW t2 \in P, t1 < t2
      PROVE  Cardinality(below(t1)) < Cardinality(below(t2))
  <2>0. \A u \in P : u \in Nat
    BY <1>1
  <2>1. below(t1) \subseteq below(t2) /\ t1 \in below(t2) /\ t1 \notin below(t1)
    <3>1. t1 \in below(t2) /\ t1 \notin below(t1)
      BY <1>8, <1>b, <2>0
    <3>2. \A u \in P : u < t1 => u < t2
      BY <1>8, <2>0
    <3> QED
      BY <1>b, <3>1, <3>2
  <2>2. Cardinality(below(t1)) <= Cardinality(below(t2))
        /\ Cardinality(below(t1)) # Cardinality(below(t2))
    BY <1>7, <2>1, FS_Subset
  <2> QED
    BY <1>7, <2>2
<1>9. \A t1, t2 \in P : ClonedTables(src)[t1] = ClonedTables(src)[t2] => t1 = t2
  <2> SUFFICES ASSUME NEW t1 \in P, NEW t2 \in P,
                      ClonedTables(src)[t1] = ClonedTables(src)[t2], t1 # t2
               PROVE  FALSE
    OBVIOUS
  <2>1. Cardinality(below(t1)) = Cardinality(below(t2))
    <3>1. Cardinality(below(t1)) \in Nat /\ Cardinality(below(t2)) \in Nat
      BY <1>7
    <3> QED
      BY <1>5, <3>1
  <2>2. t1 < t2 \/ t2 < t1
    BY <1>1
  <2>3. Cardinality(below(t1)) \in Nat
    BY <1>7
  <2>4. CASE t1 < t2
    BY <1>8, <2>1, <2>3, <2>4
  <2>5. CASE t2 < t1
    BY <1>8, <2>1, <2>3, <2>5
  <2> QED
    BY <2>2, <2>4, <2>5
<1>10. \A t \in P : ClonedTables(src)[t] \in nextTab..(nextTab + Cardinality(P) - 1)
  BY <1>5, <1>6, <1>7
<1> QED
  BY <1>4, <1>6, <1>9, <1>10 DEF P

(* alloc_frame changes at most one entry, and gives it a frame that was    *)
(* free unless none was.                                                   *)
LEMMA AllocFacts ==
    ASSUME TypeInv, NEW s, AllocFrame(s)
    PROVE  /\ used' \subseteq Frame /\ used \subseteq used'
           /\ pte' \in [Slot \cup {NullSlot} -> [frame : Frame \cup Garbage, present : BOOLEAN]]
           /\ \A u \in Slot : pte'[u].frame \in Frame
           /\ \A u \in Slot \cup {NullSlot} : u # s => pte'[u] = pte[u]
           /\ exhausted' \in BOOLEAN /\ (exhausted => exhausted')
           /\ s \in Slot \cup {NullSlot} /\ pte[s].frame = 0 =>
                 \E f \in Frame : /\ FirstFrame(f) /\ used' = used \cup {f}
                                  /\ pte'[s] = [frame |-> f, present |-> TRUE]
                                  /\ exhausted' \/ used # Frame
           /\ pte[s].frame # 0 => UNCHANGED frameVars
<1>1. /\ used \subseteq Frame /\ exhausted \in BOOLEAN
      /\ pte \in [Slot \cup {NullSlot} -> [frame : Frame \cup Garbage, present : BOOLEAN]]
      /\ \A u \in Slot : pte[u].frame \in Frame
  BY DEF TypeInv, TypeOK
<1>2. CASE pte[s].frame # 0 /\ UNCHANGED frameVars
  BY <1>1, <1>2 DEF frameVars
<1>3. CASE /\ pte[s].frame = 0
           /\ \E f \in 0..NFrames :
                /\ FirstFrame(f) /\ used' = used \cup {f}
                /\ pte' = [pte EXCEPT ![s] = [frame |-> f, present |-> TRUE]]
           /\ exhausted' = (exhausted \/ used = Frame)
  <2>1. PICK f \in Frame :
           /\ FirstFrame(f) /\ used' = used \cup {f}
           /\ pte' = [pte EXCEPT ![s] = [frame |-> f, present |-> TRUE]]
    BY <1>3 DEF FirstFrame
  <2>2. [frame |-> f, present |-> TRUE] \in [frame : Frame \cup Garbage, present : BOOLEAN]
    OBVIOUS
  <2>3. pte' \in [Slot \cup {NullSlot} -> [frame : Frame \cup Garbage, present : BOOLEAN]]
    BY <1>1, <2>1, <2>2
  <2>4. \A u \in Slot \cup {NullSlot} :
           pte'[u] = IF u = s THEN [frame |-> f, present |-> TRUE] ELSE pte[u]
    BY <1>1, <2>1
  <2>5. \A u \in Slot : pte'[u].frame \in Frame
    BY <1>1, <2>4
  <2>6. exhausted' \in BOOLEAN /\ (exhausted => exhausted') /\ (exhausted' \/ used # Frame)
    BY <1>1, <1>3
  <2> QED
    BY <1>1, <1>3, <2>1, <2>3, <2>4, <2>5, <2>6
<1> QED
  BY <1>2, <1>3 DEF AllocFrame

(* free_frame changes at most one entry, clearing its frame, and releases  *)
(* a frame of the bitmap.                                                  *)
LEMMA FreeFacts ==
    ASSUME TypeInv, NEW s, FreeFrame(s)
    PROVE  /\ used' \subseteq Frame /\ exhausted' = exhausted
           /\ pte' \in [Slot \cup {NullSlot} -> [frame : Frame \cup Garbage, present : BOOLEAN]]
           /\ \A u \in Slot : pte'[u].frame \in Frame
           /\ \A u \in Slot \cup {NullSlot} : u # s => pte'[u] = pte[u]
           /\ \A u \in Slot \cup {NullSlot} :
                 /\ pte'[u].present = pte[u].present
                 /\ pte'[u].frame # 0 => pte'[u] = pte[u]
           /\ \/ UNCHANGED <<frameVars, freed>>
              \/ \E f : used' = used \ {f} /\ freed' = freed \cup {f}
<1>1. /\ used \subseteq Frame
      /\ pte \in [Slot \cup {NullSlot} -> [frame : Frame \cup Garbage, present : BOOLEAN]]
      /\ \A u \in Slot : pte[u].frame \in Frame
  BY DEF TypeInv, TypeOK
<1>2. CASE UNCHANGED <<frameVars, freed>>
  BY <1>1, <1>2 DEF frameVars
<1>3. CASE /\ ClearFrame(pte[s].frame)
           /\ pte' = [pte EXCEPT ![s].frame = 0]
           /\ freed' = freed \cup {pte[s].frame \div FrameBytes}
           /\ UNCHANGED exhausted
  <2>0. 0 \in Frame
    BY PagingAssumption DEF Frame
  <2>1. \A u \in Slot \cup {NullSlot} :
           pte'[u] = IF u = s THEN [pte[u] EXCEPT !.frame = 0] ELSE pte[u]
    BY <1>1, <1>3
  <2>2. \A u \in Slot \cup {NullSlot} :
           /\ pte'[u] \in [frame : Frame \cup Garbage, present : BOOLEAN]
           /\ pte'[u].present = pte[u].present
           /\ pte'[u].frame # 0 => pte'[u] = pte[u]
    BY <1>1, <2>0, <2>1
  <2>3. pte' \in [Slot \cup {NullSlot} -> [frame : Frame \cup Garbage, present : BOOLEAN]]
    BY <1>1, <1>3, <2>2
  <2>4. \A u \in Slot : pte'[u].frame \in Frame
    BY <1>1, <2>0, <2>1
  <2>5. used' = used \ {pte[s].frame \div FrameBytes}
    BY <1>3 DEF ClearFrame
  <2> QED
    BY <1>1, <1>3, <2>1, <2>2, <2>3, <2>4, <2>5
<1> QED
  BY <1>2, <1>3 DEF FreeFrame

(* A set of numbers that is not empty has a least one.                     *)
LEMMA MinFacts ==
    ASSUME NEW S, S \subseteq Nat, S # {}
    PROVE  Min(S) \in S /\ \A y \in S : Min(S) <= y
<1>1. PICK x \in S : \A y \in S : ~(<<y, x>> \in OpToRel(<, Nat))
  BY NatLessThanWellFounded, WFMin
<1>2. \A y \in S : x <= y
  <2> SUFFICES ASSUME NEW y \in S, y < x PROVE FALSE
    OBVIOUS
  <2>1. <<y, x>> \in {ss \in Nat \X Nat : ss[1] < ss[2]}
    OBVIOUS
  <2> QED
    BY <1>1, <2>1 DEF OpToRel
<1> QED
  BY <1>2 DEF Min

(* An update of a function at one point.                                   *)
LEMMA UpdateFacts ==
    ASSUME NEW S, NEW T, NEW f \in [S -> T], NEW x, NEW y \in T
    PROVE  [f EXCEPT ![x] = y] \in [S -> T]
  OBVIOUS

(* A new table of an existing directory.                                   *)
LEMMA NewTableFacts ==
    ASSUME TypeInv, NEW d, NEW v, NewTable(d, v)
    PROVE  /\ tables' \in [Dir -> [TableIdx -> 0..MaxTables]]
           /\ nextTab' \in 1..(MaxTables + 1) /\ nextTab' = nextTab + 1
           /\ nextTab \in 1..MaxTables /\ nextDir' = nextDir
           /\ \A e \in Dir, t \in TableIdx :
                 tables'[e][t] = IF e = d /\ t = v \div TableSpan
                                 THEN nextTab ELSE tables[e][t]
<1>1. /\ tables \in [Dir -> [TableIdx -> 0..MaxTables]]
      /\ nextTab \in 1..(MaxTables + 1) /\ MaxTables \in Nat
  BY PagingAssumption DEF TypeInv, TypeOK
<1>2. /\ nextTab <= MaxTables /\ nextTab' = nextTab + 1 /\ nextDir' = nextDir
      /\ tables' = [tables EXCEPT ![d][v \div TableSpan] = nextTab]
  BY DEF NewTable
<1>3. nextTab \in 1..MaxTables
  BY <1>1, <1>2
<1>4. \A e \in Dir : tables'[e] =
         IF e = d THEN [tables[e] EXCEPT ![v \div TableSpan] = nextTab] ELSE tables[e]
  BY <1>1, <1>2
<1>5. \A e \in Dir : tables[e] \in [TableIdx -> 0..MaxTables]
  BY <1>1
<1>6. \A e \in Dir : tables'[e] \in [TableIdx -> 0..MaxTables]
  <2> SUFFICES ASSUME NEW e \in Dir
               PROVE  tables'[e] \in [TableIdx -> 0..MaxTables]
    OBVIOUS
  <2>1. [tables[e] EXCEPT ![v \div TableSpan] = nextTab] \in [TableIdx -> 0..MaxTables]
    <3>1. nextTab \in 0..MaxTables
      BY <1>1, <1>3
    <3> QED
      BY <1>5, <3>1, UpdateFacts
  <2> QED
    BY <1>4, <1>5, <2>1
<1>7. tables' \in [Dir -> [TableIdx -> 0..MaxTables]]
  BY <1>1, <1>2, <1>6
<1>8. \A e \in Dir, t \in TableIdx :
         tables'[e][t] = IF e = d /\ t = v \div TableSpan
                         THEN nextTab ELSE tables[e][t]
  BY <1>4, <1>5
<1> QED
  BY <1>1, <1>2, <1>3, <1>7, <1>8

(* The boot.                                                               *)
LEMMA BootTypes ==
    ASSUME TypeInv, BootAlloc \/ BootHeapTable \/ BootIdentity \/ BootHeapPage
    PROVE  TypeInv'
<1> USE PagingAssumption DEF Booting, Loop
<1>t. /\ placement \in Nat /\ heapLen \in Nat /\ TypeOK /\ ShapeInv
      /\ cur < nextDir /\ nextDir \in 1..(MaxDirs + 1)
  BY DEF TypeInv, TypeOK, PhaseInv
<1>p. PlaceTable => placement' \in Nat
  BY <1>t, AlignFacts DEF PlaceTable
<1>1. CASE BootAlloc
  <2>1. placement + BitmapSize \in Nat
    BY <1>t
  <2>2. placement' \in Nat
    BY <1>1, <2>1, AlignFacts DEF BootAlloc
  <2>3. op' = [kind |-> "heaptables", v |-> HeapBase]
    BY <1>1 DEF BootAlloc
  <2>4. ShapeInv' /\ PhaseInv'
    BY <1>1, <2>3 DEF BootAlloc, ShapeInv, TypeInv, PhaseInv, dirVars
  <2> QED
    BY <1>1, <2>2, <2>4 DEF BootAlloc, TypeInv, TypeOK, frameVars, dirVars, Mapped
<1>2. CASE BootHeapTable
  <2>1. op.v \in HeapBase..(HeapBase + InitPages) /\ nextDir = 1
    BY <1>2, <1>t, ShapeFacts DEF BootHeapTable, TypeInv, PhaseInv
  <2>2. /\ ShapeInv' /\ op'.kind \in {"heaptables", "identity"}
    BY <1>2, <2>1 DEF BootHeapTable, ShapeInv
  <2>3. /\ tables' \in [Dir -> [TableIdx -> 0..MaxTables]]
        /\ nextTab' \in 1..(MaxTables + 1) /\ nextDir' = nextDir /\ placement' \in Nat
    BY <1>2, <1>t, <1>p, NewTableFacts DEF BootHeapTable, TypeOK, dirVars
  <2>4. PhaseInv'
    BY <1>2, <1>t, <2>1, <2>2, <2>3 DEF BootHeapTable, PhaseInv
  <2> QED
    BY <1>2, <2>2, <2>3, <2>4 DEF BootHeapTable, TypeInv, TypeOK, frameVars
<1>3. CASE BootIdentity
  <2>1. op.v \in Nat /\ nextDir = 1
    BY <1>3, <1>t, ShapeFacts DEF BootIdentity, TypeInv, PhaseInv
  <2>2. /\ ShapeInv' /\ op'.kind \in {"identity", "heappages"}
    BY <1>3, <1>t, <2>1 DEF BootIdentity, ShapeInv
  <2>3. /\ tables' \in [Dir -> [TableIdx -> 0..MaxTables]]
        /\ nextTab' \in 1..(MaxTables + 1) /\ nextDir' = nextDir /\ placement' \in Nat
    BY <1>3, <1>t, <1>p, NewTableFacts DEF BootIdentity, TypeOK, dirVars
  <2>4. PhaseInv'
    BY <1>3, <1>t, <2>1, <2>2, <2>3 DEF BootIdentity, PhaseInv
  <2>5. CASE AllocFrame(SlotOf(0, op.v))
    BY <1>3, <2>2, <2>3, <2>4, <2>5, AllocFacts DEF BootIdentity, TypeInv, TypeOK
  <2>6. CASE UNCHANGED frameVars
    BY <1>3, <2>2, <2>3, <2>4, <2>6 DEF BootIdentity, TypeInv, TypeOK, frameVars
  <2> QED
    BY <1>3, <2>5, <2>6 DEF BootIdentity
<1>4. CASE BootHeapPage
  <2>1. op.v \in HeapBase..(HeapBase + InitPages) /\ nextDir = 1
    BY <1>4, <1>t, ShapeFacts DEF BootHeapPage, TypeInv, PhaseInv
  <2>2. /\ ShapeInv' /\ op'.kind \in {"idle", "heappages"}
    BY <1>4, <2>1 DEF BootHeapPage, ShapeInv, Idle
  <2>3. (InitPages - IndexPages) * PageSize \in Nat
    OBVIOUS
  <2>4. placement' \in Nat /\ heapLen' \in Nat
    BY <1>4, <1>t, <2>3 DEF BootHeapPage
  <2>5. PhaseInv'
    BY <1>4, <1>t, <2>1, <2>2 DEF BootHeapPage, PhaseInv, dirVars
  <2>6. CASE AllocFrame(SlotOf(0, op.v))
    BY <1>4, <2>2, <2>4, <2>5, <2>6, AllocFacts DEF BootHeapPage, TypeInv, TypeOK, dirVars
  <2>7. CASE UNCHANGED frameVars
    BY <1>4, <2>2, <2>4, <2>5, <2>7 DEF BootHeapPage, TypeInv, TypeOK, frameVars, dirVars
  <2> QED
    BY <1>4, <2>6, <2>7 DEF BootHeapPage
<1> QED
  BY <1>1, <1>2, <1>3, <1>4

(* expand and contract.                                                    *)
LEMMA HeapTypes ==
    ASSUME TypeInv,
           \/ \E n \in Requests : ExpandBegin(n)
           \/ Expand
           \/ \E n \in Offsets : ContractBegin(n)
           \/ Contract
    PROVE  TypeInv'
<1> USE PagingAssumption DEF Booting
<1>t. /\ heapLen \in Nat /\ TypeOK /\ ShapeInv /\ PhaseInv
      /\ \A s \in Slot : pte[s].frame \in Frame
  BY DEF TypeInv, TypeOK
<1>1. ASSUME NEW n \in Requests, ExpandBegin(n) PROVE TypeInv'
  <2>1. heapLen + n \in Nat
    BY <1>t
  <2>2. RoundUp(heapLen + n) \in 0..HeapMax
    BY <1>1, <2>1, RoundFacts DEF ExpandBegin
  <2>3. ShapeInv' /\ op'.kind = "expand" /\ cur # 0
    BY <1>1, <1>t, <2>2 DEF ExpandBegin, ShapeInv
  <2> QED
    BY <1>1, <1>t, <2>3 DEF ExpandBegin, TypeInv, TypeOK, PhaseInv, frameVars, dirVars
<1>2. CASE Expand
  <2>1. op \in [kind : {"expand"}, i : Nat, n : 0..HeapMax] /\ cur # 0
    BY <1>2, <1>t, ShapeFacts DEF Expand, PhaseInv
  <2>2. CASE /\ AllocFrame(PagePtr(0, HeapPage(op.i)))
             /\ op' = [op EXCEPT !.i = @ + PageSize] /\ UNCHANGED heapLen
    <3>1. op' \in [kind : {"expand"}, i : Nat, n : 0..HeapMax]
      BY <2>1, <2>2
    <3>2. ShapeInv' /\ PhaseInv'
      BY <1>2, <1>t, <2>1, <3>1 DEF Expand, ShapeInv, PhaseInv, dirVars
    <3> QED
      BY <1>2, <1>t, <2>2, <3>2, AllocFacts DEF Expand, TypeInv, TypeOK, dirVars
  <2>3. CASE heapLen' = op.n /\ op' = Idle /\ UNCHANGED frameVars
    <3>1. ShapeInv' /\ PhaseInv'
      BY <1>2, <1>t, <2>3 DEF Expand, ShapeInv, PhaseInv, dirVars, Idle
    <3> QED
      BY <1>2, <1>t, <2>1, <2>3, <3>1 DEF Expand, TypeInv, TypeOK, dirVars, frameVars
  <2> QED
    BY <1>2, <2>2, <2>3 DEF Expand
<1>3. ASSUME NEW n \in Offsets, ContractBegin(n) PROVE TypeInv'
  <2>1. RoundDown(n) \in Nat
    BY RoundFacts
  <2>2. ShapeInv' /\ op'.kind = "contract" /\ cur # 0
    BY <1>3, <1>t, <2>1 DEF ContractBegin, ShapeInv
  <2> QED
    BY <1>3, <1>t, <2>2 DEF ContractBegin, TypeInv, TypeOK, PhaseInv, frameVars, dirVars
<1>4. CASE Contract
  <2>1. op \in [kind : {"contract"}, i : Int, n : Nat] /\ cur # 0
    BY <1>4, <1>t, ShapeFacts DEF Contract, PhaseInv
  <2>2. CASE /\ FreeFrame(PagePtr(0, HeapPage(op.i)))
             /\ op' = [op EXCEPT !.i = @ - PageSize] /\ UNCHANGED heapLen
    <3>1. op' \in [kind : {"contract"}, i : Int, n : Nat]
      BY <2>1, <2>2
    <3>2. ShapeInv' /\ PhaseInv'
      BY <1>4, <1>t, <2>1, <3>1 DEF Contract, ShapeInv, PhaseInv, dirVars
    <3> QED
      BY <1>4, <1>t, <2>2, <3>2, FreeFacts DEF Contract, TypeInv, TypeOK, dirVars
  <2>3. CASE heapLen' = op.n /\ op' = Idle /\ UNCHANGED frameVars
    <3>1. ShapeInv' /\ PhaseInv'
      BY <1>4, <1>t, <2>3 DEF Contract, ShapeInv, PhaseInv, dirVars, Idle
    <3> QED
      BY <1>4, <1>t, <2>1, <2>3, <3>1 DEF Contract, TypeInv, TypeOK, dirVars, frameVars
  <2> QED
    BY <1>4, <2>2, <2>3 DEF Contract
<1> QED
  BY <1>1, <1>2, <1>3, <1>4

(* The entry of a page that has a table.                                   *)
LEMMA SlotFacts ==
    ASSUME TypeInv, NEW d \in Dir, NEW v \in Page, HasTable(d, v)
    PROVE  SlotOf(d, v) \in Slot
<1>1. v \div TableSpan \in TableIdx /\ v % TableSpan \in 0..(TableSpan - 1)
  BY PageFacts
<1>2. tables[d][v \div TableSpan] \in 0..MaxTables
  BY <1>1 DEF TypeInv, TypeOK
<1>3. tables[d][v \div TableSpan] \in 1..MaxTables
  BY <1>2, PagingAssumption DEF HasTable, NoTable
<1> QED
  BY <1>1, <1>3 DEF SlotOf, Slot

(* clone_directory.                                                        *)
LEMMA CloneTypes ==
    ASSUME TypeInv, CloneBegin \/ ClonePage \/ CloneEnd
    PROVE  TypeInv'
<1> USE PagingAssumption DEF Booting
<1>t. /\ TypeOK /\ ShapeInv /\ PhaseInv
      /\ tables \in [Dir -> [TableIdx -> 0..MaxTables]]
      /\ nextTab \in 1..(MaxTables + 1) /\ nextDir \in 1..(MaxDirs + 1)
      /\ cur \in Dir /\ cur < nextDir
      /\ \A s \in Slot : pte[s].frame \in Frame
  BY DEF TypeInv, TypeOK, PhaseInv
<1>1. CASE CloneBegin
  <2> DEFINE n == Cardinality(Private(cur))
  <2>0. /\ MaxDirs \in Nat /\ MaxTables \in Nat
        /\ nextDir \in 1..MaxDirs /\ nextDir \in Dir
    <3>1. nextDir <= MaxDirs
      BY <1>1 DEF CloneBegin
    <3> QED
      BY <1>t, <3>1 DEF Dir
  <2>1. /\ nextDir' = nextDir + 1
        /\ nextTab' = nextTab + n /\ nextTab + n <= MaxTables + 1
        /\ tables' = [tables EXCEPT ![nextDir] = ClonedTables(cur)]
        /\ op' = [kind |-> "clone", src |-> cur, dst |-> nextDir,
                  todo |-> PagesToClone(cur)]
        /\ UNCHANGED <<frameVars, cur, placement, heapLen, data, freed>>
    BY <1>1 DEF CloneBegin
  <2>2. n \in Nat /\ \A t \in TableIdx : ClonedTables(cur)[t] \in 0..MaxTables
    <3>1. /\ n \in Nat
          /\ \A t \in TableIdx \ Private(cur) : ClonedTables(cur)[t] = tables[cur][t]
          /\ \A t \in Private(cur) : ClonedTables(cur)[t] \in nextTab..(nextTab + n - 1)
      BY <1>t, CloneFacts
    <3> QED
      BY <1>t, <2>1, <3>1
  <2>3. ClonedTables(cur) \in [TableIdx -> 0..MaxTables]
    BY <2>2 DEF ClonedTables
  <2>4. tables' \in [Dir -> [TableIdx -> 0..MaxTables]]
    BY <1>t, <2>1, <2>3, UpdateFacts
  <2>5. /\ nextTab' \in 1..(MaxTables + 1) /\ nextDir' \in 1..(MaxDirs + 1)
        /\ nextDir # cur
    <3> HIDE DEF n
    <3>1. nextTab' \in 1..(MaxTables + 1)
      BY <1>t, <2>0, <2>1, <2>2
    <3>2. nextDir' \in 1..(MaxDirs + 1)
      BY <2>0, <2>1
    <3>3. nextDir # cur
      BY <1>t DEF Dir
    <3> QED
      BY <3>1, <3>2, <3>3
  <2>6. \A v \in PagesToClone(cur) : v \in Page /\ HasTable(cur, v)
    BY DEF PagesToClone, Private, HasTable
  <2>7. ShapeInv'
    BY <1>t, <2>0, <2>1, <2>6 DEF ShapeInv
  <2>8. \A v \in PagesToClone(cur) : tables'[cur][v \div TableSpan] # NoTable
    BY <1>t, <2>0, <2>1, <2>5, <2>6 DEF HasTable
  <2>9. PhaseInv'
    <3>1. op'.kind = "clone" /\ op'.src = cur /\ op'.dst = nextDir /\ op'.todo = PagesToClone(cur)
      BY <2>1
    <3>2. cur' = cur /\ cur < nextDir' /\ nextDir \in 1..(nextDir' - 1)
      <4>1. cur \in Nat
        BY <1>t DEF Dir
      <4> QED
        BY <1>t, <2>0, <2>1, <4>1
    <3>3. \A v \in op'.todo : tables'[op'.src][v \div TableSpan] # NoTable
      BY <2>8, <3>1
    <3> QED
      BY <2>5, <3>1, <3>2, <3>3 DEF PhaseInv, HasTable
  <2> QED
    BY <1>t, <2>1, <2>4, <2>5, <2>7, <2>9 DEF TypeInv, TypeOK, frameVars
<1>2. CASE ClonePage
  <2> DEFINE v == Min(op.todo)
  <2>1. /\ op \in [kind : {"clone"}, src : Dir, dst : Dir, todo : SUBSET Page]
        /\ op.src = cur /\ op.dst \in 1..(nextDir - 1) /\ op.dst # cur
        /\ \A w \in op.todo : HasTable(op.src, w)
    BY <1>2, <1>t, ShapeFacts DEF ClonePage, PhaseInv
  <2>2. v \in op.todo
    <3>1. op.todo \subseteq Nat
      BY <2>1, PageFacts
    <3> QED
      BY <1>2, <3>1, MinFacts DEF ClonePage
  <2>3. /\ AllocFrame(SlotOf(op.dst, v))
        /\ CopyPagePhysical(pte[SlotOf(op.src, v)].frame, pte'[SlotOf(op.dst, v)].frame)
        /\ op' = [op EXCEPT !.todo = @ \ {v}]
        /\ UNCHANGED <<dirVars, cur, placement, heapLen, freed>>
    BY <1>2 DEF ClonePage
  <2> HIDE DEF v
  <2>4. pte[SlotOf(op.src, v)].frame \in Frame
    <3>1. v \in Page /\ HasTable(op.src, v)
      BY <2>1, <2>2
    <3>2. SlotOf(op.src, v) \in Slot
      BY <2>1, <3>1, SlotFacts
    <3> QED
      BY <1>t, <3>2
  <2>5. data' \in [Frame -> Data]
    <3>1. data[pte[SlotOf(op.src, v)].frame] \in Data
      BY <1>t, <2>4 DEF TypeOK
    <3> QED
      BY <1>t, <2>3, <3>1, UpdateFacts DEF CopyPagePhysical, TypeOK
  <2>6. op' \in [kind : {"clone"}, src : Dir, dst : Dir, todo : SUBSET Page]
        /\ op'.src = op.src /\ op'.dst = op.dst /\ op'.todo \subseteq op.todo
    BY <2>1, <2>3
  <2>7. ShapeInv'
    BY <2>6 DEF ShapeInv
  <2>8. PhaseInv'
    <3>1. tables' = tables /\ nextDir' = nextDir /\ cur' = cur
      BY <2>3 DEF dirVars
    <3>2. \A w \in op'.todo : HasTable(op.src, w)'
      BY <2>1, <2>6, <3>1 DEF HasTable
    <3> QED
      BY <1>t, <2>1, <2>6, <3>1, <3>2 DEF PhaseInv
  <2> QED
    BY <1>t, <2>3, <2>5, <2>7, <2>8, AllocFacts DEF TypeInv, TypeOK, dirVars
<1>3. CASE CloneEnd
  <2>1. /\ op.kind = "clone" /\ op.dst \in Dir /\ op.dst \in 1..(nextDir - 1)
        /\ op' = Idle /\ cur' \in {cur, op.dst}
        /\ UNCHANGED <<frameVars, dirVars, placement, heapLen, data, freed>>
    BY <1>3, <1>t, ShapeFacts DEF CloneEnd, PhaseInv
  <2>2. ShapeInv' /\ PhaseInv'
    BY <1>t, <2>1 DEF ShapeInv, PhaseInv, Idle, dirVars
  <2> QED
    BY <1>t, <2>1, <2>2 DEF TypeInv, TypeOK, frameVars, dirVars
<1> QED
  BY <1>1, <1>2, <1>3

(* move_stack, switches and writes to the stack.                           *)
LEMMA StackTypes ==
    ASSUME TypeInv,
           \/ MoveStackBegin \/ MoveStack
           \/ \E d \in Dir : SwitchDirectory(d)
           \/ \E v \in StackPages, c \in Data : WriteStack(v, c)
    PROVE  TypeInv'
<1> USE PagingAssumption DEF Booting
<1>t. /\ TypeOK /\ ShapeInv /\ PhaseInv
      /\ \A s \in Slot : pte[s].frame \in Frame
  BY DEF TypeInv
<1>1. CASE MoveStackBegin
  <2>1. op' = [kind |-> "movestack", v |-> StackTop] /\ cur # 0
    BY <1>1 DEF MoveStackBegin, Loop
  <2>2. StackTop \in Nat
    OBVIOUS
  <2>3. ShapeInv'
    BY <2>1, <2>2 DEF ShapeInv
  <2> QED
    BY <1>1, <1>t, <2>1, <2>3
       DEF MoveStackBegin, TypeInv, TypeOK, PhaseInv, frameVars, dirVars
<1>2. CASE MoveStack
  <2>1. op.v \in (StackTop - 2)..StackTop /\ cur # 0 /\ StackTop \in Nat
    BY <1>2, <1>t, ShapeFacts DEF MoveStack, PhaseInv
  <2>2. CASE NewTable(cur, op.v) /\ UNCHANGED <<frameVars, data, op>>
    <3>1. PhaseInv'
      BY <1>2, <1>t, <2>2, NewTableFacts DEF MoveStack, PhaseInv
    <3> QED
      BY <1>2, <1>t, <2>2, <3>1, NewTableFacts
         DEF MoveStack, TypeInv, TypeOK, ShapeInv, frameVars
  <2>3. CASE /\ op.v \in StackPages /\ AllocFrame(SlotOf(cur, op.v))
             /\ Loop("movestack", op.v - 1) /\ UNCHANGED <<dirVars, data>>
    <3>1. op' = [kind |-> "movestack", v |-> op.v - 1]
      BY <2>3 DEF Loop
    <3>2. op.v - 1 \in (StackTop - 2)..StackTop
      BY <2>1, <2>3 DEF StackPages
    <3>3. ShapeInv'
      BY <3>1, <3>2 DEF ShapeInv
    <3>4. PhaseInv'
      BY <1>2, <1>t, <2>1, <2>3, <3>1 DEF MoveStack, PhaseInv, dirVars
    <3> QED
      BY <1>2, <1>t, <2>3, <3>3, <3>4, AllocFacts DEF MoveStack, TypeInv, TypeOK, dirVars
  <2>4. CASE /\ \E c \in Data : data' = [f \in Frame |->
                   IF \E v \in StackPages : pte[SlotOf(cur, v)].frame = f
                   THEN c ELSE data[f]]
             /\ op' = Idle /\ UNCHANGED <<frameVars, dirVars>>
    <3>1. ShapeInv' /\ PhaseInv'
      BY <1>2, <1>t, <2>4 DEF MoveStack, ShapeInv, PhaseInv, Idle, dirVars
    <3>2. data' \in [Frame -> Data]
      BY <1>t, <2>4 DEF TypeOK
    <3> QED
      BY <1>2, <1>t, <2>4, <3>1, <3>2 DEF MoveStack, TypeInv, TypeOK, frameVars, dirVars
  <2> QED
    BY <1>2, <2>2, <2>3, <2>4 DEF MoveStack
<1>3. ASSUME NEW d \in Dir, SwitchDirectory(d) PROVE TypeInv'
  <2>1. op = Idle /\ op' = op /\ cur' = d /\ d < nextDir
    BY <1>3, <1>t DEF SwitchDirectory, TypeOK
  <2>2. ShapeInv' /\ PhaseInv'
    BY <1>3, <1>t, <2>1 DEF SwitchDirectory, ShapeInv, PhaseInv, Idle, dirVars
  <2> QED
    BY <1>3, <1>t, <2>1, <2>2 DEF SwitchDirectory, TypeInv, TypeOK, frameVars, dirVars
<1>4. ASSUME NEW v \in StackPages, NEW c \in Data, WriteStack(v, c) PROVE TypeInv'
  <2>1. data' \in [Frame -> Data]
    BY <1>4, <1>t, UpdateFacts DEF WriteStack, TypeOK
  <2>2. op = Idle /\ op' = op
    BY <1>4 DEF WriteStack
  <2>3. ShapeInv' /\ PhaseInv'
    BY <1>4, <1>t, <2>2 DEF WriteStack, ShapeInv, PhaseInv, Idle, dirVars
  <2> QED
    BY <1>4, <1>t, <2>1, <2>3 DEF WriteStack, TypeInv, TypeOK, frameVars, dirVars
<1> QED
  BY <1>1, <1>2, <1>3, <1>4

(* Memory starts zeroed, with no frame in use.                             *)
LEMMA TypeInvInit == Init => TypeInv
<1> USE PagingAssumption
<1> SUFFICES ASSUME Init PROVE TypeInv
  OBVIOUS
<1>1. PICK garbage \in Garbage :
         pte = [s \in Slot \cup {NullSlot} |->
                  [frame |-> IF s = NullSlot THEN garbage ELSE 0, present |-> FALSE]]
  BY DEF Init
<1>2. 0 \in Frame
  BY DEF Frame
<1>3. NullSlot \notin Slot
  BY DEF NullSlot, Slot, NoTable
<1>4. pte \in [Slot \cup {NullSlot} -> [frame : Frame \cup Garbage, present : BOOLEAN]]
  BY <1>1, <1>2
<1>5. \A s \in Slot : pte[s].frame \in Frame
  BY <1>1, <1>2, <1>3
<1>6. tables \in [Dir -> [TableIdx -> 0..MaxTables]]
  BY DEF Init, NoTable
<1>7. data \in [Frame -> Data]
  BY DEF Init
<1>8. ShapeInv /\ PhaseInv
  BY DEF Init, ShapeInv, PhaseInv, Booting
<1>9. cur \in Dir /\ nextDir \in 1..(MaxDirs + 1) /\ nextTab \in 1..(MaxTables + 1)
  BY DEF Init, Dir
<1> QED
  BY <1>4, <1>5, <1>6, <1>7, <1>8, <1>9 DEF Init, TypeInv, TypeOK

(* Every operation keeps TypeInv.                                          *)
LEMMA TypeInvStep == TypeInv /\ [Next]_vars => TypeInv'
<1> SUFFICES ASSUME TypeInv, [Next]_vars PROVE TypeInv'
  OBVIOUS
<1>1. CASE UNCHANGED vars
  BY <1>1 DEF vars, frameVars, dirVars, TypeInv, TypeOK, ShapeInv, PhaseInv, HasTable
<1> QED
  BY <1>1, BootTypes, HeapTypes, CloneTypes, StackTypes DEF Next

(* The bitmap, the page table entries and the directories hold values of   *)
(* their types: no operation marks or maps a frame past the end of memory, *)
(* or copies one.                                                          *)
THEOREM TypeCorrect == Spec => []TypeOK
<1>1. TypeInv => TypeOK
  BY DEF TypeInv
<1> QED
  BY <1>1, TypeInvInit, TypeInvStep, PTL DEF Spec

-----------------------------------------------------------------------------
(* What a step may do to the frames and to the tables.                     *)

(* Frames are handed out by alloc_frame and taken back by free_frame only. *)
LEMMA FrameSteps ==
    ASSUME [Next]_vars
    PROVE  \/ UNCHANGED <<used, pte, exhausted, freed>>
           \/ \E s : AllocFrame(s) /\ freed' = freed
           \/ \E s : FreeFrame(s)
<1>1. CASE BootAlloc \/ BootHeapTable \/ BootIdentity \/ BootHeapPage
  BY <1>1 DEF BootAlloc, BootHeapTable, BootIdentity, BootHeapPage, frameVars
<1>2. CASE \/ \E n \in Requests : ExpandBegin(n)
           \/ Expand
           \/ \E n \in Offsets : ContractBegin(n)
           \/ Contract
  BY <1>2 DEF ExpandBegin, Expand, ContractBegin, Contract, frameVars
<1>3. CASE CloneBegin \/ CloneEnd
  BY <1>3 DEF CloneBegin, CloneEnd, frameVars
<1>4. CASE ClonePage
  BY <1>4 DEF ClonePage
<1>5. CASE \/ MoveStackBegin \/ MoveStack
           \/ \E d \in Dir : SwitchDirectory(d)
           \/ \E v \in StackPages, c \in Data : WriteStack(v, c)
  BY <1>5 DEF MoveStackBegin, MoveStack, SwitchDirectory, WriteStack, frameVars
<1>6. CASE UNCHANGED vars
  BY <1>6 DEF vars, frameVars
<1> QED
  BY <1>1, <1>2, <1>3, <1>4, <1>5, <1>6 DEF Next

(* Tables are made for the kernel during the boot, for the current task's  *)
(* stack where it has none, and by clone_directory.                        *)
LEMMA TableSteps ==
    ASSUME [Next]_vars
    PROVE  \/ UNCHANGED dirVars
           \/ /\ op.kind \in {"heaptables", "identity"}
              /\ ~HasTable(0, op.v) /\ NewTable(0, op.v)
           \/ /\ op.kind = "movestack" /\ op.v \in StackPages
              /\ ~HasTable(cur, op.v) /\ NewTable(cur, op.v)
           \/ CloneBegin
<1>1. CASE BootAlloc \/ BootHeapTable \/ BootIdentity \/ BootHeapPage
  BY <1>1 DEF BootAlloc, BootHeapTable, BootIdentity, BootHeapPage
<1>2. CASE \/ \E n \in Requests : ExpandBegin(n)
           \/ Expand
           \/ \E n \in Offsets : ContractBegin(n)
           \/ Contract
  BY <1>2 DEF ExpandBegin, Expand, ContractBegin, Contract
<1>3. CASE CloneEnd \/ ClonePage
  BY <1>3 DEF CloneEnd, ClonePage
<1>4. CASE \/ MoveStackBegin \/ MoveStack
           \/ \E d \in Dir : SwitchDirectory(d)
           \/ \E v \in StackPages, c \in Data : WriteStack(v, c)
  BY <1>4 DEF MoveStackBegin, MoveStack, SwitchDirectory, WriteStack
<1>5. CASE UNCHANGED vars
  BY <1>5 DEF vars
<1> QED
  BY <1>1, <1>2, <1>3, <1>4, <1>5 DEF Next

-----------------------------------------------------------------------------
(* Frames.                                                                 *)

(* A frame that a page maps is marked in the bitmap, so that alloc_frame   *)
(* does not give it to another one.                                        *)
FrameInv ==
    ~exhausted /\ freed \subseteq {0} =>
       /\ \A s \in Mapped : pte[s].frame \in used
       /\ \A s1, s2 \in Mapped : pte[s1].frame = pte[s2].frame => s1 = s2

(* alloc_frame gives out only a clear bit and free_frame clears only the   *)
(* bit of the entry it empties, so no step maps a frame twice.             *)
LEMMA FrameInvStep == TypeInv /\ FrameInv /\ [Next]_vars => FrameInv'
<1> SUFFICES ASSUME TypeInv, FrameInv, [Next]_vars,
                    ~exhausted', freed' \subseteq {0}
             PROVE  /\ \A u \in Mapped' : pte'[u].frame \in used'
                    /\ \A u1, u2 \in Mapped' :
                          pte'[u1].frame = pte'[u2].frame => u1 = u2
  BY DEF FrameInv
<1>m. /\ \A u : u \in Mapped <=> u \in Slot /\ pte[u].frame # 0
      /\ \A u : u \in Mapped' <=> u \in Slot /\ pte'[u].frame # 0
  BY DEF Mapped
<1>1. CASE UNCHANGED <<used, pte, exhausted, freed>>
  BY <1>1, <1>m DEF FrameInv
<1>2. ASSUME NEW s, AllocFrame(s), freed' = freed
      PROVE  /\ \A u \in Mapped' : pte'[u].frame \in used'
             /\ \A u1, u2 \in Mapped' : pte'[u1].frame = pte'[u2].frame => u1 = u2
  <2>1. /\ used \subseteq used' /\ ~exhausted
        /\ \A u \in Slot : u # s => pte'[u] = pte[u]
    BY <1>2, AllocFacts
  <2>2. /\ \A u \in Mapped : pte[u].frame \in used
        /\ \A u1, u2 \in Mapped : pte[u1].frame = pte[u2].frame => u1 = u2
    BY <1>2, <2>1 DEF FrameInv
  <2>3. CASE s \notin Slot \/ pte[s].frame # 0
    <3>1. \A u \in Slot : pte'[u] = pte[u]
      BY <1>2, <2>1, <2>3, AllocFacts DEF frameVars
    <3> QED
      BY <1>m, <2>1, <2>2, <3>1
  <2>4. CASE s \in Slot /\ pte[s].frame = 0
    <3>1. PICK f \in Frame : /\ FirstFrame(f) /\ used' = used \cup {f}
                             /\ pte'[s] = [frame |-> f, present |-> TRUE]
                             /\ used # Frame
      BY <1>2, <2>4, AllocFacts
    <3>2. f \notin used
      BY <3>1 DEF FirstFrame
    <3>3. \A u \in Mapped' :
             \/ u = s /\ pte'[u].frame = f
             \/ u # s /\ u \in Mapped /\ pte'[u].frame = pte[u].frame
      <4>1. pte'[s].frame = f
        BY <3>1
      <4>2. \A u \in Mapped' : u # s => u \in Mapped /\ pte'[u].frame = pte[u].frame
        BY <1>m, <2>1
      <4> QED
        BY <4>1, <4>2
    <3>4. \A u \in Mapped' : pte'[u].frame \in used'
      BY <2>2, <3>1, <3>3
    <3>5. \A u \in Mapped' : u # s => pte'[u].frame # f
      BY <2>2, <3>2, <3>3
    <3>6. \A u1, u2 \in Mapped' : pte'[u1].frame = pte'[u2].frame => u1 = u2
      <4> SUFFICES ASSUME NEW u1 \in Mapped', NEW u2 \in Mapped',
                          pte'[u1].frame = pte'[u2].frame
                   PROVE  u1 = u2
        OBVIOUS
      <4> QED
        BY <2>2, <3>3, <3>5
    <3> QED
      BY <3>4, <3>6
  <2> QED
    BY <2>3, <2>4
<1>3. ASSUME NEW s, FreeFrame(s)
      PROVE  /\ \A u \in Mapped' : pte'[u].frame \in used'
             /\ \A u1, u2 \in Mapped' : pte'[u1].frame = pte'[u2].frame => u1 = u2
  <2>1. /\ exhausted' = exhausted
        /\ \A u \in Slot : pte'[u].frame # 0 => pte'[u] = pte[u]
        /\ \/ UNCHANGED <<frameVars, freed>>
           \/ \E f : used' = used \ {f} /\ freed' = freed \cup {f}
    BY <1>3, FreeFacts
  <2>2. /\ \A u \in Mapped : pte[u].frame \in used
        /\ \A u1, u2 \in Mapped : pte[u1].frame = pte[u2].frame => u1 = u2
    BY <2>1 DEF FrameInv
  <2>3. \A f \in used : f # 0 => f \in used'
    BY <2>1 DEF frameVars
  <2>4. \A u \in Mapped' : u \in Mapped /\ pte'[u] = pte[u] /\ pte[u].frame # 0
    BY <1>m, <2>1
  <2> QED
    BY <2>2, <2>3, <2>4
<1> QED
  BY <1>1, <1>2, <1>3, FrameSteps

-----------------------------------------------------------------------------
(* Tables.                                                                 *)

(* A table of the kernel is in every directory.                            *)
SharedInv ==
    \A d \in 1..(nextDir - 1), t \in TableIdx :
       tables[0][t] # NoTable => tables[d][t] = tables[0][t]

(* clone_directory links the kernel's tables, and the kernel makes no      *)
(* table after boot, so what every directory shares stays shared.          *)
LEMMA SharedInvStep == TypeInv /\ SharedInv /\ [Next]_vars => SharedInv'
<1> SUFFICES ASSUME TypeInv, SharedInv, [Next]_vars,
                    NEW d \in 1..(nextDir' - 1), NEW t \in TableIdx,
                    tables'[0][t] # NoTable
             PROVE  tables'[d][t] = tables'[0][t]
  BY DEF SharedInv
<1>t. /\ nextDir \in 1..(MaxDirs + 1) /\ MaxDirs \in Nat
      /\ cur \in Dir /\ cur < nextDir /\ 0 \in Dir
      /\ op.kind \in Booting => nextDir = 1
      /\ op.kind = "movestack" => cur # 0
      /\ tables \in [Dir -> [TableIdx -> 0..MaxTables]] /\ nextTab \in Nat
  <2>1. MaxDirs \in Nat
    BY PagingAssumption
  <2>2. 0 \in Dir
    BY <2>1 DEF Dir
  <2> QED
    BY <2>1, <2>2 DEF TypeInv, TypeOK, PhaseInv
<1>1. CASE UNCHANGED dirVars
  BY <1>1 DEF SharedInv, dirVars
<1>2. CASE op.kind \in {"heaptables", "identity"} /\ NewTable(0, op.v)
  BY <1>2, <1>t DEF Booting, NewTable
<1>3. CASE /\ op.kind = "movestack" /\ op.v \in StackPages
           /\ ~HasTable(cur, op.v) /\ NewTable(cur, op.v)
  <2>1. /\ nextDir' = nextDir
        /\ \A e \in Dir : tables'[e][t] = IF e = cur /\ t = op.v \div TableSpan
                                          THEN nextTab ELSE tables[e][t]
    BY <1>3, NewTableFacts
  <2>2. d \in Dir /\ d \in 1..(nextDir - 1) /\ cur # 0
    BY <1>3, <1>t, <2>1 DEF Dir
  <2>3. tables[d][t] = tables[0][t] /\ tables[0][t] # NoTable /\ tables'[0][t] = tables[0][t]
    BY <1>t, <2>1, <2>2 DEF SharedInv
  <2> QED
    BY <1>3, <1>t, <2>1, <2>2, <2>3 DEF HasTable
<1>4. CASE CloneBegin
  <2>1. /\ nextDir' = nextDir + 1 /\ nextDir <= MaxDirs
        /\ tables' = [tables EXCEPT ![nextDir] = ClonedTables(cur)]
    BY <1>4 DEF CloneBegin
  <2>2. nextDir \in Dir /\ nextDir # 0 /\ d \in Dir
    BY <1>t, <2>1 DEF Dir
  <2>3. tables'[0] = tables[0] /\ tables'[nextDir] = ClonedTables(cur)
        /\ (d # nextDir => tables'[d] = tables[d])
    BY <1>t, <2>1, <2>2
  <2>4. CASE d = nextDir
    <3>1. tables[cur][t] = tables[0][t]
      <4>1. CASE cur = 0
        BY <4>1
      <4>2. CASE cur # 0
        <5>1. cur \in 1..(nextDir - 1)
          BY <1>t, <4>2 DEF Dir
        <5> QED
          BY <2>3, <5>1 DEF SharedInv
      <4> QED
        BY <4>1, <4>2
    <3>2. t \notin Private(cur)
      BY <3>1 DEF Private
    <3>3. ClonedTables(cur)[t] = tables[cur][t]
      BY <1>t, <3>2, CloneFacts
    <3> QED
      BY <2>3, <2>4, <3>1, <3>3
  <2>5. CASE d # nextDir
    <3>1. d \in 1..(nextDir - 1)
      BY <1>t, <2>1, <2>5
    <3> QED
      BY <2>3, <2>5, <3>1 DEF SharedInv
  <2> QED
    BY <2>4, <2>5
<1> QED
  BY <1>1, <1>2, <1>3, <1>4, TableSteps

(***************************************************************************)
(* Every directory, however many forks it is away from the first one, sees *)
(* the kernel's pages through the kernel's own tables: a heap page mapped  *)
(* for one task is mapped for all.                                         *)
(***************************************************************************)
THEOREM KernelInEveryDirectory == Spec => []KernelShared
<1>1. Init => SharedInv
  BY DEF Init, SharedInv
<1>2. TypeInv /\ SharedInv => KernelShared
  <2> SUFFICES ASSUME SharedInv, NEW d \in 1..(nextDir - 1), NEW v \in Page,
                      HasTable(0, v)
               PROVE  SlotOf(d, v) = SlotOf(0, v)
    BY DEF KernelShared
  <2>1. v \div TableSpan \in TableIdx
    BY PageFacts
  <2> QED
    BY <2>1 DEF SharedInv, HasTable, SlotOf
<1> QED
  BY <1>1, <1>2, TypeInvInit, TypeInvStep, SharedInvStep, PTL DEF Spec

-----------------------------------------------------------------------------
(* The layout.                                                             *)

(* Pages up to the top of the stack have a place in a directory.           *)
LEMMA PageRange ==
    ASSUME NEW v \in Nat, v <= StackTop
    PROVE  v \in Page
<1> DEFINE q == StackTop \div TableSpan
<1>1. StackTop \in Nat /\ TableSpan \in Nat \ {0}
  BY PagingAssumption
<1>2. /\ q \in Nat /\ StackTop % TableSpan \in 0..(TableSpan - 1)
      /\ StackTop = TableSpan * q + (StackTop % TableSpan)
  BY <1>1, DivFacts
<1>p. Page = 0..(q * TableSpan + TableSpan - 1)
  BY DEF Page
<1> HIDE DEF q
<1>3. StackTop <= q * TableSpan + TableSpan - 1
  BY <1>1, <1>2
<1>4. q * TableSpan \in Nat
  BY <1>1, <1>2
<1> QED
  BY <1>1, <1>3, <1>4, <1>p

(* The constants are numbers.                                              *)
LEMMA ConstantTypes ==
    /\ NFrames \in Nat \ {0} /\ PageSize \in Nat \ {0} /\ TableSpan \in Nat \ {0}
    /\ Placement \in Nat /\ BitmapSize \in Nat /\ DirSize \in Nat /\ HeapTSize \in Nat
    /\ HeapBase \in Nat /\ IndexPages \in Nat /\ InitPages \in Nat \ {0}
    /\ HeapMin \in Nat /\ HeapMax \in Nat /\ StackTop \in Nat
    /\ MaxDirs \in Nat /\ MaxTables \in Nat
    /\ StackTop > HeapBase + InitPages
    /\ BootTables \in Nat \ {0} /\ LowEnd \in Nat
<1>1. /\ NFrames \in Nat \ {0} /\ PageSize \in Nat \ {0} /\ TableSpan \in Nat \ {0}
      /\ Placement \in Nat /\ BitmapSize \in Nat /\ DirSize \in Nat /\ HeapTSize \in Nat
      /\ HeapBase \in Nat /\ IndexPages \in Nat /\ InitPages \in Nat
      /\ HeapMin \in Nat /\ HeapMax \in Nat /\ StackTop \in Nat
      /\ MaxDirs \in Nat /\ MaxTables \in Nat
      /\ IndexPages < InitPages /\ StackTop > HeapBase + InitPages
  BY PagingAssumption
<1>2. InitPages \in Nat \ {0} /\ HeapBase + InitPages - 1 \in Nat
  BY <1>1
<1>3. (HeapBase + InitPages - 1) \div TableSpan \in Nat
  BY <1>1, <1>2, DivFacts
<1>4. BootTables \in Nat \ {0}
  BY <1>3 DEF BootTables
<1>5. 2 * PageSize * (BootTables + 1) \in Nat
  BY <1>1, <1>4
<1>6. LowEnd \in Nat
  BY <1>1, <1>5 DEF LowEnd
<1> QED
  BY <1>1, <1>2, <1>4, <1>6

(* The pages of the heap's first extent are in the tables of the boot.     *)
LEMMA BootPages ==
    ASSUME NEW v \in Nat, v < HeapBase + InitPages
    PROVE  v \in Page /\ v \div TableSpan \in 0..(BootTables - 1)
<1>1. v \in Page
  BY ConstantTypes, PageRange
<1>2. v <= HeapBase + InitPages - 1 /\ HeapBase + InitPages - 1 \in Nat
  BY ConstantTypes
<1>3. v \div TableSpan <= (HeapBase + InitPages - 1) \div TableSpan
  BY <1>2, ConstantTypes, DivMono
<1>4. /\ v \div TableSpan \in Nat
      /\ (HeapBase + InitPages - 1) \div TableSpan \in Nat
  BY <1>2, ConstantTypes, DivFacts
<1> QED
  BY <1>1, <1>3, <1>4 DEF BootTables

(* So are the pages of the blocks placed before the heap exists, which are *)
(* below the heap, and whose frames exist.                                 *)
LEMMA LowPages ==
    ASSUME NEW v \in Nat, v * PageSize < LowEnd
    PROVE  /\ v < HeapBase /\ v < NFrames
           /\ v \in Page /\ v \div TableSpan \in 0..(BootTables - 1)
<1>1. LowEnd <= HeapBase * PageSize /\ LowEnd <= NFrames * PageSize
  BY LayoutAssumption
<1>2. v * PageSize \in Int /\ HeapBase * PageSize \in Int /\ NFrames * PageSize \in Int
  BY ConstantTypes, MulMono
<1>3. v * PageSize < HeapBase * PageSize /\ v * PageSize < NFrames * PageSize
  BY <1>1, <1>2, ConstantTypes
<1>4. v < HeapBase /\ v < NFrames
  BY <1>3, ConstantTypes, MulMono
<1>5. v < HeapBase + InitPages
  BY <1>4, ConstantTypes
<1> QED
  BY <1>4, <1>5, BootPages

(* The stack is in tables of its own.                                      *)
LEMMA StackPageFacts ==
    ASSUME NEW v \in StackPages
    PROVE  v \in Page /\ v \in Nat /\ v \div TableSpan \in TableIdx
           /\ v \div TableSpan >= BootTables
<1>1. v \in Nat /\ v <= StackTop /\ StackTop - 1 <= v /\ StackTop - 1 \in Nat
  BY ConstantTypes DEF StackPages
<1>2. v \in Page
  BY <1>1, PageRange
<1>3. v \div TableSpan >= (StackTop - 1) \div TableSpan
  BY <1>1, ConstantTypes, DivMono
<1>4. BootTables <= (StackTop - 1) \div TableSpan
  BY LayoutAssumption
<1>5. v \div TableSpan \in Nat /\ (StackTop - 1) \div TableSpan \in Nat
  BY <1>1, ConstantTypes, DivFacts
<1>6. v \div TableSpan \in TableIdx
  BY ONLY <1>2, PageFacts
<1>7. BootTables \in Nat
  BY ConstantTypes
<1>8. \A x, y, z \in Nat : x <= y /\ z >= y => z >= x
  OBVIOUS
<1>9. v \div TableSpan >= BootTables
  BY ONLY <1>3, <1>4, <1>5, <1>7, <1>8
<1> QED
  BY ONLY <1>1, <1>2, <1>6, <1>9

(* The sizes that the heap may come to.                                    *)
LEMMA HeapSizeTypes == HeapSizes \subseteq Nat
<1>1. 2 * PageSize \in Nat /\ InitPages - IndexPages \in Nat
  BY ConstantTypes, PagingAssumption
<1>2. (InitPages - IndexPages) * PageSize \in Nat
  BY <1>1, ConstantTypes
<1> QED
  BY <1>1, <1>2, ConstantTypes DEF HeapSizes

(* The heap, as far as it grows, is below the stack.                       *)
LEMMA HeapPages ==
    ASSUME NEW i \in Nat, NEW n \in HeapSizes, i <= n
    PROVE  HeapPage(i) \in Page /\ HeapPage(i) \in Nat /\ HeapPage(i) >= HeapBase
<1>1. n \in Nat
  BY HeapSizeTypes
<1>2. i \div PageSize <= n \div PageSize
  BY <1>1, ConstantTypes, DivMono
<1>3. i \div PageSize \in Nat /\ n \div PageSize \in Nat
  BY <1>1, ConstantTypes, DivFacts
<1>4. HeapStart + (n \div PageSize) < StackTop - 1
  BY LayoutAssumption
<1>5. HeapStart \in Nat /\ HeapStart >= HeapBase
  BY ConstantTypes DEF HeapStart
<1>6. HeapPage(i) \in Nat /\ HeapPage(i) >= HeapBase /\ HeapPage(i) <= StackTop
  BY <1>2, <1>3, <1>4, <1>5, ConstantTypes DEF HeapPage
<1> QED
  BY <1>6, PageRange

(* Before the boot is over only the boot runs, and afterwards it does not  *)
(* run again: the kernel's tables and the placed blocks stay as they are.  *)
LEMMA BootSteps ==
    ASSUME Next, op.kind \in Booting
    PROVE  BootAlloc \/ BootHeapTable \/ BootIdentity \/ BootHeapPage
<1> USE DEF Booting, Idle
<1>1. ~(\E n \in Requests : ExpandBegin(n)) /\ ~(\E n \in Offsets : ContractBegin(n))
  BY DEF ExpandBegin, ContractBegin
<1>2. ~Expand /\ ~Contract
  BY DEF Expand, Contract
<1>3. ~CloneBegin /\ ~ClonePage /\ ~CloneEnd
  BY DEF CloneBegin, ClonePage, CloneEnd
<1>4. ~MoveStackBegin /\ ~MoveStack
  BY DEF MoveStackBegin, MoveStack
<1>5. ~(\E d \in Dir : SwitchDirectory(d))
      /\ ~(\E v \in StackPages, c \in Data : WriteStack(v, c))
  BY DEF SwitchDirectory, WriteStack
<1> QED
  BY <1>1, <1>2, <1>3, <1>4, <1>5 DEF Next

(* Once boot is over, the kernel's tables and the placement address stay   *)
(* as they are.                                                            *)
LEMMA AfterBoot ==
    ASSUME TypeInv, Next, op.kind \notin Booting
    PROVE  op'.kind \notin Booting /\ placement' = placement /\ tables'[0] = tables[0]
<1> USE DEF Booting, Idle, dirVars
<1>t. /\ ShapeInv /\ 0 \in Dir /\ nextDir \in Nat \ {0}
      /\ tables \in [Dir -> [TableIdx -> 0..MaxTables]]
      /\ op.kind = "movestack" => cur # 0
  <2>1. 0 \in Dir
    BY ConstantTypes DEF Dir
  <2> QED
    BY <2>1 DEF TypeInv, TypeOK, PhaseInv
<1>1. ~(BootAlloc \/ BootHeapTable \/ BootIdentity \/ BootHeapPage)
  BY DEF BootAlloc, BootHeapTable, BootIdentity, BootHeapPage
<1>2. CASE (\E n \in Requests : ExpandBegin(n)) \/ (\E n \in Offsets : ContractBegin(n))
  BY <1>2 DEF ExpandBegin, ContractBegin
<1>3. CASE Expand \/ Contract
  <2>1. op'.kind \in {"idle", "expand", "contract"}
    BY <1>3, <1>t, ShapeFacts DEF Expand, Contract
  <2> QED
    BY <1>3, <2>1 DEF Expand, Contract
<1>4. CASE CloneBegin
  BY <1>4, <1>t DEF CloneBegin
<1>5. CASE ClonePage \/ CloneEnd
  <2>1. op'.kind \in {"idle", "clone"}
    BY <1>5, <1>t, ShapeFacts DEF ClonePage, CloneEnd
  <2> QED
    BY <1>5, <2>1 DEF ClonePage, CloneEnd
<1>6. CASE MoveStackBegin \/ MoveStack
  <2>1. op'.kind \in {"idle", "movestack"} /\ placement' = placement
    BY <1>6 DEF MoveStackBegin, MoveStack, Loop
  <2>2. tables'[0] = tables[0]
    BY <1>6, <1>t DEF MoveStackBegin, MoveStack, NewTable
  <2> QED
    BY <2>1, <2>2
<1>7. CASE \/ \E d \in Dir : SwitchDirectory(d)
           \/ \E v \in StackPages, c \in Data : WriteStack(v, c)
  BY <1>7 DEF SwitchDirectory, WriteStack
<1> QED
  BY <1>1, <1>2, <1>3, <1>4, <1>5, <1>6, <1>7 DEF Next

(* The blocks placed before the heap exists stay below LowEnd, because the *)
(* boot makes no more than BootTables page tables, and all of these for    *)
(* pages below the end of the heap's first extent.                         *)
KernelTables == {t \in TableIdx : tables[0][t] # NoTable}

BasePlacement == Placement + BitmapSize + DirSize + PageSize

PlaceInv ==
    /\ KernelTables \subseteq 0..(BootTables - 1)
    /\ op.kind \in {"boot", "heaptables", "identity"} =>
          nextTab = Cardinality(KernelTables) + 1
    /\ op.kind = "boot" => placement = Placement /\ nextTab = 1
    /\ op.kind \in {"heaptables", "identity"} =>
          placement <= BasePlacement + 2 * PageSize * (nextTab - 1)
    /\ op.kind = "heappages" => placement + PageSize <= LowEnd
    /\ placement <= LowEnd

(* So many tables, at two pages each, fit below LowEnd.                    *)
LEMMA TablesFit ==
    ASSUME NEW K, K \subseteq 0..(BootTables - 1)
    PROVE  /\ IsFiniteSet(K) /\ Cardinality(K) \in Nat
           /\ BasePlacement + 2 * PageSize * Cardinality(K) + PageSize <= LowEnd
<1> DEFINE n == Cardinality(K)
<1>1. /\ IsFiniteSet(0..(BootTables - 1))
      /\ Cardinality(0..(BootTables - 1)) = BootTables
  BY ConstantTypes, FS_Interval
<1>2. IsFiniteSet(K) /\ n \in Nat /\ n <= BootTables
  BY <1>1, FS_Subset, FS_CardinalityType
<1> HIDE DEF n
<1>3. n * (2 * PageSize) <= BootTables * (2 * PageSize)
  BY <1>2, ConstantTypes, MulMono
<1>4. LowEnd = BasePlacement + BootTables * (2 * PageSize) + PageSize
      /\ BasePlacement \in Nat
  BY ConstantTypes DEF LowEnd, BasePlacement
<1>5. /\ 2 * PageSize * n = n * (2 * PageSize)
      /\ n * (2 * PageSize) \in Int /\ BootTables * (2 * PageSize) \in Int
  BY <1>2, ConstantTypes
<1>6. BasePlacement + 2 * PageSize * n + PageSize <= LowEnd
  BY <1>3, <1>4, <1>5, ConstantTypes
<1> QED
  BY <1>2, <1>6 DEF n

(* During boot the placement address is at least a page below the end of   *)
(* the identity mapped region.                                             *)
LEMMA PlaceBound ==
    ASSUME TypeInv, PlaceInv, op.kind \in {"heaptables", "identity"}
    PROVE  placement + PageSize <= LowEnd
<1>1. /\ placement <= BasePlacement + 2 * PageSize * (nextTab - 1)
      /\ nextTab = Cardinality(KernelTables) + 1 /\ placement \in Nat
      /\ KernelTables \subseteq 0..(BootTables - 1)
  BY DEF PlaceInv, TypeInv, TypeOK
<1> DEFINE n == Cardinality(KernelTables)
<1>2. n \in Nat /\ BasePlacement + 2 * PageSize * n + PageSize <= LowEnd
  BY <1>1, TablesFit
<1>3. nextTab - 1 = n
  BY <1>1, <1>2
<1> HIDE DEF n
<1>4. 2 * PageSize * n \in Nat /\ BasePlacement \in Nat
  BY <1>2, ConstantTypes DEF BasePlacement
<1>5. placement <= BasePlacement + 2 * PageSize * n
  BY <1>1, <1>3
<1> QED
  BY <1>1, <1>2, <1>4, <1>5, ConstantTypes

(* A table that the boot makes.                                            *)
LEMMA BootTableFacts ==
    ASSUME TypeInv, PlaceInv, NewTable(0, op.v), PlaceTable, ~HasTable(0, op.v),
           \/ op.kind = "heaptables" /\ op.v < HeapBase + InitPages
           \/ op.kind = "identity" /\ MoreToMap
    PROVE  /\ op.v \in Page /\ op.v \in Nat
           /\ KernelTables' \subseteq 0..(BootTables - 1)
           /\ nextTab' = Cardinality(KernelTables') + 1
           /\ placement' <= BasePlacement + 2 * PageSize * (nextTab' - 1)
           /\ placement' <= LowEnd
           /\ placement' >= placement
<1> DEFINE t == op.v \div TableSpan
<1>1. op.v \in Nat
  BY ShapeFacts, ConstantTypes DEF TypeInv
<1>2. placement + PageSize <= LowEnd /\ placement \in Nat
  BY PlaceBound DEF TypeInv, TypeOK
<1>3. op.v \in Page /\ t \in 0..(BootTables - 1)
  <2>1. CASE op.kind = "heaptables" /\ op.v < HeapBase + InitPages
    BY <1>1, <2>1, BootPages
  <2>2. CASE op.kind = "identity" /\ MoreToMap
    <3>1. op.v * PageSize \in Int
      BY <1>1, ConstantTypes, MulMono
    <3>2. op.v * PageSize < LowEnd
      BY <1>2, <2>2, <3>1, ConstantTypes DEF MoreToMap
    <3> QED
      BY <1>1, <3>2, LowPages
  <2> QED
    BY <2>1, <2>2
<1>4. t \in TableIdx
  BY <1>3, PageFacts
<1>5. /\ nextTab' = nextTab + 1 /\ nextTab \in Nat \ {0}
      /\ \A u \in TableIdx : tables'[0][u] = IF u = t THEN nextTab ELSE tables[0][u]
  <2>1. 0 \in Dir
    BY ConstantTypes DEF Dir
  <2> QED
    BY <2>1, NewTableFacts
<1>6. t \notin KernelTables /\ KernelTables' = KernelTables \cup {t}
  BY <1>4, <1>5 DEF KernelTables, HasTable, NoTable
<1> HIDE DEF t
<1>7. KernelTables' \subseteq 0..(BootTables - 1)
  BY <1>3, <1>6 DEF PlaceInv
<1>8. nextTab = Cardinality(KernelTables) + 1
      /\ Cardinality(KernelTables') = Cardinality(KernelTables) + 1
  <2>1. KernelTables \subseteq 0..(BootTables - 1) /\ nextTab = Cardinality(KernelTables) + 1
    BY DEF PlaceInv
  <2>2. IsFiniteSet(KernelTables)
    BY <2>1, TablesFit
  <2> QED
    BY <1>6, <2>1, <2>2, FS_AddElement
<1>9. nextTab' = Cardinality(KernelTables') + 1
  BY <1>5, <1>8
<1>10. placement' \in Nat /\ placement <= placement' /\ placement' <= placement + 2 * PageSize
  <2>1. AlignUp(placement) \in Nat /\ placement <= AlignUp(placement)
        /\ AlignUp(placement) <= placement + PageSize
    BY <1>2, AlignFacts
  <2> QED
    BY <1>2, <2>1, ConstantTypes DEF PlaceTable
<1>11. placement <= BasePlacement + 2 * PageSize * (nextTab - 1)
  BY DEF PlaceInv
<1>12. placement' <= BasePlacement + 2 * PageSize * (nextTab' - 1)
  <2>1. nextTab' - 1 = (nextTab - 1) + 1 /\ nextTab - 1 \in Nat
    BY <1>5
  <2>2. 2 * PageSize * (nextTab' - 1) = 2 * PageSize * (nextTab - 1) + 2 * PageSize
    BY <2>1, ConstantTypes
  <2>3. 2 * PageSize * (nextTab - 1) \in Nat /\ BasePlacement \in Nat
    BY <2>1, ConstantTypes DEF BasePlacement
  <2> QED
    BY <1>2, <1>10, <1>11, <2>2, <2>3, ConstantTypes
<1>13. placement' <= LowEnd
  <2> DEFINE n == Cardinality(KernelTables')
  <2>1. n \in Nat /\ BasePlacement + 2 * PageSize * n + PageSize <= LowEnd
    BY <1>7, TablesFit
  <2>2. nextTab' - 1 = n
    BY <1>9, <2>1
  <2> HIDE DEF n
  <2>3. 2 * PageSize * n \in Nat /\ BasePlacement \in Nat
    BY <2>1, ConstantTypes DEF BasePlacement
  <2>4. placement' <= BasePlacement + 2 * PageSize * n
    BY <1>12, <2>2
  <2> QED
    BY <1>10, <2>1, <2>3, <2>4, ConstantTypes
<1> QED
  BY <1>1, <1>3, <1>7, <1>9, <1>10, <1>12, <1>13

(* The placement address starts where the kernel image ends and no table   *)
(* has been made.                                                          *)
LEMMA PlaceInvInit == Init => PlaceInv
<1> SUFFICES ASSUME Init PROVE PlaceInv
  OBVIOUS
<1>1. KernelTables = {}
  <2>1. 0 \in Dir
    BY ConstantTypes DEF Dir
  <2> QED
    BY <2>1 DEF Init, KernelTables
<1>2. op.kind = "boot" /\ placement = Placement /\ nextTab = 1
  BY DEF Init
<1>3. Cardinality(KernelTables) = 0
  BY <1>1, FS_EmptySet
<1>4. Placement <= LowEnd
  <2>1. 2 * PageSize * (BootTables + 1) \in Nat
    BY ConstantTypes
  <2> QED
    BY <2>1, ConstantTypes DEF LowEnd
<1> QED
  BY <1>1, <1>2, <1>3, <1>4 DEF PlaceInv

(* Each table made during boot moves the placement address by at most two  *)
(* pages.                                                                  *)
LEMMA PlaceInvStep == TypeInv /\ PlaceInv /\ [Next]_vars => PlaceInv'
<1> SUFFICES ASSUME TypeInv, PlaceInv, [Next]_vars PROVE PlaceInv'
  OBVIOUS
<1>s. CASE UNCHANGED vars
  BY <1>s DEF vars, dirVars, PlaceInv, KernelTables
<1>a. CASE Next /\ op.kind \notin Booting
  <2>1. op'.kind \notin Booting /\ placement' = placement /\ KernelTables' = KernelTables
    BY <1>a, AfterBoot DEF KernelTables
  <2> QED
    BY <2>1 DEF PlaceInv, Booting
<1>k. UNCHANGED dirVars => KernelTables' = KernelTables /\ nextTab' = nextTab
  BY DEF dirVars, KernelTables
<1>t. placement \in Nat /\ placement <= LowEnd
  BY DEF TypeInv, TypeOK, PlaceInv
<1> USE DEF Loop
<1>1. CASE BootAlloc
  <2>1. /\ op.kind = "boot" /\ op'.kind = "heaptables"
        /\ placement' = AlignUp(placement + BitmapSize) + DirSize
        /\ KernelTables' = KernelTables /\ nextTab' = nextTab
    BY <1>1, <1>k DEF BootAlloc
  <2>2. /\ placement = Placement /\ nextTab = 1
        /\ KernelTables \subseteq 0..(BootTables - 1) /\ nextTab = Cardinality(KernelTables) + 1
    BY <2>1 DEF PlaceInv
  <2>3. placement + BitmapSize \in Nat
    BY <1>t, ConstantTypes
  <2>4. placement' <= BasePlacement /\ placement' \in Nat
    BY <2>1, <2>2, <2>3, AlignFacts, ConstantTypes DEF BasePlacement
  <2>5. 2 * PageSize * (nextTab' - 1) = 0
    BY <2>1, <2>2, ConstantTypes
  <2>6. BasePlacement \in Nat /\ BasePlacement <= LowEnd
    <3>1. 2 * PageSize * (BootTables + 1) = 2 * PageSize * BootTables + 2 * PageSize
          /\ 2 * PageSize * BootTables \in Nat
      BY ConstantTypes
    <3> QED
      BY <3>1, ConstantTypes DEF BasePlacement, LowEnd
  <2>7. placement' <= BasePlacement + 2 * PageSize * (nextTab' - 1) /\ placement' <= LowEnd
    BY <2>4, <2>5, <2>6, ConstantTypes
  <2> QED
    BY <2>1, <2>2, <2>7 DEF PlaceInv
<1>2. CASE BootHeapTable
  <2>1. op.kind = "heaptables" /\ op'.kind \in {"heaptables", "identity"}
    BY <1>2 DEF BootHeapTable
  <2>2. CASE op.v < HeapBase + InitPages /\ ~HasTable(0, op.v) /\ NewTable(0, op.v) /\ PlaceTable
    BY <2>1, <2>2, BootTableFacts DEF PlaceInv
  <2>3. CASE UNCHANGED <<dirVars, placement>>
    BY <1>k, <2>1, <2>3 DEF PlaceInv
  <2> QED
    BY <1>2, <2>2, <2>3 DEF BootHeapTable
<1>3. CASE BootIdentity
  <2>1. op.kind = "identity"
    BY <1>3 DEF BootIdentity
  <2>2. CASE MoreToMap /\ ~HasTable(0, op.v) /\ NewTable(0, op.v) /\ PlaceTable /\ op' = op
    BY <2>1, <2>2, BootTableFacts DEF PlaceInv
  <2>3. CASE op'.kind = "identity" /\ UNCHANGED <<dirVars, placement>>
    BY <1>k, <2>1, <2>3 DEF PlaceInv
  <2>4. CASE op'.kind = "heappages" /\ UNCHANGED <<dirVars, placement>>
    BY <1>k, <2>1, <2>4, PlaceBound DEF PlaceInv
  <2> QED
    BY <1>3, <2>2, <2>3, <2>4 DEF BootIdentity
<1>4. CASE BootHeapPage
  <2>1. op.kind = "heappages" /\ UNCHANGED dirVars
    BY <1>4 DEF BootHeapPage
  <2>2. KernelTables' = KernelTables /\ placement + PageSize <= LowEnd
    BY <1>k, <2>1 DEF PlaceInv
  <2>3. CASE op'.kind = "heappages" /\ placement' = placement
    BY <2>1, <2>2, <2>3 DEF PlaceInv
  <2>4. CASE op' = Idle /\ placement' = placement + HeapTSize
    <3>1. placement' <= LowEnd
      BY <1>t, <2>2, <2>4, ConstantTypes, LayoutAssumption
    <3> QED
      BY <2>2, <2>4, <3>1 DEF PlaceInv, Idle
  <2> QED
    BY <1>4, <2>3, <2>4 DEF BootHeapPage
<1> QED
  BY <1>s, <1>a, <1>1, <1>2, <1>3, <1>4, BootSteps

(* The heap keeps to its sizes, and so does contract on its way down.      *)
HeapInv ==
    /\ \E m \in HeapSizes : heapLen <= m
    /\ op.kind = "contract" => \E m \in HeapSizes : op.n <= m /\ op.i <= m

(* expand and contract leave the heap within the sizes its pages were      *)
(* reserved for.                                                           *)
LEMMA HeapInvStep == TypeInv /\ HeapInv /\ [Next]_vars => HeapInv'
<1> SUFFICES ASSUME TypeInv, HeapInv, [Next]_vars PROVE HeapInv'
  OBVIOUS
<1>t. heapLen \in Nat /\ ShapeInv /\ \A m \in HeapSizes : m \in Nat
  BY HeapSizeTypes DEF TypeInv, TypeOK
<1>k. UNCHANGED heapLen /\ op'.kind # "contract" => HeapInv'
  BY DEF HeapInv
<1> USE DEF Idle, Loop
<1>1. CASE BootAlloc \/ BootHeapTable \/ BootIdentity
  BY <1>1, <1>k DEF BootAlloc, BootHeapTable, BootIdentity
<1>2. CASE BootHeapPage
  <2>1. CASE UNCHANGED heapLen
    BY <1>2, <1>k, <2>1 DEF BootHeapPage
  <2>2. CASE heapLen' = (InitPages - IndexPages) * PageSize /\ op' = Idle
    <3>1. heapLen' \in HeapSizes
      BY <2>2 DEF HeapSizes
    <3> QED
      BY <1>t, <2>2, <3>1 DEF HeapInv
  <2> QED
    BY <1>2, <2>1, <2>2 DEF BootHeapPage
<1>3. CASE \E n \in Requests : ExpandBegin(n)
  BY <1>3, <1>k DEF ExpandBegin
<1>4. CASE Expand
  <2>1. op \in [kind : {"expand"}, i : Nat, n : 0..HeapMax]
    BY <1>4, <1>t, ShapeFacts DEF Expand
  <2>2. CASE UNCHANGED heapLen
    BY <1>4, <1>k, <2>1, <2>2 DEF Expand
  <2>3. CASE heapLen' = op.n /\ op' = Idle
    <3>1. HeapMax \in HeapSizes /\ op.n <= HeapMax
      BY <2>1, ConstantTypes DEF HeapSizes
    <3> QED
      BY <2>3, <3>1 DEF HeapInv
  <2> QED
    BY <1>4, <2>2, <2>3 DEF Expand
<1>5. ASSUME NEW n \in Offsets, ContractBegin(n) PROVE HeapInv'
  <2>1. /\ n < heapLen /\ op' = [kind |-> "contract", i |-> heapLen - PageSize, n |-> RoundDown(n)]
        /\ heapLen' = heapLen /\ n \in Nat
    BY <1>5, PagingAssumption DEF ContractBegin
  <2>2. PICK m \in HeapSizes : heapLen <= m
    BY DEF HeapInv
  <2>3. RoundDown(n) \in {n, HeapMin, 2 * PageSize}
    BY DEF RoundDown
  <2>4. PICK k \in HeapSizes : k >= m /\ RoundDown(n) <= k
    <3>1. HeapMin \in HeapSizes /\ 2 * PageSize \in HeapSizes
      BY DEF HeapSizes
    <3>2. n <= m
      BY <1>t, <2>1, <2>2
    <3>3. HeapMin \in Nat /\ 2 * PageSize \in Nat /\ m \in Nat
      BY <1>t, <3>1
    <3>4. CASE RoundDown(n) <= m
      BY <3>3, <3>4
    <3>5. CASE ~(RoundDown(n) <= m)
      <4>1. RoundDown(n) \in HeapSizes /\ RoundDown(n) \in Nat
        BY <2>3, <3>1, <3>2, <3>3, <3>5
      <4> QED
        BY <3>3, <3>5, <4>1
    <3> QED
      BY <3>4, <3>5
  <2>5. heapLen - PageSize <= k
    BY <1>t, <2>2, <2>4, ConstantTypes
  <2> QED
    BY <2>1, <2>2, <2>4, <2>5 DEF HeapInv
<1>6. CASE Contract
  <2>1. op \in [kind : {"contract"}, i : Int, n : Nat]
    BY <1>6, <1>t, ShapeFacts DEF Contract
  <2>2. PICK m \in HeapSizes : op.n <= m /\ op.i <= m
    BY <1>6 DEF Contract, HeapInv
  <2>3. CASE op' = [op EXCEPT !.i = @ - PageSize] /\ heapLen' = heapLen
    <3>1. op'.n = op.n /\ op'.i <= m
      BY <1>t, <2>1, <2>2, <2>3, ConstantTypes
    <3> QED
      BY <2>2, <2>3, <3>1 DEF HeapInv
  <2>4. CASE heapLen' = op.n /\ op' = Idle
    BY <2>2, <2>4 DEF HeapInv
  <2> QED
    BY <1>6, <2>3, <2>4 DEF Contract
<1>7. CASE CloneBegin
  BY <1>7, <1>k DEF CloneBegin
<1>8. CASE ClonePage \/ CloneEnd
  <2>1. op'.kind \in {"clone", "idle"} /\ heapLen' = heapLen
    BY <1>8, <1>t, ShapeFacts DEF ClonePage, CloneEnd
  <2> QED
    BY <1>k, <2>1
<1>9. CASE MoveStackBegin \/ MoveStack
  BY <1>9, <1>k DEF MoveStackBegin, MoveStack
<1>10. CASE \/ \E d \in Dir : SwitchDirectory(d)
            \/ \E v \in StackPages, c \in Data : WriteStack(v, c)
  BY <1>10, <1>k DEF SwitchDirectory, WriteStack
<1>11. CASE UNCHANGED vars
  BY <1>11 DEF vars, HeapInv
<1> QED
  BY <1>1, <1>2, <1>3, <1>4, <1>5, <1>6, <1>7, <1>8, <1>9, <1>10, <1>11 DEF Next

(* A table is in one place of one directory, the kernel's excepted.        *)
DistinctInv ==
    /\ \A d \in Dir, t \in TableIdx : tables[d][t] < nextTab
    /\ \A d1, d2 \in Dir, t1, t2 \in TableIdx :
          tables[d1][t1] = tables[d2][t2] /\ tables[d1][t1] # NoTable =>
             t1 = t2 /\ (d1 = d2 \/ tables[0][t1] = tables[d1][t1])

(* The instance of DistinctInv for two given places.                       *)
LEMMA TablesDistinct ==
    ASSUME DistinctInv, NEW d1 \in Dir, NEW d2 \in Dir, NEW t1 \in TableIdx,
           NEW t2 \in TableIdx, tables[d1][t1] = tables[d2][t2], tables[d1][t1] # NoTable
    PROVE  t1 = t2 /\ (d1 = d2 \/ tables[0][t1] = tables[d1][t1])
  BY DEF DistinctInv

(* Two pages share an entry only if they are the same page.                *)
LEMMA SlotsDistinct ==
    ASSUME TypeInv, DistinctInv, NEW d1 \in Dir, NEW d2 \in Dir,
           NEW v1 \in Page, NEW v2 \in Page, HasTable(d1, v1),
           SlotOf(d1, v1) = SlotOf(d2, v2)
    PROVE  v1 = v2 /\ (d1 = d2 \/ HasTable(0, v1))
<1>1. /\ v1 \in Nat /\ v1 \div TableSpan \in TableIdx
      /\ v2 \in Nat /\ v2 \div TableSpan \in TableIdx
  BY PageFacts
<1>2. /\ tables[d1][v1 \div TableSpan] = tables[d2][v2 \div TableSpan]
      /\ v1 % TableSpan = v2 % TableSpan /\ tables[d1][v1 \div TableSpan] # NoTable
  BY DEF SlotOf, HasTable
<1>3. /\ v1 \div TableSpan = v2 \div TableSpan
      /\ d1 = d2 \/ tables[0][v1 \div TableSpan] = tables[d1][v1 \div TableSpan]
  BY <1>1, <1>2 DEF DistinctInv
<1> QED
  BY <1>1, <1>2, <1>3, PageUnique DEF HasTable

(* A new table is distinct from all the others.                            *)
LEMMA NewTableDistinct ==
    ASSUME TypeInv, DistinctInv, NEW d \in Dir, NEW v, NewTable(d, v), ~HasTable(d, v)
    PROVE  DistinctInv'
<1>1. /\ nextTab' = nextTab + 1 /\ nextTab \in Nat \ {0}
      /\ \A e \in Dir, t \in TableIdx :
            tables'[e][t] = IF e = d /\ t = v \div TableSpan
                            THEN nextTab ELSE tables[e][t]
  BY NewTableFacts
<1>2. \A e \in Dir, t \in TableIdx : tables[e][t] \in Nat /\ tables[e][t] < nextTab
  BY DEF TypeInv, TypeOK, DistinctInv
<1>3. \A e \in Dir, t \in TableIdx : tables'[e][t] < nextTab'
  BY <1>1, <1>2
<1>4. ASSUME NEW d1 \in Dir, NEW d2 \in Dir, NEW t1 \in TableIdx, NEW t2 \in TableIdx,
             tables'[d1][t1] = tables'[d2][t2], tables'[d1][t1] # NoTable
      PROVE  t1 = t2 /\ (d1 = d2 \/ tables'[0][t1] = tables'[d1][t1])
  <2>1. CASE d1 = d /\ t1 = v \div TableSpan
    <3>1. d2 = d /\ t2 = v \div TableSpan
      BY <1>1, <1>2, <1>4, <2>1
    <3> QED
      BY <2>1, <3>1
  <2>2. CASE d2 = d /\ t2 = v \div TableSpan
    <3>1. d1 = d /\ t1 = v \div TableSpan
      BY <1>1, <1>2, <1>4, <2>2
    <3> QED
      BY <2>2, <3>1
  <2>3. CASE ~(d1 = d /\ t1 = v \div TableSpan) /\ ~(d2 = d /\ t2 = v \div TableSpan)
    <3>1. tables'[d1][t1] = tables[d1][t1] /\ tables'[d2][t2] = tables[d2][t2]
      BY <1>1, <2>3
    <3>2. t1 = t2 /\ (d1 = d2 \/ tables[0][t1] = tables[d1][t1])
      <4>1. tables[d1][t1] = tables[d2][t2] /\ tables[d1][t1] # NoTable
        BY <1>4, <3>1
      <4> QED
        BY <4>1, TablesDistinct
    <3>3. CASE d1 # d2 /\ tables[0][t1] = tables[d1][t1]
      <4>1. ~(d = 0 /\ t1 = v \div TableSpan)
        BY <1>4, <3>1, <3>3 DEF HasTable
      <4>2. 0 \in Dir
        BY ConstantTypes DEF Dir
      <4>3. tables'[0][t1] = tables[0][t1]
        BY <1>1, <4>1, <4>2
      <4> QED
        BY <3>1, <3>2, <3>3, <4>3
    <3> QED
      BY <3>2, <3>3
  <2> QED
    BY <2>1, <2>2, <2>3
<1> QED
  BY <1>3, <1>4 DEF DistinctInv

(* So are the tables of a clone.                                           *)
LEMMA CloneDistinct ==
    ASSUME TypeInv, DistinctInv, CloneBegin
    PROVE  DistinctInv'
<1> DEFINE n == Cardinality(Private(cur))
           new == ClonedTables(cur)
<1>1. /\ tables \in [Dir -> [TableIdx -> 0..MaxTables]] /\ nextTab \in Nat \ {0}
      /\ cur \in Dir /\ 0 \in Dir /\ nextDir \in Dir /\ nextDir # 0
  <2>1. nextDir \in 1..(MaxDirs + 1) /\ nextDir <= MaxDirs /\ MaxDirs \in Nat
    BY ConstantTypes DEF TypeInv, TypeOK, CloneBegin
  <2>2. nextDir \in Dir /\ 0 \in Dir /\ nextDir # 0
    BY <2>1 DEF Dir
  <2> QED
    BY <2>2 DEF TypeInv, TypeOK
<1>2. /\ tables' = [tables EXCEPT ![nextDir] = new] /\ nextTab' = nextTab + n
  BY DEF CloneBegin
<1>3. /\ n \in Nat
      /\ \A t \in TableIdx \ Private(cur) : new[t] = tables[cur][t]
      /\ \A t \in Private(cur) : new[t] \in nextTab..(nextTab + n - 1)
      /\ \A t1, t2 \in Private(cur) : new[t1] = new[t2] => t1 = t2
  BY <1>1, CloneFacts
<1>4. \A t \in TableIdx \ Private(cur) :
         tables[cur][t] = NoTable \/ tables[0][t] = tables[cur][t]
  BY DEF Private
<1> HIDE DEF n, new
<1>5. /\ tables'[nextDir] = new
      /\ \A d \in Dir : d # nextDir => tables'[d] = tables[d]
  BY <1>1, <1>2
<1>6. \A d \in Dir, t \in TableIdx : tables[d][t] \in Nat /\ tables[d][t] < nextTab
  BY <1>1 DEF DistinctInv
<1>7. \A d \in Dir, t \in TableIdx : tables'[d][t] < nextTab'
  <2> SUFFICES ASSUME NEW d \in Dir, NEW t \in TableIdx PROVE tables'[d][t] < nextTab'
    OBVIOUS
  <2>1. CASE d # nextDir
    BY <1>1, <1>2, <1>3, <1>5, <1>6, <2>1
  <2>2. CASE d = nextDir /\ t \in Private(cur)
    BY <1>1, <1>2, <1>3, <1>5, <2>2
  <2>3. CASE d = nextDir /\ t \notin Private(cur)
    BY <1>1, <1>2, <1>3, <1>5, <1>6, <2>3
  <2> QED
    BY <2>1, <2>2, <2>3
<1>8. ASSUME NEW d \in Dir, NEW t1 \in TableIdx, NEW t2 \in TableIdx, d # nextDir,
             new[t1] = tables[d][t2], new[t1] # NoTable
      PROVE  t1 = t2 /\ tables[0][t1] = new[t1]
  <2>1. t1 \notin Private(cur)
    BY <1>1, <1>3, <1>6, <1>8
  <2>2. new[t1] = tables[cur][t1] /\ tables[0][t1] = tables[cur][t1]
    BY <1>3, <1>4, <1>8, <2>1
  <2>3. tables[cur][t1] = tables[d][t2] /\ tables[cur][t1] # NoTable
    BY <1>8, <2>2
  <2>4. t1 = t2
    BY <1>1, <2>3, TablesDistinct
  <2> QED
    BY <2>2, <2>4
<1>9. ASSUME NEW t1 \in TableIdx, NEW t2 \in TableIdx, new[t1] = new[t2], new[t1] # NoTable
      PROVE  t1 = t2
  <2>1. CASE t1 \in Private(cur) /\ t2 \in Private(cur)
    BY <1>3, <1>9, <2>1
  <2>2. CASE t1 \notin Private(cur)
    <3>1. new[t1] = tables[cur][t1] /\ tables[cur][t1] < nextTab /\ tables[cur][t1] \in Nat
      BY <1>1, <1>3, <1>6, <2>2
    <3>2. t2 \notin Private(cur)
      <4>1. t2 \in Private(cur) => new[t2] >= nextTab /\ new[t2] \in Nat
        BY <1>1, <1>3
      <4> QED
        BY <1>1, <1>9, <3>1, <4>1
    <3>3. new[t2] = tables[cur][t2]
      BY <1>3, <3>2
    <3>4. tables[cur][t1] = tables[cur][t2] /\ tables[cur][t1] # NoTable
      BY <1>9, <3>1, <3>3
    <3> QED
      BY <1>1, <3>4, TablesDistinct
  <2>3. CASE t1 \in Private(cur) /\ t2 \notin Private(cur)
    <3>1. new[t2] = tables[cur][t2] /\ tables[cur][t2] < nextTab /\ tables[cur][t2] \in Nat
      BY <1>1, <1>3, <1>6, <2>3
    <3> QED
      BY <1>1, <1>3, <1>9, <2>3, <3>1
  <2> QED
    BY <2>1, <2>2, <2>3
<1>10. ASSUME NEW d1 \in Dir, NEW d2 \in Dir, NEW t1 \in TableIdx, NEW t2 \in TableIdx,
              tables'[d1][t1] = tables'[d2][t2], tables'[d1][t1] # NoTable
       PROVE  t1 = t2 /\ (d1 = d2 \/ tables'[0][t1] = tables'[d1][t1])
  <2>0. tables'[0] = tables[0]
    BY <1>1, <1>5
  <2>1. CASE d1 = nextDir /\ d2 = nextDir
    BY <1>5, <1>9, <1>10, <2>1
  <2>2. CASE d1 = nextDir /\ d2 # nextDir
    BY <1>5, <1>8, <1>10, <2>0, <2>2
  <2>3. CASE d1 # nextDir /\ d2 = nextDir
    <3>1. t2 = t1 /\ tables[0][t2] = new[t2]
      BY <1>5, <1>8, <1>10, <2>3
    <3> QED
      BY <1>5, <1>10, <2>0, <2>3, <3>1
  <2>4. CASE d1 # nextDir /\ d2 # nextDir
    BY <1>5, <1>10, <2>0, <2>4 DEF DistinctInv
  <2> QED
    BY <2>1, <2>2, <2>3, <2>4
<1> QED
  BY <1>7, <1>10 DEF DistinctInv

(* A new table takes a number that no directory holds, and clone_directory *)
(* copies only numbers of the kernel's tables.                             *)
LEMMA DistinctInvStep == TypeInv /\ DistinctInv /\ [Next]_vars => DistinctInv'
<1> SUFFICES ASSUME TypeInv, DistinctInv, [Next]_vars PROVE DistinctInv'
  OBVIOUS
<1>t. cur \in Dir /\ 0 \in Dir
  <2>1. 0 \in Dir
    BY ConstantTypes DEF Dir
  <2> QED
    BY <2>1 DEF TypeInv, TypeOK
<1>1. CASE UNCHANGED dirVars
  BY <1>1 DEF dirVars, DistinctInv
<1>2. CASE ~HasTable(0, op.v) /\ NewTable(0, op.v)
  BY <1>2, <1>t, NewTableDistinct
<1>3. CASE ~HasTable(cur, op.v) /\ NewTable(cur, op.v)
  BY <1>3, <1>t, NewTableDistinct
<1>4. CASE CloneBegin
  BY <1>4, CloneDistinct
<1> QED
  BY <1>1, <1>2, <1>3, <1>4, TableSteps

(* What clone_directory still has to copy is in tables that the kernel     *)
(* does not have and the new directory does.                               *)
TodoInv ==
    op.kind = "clone" => \A v \in op.todo : ~HasTable(0, v) /\ HasTable(op.dst, v)

(* The pages a clone has left to copy stay in tables of the new directory  *)
(* alone.                                                                  *)
LEMMA TodoInvStep == TypeInv /\ SharedInv /\ TodoInv /\ [Next]_vars => TodoInv'
<1> SUFFICES ASSUME TypeInv, SharedInv, TodoInv, [Next]_vars PROVE TodoInv'
  OBVIOUS
<1> USE DEF Idle, Loop
<1>t. ShapeInv
  BY DEF TypeInv
<1>k. op'.kind # "clone" => TodoInv'
  BY DEF TodoInv
<1>1. CASE BootAlloc \/ BootHeapTable \/ BootIdentity \/ BootHeapPage
  BY <1>1, <1>k DEF BootAlloc, BootHeapTable, BootIdentity, BootHeapPage
<1>2. CASE (\E n \in Requests : ExpandBegin(n)) \/ (\E n \in Offsets : ContractBegin(n))
  BY <1>2, <1>k DEF ExpandBegin, ContractBegin
<1>3. CASE Expand \/ Contract
  <2>1. op'.kind \in {"idle", "expand", "contract"}
    BY <1>3, <1>t, ShapeFacts DEF Expand, Contract
  <2> QED
    BY <1>k, <2>1
<1>4. CASE CloneBegin
  <2>1. /\ tables \in [Dir -> [TableIdx -> 0..MaxTables]] /\ nextTab \in Nat \ {0}
        /\ cur \in Dir /\ cur < nextDir /\ 0 \in Dir /\ nextDir \in Dir /\ nextDir # 0
    <3>1. nextDir \in 1..(MaxDirs + 1) /\ nextDir <= MaxDirs /\ MaxDirs \in Nat
      BY <1>4, ConstantTypes DEF TypeInv, TypeOK, CloneBegin
    <3>2. nextDir \in Dir /\ 0 \in Dir /\ nextDir # 0
      BY <3>1 DEF Dir
    <3> QED
      BY <3>2 DEF TypeInv, TypeOK, PhaseInv
  <2>2. /\ tables' = [tables EXCEPT ![nextDir] = ClonedTables(cur)]
        /\ op'.kind = "clone" /\ op'.dst = nextDir /\ op'.todo = PagesToClone(cur)
    BY <1>4 DEF CloneBegin
  <2>3. tables'[0] = tables[0] /\ tables'[nextDir] = ClonedTables(cur)
    BY <2>1, <2>2
  <2>4. ASSUME NEW v \in PagesToClone(cur)
        PROVE  tables[0][v \div TableSpan] = NoTable
               /\ ClonedTables(cur)[v \div TableSpan] # NoTable
    <3>1. v \div TableSpan \in Private(cur)
      BY DEF PagesToClone
    <3>2. /\ v \div TableSpan \in TableIdx
          /\ tables[0][v \div TableSpan] # tables[cur][v \div TableSpan]
      BY <3>1 DEF Private
    <3>3. cur # 0
      BY <3>2
    <3>4. cur \in 1..(nextDir - 1)
      BY <2>1, <3>3 DEF Dir
    <3>5. tables[0][v \div TableSpan] = NoTable
      BY <3>2, <3>4 DEF SharedInv
    <3>6. ClonedTables(cur)[v \div TableSpan]
             \in nextTab..(nextTab + Cardinality(Private(cur)) - 1)
      BY <2>1, <3>1, CloneFacts
    <3> QED
      BY <2>1, <3>5, <3>6 DEF NoTable
  <2> QED
    BY <2>2, <2>3, <2>4 DEF TodoInv, HasTable
<1>5. CASE ClonePage
  <2>1. /\ op.kind = "clone" /\ op'.dst = op.dst /\ op'.todo \subseteq op.todo
        /\ tables' = tables
    BY <1>5, <1>t, ShapeFacts DEF ClonePage, dirVars
  <2> QED
    BY <2>1 DEF TodoInv, HasTable
<1>6. CASE CloneEnd
  BY <1>6, <1>k DEF CloneEnd
<1>7. CASE MoveStackBegin \/ MoveStack
  BY <1>7, <1>k DEF MoveStackBegin, MoveStack
<1>8. CASE \/ \E d \in Dir : SwitchDirectory(d)
           \/ \E v \in StackPages, c \in Data : WriteStack(v, c)
  BY <1>8, <1>k DEF SwitchDirectory, WriteStack
<1>9. CASE UNCHANGED vars
  BY <1>9 DEF vars, dirVars, TodoInv, HasTable
<1> QED
  BY <1>1, <1>2, <1>3, <1>4, <1>5, <1>6, <1>7, <1>8, <1>9 DEF Next

(* The invariants that later arguments rest on together.                   *)
LayoutInv ==
    /\ TypeInv /\ SharedInv /\ PlaceInv /\ HeapInv /\ DistinctInv /\ TodoInv

(* The layout invariants hold before boot.                                 *)
LEMMA LayoutInvInit == Init => LayoutInv
<1> SUFFICES ASSUME Init PROVE LayoutInv
  OBVIOUS
<1>1. SharedInv /\ TodoInv
  BY DEF Init, SharedInv, TodoInv
<1>2. HeapInv
  <2>1. HeapMax \in HeapSizes /\ 0 <= HeapMax
    BY ConstantTypes DEF HeapSizes
  <2>2. heapLen = 0 /\ op.kind = "boot"
    BY DEF Init
  <2> QED
    BY <2>1, <2>2 DEF HeapInv
<1>3. DistinctInv
  <2>1. nextTab = 1 /\ \A d \in Dir, t \in TableIdx : tables[d][t] = NoTable
    BY DEF Init
  <2> QED
    BY <2>1 DEF DistinctInv, NoTable
<1> QED
  BY <1>1, <1>2, <1>3, TypeInvInit, PlaceInvInit DEF LayoutInv

(* Every step keeps the layout invariants.                                 *)
LEMMA LayoutInvStep == LayoutInv /\ [Next]_vars => LayoutInv'
  BY TypeInvStep, SharedInvStep, PlaceInvStep, HeapInvStep, DistinctInvStep, TodoInvStep
     DEF LayoutInv

-----------------------------------------------------------------------------
(* The identity map.                                                       *)

(* An operation's entry is not that of a page of the kernel's below the    *)
(* heap, once these are mapped.                                            *)
OffLow(s) == \A v \in Page : v < HeapBase /\ HasTable(0, v) => s # SlotOf(0, v)

(* A page at or above the heap has its entry outside the identity map.     *)
LEMMA OffLowPage ==
    ASSUME LayoutInv, NEW w \in Page, w \in Nat, w >= HeapBase, NEW d \in Dir
    PROVE  OffLow(SlotOf(d, w)) /\ OffLow(PagePtr(d, w))
<1>1. OffLow(SlotOf(d, w))
  <2> SUFFICES ASSUME NEW v \in Page, v < HeapBase, HasTable(0, v),
                      SlotOf(0, v) = SlotOf(d, w)
               PROVE  FALSE
    BY DEF OffLow
  <2>1. 0 \in Dir
    BY ConstantTypes DEF Dir
  <2>2. v = w
    BY <2>1, SlotsDistinct DEF LayoutInv
  <2> QED
    BY <2>2, ConstantTypes
<1>2. OffLow(NullSlot)
  <2> SUFFICES ASSUME NEW v \in Page, HasTable(0, v), SlotOf(0, v) = NullSlot
               PROVE  FALSE
    BY DEF OffLow
  <2> QED
    BY DEF HasTable, SlotOf, NullSlot
<1> QED
  BY <1>1, <1>2 DEF PagePtr

(* After the identity map is made, steps change at most one entry, that of *)
(* a page of some directory outside the identity map.                      *)
LEMMA SlotSteps ==
    ASSUME LayoutInv, [Next]_vars, op.kind \notin {"boot", "heaptables", "identity"}
    PROVE  \/ UNCHANGED pte
           \/ \E d \in Dir, v \in Page : \E s \in {SlotOf(d, v), PagePtr(d, v)} :
                 OffLow(s) /\ (AllocFrame(s) \/ FreeFrame(s))
<1>t. /\ TypeInv /\ ShapeInv /\ PhaseInv /\ HeapInv /\ TodoInv /\ cur \in Dir /\ 0 \in Dir
  <2>1. 0 \in Dir
    BY ConstantTypes DEF Dir
  <2> QED
    BY <2>1 DEF LayoutInv, TypeInv, TypeOK
<1>1. CASE BootAlloc \/ BootHeapTable \/ BootIdentity
  BY <1>1 DEF BootAlloc, BootHeapTable, BootIdentity
<1>2. CASE BootHeapPage
  <2>1. CASE op.v < HeapBase + InitPages /\ AllocFrame(SlotOf(0, op.v))
    <3>1. op.v \in HeapBase..(HeapBase + InitPages)
      BY <1>2, <1>t, ShapeFacts DEF BootHeapPage
    <3>2. op.v \in Nat /\ op.v \in Page /\ op.v >= HeapBase
      BY <2>1, <3>1, ConstantTypes, BootPages
    <3> QED
      BY <1>t, <2>1, <3>2, OffLowPage
  <2> QED
    BY <1>2, <2>1 DEF BootHeapPage, frameVars
<1>3. CASE (\E n \in Requests : ExpandBegin(n)) \/ (\E n \in Offsets : ContractBegin(n))
  BY <1>3 DEF ExpandBegin, ContractBegin, frameVars
<1>4. CASE Expand
  <2>1. CASE op.i < op.n /\ AllocFrame(PagePtr(0, HeapPage(op.i)))
    <3>1. op \in [kind : {"expand"}, i : Nat, n : 0..HeapMax]
      BY <1>4, <1>t, ShapeFacts DEF Expand
    <3>2. op.i \in Nat /\ op.i <= HeapMax /\ HeapMax \in HeapSizes
      BY <2>1, <3>1, ConstantTypes DEF HeapSizes
    <3>3. HeapPage(op.i) \in Page /\ HeapPage(op.i) \in Nat /\ HeapPage(op.i) >= HeapBase
      BY <3>2, HeapPages
    <3> QED
      BY <1>t, <2>1, <3>3, OffLowPage
  <2> QED
    BY <1>4, <2>1 DEF Expand, frameVars
<1>5. CASE Contract
  <2>1. CASE op.n < op.i /\ FreeFrame(PagePtr(0, HeapPage(op.i)))
    <3>1. op \in [kind : {"contract"}, i : Int, n : Nat]
      BY <1>5, <1>t, ShapeFacts DEF Contract
    <3>2. PICK m \in HeapSizes : op.i <= m
      BY <1>5, <1>t DEF Contract, HeapInv
    <3>3. op.i \in Nat
      BY <2>1, <3>1
    <3>4. HeapPage(op.i) \in Page /\ HeapPage(op.i) \in Nat /\ HeapPage(op.i) >= HeapBase
      BY <3>2, <3>3, HeapPages
    <3> QED
      BY <1>t, <2>1, <3>4, OffLowPage
  <2> QED
    BY <1>5, <2>1 DEF Contract, frameVars
<1>6. CASE CloneBegin \/ CloneEnd
  BY <1>6 DEF CloneBegin, CloneEnd, frameVars
<1>7. CASE ClonePage
  <2> DEFINE w == Min(op.todo)
  <2>1. /\ op \in [kind : {"clone"}, src : Dir, dst : Dir, todo : SUBSET Page]
        /\ op.todo # {} /\ AllocFrame(SlotOf(op.dst, w))
    BY <1>7, <1>t, ShapeFacts DEF ClonePage
  <2>2. w \in op.todo
    <3>1. op.todo \subseteq Nat
      BY <2>1, PageFacts
    <3> QED
      BY <2>1, <3>1, MinFacts
  <2> HIDE DEF w
  <2>3. w \in Page /\ ~HasTable(0, w)
    BY <1>t, <2>1, <2>2 DEF TodoInv
  <2>4. OffLow(SlotOf(op.dst, w))
    <3> SUFFICES ASSUME NEW v \in Page, HasTable(0, v), SlotOf(0, v) = SlotOf(op.dst, w)
                 PROVE  FALSE
      BY DEF OffLow
    <3>1. v = w
      BY <1>t, <2>1, <2>3, SlotsDistinct DEF LayoutInv
    <3> QED
      BY <2>3, <3>1
  <2>5. op.dst \in Dir
    BY <2>1
  <2> QED
    BY <2>1, <2>3, <2>4, <2>5
<1>8. CASE MoveStackBegin
  BY <1>8 DEF MoveStackBegin, frameVars
<1>9. CASE MoveStack
  <2>1. CASE op.v \in StackPages /\ AllocFrame(SlotOf(cur, op.v))
    <3>1. op.v \in Page /\ op.v \in Nat /\ op.v >= HeapBase
      BY <2>1, StackPageFacts, ConstantTypes DEF StackPages
    <3> QED
      BY <1>t, <2>1, <3>1, OffLowPage
  <2> QED
    BY <1>9, <2>1 DEF MoveStack, frameVars
<1>10. CASE \/ \E d \in Dir : SwitchDirectory(d)
            \/ \E v \in StackPages, c \in Data : WriteStack(v, c)
  BY <1>10 DEF SwitchDirectory, WriteStack, frameVars
<1>11. CASE UNCHANGED vars
  BY <1>11 DEF vars, frameVars
<1> QED
  BY <1>1, <1>2, <1>3, <1>4, <1>5, <1>6, <1>7, <1>8, <1>9, <1>10, <1>11 DEF Next

(* Page v of the kernel is mapped to frame v.                              *)
IdMap(v) == HasTable(0, v) /\ pte[SlotOf(0, v)] = [frame |-> v, present |-> TRUE]

(* While the loop of initialise_paging runs, the frames in use are those   *)
(* of the pages it has mapped, so that the next page gets its own number;  *)
(* the heap pages mapped afterwards leave the ones below alone.            *)
LowInv ==
    /\ op.kind \in {"boot", "heaptables"} =>
          used = {} /\ \A s \in Slot : pte[s].frame = 0
    /\ op.kind = "identity" =>
          /\ used = 0..(op.v - 1)
          /\ \A v \in 0..(op.v - 1) : v \in Page /\ IdMap(v)
          /\ \A s \in Slot : pte[s].frame = 0 \/ \E v \in 0..(op.v - 1) : s = SlotOf(0, v)
    /\ op.kind = "heappages" =>
          \A v \in Page : v * PageSize < placement + PageSize => IdMap(v)
    /\ op.kind \notin {"boot", "heaptables", "identity"} /\ freed = {} => 0 \in used
    /\ IdentityMapped

(* The kernel's tables are made before the first page is mapped above.     *)
LEMMA KernelTablesKept ==
    ASSUME LayoutInv, [Next]_vars, op.kind \notin {"boot", "heaptables", "identity"}
    PROVE  tables'[0] = tables[0]
<1>1. CASE UNCHANGED vars
  BY <1>1 DEF vars, dirVars
<1>2. CASE Next /\ op.kind \notin Booting
  BY <1>2, AfterBoot DEF LayoutInv
<1>3. CASE Next /\ op.kind \in Booting
  <2>1. op.kind = "heappages"
    BY <1>3 DEF Booting
  <2>2. BootHeapPage
    BY <1>3, <2>1, BootSteps DEF BootAlloc, BootHeapTable, BootIdentity
  <2> QED
    BY <2>2 DEF BootHeapPage, dirVars
<1> QED
  BY <1>1, <1>2, <1>3

(* What is mapped below the heap stays mapped.                             *)
LEMMA IdMapKept ==
    ASSUME LayoutInv, [Next]_vars, op.kind \notin {"boot", "heaptables", "identity"},
           NEW v \in Page, v < HeapBase, IdMap(v)
    PROVE  IdMap(v)'
<1>1. tables'[0] = tables[0]
  BY KernelTablesKept
<1>2. HasTable(0, v)' /\ SlotOf(0, v)' = SlotOf(0, v) /\ HasTable(0, v)
  BY <1>1 DEF IdMap, HasTable, SlotOf
<1>3. SlotOf(0, v) \in Slot
  <2>1. 0 \in Dir
    BY ConstantTypes DEF Dir
  <2> QED
    BY <1>2, <2>1, SlotFacts DEF LayoutInv
<1>4. pte'[SlotOf(0, v)] = pte[SlotOf(0, v)]
  <2>1. CASE UNCHANGED pte
    BY <2>1
  <2>2. ASSUME NEW s, OffLow(s), AllocFrame(s) \/ FreeFrame(s)
        PROVE  pte'[SlotOf(0, v)] = pte[SlotOf(0, v)]
    <3>1. s # SlotOf(0, v)
      BY <1>2, <2>2 DEF OffLow
    <3> QED
      BY <1>3, <2>2, <3>1, AllocFacts, FreeFacts DEF LayoutInv
  <2> QED
    BY <2>1, <2>2, SlotSteps
<1> QED
  BY <1>2, <1>4 DEF IdMap

(* The entry of a kernel page stays when another table is made.            *)
LEMMA SlotKept ==
    ASSUME TypeInv, NEW d \in Dir, NEW e \in Dir, NEW w, NewTable(e, w), ~HasTable(e, w),
           NEW v \in Page, HasTable(d, v)
    PROVE  HasTable(d, v)' /\ SlotOf(d, v)' = SlotOf(d, v)
<1>1. v \div TableSpan \in TableIdx
  BY PageFacts
<1>2. tables'[d][v \div TableSpan] = tables[d][v \div TableSpan]
  BY <1>1, NewTableFacts DEF HasTable
<1> QED
  BY <1>2 DEF HasTable, SlotOf

(* One turn of the loop maps page op.v to frame op.v.                      *)
LEMMA IdentityTurn ==
    ASSUME LayoutInv, LowInv, op.kind = "identity", MoreToMap, HasTable(0, op.v),
           AllocFrame(SlotOf(0, op.v)), op' = [kind |-> "identity", v |-> op.v + 1],
           UNCHANGED dirVars
    PROVE  LowInv'
<1> DEFINE s == SlotOf(0, op.v)
<1>1. /\ TypeInv /\ op.v \in Nat /\ 0 \in Dir /\ op'.v = op.v + 1 /\ op'.kind = "identity"
  <2>1. 0 \in Dir
    BY ConstantTypes DEF Dir
  <2> QED
    BY <2>1, ShapeFacts DEF LayoutInv, TypeInv
<1>2. /\ used = 0..(op.v - 1)
      /\ \A v \in 0..(op.v - 1) : v \in Page /\ IdMap(v)
      /\ \A u \in Slot : pte[u].frame = 0 \/ \E v \in 0..(op.v - 1) : u = SlotOf(0, v)
  BY DEF LowInv
<1>3. op.v \in Page /\ op.v < NFrames
  <2>1. placement + PageSize <= LowEnd /\ placement \in Nat
    BY PlaceBound DEF LayoutInv, TypeInv, TypeOK
  <2>2. op.v * PageSize \in Int
    BY <1>1, ConstantTypes, MulMono
  <2>3. op.v * PageSize < LowEnd
    BY <2>1, <2>2, ConstantTypes DEF MoreToMap
  <2> QED
    BY <1>1, <2>3, LowPages
<1>4. s \in Slot
  BY <1>1, <1>3, SlotFacts
<1>5. \A v \in 0..(op.v - 1) : SlotOf(0, v) # s /\ SlotOf(0, v) \in Slot
  <2> SUFFICES ASSUME NEW v \in 0..(op.v - 1)
               PROVE  SlotOf(0, v) # s /\ SlotOf(0, v) \in Slot
    OBVIOUS
  <2>1. v \in Page /\ HasTable(0, v)
    BY <1>2 DEF IdMap
  <2>2. SlotOf(0, v) = SlotOf(0, op.v) => v = op.v
    BY <1>1, <1>3, <2>1, SlotsDistinct DEF LayoutInv
  <2>3. v # op.v
    BY <1>1
  <2> QED
    BY <1>1, <2>1, <2>2, <2>3, SlotFacts
<1>6. pte[s].frame = 0
  BY <1>2, <1>4, <1>5
<1>7. PICK f \in Frame : /\ FirstFrame(f) /\ used' = used \cup {f}
                         /\ pte'[s] = [frame |-> f, present |-> TRUE]
  BY <1>1, <1>4, <1>6, AllocFacts
<1>8. f = op.v
  <2>1. op.v \in Frame /\ f \in Nat
    BY <1>1, <1>3, ConstantTypes DEF Frame
  <2>2. op.v \notin used
    <3>1. op.v \notin 0..(op.v - 1)
      BY <1>1
    <3> QED
      BY <1>2, <3>1
  <2>3. f \notin used /\ f <= op.v
    <3>1. used # Frame
      BY <2>1, <2>2
    <3> QED
      BY <1>7, <2>1, <2>2, <3>1 DEF FirstFrame
  <2>4. f \notin 0..(op.v - 1)
    BY <1>2, <2>3
  <2> QED
    BY <1>1, <2>1, <2>3, <2>4
<1>9. \A u \in Slot : u # s => pte'[u] = pte[u]
  BY <1>1, AllocFacts
<1>10. \A v : HasTable(0, v)' = HasTable(0, v) /\ SlotOf(0, v)' = SlotOf(0, v)
  BY DEF HasTable, SlotOf, dirVars
<1> HIDE DEF s
<1>11. used' = 0..(op.v + 1 - 1)
  BY <1>1, <1>2, <1>7, <1>8
<1>12. \A v \in 0..(op.v + 1 - 1) : v \in Page /\ IdMap(v)'
  <2> SUFFICES ASSUME NEW v \in 0..(op.v + 1 - 1) PROVE v \in Page /\ IdMap(v)'
    OBVIOUS
  <2>1. CASE v = op.v
    <3>1. pte'[SlotOf(0, v)] = [frame |-> v, present |-> TRUE]
      BY <1>7, <1>8, <2>1 DEF s
    <3> QED
      BY <1>3, <1>10, <2>1, <3>1 DEF IdMap
  <2>2. CASE v # op.v
    <3>1. v \in 0..(op.v - 1)
      BY <1>1, <2>2
    <3>2. v \in Page /\ IdMap(v) /\ pte'[SlotOf(0, v)] = pte[SlotOf(0, v)]
      BY <1>2, <1>5, <1>9, <3>1
    <3> QED
      BY <1>10, <3>2 DEF IdMap
  <2> QED
    BY <2>1, <2>2
<1>13. \A u \in Slot : pte'[u].frame = 0 \/ \E v \in 0..(op.v + 1 - 1) : u = SlotOf(0, v)'
  <2> SUFFICES ASSUME NEW u \in Slot, pte'[u].frame # 0
               PROVE  \E v \in 0..(op.v + 1 - 1) : u = SlotOf(0, v)'
    OBVIOUS
  <2>1. CASE u = s
    <3>1. op.v \in 0..(op.v + 1 - 1)
      BY <1>1
    <3> QED
      BY <1>10, <2>1, <3>1 DEF s
  <2>2. CASE u # s
    <3>1. PICK v \in 0..(op.v - 1) : u = SlotOf(0, v)
      BY <1>2, <1>9, <2>2
    <3>2. v \in 0..(op.v + 1 - 1)
      BY <1>1
    <3> QED
      BY <1>10, <3>1, <3>2
  <2> QED
    BY <2>1, <2>2
<1>14. IdentityMapped'
  BY <1>1 DEF IdentityMapped
<1> QED
  BY <1>1, <1>11, <1>12, <1>13, <1>14 DEF LowInv

(* Boot maps page after page to the frame of its number, and what follows  *)
(* does not touch these entries.                                           *)
LEMMA LowInvStep == LayoutInv /\ LowInv /\ [Next]_vars => LowInv'
<1> SUFFICES ASSUME LayoutInv, LowInv, [Next]_vars PROVE LowInv'
  OBVIOUS
<1> USE DEF Loop
<1>t. /\ TypeInv /\ placement \in Nat /\ ShapeInv /\ placement <= LowEnd /\ 0 \in Dir
  <2>1. 0 \in Dir
    BY ConstantTypes DEF Dir
  <2> QED
    BY <2>1 DEF LayoutInv, TypeInv, TypeOK, PlaceInv
<1>i. \A v : UNCHANGED <<pte, dirVars>> => (IdMap(v)' <=> IdMap(v))
  BY DEF dirVars, IdMap, HasTable, SlotOf
<1>m. IdentityMapped' <=>
        (op'.kind \notin {"boot", "heaptables", "identity"} =>
            \A v \in Page : v * PageSize < placement' => IdMap(v)')
  BY DEF IdentityMapped, IdMap
<1>1. CASE UNCHANGED vars
  <2>1. IdentityMapped'
    BY <1>1 DEF vars, frameVars, dirVars, LowInv, IdentityMapped, HasTable, SlotOf
  <2> QED
    BY <1>1, <2>1 DEF vars, frameVars, dirVars, LowInv, IdMap, HasTable, SlotOf
<1>2. CASE BootAlloc
  <2>1. op.kind = "boot" /\ op'.kind = "heaptables" /\ UNCHANGED frameVars
    BY <1>2 DEF BootAlloc
  <2> QED
    BY <1>m, <2>1 DEF LowInv, frameVars
<1>3. CASE BootHeapTable
  <2>1. /\ op.kind = "heaptables" /\ UNCHANGED frameVars
        /\ \/ op'.kind = "heaptables"
           \/ op'.kind = "identity" /\ op'.v = 0
    BY <1>3 DEF BootHeapTable
  <2>2. used' = {} /\ (\A s \in Slot : pte'[s].frame = 0) /\ 0..(0 - 1) = {}
    BY <2>1 DEF LowInv, frameVars
  <2> QED
    BY <1>m, <2>1, <2>2 DEF LowInv
<1>4. CASE BootIdentity
  <2>0. /\ op.kind = "identity" /\ op.v \in Nat /\ used = 0..(op.v - 1)
        /\ \A v \in 0..(op.v - 1) : v \in Page /\ IdMap(v)
        /\ \A u \in Slot : pte[u].frame = 0 \/ \E v \in 0..(op.v - 1) : u = SlotOf(0, v)
    BY <1>4, <1>t, ShapeFacts DEF BootIdentity, LowInv
  <2>1. CASE /\ MoreToMap /\ ~HasTable(0, op.v) /\ NewTable(0, op.v)
             /\ UNCHANGED <<frameVars, op>>
    <3>1. \A v \in 0..(op.v - 1) : HasTable(0, v)' /\ SlotOf(0, v)' = SlotOf(0, v)
      <4> SUFFICES ASSUME NEW v \in 0..(op.v - 1)
                   PROVE  HasTable(0, v)' /\ SlotOf(0, v)' = SlotOf(0, v)
        OBVIOUS
      <4>1. v \in Page /\ HasTable(0, v)
        BY <2>0 DEF IdMap
      <4> QED
        BY <1>t, <2>1, <4>1, SlotKept
    <3>2. op' = op /\ pte' = pte /\ used' = used
      BY <2>1 DEF frameVars
    <3>3. \A v \in 0..(op.v - 1) : IdMap(v)'
      BY <2>0, <3>1, <3>2 DEF IdMap
    <3>4. \A u \in Slot : pte'[u].frame = 0 \/ \E v \in 0..(op.v - 1) : u = SlotOf(0, v)'
      <4> SUFFICES ASSUME NEW u \in Slot, pte[u].frame # 0
                   PROVE  \E v \in 0..(op.v - 1) : u = SlotOf(0, v)'
        BY <3>2
      <4>1. PICK v \in 0..(op.v - 1) : u = SlotOf(0, v)
        BY <2>0
      <4> QED
        BY <3>1, <4>1
    <3> QED
      BY <1>m, <2>0, <3>2, <3>3, <3>4 DEF LowInv
  <2>2. CASE /\ MoreToMap /\ HasTable(0, op.v) /\ AllocFrame(SlotOf(0, op.v))
             /\ op' = [kind |-> "identity", v |-> op.v + 1] /\ UNCHANGED dirVars
    BY <2>0, <2>2, IdentityTurn
  <2>3. CASE /\ ~MoreToMap /\ op' = [kind |-> "heappages", v |-> HeapBase]
             /\ UNCHANGED <<frameVars, dirVars, placement>>
    <3>1. op'.kind = "heappages" /\ placement' = placement /\ used' = used
          /\ UNCHANGED <<pte, dirVars>>
      BY <2>3 DEF frameVars
    <3>2. op.v * PageSize >= placement + PageSize /\ op.v * PageSize \in Int
      <4>1. op.v * PageSize \in Int
        BY <2>0, ConstantTypes, MulMono
      <4> QED
        BY <1>t, <2>3, <4>1, ConstantTypes DEF MoreToMap
    <3>3. ASSUME NEW v \in Page, v * PageSize < placement + PageSize
          PROVE  IdMap(v)
      <4>1. v \in Nat
        BY PageFacts
      <4>2. v * PageSize \in Int
        BY <4>1, ConstantTypes, MulMono
      <4>3. v * PageSize < op.v * PageSize
        BY <1>t, <3>2, <3>3, <4>2, ConstantTypes
      <4>4. v < op.v
        BY <2>0, <4>1, <4>3, ConstantTypes, MulMono
      <4> QED
        BY <2>0, <4>1, <4>4
    <3>4. 0 \in used'
      <4>1. op.v # 0
        BY <1>t, <3>2, ConstantTypes
      <4> QED
        BY <2>0, <3>1, <4>1
    <3>5. \A v \in Page : v * PageSize < placement => v * PageSize < placement + PageSize
      <4> SUFFICES ASSUME NEW v \in Page, v * PageSize < placement
                   PROVE  v * PageSize < placement + PageSize
        OBVIOUS
      <4>1. v * PageSize \in Int
        BY PageFacts, ConstantTypes, MulMono
      <4> QED
        BY <1>t, <4>1, ConstantTypes
    <3>6. \A v \in Page : v * PageSize < placement' + PageSize => IdMap(v)'
      BY <1>i, <3>1, <3>3
    <3>7. IdentityMapped'
      BY <1>m, <3>1, <3>5, <3>6
    <3> QED
      BY <3>1, <3>4, <3>6, <3>7 DEF LowInv
  <2> QED
    BY <1>4, <2>1, <2>2, <2>3 DEF BootIdentity
<1>u. ASSUME op.kind \notin {"boot", "heaptables", "identity"}, freed' = {}
      PROVE  0 \in used'
  <2>1. CASE UNCHANGED <<used, pte, exhausted, freed>>
    BY <1>u, <2>1 DEF LowInv
  <2>2. ASSUME NEW s, AllocFrame(s), freed' = freed PROVE 0 \in used'
    BY <1>t, <1>u, <2>2, AllocFacts DEF LowInv
  <2>3. ASSUME NEW s, FreeFrame(s) PROVE 0 \in used'
    <3>1. UNCHANGED <<frameVars, freed>>
      BY <1>t, <1>u, <2>3, FreeFacts
    <3> QED
      BY <1>u, <3>1 DEF LowInv, frameVars
  <2> QED
    BY <2>1, <2>2, <2>3, FrameSteps
<1>5. CASE BootHeapPage
  <2>0. op.kind = "heappages" /\ UNCHANGED dirVars /\ placement + PageSize <= LowEnd
    BY <1>5 DEF BootHeapPage, LayoutInv, PlaceInv
  <2>1. \A v \in Page : v * PageSize < placement + PageSize => IdMap(v)'
    <3> SUFFICES ASSUME NEW v \in Page, v * PageSize < placement + PageSize
                 PROVE  IdMap(v)'
      OBVIOUS
    <3>1. v \in Nat
      BY PageFacts
    <3>2. v * PageSize \in Int
      BY <3>1, ConstantTypes, MulMono
    <3>3. v * PageSize < LowEnd
      BY <1>t, <2>0, <3>2, ConstantTypes
    <3>4. v < HeapBase
      BY <3>1, <3>3, LowPages
    <3>5. IdMap(v)
      BY <2>0 DEF LowInv
    <3> QED
      BY <2>0, <3>4, <3>5, IdMapKept
  <2>2. /\ placement' \in {placement, placement + HeapTSize}
        /\ \/ op'.kind = "heappages" /\ placement' = placement
           \/ op'.kind = "idle"
    BY <1>5 DEF BootHeapPage, Idle
  <2>3. IdentityMapped'
    <3> SUFFICES ASSUME NEW v \in Page, v * PageSize < placement'
                 PROVE  v * PageSize < placement + PageSize
      BY <1>m, <2>1
    <3>1. v * PageSize \in Int
      BY PageFacts, ConstantTypes, MulMono
    <3>2. placement' <= placement + PageSize /\ placement' \in Nat
      BY <1>t, <2>2, ConstantTypes, LayoutAssumption
    <3> QED
      BY <1>t, <3>1, <3>2, ConstantTypes
  <2>4. freed' = {} => 0 \in used'
    BY <1>u, <2>0
  <2> QED
    BY <2>1, <2>2, <2>3, <2>4 DEF LowInv
<1>6. CASE Next /\ op.kind \notin Booting
  <2>1. op'.kind \notin Booting /\ placement' = placement
    BY <1>6, <1>t, AfterBoot
  <2>2. op.kind \notin {"boot", "heaptables", "identity"}
    BY <1>6 DEF Booting
  <2>3. IdentityMapped'
    <3> SUFFICES ASSUME NEW v \in Page, v * PageSize < placement
                 PROVE  IdMap(v)'
      BY <1>m, <2>1
    <3>1. v \in Nat
      BY PageFacts
    <3>2. v * PageSize \in Int
      BY <3>1, ConstantTypes, MulMono
    <3>3. v * PageSize < LowEnd
      BY <1>t, <3>2, ConstantTypes
    <3>4. v < HeapBase
      BY <3>1, <3>3, LowPages
    <3>5. IdMap(v)
      BY <2>2 DEF LowInv, IdentityMapped, IdMap
    <3> QED
      BY <2>2, <3>4, <3>5, IdMapKept
  <2> QED
    BY <1>u, <2>1, <2>2, <2>3 DEF LowInv, Booting
<1> QED
  BY <1>1, <1>2, <1>3, <1>4, <1>5, <1>6, BootSteps

(***************************************************************************)
(* Whatever the sizes of the kernel, its bitmap and its tables: once paging*)
(* is on, every page that holds something kmalloc placed is mapped to the  *)
(* frame of the same number, and no heap operation, fork or stack of a     *)
(* task ever changes that.                                                 *)
(***************************************************************************)
THEOREM LowMemoryIdentityMapped == Spec => []IdentityMapped
<1>1. Init => LowInv
  <2>1. NullSlot \notin Slot
    BY PagingAssumption DEF NullSlot, Slot, NoTable
  <2>2. Init => op.kind = "boot" /\ used = {} /\ \A s \in Slot : pte[s].frame = 0
    BY <2>1 DEF Init
  <2> QED
    BY <2>2 DEF LowInv, IdentityMapped
<1>2. LowInv => IdentityMapped
  BY DEF LowInv
<1> QED
  BY <1>1, <1>2, LayoutInvInit, LayoutInvStep, LowInvStep, PTL DEF Spec

-----------------------------------------------------------------------------
(* The pages of the heap.                                                  *)

Backed(v) == HasTable(0, v) => pte[SlotOf(0, v)].present

(* The pages that lie in the first n bytes of the heap entirely.           *)
FullPages(n) == {v \in Page : v >= HeapStart /\ (v - HeapStart + 1) * PageSize <= n}

(* expand maps a page on every turn, and the page that its first turn maps *)
(* is the one the heap ends in, or the next one if it ends with a page; so *)
(* the full pages up to its loop variable are mapped.  contract leaves the *)
(* pages present, and its sizes are those of the heap before or within the *)
(* first extent.                                                           *)
BackedInv ==
    /\ \A s \in Slot : pte[s].frame # 0 => pte[s].present
    /\ op.kind = "heappages" => \A v \in HeapBase..(op.v - 1) : Backed(v)
    /\ op.kind \notin Booting =>
          /\ \A v \in HeapBase..(HeapBase + InitPages - 1) : Backed(v)
          /\ \A v \in FullPages(heapLen) : Backed(v)
    /\ op.kind = "expand" => \A v \in FullPages(op.i) : Backed(v)
    /\ op.kind = "contract" => \A v \in FullPages(op.n) : Backed(v)

(* Less of the heap has fewer full pages.                                  *)
LEMMA FullMono ==
    ASSUME NEW m \in Int, NEW n \in Int, m <= n
    PROVE  FullPages(m) \subseteq FullPages(n)
<1> SUFFICES ASSUME NEW v \in FullPages(m) PROVE v \in FullPages(n)
  OBVIOUS
<1>1. v \in Page /\ v >= HeapStart /\ (v - HeapStart + 1) * PageSize <= m
  BY DEF FullPages
<1>2. v - HeapStart + 1 \in Int
  BY <1>1, PageFacts, ConstantTypes DEF HeapStart
<1>3. (v - HeapStart + 1) * PageSize \in Int
  BY <1>2, ConstantTypes, MulMono
<1>4. (v - HeapStart + 1) * PageSize <= n
  BY <1>1, <1>3
<1> QED
  BY <1>1, <1>4 DEF FullPages

(* The full pages of the first extent are among the pages mapped at boot.  *)
LEMMA FullInit ==
    ASSUME NEW v \in FullPages((InitPages - IndexPages) * PageSize)
    PROVE  v \in HeapBase..(HeapBase + InitPages - 1)
<1>1. v \in Nat /\ v >= HeapStart
      /\ (v - HeapStart + 1) * PageSize <= (InitPages - IndexPages) * PageSize
  BY PageFacts DEF FullPages
<1>2. /\ HeapBase \in Nat /\ IndexPages \in Nat /\ InitPages \in Nat /\ PageSize \in Nat \ {0}
      /\ HeapStart = HeapBase + IndexPages
  BY ConstantTypes DEF HeapStart
<1>3. v - HeapStart + 1 \in Int /\ InitPages - IndexPages \in Int
  BY <1>1, <1>2
<1>4. v - HeapStart + 1 <= InitPages - IndexPages
  BY <1>1, <1>2, <1>3, MulMono
<1> QED
  BY <1>1, <1>2, <1>4

(* A page further there is one full page more, the one that i is in.       *)
LEMMA FullNext ==
    ASSUME NEW i \in Nat, NEW v \in FullPages(i + PageSize)
    PROVE  v \in FullPages(i) \/ v = HeapPage(i)
<1> DEFINE q == i \div PageSize
           k == v - HeapStart
<1>1. v \in Page /\ v \in Nat /\ v >= HeapStart /\ (k + 1) * PageSize <= i + PageSize
  BY PageFacts DEF FullPages
<1>2. HeapStart \in Nat /\ PageSize \in Nat \ {0}
  BY ConstantTypes DEF HeapStart
<1>3. /\ q \in Nat /\ i % PageSize \in 0..(PageSize - 1)
      /\ i = PageSize * q + (i % PageSize)
  BY <1>2, DivFacts
<1>4. k \in Nat /\ v = HeapStart + k
  BY <1>1, <1>2
<1>5. HeapPage(i) = HeapStart + q
  BY DEF HeapPage
<1>6. v \in FullPages(i) <=> (k + 1) * PageSize <= i
  BY <1>1 DEF FullPages
<1> HIDE DEF q, k
<1>7. k < q + 1
  <2>1. k * PageSize < (q + 1) * PageSize
    BY <1>1, <1>2, <1>3, <1>4
  <2> QED
    BY <1>2, <1>3, <1>4, <2>1, MulMono
<1>8. CASE k = q
  BY <1>4, <1>5, <1>8
<1>9. CASE k + 1 <= q
  <2>1. (k + 1) * PageSize <= q * PageSize
    BY <1>2, <1>3, <1>4, <1>9, MulMono
  <2>2. q * PageSize <= i
    BY <1>2, <1>3
  <2>3. (k + 1) * PageSize \in Int /\ q * PageSize \in Int
    BY <1>2, <1>3, <1>4
  <2> QED
    BY <1>6, <2>1, <2>2, <2>3
<1> QED
  BY <1>3, <1>4, <1>7, <1>8, <1>9

(* A present entry stays present, even when its frame is freed.            *)
LEMMA PresentKept ==
    ASSUME TypeInv, [Next]_vars, NEW s \in Slot, pte[s].present
    PROVE  pte'[s].present
<1>1. CASE UNCHANGED <<used, pte, exhausted, freed>>
  BY <1>1
<1>2. ASSUME NEW u, AllocFrame(u) PROVE pte'[s].present
  <2>1. CASE u = s /\ pte[s].frame = 0
    <3>1. PICK f \in Frame : pte'[s] = [frame |-> f, present |-> TRUE]
      BY <1>2, <2>1, AllocFacts
    <3> QED
      BY <3>1
  <2>2. CASE u = s /\ pte[s].frame # 0
    BY <1>2, <2>2, AllocFacts DEF frameVars
  <2>3. CASE u # s
    BY <1>2, <2>3, AllocFacts
  <2> QED
    BY <2>1, <2>2, <2>3
<1>3. ASSUME NEW u, FreeFrame(u) PROVE pte'[s].present
  BY <1>3, FreeFacts
<1> QED
  BY <1>1, <1>2, <1>3, FrameSteps

(* Once a page of the heap is mapped, it stays present: free_frame takes   *)
(* the frame away and leaves the present bit set.                          *)
LEMMA BackedKept ==
    ASSUME LayoutInv, [Next]_vars, op.kind \notin {"boot", "heaptables", "identity"},
           NEW v \in Page, Backed(v)
    PROVE  Backed(v)'
<1>1. tables'[0] = tables[0]
  BY KernelTablesKept
<1>2. HasTable(0, v)' = HasTable(0, v) /\ SlotOf(0, v)' = SlotOf(0, v)
  BY <1>1 DEF HasTable, SlotOf
<1>3. 0 \in Dir
  BY ConstantTypes DEF Dir
<1>4. ASSUME HasTable(0, v) PROVE pte'[SlotOf(0, v)].present
  <2>1. SlotOf(0, v) \in Slot /\ pte[SlotOf(0, v)].present /\ TypeInv
    BY <1>3, <1>4, SlotFacts DEF LayoutInv, Backed
  <2> QED
    BY <2>1, PresentKept
<1> QED
  BY <1>2, <1>4 DEF Backed

(* alloc_frame backs the page it is called for.                            *)
LEMMA AllocBacks ==
    ASSUME LayoutInv, BackedInv, NEW v \in Page, UNCHANGED dirVars,
           AllocFrame(SlotOf(0, v)) \/ AllocFrame(PagePtr(0, v))
    PROVE  Backed(v)'
<1>1. HasTable(0, v)' = HasTable(0, v) /\ SlotOf(0, v)' = SlotOf(0, v) /\ 0 \in Dir /\ TypeInv
  BY ConstantTypes DEF HasTable, SlotOf, dirVars, Dir, LayoutInv
<1>2. ASSUME HasTable(0, v) PROVE pte'[SlotOf(0, v)].present
  <2>1. AllocFrame(SlotOf(0, v)) /\ SlotOf(0, v) \in Slot
    BY <1>1, <1>2, SlotFacts DEF PagePtr
  <2>2. CASE pte[SlotOf(0, v)].frame = 0
    <3>1. PICK f \in Frame : pte'[SlotOf(0, v)] = [frame |-> f, present |-> TRUE]
      BY <1>1, <2>1, <2>2, AllocFacts
    <3> QED
      BY <3>1
  <2>3. CASE pte[SlotOf(0, v)].frame # 0
    <3>1. pte' = pte
      BY <1>1, <2>1, <2>3, AllocFacts DEF frameVars
    <3> QED
      BY <2>1, <2>3, <3>1 DEF BackedInv
  <2> QED
    BY <2>2, <2>3
<1> QED
  BY <1>1, <1>2 DEF Backed

(* expand and contract change the heap, and nothing else does after boot.  *)
LEMMA HeapSteps ==
    ASSUME TypeInv, Next, op.kind \notin Booting
    PROVE  \/ \E n \in Requests : ExpandBegin(n)
           \/ Expand
           \/ \E n \in Offsets : ContractBegin(n)
           \/ Contract
           \/ heapLen' = heapLen /\ op'.kind \notin {"expand", "contract"}
<1> USE DEF Idle, Loop
<1>1. ~(BootAlloc \/ BootHeapTable \/ BootIdentity \/ BootHeapPage)
  BY DEF BootAlloc, BootHeapTable, BootIdentity, BootHeapPage, Booting
<1>2. CASE CloneBegin \/ MoveStackBegin \/ MoveStack
  BY <1>2 DEF CloneBegin, MoveStackBegin, MoveStack
<1>3. CASE ClonePage \/ CloneEnd
  <2>1. op'.kind \in {"clone", "idle"}
    BY <1>3, ShapeFacts DEF ClonePage, CloneEnd, TypeInv
  <2> QED
    BY <1>3, <2>1 DEF ClonePage, CloneEnd
<1>4. CASE \/ \E d \in Dir : SwitchDirectory(d)
           \/ \E v \in StackPages, c \in Data : WriteStack(v, c)
  BY <1>4 DEF SwitchDirectory, WriteStack
<1> QED
  BY <1>1, <1>2, <1>3, <1>4 DEF Next

(* expand maps the pages it adds before it makes the heap longer, and      *)
(* contract leaves it within what is mapped.                               *)
LEMMA BackedInvStep == LayoutInv /\ BackedInv /\ [Next]_vars => BackedInv'
<1> SUFFICES ASSUME LayoutInv, BackedInv, [Next]_vars PROVE BackedInv'
  OBVIOUS
<1> USE DEF Loop
<1>t. /\ TypeInv /\ ShapeInv /\ heapLen \in Nat
      /\ HeapBase \in Nat /\ InitPages \in Nat \ {0} /\ PageSize \in Nat \ {0}
  BY ConstantTypes DEF LayoutInv, TypeInv, TypeOK
<1>p. \A s \in Slot : pte'[s].frame # 0 => pte'[s].present
  <2>1. CASE UNCHANGED <<used, pte, exhausted, freed>>
    BY <2>1 DEF BackedInv
  <2>2. ASSUME NEW u, AllocFrame(u), NEW s \in Slot, pte'[s].frame # 0
        PROVE  pte'[s].present
    <3>1. CASE pte[s].frame # 0
      BY <1>t, <3>1, PresentKept DEF BackedInv
    <3>2. CASE pte[s].frame = 0
      <4>1. u = s
        BY <1>t, <2>2, <3>2, AllocFacts
      <4>2. PICK f \in Frame : pte'[s] = [frame |-> f, present |-> TRUE]
        BY <1>t, <2>2, <3>2, <4>1, AllocFacts
      <4> QED
        BY <4>2
    <3> QED
      BY <3>1, <3>2
  <2>3. ASSUME NEW u, FreeFrame(u) PROVE \A s \in Slot : pte'[s].frame # 0 => pte'[s].present
    BY <1>t, <2>3, FreeFacts DEF BackedInv
  <2> QED
    BY <2>1, <2>2, <2>3, FrameSteps
<1>e. \A v \in HeapBase..(HeapBase + InitPages - 1) : v \in Page
  BY <1>t, BootPages
<1>f. \A n : FullPages(n) \subseteq Page
  BY DEF FullPages
<1>1. CASE UNCHANGED vars
  BY <1>1 DEF vars, frameVars, dirVars, BackedInv, Backed, HasTable, SlotOf
<1>2. CASE BootAlloc \/ BootHeapTable
  BY <1>2, <1>p DEF BootAlloc, BootHeapTable, BackedInv, Booting
<1>3. CASE BootIdentity
  <2>1. op.kind = "identity" /\ (op' = op \/ op' = [kind |-> "identity", v |-> op.v + 1]
                                  \/ op' = [kind |-> "heappages", v |-> HeapBase])
    BY <1>3 DEF BootIdentity
  <2>2. HeapBase..(HeapBase - 1) = {}
    BY <1>t
  <2> QED
    BY <1>p, <2>1, <2>2 DEF BackedInv, Booting
<1>4. CASE BootHeapPage
  <2>0. /\ op.kind = "heappages" /\ op.v \in HeapBase..(HeapBase + InitPages)
        /\ UNCHANGED dirVars
    BY <1>4, <1>t, ShapeFacts DEF BootHeapPage
  <2>1. \A v \in HeapBase..(op.v - 1) : Backed(v)'
    <3> SUFFICES ASSUME NEW v \in HeapBase..(op.v - 1) PROVE Backed(v)'
      OBVIOUS
    <3>1. v \in Page
      BY <1>e, <1>t, <2>0
    <3>2. Backed(v)
      BY <2>0 DEF BackedInv
    <3> QED
      BY <2>0, <3>1, <3>2, BackedKept
  <2>2. CASE /\ op.v < HeapBase + InitPages /\ AllocFrame(SlotOf(0, op.v))
             /\ op' = [kind |-> "heappages", v |-> op.v + 1]
    <3>1. \A v \in HeapBase..op.v : Backed(v)'
      <4> SUFFICES ASSUME NEW v \in HeapBase..op.v PROVE Backed(v)'
        OBVIOUS
      <4>1. CASE v = op.v
        <5>1. v \in Page
          BY <1>e, <1>t, <2>0, <2>2, <4>1
        <5> QED
          BY <2>0, <2>2, <4>1, <5>1, AllocBacks
      <4>2. CASE v # op.v
        BY <1>t, <2>0, <2>1, <4>2
      <4> QED
        BY <4>1, <4>2
    <3>2. op'.v - 1 = op.v /\ op'.kind = "heappages"
      BY <1>t, <2>0, <2>2
    <3> QED
      BY <1>p, <3>1, <3>2 DEF BackedInv, Booting
  <2>3. CASE /\ op.v = HeapBase + InitPages /\ op' = Idle
             /\ heapLen' = (InitPages - IndexPages) * PageSize
    <3>1. \A v \in HeapBase..(HeapBase + InitPages - 1) : Backed(v)'
      <4>1. HeapBase..(op.v - 1) = HeapBase..(HeapBase + InitPages - 1)
        BY <1>t, <2>3
      <4> QED
        BY <2>1, <4>1
    <3>2. \A v \in FullPages(heapLen') : Backed(v)'
      BY <2>3, <3>1, FullInit
    <3> QED
      BY <1>p, <2>3, <3>1, <3>2 DEF BackedInv, FullPages, Idle
  <2> QED
    BY <1>4, <2>2, <2>3 DEF BootHeapPage
<1>5. CASE Next /\ op.kind \notin Booting
  <2>0. op'.kind \notin Booting /\ op.kind \notin {"boot", "heaptables", "identity"}
    BY <1>5, <1>t, AfterBoot DEF Booting
  <2>k. \A v \in Page : Backed(v) => Backed(v)'
    BY <2>0, BackedKept
  <2>i. \A v \in HeapBase..(HeapBase + InitPages - 1) : Backed(v)'
    BY <1>5, <1>e, <2>k DEF BackedInv
  <2>h. \A v \in FullPages(heapLen) : Backed(v)'
    BY <1>5, <1>f, <2>k DEF BackedInv
  <2>g. \A n : FullPages(n)' = FullPages(n)
    BY DEF FullPages
  <2>s. ASSUME \A v \in FullPages(heapLen') : Backed(v)',
               op'.kind = "expand" => \A v \in FullPages(op'.i) : Backed(v)',
               op'.kind = "contract" => \A v \in FullPages(op'.n) : Backed(v)'
        PROVE  BackedInv'
    BY <1>p, <2>0, <2>i, <2>s DEF BackedInv, Booting, FullPages
  <2>1. ASSUME NEW n \in Requests, ExpandBegin(n) PROVE BackedInv'
    <3>1. op'.kind = "expand" /\ op'.i = heapLen /\ heapLen' = heapLen
      BY <2>1 DEF ExpandBegin
    <3> QED
      BY <2>h, <2>s, <3>1
  <2>2. CASE Expand
    <3>0. /\ op \in [kind : {"expand"}, i : Nat, n : 0..HeapMax] /\ UNCHANGED dirVars
          /\ \A v \in FullPages(op.i) : Backed(v)'
      BY <1>f, <1>t, <2>2, <2>k, ShapeFacts DEF Expand, BackedInv
    <3>1. CASE /\ op.i < op.n /\ AllocFrame(PagePtr(0, HeapPage(op.i)))
               /\ op' = [op EXCEPT !.i = @ + PageSize] /\ heapLen' = heapLen
      <4>1. op.i \in Nat /\ op'.i = op.i + PageSize /\ op'.kind = "expand"
        BY <3>0, <3>1
      <4>2. PICK p \in Page : p = HeapPage(op.i)
        <5>1. op.i <= HeapMax /\ HeapMax \in HeapSizes
          BY <3>0, <3>1, ConstantTypes DEF HeapSizes
        <5> QED
          BY <4>1, <5>1, HeapPages
      <4>3. Backed(p)'
        BY <3>0, <3>1, <4>2, AllocBacks
      <4>4. \A v \in FullPages(op.i + PageSize) : v \in FullPages(op.i) \/ v = p
        BY <4>1, <4>2, FullNext
      <4>5. \A v \in FullPages(op'.i) : Backed(v)'
        BY <3>0, <4>1, <4>3, <4>4
      <4> QED
        BY <2>h, <2>s, <3>1, <4>1, <4>5
    <3>2. CASE op.i >= op.n /\ heapLen' = op.n /\ op' = Idle
      <4>1. op.n \in Int /\ op.i \in Int /\ op.n <= op.i
        BY <3>0, <3>2, ConstantTypes
      <4>2. FullPages(op.n) \subseteq FullPages(op.i)
        BY <4>1, FullMono
      <4> QED
        BY <2>s, <3>0, <3>2, <4>2 DEF Idle
    <3> QED
      BY <2>2, <3>1, <3>2 DEF Expand
  <2>3. ASSUME NEW n \in Offsets, ContractBegin(n) PROVE BackedInv'
    <3>1. /\ n < heapLen /\ n \in Nat /\ heapLen' = heapLen
          /\ op'.kind = "contract" /\ op'.n = RoundDown(n)
      BY <2>3, PagingAssumption DEF ContractBegin
    <3> DEFINE e == (InitPages - IndexPages) * PageSize
    <3>2. /\ e \in Int /\ HeapMin <= e /\ HeapMin \in Int
          /\ 2 * PageSize <= e /\ 2 * PageSize \in Int
      <4>1. 2 <= InitPages - IndexPages /\ HeapMin <= e /\ InitPages - IndexPages \in Int
        BY LayoutAssumption, ConstantTypes
      <4>2. 2 * PageSize <= e /\ e \in Int
        BY <1>t, <4>1, MulMono
      <4> QED
        BY <4>1, <4>2, ConstantTypes
    <3>3. \A v \in FullPages(e) : Backed(v)'
      BY <2>i, FullInit
    <3> HIDE DEF e
    <3>4. RoundDown(n) \in {n, HeapMin, 2 * PageSize}
      BY DEF RoundDown
    <3>5. FullPages(RoundDown(n)) \subseteq FullPages(heapLen)
          \/ FullPages(RoundDown(n)) \subseteq FullPages(e)
      <4>1. FullPages(n) \subseteq FullPages(heapLen)
        BY <1>t, <3>1, FullMono
      <4>2. FullPages(HeapMin) \subseteq FullPages(e)
        BY <3>2, FullMono
      <4>3. FullPages(2 * PageSize) \subseteq FullPages(e)
        BY <3>2, FullMono
      <4> QED
        BY <3>4, <4>1, <4>2, <4>3
    <3>6. \A v \in FullPages(RoundDown(n)) : Backed(v)'
      BY <2>h, <3>3, <3>5
    <3> QED
      BY <2>h, <2>s, <3>1, <3>6
  <2>4. CASE Contract
    <3>0. /\ op \in [kind : {"contract"}, i : Int, n : Nat]
          /\ \A v \in FullPages(op.n) : Backed(v)'
      BY <1>f, <1>t, <2>4, <2>k, ShapeFacts DEF Contract, BackedInv
    <3>1. CASE op' = [op EXCEPT !.i = @ - PageSize] /\ heapLen' = heapLen
      <4>1. op'.n = op.n /\ op'.kind = "contract"
        BY <3>0, <3>1
      <4> QED
        BY <2>h, <2>s, <3>0, <3>1, <4>1
    <3>2. CASE heapLen' = op.n /\ op' = Idle
      BY <2>s, <3>0, <3>2 DEF Idle
    <3> QED
      BY <2>4, <3>1, <3>2 DEF Contract
  <2>5. CASE heapLen' = heapLen /\ op'.kind \notin {"expand", "contract"}
    BY <2>h, <2>s, <2>5
  <2> QED
    BY <1>5, <1>t, <2>1, <2>2, <2>3, <2>4, <2>5, HeapSteps
<1> QED
  BY <1>1, <1>2, <1>3, <1>4, <1>5, BootSteps

(***************************************************************************)
(* For every size of page, every request and every sequence of expansions  *)
(* and contractions: the pages of the heap, up to the one its last byte is *)
(* in, are mapped wherever the heap has a page table, although the sizes   *)
(* are rounded by the wrong masks.                                         *)
(***************************************************************************)
THEOREM HeapStaysBacked == Spec => []HeapBacked
<1>1. Init => BackedInv
  <2>1. NullSlot \notin Slot
    BY PagingAssumption DEF NullSlot, Slot, NoTable
  <2>2. Init => op.kind = "boot" /\ \A s \in Slot : pte[s].frame = 0
    BY <2>1 DEF Init
  <2> QED
    BY <2>2 DEF BackedInv, Booting
<1>2. LayoutInv /\ BackedInv => HeapBacked
  <2> SUFFICES ASSUME LayoutInv, BackedInv, op = Idle,
                      NEW v \in HeapStart..(HeapPage(heapLen - 1) - 1)
               PROVE  Backed(v)
    BY DEF HeapBacked, Backed
  <2> DEFINE n == heapLen - 1
             q == n \div PageSize
             k == v - HeapStart
  <2>1. heapLen \in Nat /\ PageSize \in Nat \ {0} /\ HeapStart \in Nat
    BY ConstantTypes DEF LayoutInv, TypeInv, TypeOK, HeapStart
  <2>2. v \in Int /\ v >= HeapStart /\ v < HeapPage(n)
    <3>1. n \in Int
      BY <2>1
    <3>2. q \in Int
      BY <2>1, <3>1
    <3>3. HeapPage(n) \in Int
      BY <2>1, <3>2 DEF HeapPage
    <3> QED
      BY <2>1, <3>3
  <2>3. n \in Nat
    <3>1. CASE heapLen = 0
      <4>1. (0 - 1) \div PageSize = 0 - 1
        BY <2>1
      <4>2. HeapPage(n) = HeapStart - 1
        BY <2>1, <3>1, <4>1 DEF HeapPage
      <4> QED
        BY <2>1, <2>2, <4>2
    <3>2. CASE heapLen # 0
      BY <2>1, <3>2
    <3> QED
      BY <3>1, <3>2
  <2>4. /\ q \in Nat /\ n % PageSize \in 0..(PageSize - 1)
        /\ n = PageSize * q + (n % PageSize)
    BY <2>1, <2>3, DivFacts
  <2>5. k \in Nat /\ k + 1 <= q /\ HeapPage(n) = HeapStart + q
    BY <2>1, <2>2, <2>4 DEF HeapPage
  <2>6. v \in Page
    <3>1. PICK m \in HeapSizes : heapLen <= m
      BY DEF LayoutInv, HeapInv
    <3>2. n <= m
      <4>1. m \in Nat
        BY HeapSizeTypes
      <4> QED
        BY <2>1, <3>1, <4>1
    <3>3. HeapStart + (m \div PageSize) < StackTop - 1
      BY LayoutAssumption
    <3>4. n \div PageSize <= m \div PageSize /\ m \div PageSize \in Nat
      BY <2>1, <2>3, <3>2, HeapSizeTypes, DivMono, DivFacts
    <3>5. v \in Nat /\ v <= StackTop
      BY <2>1, <2>2, <2>4, <2>5, <3>3, <3>4, ConstantTypes
    <3> QED
      BY <3>5, PageRange
  <2>7. (k + 1) * PageSize <= heapLen
    <3> HIDE DEF n, q, k
    <3>1. (k + 1) * PageSize <= q * PageSize
      BY <2>1, <2>4, <2>5, MulMono
    <3>2. q * PageSize <= n /\ n <= heapLen
      BY <2>1, <2>3, <2>4 DEF n
    <3>3. (k + 1) * PageSize \in Int /\ q * PageSize \in Int
      BY <2>1, <2>4, <2>5
    <3> QED
      BY <2>1, <2>3, <3>1, <3>2, <3>3
  <2>8. v \in FullPages(heapLen)
    BY <2>2, <2>6, <2>7 DEF FullPages
  <2> QED
    BY <2>8 DEF BackedInv, Booting, Idle
<1> QED
  BY <1>1, <1>2, LayoutInvInit, LayoutInvStep, BackedInvStep, PTL DEF Spec

-----------------------------------------------------------------------------
(* Page table entries.                                                     *)

(* The entries that operations change are in tables that have been made.   *)
Made(s) == s \in Slot => s[1] < nextTab

(* The entries found for a page of a directory are in tables that were     *)
(* made.                                                                   *)
LEMMA MadePage ==
    ASSUME LayoutInv, NEW d \in Dir, NEW v \in Page
    PROVE  Made(SlotOf(d, v)) /\ Made(PagePtr(d, v))
<1>1. v \div TableSpan \in TableIdx
  BY PageFacts
<1>2. tables[d][v \div TableSpan] < nextTab
  BY <1>1 DEF LayoutInv, DistinctInv
<1>3. NullSlot \notin Slot
  BY ConstantTypes DEF NullSlot, Slot, NoTable
<1> QED
  BY <1>2, <1>3 DEF Made, SlotOf, PagePtr

(* Steps change at most one entry, of a table that was made.               *)
LEMMA MadeSlots ==
    ASSUME LayoutInv, [Next]_vars
    PROVE  \/ UNCHANGED pte
           \/ \E s : Made(s) /\ (AllocFrame(s) \/ FreeFrame(s))
<1>t. TypeInv /\ ShapeInv /\ 0 \in Dir /\ placement \in Nat
  <2>1. 0 \in Dir
    BY ConstantTypes DEF Dir
  <2> QED
    BY <2>1 DEF LayoutInv, TypeInv, TypeOK
<1>1. CASE BootAlloc \/ BootHeapTable
  BY <1>1 DEF BootAlloc, BootHeapTable, frameVars
<1>2. CASE BootIdentity
  <2>1. CASE MoreToMap /\ AllocFrame(SlotOf(0, op.v))
    <3>1. op.kind = "identity" /\ op.v \in Nat
      BY <1>2, <1>t, ShapeFacts DEF BootIdentity
    <3>2. placement + PageSize <= LowEnd
      BY <3>1, PlaceBound DEF LayoutInv
    <3>3. op.v * PageSize \in Int
      BY <3>1, ConstantTypes, MulMono
    <3>4. op.v * PageSize < LowEnd
      BY <1>t, <2>1, <3>2, <3>3, ConstantTypes DEF MoreToMap
    <3>5. op.v \in Page
      BY <3>1, <3>4, LowPages
    <3> QED
      BY <1>t, <2>1, <3>5, MadePage
  <2> QED
    BY <1>2, <2>1 DEF BootIdentity, frameVars
<1>3. CASE op.kind \notin {"boot", "heaptables", "identity"}
  BY <1>3, SlotSteps, MadePage
<1>4. CASE UNCHANGED vars
  BY <1>4 DEF vars, frameVars
<1>5. CASE BootHeapPage
  BY <1>3, <1>5 DEF BootHeapPage
<1> QED
  BY <1>1, <1>2, <1>3, <1>4, <1>5, BootSteps DEF Booting

(* The entries of tables that are yet to be made are zero.                 *)
FreshInv ==
    \A s \in Slot : s[1] >= nextTab => pte[s] = [frame |-> 0, present |-> FALSE]

(* No step writes an entry of a table yet to be made.                      *)
LEMMA FreshInvStep == LayoutInv /\ FreshInv /\ [Next]_vars => FreshInv'
<1> SUFFICES ASSUME LayoutInv, FreshInv, [Next]_vars, NEW u \in Slot, u[1] >= nextTab'
             PROVE  pte'[u] = [frame |-> 0, present |-> FALSE]
  BY DEF FreshInv
<1>t. /\ TypeInv /\ nextTab \in Nat /\ cur \in Dir
      /\ tables \in [Dir -> [TableIdx -> 0..MaxTables]]
  BY DEF LayoutInv, TypeInv, TypeOK
<1>1. nextTab' >= nextTab /\ nextTab' \in Nat
  <2>1. CASE UNCHANGED dirVars
    BY <1>t, <2>1 DEF dirVars
  <2>2. CASE NewTable(0, op.v) \/ NewTable(cur, op.v)
    BY <1>t, <2>2 DEF NewTable
  <2>3. CASE CloneBegin
    <3>1. Cardinality(Private(cur)) \in Nat
      BY <1>t, CloneFacts
    <3> QED
      BY <1>t, <2>3, <3>1 DEF CloneBegin
  <2> QED
    BY <2>1, <2>2, <2>3, TableSteps
<1>2. u[1] \in Nat
  BY ConstantTypes DEF Slot
<1>3. u[1] >= nextTab
  BY <1>t, <1>1, <1>2
<1>4. pte[u] = [frame |-> 0, present |-> FALSE]
  BY <1>3 DEF FreshInv
<1>5. ASSUME NEW s, Made(s), AllocFrame(s) \/ FreeFrame(s)
      PROVE  pte'[u] = pte[u]
  <2>1. u # s
    BY <1>t, <1>2, <1>3, <1>5 DEF Made
  <2> QED
    BY <1>t, <1>5, <2>1, AllocFacts, FreeFacts
<1> QED
  BY <1>4, <1>5, MadeSlots

(* While nothing has been freed and frames are left: an entry with a frame *)
(* is present, and a present entry has a frame that is in use and nobody   *)
(* else's, frame 0 included.                                               *)
PresentInv ==
    Sane =>
       /\ \A s \in Slot : pte[s].frame # 0 => pte[s].present
       /\ \A s \in Slot : pte[s].present => pte[s].frame \in used
       /\ \A s1, s2 \in Slot : pte[s1].present /\ pte[s2].present
             /\ pte[s1].frame = pte[s2].frame => s1 = s2

(* A step that leaves a sane state does at most allocate a frame.          *)
LEMMA SaneSteps ==
    ASSUME TypeInv, [Next]_vars, Sane'
    PROVE  /\ Sane
           /\ \/ UNCHANGED <<used, pte>>
              \/ \E s : AllocFrame(s)
<1>1. CASE UNCHANGED <<used, pte, exhausted, freed>>
  BY <1>1 DEF Sane
<1>2. ASSUME NEW s, AllocFrame(s), freed' = freed PROVE Sane
  BY <1>2, AllocFacts DEF Sane
<1>3. ASSUME NEW s, FreeFrame(s) PROVE Sane /\ UNCHANGED <<used, pte>>
  <2>1. UNCHANGED <<frameVars, freed>>
    BY <1>3, FreeFacts DEF Sane
  <2> QED
    BY <2>1 DEF Sane, frameVars
<1> QED
  BY <1>1, <1>2, <1>3, FrameSteps

(* What alloc_frame does in such a step.                                   *)
LEMMA SaneAlloc ==
    ASSUME TypeInv, Sane', NEW s, AllocFrame(s)
    PROVE  /\ \A u \in Slot : u # s \/ pte[s].frame # 0 => pte'[u] = pte[u]
           /\ s \in Slot /\ pte[s].frame = 0 =>
                 \E f \in Frame \ used : /\ used' = used \cup {f}
                                         /\ pte'[s] = [frame |-> f, present |-> TRUE]
           /\ used \subseteq used'
<1>1. \A u \in Slot : u # s \/ pte[s].frame # 0 => pte'[u] = pte[u]
  BY AllocFacts DEF frameVars
<1>2. ASSUME s \in Slot, pte[s].frame = 0
      PROVE  \E f \in Frame \ used : /\ used' = used \cup {f}
                                     /\ pte'[s] = [frame |-> f, present |-> TRUE]
  <2>1. PICK f \in Frame : /\ FirstFrame(f) /\ used' = used \cup {f}
                           /\ pte'[s] = [frame |-> f, present |-> TRUE]
                           /\ exhausted' \/ used # Frame
    BY <1>2, AllocFacts
  <2>2. f \notin used
    BY <2>1 DEF FirstFrame, Sane
  <2> QED
    BY <2>1, <2>2
<1> QED
  BY <1>1, <1>2, AllocFacts

(* While no frame was freed and memory lasted, present entries keep        *)
(* different frames.                                                       *)
LEMMA PresentInvStep == TypeInv /\ PresentInv /\ [Next]_vars => PresentInv'
<1> SUFFICES ASSUME TypeInv, PresentInv, [Next]_vars, Sane'
             PROVE  /\ \A s \in Slot : pte'[s].frame # 0 => pte'[s].present
                    /\ \A s \in Slot : pte'[s].present => pte'[s].frame \in used'
                    /\ \A s1, s2 \in Slot : pte'[s1].present /\ pte'[s2].present
                          /\ pte'[s1].frame = pte'[s2].frame => s1 = s2
  BY DEF PresentInv
<1>0. /\ \A s \in Slot : pte[s].frame # 0 => pte[s].present
      /\ \A s \in Slot : pte[s].present => pte[s].frame \in used
      /\ \A s1, s2 \in Slot : pte[s1].present /\ pte[s2].present
            /\ pte[s1].frame = pte[s2].frame => s1 = s2
  BY SaneSteps DEF PresentInv
<1>1. CASE UNCHANGED <<used, pte>>
  BY <1>0, <1>1
<1>2. ASSUME NEW s, AllocFrame(s)
      PROVE  /\ \A u \in Slot : pte'[u].frame # 0 => pte'[u].present
             /\ \A u \in Slot : pte'[u].present => pte'[u].frame \in used'
             /\ \A u1, u2 \in Slot : pte'[u1].present /\ pte'[u2].present
                   /\ pte'[u1].frame = pte'[u2].frame => u1 = u2
  <2>1. CASE s \notin Slot \/ pte[s].frame # 0
    <3>1. used \subseteq used' /\ \A u \in Slot : pte'[u] = pte[u]
      BY <1>2, <2>1, SaneAlloc
    <3> QED
      BY <1>0, <3>1
  <2>2. CASE s \in Slot /\ pte[s].frame = 0
    <3>1. PICK f \in Frame \ used : /\ used' = used \cup {f}
                                    /\ pte'[s] = [frame |-> f, present |-> TRUE]
      BY <1>2, <2>2, SaneAlloc
    <3>2. \A u \in Slot : u # s => pte'[u] = pte[u]
      BY <1>2, SaneAlloc
    <3>3. pte'[s].frame = f /\ pte'[s].present = TRUE
      BY <3>1
    <3>4. \A u \in Slot : pte'[u].frame # 0 => pte'[u].present
      BY <1>0, <3>2, <3>3
    <3>5. \A u \in Slot : pte'[u].present => pte'[u].frame \in used'
      BY <1>0, <3>1, <3>2, <3>3
    <3>6. \A u \in Slot : u # s /\ pte'[u].present => pte'[u].frame # f
      BY <1>0, <3>1, <3>2
    <3>7. ASSUME NEW u1 \in Slot, NEW u2 \in Slot, pte'[u1].present, pte'[u2].present,
                 pte'[u1].frame = pte'[u2].frame
          PROVE  u1 = u2
      <4>1. CASE u1 = s \/ u2 = s
        BY <3>3, <3>6, <3>7, <4>1
      <4>2. CASE u1 # s /\ u2 # s
        BY <1>0, <3>2, <3>7, <4>2
      <4> QED
        BY <4>1, <4>2
    <3> QED
      BY <3>4, <3>5, <3>7
  <2> QED
    BY <2>1, <2>2
<1> QED
  BY <1>1, <1>2, SaneSteps

(***************************************************************************)
(* Until frames run out and until the first one is freed, no two present   *)
(* entries have the same frame; and after that, as long as free_frame has  *)
(* cleared no bit but that of frame 0, no two entries have the same frame  *)
(* other than frame 0.  This is so whatever the number of frames and       *)
(* whatever heap operations and forks came before.                         *)
(***************************************************************************)
THEOREM FramesStayExclusive == Spec => []FramesExclusive
<1>1. Init => FrameInv /\ PresentInv
  <2>1. NullSlot \notin Slot
    BY PagingAssumption DEF NullSlot, Slot, NoTable
  <2>2. Init => \A s \in Slot : pte[s] = [frame |-> 0, present |-> FALSE]
    BY <2>1 DEF Init
  <2>3. Init => Mapped = {}
    BY <2>2 DEF Mapped
  <2> QED
    BY <2>2, <2>3 DEF FrameInv, PresentInv
<1>2. FrameInv /\ PresentInv => FramesExclusive
  BY DEF FrameInv, PresentInv, FramesExclusive
<1> QED
  BY <1>1, <1>2, TypeInvInit, TypeInvStep, FrameInvStep, PresentInvStep, PTL DEF Spec

-----------------------------------------------------------------------------
(* Stacks.                                                                 *)

(* Page v of directory d has an entry with a frame of its own.             *)
Own(d, v) == HasTable(d, v) /\ pte[SlotOf(d, v)].present /\ pte[SlotOf(d, v)].frame # 0

HasStack(d) == \A v \in StackPages : Own(d, v)

(* What a directory owns it keeps.                                         *)
LEMMA OwnKept ==
    ASSUME LayoutInv, [Next]_vars, Sane', NEW d \in Dir, d < nextDir,
           NEW v \in Page, Own(d, v)
    PROVE  /\ Own(d, v)' /\ SlotOf(d, v)' = SlotOf(d, v)
           /\ pte'[SlotOf(d, v)] = pte[SlotOf(d, v)]
<1>t. /\ TypeInv /\ cur \in Dir /\ 0 \in Dir /\ nextDir \in Nat /\ HasTable(d, v)
      /\ tables \in [Dir -> [TableIdx -> 0..MaxTables]]
  <2>1. 0 \in Dir
    BY ConstantTypes DEF Dir
  <2> QED
    BY <2>1 DEF LayoutInv, TypeInv, TypeOK, Own
<1>1. HasTable(d, v)' /\ SlotOf(d, v)' = SlotOf(d, v)
  <2>1. CASE UNCHANGED dirVars
    BY <1>t, <2>1 DEF dirVars, HasTable, SlotOf
  <2>2. CASE ~HasTable(0, op.v) /\ NewTable(0, op.v)
    BY <1>t, <2>2, SlotKept
  <2>3. CASE ~HasTable(cur, op.v) /\ NewTable(cur, op.v)
    BY <1>t, <2>3, SlotKept
  <2>4. CASE CloneBegin
    <3>1. tables'[d] = tables[d]
      <4>1. d # nextDir
        BY <1>t DEF Dir
      <4> QED
        BY <1>t, <2>4, <4>1 DEF CloneBegin
    <3> QED
      BY <1>t, <3>1 DEF HasTable, SlotOf
  <2> QED
    BY <2>1, <2>2, <2>3, <2>4, TableSteps
<1>2. SlotOf(d, v) \in Slot /\ pte[SlotOf(d, v)].frame # 0
  BY <1>t, SlotFacts DEF Own
<1>3. pte'[SlotOf(d, v)] = pte[SlotOf(d, v)]
  <2>1. CASE UNCHANGED <<used, pte>>
    BY <2>1
  <2>2. ASSUME NEW s, AllocFrame(s) PROVE pte'[SlotOf(d, v)] = pte[SlotOf(d, v)]
    BY <1>t, <1>2, <2>2, SaneAlloc
  <2> QED
    BY <1>t, <2>1, <2>2, SaneSteps
<1> QED
  BY <1>1, <1>3 DEF Own

(* The kernel has no stack pages.                                          *)
LEMMA StackNotKernel ==
    ASSUME LayoutInv, NEW v \in StackPages
    PROVE  ~HasTable(0, v)
<1>1. v \div TableSpan \in TableIdx /\ v \div TableSpan >= BootTables
      /\ v \div TableSpan \in Nat
  BY StackPageFacts, ConstantTypes, DivFacts
<1>2. v \div TableSpan \notin 0..(BootTables - 1)
  BY <1>1, ConstantTypes
<1> QED
  BY <1>1, <1>2 DEF LayoutInv, PlaceInv, KernelTables, HasTable

(* Two directories never have the same frame in their stacks.              *)
LEMMA StacksApart ==
    ASSUME LayoutInv, PresentInv, Sane, NEW d \in Dir, NEW e \in Dir, d # e,
           NEW v \in StackPages, HasTable(d, v), pte[SlotOf(d, v)].present,
           NEW w \in StackPages, HasTable(e, w), pte[SlotOf(e, w)].present
    PROVE  pte[SlotOf(d, v)].frame # pte[SlotOf(e, w)].frame
<1>1. TypeInv /\ v \in Page /\ w \in Page
  BY StackPageFacts DEF LayoutInv
<1>2. SlotOf(d, v) \in Slot /\ SlotOf(e, w) \in Slot
  BY <1>1, SlotFacts
<1>3. SlotOf(d, v) # SlotOf(e, w)
  BY <1>1, StackNotKernel, SlotsDistinct DEF LayoutInv
<1> QED
  BY <1>2, <1>3 DEF PresentInv

(* Outside the operations that make a stack, whoever has the top page of   *)
(* one has all of it; move_stack has what is above its loop variable; and  *)
(* clone_directory has, for every stack page that it has done, a page with *)
(* the contents of the original.                                           *)
StackInv ==
    Sane => \A d \in 1..(nextDir - 1) :
       HasTable(d, StackTop) =>
          \/ HasStack(d)
          \/ op.kind = "movestack" /\ d = cur
          \/ op.kind = "clone" /\ d = op.dst

MoveInv ==
    Sane /\ op.kind = "movestack" => \A v \in StackPages : v > op.v => Own(cur, v)

Copied(v) ==
    /\ Own(op.dst, v)
    /\ data[pte[SlotOf(op.dst, v)].frame] = data[pte[SlotOf(op.src, v)].frame]

CloneInv ==
    Sane /\ op.kind = "clone" =>
       /\ op.src = 0 => ~HasTable(op.dst, StackTop)
       /\ op.src # 0 => HasStack(op.src) /\ \A v \in StackPages \ op.todo : Copied(v)
       /\ \A v \in op.todo : pte[SlotOf(op.dst, v)].frame = 0

PageInv == LayoutInv /\ LowInv /\ FreshInv /\ PresentInv

(* The steps that an operation under way allows.                           *)
LEMMA MoveSteps ==
    ASSUME Next, op.kind = "movestack"
    PROVE  MoveStack
<1> USE DEF Idle
<1>1. ~(BootAlloc \/ BootHeapTable \/ BootIdentity \/ BootHeapPage)
  BY DEF BootAlloc, BootHeapTable, BootIdentity, BootHeapPage
<1>2. ~(\E n \in Requests : ExpandBegin(n)) /\ ~(\E n \in Offsets : ContractBegin(n))
  BY DEF ExpandBegin, ContractBegin
<1>3. ~Expand /\ ~Contract
  BY DEF Expand, Contract
<1>4. ~CloneBegin /\ ~ClonePage /\ ~CloneEnd /\ ~MoveStackBegin
  BY DEF CloneBegin, ClonePage, CloneEnd, MoveStackBegin
<1>5. ~(\E d \in Dir : SwitchDirectory(d))
      /\ ~(\E v \in StackPages, c \in Data : WriteStack(v, c))
  BY DEF SwitchDirectory, WriteStack
<1> QED
  BY <1>1, <1>2, <1>3, <1>4, <1>5 DEF Next

(* A clone under way goes on with its next page or ends.                   *)
LEMMA CloneSteps ==
    ASSUME Next, op.kind = "clone"
    PROVE  ClonePage \/ CloneEnd
<1> USE DEF Idle
<1>1. ~(BootAlloc \/ BootHeapTable \/ BootIdentity \/ BootHeapPage)
  BY DEF BootAlloc, BootHeapTable, BootIdentity, BootHeapPage
<1>2. ~(\E n \in Requests : ExpandBegin(n)) /\ ~(\E n \in Offsets : ContractBegin(n))
  BY DEF ExpandBegin, ContractBegin
<1>3. ~Expand /\ ~Contract
  BY DEF Expand, Contract
<1>4. ~CloneBegin /\ ~MoveStackBegin /\ ~MoveStack
  BY DEF CloneBegin, MoveStackBegin, MoveStack
<1>5. ~(\E d \in Dir : SwitchDirectory(d))
      /\ ~(\E v \in StackPages, c \in Data : WriteStack(v, c))
  BY DEF SwitchDirectory, WriteStack
<1> QED
  BY <1>1, <1>2, <1>3, <1>4, <1>5 DEF Next

(* ... and the ones that start it.                                         *)
LEMMA OpStarts ==
    ASSUME TypeInv, Next
    PROVE  /\ op'.kind = "movestack" => op.kind = "movestack" \/ MoveStackBegin
           /\ op'.kind = "clone" => op.kind = "clone" \/ CloneBegin
           /\ MoveStackBegin \/ CloneBegin => op = Idle
<1> USE DEF Idle, Loop
<1>1. CASE BootAlloc \/ BootHeapTable \/ BootIdentity \/ BootHeapPage
  BY <1>1 DEF BootAlloc, BootHeapTable, BootIdentity, BootHeapPage, MoveStackBegin, CloneBegin
<1>2. CASE (\E n \in Requests : ExpandBegin(n)) \/ (\E n \in Offsets : ContractBegin(n))
  BY <1>2 DEF ExpandBegin, ContractBegin, MoveStackBegin, CloneBegin
<1>3. CASE Expand \/ Contract
  <2>1. op'.kind \in {"idle", "expand", "contract"}
    BY <1>3, ShapeFacts DEF Expand, Contract, TypeInv
  <2> QED
    BY <2>1 DEF MoveStackBegin, CloneBegin
<1>4. CASE CloneBegin \/ MoveStackBegin
  BY <1>4 DEF CloneBegin, MoveStackBegin
<1>5. CASE ClonePage \/ CloneEnd
  <2>1. op.kind = "clone" /\ op'.kind \in {"clone", "idle"}
    BY <1>5, ShapeFacts DEF ClonePage, CloneEnd, TypeInv
  <2> QED
    BY <2>1 DEF MoveStackBegin, CloneBegin
<1>6. CASE MoveStack
  <2>1. op.kind = "movestack" /\ op'.kind \in {"movestack", "idle"}
    BY <1>6 DEF MoveStack
  <2> QED
    BY <2>1 DEF MoveStackBegin, CloneBegin
<1>7. CASE \/ \E d \in Dir : SwitchDirectory(d)
           \/ \E v \in StackPages, c \in Data : WriteStack(v, c)
  BY <1>7 DEF SwitchDirectory, WriteStack, MoveStackBegin, CloneBegin
<1> QED
  BY <1>1, <1>2, <1>3, <1>4, <1>5, <1>6, <1>7 DEF Next

(* move_stack maps its pages downwards, each to a frame of its own.        *)
LEMMA MoveInvStep == PageInv /\ MoveInv /\ [Next]_vars => MoveInv'
<1> SUFFICES ASSUME PageInv, MoveInv, [Next]_vars, Sane', op'.kind = "movestack",
                    NEW v \in StackPages, v > op'.v
             PROVE  Own(cur, v)'
  BY DEF MoveInv
<1>t. /\ LayoutInv /\ TypeInv /\ cur \in Dir /\ cur < nextDir /\ Sane
      /\ v \in Page /\ v \in Nat /\ v <= StackTop /\ StackTop \in Nat
  <2>1. LayoutInv /\ TypeInv
    BY DEF PageInv, LayoutInv
  <2>2. v \in Page /\ v \in Nat /\ v <= StackTop /\ StackTop \in Nat
    BY StackPageFacts, ConstantTypes DEF StackPages
  <2>3. Sane
    BY <2>1, SaneSteps
  <2> QED
    BY <2>1, <2>2, <2>3 DEF TypeInv, TypeOK, PhaseInv
<1>k. cur' = cur /\ Own(cur, v) => Own(cur, v)'
  BY <1>t, OwnKept DEF Own, HasTable, SlotOf
<1>1. CASE UNCHANGED vars
  BY <1>1, <1>t, <1>k DEF MoveInv, vars
<1>2. CASE Next /\ MoveStackBegin
  BY <1>2, <1>t DEF MoveStackBegin, Loop
<1>3. CASE Next /\ op.kind = "movestack"
  <2>1. MoveStack /\ cur' = cur
    BY <1>3, MoveSteps DEF MoveStack
  <2>2. CASE op' = op
    BY <1>3, <1>t, <1>k, <2>1, <2>2 DEF MoveInv
  <2>3. CASE /\ op.v \in StackPages /\ HasTable(cur, op.v)
             /\ AllocFrame(SlotOf(cur, op.v)) /\ Loop("movestack", op.v - 1)
             /\ UNCHANGED dirVars
    <3>1. op'.v = op.v - 1 /\ op.v \in Nat /\ op.v \in Page
      BY <2>3, StackPageFacts DEF Loop
    <3>2. CASE v > op.v
      BY <1>3, <1>t, <1>k, <2>1, <3>2 DEF MoveInv
    <3>3. CASE v = op.v /\ pte[SlotOf(cur, v)].frame # 0
      <4>1. SlotOf(cur, v) \in Slot
        BY <1>t, <2>3, <3>3, SlotFacts
      <4>2. pte[SlotOf(cur, v)].present
        BY <1>t, <3>3, <4>1 DEF PageInv, PresentInv
      <4> QED
        BY <1>k, <2>1, <2>3, <3>3, <4>2 DEF Own
    <3>4. CASE v = op.v /\ pte[SlotOf(cur, v)].frame = 0
      <4>1. SlotOf(cur, v) \in Slot
        BY <1>t, <2>3, <3>4, SlotFacts
      <4>2. PICK f \in Frame \ used : pte'[SlotOf(cur, v)] = [frame |-> f, present |-> TRUE]
        BY <1>t, <2>3, <3>4, <4>1, SaneAlloc
      <4>3. 0 \in used
        BY <1>3, <1>t DEF PageInv, LowInv, Sane
      <4>4. pte'[SlotOf(cur, v)].present /\ pte'[SlotOf(cur, v)].frame # 0
        BY <4>2, <4>3
      <4>5. HasTable(cur, v)' /\ SlotOf(cur, v)' = SlotOf(cur, v)
        BY <2>1, <2>3, <3>4 DEF dirVars, HasTable, SlotOf
      <4> QED
        BY <4>4, <4>5 DEF Own
    <3> QED
      BY <1>t, <3>1, <3>2, <3>3, <3>4
  <2> QED
    BY <2>1, <2>2, <2>3 DEF MoveStack, Idle
<1> QED
  BY <1>1, <1>2, <1>3, <1>t, OpStarts

(* clone_directory starts with all of the parent's stack still to copy,    *)
(* into entries that are zero.                                             *)
LEMMA CloneInvBegin ==
    ASSUME PageInv, StackInv, Next, CloneBegin, Sane'
    PROVE  CloneInv'
<1>t. /\ LayoutInv /\ TypeInv /\ cur \in Dir /\ cur < nextDir /\ Sane /\ 0 \in Dir
      /\ nextDir \in Dir /\ nextDir # cur /\ nextTab \in Nat \ {0} /\ MaxTables \in Nat
      /\ tables \in [Dir -> [TableIdx -> 0..MaxTables]] /\ nextDir # 0
  <2>1. LayoutInv /\ TypeInv
    BY DEF PageInv, LayoutInv
  <2>2. /\ nextDir \in 1..(MaxDirs + 1) /\ nextDir <= MaxDirs /\ MaxDirs \in Nat
        /\ cur < nextDir /\ cur \in Dir
    BY <2>1, ConstantTypes DEF TypeInv, TypeOK, PhaseInv, CloneBegin
  <2>3. nextDir \in Dir /\ 0 \in Dir /\ nextDir # 0 /\ nextDir # cur
    BY <2>2 DEF Dir
  <2>4. Sane
    BY <2>1, SaneSteps
  <2> QED
    BY <2>1, <2>2, <2>3, <2>4, ConstantTypes DEF TypeInv, TypeOK
<1>0. PICK new \in Dir : new = nextDir
  BY <1>t
<1>1. /\ tables' = [tables EXCEPT ![nextDir] = ClonedTables(cur)]
      /\ op' = [kind |-> "clone", src |-> cur, dst |-> nextDir, todo |-> PagesToClone(cur)]
      /\ op = Idle /\ pte' = pte
      /\ cur = 0 \/ HasTable(cur, StackTop)
  BY DEF CloneBegin, frameVars
<1>2. op'.src = cur /\ op'.dst = new /\ op'.todo = PagesToClone(cur) /\ cur' = cur
      /\ tables'[new] = ClonedTables(cur) /\ tables'[cur] = tables[cur]
  BY <1>0, <1>1, <1>t DEF CloneBegin
<1>3. /\ \A t \in TableIdx \ Private(cur) : ClonedTables(cur)[t] = tables[cur][t]
      /\ \A t \in Private(cur) : ClonedTables(cur)[t] >= nextTab
  <2>1. /\ Cardinality(Private(cur)) \in Nat
        /\ \A t \in TableIdx \ Private(cur) : ClonedTables(cur)[t] = tables[cur][t]
        /\ \A t \in Private(cur) :
              ClonedTables(cur)[t] \in nextTab..(nextTab + Cardinality(Private(cur)) - 1)
    BY <1>t, CloneFacts
  <2> QED
    BY <1>t, <2>1
<1>4. \A v \in StackPages : v \div TableSpan \in TableIdx
                            /\ tables[0][v \div TableSpan] = NoTable
  BY <1>t, StackPageFacts, StackNotKernel DEF HasTable
<1>5. ASSUME cur = 0 PROVE ~HasTable(new, StackTop)'
  <2>1. StackTop \in StackPages /\ StackTop \div TableSpan \notin Private(cur)
    BY <1>5 DEF Private, StackPages
  <2>2. ClonedTables(cur)[StackTop \div TableSpan] = NoTable
    BY <1>3, <1>4, <1>5, <2>1
  <2> QED
    BY <1>2, <2>2 DEF HasTable
<1>6. ASSUME cur # 0
      PROVE  HasStack(cur) /\ \A v \in StackPages : v \in PagesToClone(cur)
  <2>1. cur \in 1..(nextDir - 1)
    BY <1>t, <1>6 DEF Dir
  <2>2. HasStack(cur)
    BY <1>1, <1>t, <1>6, <2>1 DEF StackInv, Idle
  <2>3. ASSUME NEW v \in StackPages PROVE v \in PagesToClone(cur)
    <3>1. Own(cur, v) /\ v \in Page
      BY <2>2, StackPageFacts DEF HasStack
    <3>2. v \div TableSpan \in Private(cur)
      BY <1>4, <3>1 DEF Own, HasTable, Private
    <3> QED
      BY <3>1, <3>2 DEF Own, PagesToClone
  <2> QED
    BY <2>2, <2>3
<1>7. ASSUME cur # 0 PROVE HasStack(cur)'
  <2> SUFFICES ASSUME NEW v \in StackPages PROVE Own(cur, v)'
    BY DEF HasStack
  <2>1. Own(cur, v) /\ v \in Page
    BY <1>6, <1>7, StackPageFacts DEF HasStack
  <2>2. HasTable(cur, v) /\ pte[SlotOf(cur, v)].present /\ pte[SlotOf(cur, v)].frame # 0
    BY <2>1 DEF Own
  <2> QED
    BY <1>1, <1>2, <2>2 DEF Own, HasTable, SlotOf
<1>8. ASSUME NEW v \in PagesToClone(cur)
      PROVE  pte'[SlotOf(new, v)'].frame = 0
  <2>1. v \in Page /\ v \div TableSpan \in Private(cur)
    BY DEF PagesToClone
  <2>2. v \div TableSpan \in TableIdx /\ v % TableSpan \in 0..(TableSpan - 1)
    BY <2>1, PageFacts
  <2>3. tables'[new][v \div TableSpan] \in 0..MaxTables
    <3>1. TypeInv'
      BY <1>t, TypeInvStep
    <3>2. tables' \in [Dir -> [TableIdx -> 0..MaxTables]]
      BY <3>1 DEF TypeInv, TypeOK
    <3> QED
      BY <1>t, <2>2, <3>2
  <2>4. tables'[new][v \div TableSpan] >= nextTab
    BY <1>2, <1>3, <2>1
  <2>5. SlotOf(new, v)' = <<tables'[new][v \div TableSpan], v % TableSpan>>
    BY DEF SlotOf
  <2> DEFINE n == tables'[new][v \div TableSpan]
             s == <<n, v % TableSpan>>
  <2>6. n \in 1..MaxTables /\ n >= nextTab
    BY <1>t, <2>3, <2>4
  <2> HIDE DEF n
  <2>7. s \in Slot /\ s[1] >= nextTab
    BY <2>2, <2>6 DEF Slot
  <2>8. pte[s] = [frame |-> 0, present |-> FALSE]
    BY <2>7 DEF PageInv, FreshInv
  <2> QED
    BY <1>1, <2>5, <2>8 DEF n
<1> QED
  BY <1>2, <1>5, <1>6, <1>7, <1>8 DEF CloneInv

(* One turn of the loop in clone_table.                                    *)
LEMMA CloneInvPage ==
    ASSUME PageInv, CloneInv, Next, ClonePage, Sane'
    PROVE  CloneInv'
<1> DEFINE w == Min(op.todo)
<1>t. /\ LayoutInv /\ TypeInv /\ TodoInv /\ PhaseInv /\ Sane /\ op.kind = "clone"
      /\ op \in [kind : {"clone"}, src : Dir, dst : Dir, todo : SUBSET Page]
      /\ cur < nextDir /\ nextDir \in Nat /\ data \in [Frame -> Data]
  <2>1. LayoutInv /\ TypeInv /\ TodoInv /\ op.kind = "clone"
    BY DEF PageInv, LayoutInv, ClonePage
  <2>2. Sane
    BY <2>1, SaneSteps
  <2>3. op \in [kind : {"clone"}, src : Dir, dst : Dir, todo : SUBSET Page]
    BY <2>1, ShapeFacts DEF TypeInv
  <2> QED
    BY <2>1, <2>2, <2>3 DEF TypeInv, TypeOK, PhaseInv
<1>0. PICK src \in Dir, dst \in Dir :
         src = op.src /\ dst = op.dst /\ src < nextDir /\ dst < nextDir
  <2>1. op.src \in Dir /\ op.dst \in Dir /\ op.src = cur /\ op.dst < nextDir
    BY <1>t DEF PhaseInv
  <2> QED
    BY <1>t, <2>1
<1>1. /\ AllocFrame(SlotOf(dst, w)) /\ tables' = tables /\ op.todo # {}
      /\ data' = [data EXCEPT ![pte'[SlotOf(dst, w)].frame] = data[pte[SlotOf(src, w)].frame]]
      /\ op' = [op EXCEPT !.todo = @ \ {w}]
  BY <1>0 DEF ClonePage, CopyPagePhysical, dirVars
<1>2. op'.src = src /\ op'.dst = dst /\ op'.todo = op.todo \ {w} /\ op'.kind = "clone"
  BY <1>0, <1>1, <1>t
<1>3. w \in op.todo
  <2>1. op.todo \subseteq Nat
    BY <1>t, PageFacts
  <2> QED
    BY <1>1, <2>1, MinFacts
<1> HIDE DEF w
<1>4. w \in Page /\ HasTable(dst, w)
  BY <1>0, <1>3, <1>t DEF TodoInv
<1>5. SlotOf(dst, w) \in Slot /\ pte[SlotOf(dst, w)].frame = 0
  BY <1>0, <1>3, <1>4, <1>t, SlotFacts DEF CloneInv
<1>6. PICK f \in Frame \ used : pte'[SlotOf(dst, w)] = [frame |-> f, present |-> TRUE]
  BY <1>1, <1>5, <1>t, SaneAlloc
<1>7. f # 0
  BY <1>t DEF PageInv, LowInv, Sane
<1>8. /\ data'[f] = data[pte[SlotOf(src, w)].frame]
      /\ \A g \in used : data'[g] = data[g]
  <2>1. used \subseteq Frame
    BY <1>t DEF TypeInv, TypeOK
  <2> QED
    BY <1>1, <1>6, <1>t, <2>1
<1>9. \A d, v : SlotOf(d, v)' = SlotOf(d, v) /\ HasTable(d, v)' = HasTable(d, v)
  BY <1>1 DEF SlotOf, HasTable
<1>10. ASSUME NEW d \in Dir, d < nextDir, NEW v \in StackPages, Own(d, v)
       PROVE  /\ Own(d, v)' /\ pte'[SlotOf(d, v)] = pte[SlotOf(d, v)]
              /\ pte[SlotOf(d, v)].frame \in used
  <2>1. v \in Page
    BY StackPageFacts
  <2>2. SlotOf(d, v) \in Slot
    BY <1>10, <1>t, <2>1, SlotFacts DEF Own
  <2>3. pte[SlotOf(d, v)].frame \in used
    BY <1>10, <1>t, <2>2 DEF Own, PageInv, PresentInv
  <2> QED
    BY <1>10, <1>t, <2>1, <2>3, OwnKept
<1>11. ASSUME src = 0 PROVE ~HasTable(dst, StackTop)'
  BY <1>0, <1>9, <1>11, <1>t DEF CloneInv
<1>12. ASSUME src # 0 PROVE HasStack(src)'
  BY <1>0, <1>10, <1>12, <1>t DEF CloneInv, HasStack
<1>13. ASSUME src # 0, NEW v \in StackPages, v \notin op'.todo
       PROVE  /\ Own(dst, v)'
              /\ data'[pte'[SlotOf(dst, v)].frame] = data'[pte'[SlotOf(src, v)].frame]
  <2>1. Own(src, v)
    BY <1>0, <1>13, <1>t DEF CloneInv, HasStack
  <2>2. pte'[SlotOf(src, v)] = pte[SlotOf(src, v)] /\ pte[SlotOf(src, v)].frame \in used
    BY <1>0, <1>10, <2>1
  <2>3. CASE v = w
    <3>1. pte'[SlotOf(dst, v)].frame = f /\ pte'[SlotOf(dst, v)].present
      BY <1>6, <2>3
    <3>2. Own(dst, v)'
      BY <1>4, <1>7, <1>9, <2>3, <3>1 DEF Own
    <3> QED
      BY <1>8, <2>2, <2>3, <3>1, <3>2
  <2>4. CASE v # w
    <3>1. v \notin op.todo
      BY <1>2, <1>13, <2>4
    <3>2. Own(dst, v) /\ data[pte[SlotOf(dst, v)].frame] = data[pte[SlotOf(src, v)].frame]
      BY <1>0, <1>13, <1>t, <3>1 DEF CloneInv, Copied
    <3>3. /\ Own(dst, v)' /\ pte'[SlotOf(dst, v)] = pte[SlotOf(dst, v)]
          /\ pte[SlotOf(dst, v)].frame \in used
      BY <1>0, <1>10, <3>2
    <3> QED
      BY <1>8, <2>2, <3>2, <3>3
  <2> QED
    BY <2>3, <2>4
<1>14. ASSUME NEW v \in op.todo, v # w PROVE pte'[SlotOf(dst, v)].frame = 0
  <2>1. v \in Page /\ HasTable(dst, v) /\ pte[SlotOf(dst, v)].frame = 0
    BY <1>0, <1>t DEF TodoInv, CloneInv
  <2>2. SlotOf(dst, v) \in Slot
    BY <1>t, <2>1, SlotFacts
  <2>3. SlotOf(dst, v) # SlotOf(dst, w)
    BY <1>4, <1>14, <1>t, <2>1, SlotsDistinct DEF LayoutInv
  <2>4. pte'[SlotOf(dst, v)] = pte[SlotOf(dst, v)]
    BY <1>1, <1>t, <2>2, <2>3, SaneAlloc
  <2> QED
    BY <2>1, <2>4
<1>15. \A v \in op'.todo : pte'[SlotOf(dst, v)'].frame = 0
  BY <1>2, <1>9, <1>14
<1>16. src # 0 => \A v \in StackPages \ op'.todo :
          Own(dst, v)' /\ data'[pte'[SlotOf(dst, v)'].frame] = data'[pte'[SlotOf(src, v)'].frame]
  BY <1>9, <1>13
<1> QED
  BY <1>2, <1>11, <1>12, <1>15, <1>16 DEF CloneInv, Copied

(* clone_table gives each page it copies a new frame with the contents of  *)
(* the old one.                                                            *)
LEMMA CloneInvStep == PageInv /\ StackInv /\ CloneInv /\ [Next]_vars => CloneInv'
<1> SUFFICES ASSUME PageInv, StackInv, CloneInv, [Next]_vars PROVE CloneInv'
  OBVIOUS
<1>k. ~Sane' \/ op'.kind # "clone" => CloneInv'
  BY DEF CloneInv
<1>1. CASE UNCHANGED vars
  BY <1>1 DEF vars, frameVars, dirVars, CloneInv, Copied, HasStack, Own, Sane, HasTable, SlotOf
<1>2. CASE Next /\ op.kind = "clone" /\ Sane'
  <2>1. ClonePage \/ CloneEnd
    BY <1>2, CloneSteps
  <2>2. CASE CloneEnd
    BY <1>k, <2>2 DEF CloneEnd, Idle
  <2> QED
    BY <1>2, <2>1, <2>2, CloneInvPage
<1>3. CASE Next /\ CloneBegin /\ Sane'
  BY <1>3, CloneInvBegin
<1>4. TypeInv
  BY DEF PageInv, LayoutInv
<1> QED
  BY <1>k, <1>1, <1>2, <1>3, <1>4, OpStarts

(* A directory with a stack table has a whole stack, unless the stack is   *)
(* being moved or copied.                                                  *)
LEMMA StackInvStep ==
    PageInv /\ StackInv /\ MoveInv /\ CloneInv /\ [Next]_vars => StackInv'
<1> SUFFICES ASSUME PageInv, StackInv, MoveInv, CloneInv, [Next]_vars, Sane',
                    NEW d \in 1..(nextDir' - 1), HasTable(d, StackTop)'
             PROVE  \/ HasStack(d)'
                    \/ op'.kind = "movestack" /\ d = cur'
                    \/ op'.kind = "clone" /\ d = op'.dst
  BY DEF StackInv
<1>t. /\ LayoutInv /\ TypeInv /\ Sane /\ PhaseInv /\ cur \in Dir /\ cur < nextDir
      /\ nextDir \in 1..(MaxDirs + 1) /\ MaxDirs \in Nat
      /\ tables \in [Dir -> [TableIdx -> 0..MaxTables]]
  <2>1. LayoutInv /\ TypeInv
    BY DEF PageInv, LayoutInv
  <2>2. Sane
    BY <2>1, SaneSteps
  <2> QED
    BY <2>1, <2>2, ConstantTypes DEF TypeInv, TypeOK, PhaseInv
<1>k. ASSUME d \in 1..(nextDir - 1), HasStack(d) PROVE HasStack(d)'
  <2> SUFFICES ASSUME NEW v \in StackPages PROVE Own(d, v)'
    BY DEF HasStack
  <2>1. Own(d, v) /\ v \in Page /\ d \in Dir /\ d < nextDir
    BY <1>k, <1>t, StackPageFacts DEF HasStack, Dir
  <2> QED
    BY <1>t, <2>1, OwnKept
<1>1. CASE UNCHANGED vars
  <2>1. d \in 1..(nextDir - 1) /\ HasTable(d, StackTop)
    BY <1>1 DEF vars, dirVars, HasTable
  <2> QED
    BY <1>1, <1>k, <1>t, <2>1 DEF StackInv, vars
<1>2. CASE Next /\ op.kind = "movestack"
  <2>1. MoveStack /\ cur' = cur
    BY <1>2, MoveSteps DEF MoveStack
  <2>2. CASE op'.kind = "movestack" /\ d = cur
    BY <2>1, <2>2
  <2>3. CASE op' = Idle /\ d = cur /\ op.v \notin StackPages /\ UNCHANGED dirVars
    <3>1. op.v = StackTop - 2 /\ StackTop \in Nat
      <4>1. op.v \in (StackTop - 2)..StackTop /\ StackTop \in Nat
        BY <1>2, <1>t, ShapeFacts, ConstantTypes DEF TypeInv
      <4> QED
        BY <2>3, <4>1 DEF StackPages
    <3>2. \A v \in StackPages : v > op.v
      BY <3>1 DEF StackPages
    <3>3. HasStack(d) /\ d \in 1..(nextDir - 1)
      BY <1>2, <1>t, <2>3, <3>2 DEF MoveInv, HasStack, dirVars
    <3> QED
      BY <1>k, <3>3
  <2>4. CASE d # cur
    <3>1. nextDir' = nextDir /\ d \in Dir /\ d \in 1..(nextDir - 1)
      BY <1>t, <2>1 DEF MoveStack, NewTable, dirVars, Dir
    <3>2. tables'[d] = tables[d]
      BY <1>t, <2>1, <2>4, <3>1 DEF MoveStack, NewTable, dirVars
    <3>3. HasTable(d, StackTop)
      BY <3>2 DEF HasTable
    <3> QED
      BY <1>2, <1>k, <1>t, <2>4, <3>1, <3>3 DEF StackInv
  <2> QED
    BY <1>2, <2>1, <2>2, <2>3, <2>4 DEF MoveStack, Loop
<1>3. CASE Next /\ op.kind = "clone"
  <2>1. UNCHANGED dirVars /\ (ClonePage \/ CloneEnd)
    BY <1>3, CloneSteps DEF ClonePage, CloneEnd
  <2>2. d \in 1..(nextDir - 1) /\ HasTable(d, StackTop)
    BY <2>1 DEF dirVars, HasTable
  <2>3. CASE d = op.dst /\ ClonePage
    BY <1>3, <1>t, <2>3, ShapeFacts DEF ClonePage, TypeInv
  <2>4. CASE d = op.dst /\ CloneEnd
    <3>1. op.todo = {} /\ op.src # 0
      BY <1>3, <1>t, <2>2, <2>4 DEF CloneEnd, CloneInv
    <3>2. HasStack(d)
      BY <1>3, <1>t, <2>4, <3>1 DEF CloneInv, Copied, HasStack
    <3> QED
      BY <1>k, <2>2, <3>2
  <2>5. CASE d # op.dst
    BY <1>3, <1>k, <1>t, <2>2, <2>5 DEF StackInv
  <2> QED
    BY <2>1, <2>3, <2>4, <2>5
<1>4. CASE Next /\ CloneBegin
  <2>1. /\ nextDir' = nextDir + 1 /\ op'.kind = "clone" /\ op'.dst = nextDir /\ op = Idle
        /\ tables' = [tables EXCEPT ![nextDir] = ClonedTables(cur)]
    BY <1>4 DEF CloneBegin
  <2>2. CASE d = nextDir
    BY <2>1, <2>2
  <2>3. CASE d # nextDir
    <3>1. d \in 1..(nextDir - 1) /\ d \in Dir
      <4>1. nextDir <= MaxDirs
        BY <1>4 DEF CloneBegin
      <4> QED
        BY <1>t, <2>1, <2>3, <4>1 DEF Dir
    <3>2. tables'[d] = tables[d]
      BY <1>t, <2>1, <2>3, <3>1
    <3>3. HasTable(d, StackTop)
      BY <3>2 DEF HasTable
    <3> QED
      BY <1>k, <1>t, <2>1, <3>1, <3>3 DEF StackInv, Idle
  <2> QED
    BY <2>2, <2>3
<1>5. CASE Next /\ ~CloneBegin /\ op.kind \notin {"clone", "movestack"}
  <2>1. UNCHANGED dirVars \/ (NewTable(0, op.v) /\ nextDir = 1)
    BY <1>5, <1>t, TableSteps DEF PhaseInv, Booting
  <2>2. UNCHANGED dirVars
    BY <1>t, <2>1 DEF NewTable
  <2>3. d \in 1..(nextDir - 1) /\ HasTable(d, StackTop)
    BY <2>2 DEF dirVars, HasTable
  <2> QED
    BY <1>5, <1>k, <1>t, <2>3 DEF StackInv
<1> QED
  BY <1>1, <1>2, <1>3, <1>4, <1>5

-----------------------------------------------------------------------------
(* The theorems.                                                           *)

StacksInv == PageInv /\ StackInv /\ MoveInv /\ CloneInv

(* The invariants of the stacks hold before boot.                          *)
LEMMA StacksInvInit == Init => StacksInv
<1> SUFFICES ASSUME Init PROVE StacksInv
  OBVIOUS
<1>1. NullSlot \notin Slot
  BY PagingAssumption DEF NullSlot, Slot, NoTable
<1>2. /\ op.kind = "boot" /\ used = {} /\ nextDir = 1
      /\ \A s \in Slot : pte[s] = [frame |-> 0, present |-> FALSE]
  BY <1>1 DEF Init
<1>3. LowInv
  BY <1>2 DEF LowInv, IdentityMapped
<1>4. FreshInv /\ PresentInv
  BY <1>2 DEF FreshInv, PresentInv
<1>5. StackInv /\ MoveInv /\ CloneInv
  BY <1>2 DEF StackInv, MoveInv, CloneInv
<1> QED
  BY <1>3, <1>4, <1>5, LayoutInvInit DEF StacksInv, PageInv

(* Every step keeps the invariants of the stacks.                          *)
LEMMA StacksInvStep == StacksInv /\ [Next]_vars => StacksInv'
<1> SUFFICES ASSUME StacksInv, [Next]_vars PROVE StacksInv'
  OBVIOUS
<1>1. /\ LayoutInv /\ TypeInv /\ LowInv /\ FreshInv /\ PresentInv /\ PageInv
      /\ StackInv /\ MoveInv /\ CloneInv
  BY DEF StacksInv, PageInv, LayoutInv
<1>2. PageInv'
  BY <1>1, LayoutInvStep, LowInvStep, FreshInvStep, PresentInvStep DEF PageInv
<1> QED
  BY <1>1, <1>2, StackInvStep, MoveInvStep, CloneInvStep DEF StacksInv

(***************************************************************************)
(* When clone_directory is done for a fork, the child's stack has the      *)
(* parent's contents, page for page, in frames that are not the parent's,  *)
(* however many frames, tables and forks there were before.                *)
(***************************************************************************)
THEOREM ForkCopiesStack == Spec => []StackCloned
<1>1. StacksInv => StackCloned
  <2> SUFFICES ASSUME StacksInv, Sane, op.kind = "clone", op.todo = {}, op.src # 0
               PROVE  /\ StackOf(op.dst) = StackOf(op.src)
                      /\ \A v \in StackPages : pte[SlotOf(op.dst, v)].present
                      /\ \A v, w \in StackPages :
                            pte[SlotOf(op.dst, v)].frame # pte[SlotOf(op.src, w)].frame
    BY DEF StackCloned
  <2>1. HasStack(op.src) /\ \A v \in StackPages : Copied(v)
    BY DEF StacksInv, CloneInv
  <2>2. op.src \in Dir /\ op.dst \in Dir /\ op.src # op.dst
    <3>1. ShapeInv /\ PhaseInv
      BY DEF StacksInv, PageInv, LayoutInv, TypeInv
    <3> QED
      BY <3>1, ShapeFacts DEF PhaseInv
  <2>3. \A v, w \in StackPages :
           pte[SlotOf(op.dst, v)].frame # pte[SlotOf(op.src, w)].frame
    BY <2>1, <2>2, StacksApart DEF StacksInv, PageInv, HasStack, Copied, Own
  <2> QED
    BY <2>1, <2>3 DEF Copied, Own, StackOf
<1> QED
  BY <1>1, StacksInvInit, StacksInvStep, PTL DEF Spec

(* A stack keeps its pages, and its contents if no data changes in them.   *)
LEMMA StackKept ==
    ASSUME LayoutInv, [Next]_vars, Sane', NEW d \in Dir, d < nextDir, HasStack(d),
           \A w \in StackPages :
              data'[pte[SlotOf(d, w)].frame] = data[pte[SlotOf(d, w)].frame]
    PROVE  StackOf(d)' = StackOf(d)
<1>1. ASSUME NEW w \in StackPages
      PROVE  pte'[SlotOf(d, w)'] = pte[SlotOf(d, w)]
  <2>1. w \in Page /\ Own(d, w)
    BY StackPageFacts DEF HasStack
  <2> QED
    BY <2>1, OwnKept
<1> QED
  BY <1>1 DEF StackOf

(* A frame of one directory's stack is in no other directory's stack.      *)
LEMMA FrameElsewhere ==
    ASSUME LayoutInv, PresentInv, Sane, NEW d \in Dir, NEW e \in Dir, d # e,
           HasStack(d), NEW w \in StackPages,
           NEW v \in StackPages, HasTable(e, v), pte[SlotOf(e, v)].present
    PROVE  /\ pte[SlotOf(d, w)].frame # pte[SlotOf(e, v)].frame
           /\ pte[SlotOf(d, w)].frame \in Frame
<1>1. HasTable(d, w) /\ pte[SlotOf(d, w)].present /\ w \in Page
  BY StackPageFacts DEF HasStack, Own
<1>2. TypeInv
  BY DEF LayoutInv
<1>3. SlotOf(d, w) \in Slot
  BY <1>1, <1>2, SlotFacts
<1> QED
  BY <1>1, <1>2, <1>3, StacksApart DEF TypeInv

(* A frame that alloc_frame gives to clone_table is in no stack yet.       *)
LEMMA CloneTarget ==
    ASSUME StacksInv, Next, ClonePage, Sane', NEW d \in Dir, HasStack(d)
    PROVE  \A w \in StackPages :
              data'[pte[SlotOf(d, w)].frame] = data[pte[SlotOf(d, w)].frame]
<1> DEFINE m == Min(op.todo)
<1>t. /\ LayoutInv /\ TypeInv /\ TodoInv /\ Sane /\ op.kind = "clone"
      /\ PresentInv /\ CloneInv /\ data \in [Frame -> Data] /\ used \subseteq Frame
      /\ op \in [kind : {"clone"}, src : Dir, dst : Dir, todo : SUBSET Page]
  <2>1. LayoutInv /\ TypeInv /\ TodoInv /\ op.kind = "clone" /\ PresentInv /\ CloneInv
    BY DEF StacksInv, PageInv, LayoutInv, ClonePage
  <2>2. op \in [kind : {"clone"}, src : Dir, dst : Dir, todo : SUBSET Page]
    BY <2>1, ShapeFacts DEF TypeInv
  <2>3. Sane
    BY <2>1, SaneSteps
  <2> QED
    BY <2>1, <2>2, <2>3 DEF TypeInv, TypeOK
<1>1. /\ AllocFrame(SlotOf(op.dst, m)) /\ op.todo # {}
      /\ data' = [data EXCEPT ![pte'[SlotOf(op.dst, m)].frame] =
                                data[pte[SlotOf(op.src, m)].frame]]
  BY DEF ClonePage, CopyPagePhysical
<1>2. m \in op.todo
  <2>1. op.todo \subseteq Nat
    BY <1>t, PageFacts
  <2> QED
    BY <1>1, <2>1, MinFacts
<1> HIDE DEF m
<1>3. SlotOf(op.dst, m) \in Slot /\ pte[SlotOf(op.dst, m)].frame = 0
  <2>1. m \in Page /\ HasTable(op.dst, m) /\ op.dst \in Dir
    BY <1>2, <1>t DEF TodoInv
  <2> QED
    BY <1>2, <1>t, <2>1, SlotFacts DEF CloneInv
<1>4. PICK f \in Frame \ used : pte'[SlotOf(op.dst, m)] = [frame |-> f, present |-> TRUE]
  BY <1>1, <1>3, <1>t, SaneAlloc
<1>5. \A g \in used : data'[g] = data[g]
  BY <1>1, <1>4, <1>t
<1> SUFFICES ASSUME NEW w \in StackPages PROVE pte[SlotOf(d, w)].frame \in used
  BY <1>5
<1>6. HasTable(d, w) /\ pte[SlotOf(d, w)].present /\ w \in Page
  BY StackPageFacts DEF HasStack, Own
<1>7. SlotOf(d, w) \in Slot
  BY <1>6, <1>t, SlotFacts
<1> QED
  BY <1>6, <1>7, <1>t DEF PresentInv

(* What move_stack copies goes into the stack of the current directory.    *)
LEMMA MoveTarget ==
    ASSUME StacksInv, Next, MoveStack, Sane', NEW d \in Dir, d # cur, HasStack(d)
    PROVE  \A w \in StackPages :
              data'[pte[SlotOf(d, w)].frame] = data[pte[SlotOf(d, w)].frame]
<1>t. /\ LayoutInv /\ TypeInv /\ Sane /\ op.kind = "movestack"
      /\ PresentInv /\ MoveInv /\ cur \in Dir
  <2>1. LayoutInv /\ TypeInv /\ op.kind = "movestack" /\ PresentInv /\ MoveInv
    BY DEF StacksInv, PageInv, LayoutInv, MoveStack
  <2>2. Sane
    BY <2>1, SaneSteps
  <2> QED
    BY <2>1, <2>2 DEF TypeInv, TypeOK
<1>1. CASE data' = data
  BY <1>1
<1>2. CASE op.v \notin StackPages /\ \E c \in Data : data' = [f \in Frame |->
              IF \E v \in StackPages : pte[SlotOf(cur, v)].frame = f
              THEN c ELSE data[f]]
  <2>1. op.v \in (StackTop - 2)..StackTop /\ StackTop \in Nat
    BY <1>t, ShapeFacts, ConstantTypes DEF TypeInv
  <2>2. \A v \in StackPages : v > op.v
    BY <1>2, <2>1 DEF StackPages
  <2>3. \A v \in StackPages : HasTable(cur, v) /\ pte[SlotOf(cur, v)].present
    BY <1>t, <2>2 DEF MoveInv, Own
  <2>4. \A w, v \in StackPages : /\ pte[SlotOf(d, w)].frame # pte[SlotOf(cur, v)].frame
                                 /\ pte[SlotOf(d, w)].frame \in Frame
    BY <1>t, <2>3, FrameElsewhere
  <2> QED
    BY <1>2, <2>4
<1> QED
  BY <1>1, <1>2 DEF MoveStack

(* What the running task writes to is in no other task's stack.            *)
LEMMA WriteTarget ==
    ASSUME StacksInv, Sane, NEW v \in StackPages, NEW c \in Data, WriteStack(v, c),
           NEW d \in Dir, d # cur, HasStack(d)
    PROVE  \A w \in StackPages :
              data'[pte[SlotOf(d, w)].frame] = data[pte[SlotOf(d, w)].frame]
<1>t. /\ LayoutInv /\ PresentInv /\ cur \in Dir /\ data \in [Frame -> Data]
      /\ HasTable(cur, v) /\ pte[SlotOf(cur, v)].present
      /\ data' = [data EXCEPT ![pte[SlotOf(cur, v)].frame] = c]
  BY DEF StacksInv, PageInv, LayoutInv, TypeInv, TypeOK, WriteStack
<1>1. \A w \in StackPages : /\ pte[SlotOf(d, w)].frame # pte[SlotOf(cur, v)].frame
                            /\ pte[SlotOf(d, w)].frame \in Frame
  BY <1>t, FrameElsewhere
<1> QED
  BY <1>1, <1>t

(***************************************************************************)
(* While no frame was freed and memory lasted, no step, of whatever        *)
(* operation, changes a stack other than that of the running task, or, in  *)
(* clone_directory, that of the directory being filled.                    *)
(***************************************************************************)
THEOREM StacksStayIsolated == Spec => StacksIsolated
<1>1. StacksInv /\ [Next]_vars =>
         [Sane' => \A d \in 1..(nextDir - 1) :
            d # Changing /\ HasTable(d, StackTop) => StackOf(d)' = StackOf(d)]_vars
  <2> SUFFICES ASSUME StacksInv, Next, Sane', NEW d \in 1..(nextDir - 1),
                      d # Changing, HasTable(d, StackTop)
               PROVE  StackOf(d)' = StackOf(d)
    OBVIOUS
  <2>t. TypeInv /\ LayoutInv /\ Sane /\ d \in Dir /\ d < nextDir
    <3>1. TypeInv /\ LayoutInv
      BY DEF StacksInv, PageInv, LayoutInv
    <3>2. nextDir \in 1..(MaxDirs + 1) /\ MaxDirs \in Nat
      BY <3>1, ConstantTypes DEF TypeInv, TypeOK
    <3>3. d \in Dir /\ d < nextDir
      BY <3>2 DEF Dir
    <3>4. Sane
      BY <3>1, SaneSteps
    <3> QED
      BY <3>1, <3>3, <3>4
  <2>1. HasStack(d)
    BY <2>t DEF StacksInv, StackInv, Changing
  <2> SUFFICES ASSUME NEW w \in StackPages
               PROVE  data'[pte[SlotOf(d, w)].frame] = data[pte[SlotOf(d, w)].frame]
    BY <2>t, <2>1, StackKept
  <2>2. CASE BootAlloc \/ BootHeapTable \/ BootIdentity \/ BootHeapPage
    BY <2>2 DEF BootAlloc, BootHeapTable, BootIdentity, BootHeapPage
  <2>3. CASE \/ \E n \in Requests : ExpandBegin(n)
             \/ Expand
             \/ \E n \in Offsets : ContractBegin(n)
             \/ Contract
    BY <2>3 DEF ExpandBegin, Expand, ContractBegin, Contract
  <2>4. CASE CloneBegin \/ CloneEnd \/ MoveStackBegin \/ (\E e \in Dir : SwitchDirectory(e))
    BY <2>4 DEF CloneBegin, CloneEnd, MoveStackBegin, SwitchDirectory
  <2>5. CASE ClonePage
    BY <2>1, <2>5, <2>t, CloneTarget
  <2>6. CASE MoveStack
    <3>1. d # cur
      BY <2>6 DEF MoveStack, Changing
    <3> QED
      BY <2>1, <2>6, <2>t, <3>1, MoveTarget
  <2>7. CASE \E v \in StackPages, c \in Data : WriteStack(v, c)
    <3>1. d # cur
      BY <2>7 DEF WriteStack, Changing, Idle
    <3> QED
      BY <2>1, <2>7, <2>t, <3>1, WriteTarget
  <2> QED
    BY <2>2, <2>3, <2>4, <2>5, <2>6, <2>7 DEF Next
<1> QED
  BY <1>1, StacksInvInit, StacksInvStep, PTL DEF Spec, StacksIsolated

=============================================================================

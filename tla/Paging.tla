------------------------------- MODULE Paging -------------------------------
(***************************************************************************)
(* Physical frames, page tables and page directories: cpu/paging.c, the    *)
(* page side of the kernel heap (expand and contract of cpu/kheap.c), the  *)
(* placement allocator used before the heap exists, and move_stack of      *)
(* cpu/task.c.                                                             *)
(*                                                                         *)
(* Virtual pages are numbered; page v is entry v % TableSpan of table      *)
(* v \div TableSpan.  A page table entry is a slot <<table, entry>>, so    *)
(* that a table shared by two directories is one set of slots.  Directory  *)
(* 0 is kernel_directory.  Tasking masks interrupts around everything here *)
(* (initialise_tasking, fork), so the operations do not interleave; their  *)
(* loops are steps, driven by op.                                          *)
(***************************************************************************)
EXTENDS Integers, FiniteSets, FiniteSetsExt

CONSTANTS
    NFrames,      \* nframes
    PageSize,     \* 0x1000
    TableSpan,    \* entries of a page table, 1024
    Placement,    \* the placement_address the kernel starts with
    BitmapSize,   \* bytes of the frame bitmap, nframes / 8
    DirSize,      \* sizeof(page_directory_t), two pages and a word
    HeapTSize,    \* sizeof(heap_t)
    HeapBase,     \* the page of KHEAP_START
    IndexPages,   \* pages of the heap's index, before heap->start_address
    InitPages,    \* pages of KHEAP_INITIAL_SIZE
    HeapMin,      \* HEAP_MIN_SIZE
    HeapMax,      \* max_address - start_address
    Requests,     \* by how much alloc() asks expand() to grow the heap
    Offsets,      \* the sizes free() asks contract() to shrink the heap to
    StackTop,     \* the page of 0xE0000000
    MaxDirs,      \* a bound on the directories fork() makes
    MaxTables,    \* a bound on the page tables those need
    Data,         \* contents of a stack page
    Garbage       \* frame fields that the word at address 0 may hold

(* What clear_frame divides an address by.  It is not scaled with PageSize: *)
(* frame numbers stay below it, as nframes = 0x1000 makes them.  The field *)
(* at address 0, which holds anything, need not.                           *)
FrameBytes == 4096

ASSUME PagingAssumption ==
    /\ NFrames <= FrameBytes /\ NFrames \in Nat \ {0} /\ PageSize \in Nat \ {0} /\ TableSpan \in Nat \ {0}
    /\ {Placement, BitmapSize, DirSize, HeapTSize, HeapBase, HeapMin, HeapMax,
        IndexPages, InitPages, StackTop, MaxDirs, MaxTables} \subseteq Nat
    /\ IndexPages < InitPages /\ StackTop > HeapBase + InitPages
    /\ Requests \subseteq Nat \ {0} /\ Offsets \subseteq Nat
    /\ Data # {} /\ Garbage \subseteq Nat

VARIABLES
    used,       \* the frames bitmap
    pte,        \* frame and present bit of every slot
    tables,     \* the tables[] of every directory, NoTable where not made
    nextTab,    \* the next table to be allocated
    nextDir,    \* the next directory to be allocated
    cur,        \* current_directory
    placement,  \* placement_address
    heapLen,    \* heap->end_address - heap->start_address
    data,       \* the contents of every frame
    op,         \* the operation under way and its loop variables
    exhausted,  \* history: alloc_frame has found no free frame
    freed       \* history: the frames that free_frame marked as free

frameVars == <<used, pte, exhausted>>
dirVars == <<tables, nextTab, nextDir>>
vars == <<frameVars, dirVars, cur, placement, heapLen, data, op, freed>>

Frame == 0..(NFrames - 1)
Dir == 0..MaxDirs
TableIdx == 0..(StackTop \div TableSpan)
Page == 0..((StackTop \div TableSpan) * TableSpan + TableSpan - 1)
NoTable == 0
NullSlot == <<NoTable, 0>>
Slot == (1..MaxTables) \X (0..(TableSpan - 1))
StackPages == {StackTop, StackTop - 1}
HeapStart == HeapBase + IndexPages

(***************************************************************************)
(* The layout of the kernel's memory, in the order of its addresses: what  *)
(* kmalloc places before the heap exists (up to two pages for each of the  *)
(* tables of the boot), the heap however far it grows, and, in tables of   *)
(* its own, the stack.  The heap is created with all that contract may     *)
(* leave it with.                                                          *)
(***************************************************************************)
BootTables == ((HeapBase + InitPages - 1) \div TableSpan) + 1
LowEnd ==
    Placement + BitmapSize + DirSize + 2 * PageSize * (BootTables + 1)
HeapSizes == {HeapMax, HeapMin, 2 * PageSize, (InitPages - IndexPages) * PageSize}

ASSUME LayoutAssumption ==
    /\ LowEnd <= HeapBase * PageSize /\ LowEnd <= NFrames * PageSize
    /\ HeapTSize <= PageSize
    /\ \A n \in HeapSizes : HeapStart + (n \div PageSize) < StackTop - 1
    /\ BootTables <= (StackTop - 1) \div TableSpan
    /\ 2 <= InitPages - IndexPages /\ HeapMin <= (InitPages - IndexPages) * PageSize

Idle == [kind |-> "idle"]

Init ==
    /\ used = {}
    /\ \E garbage \in Garbage :
          pte = [s \in Slot \cup {NullSlot} |->
                   [frame |-> IF s = NullSlot THEN garbage ELSE 0,
                    present |-> FALSE]]
    /\ tables = [d \in Dir |-> [t \in TableIdx |-> NoTable]]
    /\ nextTab = 1 /\ nextDir = 1 /\ cur = 0
    /\ placement = Placement /\ heapLen = 0
    /\ \E c \in Data : data = [f \in Frame |-> c]
    /\ op = [kind |-> "boot"]
    /\ exhausted = FALSE /\ freed = {}

-----------------------------------------------------------------------------
(* Plausible bugs of the code, for the mutation checks of the README.      *)

BitPastTheEnd(f) ==
    /\ f \in 0..NFrames
    /\ f \notin used /\ \A g \in 0..NFrames \ used : f <= g

FrameNotSet(s) ==
    \/ /\ pte[s].frame # 0
       /\ UNCHANGED frameVars
    \/ /\ pte[s].frame = 0
       /\ \E f \in Frame \ used :
             pte' = [pte EXCEPT ![s] = [frame |-> f, present |-> TRUE]]
       /\ UNCHANGED <<used, exhausted>>

NoLilBitExtra == op.v * PageSize < placement

KernelTablesCopied(src) == {t \in TableIdx : tables[src][t] # NoTable}

AllTablesShared(src) == {}

ExpandSkipsAPage(n) ==      \* (expand starts behind the page the heap ends in)
    /\ op = Idle /\ cur # 0
    /\ op' = [kind |-> "expand", i |-> heapLen + PageSize, n |-> heapLen + n]
    /\ UNCHANGED <<frameVars, dirVars, cur, placement, heapLen, data, freed>>

PageNotCopied ==
    /\ op.kind = "clone" /\ op.todo # {}
    /\ LET v == Min(op.todo) IN
          /\ pte[<<tables[op.dst][v \div TableSpan], v % TableSpan>>].frame = 0
          /\ \E f \in Frame \ used :
                /\ used' = used \cup {f}
                /\ pte' = [pte EXCEPT
                     ![<<tables[op.dst][v \div TableSpan], v % TableSpan>>] =
                        [frame |-> f, present |-> TRUE]]
          /\ op' = [op EXCEPT !.todo = @ \ {v}]
    /\ UNCHANGED <<exhausted, dirVars, cur, placement, heapLen, data, freed>>

-----------------------------------------------------------------------------
(* The frame bitmap.                                                       *)

(***************************************************************************)
(* first_frame: the lowest free frame.  With none free the function ends   *)
(* without a return statement, and its caller takes what the return        *)
(* register happens to hold for a frame number.                            *)
(***************************************************************************)
FirstFrame(f) ==
    /\ f \in Frame
    /\ used # Frame => f \notin used /\ \A g \in Frame \ used : f <= g

AllocFrame(s) ==
    \/ /\ pte[s].frame # 0
       /\ UNCHANGED frameVars
    \/ /\ pte[s].frame = 0
       /\ \E f \in 0..NFrames :
             /\ FirstFrame(f)
             /\ used' = used \cup {f}
             /\ pte' = [pte EXCEPT ![s] = [frame |-> f, present |-> TRUE]]
       /\ exhausted' = (exhausted \/ used = Frame)

(***************************************************************************)
(* free_frame passes the frame number to clear_frame, which expects an     *)
(* address and divides it by the page size; the present bit stays set.     *)
(***************************************************************************)
ClearFrame(addr) == used' = used \ {addr \div FrameBytes}

FreeFrame(s) ==
    \/ /\ pte[s].frame = 0
       /\ UNCHANGED <<frameVars, freed>>
    \/ /\ pte[s].frame # 0
       /\ ClearFrame(pte[s].frame)
       /\ pte' = [pte EXCEPT ![s].frame = 0]
       /\ freed' = freed \cup {pte[s].frame \div FrameBytes}
       /\ UNCHANGED exhausted

-----------------------------------------------------------------------------
(* Page tables.                                                            *)

SlotOf(d, v) == <<tables[d][v \div TableSpan], v % TableSpan>>
HasTable(d, v) == tables[d][v \div TableSpan] # NoTable

(* get_page_ptr_in_page_table with make = 0: a missing table is NULL.      *)
PagePtr(d, v) == IF HasTable(d, v) THEN SlotOf(d, v) ELSE NullSlot

(* ... and with make = 1: the missing table is allocated.                  *)
NewTable(d, v) ==
    /\ nextTab <= MaxTables
    /\ tables' = [tables EXCEPT ![d][v \div TableSpan] = nextTab]
    /\ nextTab' = nextTab + 1
    /\ UNCHANGED nextDir

(* kmalloc_int before the heap exists: an aligned request moves up to the  *)
(* next page even from a page boundary.                                    *)
AlignUp(a) == IF a >= PageSize THEN ((a \div PageSize) + 1) * PageSize ELSE a
PlaceTable == placement' = AlignUp(placement) + PageSize

-----------------------------------------------------------------------------
(* initialise_paging.                                                      *)

Loop(kind, v) == op' = [kind |-> kind, v |-> v]

BootAlloc ==
    /\ op.kind = "boot"
    /\ placement' = AlignUp(placement + BitmapSize) + DirSize
    /\ Loop("heaptables", HeapBase)
    /\ UNCHANGED <<frameVars, dirVars, cur, heapLen, data, freed>>

BootHeapTable ==
    /\ op.kind = "heaptables"
    /\ \/ /\ op.v < HeapBase + InitPages /\ ~HasTable(0, op.v)
          /\ NewTable(0, op.v) /\ PlaceTable /\ Loop("heaptables", op.v + 1)
       \/ /\ op.v < HeapBase + InitPages /\ HasTable(0, op.v)
          /\ Loop("heaptables", op.v + 1) /\ UNCHANGED <<dirVars, placement>>
       \/ /\ op.v = HeapBase + InitPages
          /\ Loop("identity", 0) /\ UNCHANGED <<dirVars, placement>>
    /\ UNCHANGED <<frameVars, cur, heapLen, data, freed>>

(* The loop bound is read anew on every turn: making a table moves it.     *)
MoreToMap == op.v * PageSize < placement + PageSize

BootIdentity ==
    /\ op.kind = "identity"
    /\ \/ /\ MoreToMap /\ ~HasTable(0, op.v)
          /\ NewTable(0, op.v) /\ PlaceTable
          /\ UNCHANGED <<frameVars, op>>
       \/ /\ MoreToMap /\ HasTable(0, op.v)
          /\ AllocFrame(SlotOf(0, op.v))
          /\ Loop("identity", op.v + 1) /\ UNCHANGED <<dirVars, placement>>
       \/ /\ ~MoreToMap
          /\ Loop("heappages", HeapBase)
          /\ UNCHANGED <<frameVars, dirVars, placement>>
    /\ UNCHANGED <<cur, heapLen, data, freed>>

BootHeapPage ==
    /\ op.kind = "heappages"
    /\ \/ /\ op.v < HeapBase + InitPages
          /\ AllocFrame(SlotOf(0, op.v))
          /\ Loop("heappages", op.v + 1)
          /\ UNCHANGED <<placement, heapLen>>
       \/ /\ op.v = HeapBase + InitPages     \* create_heap
          /\ placement' = placement + HeapTSize
          /\ heapLen' = (InitPages - IndexPages) * PageSize
          /\ op' = Idle
          /\ UNCHANGED frameVars
    /\ UNCHANGED <<dirVars, cur, data, freed>>

-----------------------------------------------------------------------------
(***************************************************************************)
(* expand and contract.  The masks meant to round the size to a page       *)
(* boundary do something else: in expand, `new_size&0xFFFFF000 != 0' is    *)
(* `new_size & 1'; in contract, 0x1000 stands where 0xFFFFF000 is meant.   *)
(* kmalloc inside clone_directory may expand the heap half way through;    *)
(* the order of those frames does not matter here, so it is done before.   *)
(***************************************************************************)
RoundUp(n) == IF n % 2 = 1 THEN ((n \div PageSize) + 1) * PageSize ELSE n

RoundDown(n) ==
    LET m == IF (n \div PageSize) % 2 = 1 THEN 2 * PageSize ELSE n
    IN  IF m < HeapMin THEN HeapMin ELSE m

HeapPage(i) == HeapStart + (i \div PageSize)

ExpandBegin(n) ==
    /\ op = Idle /\ cur # 0
    /\ RoundUp(heapLen + n) <= HeapMax
    /\ op' = [kind |-> "expand", i |-> heapLen, n |-> RoundUp(heapLen + n)]
    /\ UNCHANGED <<frameVars, dirVars, cur, placement, heapLen, data, freed>>

Expand ==
    /\ op.kind = "expand"
    /\ \/ /\ op.i < op.n
          /\ AllocFrame(PagePtr(0, HeapPage(op.i)))
          /\ op' = [op EXCEPT !.i = @ + PageSize]
          /\ UNCHANGED heapLen
       \/ /\ op.i >= op.n
          /\ heapLen' = op.n /\ op' = Idle
          /\ UNCHANGED frameVars
    /\ UNCHANGED <<dirVars, cur, placement, data, freed>>

ContractBegin(n) ==
    /\ op = Idle /\ cur # 0
    /\ n < heapLen
    /\ op' = [kind |-> "contract", i |-> heapLen - PageSize, n |-> RoundDown(n)]
    /\ UNCHANGED <<frameVars, dirVars, cur, placement, heapLen, data, freed>>

Contract ==
    /\ op.kind = "contract"
    /\ \/ /\ op.n < op.i
          /\ FreeFrame(PagePtr(0, HeapPage(op.i)))
          /\ op' = [op EXCEPT !.i = @ - PageSize]
          /\ UNCHANGED heapLen
       \/ /\ op.n >= op.i
          /\ heapLen' = op.n /\ op' = Idle
          /\ UNCHANGED <<frameVars, freed>>
    /\ UNCHANGED <<dirVars, cur, placement, data>>

-----------------------------------------------------------------------------
(* clone_directory and clone_table.                                        *)

(* Tables of src that are not kernel_directory's own.                      *)
Private(src) ==
    {t \in TableIdx : tables[src][t] # NoTable /\ tables[0][t] # tables[src][t]}

(* The new tables array: kernel tables by pointer, fresh tables otherwise. *)
ClonedTables(src) ==
    [t \in TableIdx |->
        IF t \in Private(src)
        THEN nextTab + Cardinality({u \in Private(src) : u < t})
        ELSE tables[src][t]]

(* The pages clone_table copies: entries with a frame number other than 0. *)
PagesToClone(src) ==
    {v \in Page : v \div TableSpan \in Private(src) /\ pte[SlotOf(src, v)].frame # 0}

(* initialise_paging clones kernel_directory, fork() current_directory.    *)
CloneBegin ==
    /\ op = Idle /\ nextDir <= MaxDirs
    /\ cur = 0 \/ HasTable(cur, StackTop)
    /\ nextTab + Cardinality(Private(cur)) <= MaxTables + 1
    /\ tables' = [tables EXCEPT ![nextDir] = ClonedTables(cur)]
    /\ nextTab' = nextTab + Cardinality(Private(cur))
    /\ nextDir' = nextDir + 1
    /\ op' = [kind |-> "clone", src |-> cur, dst |-> nextDir,
              todo |-> PagesToClone(cur)]
    /\ UNCHANGED <<frameVars, cur, placement, heapLen, data, freed>>

CopyPagePhysical(from, to) == data' = [data EXCEPT ![to] = data[from]]

(* One turn of the loop in clone_table: a frame, the flags, and the copy   *)
(* by copy_page_physical.                                                  *)
ClonePage ==
    /\ op.kind = "clone" /\ op.todo # {}
    /\ LET v == Min(op.todo) IN
          /\ AllocFrame(SlotOf(op.dst, v))
          /\ CopyPagePhysical(pte[SlotOf(op.src, v)].frame,
                              pte'[SlotOf(op.dst, v)].frame)
          /\ op' = [op EXCEPT !.todo = @ \ {v}]
    /\ UNCHANGED <<dirVars, cur, placement, heapLen, freed>>

(* The boot clone becomes the current directory at once.                   *)
CloneEnd ==
    /\ op.kind = "clone" /\ op.todo = {}
    /\ cur' = IF op.src = 0 THEN op.dst ELSE cur
    /\ op' = Idle
    /\ UNCHANGED <<frameVars, dirVars, placement, heapLen, data, freed>>

-----------------------------------------------------------------------------
(* move_stack: two pages in two new tables of the current directory, from  *)
(* the top one down, and the old stack copied into them.                   *)
MoveStackBegin ==
    /\ op = Idle /\ cur # 0 /\ ~HasTable(cur, StackTop)
    /\ Loop("movestack", StackTop)
    /\ UNCHANGED <<frameVars, dirVars, cur, placement, heapLen, data, freed>>

MoveStack ==
    /\ op.kind = "movestack"
    /\ \/ /\ op.v \in StackPages /\ ~HasTable(cur, op.v)
          /\ NewTable(cur, op.v)
          /\ UNCHANGED <<frameVars, data, op>>
       \/ /\ op.v \in StackPages /\ HasTable(cur, op.v)
          /\ AllocFrame(SlotOf(cur, op.v))
          /\ Loop("movestack", op.v - 1)
          /\ UNCHANGED <<dirVars, data>>
       \/ /\ op.v \notin StackPages
          /\ \E c \in Data : data' = [f \in Frame |->
                IF \E v \in StackPages : pte[SlotOf(cur, v)].frame = f
                THEN c ELSE data[f]]
          /\ op' = Idle
          /\ UNCHANGED <<frameVars, dirVars>>
    /\ UNCHANGED <<cur, placement, heapLen, freed>>

(* switch_task loads the page directory of another task.                   *)
SwitchDirectory(d) ==
    /\ op = Idle /\ cur # 0 /\ HasTable(cur, StackTop)
    /\ d \in 1..(nextDir - 1) /\ d # cur
    /\ cur' = d
    /\ UNCHANGED <<frameVars, dirVars, placement, heapLen, data, op, freed>>

(* The running task writes to its stack.                                   *)
WriteStack(v, c) ==
    /\ op = Idle /\ cur # 0 /\ HasTable(cur, v)
    /\ pte[SlotOf(cur, v)].present
    /\ data' = [data EXCEPT ![pte[SlotOf(cur, v)].frame] = c]
    /\ UNCHANGED <<frameVars, dirVars, cur, placement, heapLen, op, freed>>

Next ==
    \/ BootAlloc \/ BootHeapTable \/ BootIdentity \/ BootHeapPage
    \/ \E n \in Requests : ExpandBegin(n)
    \/ Expand
    \/ \E n \in Offsets : ContractBegin(n)
    \/ Contract
    \/ CloneBegin \/ ClonePage \/ CloneEnd
    \/ MoveStackBegin \/ MoveStack
    \/ \E d \in Dir : SwitchDirectory(d)
    \/ \E v \in StackPages, c \in Data : WriteStack(v, c)

Spec == Init /\ [][Next]_vars

-----------------------------------------------------------------------------
(* Frames, page table entries and directories hold values of their types.  *)
TypeOK ==
    /\ used \subseteq Frame
    /\ pte \in [Slot \cup {NullSlot} ->
                  [frame : Frame \cup Garbage, present : BOOLEAN]]
    /\ tables \in [Dir -> [TableIdx -> 0..MaxTables]]
    /\ nextTab \in 1..(MaxTables + 1) /\ nextDir \in 1..(MaxDirs + 1)
    /\ cur \in Dir /\ placement \in Nat /\ heapLen \in Nat
    /\ data \in [Frame -> Data]
    /\ exhausted \in BOOLEAN

(* The entries with a frame, as alloc_frame and clone_table see it.        *)
Mapped == {s \in Slot : pte[s].frame # 0}

(* Frames were left for every request, and free_frame cleared no bit.      *)
Sane == ~exhausted /\ freed = {}

(***************************************************************************)
(* Until frames run out and until contract first frees one, no two present *)
(* page table entries, in the same or in different tables, have the same   *)
(* frame: alloc_frame hands out only unused frames.  free_frame clears the *)
(* wrong bit, frame 0's as long as the heap has not shrunk past its page   *)
(* tables: from then on this holds of all frames but frame 0, which expand *)
(* may map a second time.  Nothing is claimed once frames have run out, or *)
(* once free_frame has worked through address 0, where the bit it clears   *)
(* may be any frame's.                                                     *)
(***************************************************************************)
FramesExclusive ==
    /\ Sane => \A s1, s2 \in Slot :
          pte[s1].present /\ pte[s2].present /\ pte[s1].frame = pte[s2].frame
             => s1 = s2
    /\ ~exhausted /\ freed \subseteq {0} => \A s1, s2 \in Mapped :
          pte[s1].frame = pte[s2].frame => s1 = s2

(***************************************************************************)
(* When paging goes on, everything kmalloc has placed, the heap_t placed   *)
(* afterwards included, is mapped to itself: the loop of initialise_paging *)
(* catches up with the tables it makes on its way.                         *)
(***************************************************************************)
IdentityMapped ==
    op.kind \notin {"boot", "heaptables", "identity"} =>
       \A v \in Page : v * PageSize < placement =>
          HasTable(0, v) /\ pte[SlotOf(0, v)] = [frame |-> v, present |-> TRUE]

(* Every directory sees the kernel's pages, heap pages mapped after its    *)
(* creation included: kernel tables are shared by pointer, never copied.   *)
KernelShared ==
    \A d \in 1..(nextDir - 1), v \in Page \ StackPages :
       HasTable(0, v) => SlotOf(d, v) = SlotOf(0, v)

StackOf(d) == [v \in StackPages |-> data[pte[SlotOf(d, v)].frame]]

(***************************************************************************)
(* fork() gives the child a stack of its own with the parent's contents:   *)
(* when clone_directory is done the two stacks agree, in other frames.     *)
(***************************************************************************)
StackCloned ==
    Sane /\ op.kind = "clone" /\ op.todo = {} /\ op.src # 0 =>
       /\ StackOf(op.dst) = StackOf(op.src)
       /\ \A v \in StackPages : pte[SlotOf(op.dst, v)].present
       /\ \A v, w \in StackPages :
             pte[SlotOf(op.dst, v)].frame # pte[SlotOf(op.src, w)].frame

(* The directory whose stack may change: a new one while clone_directory   *)
(* fills it, otherwise that of the running task.                           *)
Changing == IF op.kind = "clone" THEN op.dst ELSE cur

(***************************************************************************)
(* No step changes a stack but that of the directory in hand: not the      *)
(* writes of another task, no page that clone_table copies, which leaves   *)
(* the parent's own stack alone too, not move_stack, and not the frames    *)
(* that expand takes for the heap; until frames run out or contract frees  *)
(* one.                                                                    *)
(***************************************************************************)
StacksIsolated ==
    [][Sane' => \A d \in 1..(nextDir - 1) :
          d # Changing /\ HasTable(d, StackTop) => StackOf(d)' = StackOf(d)]_vars

(***************************************************************************)
(* Although expand does not round its size, and a second expansion then    *)
(* starts in the middle of a page, no page of the heap but its last one is *)
(* ever left unmapped, as far as the heap has page tables; nor does        *)
(* contract, whose size may come out larger than the heap, make it so.     *)
(***************************************************************************)
HeapBacked ==
    op = Idle =>
       \A v \in HeapStart..(HeapPage(heapLen - 1) - 1) :
          HasTable(0, v) => pte[SlotOf(0, v)].present

(***************************************************************************)
(* The comment on free_frame, "Function to deallocate a frame": a frame    *)
(* that no page maps is free again.                                        *)
(***************************************************************************)
FramesAccounted ==
    op = Idle => \A f \in used : f = 0 \/ \E s \in DOMAIN pte : pte[s].frame = f
=============================================================================

------------------------------- MODULE KHeap -------------------------------
(***************************************************************************)
(* The kernel heap of cpu/kheap.c and its index of holes, the array of     *)
(* cpu/ordered_array.c, on a memory of words.  Addresses are word offsets  *)
(* from heap->start_address, which is page aligned; a header is the three  *)
(* words magic, is_hole, size, a footer the two words magic, header.  The  *)
(* callers are the kernel's kmalloc and kfree; they fill their blocks and  *)
(* write nothing else, and no word they write is HEAP_MAGIC.               *)
(*                                                                         *)
(* Sizes are whole words, as all the kernel asks for are.  For such sizes  *)
(* the tests `x & 0xFFFFF000 != 0', which C reads as `x & 1', are false:   *)
(* find_smallest_hole never allows for alignment, and expand does not      *)
(* round.  `orig_hole_pos & 0xFFFFF000' is true of every heap address.     *)
(*                                                                         *)
(* The code leaves some cases out.  slip records, as history, the first    *)
(* one that a call runs into.                                              *)
(***************************************************************************)
EXTENDS Integers, Sequences, SequencesExt, FiniteSets, FiniteSetsExt

CONSTANTS
    PageWords,   \* words of a page
    InitWords,   \* the length of the heap create_heap makes
    MinWords,    \* HEAP_MIN_SIZE
    MaxWords,    \* max_address - start_address
    Sizes        \* the sizes callers ask for

HeaderSize == 3
FooterSize == 2
Overhead == HeaderSize + FooterSize

(* An address space has this many words; heap->start_address, 0xC0080000,  *)
(* is this one of them.                                                    *)
Words == 1073741824
StartWord == 805437440

ASSUME KHeapAssumption ==
    /\ {PageWords, InitWords, MinWords, MaxWords} \subseteq Nat
    /\ Overhead <= PageWords /\ MinWords % PageWords = 0
    /\ 2 * PageWords <= MinWords /\ MinWords <= InitWords /\ InitWords <= MaxWords
    /\ MaxWords <= Words - StartWord
    /\ Sizes \subseteq 1..(Words \div 2 - Overhead - 1)    \* below 2 GB

VARIABLES
    mem,     \* the words of the heap, and the two in front of it
    index,   \* heap->index: the addresses of holes, meant to be sorted by size
    len,     \* heap->end_address - heap->start_address
    live,    \* the blocks the callers hold: <<address, size asked for>>
    slip     \* history: the case left out by the code that was met, or "none"

vars == <<mem, index, len, live, slip>>

Magic == -1
Address == (-FooterSize)..(MaxWords - 1)

(* Sums and differences of sizes are those of uint32_t, in words; the      *)
(* address of a footer wraps at the end of the address space; and int32_t, *)
(* a size taken as signed.                                                 *)
Plus(a, b) == (a + b) % Words
Minus(a, b) == (a - b) % Words
Wrapped(a) == ((a + StartWord) % Words) - StartWord
Signed(n) == IF n < Words \div 2 THEN n ELSE n - Words

(* Only after a slip does the code look outside of the heap's memory.      *)
Word(m, a) == IF a \in Address THEN m[a] ELSE 0

Size(m, h) == Word(m, h + 2)
Hole(m, h) == Word(m, h + 1)

(* Writes of a header, of a size alone, and of a footer.                   *)
PutHeader(m, h, isHole, size) ==
    [a \in Address |-> CASE a = h     -> Magic
                         [] a = h + 1 -> isHole
                         [] a = h + 2 -> size
                         [] OTHER     -> m[a]]

PutSize(m, h, size) == [a \in Address |-> IF a = h + 2 THEN size ELSE m[a]]

PutFooter(m, f, h) ==
    [a \in Address |-> CASE a = f     -> Magic
                         [] a = f + 1 -> h
                         [] OTHER     -> m[a]]

-----------------------------------------------------------------------------
(* Plausible bugs of the code, for the mutation checks of the README.      *)

ItemKept(ix, item) == ix

NotUnifiedRight(u, r) ==
    [mem |-> u.mem, index |-> index, stop |-> r, slip |-> u.slip]

-----------------------------------------------------------------------------
(* ordered_array: the item goes in front of the first that is not smaller. *)
Insert(ix, item, m) ==
    LET notLess == {i \in DOMAIN ix : ~(Size(m, ix[i]) < Size(m, item))}
    IN  IF notLess = {} THEN Append(ix, item) ELSE InsertAt(ix, Min(notLess), item)

(* The loops that look an item up in the index and remove it there.        *)
RemoveItem(ix, item) == RemoveFirst(ix, item)

(* create_heap: one hole, and no footer yet.                               *)
Init ==
    /\ mem = PutHeader([a \in Address |-> 0], 0, 1, InitWords)
    /\ index = <<0>>
    /\ len = InitWords
    /\ live = {} /\ slip = "none"

-----------------------------------------------------------------------------
(* alloc.                                                                  *)

(* The first hole of the index that is large enough, 0 if there is none.   *)
(* For an aligned block the sizes are compared as signed ones.             *)
FindSmallestHole(ix, m, newSize, align) ==
    LET fits(size) == IF align THEN Signed(size) >= Signed(newSize)
                      ELSE size >= newSize
        fit == {i \in DOMAIN ix : fits(Size(m, ix[i]))}
    IN  IF fit = {} THEN 0 ELSE Min(fit)

(***************************************************************************)
(* No hole fits: the heap grows by n words.  Without any hole the new part *)
(* becomes one, otherwise it is added to the hole at the highest address.  *)
(***************************************************************************)
Grown(n) ==
    LET h == IF index = <<>> THEN len ELSE Max(ToSet(index))
        size == IF index = <<>> THEN n ELSE Plus(Size(mem, h), n)
        m == IF index = <<>> THEN PutHeader(mem, h, 1, size)
             ELSE PutSize(mem, h, size)
    IN  [mem |-> PutFooter(m, h + size - FooterSize, h),
         index |-> IF index = <<>> THEN <<h>> ELSE index,
         len |-> len + n,
         slip |-> IF index = <<>> \/ h + Size(mem, h) = len THEN "none"
                  ELSE "endmost hole not at the end"]

(***************************************************************************)
(* The rest of alloc, on the hole at place i of g.index: take all of a     *)
(* hole that is not worth splitting, put a hole in front of an aligned     *)
(* block, write the block, and make a hole of what is left behind it.      *)
(***************************************************************************)
Placed(g, i, asked, align) ==
    LET pos == g.index[i]
        holeSize == Size(g.mem, pos)
        takeAll == Minus(holeSize, asked + Overhead) < Overhead
        newSize == IF takeAll THEN holeSize ELSE asked + Overhead
        front == IF align THEN PageWords - (pos % PageWords) - HeaderSize ELSE 0
        block == pos + front
        behind == block + newSize
        rest == Minus(holeSize - front, newSize)
        m1 == IF align
              THEN PutFooter(PutHeader(g.mem, pos, 1, Minus(front, 0)),
                             block - FooterSize, pos)
              ELSE g.mem
        m2 == PutFooter(PutHeader(m1, block, 0, newSize), behind - FooterSize, block)
        m3 == PutHeader(m2, behind, 1, rest)
        foot == Wrapped(behind + rest - FooterSize)
        m4 == IF foot < g.len THEN PutFooter(m3, foot, behind) ELSE m3
        ix == IF align THEN g.index ELSE RemoveAt(g.index, i)
    IN  [mem |-> IF rest > 0 THEN m4 ELSE m2,
         index |-> IF rest > 0 THEN Insert(ix, behind, m4) ELSE ix,
         len |-> g.len,
         block |-> <<block + HeaderSize, asked>>,
         slip |-> IF g.slip # "none" THEN g.slip
                  ELSE IF align /\ front < Overhead THEN "no room for a hole in front"
                  ELSE IF holeSize - front < newSize THEN "hole too small once aligned"
                  ELSE IF rest \in 1..(Overhead - 1) THEN "no room for a hole behind"
                  ELSE "none"]

Heap == [mem |-> mem, index |-> index, len |-> len, slip |-> slip]

(* The caller's own use of its block: it overwrites what was there.        *)
Filled(m, b) ==
    [a \in Address |-> IF b[1] <= a /\ a < b[1] + b[2] THEN 0 ELSE m[a]]

First(s) == IF slip = "none" THEN s ELSE slip

Took(r) ==
    /\ mem' = Filled(r.mem, r.block) /\ index' = r.index /\ len' = r.len
    /\ live' = live \cup {r.block} /\ slip' = First(r.slip)

AllocFits(asked, align) ==
    LET i == FindSmallestHole(index, mem, asked + Overhead, align)
    IN  /\ i # 0
        /\ Took(Placed(Heap, i, asked, align))

(* A growth that does not look at max_address: for the mutation checks.    *)
GrowsUnchecked(asked, align) ==
    LET n == asked + Overhead
        g == Grown(n)
        i == FindSmallestHole(g.index, g.mem, n, align)
    IN  /\ FindSmallestHole(index, mem, n, align) = 0 /\ i # 0
        /\ Took(Placed(g, i, asked, align))

(* expand stops on its assertion when the heap would pass max_address.     *)
(* The grown hole fits; where sizes have wrapped, after a slip, the code   *)
(* might have to grow the heap once more, which is not followed.           *)
AllocGrows(asked, align) ==
    LET n == asked + Overhead
        g == Grown(n)
        i == FindSmallestHole(g.index, g.mem, n, align)
    IN  /\ FindSmallestHole(index, mem, n, align) = 0 /\ i # 0
        /\ len + n <= MaxWords
        /\ Took(Placed(g, i, asked, align))

Alloc(asked, align) == AllocFits(asked, align) \/ AllocGrows(asked, align)

-----------------------------------------------------------------------------
(* free.                                                                   *)

(* The size contract settles on; its mask keeps one bit of the size.       *)
Contracted(n) ==
    LET kept == IF (n \div PageWords) % 2 = 1 THEN 2 * PageWords ELSE n
    IN  IF kept < MinWords THEN MinWords ELSE kept

(* The pages contract unmaps, from the last one down; when the heap grows  *)
(* again they come back as fresh frames.                                   *)
Unmapped(m, old, new) ==
    [a \in Address |->
        IF \E k \in 1..(MaxWords \div PageWords) :
              old - k * PageWords > new /\ a \div PageWords = (old - k * PageWords) \div PageWords
        THEN 0 ELSE m[a]]

(***************************************************************************)
(* Unify left, through the footer in front of the block: the result is the *)
(* memory, the header of the hole, and whether the index lacks it.         *)
(***************************************************************************)
UnifiedLeft(h) ==
    LET m == [mem EXCEPT ![h + 1] = 1]
        left == m[h - FooterSize] = Magic /\ Hole(m, m[h - 1]) = 1
        to == m[h - 1]
        f == h + Size(m, h) - FooterSize
    IN  IF left
        THEN [mem |-> PutSize([m EXCEPT ![f + 1] = to], to, Plus(Size(m, to), Size(m, h))),
              header |-> to, add |-> FALSE,
              slip |-> IF Contains(index, to) THEN "none" ELSE "stale footer"]
        ELSE [mem |-> m, header |-> h, add |-> TRUE, slip |-> "none"]

(***************************************************************************)
(* Unify right with the header at r, behind the block: that hole leaves    *)
(* the index, where an assertion wants it to be, and its footer is not     *)
(* rewritten.  Behind the last block of the heap the code reads an         *)
(* unmapped page or what an earlier, longer heap left there.               *)
(***************************************************************************)
RightHole(m, r) == Word(m, r) = Magic /\ Hole(m, r) # 0

UnifiedRight(u, r) ==
    LET right == RightHole(u.mem, r)
        astray == r = len /\ len % PageWords = 0
        size == Size(u.mem, r)
    IN  [mem |-> IF right
                 THEN PutSize(u.mem, u.header, Plus(Size(u.mem, u.header), size))
                 ELSE u.mem,
         index |-> IF right THEN RemoveItem(index, r) ELSE index,
         stop |-> IF right THEN r + size ELSE r,
         slip |-> IF astray THEN "read behind the heap" ELSE u.slip]

(***************************************************************************)
(* A hole at the end lets the heap contract.  Should nothing of it remain, *)
(* it is the header to its right that is looked for in the index.          *)
(***************************************************************************)
Trimmed(v, h, r) ==
    LET new == Contracted(h)
        rest == Minus(Size(v.mem, h), len - new)
        m == Unmapped(v.mem, len, new)
    IN  IF v.stop # len
        THEN [mem |-> v.mem, index |-> v.index, len |-> len, slip |-> v.slip]
        ELSE IF rest > 0
        THEN [mem |-> PutFooter(PutSize(m, h, rest), h + rest - FooterSize, h),
              index |-> v.index, len |-> new,
              slip |-> IF new < h + Overhead THEN "contracted too far" ELSE v.slip]
        ELSE [mem |-> m, index |-> RemoveItem(v.index, r), len |-> new,
              slip |-> "contracted too far"]

Free(b) ==
    LET h == b[1] - HeaderSize
        r == h + Size(mem, h)
        u == UnifiedLeft(h)
        t == Trimmed(UnifiedRight(u, r), u.header, r)
    IN  /\ mem[h] = Magic /\ Word(mem, r - FooterSize) = Magic    \* assertions
        /\ RightHole(u.mem, r) => Contains(index, r)
        /\ mem' = t.mem /\ len' = t.len /\ slip' = First(t.slip)
        /\ index' = IF u.add THEN Insert(t.index, u.header, t.mem) ELSE t.index
        /\ live' = live \ {b}

Next ==
    \/ \E n \in Sizes, align \in BOOLEAN : Alloc(n, align)
    \/ \E b \in live : Free(b)

Spec == Init /\ [][Next]_vars

-----------------------------------------------------------------------------
Holes == ToSet(index)
Blocks == {b[1] - HeaderSize : b \in live}
Parts == Holes \cup Blocks

(* The index names addresses of the heap, and memory holds words, as long  *)
(* as the code meets none of the cases it leaves out.                      *)
TypeOK ==
    slip = "none" =>
       /\ mem \in [Address -> Int]
       /\ index \in Seq(Int)
       /\ len \in MinWords..MaxWords
       /\ \A b \in live : b[1] \in Int /\ b[2] \in Sizes

(***************************************************************************)
(* Until one of the cases the code leaves out comes up, blocks and holes   *)
(* tile the heap: each has its header, the index lists every hole once and *)
(* no block, each block has room for what was asked and its footer leads   *)
(* back to it, and what is in front of a block ends in a footer.           *)
(***************************************************************************)
Tiled ==
    slip = "none" =>
       /\ \A i, j \in DOMAIN index : index[i] = index[j] => i = j
       /\ Holes \cap Blocks = {}
       /\ \A h \in Parts :
             /\ mem[h] = Magic /\ Size(mem, h) >= Overhead
             /\ Hole(mem, h) = IF h \in Holes THEN 1 ELSE 0
             /\ h + Size(mem, h) < len => mem[h + Size(mem, h) - FooterSize] = Magic
       /\ \A b \in live : LET h == b[1] - HeaderSize IN
             /\ Size(mem, h) >= b[2] + Overhead
             /\ mem[h + Size(mem, h) - 1] = h
       /\ {h + Size(mem, h) : h \in Parts} = (Parts \ {0}) \cup {len}
       /\ 0 \in Parts

(* Free holes never lie side by side: free() merges in both directions, so *)
(* the largest hole is as large as the blocks in use allow.                *)
Coalesced ==
    slip = "none" => \A h \in Holes : h + Size(mem, h) \notin Holes

(***************************************************************************)
(* kheap.h: alloc "Allocates a contiguous region of memory 'size' in       *)
(* size", so no word belongs to two callers.                               *)
(***************************************************************************)
BlocksDisjoint ==
    \A a, b \in live : a # b => a[1] + a[2] <= b[1] \/ b[1] + b[2] <= a[1]
=============================================================================

------------------------------ MODULE MCPaging ------------------------------
(* Pages of four bytes and tables of six pages, laid out like the kernel: *)
(* low memory that needs two tables, the heap, and a stack that straddles  *)
(* two tables.                                                             *)
EXTENDS Paging, TLC

CONSTANTS x, y

MCRequests == {4, 6, 9}
MCOffsets == {4}
MCData == {x, y}
MCGarbage == {0, 2 * FrameBytes}
MCSymmetry == Permutations(MCData)

(* Nothing is claimed of what follows an allocation without a free frame,  *)
(* so it is not explored.  The small requests, which leave the heap's end  *)
(* inside a page, are explored before the stack is moved only.             *)
MCConstraint ==
    /\ ~exhausted
    /\ HasTable(cur, StackTop) =>
          /\ heapLen % PageSize = 0
          /\ op.kind = "expand" => op.n - heapLen > 2 * PageSize
=============================================================================

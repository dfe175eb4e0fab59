------------------------------ MODULE MCKHeap ------------------------------
(* Pages of twelve words, so that headers, footers and alignment meet in  *)
(* every way within a heap of a few pages.                                 *)
EXTENDS KHeap

MCSizes == {4, 7}

(* Nothing is claimed of what follows a case the code leaves out, so it is *)
(* not explored.                                                           *)
MCConstraint == slip = "none"

(* The callers all ask for page aligned blocks, as kmalloc_a does.         *)
MCAlignedNext ==
    \/ \E asked \in Sizes : Alloc(asked, TRUE)
    \/ \E b \in live : Free(b)

MCAlignedSpec == Init /\ [][MCAlignedNext]_vars
=============================================================================

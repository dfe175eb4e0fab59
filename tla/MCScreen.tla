------------------------------ MODULE MCScreen ------------------------------
(* Two rows of three cells with cursor bytes of four values: the cursor    *)
(* needs both bytes, and half of its values are off the screen.  The       *)
(* places are on the screen, right of it and below it.  Orderly behaviours *)
(* are followed longer than the others, so that the screen scrolls.        *)
EXTENDS Screen, TLC

CONSTANTS t1, t2

MCTask == {t1, t2}
MCMessages == {<<"a">>, <<"a", "\n">>, <<">", " ">>}
MCLetters == {"b", "\n"}
MCPlaces == {<<1, 1>>, <<Cols, 0>>, <<0, Rows>>}

Symmetry == Permutations(MCTask)
Bounded == orderly \/ ops <= 3
=============================================================================

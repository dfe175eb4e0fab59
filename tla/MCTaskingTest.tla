--------------------------- MODULE MCTaskingTest ---------------------------
(* The program with the periods of the code.                               *)
EXTENDS TaskingTest

MCSleepArgs == {10, 50}
=============================================================================

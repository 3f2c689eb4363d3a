--------------------------- MODULE MC_Breakpoints ---------------------------
(* Two code addresses and one beyond the code memory, one data cell, and   *)
(* hit numbers that stop at the first and at the second hit.               *)
EXTENDS Breakpoints

MCAddrs == 0 .. 2
MCCellAddrs == {0, 1}
MCCells == {0}
MCHits == {1, 2}
=============================================================================

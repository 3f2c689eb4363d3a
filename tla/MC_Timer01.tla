----------------------------- MODULE MC_Timer01 -----------------------------
(* A timer with 4 values in a register and a precounter of one bit.         *)
EXTENDS Timer01
=============================================================================

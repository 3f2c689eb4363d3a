----------------------------- MODULE MC_Serial51 -----------------------------
(* A serial interface with short bytes and small divisors.                  *)
EXTENDS Serial51

MCBitsOf == [m \in 0 .. 3 |-> IF m = 0 THEN 1 ELSE 2]
=============================================================================

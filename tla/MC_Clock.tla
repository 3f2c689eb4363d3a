------------------------------ MODULE MC_Clock ------------------------------
(* Two slots above slot 0, one name, and time for a few instructions.      *)
EXTENDS Clock

MCUnset == {0, 1}
MCNames == {"a"}
=============================================================================

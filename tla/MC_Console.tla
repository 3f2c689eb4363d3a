----------------------------- MODULE MC_Console -----------------------------
(* A terminal, a network console and a script of two commands.             *)
EXTENDS Console

MCTerminals == {0}
MCSockets == {4}
MCScripts == {5}
=============================================================================

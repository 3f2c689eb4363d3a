----------------------------- MODULE MC_Timer2 -----------------------------
(***************************************************************************)
(* Timer 2 with three values, and the counter array with four and one      *)
(* module, the watchdog: part is the one that runs, the other one stays at *)
(* one of its initial states.                                              *)
(***************************************************************************)
EXTENDS Timer2, Pca

VARIABLE part

MCVars == <<vars, pcaVars, part>>

\* A module captures rising edges, or falling ones, or compares.
MCCcapm == {{"CAPP"}, {"CAPN"}, {"ECOM", "TOG", "PWM"}}

MCInit ==
  /\ Init /\ PcaInit /\ part \in {"timer2", "pca"}
  /\ part = "timer2" => ~CR /\ cmod = [clk |-> "cycle", CIDL |-> FALSE, WDTE |-> FALSE]
                         /\ pins = {} /\ \A m \in Mods : ccapm[m] = {"CAPP"}
  /\ part = "pca" => T_edge = 0 /\ t2ex_edge = 0

MCNext ==
  \/ part = "timer2" /\ Next /\ UNCHANGED <<pcaVars, part>>
  \/ part = "pca" /\ PcaNext /\ UNCHANGED <<vars, part>>

MCSpec == MCInit /\ [][MCNext]_MCVars
=============================================================================

---------------------------- MODULE PulseCounter ----------------------------
(***************************************************************************)
(* What a timer of the MCS51 promises, whatever its mode: it counts pulses *)
(* up to `top', continues from `reload' and reports every time it does so, *)
(* however many pulses come in one tick of the hardware.                   *)
(***************************************************************************)
EXTENDS Integers

VARIABLES
  value, top, reload,
  fed,  \* pulses counted in the last step, -1 when registers were written
  ovf   \* overflows reported in the last step

counter == <<value, top, reload, fed, ovf>>

\* Pulses beyond the first overflow.
Excess(n) == value + n - top

After(n) ==
  IF Excess(n) < 0 THEN value + n ELSE reload + (Excess(n) % (top - reload))

Overflows(n) ==
  IF Excess(n) < 0 THEN 0 ELSE 1 + (Excess(n) \div (top - reload))

InRange == value < top /\ reload < top

Init == InRange /\ fed = -1 /\ ovf = 0

Count ==
  /\ fed' \in Nat
  /\ value' = After(fed') /\ ovf' = Overflows(fed')
  /\ UNCHANGED <<top, reload>>

\* The program writes the count, the reload value or the mode.
Load == fed' = -1 /\ ovf' = 0 /\ InRange'

Spec == Init /\ [][Count \/ Load]_counter
=============================================================================

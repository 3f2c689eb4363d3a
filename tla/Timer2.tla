------------------------------- MODULE Timer2 -------------------------------
(***************************************************************************)
(* Timer 2 of the 8052: cl_timer2, as cl_uc52 makes it (it can count down, *)
(* it has no clock output), and what it tells the serial interface.        *)
(*                                                                         *)
(* TH,TL and RCAP2H,RCAP2L are numbers, since bytes carry into each other. *)
(* RCLK and TCLK are one bit: the code only asks if one of them is set.    *)
(***************************************************************************)
EXTENDS Integers

CONSTANTS
  Word,        \* values of TH,TL (2^16)
  BaudFactor,  \* pulses per cycle in baud rate mode (6)
  MaxCycles,   \* cycles of the longest instruction (4)
  MaxEdges     \* bound: edges of a line between two ticks

ASSUME Timer2Assumption ==
  /\ Word \in Nat \ {0, 1} /\ BaudFactor \in Nat \ {0}
  /\ MaxCycles \in Nat \ {0} /\ MaxEdges \in Nat

Words == 0 .. Word - 1
Lines == {"T2", "T2EX"}  \* pins of port 1
Modes == {"RELOAD", "CAPTURE", "BAUDRATE", "DOWN"}

\* The bits of T2CON that the program sets; flags are apart.
T2con == [C_T : BOOLEAN, TR : BOOLEAN, CLK : BOOLEAN, CP_RL2 : BOOLEAN,
          EXEN2 : BOOLEAN]

VARIABLES
  mode,
  cfg,         \* what cl_timer2::write took from T2CON
  flags,       \* TF2 and EXF2 in T2CON
  count, rcap,
  high,        \* lines that are high
  T_edge, t2ex_edge,
  exf2it,      \* the interrupt source of EXF2 is active
  cex,         \* bit 6 of the latch of port 1
  t2_baud,     \* cl_serial::t2_baud
  last         \* the last step: the pulses counted up and the overflows; the
               \* pulses are -1 when a register was written, -2 counting down

vars == <<mode, cfg, flags, count, rcap, high, T_edge, t2ex_edge, exf2it, cex,
          t2_baud, last>>

TypeOK ==
  /\ mode \in Modes /\ cfg \in T2con
  /\ flags \subseteq {"TF2", "EXF2"} /\ count \in Words /\ rcap \in Words
  /\ high \subseteq Lines /\ T_edge \in 0 .. MaxEdges /\ t2ex_edge \in 0 .. MaxEdges
  /\ exf2it \in BOOLEAN /\ cex \in BOOLEAN
  /\ t2_baud \in BOOLEAN
  /\ last.n \in Int /\ last.ovf \in Nat

Written == last' = [n |-> -1, ovf |-> 0]

NoBits == [C_T |-> FALSE, TR |-> FALSE, CLK |-> FALSE, CP_RL2 |-> FALSE,
           EXEN2 |-> FALSE]

\* After the reset of cl_uc::init.  The constructor leaves the edges as they
\* are, and the reset forgets them only if the mode or TR happens to change.
Init ==
  /\ mode = "RELOAD" /\ cfg = NoBits
  /\ flags = {} /\ count = 0 /\ rcap = 0 /\ high = Lines
  /\ T_edge \in 0 .. MaxEdges /\ t2ex_edge \in 0 .. MaxEdges
  /\ exf2it = TRUE /\ cex = TRUE /\ t2_baud = FALSE
  /\ last = [n |-> -1, ovf |-> 0]
-----------------------------------------------------------------------------
\* The mode that T2CON selects.
ModeOf(v) ==
  IF v.CLK THEN "BAUDRATE" ELSE IF v.CP_RL2 THEN "CAPTURE" ELSE "RELOAD"

\* Edges are forgotten when the mode or TR changes.
Edges ==
  IF mode' # mode \/ cfg'.TR # cfg.TR
  THEN T_edge' = 0 /\ t2ex_edge' = 0
  ELSE UNCHANGED <<T_edge, t2ex_edge>>

\* cl_serial::happen for EV_T2_MODE_CHANGED
Inform(v) ==
  IF mode' # mode
  THEN t2_baud' = v.CLK
  ELSE UNCHANGED t2_baud

\* cl_timer2::write for T2CON
WriteT2con(v, f) ==
  /\ cfg' = v /\ flags' = f /\ mode' = ModeOf(v) /\ exf2it' = TRUE
  /\ Inform(v) /\ Edges /\ Written
  /\ UNCHANGED <<count, rcap, high, cex>>

\* cl_timer2::write for T2MOD
WriteT2mod(dcen) ==
  LET down == dcen /\ mode = "RELOAD"
  IN /\ mode' = IF down THEN "DOWN" ELSE mode
     /\ exf2it' = ~down
     /\ cfg' = cfg /\ Edges /\ Written
     /\ UNCHANGED <<flags, count, rcap, high, cex, t2_baud>>

\* TL2, TH2, RCAP2L and RCAP2H are plain cells.
WriteCount(c) ==
  /\ count' = c /\ Written
  /\ UNCHANGED <<mode, cfg, flags, rcap, high, T_edge, t2ex_edge, exf2it, cex,
                 t2_baud>>

WriteRcap(r) ==
  /\ rcap' = r /\ Written
  /\ UNCHANGED <<mode, cfg, flags, count, high, T_edge, t2ex_edge, exf2it, cex,
                 t2_baud>>

\* cl_timer2::happen: falling edges
Port1(new) ==
  LET fell == high \ new
  IN /\ new # high
     /\ "T2" \in fell => T_edge < MaxEdges
     /\ "T2EX" \in fell => t2ex_edge < MaxEdges
     /\ high' = new
     /\ T_edge' = IF "T2" \in fell THEN T_edge + 1 ELSE T_edge
     /\ t2ex_edge' = IF "T2EX" \in fell THEN t2ex_edge + 1 ELSE t2ex_edge
     /\ Written
     /\ UNCHANGED <<mode, cfg, flags, count, rcap, exf2it, cex, t2_baud>>

\* cl_uc52::clear_sfr: the cells are cleared and T2CON is written, T2MOD is
\* not.  Writing P1 raises lines, which is no falling edge.
Reset ==
  /\ cfg' = NoBits /\ flags' = {} /\ mode' = ModeOf(NoBits) /\ exf2it' = TRUE
  /\ Inform(NoBits) /\ Edges /\ Written
  /\ count' = 0 /\ rcap' = 0 /\ cex' = TRUE
  /\ \E new \in SUBSET Lines : high \subseteq new /\ high' = new
-----------------------------------------------------------------------------
\* An edge on T2EX that EXEN2 lets in.
External == cfg.EXEN2 /\ t2ex_edge > 0

\* Pulses one after the other from the count c.
Pulses(Pulse(_), c, n) ==
  LET after[i \in 0 .. n] == IF i = 0 THEN c ELSE Pulse(after[i - 1])
  IN after[n]

\* Seeded fault: the count continues from zero.
Fault_Up(c) ==
  IF c.count = Word - 1 THEN [count |-> 0, ovf |-> c.ovf + 1]
                        ELSE [c EXCEPT !.count = @ + 1]

Up(c) ==
  IF c.count = Word - 1 THEN [count |-> rcap, ovf |-> c.ovf + 1]
                        ELSE [c EXCEPT !.count = @ + 1]

Down(c) ==
  LET d == (c.count - 1) % Word
  IN IF d < rcap THEN [count |-> Word - 1, ovf |-> c.ovf + 1]
                 ELSE [c EXCEPT !.count = d]

From(c) == [count |-> c, ovf |-> 0]

\* do_t2_baud and do_t2_down count edges with C_T
Fed(cycles) == IF cfg.C_T THEN T_edge ELSE cycles

TakeEdges == T_edge' = IF cfg.TR /\ cfg.C_T THEN 0 ELSE T_edge

\* do_t2_baud: overflows go to the serial interface, TF2 is left alone.
TickBaud(cycles) ==
  LET n == IF ~cfg.TR THEN 0
           ELSE IF cfg.C_T THEN T_edge ELSE BaudFactor * cycles
      c == Pulses(Up, From(count), n)
  IN /\ mode = "BAUDRATE"
     /\ flags' = IF External THEN flags \cup {"EXF2"} ELSE flags
     /\ t2ex_edge' = IF External THEN 0 ELSE t2ex_edge
     /\ count' = c.count /\ last' = [n |-> n, ovf |-> c.ovf]
     /\ TakeEdges /\ UNCHANGED <<rcap, cex>>

\* do_t2_capture: one pulse, whatever the cycles or edges
TickCapture ==
  LET n == IF cfg.TR THEN 1 ELSE 0
  IN /\ mode = "CAPTURE"
     /\ rcap' = IF External THEN count ELSE rcap
     /\ t2ex_edge' = IF External THEN 0 ELSE t2ex_edge
     /\ flags' = flags \cup (IF External THEN {"EXF2"} ELSE {})
                       \cup (IF count + n = Word THEN {"TF2"} ELSE {})
     /\ count' = (count + n) % Word
     /\ last' = [n |-> -1, ovf |-> 0]
     /\ TakeEdges /\ UNCHANGED cex

\* do_t2_reload: an edge reloads, then one pulse as above
TickReload ==
  LET n == IF cfg.TR THEN 1 ELSE 0
      c == Pulses(Up, From(IF External THEN rcap ELSE count), n)
  IN /\ mode = "RELOAD"
     /\ t2ex_edge' = IF External THEN 0 ELSE t2ex_edge
     /\ flags' = flags \cup (IF External THEN {"EXF2"} ELSE {})
                       \cup (IF c.ovf > 0 THEN {"TF2"} ELSE {})
     /\ count' = c.count
     /\ last' = IF External THEN [n |-> -1, ovf |-> 0]
                ELSE [n |-> n, ovf |-> c.ovf]
     /\ TakeEdges /\ UNCHANGED <<rcap, cex>>

\* do_t2_down: T2EX selects the direction, and bit 6 of P1 is toggled.
TickDown(cycles) ==
  LET n == IF cfg.TR THEN Fed(cycles) ELSE 0
      c == IF "T2EX" \in high THEN Pulses(Up, From(count), n)
                              ELSE Pulses(Down, From(count), n)
  IN /\ mode = "DOWN"
     /\ count' = c.count
     /\ flags' = IF c.ovf > 0 THEN flags \cup {"TF2"} ELSE flags
     /\ cex' = IF c.ovf > 0 THEN ~cex ELSE cex
     /\ last' = IF "T2EX" \in high THEN [n |-> n, ovf |-> c.ovf]
                ELSE [n |-> -2, ovf |-> 0]
     /\ TakeEdges /\ UNCHANGED <<rcap, t2ex_edge>>

Tick(cycles) ==
  /\ TickBaud(cycles) \/ TickCapture \/ TickReload \/ TickDown(cycles)
  /\ UNCHANGED <<mode, cfg, high, exf2it, t2_baud>>

Next ==
  \/ \E c \in 1 .. MaxCycles : Tick(c)
  \/ \E v \in T2con, f \in SUBSET {"TF2", "EXF2"} : WriteT2con(v, f)
  \/ \E d \in BOOLEAN : WriteT2mod(d)
  \/ \E c \in Words : WriteCount(c) \/ WriteRcap(c)
  \/ \E new \in SUBSET Lines : Port1(new)
  \/ Reset

Spec == Init /\ [][Next]_vars
-----------------------------------------------------------------------------
Counter ==
  INSTANCE PulseCounter
    WITH value <- count, top <- Word, reload <- rcap,
         fed <- IF last.n < 0 THEN -1 ELSE last.n, ovf <- last.ovf

(* The serial interface uses timer 2 as its clock exactly when T2CON as    *)
(* last written, or a reset, says so, although it is only told when the    *)
(* mode changes and T2MOD changes the mode without telling it (write,      *)
(* happen).  With it, the types: the count stays within its two registers. *)
BaudKnown == TypeOK /\ (t2_baud <=> cfg.CLK)

(* Counting up, timer 2 counts every pulse it is given and continues from  *)
(* RCAP2, and as many overflows reach the serial interface as there were,  *)
(* also when one instruction brings several (do_t2_baud, do_t2_reload,     *)
(* do_t2_down).  A count down from RCAP2 or above that starts again is     *)
(* flagged, unless it counts down to zero, which the comparison of         *)
(* do_t2_down never takes for an end; from below RCAP2 it may pass zero    *)
(* unnoticed.  All the while the serial interface knows whether timer 2 is *)
(* its clock.                                                              *)
T2CountsPulses ==
  /\ Counter!Spec
  /\ []BaudKnown
  /\ [][last'.n = -2 /\ 0 < rcap /\ rcap <= count /\ count < count'
          => "TF2" \in flags']_vars
=============================================================================

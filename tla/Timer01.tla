------------------------------- MODULE Timer01 -------------------------------
(***************************************************************************)
(* Timer 0 or timer 1 of the MCS51: an object of cl_timer0 or cl_timer1.   *)
(*                                                                         *)
(* `id' tells which of the two it is; they share TCON, and timer 0 in mode *)
(* 3 takes over the bits of timer 1.  Registers are written by             *)
(* instructions and by console commands, port 3 changes by either, and the *)
(* hardware is ticked after every instruction with the cycles it took.     *)
(***************************************************************************)
EXTENDS Integers, FiniteSets

CONSTANTS
  Byte,       \* values of a register (256)
  Pre,        \* values of the precounter of mode 0 (32)
  MaxCycles,  \* cycles of the longest instruction (4)
  MaxEdges    \* bound: edges of T between two ticks

ASSUME TimerAssumption ==
  /\ Byte \in Nat \ {0, 1} /\ Pre \in Nat \ {0, 1} /\ Byte % Pre = 0
  /\ MaxCycles \in Nat \ {0} /\ MaxEdges \in Nat

Ids   == {0, 1}
Bytes == 0 .. Byte - 1
Lines == {"T", "INT"}  \* the pins of port 3 the timer looks at

\* The timer's half of TMOD.
Tmod == [mode : 0 .. 3, GATE : BOOLEAN, C_T : BOOLEAN]

\* What the members of the object hold: the constructor leaves them
\* uninitialized, and 4 stands for any number that is not a mode.
Members == [mode : 0 .. 4, GATE : BOOLEAN, C_T : BOOLEAN]

VARIABLES
  id,
  tmod,    \* the timer's half of the register TMOD
  cfg,     \* what cl_timer0::write took from TMOD: mode, GATE, C_T
  TR, TF,  \* the timers whose TR and TF bits of TCON are set
  tl, th,
  high,    \* the lines that are high
  T_edge,
  last     \* the last step: pulses and overflows, of the timer and, in mode
           \* 3, of TH; pulses are -1 when registers were written

regs == <<tmod, cfg>>
vars == <<id, tmod, cfg, TR, TF, tl, th, high, T_edge, last>>

TypeOK ==
  /\ id \in Ids /\ tmod \in Tmod /\ cfg \in Members
  /\ TR \subseteq Ids /\ TF \subseteq Ids
  /\ tl \in Bytes /\ th \in Bytes
  /\ high \subseteq Lines /\ T_edge \in 0 .. MaxEdges
  /\ last.n \in Int /\ last.ovf \in Nat /\ last.nh \in Int /\ last.ovfh \in Nat

Zero == [mode |-> 0, GATE |-> FALSE, C_T |-> FALSE]

Written == last' = [n |-> -1, ovf |-> 0, nh |-> -1, ovfh |-> 0]

Init ==
  /\ id \in Ids /\ tmod = Zero /\ cfg \in Members
  /\ TR = {} /\ TF = {} /\ tl = 0 /\ th = 0
  /\ high = Lines /\ T_edge = 0
  /\ last = [n |-> -1, ovf |-> 0, nh |-> -1, ovfh |-> 0]
-----------------------------------------------------------------------------
(* One pulse in each mode, on the count c: its registers and the overflows *)
(* of TL or TH,TL and of TH alone.                                         *)

Inc(b) == (b + 1) % Byte

Pulse0(c) ==
  LET l == Inc(c.tl)
  IN IF l % Pre # 0 THEN [c EXCEPT !.tl = l]
     ELSE [c EXCEPT !.tl = 0, !.th = Inc(@),
                    !.ovf = IF Inc(c.th) = 0 THEN @ + 1 ELSE @]

Pulse1(c) ==
  LET l == Inc(c.tl)
  IN IF l # 0 THEN [c EXCEPT !.tl = l]
     ELSE [c EXCEPT !.tl = 0, !.th = Inc(@),
                    !.ovf = IF Inc(c.th) = 0 THEN @ + 1 ELSE @]

\* Seeded fault: the pulse that overflows is counted after the reload.
Fault_Pulse2(c) ==
  IF Inc(c.tl) # 0 THEN [c EXCEPT !.tl = Inc(@)]
  ELSE [c EXCEPT !.tl = Inc(c.th), !.ovf = @ + 1]

Pulse2(c) ==
  IF Inc(c.tl) # 0 THEN [c EXCEPT !.tl = Inc(@)]
  ELSE [c EXCEPT !.tl = c.th, !.ovf = @ + 1]

Pulse3(c) == [c EXCEPT !.tl = Inc(@), !.ovf = IF Inc(c.tl) = 0 THEN @ + 1 ELSE @]

PulseTH(c) == [c EXCEPT !.th = Inc(@), !.ovfh = IF Inc(c.th) = 0 THEN @ + 1 ELSE @]

\* n pulses, one after the other
Pulses(Pulse(_), c, n) ==
  LET after[i \in 0 .. n] == IF i = 0 THEN c ELSE Pulse(after[i - 1])
  IN after[n]
-----------------------------------------------------------------------------
\* TR is set and the gate is open.
Running == id \in TR /\ (cfg.GATE => "INT" \in high)

\* Timer 1 stops in mode 3 and leaves its edges alone; tick does nothing
\* when mode is not a mode.
Counting ==
  Running /\ cfg.mode # 4 /\ ~(id = 1 /\ cfg.mode = 3)

\* The pulses of a tick.
Fed(cycles) ==
  IF ~Counting THEN 0 ELSE IF cfg.C_T THEN T_edge ELSE cycles

\* Mode 3 of timer 0: TH counts cycles under TR1.
FedTH(cycles) ==
  IF id = 0 /\ cfg.mode = 3 /\ 1 \in TR THEN cycles ELSE 0

Now == [tl |-> tl, th |-> th, ovf |-> 0, ovfh |-> 0]

\* cl_timer0::do_mode0 to do_mode3, cl_timer1::do_mode3
do_mode(n, nh) ==
  CASE cfg.mode = 0 -> Pulses(Pulse0, Now, n)
    [] cfg.mode = 1 -> Pulses(Pulse1, Now, n)
    [] cfg.mode = 2 -> Pulses(Pulse2, Now, n)
    [] cfg.mode = 3 -> Pulses(PulseTH, Pulses(Pulse3, Now, n), nh)
    [] OTHER        -> Now

\* Overflows set TF, those of TH in mode 3 set TF1.
Tick(cycles) ==
  LET n  == Fed(cycles)
      nh == FedTH(cycles)
      c  == do_mode(n, nh)
  IN /\ tl' = c.tl /\ th' = c.th
     /\ TF' = TF \cup (IF c.ovf > 0 THEN {id} ELSE {})
                 \cup (IF c.ovfh > 0 THEN {1} ELSE {})
     /\ T_edge' = IF Counting /\ cfg.C_T THEN 0 ELSE T_edge
     /\ last' = [n |-> n, ovf |-> c.ovf, nh |-> nh, ovfh |-> c.ovfh]
     /\ UNCHANGED <<id, tmod, cfg, TR, high>>
-----------------------------------------------------------------------------
\* cl_timer0::write for TMOD and TCON
WriteTmod(v) ==
  /\ tmod' = v /\ cfg' = v /\ T_edge' = 0 /\ Written
  /\ UNCHANGED <<id, TR, TF, tl, th, high>>

WriteTcon(r, f) ==
  /\ TR' = r /\ TF' = f /\ T_edge' = 0 /\ Written
  /\ UNCHANGED <<id, tmod, cfg, tl, th, high>>

\* TL and TH are plain cells.
WriteTL(b) ==
  tl' = b /\ Written /\ UNCHANGED <<id, regs, TR, TF, th, high, T_edge>>

WriteTH(b) ==
  th' = b /\ Written /\ UNCHANGED <<id, regs, TR, TF, tl, high, T_edge>>

\* cl_timer0::happen
Port3(new) ==
  LET rising == "T" \in new \ high
  IN /\ new # high /\ (rising => T_edge < MaxEdges)
     /\ high' = new
     /\ T_edge' = IF rising THEN T_edge + 1 ELSE T_edge
     /\ Written /\ UNCHANGED <<id, regs, TR, TF, tl, th>>

\* do_interrupt clears the request of the source it accepts.
Accept(t) ==
  /\ t \in TF /\ TF' = TF \ {t}
  /\ Written /\ UNCHANGED <<id, regs, TR, tl, th, high, T_edge>>

\* The other timer sets its flag, timer 0 in mode 3 that of timer 1 as well.
OtherOverflow ==
  /\ \E t \in {1 - id} \cup {1} : TF' = TF \cup {t}
  /\ Written /\ UNCHANGED <<id, regs, TR, tl, th, high, T_edge>>

\* clear_sfr clears every register behind the timer's back and then writes
\* P3 and TCON, but not TMOD.
Reset ==
  /\ tmod' = Zero /\ TR' = {} /\ TF' = {} /\ tl' = 0 /\ th' = 0
  /\ \E new \in SUBSET Lines : high \subseteq new /\ high' = new
  /\ T_edge' = 0 /\ Written /\ UNCHANGED <<id, cfg>>

Next ==
  \/ \E c \in 1 .. MaxCycles : Tick(c)
  \/ \E v \in Tmod : WriteTmod(v)
  \/ \E r, f \in SUBSET Ids : WriteTcon(r, f)
  \/ \E b \in Bytes : WriteTL(b) \/ WriteTH(b)
  \/ \E new \in SUBSET Lines : Port3(new)
  \/ \E t \in Ids : Accept(t)
  \/ OtherOverflow
  \/ Reset

Spec == Init /\ [][Next]_vars
-----------------------------------------------------------------------------
(* The count of each mode, what it counts to and where it continues.       *)
Value ==
  CASE cfg.mode = 0 -> th * Pre + (tl % Pre)
    [] cfg.mode = 1 -> th * Byte + tl
    [] OTHER        -> tl

Top ==
  CASE cfg.mode = 0 -> Byte * Pre
    [] cfg.mode = 1 -> Byte * Byte
    [] OTHER        -> Byte

Main ==
  INSTANCE PulseCounter
    WITH value <- Value, top <- Top, reload <- IF cfg.mode = 2 THEN th ELSE 0,
         fed <- last.n, ovf <- last.ovf

Half ==
  INSTANCE PulseCounter
    WITH value <- th, top <- Byte, reload <- 0,
         fed <- IF cfg.mode = 3 THEN last.nh ELSE -1,
         ovf <- IF cfg.mode = 3 THEN last.ovfh ELSE 0

(* In every mode the timer counts all its pulses and reports all its       *)
(* overflows, also when one instruction brings several pulses or several   *)
(* overflows, and in mode 3 of timer 0 TH is a counter of its own: the     *)
(* loops of do_mode0 to do_mode3 compute what PulseCounter states in       *)
(* closed form.  With it, the types: a register stays a byte.              *)
CountsPulses == []TypeOK /\ Main!Spec /\ Half!Spec
=============================================================================

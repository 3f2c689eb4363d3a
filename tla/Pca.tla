-------------------------------- MODULE Pca --------------------------------
(***************************************************************************)
(* The programmable counter array of the 89C51R: cl_pca (pca.cc).  CH,CL   *)
(* is one number.  The capture and compare modules are only looked at when *)
(* it overflows.  CCAPM holds the names of its bits; MAT and ECCF are left *)
(* out, since write only takes them for cells that it is never called for. *)
(***************************************************************************)
EXTENDS Integers, FiniteSetsExt

CONSTANTS
  Byte,      \* values of CL (2^8)
  Mods,      \* the modules
  Watchdog,  \* the module that WDTE makes a watchdog (4)
  CcapmSet,  \* the values of CCAPM tried
  PcaCycles, \* cycles of the longest instruction
  PcaEdges,  \* bound: pulses of timer 0 or of ECI between two ticks
  PcaSteps   \* bound: steps of a behaviour

ASSUME PcaAssumption ==
  /\ Byte \in Nat \ {0, 1} /\ PcaCycles \in Nat \ {0} /\ PcaEdges \in Nat /\ PcaSteps \in Nat
  /\ CcapmSet \subseteq SUBSET {"ECOM", "CAPP", "CAPN", "TOG", "PWM"}
  /\ Watchdog \in Nat /\ Mods \subseteq Nat /\ \E n \in Mods \cup {0} : Mods \subseteq 0 .. n

Top == Byte * Byte
\* bmCPS1|bmCPS0 of CMOD: a pulse per cycle, three per cycle, timer 0, ECI
Sources == {"cycle", "three", "t0", "eci"}
\* The pins of port 1 and the flags of CCON: a module has its own of each.
ECI == -1
CF == -1
Pins == Mods \cup {ECI}

VARIABLES
  cmod, CR,          \* what write took from CMOD, and the bit CR of CCON
  ccapm, ccap,       \* per module: the mode and CCAPH,CCAPL
  chl, ccon,         \* CH,CL and the flags of CCON: CF and the modules
  pulses,            \* t0_overflows and ECI_edge
  cex_pos, cex_neg,  \* the modules that saw an edge
  p1, pins,          \* the latch of port 1 and what is connected to it
  pcaLast,           \* the last step: its pulses (-1: registers written) and overflows
  seen,              \* history: the edges since CCAPM was changed, and those
                     \* to high since the last capture
  pcaDone            \* bound: steps taken

pcaVars == <<cmod, CR, ccapm, ccap, chl, ccon, pulses, cex_pos, cex_neg, p1, pins, pcaLast, seen,
             pcaDone>>

PcaTypeOK ==
  /\ cmod \in [clk : Sources, CIDL : BOOLEAN, WDTE : BOOLEAN] /\ CR \in BOOLEAN
  /\ ccapm \in [Mods -> CcapmSet] /\ ccap \in [Mods -> 0 .. Top - 1] /\ chl \in 0 .. Top - 1
  /\ ccon \subseteq Mods \cup {CF} /\ pulses \in [t0 : 0 .. PcaEdges, eci : 0 .. PcaEdges]
  /\ cex_pos \cup cex_neg \subseteq Mods /\ p1 \subseteq Pins /\ pins \subseteq Pins

NoPulses == [t0 |-> 0, eci |-> 0]
PcaWritten == pcaLast' = [n |-> -1, ovf |-> 0]

\* After the reset of cl_uc::init, which leaves the members that CMOD, CCON and
\* CCAPM set as they are; the pins are high or low.
PcaInit ==
  /\ cmod \in [clk : Sources, CIDL : BOOLEAN, WDTE : BOOLEAN] /\ CR \in BOOLEAN
  /\ ccapm \in [Mods -> CcapmSet] /\ ccap = [m \in Mods |-> 0] /\ chl = 0 /\ ccon = {}
  /\ pulses = NoPulses /\ p1 = Pins /\ pins \in {{}, Pins}
  /\ cex_pos = pins \cap Mods /\ cex_neg = {} /\ seen = [up |-> cex_pos, any |-> cex_pos]
  /\ pcaLast = [n |-> -1, ovf |-> 0] /\ pcaDone = 0
-----------------------------------------------------------------------------
WriteCmod ==
  /\ \E v \in [clk : Sources, CIDL : BOOLEAN, WDTE : BOOLEAN] :
       /\ cmod' = v
       /\ pulses' = IF v.clk # cmod.clk THEN NoPulses ELSE pulses
  /\ PcaWritten
  /\ UNCHANGED <<CR, ccapm, ccap, chl, ccon, cex_pos, cex_neg, p1, pins, seen>>

WriteCcon ==
  /\ CR' \in BOOLEAN /\ ccon' \in SUBSET (Mods \cup {CF}) /\ PcaWritten
  /\ UNCHANGED <<cmod, ccapm, ccap, chl, pulses, cex_pos, cex_neg, p1, pins, seen>>

\* Seeded fault: the edges seen in the old mode are kept.
Fault_WriteCcapm ==
  \E m \in Mods, v \in CcapmSet :
    /\ ccapm' = [ccapm EXCEPT ![m] = v]
    /\ UNCHANGED <<cex_pos, cex_neg>>
    /\ seen' = IF v # ccapm[m] THEN [up |-> seen.up \ {m}, any |-> seen.any \ {m}] ELSE seen
    /\ PcaWritten /\ UNCHANGED <<cmod, CR, ccap, chl, ccon, pulses, p1, pins>>

\* A new mode of a module forgets its edges.
WriteCcapm ==
  \E m \in Mods, v \in CcapmSet :
    LET forgets == IF v # ccapm[m] THEN {m} ELSE {}
    IN /\ ccapm' = [ccapm EXCEPT ![m] = v]
       /\ cex_pos' = cex_pos \ forgets /\ cex_neg' = cex_neg \ forgets
       /\ seen' = [up |-> seen.up \ forgets, any |-> seen.any \ forgets]
       /\ PcaWritten /\ UNCHANGED <<cmod, CR, ccap, chl, ccon, pulses, p1, pins>>

\* CL, CH, CCAPL and CCAPH are cells that nobody watches.
WriteCells ==
  /\ \/ chl' \in 0 .. Top - 1 /\ UNCHANGED ccap
     \/ \E m \in Mods, v \in 0 .. Top - 1 : ccap' = [ccap EXCEPT ![m] = v] /\ UNCHANGED chl
  /\ PcaWritten
  /\ UNCHANGED <<cmod, CR, ccapm, ccon, pulses, cex_pos, cex_neg, p1, pins, seen>>

\* happen: an overflow of timer 0
HappenOverflow ==
  /\ pulses.t0 < PcaEdges /\ pulses' = [pulses EXCEPT !.t0 = @ + 1] /\ PcaWritten
  /\ UNCHANGED <<cmod, CR, ccapm, ccap, chl, ccon, cex_pos, cex_neg, p1, pins, seen>>

\* happen: the latch or the pins of port 1 are changed
HappenPort ==
  /\ \/ p1' \in SUBSET Pins /\ UNCHANGED pins
     \/ pins' \in SUBSET Pins /\ UNCHANGED p1
  /\ LET falling == (p1 \cap pins) \ (p1' \cap pins')
         rising == (p1' \cap pins') \ (p1 \cap pins)
     IN /\ ECI \in falling => pulses.eci < PcaEdges
        /\ pulses' = IF ECI \in falling THEN [pulses EXCEPT !.eci = @ + 1] ELSE pulses
        /\ cex_neg' = cex_neg \cup (falling \cap Mods)
        /\ cex_pos' = cex_pos \cup (rising \cap Mods)
        /\ seen' = [up |-> seen.up \cup (rising \cap Mods),
                    any |-> seen.any \cup ((falling \cup rising) \cap Mods)]
  /\ PcaWritten /\ UNCHANGED <<cmod, CR, ccapm, ccap, chl, ccon>>

\* cl_pca::reset, then clear_sfr: CH, CL, CCON and the other registers are
\* cleared as cells, and P1 goes from zero to ones, which raises the pins that
\* are high.
PcaReset ==
  /\ pulses' = NoPulses /\ cex_pos' = pins \cap Mods /\ cex_neg' = {}
  /\ seen' = [up |-> cex_pos', any |-> cex_pos']
  /\ ccap' = [m \in Mods |-> 0] /\ chl' = 0 /\ ccon' = {} /\ p1' = Pins
  /\ PcaWritten /\ UNCHANGED <<cmod, CR, ccapm, pins>>
-----------------------------------------------------------------------------
\* The state of the count, as do_pca_counter passes it on.
Now == [chl |-> chl, ccap |-> ccap, ccon |-> ccon, pulses |-> pulses, pos |-> cex_pos,
        neg |-> cex_neg, p1 |-> p1, ovf |-> 0, took |-> {}]

Captures(s, m) ==
  \/ "CAPP" \in ccapm[m] /\ m \in s.pos
  \/ "CAPN" \in ccapm[m] /\ m \in s.neg

\* do_pca_module.  The edge that a capture takes is always the one to high.  A
\* match of the watchdog resets the array itself, not the processor.  PWM sets
\* the pin on both sides of the comparison.
do_pca_module(s, m) ==
  LET c == IF ~Captures(s, m) THEN s
           ELSE [s EXCEPT !.pos = @ \ {m}, !.ccap[m] = s.chl, !.ccon = @ \cup {m},
                          !.took = @ \cup {m}]
      match == c.chl = c.ccap[m]
      bites == match /\ m = Watchdog /\ cmod.WDTE
      t == IF ~match THEN c
           ELSE [c EXCEPT !.ccon = @ \cup {m},
                          !.p1 = IF "TOG" \notin ccapm[m] THEN @
                                 ELSE IF m \in @ THEN @ \ {m} ELSE @ \cup {m}]
  IN IF "ECOM" \notin ccapm[m] THEN c
     ELSE IF bites THEN [c EXCEPT !.pulses = NoPulses, !.pos = {}, !.neg = {}]
     ELSE [t EXCEPT !.p1 = IF "PWM" \in ccapm[m] THEN @ \cup {m} ELSE @]

\* A pulse: the carry of CL reloads CCAPL of the modules in PWM mode, and that
\* of CH calls the modules in turn.
PcaPulse(s) ==
  LET next == (s.chl + 1) % Top
      low(m) == IF "PWM" \in ccapm[m] THEN Byte * (s.ccap[m] \div Byte) + (s.ccap[m] \div Byte)
                ELSE s.ccap[m]
      r == [s EXCEPT !.chl = next,
                     !.ccap = IF next % Byte = 0 THEN [m \in Mods |-> low(m)] ELSE @]
      o == [r EXCEPT !.ccon = @ \cup {CF}, !.ovf = @ + 1]
  IN IF next # 0 THEN r
     ELSE IF Mods = {} THEN o
     ELSE LET turn[m \in Mods] ==
                LET before == {k \in Mods : k < m}
                IN do_pca_module(IF before = {} THEN o ELSE turn[Max(before)], m)
          IN turn[Max(Mods)]
do_pca_counter(s, n) ==
  LET after[k \in 0 .. n] == IF k = 0 THEN s ELSE PcaPulse(after[k - 1])
  IN after[n]

PcaTick(cycles, idle) ==
  LET n == CASE cmod.clk = "cycle" -> cycles
             [] cmod.clk = "three" -> 3 * cycles
             [] cmod.clk = "t0" -> pulses.t0
             [] OTHER -> pulses.eci
      s == do_pca_counter(Now, n)
  IN /\ CR /\ ~(idle /\ cmod.CIDL)
     /\ chl' = s.chl /\ ccap' = s.ccap /\ ccon' = s.ccon /\ p1' = s.p1
     /\ cex_pos' = s.pos /\ cex_neg' = s.neg
     /\ pulses' = CASE cmod.clk = "t0" -> [s.pulses EXCEPT !.t0 = 0]
                    [] cmod.clk = "eci" -> [s.pulses EXCEPT !.eci = 0]
                    [] OTHER -> s.pulses
     /\ pcaLast' = [n |-> n, ovf |-> s.ovf]
     /\ seen' = [seen EXCEPT !.up = @ \ s.took]
     /\ UNCHANGED <<cmod, CR, ccapm, pins>>

PcaNext ==
  /\ pcaDone < PcaSteps /\ pcaDone' = pcaDone + 1
  /\ \/ \E c \in 1 .. PcaCycles, idle \in BOOLEAN : PcaTick(c, idle)
     \/ WriteCmod \/ WriteCcon \/ WriteCcapm \/ WriteCells
     \/ HappenOverflow \/ HappenPort \/ PcaReset

PcaSpec == PcaInit /\ [][PcaNext]_pcaVars
-----------------------------------------------------------------------------
PcaCounter ==
  INSTANCE PulseCounter
    WITH value <- chl, top <- Top, reload <- 0, fed <- pcaLast.n, ovf <- pcaLast.ovf

(* The array counts every pulse of its clock, through any change of clock, *)
(* and flags every overflow.  A module that does not compare is flagged in *)
(* a tick only for an edge of its pin since its mode was set, and, when it *)
(* captures rising edges only, for one edge once (tick, do_pca_module).    *)
PcaCounts ==
  /\ PcaCounter!Spec
  /\ [](PcaTypeOK)
  /\ [][pcaLast'.n >= 0 =>
          /\ pcaLast'.ovf > 0 => CF \in ccon'
          /\ \A m \in (ccon' \ ccon) \ {CF} : "ECOM" \notin ccapm[m] =>
               m \in seen.any /\ ("CAPN" \notin ccapm[m] => m \in seen.up)]_pcaVars
=============================================================================

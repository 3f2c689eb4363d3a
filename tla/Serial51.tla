------------------------------ MODULE Serial51 ------------------------------
(***************************************************************************)
(* The serial interface of the MCS51: cl_serial.                           *)
(*                                                                         *)
(* It counts clocks in modes 0 and 2 and overflows of timer 1 or timer 2   *)
(* in modes 1 and 3, divides them into bits and bits into bytes.  Bytes    *)
(* are not told apart.  `trTime' and `recTime' are history: the pulses of  *)
(* the clock in use since the byte began, or -1 after the program changed  *)
(* the clock meanwhile.                                                    *)
(***************************************************************************)
EXTENDS Integers

CONSTANTS
  Cpc,             \* clock_per_cycle (12)
  Div0,            \* divisor of mode 0 (12)
  Fast, Slow,      \* divisors of the other modes with and without SMOD (16, 32)
  BitsOf,          \* mode -> bits of a byte (8, 10, 11, 11)
  MaxCycles,       \* cycles of the longest instruction (4)
  MaxClocks,       \* bound: clocks counted
  MaxOverflows     \* bound: timer overflows counted

ASSUME SerialAssumption ==
  /\ {Cpc, Div0, Fast, Slow, MaxCycles, MaxClocks, MaxOverflows} \subseteq Nat \ {0}
  /\ BitsOf \in [0 .. 3 -> Nat \ {0}]

VARIABLES
  mode, REN, SMOD, divby, bits,
  flags,      \* TI and RI in SCON
  t2_baud,
  s_sending, s_tr_bit, s_tr_tick, s_tr_t1,
  s_receiving, s_rec_bit, s_rec_tick, s_rec_t1,
  readable,   \* select reports a byte, or the end, on the input
  trTime, recTime

config == <<mode, REN, SMOD, divby, bits>>
sender == <<s_sending, s_tr_bit, s_tr_tick, s_tr_t1, trTime>>
receiver == <<s_receiving, s_rec_bit, s_rec_tick, s_rec_t1, recTime>>
vars == <<config, flags, t2_baud, sender, receiver, readable>>

TypeOK ==
  /\ mode \in 0 .. 3 /\ REN \in BOOLEAN /\ SMOD \in BOOLEAN
  /\ divby \in {Div0, Fast, Slow} /\ bits \in {BitsOf[m] : m \in 0 .. 3}
  /\ flags \subseteq {"TI", "RI"} /\ t2_baud \in BOOLEAN
  /\ s_sending \in BOOLEAN /\ s_receiving \in BOOLEAN /\ readable \in BOOLEAN
  /\ {s_tr_bit, s_tr_tick, s_tr_t1, s_rec_bit, s_rec_tick, s_rec_t1} \subseteq Nat
  /\ trTime \in Nat \cup {-1} /\ recTime \in Nat \cup {-1}

DivOf(m, fast) == IF m = 0 THEN Div0 ELSE IF fast THEN Fast ELSE Slow

Init ==
  /\ mode = 0 /\ REN = FALSE /\ SMOD = FALSE
  /\ divby = Div0 /\ bits = BitsOf[0] /\ flags = {} /\ t2_baud = FALSE
  /\ s_sending = FALSE /\ s_tr_bit = 0 /\ s_tr_tick = 0 /\ s_tr_t1 = 0
  /\ s_receiving = FALSE /\ s_rec_bit = 0 /\ s_rec_tick = 0 /\ s_rec_t1 = 0
  /\ readable = FALSE /\ trTime = -1 /\ recTime = -1
-----------------------------------------------------------------------------
\* The clock of a byte in progress is changed.
Disturbed == trTime' = -1 /\ recTime' = -1

\* cl_serial::write for SBUF: also restarts a byte that is being sent
WriteSbuf ==
  /\ s_sending' = TRUE /\ s_tr_bit' = 0 /\ s_tr_tick' = 0 /\ s_tr_t1' = 0
  /\ trTime' = 0
  /\ UNCHANGED <<config, flags, t2_baud, receiver, readable>>

\* for SCON
WriteScon(m, ren, f) ==
  /\ mode' = m /\ REN' = ren /\ flags' = f
  /\ bits' = BitsOf[m] /\ divby' = DivOf(m, SMOD)
  /\ IF m = mode /\ divby' = divby THEN UNCHANGED <<trTime, recTime>> ELSE Disturbed
  /\ UNCHANGED <<SMOD, t2_baud, s_sending, s_tr_bit, s_tr_tick, s_tr_t1,
                 s_receiving, s_rec_bit, s_rec_tick, s_rec_t1, readable>>

\* for PCON
WritePcon(smod) ==
  /\ SMOD' = smod /\ divby' = IF mode = 0 THEN divby ELSE DivOf(mode, smod)
  /\ IF divby' = divby THEN UNCHANGED <<trTime, recTime>> ELSE Disturbed
  /\ UNCHANGED <<mode, REN, bits, flags, t2_baud, s_sending, s_tr_bit, s_tr_tick,
                 s_tr_t1, s_receiving, s_rec_bit, s_rec_tick, s_rec_t1, readable>>

Timed == mode \in {1, 3}

Add(time, n) == IF time = -1 THEN -1 ELSE time + n

\* cl_serial::happen: an overflow of timer 1, or of timer 2 in baud rate mode
Overflow ==
  /\ s_tr_t1 < MaxOverflows /\ s_rec_t1 < MaxOverflows
  /\ s_tr_t1' = s_tr_t1 + 1 /\ s_rec_t1' = s_rec_t1 + 1
  /\ trTime' = IF Timed THEN Add(trTime, 1) ELSE trTime
  /\ recTime' = IF Timed THEN Add(recTime, 1) ELSE recTime
  /\ UNCHANGED <<config, flags, t2_baud, s_sending, s_tr_bit, s_tr_tick,
                 s_receiving, s_rec_bit, s_rec_tick, readable>>

\* cl_serial::happen: timer 2 changes its mode
T2ModeChanged(clk) ==
  /\ IF t2_baud THEN UNCHANGED <<s_tr_t1, s_rec_t1>>
                ELSE s_tr_t1' = 0 /\ s_rec_t1' = 0
  /\ t2_baud' = clk /\ Disturbed
  /\ UNCHANGED <<config, flags, s_sending, s_tr_bit, s_tr_tick,
                 s_receiving, s_rec_bit, s_rec_tick, readable>>
-----------------------------------------------------------------------------
(* One tick: serial_bit_cnt turns pulses into bits, then a byte may be     *)
(* complete, a byte may begin to arrive, and the cycles are counted.       *)

\* The divisor: timer 2 sets it, and leaves it when it stops being used.
NewDiv == IF t2_baud THEN Fast ELSE divby

\* Seeded fault: the pulses left over are dropped with every bit.
Fault_Counted(on, bit, tick, t1) ==
  LET src == IF Timed THEN t1 ELSE tick
      k   == IF on THEN src \div NewDiv ELSE 0
  IN [bit  |-> bit + k,
      tick |-> IF ~Timed /\ k > 0 THEN 0 ELSE tick,
      t1   |-> IF Timed /\ k > 0 THEN 0 ELSE t1]

\* Bits and the rest of the pulses.
Counted(on, bit, tick, t1) ==
  LET src == IF Timed THEN t1 ELSE tick
      k   == IF on THEN src \div NewDiv ELSE 0
  IN [bit  |-> bit + k,
      tick |-> IF Timed THEN tick ELSE tick - k * NewDiv,
      t1   |-> IF Timed THEN t1 - k * NewDiv ELSE t1]

\* Seeded fault: a byte is complete with its last bit begun.
Fault_Complete(on, c) == on /\ c.bit + 1 >= bits

Complete(on, c) == on /\ c.bit >= bits

\* A byte begins to arrive.
Begins == REN /\ readable /\ ~s_receiving

Tick(cycles) ==
  LET l    == cycles * Cpc
      tr   == Counted(s_sending, s_tr_bit, s_tr_tick, s_tr_t1)
      rec  == Counted(s_receiving, s_rec_bit, s_rec_tick, s_rec_t1)
      sent == Complete(s_sending, tr)
      got  == Complete(s_receiving, rec)
      lost == NewDiv # divby
  IN /\ tr.tick + l <= MaxClocks /\ rec.tick + l <= MaxClocks
     /\ divby' = NewDiv
     /\ s_sending' = (s_sending /\ ~sent)
     /\ s_tr_bit' = IF sent THEN tr.bit - bits ELSE tr.bit
     /\ s_tr_tick' = tr.tick + l /\ s_tr_t1' = tr.t1
     /\ s_receiving' = ((s_receiving \/ Begins) /\ ~got)
     /\ s_rec_bit' = IF Begins THEN 0 ELSE IF got THEN rec.bit - bits ELSE rec.bit
     /\ s_rec_tick' = IF Begins THEN l ELSE rec.tick + l
     /\ s_rec_t1' = IF Begins THEN 0 ELSE rec.t1
     \* read takes a byte, or nothing at the end of the input
     /\ \E byte \in BOOLEAN :
          /\ byte => got
          /\ flags' = flags \cup (IF sent THEN {"TI"} ELSE {})
                            \cup (IF byte THEN {"RI"} ELSE {})
          /\ readable' = (readable /\ ~byte)
     /\ trTime' = IF lost THEN -1 ELSE IF Timed THEN trTime ELSE Add(trTime, l)
     /\ recTime' = IF lost THEN -1
                   ELSE IF Begins THEN (IF Timed THEN 0 ELSE l)
                   ELSE IF Timed THEN recTime ELSE Add(recTime, l)
     /\ UNCHANGED <<mode, REN, SMOD, bits, t2_baud>>

\* external: input for the interface arrives
Arrive ==
  /\ ~readable /\ readable' = TRUE
  /\ UNCHANGED <<config, flags, t2_baud, sender, receiver>>

\* cl_serial::reset, and clear_sfr writes SCON and PCON
Reset ==
  /\ mode' = 0 /\ REN' = FALSE /\ SMOD' = FALSE
  /\ bits' = BitsOf[0] /\ divby' = DivOf(0, FALSE) /\ flags' = {}
  /\ s_sending' = FALSE /\ s_tr_bit' = 0 /\ s_tr_tick' = 0 /\ s_tr_t1' = 0
  /\ s_receiving' = FALSE /\ s_rec_bit' = 0 /\ s_rec_tick' = 0 /\ s_rec_t1' = 0
  /\ Disturbed /\ UNCHANGED <<t2_baud, readable>>

Next ==
  \/ WriteSbuf
  \/ \E m \in 0 .. 3, ren \in BOOLEAN, f \in SUBSET {"TI", "RI"} : WriteScon(m, ren, f)
  \/ \E smod \in BOOLEAN : WritePcon(smod)
  \/ Overflow
  \/ \E clk \in BOOLEAN : T2ModeChanged(clk)
  \/ \E c \in 1 .. MaxCycles : Tick(c)
  \/ Arrive
  \/ Reset

Spec == Init /\ [][Next]_vars
-----------------------------------------------------------------------------
Source(tick, t1) == IF Timed THEN t1 ELSE tick

(* While a byte is sent, the bits counted and the pulses left over add up  *)
(* to the pulses since SBUF was written, and while one arrives to those    *)
(* since it began: none is lost or counted twice by serial_bit_cnt, SBUF   *)
(* restarts all counters, and what an idle transmitter or the other clock  *)
(* counted does not shorten a byte.  With it, the types: no counter        *)
(* becomes negative.                                                       *)
BitsExact ==
  /\ TypeOK
  /\ s_sending /\ trTime # -1 =>
       s_tr_bit * divby + Source(s_tr_tick, s_tr_t1) = trTime
  /\ s_receiving /\ recTime # -1 =>
       s_rec_bit * divby + Source(s_rec_tick, s_rec_t1) = recTime

(* TI is set when a byte has had all its bit times, and RI likewise: a     *)
(* tick never ends a byte early.  TI is not late either: the first tick    *)
(* after the last bit time ends the byte (cl_serial::tick looks at the     *)
(* bits before it counts the cycles of the instruction, so that the last   *)
(* clocks wait for the next tick).                                         *)
BytesOnTime ==
  [][/\ s_sending /\ ~s_sending' /\ trTime' # -1 => trTime >= bits * divby
     /\ s_receiving /\ ~s_receiving' /\ recTime' # -1 => recTime >= bits * divby
     /\ s_sending /\ s_sending' /\ trTime # -1 /\ trTime' > trTime /\ ~Timed
          => trTime < bits * divby]_vars
=============================================================================

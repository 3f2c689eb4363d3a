--------------------------- MODULE Serial_proofs ----------------------------
(***************************************************************************)
(* The serial lines.  For all divisors, byte lengths and instruction       *)
(* times: the serial interface of the MCS51 neither loses nor doubles a    *)
(* pulse while a byte is on the line, and a byte takes all its bit times   *)
(* and not a tick more.  For all bytes the program sends and all lengths   *)
(* of a reception: the USARTs of the CC2530 send each byte as one frame.   *)
(***************************************************************************)
EXTENDS Serial51, Usart2530, TLAPS, SequenceTheorems

(* Division with a remainder, as serial_bit_cnt does it by subtraction.    *)
LEMMA DivFacts ==
  ASSUME NEW a \in Nat, NEW d \in Nat \ {0}
  PROVE  /\ a \div d \in Nat /\ (a \div d) * d <= a
         /\ a < (a \div d) * d + d
  OBVIOUS

(* Products of counts and divisors.                                        *)
LEMMA Distribute ==
  ASSUME NEW a \in Nat, NEW b \in Nat, NEW d \in Nat
  PROVE  (a + b) * d = a * d + b * d /\ a * d \in Nat
  OBVIOUS

(* More bits take no less time.                                            *)
LEMMA Monotone ==
  ASSUME NEW a \in Nat, NEW b \in Nat, NEW d \in Nat, a <= b
  PROVE  a * d <= b * d
  OBVIOUS

(* The divisor in use is one of the three, and not zero.                   *)
LEMMA DivPositive ==
  ASSUME TypeOK
  PROVE  divby \in Nat \ {0} /\ NewDiv \in Nat \ {0} /\ NewDiv \in {Div0, Fast, Slow}
  BY SerialAssumption DEF TypeOK, NewDiv

(* A byte has a bit at least.                                              *)
LEMMA BitsPositive ==
  ASSUME TypeOK
  PROVE  bits \in Nat \ {0}
  BY SerialAssumption DEF TypeOK

(* serial_bit_cnt exchanges pulses for bits at the rate of the divisor:    *)
(* the total stays, and an active side keeps less than a bit of pulses.    *)
LEMMA CountedExact ==
  ASSUME TypeOK, NEW on \in BOOLEAN, NEW bit \in Nat, NEW tick \in Nat, NEW t1 \in Nat
  PROVE  LET c == Counted(on, bit, tick, t1) IN
         /\ c.bit \in Nat /\ c.tick \in Nat /\ c.t1 \in Nat
         /\ c.bit * NewDiv + Source(c.tick, c.t1) = bit * NewDiv + Source(tick, t1)
         /\ on => Source(c.tick, c.t1) < NewDiv
         /\ ~on => c.bit = bit
  <1> DEFINE c   == Counted(on, bit, tick, t1)
             d   == NewDiv
             src == Source(tick, t1)
             k   == IF on THEN src \div d ELSE 0
  <1>1. d \in Nat \ {0}
    BY DivPositive
  <1>2. src \in Nat
    BY DEF Source
  <1>3. c = [bit |-> bit + k,
             tick |-> IF Timed THEN tick ELSE tick - k * d,
             t1 |-> IF Timed THEN t1 - k * d ELSE t1]
    BY DEF Counted, Source
  <1> HIDE DEF c, d
  <1>4. k \in Nat /\ k * d <= src /\ (on => src < k * d + d)
    <2>1. CASE on
      BY <1>1, <1>2, <2>1, DivFacts
    <2>2. CASE ~on
      BY <1>1, <1>2, <2>2
    <2> QED BY <2>1, <2>2
  <1>5. (bit + k) * d = bit * d + k * d /\ k * d \in Nat /\ bit * d \in Nat
    BY <1>1, <1>4, Distribute
  <1>6. ~on => k = 0
    OBVIOUS
  <1> HIDE DEF k
  <1>7. c.bit = bit + k /\ Source(c.tick, c.t1) = src - k * d
    BY <1>3 DEF Source
  <1> HIDE DEF src
  <1>8. c.bit * d + Source(c.tick, c.t1) = bit * d + src
    BY <1>1, <1>2, <1>4, <1>5, <1>7
  <1>9. c.tick \in Nat /\ c.t1 \in Nat
    BY <1>3, <1>4, <1>5 DEF src, Source
  <1>10. on => Source(c.tick, c.t1) < d
    BY <1>1, <1>2, <1>4, <1>5, <1>7
  <1> QED BY <1>4, <1>6, <1>7, <1>8, <1>9, <1>10 DEF c, d, src

(* A byte that is complete has had all its bit times, and one that is not  *)
(* still lacks pulses.                                                     *)
LEMMA CompleteOnTime ==
  ASSUME TypeOK, NEW bit \in Nat, NEW tick \in Nat, NEW t1 \in Nat
  PROVE  LET c == Counted(TRUE, bit, tick, t1)
             time == bit * NewDiv + Source(tick, t1) IN
         /\ Complete(TRUE, c) => time >= bits * NewDiv
         /\ ~Complete(TRUE, c) => time < bits * NewDiv
  <1> DEFINE c == Counted(TRUE, bit, tick, t1)
             time == bit * NewDiv + Source(tick, t1)
             rest == Source(c.tick, c.t1)
  <1>1. NewDiv \in Nat \ {0} /\ bits \in Nat
    BY DivPositive, BitsPositive
  <1>2. /\ c.bit \in Nat /\ c.tick \in Nat /\ c.t1 \in Nat
        /\ c.bit * NewDiv + rest = time /\ rest < NewDiv
    BY CountedExact
  <1>3. rest \in Nat
    BY <1>2 DEF Source
  <1> HIDE DEF c, time, rest
  <1>4. CASE c.bit >= bits
    <2>1. bits * NewDiv <= c.bit * NewDiv /\ bits * NewDiv \in Nat /\ c.bit * NewDiv \in Nat
      BY <1>1, <1>2, <1>4, Monotone, Distribute
    <2>2. time >= bits * NewDiv
      BY <1>2, <1>3, <2>1
    <2> QED BY <1>4, <2>2 DEF Complete, c, time
  <1>5. CASE ~(c.bit >= bits)
    <2>1. c.bit + 1 <= bits
      BY <1>1, <1>2, <1>5
    <2>2. (c.bit + 1) * NewDiv <= bits * NewDiv
      BY <1>1, <1>2, <2>1, Monotone
    <2>3. (c.bit + 1) * NewDiv = c.bit * NewDiv + NewDiv
      BY <1>1, <1>2, Distribute
    <2>4. bits * NewDiv \in Nat /\ c.bit * NewDiv \in Nat
      BY <1>1, <1>2, Distribute
    <2>5. time < bits * NewDiv
      BY <1>1, <1>2, <1>3, <2>2, <2>3, <2>4
    <2> QED BY <1>5, <2>5 DEF Complete, c, time
  <1> QED BY <1>4, <1>5
-----------------------------------------------------------------------------
(* What a tick of l clocks does to the sender and, when no byte begins, to *)
(* the receiver: both are the same arithmetic.                             *)
SideKept(on, bit, tick, t1, time, l) ==
  LET c == Counted(on, bit, tick, t1)
      new == IF NewDiv # divby THEN -1
             ELSE IF Timed THEN time ELSE Add(time, l) IN
  /\ new \in Nat \cup {-1}
  /\ (IF Complete(on, c) THEN c.bit - bits ELSE c.bit) \in Nat
  /\ c.tick + l \in Nat /\ c.t1 \in Nat
  /\ on /\ new # -1 =>
       c.bit * NewDiv + Source(c.tick + l, c.t1) = new

(* One direction of a tick: bits and pulses left over add up to the time,  *)
(* before and after (serial_bit_cnt, tick).                                *)
LEMMA SideTick ==
  ASSUME TypeOK, NEW on \in BOOLEAN, NEW bit \in Nat, NEW tick \in Nat, NEW t1 \in Nat,
         NEW time \in Nat \cup {-1}, NEW l \in Nat,
         on /\ time # -1 => bit * divby + Source(tick, t1) = time
  PROVE  SideKept(on, bit, tick, t1, time, l)
  <1> DEFINE c == Counted(on, bit, tick, t1)
  <1>1. /\ c.bit \in Nat /\ c.tick \in Nat /\ c.t1 \in Nat
        /\ c.bit * NewDiv + Source(c.tick, c.t1) = bit * NewDiv + Source(tick, t1)
    BY CountedExact
  <1>2. bits \in Nat /\ NewDiv \in Nat
    BY BitsPositive, DivPositive
  <1> HIDE DEF c
  <1>3. c.bit * NewDiv \in Nat
    BY <1>1, <1>2, Distribute
  <1>4. Source(c.tick + l, c.t1) = IF Timed THEN Source(c.tick, c.t1) ELSE Source(c.tick, c.t1) + l
    BY DEF Source
  <1>5. Source(c.tick, c.t1) \in Nat
    BY <1>1 DEF Source
  <1>6. (IF Complete(on, c) THEN c.bit - bits ELSE c.bit) \in Nat
    BY <1>1, <1>2 DEF Complete
  <1>7. ASSUME on, time # -1, NewDiv = divby
        PROVE  c.bit * NewDiv + Source(c.tick + l, c.t1)
                 = IF Timed THEN time ELSE time + l
    <2>1. c.bit * NewDiv + Source(c.tick, c.t1) = time
      BY <1>1, <1>7
    <2> QED BY <2>1, <1>3, <1>4, <1>5
  <1> QED BY <1>1, <1>6, <1>7 DEF SideKept, Add, c

(* One tick of the hardware (cl_serial::tick).                             *)
LEMMA TickKeeps ==
  ASSUME BitsExact, NEW cycles \in 1 .. MaxCycles, Tick(cycles)
  PROVE  BitsExact'
  <1> DEFINE l   == cycles * Cpc
             tr  == Counted(s_sending, s_tr_bit, s_tr_tick, s_tr_t1)
             rec == Counted(s_receiving, s_rec_bit, s_rec_tick, s_rec_t1)
             sent == Complete(s_sending, tr)
             got == Complete(s_receiving, rec)
             time(t) == IF NewDiv # divby THEN -1 ELSE IF Timed THEN t ELSE Add(t, l)
  <1>1. TypeOK
    BY DEF BitsExact
  <1>2. l \in Nat
    BY SerialAssumption
  <1> HIDE DEF l
  <1>3. /\ time(trTime) \in Nat \cup {-1}
        /\ (IF sent THEN tr.bit - bits ELSE tr.bit) \in Nat
        /\ tr.tick + l \in Nat /\ tr.t1 \in Nat
        /\ s_sending /\ time(trTime) # -1 =>
             tr.bit * NewDiv + Source(tr.tick + l, tr.t1) = time(trTime)
    <2>1. s_sending \in BOOLEAN
      BY <1>1 DEF TypeOK
    <2>2. s_tr_bit \in Nat /\ s_tr_tick \in Nat /\ s_tr_t1 \in Nat /\ trTime \in Nat \cup {-1}
      BY <1>1 DEF TypeOK
    <2>3. s_sending /\ trTime # -1 => s_tr_bit * divby + Source(s_tr_tick, s_tr_t1) = trTime
      BY DEF BitsExact
    <2>4. SideKept(s_sending, s_tr_bit, s_tr_tick, s_tr_t1, trTime, l)
      BY <1>1, <1>2, <2>1, <2>2, <2>3, SideTick
    <2> QED BY <2>4 DEF SideKept
  <1>4. /\ time(recTime) \in Nat \cup {-1}
        /\ (IF got THEN rec.bit - bits ELSE rec.bit) \in Nat
        /\ rec.tick + l \in Nat /\ rec.t1 \in Nat
        /\ s_receiving /\ time(recTime) # -1 =>
             rec.bit * NewDiv + Source(rec.tick + l, rec.t1) = time(recTime)
    <2>1. s_receiving \in BOOLEAN
      BY <1>1 DEF TypeOK
    <2>2. s_rec_bit \in Nat /\ s_rec_tick \in Nat /\ s_rec_t1 \in Nat /\ recTime \in Nat \cup {-1}
      BY <1>1 DEF TypeOK
    <2>3. s_receiving /\ recTime # -1 => s_rec_bit * divby + Source(s_rec_tick, s_rec_t1) = recTime
      BY DEF BitsExact
    <2>4. SideKept(s_receiving, s_rec_bit, s_rec_tick, s_rec_t1, recTime, l)
      BY <1>1, <1>2, <2>1, <2>2, <2>3, SideTick
    <2> QED BY <2>4 DEF SideKept
  <1> HIDE DEF tr, rec
  <1>5. /\ divby' = NewDiv
        /\ s_tr_bit' = IF sent THEN tr.bit - bits ELSE tr.bit
        /\ s_tr_tick' = tr.tick + l /\ s_tr_t1' = tr.t1
        /\ trTime' = time(trTime)
    BY DEF Tick, l, tr
  <1>6. /\ s_rec_bit' = IF Begins THEN 0 ELSE IF got THEN rec.bit - bits ELSE rec.bit
        /\ s_rec_tick' = IF Begins THEN l ELSE rec.tick + l
        /\ s_rec_t1' = IF Begins THEN 0 ELSE rec.t1
        /\ recTime' = IF NewDiv # divby THEN -1
                      ELSE IF Begins THEN (IF Timed THEN 0 ELSE l)
                      ELSE time(recTime)
    BY DEF Tick, l, rec
  <1>s. s_sending' = (s_sending /\ ~sent)
    BY DEF Tick, tr
  <1>r. s_receiving' = ((s_receiving \/ Begins) /\ ~got)
    BY DEF Tick, rec
  <1>7. /\ mode' = mode /\ REN' = REN /\ SMOD' = SMOD /\ bits' = bits /\ t2_baud' = t2_baud
        /\ flags' \subseteq flags \cup {"TI", "RI"}
        /\ readable' \in BOOLEAN
    BY DEF Tick
  <1>8. NewDiv \in {Div0, Fast, Slow} /\ NewDiv \in Nat
    BY <1>1, DivPositive
  <1> HIDE DEF sent, got
  <1>9. s_sending' \in BOOLEAN
    BY <1>s
  <1>10. s_receiving' \in BOOLEAN
    BY <1>r
  <1>11. {s_tr_bit', s_tr_tick', s_tr_t1', s_rec_bit', s_rec_tick', s_rec_t1'} \subseteq Nat
    BY <1>2, <1>3, <1>4, <1>5, <1>6
  <1>12. trTime' \in Nat \cup {-1} /\ recTime' \in Nat \cup {-1}
    BY <1>2, <1>3, <1>4, <1>5, <1>6
  <1>13. TypeOK'
    BY <1>1, <1>5, <1>7, <1>8, <1>9, <1>10, <1>11, <1>12 DEF TypeOK
  <1>14. Timed' = Timed
    BY <1>7 DEF Timed
  <1>15. s_sending' /\ trTime' # -1 =>
           s_tr_bit' * divby' + Source(s_tr_tick, s_tr_t1)' = trTime'
    BY <1>3, <1>5, <1>s, <1>14 DEF Source, sent
  <1>16. s_receiving' /\ recTime' # -1 =>
           s_rec_bit' * divby' + Source(s_rec_tick, s_rec_t1)' = recTime'
    <2>1. CASE Begins
      BY <1>2, <1>6, <1>5, <1>8, <1>14, <2>1 DEF Source
    <2>2. CASE ~Begins
      BY <1>4, <1>5, <1>6, <1>r, <1>14, <2>2 DEF Source
    <2> QED BY <2>1, <2>2
  <1> QED BY <1>13, <1>15, <1>16 DEF BitsExact

(* Every step of the interface, the program and the timers.                *)
LEMMA SerialStep == BitsExact /\ [Next]_vars => BitsExact'
  <1> SUFFICES ASSUME BitsExact, [Next]_vars PROVE BitsExact'
    OBVIOUS
  <1>t. TypeOK
    BY DEF BitsExact
  <1>d. divby \in Nat
    BY <1>t, DivPositive
  <1> USE DEF BitsExact, TypeOK, Source, Timed
  <1>1. CASE WriteSbuf
    BY <1>1, <1>d DEF WriteSbuf, config, receiver
  <1>2. ASSUME NEW m \in 0 .. 3, NEW ren \in BOOLEAN, NEW f \in SUBSET {"TI", "RI"},
               WriteScon(m, ren, f)
        PROVE  BitsExact'
    BY <1>2 DEF WriteScon, DivOf, Disturbed
  <1>3. ASSUME NEW smod \in BOOLEAN, WritePcon(smod) PROVE BitsExact'
    BY <1>3 DEF WritePcon, DivOf, Disturbed
  <1>4. CASE Overflow
    <2>1. s_tr_bit * divby \in Nat /\ s_rec_bit * divby \in Nat
      BY <1>d, Distribute
    <2> QED BY <1>4, <2>1 DEF Overflow, Add, config
  <1>5. ASSUME NEW clk \in BOOLEAN, T2ModeChanged(clk) PROVE BitsExact'
    BY <1>5 DEF T2ModeChanged, Disturbed, config
  <1>6. ASSUME NEW c \in 1 .. MaxCycles, Tick(c) PROVE BitsExact'
    BY <1>6, TickKeeps
  <1>7. CASE Arrive
    BY <1>7 DEF Arrive, config, sender, receiver
  <1>8. CASE Reset
    <2>1. divby' \in {Div0, Fast, Slow} /\ bits' \in {BitsOf[m] : m \in 0 .. 3}
      BY <1>8 DEF Reset, DivOf
    <2>2. {s_tr_bit', s_tr_tick', s_tr_t1', s_rec_bit', s_rec_tick', s_rec_t1'} \subseteq Nat
      BY <1>8 DEF Reset
    <2>3. trTime' = -1 /\ recTime' = -1 /\ mode' \in 0 .. 3
      BY <1>8 DEF Reset, Disturbed
    <2>4. flags' \subseteq {"TI", "RI"}
      BY <1>8 DEF Reset
    <2>5. /\ REN' \in BOOLEAN /\ SMOD' \in BOOLEAN /\ t2_baud' \in BOOLEAN
          /\ s_sending' \in BOOLEAN /\ s_receiving' \in BOOLEAN /\ readable' \in BOOLEAN
      BY <1>8 DEF Reset
    <2> QED BY <2>1, <2>2, <2>3, <2>4, <2>5
  <1>9. CASE UNCHANGED vars
    BY <1>9 DEF vars, config, sender, receiver
  <1> QED BY <1>1, <1>2, <1>3, <1>4, <1>5, <1>6, <1>7, <1>8, <1>9 DEF Next

(* Nothing is on the line at first.                                        *)
LEMMA SerialInitially == Init => BitsExact
  <1> SUFFICES ASSUME Init PROVE BitsExact
    OBVIOUS
  <1>1. divby \in {Div0, Fast, Slow} /\ bits \in {BitsOf[m] : m \in 0 .. 3}
    BY DEF Init
  <1>2. {s_tr_bit, s_tr_tick, s_tr_t1, s_rec_bit, s_rec_tick, s_rec_t1} \subseteq Nat
    BY DEF Init
  <1>3. trTime = -1 /\ recTime = -1 /\ mode \in 0 .. 3
    BY DEF Init
  <1>4. flags \subseteq {"TI", "RI"}
    BY DEF Init
  <1>5. /\ REN \in BOOLEAN /\ SMOD \in BOOLEAN /\ t2_baud \in BOOLEAN
        /\ s_sending \in BOOLEAN /\ s_receiving \in BOOLEAN /\ readable \in BOOLEAN
    BY DEF Init
  <1> QED BY <1>1, <1>2, <1>3, <1>4, <1>5 DEF BitsExact, TypeOK

(* The bits counted and the pulses left over always add up to the pulses   *)
(* since the byte began (serial_bit_cnt, write, tick, happen), and no      *)
(* counter becomes negative.                                               *)
THEOREM BitsExactHolds == Spec => []BitsExact
  BY SerialInitially, SerialStep, PTL DEF Spec
-----------------------------------------------------------------------------
(* The step of BytesOnTime.                                                *)
OnTime ==
  /\ s_sending /\ ~s_sending' /\ trTime' # -1 => trTime >= bits * divby
  /\ s_receiving /\ ~s_receiving' /\ recTime' # -1 => recTime >= bits * divby
  /\ s_sending /\ s_sending' /\ trTime # -1 /\ trTime' > trTime /\ ~Timed
       => trTime < bits * divby

(* Only a tick ends a byte, and it does so at the right moment.            *)
LEMMA TickOnTime ==
  ASSUME BitsExact, NEW cycles \in 1 .. MaxCycles, Tick(cycles)
  PROVE  OnTime
  <1> DEFINE tr  == Counted(TRUE, s_tr_bit, s_tr_tick, s_tr_t1)
             rec == Counted(TRUE, s_rec_bit, s_rec_tick, s_rec_t1)
  <1>1. /\ TypeOK /\ trTime \in Nat \cup {-1} /\ recTime \in Nat \cup {-1}
        /\ s_sending \in BOOLEAN /\ s_receiving \in BOOLEAN
    BY DEF BitsExact, TypeOK
  <1>2. /\ Complete(TRUE, tr) =>
             s_tr_bit * NewDiv + Source(s_tr_tick, s_tr_t1) >= bits * NewDiv
        /\ ~Complete(TRUE, tr) =>
             s_tr_bit * NewDiv + Source(s_tr_tick, s_tr_t1) < bits * NewDiv
        /\ Complete(TRUE, rec) =>
             s_rec_bit * NewDiv + Source(s_rec_tick, s_rec_t1) >= bits * NewDiv
    BY <1>1, CompleteOnTime DEF TypeOK
  <1> HIDE DEF tr, rec
  <1>3. ASSUME s_sending
        PROVE  s_sending' = ~Complete(TRUE, tr)
    <2>1. s_sending = TRUE
      BY <1>1, <1>3
    <2>2. s_sending' = (s_sending /\
                          ~Complete(s_sending, Counted(s_sending, s_tr_bit, s_tr_tick, s_tr_t1)))
      BY DEF Tick
    <2> QED BY <2>1, <2>2 DEF tr
  <1>4. ASSUME s_receiving
        PROVE  s_receiving' = ~Complete(TRUE, rec) /\ ~Begins
    <2>1. s_receiving = TRUE
      BY <1>1, <1>4
    <2>2. s_receiving' = ((s_receiving \/ Begins) /\
            ~Complete(s_receiving, Counted(s_receiving, s_rec_bit, s_rec_tick, s_rec_t1)))
      BY DEF Tick
    <2>3. ~Begins
      BY <1>4 DEF Begins
    <2> QED BY <2>1, <2>2, <2>3 DEF rec
  <1>5. trTime' = IF NewDiv # divby THEN -1 ELSE IF Timed THEN trTime ELSE Add(trTime, cycles * Cpc)
    BY DEF Tick
  <1>6. ~Begins => recTime' = IF NewDiv # divby THEN -1
                   ELSE IF Timed THEN recTime ELSE Add(recTime, cycles * Cpc)
    BY DEF Tick
  <1>7. s_sending /\ trTime # -1 => s_tr_bit * divby + Source(s_tr_tick, s_tr_t1) = trTime
    BY DEF BitsExact
  <1>8. s_receiving /\ recTime # -1 => s_rec_bit * divby + Source(s_rec_tick, s_rec_t1) = recTime
    BY DEF BitsExact
  <1>9. ASSUME s_sending, ~s_sending', trTime' # -1 PROVE trTime >= bits * divby
    BY <1>2, <1>3, <1>5, <1>7, <1>9 DEF Add
  <1>10. ASSUME s_receiving, ~s_receiving', recTime' # -1 PROVE recTime >= bits * divby
    BY <1>2, <1>4, <1>6, <1>8, <1>10 DEF Add
  <1>11. ASSUME s_sending, s_sending', trTime # -1, trTime' > trTime PROVE trTime < bits * divby
    <2>1. NewDiv = divby
      BY <1>1, <1>5, <1>11
    <2>2. ~Complete(TRUE, tr)
      BY <1>3, <1>11
    <2> QED BY <1>2, <1>7, <1>11, <2>1, <2>2
  <1> QED BY <1>9, <1>10, <1>11 DEF OnTime

(* Every step ends a byte on time if at all.                               *)
LEMMA StepOnTime == BitsExact /\ [Next]_vars => [OnTime]_vars
  <1> SUFFICES ASSUME BitsExact, Next PROVE OnTime
    OBVIOUS
  <1>1. trTime \in Nat \cup {-1}
    BY DEF BitsExact, TypeOK
  <1> USE DEF OnTime
  <1>2. CASE WriteSbuf
    BY <1>1, <1>2 DEF WriteSbuf, receiver
  <1>3. ASSUME NEW m \in 0 .. 3, NEW ren \in BOOLEAN, NEW f \in SUBSET {"TI", "RI"},
               WriteScon(m, ren, f)
        PROVE  OnTime
    BY <1>1, <1>3 DEF WriteScon, Disturbed
  <1>4. ASSUME NEW smod \in BOOLEAN, WritePcon(smod) PROVE OnTime
    BY <1>1, <1>4 DEF WritePcon, Disturbed
  <1>5. CASE Overflow
    BY <1>1, <1>5 DEF Overflow
  <1>6. ASSUME NEW clk \in BOOLEAN, T2ModeChanged(clk) PROVE OnTime
    BY <1>1, <1>6 DEF T2ModeChanged, Disturbed
  <1>7. ASSUME NEW c \in 1 .. MaxCycles, Tick(c) PROVE OnTime
    BY <1>7, TickOnTime
  <1>8. CASE Arrive
    BY <1>1, <1>8 DEF Arrive, sender, receiver
  <1>9. CASE Reset
    BY <1>9 DEF Reset, Disturbed
  <1> QED BY <1>2, <1>3, <1>4, <1>5, <1>6, <1>7, <1>8, <1>9 DEF Next

(* A byte is never ended before all its bit times are over, and in the     *)
(* modes clocked by the oscillator the first tick after them ends the byte *)
(* being sent (cl_serial::tick).                                           *)
THEOREM BytesOnTimeHolds == Spec => BytesOnTime
  <1>1. BitsExact /\ [Next]_vars => [OnTime]_vars
    BY StepOnTime
  <1>2. Spec => [][OnTime]_vars
    BY <1>1, BitsExactHolds, PTL DEF Spec
  <1> QED BY <1>2 DEF BytesOnTime, OnTime
-----------------------------------------------------------------------------
(* The USARTs of the CC2530.                                               *)
CsrType ==
  [uart : BOOLEAN, slave : BOOLEAN, active : BOOLEAN, err : BOOLEAN, fe : BOOLEAN,
   rx : BOOLEAN, tx : BOOLEAN]

\* what is on the line
Line == Seq(BOOLEAN)

UsartType ==
  [csr : CsrType, dbuf : 0 .. 255, regForTx : 0 .. 255, regForRx : 0 .. 255,
   TX : BOOLEAN, RX : BOOLEAN, slave : BOOLEAN, queue : BOOLEAN, bitTxCnt : Nat,
   bitRxCnt : Nat, BitNumber : {0, 8, 9}, StopBits : 0 .. 2, startBit : BOOLEAN,
   even : BOOLEAN, TxParity : BOOLEAN, baud : BOOLEAN, urxif : BOOLEAN,
   utxif : BOOLEAN, asked : 0 .. 255, waiting : 0 .. 255, spoiled : BOOLEAN,
   direct : BOOLEAN, steady : BOOLEAN, bits : Line, broken : BOOLEAN]

(* What is true while a frame is sent whose format stayed: the levels so   *)
(* far are those of the frame, the shift register holds the rest of the    *)
(* byte, and the parity of a byte that was not queued is its own.          *)
Shifted(u) == IF u.bitTxCnt = 0 THEN 0 ELSE IF u.bitTxCnt > 8 THEN 8 ELSE u.bitTxCnt - 1

\* the rest of the byte
Rest(u) ==
  \A i \in 1 .. 8 - Shifted(u) :
    DataBit(u.regForTx, i) <=> DataBit(u.asked, i + Shifted(u))

\* the levels so far
Sent(u) ==
  /\ Len(u.bits) = u.bitTxCnt
  /\ \A i \in 1 .. u.bitTxCnt :
       u.direct \/ u.BitNumber # 9 \/ i # 10 => (u.bits[i] <=> Level(u, u.asked, i))

ParityKept(u) ==
  u.direct /\ u.BitNumber = 9 => (u.TxParity <=> parity_check(u, u.asked))

Sending(u) ==
  u.TX /\ u.bitTxCnt < FrameLength(u) /\ Rest(u) /\ Sent(u) /\ ParityKept(u)

UsartInv(u) ==
  /\ u \in UsartType /\ ~u.broken
  /\ IF u.BitNumber = 0 THEN u.StopBits = 0 ELSE u.StopBits \in 1 .. 2
  /\ u.steady => Sending(u)
  /\ u.queue => u.TX /\ (u.spoiled \/ u.dbuf = u.waiting)

(* Shifting a byte moves its bits up.                                      *)
LEMMA ShiftBits ==
  ASSUME NEW r \in 0 .. 255
  PROVE  /\ (r * 2) % 256 \in 0 .. 255
         /\ \A i \in 1 .. 7 : DataBit((r * 2) % 256, i) <=> DataBit(r, i + 1)
  <1> DEFINE q == (r * 2) % 256
  <1>1. q \in 0 .. 255 /\ q = IF r < 128 THEN r * 2 ELSE r * 2 - 256
    OBVIOUS
  <1> HIDE DEF q
  <1>2. \A i \in 1 .. 7 : i \in {1, 2, 3, 4, 5, 6, 7}
    OBVIOUS
  <1>3. DataBit(q, 1) <=> DataBit(r, 2)
    BY <1>1 DEF DataBit, Weight
  <1>4. DataBit(q, 2) <=> DataBit(r, 3)
    BY <1>1 DEF DataBit, Weight
  <1>5. DataBit(q, 3) <=> DataBit(r, 4)
    BY <1>1 DEF DataBit, Weight
  <1>6. DataBit(q, 4) <=> DataBit(r, 5)
    BY <1>1 DEF DataBit, Weight
  <1>7. DataBit(q, 5) <=> DataBit(r, 6)
    BY <1>1 DEF DataBit, Weight
  <1>8. DataBit(q, 6) <=> DataBit(r, 7)
    BY <1>1 DEF DataBit, Weight
  <1>9. DataBit(q, 7) <=> DataBit(r, 8)
    BY <1>1 DEF DataBit, Weight
  <1> QED BY <1>1, <1>2, <1>3, <1>4, <1>5, <1>6, <1>7, <1>8, <1>9 DEF q

(* The first of them is the one Shift_out sends.                           *)
LEMMA FirstBit ==
  ASSUME NEW r \in 0 .. 255
  PROVE  (Bit7(r) <=> DataBit(r, 1)) /\ Bit7(r) \in BOOLEAN
  BY DEF Bit7, DataBit, Weight

(* What a step leaves alone that does not shift: the frame, and all that   *)
(* is about it.                                                            *)
SameFormat(u, r) ==
  /\ r.BitNumber = u.BitNumber /\ r.StopBits = u.StopBits
  /\ r.startBit = u.startBit /\ r.even = u.even

SameFrame(u, r) ==
  /\ SameFormat(u, r) /\ r.TX = u.TX /\ r.TxParity = u.TxParity /\ r.asked = u.asked
  /\ r.direct = u.direct /\ r.steady = u.steady /\ r.broken = u.broken
  /\ r.queue = u.queue /\ r.waiting = u.waiting

SameBits(u, r) ==
  r.bits = u.bits /\ r.bitTxCnt = u.bitTxCnt /\ r.regForTx = u.regForTx

\* the buffer is kept, or spoiled
SameBuffer(u, r) == r.spoiled \/ (r.dbuf = u.dbuf /\ r.spoiled = u.spoiled)

(* The levels depend on the format only, and they are truth values.        *)
LEMMA LevelIs ==
  ASSUME NEW u \in UsartType, NEW r \in UsartType, SameFormat(u, r), NEW v, NEW i
  PROVE  /\ Level(r, v, i) = Level(u, v, i) /\ Level(u, v, i) \in BOOLEAN
         /\ parity_check(r, v) = parity_check(u, v) /\ parity_check(u, v) \in BOOLEAN
         /\ FrameLength(r) = FrameLength(u) /\ stopBit(r) = stopBit(u)
  <1>1. u.startBit \in BOOLEAN /\ u.even \in BOOLEAN
    BY DEF UsartType
  <1>2. parity_check(r, v) = parity_check(u, v) /\ parity_check(u, v) \in BOOLEAN
    BY <1>1 DEF parity_check, SameFormat
  <1>3. stopBit(r) = stopBit(u) /\ stopBit(u) \in BOOLEAN
    BY <1>1 DEF stopBit, SameFormat
  <1>4. FrameLength(r) = FrameLength(u)
    BY DEF FrameLength, SameFormat
  <1>5. \A j : DataBit(v, j) \in BOOLEAN
    BY DEF DataBit
  <1> HIDE DEF SameFormat
  <1>6. r.startBit = u.startBit /\ r.BitNumber = u.BitNumber
    BY DEF SameFormat
  <1>7. Level(r, v, i) = Level(u, v, i)
    BY <1>2, <1>3, <1>6 DEF Level
  <1>8. Level(u, v, i) \in BOOLEAN
    BY <1>1, <1>2, <1>3, <1>5 DEF Level
  <1> QED BY <1>2, <1>3, <1>4, <1>7, <1>8

(* So a step that leaves them alone keeps what is true.                    *)
LEMMA SameKeeps ==
  ASSUME NEW u, NEW r, UsartInv(u), r \in UsartType,
         SameFrame(u, r), SameBits(u, r), SameBuffer(u, r)
  PROVE  UsartInv(r)
  <1>1. u \in UsartType /\ SameFormat(u, r)
    BY DEF UsartInv, SameFrame
  <1>2. /\ \A i : Level(r, r.asked, i) = Level(u, u.asked, i)
        /\ parity_check(r, r.asked) = parity_check(u, u.asked)
        /\ FrameLength(r) = FrameLength(u)
    BY <1>1, LevelIs DEF SameFrame
  <1>3. Shifted(r) = Shifted(u)
    BY DEF Shifted, SameBits
  <1>4. Sending(u) => Sending(r)
    BY <1>2, <1>3 DEF Sending, Rest, Sent, ParityKept, SameFrame, SameBits, SameFormat
  <1>5. ~r.broken /\ (r.steady => Sending(r))
    BY <1>4 DEF UsartInv, SameFrame
  <1>6. IF r.BitNumber = 0 THEN r.StopBits = 0 ELSE r.StopBits \in 1 .. 2
    BY <1>1 DEF UsartInv, SameFormat
  <1>7. r.queue => r.TX /\ (r.spoiled \/ r.dbuf = r.waiting)
    BY DEF UsartInv, SameFrame, SameBuffer
  <1> QED BY <1>5, <1>6, <1>7 DEF UsartInv
-----------------------------------------------------------------------------
(* A reception stores to the buffer, sets flags and ends.                  *)
LEMMA ReceivedKeeps ==
  ASSUME NEW u \in UsartType, NEW bit \in BOOLEAN
  PROVE  /\ Received(u, bit) \in UsartType /\ SameFrame(u, Received(u, bit))
         /\ SameBits(u, Received(u, bit)) /\ SameBuffer(u, Received(u, bit))
  <1> DEFINE q == (u.regForRx * 2 + 1) % 256
             z == (u.regForRx * 2) % 256
  <1>0. u.regForRx \in 0 .. 255
    BY DEF UsartType
  <1>1. q \in 0 .. 255 /\ z \in 0 .. 255
    BY <1>0
  <1>2. Received(u, bit) = IF bit
          THEN [u EXCEPT !.regForRx = q, !.dbuf = q, !.spoiled = TRUE]
          ELSE [u EXCEPT !.regForRx = z]
    BY DEF Received, UsartType
  <1> DEFINE r == Received(u, bit)
  <1> HIDE DEF q, z, r
  <1>3. CASE bit
    <2>1. r = [u EXCEPT !.regForRx = q, !.dbuf = q, !.spoiled = TRUE]
      BY <1>2, <1>3 DEF r
    <2>2. [u EXCEPT !.regForRx = q, !.dbuf = q, !.spoiled = TRUE] \in UsartType
      BY <1>1 DEF UsartType
    <2>3. SameFrame(u, [u EXCEPT !.regForRx = q, !.dbuf = q, !.spoiled = TRUE])
      BY DEF UsartType, SameFrame, SameFormat
    <2>4. /\ SameBits(u, [u EXCEPT !.regForRx = q, !.dbuf = q, !.spoiled = TRUE])
          /\ SameBuffer(u, [u EXCEPT !.regForRx = q, !.dbuf = q, !.spoiled = TRUE])
      BY DEF UsartType, SameBits, SameBuffer
    <2> QED BY <2>1, <2>2, <2>3, <2>4, Zenon DEF r
  <1>4. CASE ~bit
    <2>1. r = [u EXCEPT !.regForRx = z]
      BY <1>2, <1>4 DEF r
    <2>2. [u EXCEPT !.regForRx = z] \in UsartType
      BY <1>1 DEF UsartType
    <2>3. SameFrame(u, [u EXCEPT !.regForRx = z])
      BY DEF UsartType, SameFrame, SameFormat
    <2>4. /\ SameBits(u, [u EXCEPT !.regForRx = z])
          /\ SameBuffer(u, [u EXCEPT !.regForRx = z])
      BY DEF UsartType, SameBits, SameBuffer
    <2> QED BY <2>1, <2>2, <2>3, <2>4, Zenon DEF r
  <1> QED BY <1>3, <1>4

(* A step that changes UxCSR, the flag and the reception only.             *)
LEMMA FlagsKeep ==
  ASSUME NEW u \in UsartType, NEW c \in CsrType, NEW f \in BOOLEAN, NEW x \in BOOLEAN,
         NEW n \in Nat, NEW r,
         r = [u EXCEPT !.csr = c, !.urxif = f, !.RX = x, !.bitRxCnt = n]
  PROVE  /\ r \in UsartType /\ SameFrame(u, r) /\ SameBits(u, r) /\ SameBuffer(u, r)
         /\ r.regForRx = u.regForRx
  <1> DEFINE t == [u EXCEPT !.csr = c, !.urxif = f, !.RX = x, !.bitRxCnt = n]
  <1>1. t \in UsartType
    BY ZenonT(60) DEF UsartType
  <1>2. SameFrame(u, t)
    BY DEF UsartType, SameFrame, SameFormat
  <1>3. SameBits(u, t) /\ SameBuffer(u, t) /\ t.regForRx = u.regForRx
    BY DEF UsartType, SameBits, SameBuffer
  <1> HIDE DEF t
  <1>4. r = t
    BY DEF t
  <1> QED BY <1>1, <1>2, <1>3, <1>4, Zenon

(* Two steps that leave the frame alone do so together.                    *)
LEMMA SameTwice ==
  ASSUME NEW u, NEW r, NEW t, SameFrame(u, r), SameBits(u, r), SameBuffer(u, r),
         SameFrame(r, t), SameBits(r, t), SameBuffer(r, t)
  PROVE  SameFrame(u, t) /\ SameBits(u, t) /\ SameBuffer(u, t)
  <1>1. SameFrame(u, t)
    BY DEF SameFrame, SameFormat
  <1>2. SameBits(u, t)
    BY DEF SameBits
  <1>3. SameBuffer(u, t)
    BY DEF SameBuffer
  <1> QED BY <1>1, <1>2, <1>3

Quiet(u, r) == r \in UsartType /\ SameFrame(u, r) /\ SameBits(u, r) /\ SameBuffer(u, r)

(* Shift_in changes nothing that is about the frame.                       *)
LEMMA ShiftInQuiet ==
  ASSUME NEW u \in UsartType, NEW x \in BOOLEAN
  PROVE  Quiet(u, Shift_in(u, x))
  <1> DEFINE n == u.bitRxCnt + 1
             bit == IF n > Len(testTab) THEN x ELSE testTab[n]
             a == [u EXCEPT !.bitRxCnt = n]
             b == IF n \in 2 .. 9 THEN Received(a, bit) ELSE a
             c == IF n >= u.BitNumber + 1 THEN Checked(b, n, bit) ELSE b
             e == EndRx(c)
  <1>0. \A r \in UsartType : Quiet(r, r)
    BY DEF Quiet, SameFrame, SameFormat, SameBits, SameBuffer
  <1>1. ASSUME NEW p, NEW q, NEW r, Quiet(p, q), Quiet(q, r) PROVE Quiet(p, r)
    BY <1>1, SameTwice DEF Quiet
  <1>2. ASSUME NEW r \in UsartType, NEW k \in CsrType
        PROVE  Quiet(r, [r EXCEPT !.csr = k])
    <2>1. r.urxif \in BOOLEAN /\ r.RX \in BOOLEAN /\ r.bitRxCnt \in Nat
      BY DEF UsartType
    <2>2. [r EXCEPT !.csr = k] = [r EXCEPT !.csr = k, !.urxif = r.urxif, !.RX = r.RX,
                                           !.bitRxCnt = r.bitRxCnt]
      BY ZenonT(60) DEF UsartType
    <2>3. Quiet(r, [r EXCEPT !.csr = k, !.urxif = r.urxif, !.RX = r.RX,
                             !.bitRxCnt = r.bitRxCnt])
      BY <2>1, FlagsKeep DEF Quiet
    <2> QED BY <2>2, <2>3, Zenon
  <1>3. n \in Nat
    <2>1. u.bitRxCnt \in Nat
      BY DEF UsartType
    <2> QED BY <2>1
  <1>4. bit \in BOOLEAN
    <2>0. n \in 1 .. 11 => testTab[n] \in BOOLEAN
      <3> HIDE DEF n
      <3>1. testTab \in Seq(BOOLEAN) /\ Len(testTab) = 11
        BY DEF testTab
      <3> QED BY <3>1, ElementOfSeq
    <2>1. Len(testTab) = 11 /\ n # 0
      BY DEF testTab, UsartType
    <2> HIDE DEF n
    <2>2. n > Len(testTab) \/ n \in 1 .. 11
      BY <1>3, <2>1
    <2> QED BY <2>0, <2>2
  <1>5. Quiet(u, a)
    <2>1. u.csr \in CsrType /\ u.urxif \in BOOLEAN /\ u.RX \in BOOLEAN
      BY DEF UsartType
    <2>2. a = [u EXCEPT !.csr = u.csr, !.urxif = u.urxif, !.RX = u.RX, !.bitRxCnt = n]
      BY ZenonT(60) DEF UsartType
    <2> HIDE DEF a, n
    <2> QED BY <1>3, <2>1, <2>2, FlagsKeep DEF Quiet
  <1> HIDE DEF a, n, bit
  <1>6. Quiet(u, b)
    <2>1. a \in UsartType
      BY <1>5 DEF Quiet
    <2>2. Quiet(a, Received(a, bit))
      BY <1>4, <2>1, ReceivedKeeps DEF Quiet
    <2> QED BY <1>1, <1>5, <2>2
  <1> HIDE DEF b
  <1>7. Quiet(u, c)
    <2>1. b \in UsartType
      BY <1>6 DEF Quiet
    <2>2. ASSUME NEW r \in UsartType
          PROVE  Quiet(r, [r EXCEPT !.csr.err = TRUE]) /\ Quiet(r, [r EXCEPT !.csr.fe = TRUE])
      <3> DEFINE k == [r.csr EXCEPT !.err = TRUE]
                 l == [r.csr EXCEPT !.fe = TRUE]
      <3>1. r.csr \in CsrType
        BY DEF UsartType
      <3>2. k \in CsrType /\ l \in CsrType
        BY <3>1 DEF CsrType
      <3>3. [r EXCEPT !.csr.err = TRUE] = [r EXCEPT !.csr = k]
        BY DEF UsartType
      <3>4. [r EXCEPT !.csr.fe = TRUE] = [r EXCEPT !.csr = l]
        BY DEF UsartType
      <3> HIDE DEF k, l
      <3> QED BY <1>2, <3>2, <3>3, <3>4
    <2> DEFINE d == IF b.BitNumber = 9 /\ n = 10 /\ bit # parity_check(b, b.regForRx)
                    THEN [b EXCEPT !.csr.err = TRUE] ELSE b
               last == IF b.BitNumber = 9 THEN 11 ELSE 10
    <2>3. Quiet(b, d) /\ d \in UsartType
      BY <1>0, <2>1, <2>2 DEF Quiet
    <2>4. Checked(b, n, bit) = IF n \in last .. last + b.StopBits - 1 /\ bit # stopBit(b)
                               THEN [d EXCEPT !.csr.fe = TRUE] ELSE d
      BY DEF Checked
    <2> HIDE DEF d, last
    <2>5. Quiet(d, Checked(b, n, bit))
      BY <1>0, <2>2, <2>3, <2>4
    <2> QED BY <1>1, <1>6, <2>3, <2>5
  <1> HIDE DEF c
  <1>8. Quiet(u, e)
    <2>1. c \in UsartType
      BY <1>7 DEF Quiet
    <2> DEFINE k == [c.csr EXCEPT !.rx = TRUE, !.active = FALSE]
    <2>2. c.csr \in CsrType
      BY <2>1 DEF UsartType
    <2>3. k \in CsrType
      BY <2>2 DEF CsrType
    <2>4. e = [c EXCEPT !.csr = k, !.urxif = TRUE, !.RX = FALSE, !.bitRxCnt = 0]
      BY <2>1 DEF EndRx, UsartType
    <2> HIDE DEF k, e
    <2>5. Quiet(c, e)
      BY <2>1, <2>3, <2>4, FlagsKeep DEF Quiet
    <2> QED BY <1>1, <1>7, <2>5
  <1>9. Shift_in(u, x) = IF u.bitRxCnt = 0 /\ testTab[1] # u.startBit THEN u
                         ELSE IF n = u.BitNumber + u.StopBits + 1 THEN e ELSE c
    BY DEF Shift_in, a, b, c, bit, n
  <1> HIDE DEF e
  <1> QED BY <1>0, <1>7, <1>8, <1>9
-----------------------------------------------------------------------------
(* The length of a frame.                                                  *)
LEMMA LengthIs ==
  ASSUME NEW u, UsartInv(u)
  PROVE  /\ FrameLength(u) \in 10 .. 12
         /\ IF u.BitNumber = 0 THEN u.StopBits = 0 /\ FrameLength(u) = 10
            ELSE FrameLength(u) = u.BitNumber + u.StopBits + 1
  <1>1. u.BitNumber \in {0, 8, 9} /\ u.StopBits \in 0 .. 2
    BY DEF UsartInv, UsartType
  <1>2. IF u.BitNumber = 0 THEN u.StopBits = 0 ELSE u.StopBits \in 1 .. 2
    BY DEF UsartInv
  <1> QED BY <1>1, <1>2 DEF FrameLength

(* The type of what the steps of a transmission write.                     *)
LEMMA PutTyped ==
  ASSUME NEW u \in UsartType, NEW n \in Nat, NEW b \in Line
  PROVE  [u EXCEPT !.bitTxCnt = n, !.bits = b] \in UsartType
  BY ZenonT(60) DEF UsartType

(* The end of a frame.                                                     *)
LEMMA EndTyped ==
  ASSUME NEW u \in UsartType, NEW k \in CsrType, NEW o \in BOOLEAN, NEW b \in Line
  PROVE  [u EXCEPT !.TX = FALSE, !.bitTxCnt = 0, !.csr = k, !.utxif = TRUE,
                   !.broken = o, !.bits = b, !.steady = FALSE] \in UsartType
  BY ZenonT(60) DEF UsartType

(* The start of the queued byte.                                           *)
LEMMA NextTyped ==
  ASSUME NEW u \in UsartType, NEW g \in 0 .. 255, NEW a \in 0 .. 255, NEW w \in BOOLEAN
  PROVE  [u EXCEPT !.TX = TRUE, !.regForTx = g, !.queue = FALSE,
                   !.asked = a, !.direct = FALSE, !.steady = w] \in UsartType
  BY ZenonT(60) DEF UsartType

(* What a step that puts a level on the line changes.                      *)
PutOnly(u, p, level) ==
  /\ p \in UsartType /\ SameFrame(u, p) /\ p.regForTx = u.regForTx
  /\ p.dbuf = u.dbuf /\ p.spoiled = u.spoiled /\ p.bitTxCnt = u.bitTxCnt + 1
  /\ Len(u.bits) < 12 => p.bits = Append(u.bits, level)

(* Put, on the next count, does just that.                                 *)
LEMMA PutIs ==
  ASSUME NEW u \in UsartType, NEW level \in BOOLEAN
  PROVE  PutOnly(u, Put([u EXCEPT !.bitTxCnt = u.bitTxCnt + 1], level), level)
  <1> DEFINE n == u.bitTxCnt + 1
             b == IF Len(u.bits) < 12 THEN Append(u.bits, level) ELSE u.bits
             p == [u EXCEPT !.bitTxCnt = n, !.bits = b]
  <1>1. u.bitTxCnt \in Nat /\ u.bits \in Seq(BOOLEAN)
    BY DEF UsartType, Line
  <1>2. n \in Nat /\ n = u.bitTxCnt + 1
    <2> HIDE DEF b
    <2> QED BY <1>1
  <1>3. b \in Line
    <2>1. Append(u.bits, level) \in Seq(BOOLEAN)
      BY <1>1, AppendProperties
    <2> QED BY <1>1, <2>1, Zenon DEF Line
  <1>9. Len(u.bits) < 12 => b = Append(u.bits, level)
    OBVIOUS
  <1>4. Put([u EXCEPT !.bitTxCnt = n], level) = p
    BY DEF Put, UsartType
  <1> HIDE DEF n, b
  <1>5. p \in UsartType
    BY <1>2, <1>3, PutTyped
  <1>6. SameFrame(u, p)
    BY DEF UsartType, SameFrame, SameFormat
  <1>7. /\ p.regForTx = u.regForTx /\ p.dbuf = u.dbuf /\ p.spoiled = u.spoiled
        /\ p.bitTxCnt = n /\ p.bits = b
    BY DEF UsartType
  <1> HIDE DEF p
  <1>8. PutOnly(u, p, level)
    BY <1>2, <1>5, <1>6, <1>7, <1>9 DEF PutOnly
  <1> QED BY <1>4, <1>8 DEF n

(* The level that belongs there is one more of the frame.                  *)
LEMMA PutSent ==
  ASSUME NEW u, UsartInv(u), u.steady, NEW level \in BOOLEAN, NEW p,
         PutOnly(u, p, level),
         u.direct \/ u.BitNumber # 9 \/ u.bitTxCnt + 1 # 10
           => (level <=> Level(u, u.asked, u.bitTxCnt + 1))
  PROVE  Sent(p) /\ ParityKept(p) /\ p.TX
  <1> DEFINE n == u.bitTxCnt
  <1>1. u \in UsartType /\ p \in UsartType /\ SameFormat(u, p) /\ Sending(u)
    BY DEF UsartInv, PutOnly, SameFrame
  <1>2. n \in Nat /\ u.bits \in Seq(BOOLEAN)
    BY <1>1 DEF UsartType, Line
  <1>3. FrameLength(u) \in 10 .. 12
    BY LengthIs
  <1>4. Len(u.bits) = n /\ n < FrameLength(u) /\ u.TX
    BY <1>1 DEF Sending, Sent
  <1>5. p.bits = Append(u.bits, level) /\ p.bitTxCnt = n + 1
    BY <1>2, <1>3, <1>4 DEF PutOnly
  <1>6. p.asked = u.asked /\ p.direct = u.direct /\ p.BitNumber = u.BitNumber
        /\ p.TX = u.TX /\ p.TxParity = u.TxParity
    BY <1>1 DEF PutOnly, SameFrame, SameFormat
  <1>7. /\ \A i : Level(p, p.asked, i) = Level(u, u.asked, i)
        /\ parity_check(p, p.asked) = parity_check(u, u.asked)
    BY <1>1, <1>6, LevelIs
  <1>8. \A i \in 1 .. n :
          u.direct \/ u.BitNumber # 9 \/ i # 10 => (u.bits[i] <=> Level(u, u.asked, i))
    BY <1>1 DEF Sending, Sent
  <1>9. ParityKept(p)
    BY <1>1, <1>6, <1>7 DEF Sending, ParityKept
  <1> HIDE DEF n
  <1>10. Len(p.bits) = n + 1 /\ p.bits[n + 1] = level /\ \A i \in 1 .. n : p.bits[i] = u.bits[i]
    BY <1>2, <1>4, <1>5
  <1>11. ASSUME NEW i \in 1 .. n + 1, p.direct \/ p.BitNumber # 9 \/ i # 10
         PROVE  p.bits[i] <=> Level(p, p.asked, i)
    <2>1. CASE i = n + 1
      BY <1>6, <1>7, <1>10, <1>11, <2>1 DEF n
    <2>2. CASE i # n + 1
      <3>1. i \in 1 .. n
        BY <1>2, <2>2
      <3> QED BY <1>6, <1>7, <1>8, <1>10, <1>11, <3>1
    <2> QED BY <2>1, <2>2
  <1>12. Sent(p)
    BY <1>5, <1>10, <1>11 DEF Sent
  <1> QED BY <1>4, <1>6, <1>9, <1>12

(* A step that puts a level on the line and does not end the frame.        *)
LEMMA PutKeeps ==
  ASSUME NEW u, UsartInv(u), NEW level \in BOOLEAN, NEW p, PutOnly(u, p, level),
         u.bitTxCnt + 1 < FrameLength(u), u.steady => Rest(p),
         u.steady => (u.direct \/ u.BitNumber # 9 \/ u.bitTxCnt + 1 # 10
                        => (level <=> Level(u, u.asked, u.bitTxCnt + 1)))
  PROVE  UsartInv(p)
  <1>1. u \in UsartType /\ p \in UsartType /\ SameFormat(u, p)
    BY DEF UsartInv, PutOnly, SameFrame
  <1>2. FrameLength(p) = FrameLength(u)
    BY <1>1, LevelIs
  <1>3. p.steady => Sending(p)
    <2>1. SUFFICES ASSUME u.steady PROVE Sending(p)
      BY DEF PutOnly, SameFrame
    <2>2. Sent(p) /\ ParityKept(p) /\ p.TX
      BY <2>1, PutSent
    <2>3. p.bitTxCnt < FrameLength(p)
      BY <1>2 DEF PutOnly
    <2> QED BY <2>1, <2>2, <2>3 DEF Sending
  <1>4. ~p.broken /\ (IF p.BitNumber = 0 THEN p.StopBits = 0 ELSE p.StopBits \in 1 .. 2)
    BY <1>1 DEF UsartInv, PutOnly, SameFrame, SameFormat
  <1>5. p.queue => p.TX /\ (p.spoiled \/ p.dbuf = p.waiting)
    BY DEF UsartInv, PutOnly, SameFrame
  <1> QED BY <1>1, <1>3, <1>4, <1>5 DEF UsartInv

(* The end of a frame: what was sent is the frame of the byte.             *)
LEMMA SentIsRight ==
  ASSUME NEW p \in UsartType, p.steady => Sent(p), p.bitTxCnt = FrameLength(p)
  PROVE  Right(p)
  <1> SUFFICES ASSUME p.steady, p.direct \/ p.BitNumber # 9
               PROVE  p.bits = Frame(p, p.asked)
    BY DEF Right
  <1> DEFINE n == FrameLength(p)
  <1>1. p.bits \in Seq(BOOLEAN) /\ Len(p.bits) = n
    BY DEF UsartType, Line, Sent
  <1>2. \A i \in 1 .. n : p.bits[i] <=> Level(p, p.asked, i)
    BY DEF Sent
  <1>3. \A i : Level(p, p.asked, i) \in BOOLEAN
    <2>1. SameFormat(p, p)
      BY DEF SameFormat
    <2> QED BY <2>1, LevelIs
  <1> HIDE DEF n
  <1>4. \A i \in 1 .. n : p.bits[i] \in BOOLEAN
    BY <1>1, ElementOfSeq
  <1>5. \A i \in 1 .. n : p.bits[i] = Level(p, p.asked, i)
    BY <1>2, <1>3, <1>4
  <1>6. p.bits = [i \in 1 .. n |-> p.bits[i]]
    BY <1>1
  <1>7. p.bits = [i \in 1 .. n |-> Level(p, p.asked, i)]
    BY <1>5, <1>6
  <1> QED BY <1>7 DEF Frame, n

(* The queued byte follows, unless a reception spoiled it.                 *)
LEMMA EndTxKeeps ==
  ASSUME NEW p \in UsartType, ~p.broken, Right(p),
         IF p.BitNumber = 0 THEN p.StopBits = 0 ELSE p.StopBits \in 1 .. 2,
         p.queue => p.TX /\ (p.spoiled \/ p.dbuf = p.waiting)
  PROVE  UsartInv(EndTx(p))
  <1> DEFINE k == [p.csr EXCEPT !.tx = TRUE]
             o == p.broken \/ ~Right(p)
             z == <<>>
             w == ~p.spoiled
             e == [p EXCEPT !.TX = FALSE, !.bitTxCnt = 0, !.csr = k, !.utxif = TRUE,
                            !.broken = o, !.bits = z, !.steady = FALSE]
  <1>1. k \in CsrType
    <2>1. p.csr \in CsrType
      BY DEF UsartType
    <2> QED BY <2>1 DEF CsrType
  <1>2. o = FALSE /\ o \in BOOLEAN
    OBVIOUS
  <1>3. z \in Line /\ Len(z) = 0
    BY DEF Line
  <1>4. w \in BOOLEAN /\ p.dbuf \in 0 .. 255 /\ p.waiting \in 0 .. 255
    BY DEF UsartType
  <1>5. EndTx(p) = IF p.queue
                   THEN [e EXCEPT !.TX = TRUE, !.regForTx = p.dbuf, !.queue = FALSE,
                                  !.asked = p.waiting, !.direct = FALSE, !.steady = w]
                   ELSE [e EXCEPT !.csr.active = FALSE]
    <2>1. [p EXCEPT !.TX = FALSE, !.bitTxCnt = 0, !.csr.tx = TRUE, !.utxif = TRUE,
                    !.broken = @ \/ ~Right(p), !.bits = <<>>, !.steady = FALSE] = e
      BY DEF UsartType
    <2> HIDE DEF e
    <2> QED BY <2>1 DEF EndTx
  <1> HIDE DEF k, o, z, w
  <1>6. e \in UsartType
    BY <1>1, <1>2, <1>3, EndTyped
  <1>7. /\ e.bitTxCnt = 0 /\ e.broken = o /\ e.bits = z /\ e.steady = FALSE
        /\ e.queue = p.queue
    BY DEF UsartType
  <1>8. SameFormat(p, e)
    BY DEF UsartType, SameFormat
  <1> HIDE DEF e
  <1>9. CASE p.queue
    <2> DEFINE r == [e EXCEPT !.TX = TRUE, !.regForTx = p.dbuf, !.queue = FALSE,
                              !.asked = p.waiting, !.direct = FALSE, !.steady = w]
    <2>1. EndTx(p) = r
      BY <1>5, <1>9
    <2>2. r \in UsartType
      BY <1>4, <1>6, NextTyped
    <2>3. /\ r.TX = TRUE /\ r.bitTxCnt = e.bitTxCnt /\ r.broken = e.broken
          /\ r.bits = e.bits /\ r.steady = w /\ r.regForTx = p.dbuf /\ r.queue = FALSE
          /\ r.asked = p.waiting /\ r.direct = FALSE
      BY <1>6 DEF UsartType
    <2>4. SameFormat(e, r)
      BY <1>6 DEF UsartType, SameFormat
    <2> HIDE DEF r
    <2>5. IF r.BitNumber = 0 THEN r.StopBits = 0 ELSE r.StopBits \in 1 .. 2
      BY <1>8, <2>4 DEF SameFormat
    <2>6. FrameLength(r) > 0
      BY <2>2, <2>5 DEF FrameLength, UsartType
    <2>7. r.steady => Rest(r)
      <3>1. SUFFICES ASSUME r.steady PROVE Rest(r)
        OBVIOUS
      <3>2. r.regForTx = r.asked
        BY <1>9, <2>3, <3>1 DEF w
      <3>3. Shifted(r) = 0
        BY <1>7, <2>3 DEF Shifted
      <3> QED BY <3>2, <3>3 DEF Rest
    <2>8. Sent(r)
      BY <1>3, <1>7, <2>3 DEF Sent
    <2>9. ParityKept(r)
      BY <2>3 DEF ParityKept
    <2>10. r.steady => Sending(r)
      BY <1>7, <2>3, <2>6, <2>7, <2>8, <2>9 DEF Sending
    <2> QED BY <1>2, <1>7, <2>1, <2>2, <2>3, <2>5, <2>10 DEF UsartInv
  <1>10. CASE ~p.queue
    <2> DEFINE l == [e.csr EXCEPT !.active = FALSE]
               r == [e EXCEPT !.csr = l]
    <2>1. EndTx(p) = r
      <3>1. [e EXCEPT !.csr.active = FALSE] = r
        BY <1>6 DEF UsartType
      <3> HIDE DEF r
      <3> QED BY <1>5, <1>10, <3>1
    <2>2. l \in CsrType
      <3>1. e.csr \in CsrType
        BY <1>6 DEF UsartType
      <3> QED BY <3>1 DEF CsrType
    <2> HIDE DEF l
    <2>3. r \in UsartType
      BY <1>6, <2>2 DEF UsartType
    <2>4. r.broken = e.broken /\ r.steady = e.steady /\ r.queue = e.queue
      BY <1>6 DEF UsartType
    <2>5. SameFormat(e, r)
      BY <1>6 DEF UsartType, SameFormat
    <2> HIDE DEF r
    <2>6. IF r.BitNumber = 0 THEN r.StopBits = 0 ELSE r.StopBits \in 1 .. 2
      BY <1>8, <2>5 DEF SameFormat
    <2> QED BY <1>2, <1>7, <1>10, <2>1, <2>3, <2>4, <2>6 DEF UsartInv
  <1> QED BY <1>9, <1>10

(* Shift_out keeps what is true.                                           *)
LEMMA ShiftOutKeeps ==
  ASSUME NEW u, UsartInv(u)
  PROVE  UsartInv(Shift_out(u))
  <1> DEFINE n == u.bitTxCnt + 1
             s == [u EXCEPT !.bitTxCnt = n]
             level == IF u.BitNumber = 9 /\ n = 10 THEN u.TxParity ELSE stopBit(u)
             sent == IF n <= 1 THEN u.startBit ELSE IF n < 10 THEN Bit7(u.regForTx) ELSE level
             p == Put(s, sent)
  <1>1. /\ u \in UsartType /\ u.bitTxCnt \in Nat /\ u.regForTx \in 0 .. 255
        /\ u.startBit \in BOOLEAN /\ u.TxParity \in BOOLEAN /\ stopBit(u) \in BOOLEAN
        /\ u.BitNumber \in {0, 8, 9}
    BY DEF UsartInv, UsartType, stopBit
  <1>2. sent \in BOOLEAN
    BY <1>1, FirstBit
  <1>3. Shift_out(u) = IF n <= 1 THEN p
                       ELSE IF n < 10 THEN [p EXCEPT !.regForTx = (@ * 2) % 256]
                       ELSE IF n >= u.BitNumber + u.StopBits + 1 THEN EndTx(p)
                       ELSE p
    BY DEF Shift_out
  <1> HIDE DEF sent
  <1>4. PutOnly(u, p, sent)
    BY <1>1, <1>2, PutIs
  <1> HIDE DEF p, s
  <1>5. FrameLength(u) \in 10 .. 12
    BY LengthIs
  <1>6. u.steady => u.bitTxCnt < FrameLength(u) /\ Rest(u) /\ ParityKept(u)
    BY DEF UsartInv, Sending
  <1>7. p.asked = u.asked /\ p.regForTx = u.regForTx /\ p.bitTxCnt = n
    BY <1>4 DEF PutOnly, SameFrame
  <1>8. u.steady => (u.direct \/ u.BitNumber # 9 \/ n # 10
                       => (sent <=> Level(u, u.asked, n)))
    <2>1. SUFFICES ASSUME u.steady, u.direct \/ u.BitNumber # 9 \/ n # 10
                   PROVE  sent <=> Level(u, u.asked, n)
      OBVIOUS
    <2> DEFINE m == u.bitTxCnt
    <2>2. n = m + 1 /\ m \in Nat /\ n \in Int
      BY <1>1
    <2> HIDE DEF n, m
    <2>3. CASE n <= 1
      <3>1. n = 1
        BY <2>2, <2>3
      <3> QED BY <3>1 DEF sent, Level
    <2>4. CASE n > 1 /\ n < 10
      <3>1. n \in 2 .. 9 /\ ~(n <= 1) /\ n # 1
        BY <2>2, <2>4
      <3>2. Shifted(u) = n - 2 /\ 1 \in 1 .. 8 - (n - 2) /\ 1 + (n - 2) = n - 1
        BY <2>2, <3>1 DEF Shifted, m
      <3>3. DataBit(u.regForTx, 1) <=> DataBit(u.asked, n - 1)
        BY <1>6, <2>1, <3>2 DEF Rest
      <3>4. sent <=> DataBit(u.regForTx, 1)
        BY <1>1, <2>4, <3>1, FirstBit DEF sent
      <3>5. Level(u, u.asked, n) = DataBit(u.asked, n - 1)
        BY <3>1 DEF Level
      <3> QED BY <3>3, <3>4, <3>5
    <2>5. CASE n >= 10
      <3>1. ~(n <= 1) /\ ~(n < 10) /\ n # 1 /\ n \notin 2 .. 9
        BY <2>2, <2>5
      <3>2. CASE n = 10 /\ u.BitNumber = 9
        <4>1. sent = u.TxParity
          BY <3>1, <3>2 DEF sent
        <4>2. Level(u, u.asked, n) = parity_check(u, u.asked)
          BY <3>1, <3>2 DEF Level
        <4> QED BY <1>6, <2>1, <3>2, <4>1, <4>2 DEF ParityKept
      <3>3. CASE ~(n = 10 /\ u.BitNumber = 9)
        BY <3>1, <3>3 DEF sent, Level
      <3> QED BY <3>2, <3>3
    <2> QED BY <2>2, <2>3, <2>4, <2>5
  <1>9. /\ p \in UsartType /\ SameFormat(u, p) /\ p.steady = u.steady /\ p.broken = u.broken
        /\ p.queue = u.queue /\ p.TX = u.TX /\ p.spoiled = u.spoiled /\ p.dbuf = u.dbuf
        /\ p.waiting = u.waiting
    BY <1>4 DEF PutOnly, SameFrame
  <1>10. CASE n <= 1
    <2>1. n < FrameLength(u) /\ u.bitTxCnt = 0 /\ n = 1
      BY <1>1, <1>5, <1>10
    <2>2. Shifted(u) = 0 /\ Shifted(p) = 0
      BY <1>7, <2>1 DEF Shifted
    <2>3. u.steady => Rest(p)
      BY <1>6, <1>7, <2>2 DEF Rest
    <2>4. UsartInv(p)
      BY <1>2, <1>4, <1>8, <2>1, <2>3, PutKeeps
    <2> QED BY <1>3, <1>10, <2>4
  <1>11. CASE n > 1 /\ n < 10
    <2> DEFINE g == (p.regForTx * 2) % 256
               r == [p EXCEPT !.regForTx = g]
    <2>1. Shift_out(u) = r
      BY <1>1, <1>3, <1>9, <1>11 DEF UsartType
    <2>2. g \in 0 .. 255 /\ \A i \in 1 .. 7 : DataBit(g, i) <=> DataBit(u.regForTx, i + 1)
      BY <1>1, <1>7, ShiftBits
    <2> HIDE DEF g
    <2>3. r \in UsartType
      BY <1>9, <2>2 DEF UsartType
    <2>4. SameFrame(p, r)
      BY <1>9 DEF UsartType, SameFrame, SameFormat
    <2>5. r.regForTx = g /\ r.bits = p.bits /\ r.bitTxCnt = p.bitTxCnt
          /\ r.dbuf = p.dbuf /\ r.spoiled = p.spoiled
      BY <1>9 DEF UsartType
    <2> HIDE DEF r
    <2>6. FrameLength(r) = FrameLength(u)
      <3>1. SameFormat(u, r)
        BY <1>9, <2>4 DEF SameFrame, SameFormat
      <3> QED BY <1>1, <2>3, <3>1, LevelIs
    <2>7. u.steady => Rest(r)
      <3>1. SUFFICES ASSUME u.steady PROVE Rest(r)
        OBVIOUS
      <3> DEFINE m == u.bitTxCnt
      <3>2. m \in 1 .. 8 /\ m \in Int /\ n = m + 1
        BY <1>1, <1>11
      <3> HIDE DEF m, n
      <3>3. Shifted(u) = m - 1 /\ Shifted(r) = m
        BY <1>7, <2>5, <3>2 DEF Shifted, m
      <3>4. ASSUME NEW i \in 1 .. 8 - m
            PROVE  DataBit(g, i) <=> DataBit(u.asked, i + m)
        <4>1. i \in 1 .. 7 /\ i + 1 \in 1 .. 8 - (m - 1) /\ (i + 1) + (m - 1) = i + m
          BY <3>2
        <4>2. DataBit(u.regForTx, i + 1) <=> DataBit(u.asked, (i + 1) + (m - 1))
          BY <1>6, <3>1, <3>3, <4>1 DEF Rest
        <4> QED BY <2>2, <4>1, <4>2
      <3>5. r.asked = u.asked
        BY <1>7, <2>4 DEF SameFrame
      <3> QED BY <2>5, <3>3, <3>4, <3>5 DEF Rest
    <2>8. r.steady => Sending(r)
      <3>1. SUFFICES ASSUME u.steady PROVE Sending(r)
        BY <1>9, <2>4 DEF SameFrame
      <3>2. Sent(p) /\ ParityKept(p) /\ p.TX
        BY <1>2, <1>4, <1>8, <3>1, PutSent
      <3>3. SameFormat(p, r) /\ r.asked = p.asked
        BY <2>4 DEF SameFrame
      <3>4. /\ \A i : Level(r, r.asked, i) = Level(p, p.asked, i)
            /\ parity_check(r, r.asked) = parity_check(p, p.asked)
        BY <1>9, <2>3, <3>3, LevelIs
      <3>5. Sent(r) /\ ParityKept(r) /\ r.TX
        BY <2>4, <2>5, <3>2, <3>4 DEF Sent, ParityKept, SameFrame, SameFormat
      <3>6. r.bitTxCnt < FrameLength(r)
        BY <1>1, <1>5, <1>7, <1>11, <2>5, <2>6
      <3> QED BY <2>7, <3>1, <3>5, <3>6 DEF Sending
    <2>9. ~r.broken /\ (IF r.BitNumber = 0 THEN r.StopBits = 0 ELSE r.StopBits \in 1 .. 2)
      BY <1>9, <2>4 DEF UsartInv, SameFrame, SameFormat
    <2>10. r.queue => r.TX /\ (r.spoiled \/ r.dbuf = r.waiting)
      BY <1>9, <2>4, <2>5 DEF UsartInv, SameFrame
    <2> QED BY <2>1, <2>3, <2>8, <2>9, <2>10 DEF UsartInv
  <1>12. CASE n >= 10 /\ n >= u.BitNumber + u.StopBits + 1
    <2>1. Shift_out(u) = EndTx(p)
      BY <1>1, <1>3, <1>12
    <2>2. p.steady => Sent(p) /\ p.bitTxCnt = FrameLength(p)
      <3>1. SUFFICES ASSUME u.steady PROVE Sent(p) /\ p.bitTxCnt = FrameLength(p)
        BY <1>9
      <3>2. Sent(p)
        BY <1>2, <1>4, <1>8, <3>1, PutSent
      <3>3. FrameLength(p) = FrameLength(u)
        BY <1>1, <1>9, LevelIs
      <3>4. n <= FrameLength(u) /\ n >= FrameLength(u)
        BY <1>1, <1>5, <1>6, <1>12, <3>1, LengthIs
      <3> QED BY <1>1, <1>5, <1>7, <3>2, <3>3, <3>4
    <2>3. Right(p)
      <3>1. CASE p.steady
        BY <1>9, <2>2, <3>1, SentIsRight
      <3>2. CASE ~p.steady
        BY <3>2 DEF Right
      <3> QED BY <3>1, <3>2
    <2>4. IF p.BitNumber = 0 THEN p.StopBits = 0 ELSE p.StopBits \in 1 .. 2
      BY <1>9 DEF UsartInv, SameFormat
    <2>5. ~p.broken /\ (p.queue => p.TX /\ (p.spoiled \/ p.dbuf = p.waiting))
      BY <1>9 DEF UsartInv
    <2> QED BY <1>9, <2>1, <2>3, <2>4, <2>5, EndTxKeeps
  <1>13. CASE n >= 10 /\ ~(n >= u.BitNumber + u.StopBits + 1)
    <2>1. Shift_out(u) = p
      BY <1>1, <1>3, <1>13
    <2>2. n < FrameLength(u)
      <3>1. u.StopBits \in 0 .. 2 /\ n \in Int
        BY <1>1 DEF UsartType
      <3> HIDE DEF n
      <3> QED BY <1>1, <1>13, <3>1, LengthIs
    <2>3. u.steady => Rest(p)
      <3>1. Shifted(p) = 8
        BY <1>1, <1>7, <1>13 DEF Shifted
      <3>2. \A i : i \notin 1 .. 8 - 8
        OBVIOUS
      <3> QED BY <3>1, <3>2 DEF Rest
    <2>4. UsartInv(p)
      BY <1>2, <1>4, <1>8, <2>2, <2>3, PutKeeps
    <2> QED BY <2>1, <2>4
  <1>14. n \in Int /\ (n <= 1 \/ (n > 1 /\ n < 10) \/ n >= 10)
    BY <1>1
  <1> QED BY <1>10, <1>11, <1>12, <1>13, <1>14

(* A tick of the baud clock keeps it: each way shifts at most once.        *)
LEMMA UsartTickKeeps ==
  ASSUME NEW u, UsartInv(u), NEW x \in BOOLEAN
  PROVE  UsartInv(usart_tick(u, x))
  <1>1. ASSUME NEW v, UsartInv(v) PROVE UsartInv(Shift_in(v, x))
    <2>1. v \in UsartType
      BY <1>1 DEF UsartInv
    <2>2. Quiet(v, Shift_in(v, x))
      BY <2>1, ShiftInQuiet
    <2> QED BY <1>1, <2>2, SameKeeps DEF Quiet
  <1>2. UsartInv(Shift_in(Shift_out(u), x))
    BY <1>1, ShiftOutKeeps
  <1> DEFINE r == IF u.RX THEN Shift_in(u, x) ELSE u
  <1>3. UsartInv(r)
    BY <1>1
  <1>4. UsartInv(IF r.TX THEN Shift_out(r) ELSE r)
    <2> HIDE DEF r
    <2> QED BY <1>3, ShiftOutKeeps
  <1> QED BY <1>2, <1>4 DEF usart_tick, BaudTick

(* A write of UxDBUF queues the byte while one is sent, and starts to send *)
(* it otherwise.                                                           *)
LEMMA QueueTyped ==
  ASSUME NEW u \in UsartType, NEW v \in 0 .. 255
  PROVE  [u EXCEPT !.dbuf = v, !.spoiled = FALSE, !.queue = TRUE, !.waiting = v] \in UsartType
  BY ZenonT(60) DEF UsartType

(* The start of a byte that was not queued.                                *)
LEMMA StartTyped ==
  ASSUME NEW u \in UsartType, NEW v \in 0 .. 255, NEW k \in CsrType, NEW t \in BOOLEAN,
         NEW b \in Line
  PROVE  [u EXCEPT !.TX = TRUE, !.regForTx = v, !.csr = k, !.bitTxCnt = 0, !.TxParity = t,
                   !.asked = v, !.direct = TRUE, !.steady = TRUE, !.bits = b] \in UsartType
  BY ZenonT(60) DEF UsartType

(* Both keep what is true.                                                 *)
LEMMA DbufKeeps ==
  ASSUME NEW u, UsartInv(u), NEW v \in 0 .. 255
  PROVE  UsartInv(write_dbuf(u, v))
  <1>0. u \in UsartType
    BY DEF UsartInv
  <1>1. CASE u.TX
    <2> DEFINE r == [u EXCEPT !.dbuf = v, !.spoiled = FALSE, !.queue = TRUE, !.waiting = v]
    <2>1. write_dbuf(u, v) = r
      BY <1>1 DEF write_dbuf
    <2>2. r \in UsartType
      BY <1>0, QueueTyped
    <2>3. /\ r.TX = u.TX /\ r.TxParity = u.TxParity /\ r.asked = u.asked
          /\ r.direct = u.direct /\ r.steady = u.steady /\ r.broken = u.broken
      BY <1>0 DEF UsartType
    <2>4. SameFormat(u, r) /\ SameBits(u, r)
      BY <1>0 DEF UsartType, SameFormat, SameBits
    <2>5. r.queue = TRUE /\ r.dbuf = v /\ r.waiting = v
      BY <1>0 DEF UsartType
    <2> HIDE DEF r
    <2>6. /\ \A i : Level(r, r.asked, i) = Level(u, u.asked, i)
          /\ parity_check(r, r.asked) = parity_check(u, u.asked)
          /\ FrameLength(r) = FrameLength(u)
      BY <1>0, <2>2, <2>3, <2>4, LevelIs
    <2>7. Shifted(r) = Shifted(u)
      BY <2>4 DEF Shifted, SameBits
    <2>8. Sending(u) => Sending(r)
      BY <2>3, <2>4, <2>6, <2>7 DEF Sending, Rest, Sent, ParityKept, SameBits, SameFormat
    <2>9. IF r.BitNumber = 0 THEN r.StopBits = 0 ELSE r.StopBits \in 1 .. 2
      BY <2>4 DEF UsartInv, SameFormat
    <2>10. ~r.broken /\ (r.steady => Sending(r))
      BY <2>3, <2>8 DEF UsartInv
    <2> QED BY <1>1, <2>1, <2>2, <2>3, <2>5, <2>9, <2>10 DEF UsartInv
  <1>2. CASE ~u.TX
    <2> DEFINE q == [u EXCEPT !.dbuf = v, !.spoiled = FALSE]
               k == [u.csr EXCEPT !.active = TRUE]
               t == IF u.BitNumber = 9 THEN parity_check(u, v) ELSE u.TxParity
               b == <<>>
               r == [q EXCEPT !.TX = TRUE, !.regForTx = v, !.csr = k, !.bitTxCnt = 0,
                              !.TxParity = t, !.asked = v, !.direct = TRUE, !.steady = TRUE,
                              !.bits = b]
    <2>1. q \in UsartType
      BY <1>0 DEF UsartType
    <2>2. q.csr = u.csr /\ q.queue = u.queue /\ q.broken = u.broken /\ q.TxParity = u.TxParity
      BY <1>0 DEF UsartType
    <2>3. SameFormat(u, q)
      BY <1>0 DEF UsartType, SameFormat
    <2>4. write_dbuf(u, v) = r
      <3>1. write_dbuf(u, v) =
              [q EXCEPT !.TX = TRUE, !.regForTx = v, !.csr.active = TRUE, !.bitTxCnt = 0,
                        !.TxParity = IF u.BitNumber = 9 THEN parity_check(u, v) ELSE @,
                        !.asked = v, !.direct = TRUE, !.steady = TRUE, !.bits = <<>>]
        BY <1>2 DEF write_dbuf
      <3> HIDE DEF q
      <3> QED BY <2>1, <2>2, <3>1 DEF UsartType
    <2> HIDE DEF q
    <2>5. k \in CsrType
      <3>1. u.csr \in CsrType
        BY <1>0 DEF UsartType
      <3> QED BY <3>1 DEF CsrType
    <2>6. t \in BOOLEAN
      <3>1. u.TxParity \in BOOLEAN /\ SameFormat(u, u)
        BY <1>0 DEF UsartType, SameFormat
      <3> QED BY <1>0, <3>1, LevelIs
    <2>7. b \in Line /\ Len(b) = 0
      BY DEF Line
    <2> HIDE DEF k, t, b
    <2>8. r \in UsartType
      BY <2>1, <2>5, <2>6, <2>7, StartTyped
    <2>9. /\ r.TX = TRUE /\ r.regForTx = v /\ r.bitTxCnt = 0 /\ r.TxParity = t /\ r.asked = v
          /\ r.bits = b /\ r.queue = q.queue /\ r.broken = q.broken
      BY <2>1 DEF UsartType
    <2>10. SameFormat(q, r)
      BY <2>1 DEF UsartType, SameFormat
    <2> HIDE DEF r
    <2>11. SameFormat(u, r)
      BY <2>3, <2>10 DEF SameFormat
    <2>12. parity_check(r, v) = parity_check(u, v) /\ FrameLength(r) = FrameLength(u)
      BY <1>0, <2>8, <2>11, LevelIs
    <2>13. FrameLength(u) \in 10 .. 12
      BY LengthIs
    <2>14. Shifted(r) = 0
      BY <2>9 DEF Shifted
    <2>15. Rest(r)
      BY <2>9, <2>14 DEF Rest
    <2>16. Sent(r)
      BY <2>7, <2>9 DEF Sent
    <2>17. ParityKept(r)
      <3>1. r.BitNumber = u.BitNumber
        BY <2>11 DEF SameFormat
      <3> QED BY <2>9, <2>12, <3>1 DEF ParityKept, t
    <2>18. Sending(r)
      <3>1. r.bitTxCnt < FrameLength(r)
        BY <2>9, <2>12, <2>13
      <3> QED BY <2>9, <2>15, <2>16, <2>17, <3>1 DEF Sending
    <2>19. IF r.BitNumber = 0 THEN r.StopBits = 0 ELSE r.StopBits \in 1 .. 2
      BY <2>11 DEF UsartInv, SameFormat
    <2>20. ~r.broken /\ ~r.queue
      BY <1>2, <2>2, <2>9 DEF UsartInv
    <2> QED BY <2>4, <2>8, <2>18, <2>19, <2>20 DEF UsartInv
  <1> QED BY <1>1, <1>2

(* A write or a read of UxCSR and a write of UxBAUD leave the frame alone. *)
LEMMA CsrKeeps ==
  ASSUME NEW u, UsartInv(u), NEW k \in CsrType, NEW x \in BOOLEAN, NEW y \in BOOLEAN,
         NEW z \in BOOLEAN
  PROVE  UsartInv([u EXCEPT !.csr = k, !.RX = x, !.slave = y, !.baud = z])
  <1> DEFINE r == [u EXCEPT !.csr = k, !.RX = x, !.slave = y, !.baud = z]
  <1>0. u \in UsartType
    BY DEF UsartInv
  <1>1. r \in UsartType
    BY <1>0 DEF UsartType
  <1>2. SameFrame(u, r)
    BY <1>0 DEF UsartType, SameFrame, SameFormat
  <1>3. SameBits(u, r) /\ SameBuffer(u, r)
    BY <1>0 DEF UsartType, SameBits, SameBuffer
  <1> HIDE DEF r
  <1>4. UsartInv(r)
    BY <1>1, <1>2, <1>3, SameKeeps
  <1> QED BY <1>4 DEF r

(* The other writes: a new format ends what is known of the frame.         *)
LEMMA UcrTyped ==
  ASSUME NEW u \in UsartType, NEW n \in {0, 8, 9}, NEW m \in 0 .. 2, NEW l \in BOOLEAN,
         NEW e \in BOOLEAN
  PROVE  [u EXCEPT !.BitNumber = n, !.StopBits = m, !.startBit = l, !.even = e,
                   !.steady = FALSE] \in UsartType
  BY ZenonT(60) DEF UsartType

(* A write of UxUCR keeps what is true.                                    *)
LEMMA UcrKeeps ==
  ASSUME NEW u, UsartInv(u), NEW nine \in BOOLEAN, NEW even \in BOOLEAN, NEW levels \in 0 .. 2,
         NEW two \in BOOLEAN
  PROVE  UsartInv(write_ucr(u, nine, even, levels, two))
  <1> DEFINE n == IF nine THEN 9 ELSE 8
             m == IF two THEN 2 ELSE 1
             l == IF levels = 1 THEN TRUE ELSE IF levels = 2 THEN FALSE ELSE u.startBit
             r == [u EXCEPT !.BitNumber = n, !.StopBits = m, !.startBit = l, !.even = even,
                            !.steady = FALSE]
  <1>0. u \in UsartType /\ u.startBit \in BOOLEAN
    BY DEF UsartInv, UsartType
  <1>1. write_ucr(u, nine, even, levels, two) = r
    BY <1>0 DEF write_ucr, UsartType
  <1>2. n \in {0, 8, 9} /\ n # 0 /\ m \in 0 .. 2 /\ m \in 1 .. 2 /\ l \in BOOLEAN
    <2>1. n \in {0, 8, 9} /\ n # 0
      OBVIOUS
    <2>2. m \in 0 .. 2 /\ m \in 1 .. 2
      OBVIOUS
    <2>3. l \in BOOLEAN
      BY <1>0
    <2> HIDE DEF n, m, l
    <2> QED BY <2>1, <2>2, <2>3
  <1> HIDE DEF n, m, l
  <1>3. r \in UsartType
    BY <1>0, <1>2, UcrTyped
  <1>4. /\ r.BitNumber = n /\ r.StopBits = m /\ r.steady = FALSE /\ r.broken = u.broken
        /\ r.queue = u.queue /\ r.TX = u.TX /\ r.spoiled = u.spoiled /\ r.dbuf = u.dbuf
        /\ r.waiting = u.waiting
    BY <1>0 DEF UsartType
  <1> HIDE DEF r
  <1>5. ~r.broken /\ (r.queue => r.TX /\ (r.spoiled \/ r.dbuf = r.waiting))
    BY <1>4 DEF UsartInv
  <1>6. IF r.BitNumber = 0 THEN r.StopBits = 0 ELSE r.StopBits \in 1 .. 2
    BY <1>2, <1>4
  <1> QED BY <1>1, <1>3, <1>4, <1>5, <1>6 DEF UsartInv

(* After a reset no frame is on its way.                                   *)
LEMMA ResetKeeps ==
  ASSUME NEW t \in 0 .. 255, NEW g \in 0 .. 255
  PROVE  UsartInv(usart_reset(t, g))
  <1>1. NoCsr \in CsrType
    BY DEF NoCsr, CsrType
  <1>2. <<>> \in Line
    BY DEF Line
  <1>3. usart_reset(t, g) \in UsartType
    BY <1>1, <1>2 DEF usart_reset, UsartType
  <1> QED BY <1>3 DEF usart_reset, UsartInv

(* What a program does to the registers keeps it.                          *)
LEMMA WriteKeeps ==
  ASSUME UsartInv(us), UsartWrite
  PROVE  UsartInv(us')
  <1>0. us \in UsartType
    BY DEF UsartInv
  <1>1. /\ us.csr \in CsrType /\ us.RX \in BOOLEAN /\ us.slave \in BOOLEAN
        /\ us.baud \in BOOLEAN /\ us.regForTx \in 0 .. 255 /\ us.regForRx \in 0 .. 255
    BY <1>0 DEF UsartType
  <1>2. ASSUME NEW k \in CsrType, NEW x \in BOOLEAN, NEW y \in BOOLEAN,
               us' = [us EXCEPT !.csr = k, !.RX = x, !.slave = y]
        PROVE  UsartInv(us')
    <2>1. us' = [us EXCEPT !.csr = k, !.RX = x, !.slave = y, !.baud = us.baud]
      BY <1>0, <1>2 DEF UsartType
    <2> QED BY <1>1, <2>1, CsrKeeps
  <1>3. ASSUME NEW uart \in BOOLEAN, NEW re \in BOOLEAN, NEW slave \in BOOLEAN,
               NEW a \in BOOLEAN, us' = write_csr(us, uart, re, slave, a)
        PROVE  UsartInv(us')
    <2> DEFINE k == [NoCsr EXCEPT !.uart = uart, !.slave = slave, !.active = a]
               x == us.RX \/ re
               y == us.slave \/ slave
    <2>1. us' = [us EXCEPT !.csr = k, !.RX = x, !.slave = y]
      BY <1>0, <1>3 DEF write_csr, UsartType
    <2>2. k \in CsrType
      BY DEF NoCsr, CsrType
    <2>3. x \in BOOLEAN /\ y \in BOOLEAN
      OBVIOUS
    <2> HIDE DEF k, x, y
    <2> QED BY <1>2, <2>1, <2>2, <2>3
  <1>4. CASE \E v \in UsartBytes : us' = write_dbuf(us, v)
    <2>1. PICK v \in UsartBytes : us' = write_dbuf(us, v)
      BY <1>4
    <2>2. v \in 0 .. 255
      BY UsartAssumption
    <2> QED BY <2>1, <2>2, DbufKeeps
  <1>5. CASE \E uart \in BOOLEAN, re \in BOOLEAN, a \in BOOLEAN :
               us' = write_csr(us, uart, re, FALSE, a)
    BY <1>3, <1>5
  <1>6. CASE us' = write_csr(us, FALSE, FALSE, TRUE, FALSE)
    BY <1>3, <1>6
  <1>7. CASE \E nine \in BOOLEAN, even \in BOOLEAN, l \in 0 .. 2, two \in BOOLEAN :
               us' = write_ucr(us, nine, even, l, two)
    BY <1>7, UcrKeeps
  <1>8. CASE us' = write_baud(us)
    <2>1. us' = [us EXCEPT !.csr = us.csr, !.RX = us.RX, !.slave = us.slave, !.baud = TRUE]
      BY <1>0, <1>8 DEF write_baud, UsartType
    <2> QED BY <1>1, <2>1, CsrKeeps
  <1>9. CASE us' = read_csr(us)
    <2> DEFINE k == [us.csr EXCEPT !.err = FALSE, !.fe = FALSE]
    <2>1. us' = [us EXCEPT !.csr = k, !.RX = us.RX, !.slave = us.slave]
      BY <1>0, <1>9 DEF read_csr, UsartType
    <2>2. k \in CsrType
      BY <1>1 DEF CsrType
    <2> HIDE DEF k
    <2> QED BY <1>1, <1>2, <2>1, <2>2
  <1>10. CASE us' = usart_reset(us.regForTx, us.regForRx)
    BY <1>1, <1>10, ResetKeeps
  <1> QED BY <1>4, <1>5, <1>6, <1>7, <1>8, <1>9, <1>10 DEF UsartWrite

(* Whatever the program writes and whatever is received, each byte leaves  *)
(* the line as one frame of the format that UxUCR set: Shift_out sends the *)
(* start bit, the bits of the byte, its parity and the stop bits, and      *)
(* nothing that Shift_in stores or that a write queues disturbs it.        *)
THEOREM FramesExactAlways == UsartInit /\ [][UsartTick \/ UsartWrite]_us => []FramesExact
  <1>1. UsartInit => UsartInv(us)
    <2>1. UsartInv(usart_reset(0, 0))
      <3>1. 0 \in 0 .. 255
        OBVIOUS
      <3> QED BY <3>1, ResetKeeps, Zenon
    <2> QED BY <2>1 DEF UsartInit
  <1>2. UsartInv(us) /\ [UsartTick \/ UsartWrite]_us => UsartInv(us)'
    <2> SUFFICES ASSUME UsartInv(us), [UsartTick \/ UsartWrite]_us PROVE UsartInv(us')
      OBVIOUS
    <2>1. CASE UsartTick
      BY <2>1, UsartTickKeeps DEF UsartTick
    <2>2. CASE UsartWrite
      BY <2>2, WriteKeeps
    <2>3. CASE UNCHANGED us
      BY <2>3
    <2> QED BY <2>1, <2>2, <2>3
  <1>3. UsartInv(us) => FramesExact
    BY DEF UsartInv, FramesExact
  <1> QED BY <1>1, <1>2, <1>3, PTL
=============================================================================

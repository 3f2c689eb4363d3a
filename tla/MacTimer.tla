------------------------------ MODULE MacTimer ------------------------------
(***************************************************************************)
(* The MAC timer of the CC2530: cl_CC2530_timer2.                          *)
(*                                                                         *)
(* T2M0/T2M1 and T2MOVF0..2 are windows on five registers each, chosen by  *)
(* T2MSEL: the counter, the capture value, the period and two compare      *)
(* values.  The counter is an unsigned double word, the others are short;  *)
(* the three bytes of the overflow registers are separate variables.       *)
(*                                                                         *)
(* The state is the record mt.  elapsed is history: the ticks since the    *)
(* count and the overflow counter were last set, or NotKnown.              *)
(***************************************************************************)
EXTENDS Integers, FiniteSets

CONSTANTS
  Bytes,      \* values of a byte (256)
  MaxCount    \* the count is followed up to here (2^32 - 1)

ASSUME MacAssumption == Bytes \in Nat /\ Bytes > 1 /\ MaxCount \in Nat

VARIABLE mt

NotKnown == -1

\* the registers behind the windows
Counter == 0
Period == 2
Compare1 == 3
Compare2 == 4

\* bits of T2IRQF
PeriodEvent == 0
CompareEvent1 == 1
CompareEvent2 == 2
OvfPeriodEvent == 3
OvfCompareEvent1 == 4
OvfCompareEvent2 == 5

\* assignment to a short int
ToShort(x) == IF x >= (Bytes * Bytes) \div 2 THEN x - Bytes * Bytes ELSE x

Zeros == [b \in 0 .. 2 |-> 0]

\* cl_CC2530_timer2::reset and clear_sfr.  CSPT is in the external memory,
\* where only the construction of the strobe processor sets it.
mac_reset(cspt) ==
  [mode |-> 0, run |-> FALSE, t2msel |-> 0, t2movfsel |-> 0, t2m0 |-> 0,
   m |-> [r \in 0 .. 4 |-> 0], ovf |-> [r \in 0 .. 4 |-> Zeros],
   evtcfg |-> [e \in {1, 2} |-> 0], out |-> [e \in {1, 2} |-> FALSE],
   irqf |-> {}, irqm |-> {}, ircon |-> FALSE, event |-> FALSE, cspt |-> cspt,
   elapsed |-> 0]
-----------------------------------------------------------------------------
\* Fault: the third byte counts the zeros of the second one.
Fault_Increment(t) ==
  LET o == t.ovf[Counter]
      b0 == (o[0] + 1) % Bytes
      b1 == IF b0 = 0 THEN (o[1] + 1) % Bytes ELSE o[1]
      b2 == IF b1 = 0 THEN (o[2] + 1) % Bytes ELSE o[2]
  IN  [t EXCEPT !.ovf[Counter] = [b \in 0 .. 2 |-> CASE b = 0 -> b0 [] b = 1 -> b1 [] b = 2 -> b2]]

\* The overflow counter goes up by one.  The carries are nested.
Increment(t) ==
  LET o == t.ovf[Counter]
      b0 == (o[0] + 1) % Bytes
      b1 == IF b0 = 0 THEN (o[1] + 1) % Bytes ELSE o[1]
      b2 == IF b0 = 0 /\ b1 = 0 THEN (o[2] + 1) % Bytes ELSE o[2]
  IN  [t EXCEPT !.ovf[Counter] = [b \in 0 .. 2 |-> CASE b = 0 -> b0 [] b = 1 -> b1 [] b = 2 -> b2]]

\* An event sets its flag.  The mask is compared with 1: only bit 0 ever
\* requests the interrupt.
Happened(t, bit) ==
  [t EXCEPT !.irqf = @ \cup {bit}, !.event = TRUE,
            !.ircon = @ \/ (bit = PeriodEvent /\ bit \in t.irqm)]

HappenedIf(t, cond, bit) == IF cond THEN Happened(t, bit) ELSE t

\* cl_CC2530_timer2::overflow.  CSPT, which the radio's strobe processor
\* waits on, goes down to the largest byte and stays there.
mac_overflow(t) ==
  LET c == IF t.cspt # Bytes - 1 THEN [t EXCEPT !.cspt = (@ - 1) % Bytes] ELSE t
      i == Increment(c)
      p == IF i.ovf[Counter] = i.ovf[Period]
           THEN [Happened(i, OvfPeriodEvent) EXCEPT !.ovf[Counter] = Zeros, !.elapsed = 0]
           ELSE i
      q == HappenedIf(p, p.ovf[Counter] = p.ovf[Compare1], OvfCompareEvent1)
  IN  HappenedIf(q, q.ovf[Counter] = q.ovf[Compare2], OvfCompareEvent2)

\* cl_CC2530_timer2::CountCompare.  The flags are only cleared by a tick
\* without an event.
CountCompare(t) ==
  LET a == HappenedIf(t, t.m[Counter] = t.m[Compare1], CompareEvent1)
      b == HappenedIf(a, a.m[Counter] = a.m[Compare2], CompareEvent2)
      p == IF b.m[Counter] = b.m[Period] /\ b.m[Period] # 0
           THEN Happened(mac_overflow([b EXCEPT !.m[Counter] = 0]), PeriodEvent)
           ELSE b
  IN  IF p.event
      THEN [p EXCEPT !.out = [e \in {1, 2} |-> p.evtcfg[e] \in p.irqf]]
      ELSE [p EXCEPT !.irqf = {}, !.out = [e \in {1, 2} |-> FALSE]]

Quiet(t) == [t EXCEPT !.event = FALSE]

\* One cycle of do_UpMode; run is not looked at.
do_UpMode(t) ==
  LET u == [Quiet(t) EXCEPT !.m[Counter] = @ + 1,
                            !.elapsed = IF @ = NotKnown THEN @ ELSE @ + 1]
  IN  CountCompare(u)

\* One cycle of do_DeltaMode
do_DeltaMode(t) ==
  LET u == [Quiet(t) EXCEPT !.elapsed = NotKnown]
  IN  CountCompare(IF u.m[Counter] = 0 THEN [u EXCEPT !.mode = 0]
                   ELSE [u EXCEPT !.m[Counter] = @ - 1])

\* cl_CC2530_timer2::tick: the mode is looked at once
mac_tick(t, cycles) ==
  LET After[n \in 0 .. cycles] ==
        IF n = 0 THEN t
        ELSE IF t.mode = 0 THEN do_UpMode(After[n - 1]) ELSE do_DeltaMode(After[n - 1])
  IN  After[cycles]
-----------------------------------------------------------------------------
\* cl_CC2530_timer2::write for T2CTRL and T2MSEL
mac_write_ctrl(t, on) == [t EXCEPT !.run = on]

mac_write_msel(t, m, o) == [t EXCEPT !.t2msel = m, !.t2movfsel = o]

Forget(t) == [t EXCEPT !.elapsed = NotKnown]

\* for T2M0: the low byte alone becomes the value
mac_write_m0(t, v) ==
  LET u == [Forget(t) EXCEPT !.t2m0 = v]
  IN  IF t.t2msel > 4 THEN u ELSE [u EXCEPT !.m[t.t2msel] = v]

\* for T2M1: the high byte with the low byte that was written last.  A count
\* written while the timer runs is counted down first.
mac_write_m1(t, v) ==
  LET n == v * Bytes + t.t2m0
      u == Forget(t)
  IN  IF t.t2msel > 4 THEN u
      ELSE IF t.t2msel # Counter THEN [u EXCEPT !.m[t.t2msel] = ToShort(n)]
      ELSE [u EXCEPT !.m[Counter] = n, !.mode = IF t.run THEN 1 ELSE @]

\* for T2MOVF0, T2MOVF1 and T2MOVF2
mac_write_movf(t, b, v) ==
  IF t.t2movfsel > 4 THEN t ELSE [Forget(t) EXCEPT !.ovf[t.t2movfsel][b] = v]

\* cl_CC2530_timer2::read, T2MOVF0..2 together
mac_read_movf(t) ==
  LET o == t.ovf[t.t2movfsel] IN o[0] + Bytes * (o[1] + Bytes * o[2])

\* and T2M0, T2M1 together
mac_read_m(t) == t.m[t.t2msel] % (Bytes * Bytes)
-----------------------------------------------------------------------------
MacInit == mt = mac_reset(Bytes - 1)

MacTick == \E n \in {1, 2} : mt.m[Counter] + n <= MaxCount /\ mt' = mac_tick(mt, n)

MacWrite ==
  \/ \E on \in BOOLEAN : mt' = mac_write_ctrl(mt, on)
  \/ \E r \in {Counter, Period, Compare1, Compare2, 7} : mt' = mac_write_msel(mt, r, r)
  \/ \E v \in 0 .. Bytes - 1 : mt' = mac_write_m0(mt, v)
  \/ \E v \in 0 .. Bytes - 1 : mt' = mac_write_m1(mt, v)
  \/ \E b \in 0 .. 2, v \in {1, Bytes - 1} : mt' = mac_write_movf(mt, b, v)
  \/ mt' = [mt EXCEPT !.irqm = {PeriodEvent, OvfPeriodEvent}]
  \/ mt' = [mt EXCEPT !.ircon = FALSE]
  \/ \E e \in {1, 2} : mt' = [mt EXCEPT !.evtcfg[e] = OvfCompareEvent1]
  \/ \E v \in {0, 2} : mt' = [mt EXCEPT !.cspt = v]

\* The program knows where it starts: count and overflow counter were zero.
MacSync ==
  /\ mt.elapsed = NotKnown /\ mt.m[Counter] = 0 /\ mt.mode = 0 /\ mt.ovf[Counter] = Zeros
  /\ mt' = [mt EXCEPT !.elapsed = 0]

MacReset == mt' = mac_reset(mt.cspt)

MacNext == MacTick \/ MacWrite \/ MacSync \/ MacReset
-----------------------------------------------------------------------------
(* Properties *)

\* No tick is lost between the count and the overflow counter: with a period,
\* the overflow counter read through T2MOVF0..2 times the period plus the
\* count read through T2M0 and T2M1 is the time since both were zero, as far
\* as three bytes hold.  The period event resets the count before overflow
\* carries through three separate bytes.
MacTimeKept ==
  (mt.elapsed # NotKnown /\ mt.t2msel = Counter /\ mt.t2movfsel = Counter)
    => LET P == mt.m[Period]
       IN  IF P > 0
           THEN (mac_read_movf(mt) * P) + mac_read_m(mt)
                  = mt.elapsed % (P * Bytes * Bytes * Bytes)
           ELSE mt.m[Counter] = mt.elapsed
=============================================================================

----------------------------- MODULE Timer2530 ------------------------------
(***************************************************************************)
(* The timers 1, 3 and 4 of the CC2530: cl_CC2530_timer<T> and the three   *)
(* classes made from it.  T is short int for timer 1 and char for 3 and 4; *)
(* here a signed integer of 2 * Half values.                               *)
(*                                                                         *)
(* A timer does not compare its count with every channel on every tick: it *)
(* keeps the ticks to the next match in NextCmpEvent, counts them down,    *)
(* and visits the channels when it reaches zero.                           *)
(*                                                                         *)
(* The state of the timer is the record tm.  PinEvent is only set under    *)
(* TESTING, which the build does not define, and is left out, as is cc,    *)
(* which guards a listing.  The fields stale, missed, inside and sent are  *)
(* history: NextCmpEvent does not know of a change, a match of channel 0   *)
(* went unnoticed, the count is on a period that began at zero, and the    *)
(* events the last step reported to the DMA controller.                    *)
(***************************************************************************)
EXTENDS Integers, FiniteSets

CONSTANTS
  Half,        \* T holds -Half .. Half - 1
  Part,        \* values of half a compare register of timer 1
  Chan1,       \* the channels of timer 1 (0 .. 4)
  Prescales,   \* clock divisions a program selects
  Ctls,        \* contents of the channel control registers
  CmpValues,   \* values written to the registers of timers 3 and 4
  Cycles       \* clocks of an instruction

ASSUME Timer2530Assumption ==
  /\ Half \in Nat \ {0} /\ Part \in Nat \ {0} /\ Part * Part = 2 * Half
  /\ Chan1 \subseteq 0 .. 4 /\ 0 \in Chan1
  /\ Prescales \subseteq Nat \ {0} /\ 1 \in Prescales
  /\ \E p \in Prescales : \A q \in Prescales : q <= p
  /\ Ctls \subseteq [compare : BOOLEAN, out : 0 .. 7, edge : 0 .. 3, im : BOOLEAN]
  /\ CmpValues \subseteq -Half .. Half - 1 /\ Cycles \subseteq Nat

VARIABLE tm

\* assignment to a variable of type T
ToT(x) == ((x + Half) % (2 * Half)) - Half

Chans(k) == IF k = "t1" THEN Chan1 ELSE {0, 1}

\* the contents after clear_sfr
NoCtl == [compare |-> FALSE, out |-> 0, edge |-> 0, im |-> FALSE]

\* After the constructor and init.
timer_init(k) ==
  [kind |-> k, count |-> 0, NextCmpEvent |-> -1, up_down |-> FALSE, mode |-> 0, TR |-> FALSE,
   prescale |-> 1, systemTicks |-> 0, ValRegCMP |-> [i \in Chans(k) |-> 0],
   RegCTL |-> [i \in Chans(k) |-> NoCtl], IOPin |-> [i \in Chans(k) |-> FALSE],
   ExIOPin |-> [i \in Chans(k) |-> FALSE], flags |-> {}, ircon |-> FALSE,
   OvfMask |-> FALSE, channelID |-> 0, high |-> FALSE,
   stale |-> TRUE, missed |-> FALSE, inside |-> FALSE, sent |-> {}]
-----------------------------------------------------------------------------
\* Bits of T1STAT and TIMIF: timer 3 sets the bit of timer 4 on an overflow,
\* and timer 4 that of its channel 0.
decal(k) == CASE k = "t1" -> 0 [] k = "t3" -> 1 [] k = "t4" -> 4

OVFIF(k) == CASE k = "t1" -> 5 [] k = "t3" -> 3 [] k = "t4" -> 4

\* the events told to the DMA controller: the channels, and
EvOverflow == 9

Flag(t, bit) == [t EXCEPT !.flags = @ \cup {bit}]

\* overflow, with the flags it is called after
overflow(t) ==
  LET o == IF t.OvfMask THEN [Flag(t, OVFIF(t.kind)) EXCEPT !.ircon = TRUE] ELSE t
  IN  [o EXCEPT !.sent = @ \cup {EvOverflow}]

Predict(t, d) == [t EXCEPT !.NextCmpEvent = d]

\* the rule of a channel of the sfr space: a negative distance is taken when
\* none is known, and one of -1 counts as none
Sooner(t, d) ==
  IF (d > 0 /\ d < t.NextCmpEvent) \/ (t.NextCmpEvent = -1 /\ d # 0) THEN Predict(t, d) ELSE t

\* the rule of the channels 3 and 4 of timer 1: never the first
SoonerXram(t, d) == IF d > 0 /\ d < t.NextCmpEvent THEN Predict(t, d) ELSE t

Ahead(t, i) == ToT(t.ValRegCMP[i] - t.count)

Behind(t, i) == ToT(t.count - t.ValRegCMP[i])

Visit1(u, i) ==
  IF i \notin Chan1 \/ ~u.RegCTL[i].compare THEN u
  ELSE IF i >= 3 THEN SoonerXram(u, Ahead(u, i))
  ELSE Sooner(u, IF u.mode = 3 /\ u.up_down THEN Behind(u, i) ELSE Ahead(u, i))

\* cl_CC2530_timer1::get_next_cc_event
timer1_get_next_cc_event(t) ==
  Visit1(Visit1(Visit1(Visit1(Visit1([Predict(t, -1) EXCEPT !.stale = FALSE], 0), 1), 2), 3), 4)

Visit34(u, i) ==
  IF ~u.RegCTL[i].compare THEN u
  ELSE Sooner(u, IF u.mode = 1 \/ (u.mode = 3 /\ u.up_down) THEN Behind(u, i) ELSE Ahead(u, i))

\* cl_CC2530_timer3::get_next_cc_event
timer3_get_next_cc_event(t) ==
  Visit34(Visit34([Predict(t, -1) EXCEPT !.stale = FALSE], 0), 1)

\* cl_CC2530_timer4::get_next_cc_event, the same
timer4_get_next_cc_event(t) ==
  Visit34(Visit34([Predict(t, -1) EXCEPT !.stale = FALSE], 0), 1)

get_next_cc_event(t) ==
  CASE t.kind = "t1" -> timer1_get_next_cc_event(t)
    [] t.kind = "t3" -> timer3_get_next_cc_event(t)
    [] t.kind = "t4" -> timer4_get_next_cc_event(t)
-----------------------------------------------------------------------------
\* Capture: an edge of the kind that is waited for
Capture(t, i) ==
  /\ t.IOPin[i] # t.ExIOPin[i]
  /\ t.RegCTL[i].edge \in IF t.IOPin[i] THEN {1, 3} ELSE {2, 3}

\* the pin has been looked at
Seen(t, i) == [t EXCEPT !.ExIOPin[i] = t.IOPin[i]]

\* Set on compare, clear at zero; in up/down mode by the side of the threshold
UpTo(t, i, on) ==
  LET V == t.ValRegCMP[i]
      p == t.IOPin[i]
  IN  IF t.mode = 3
      THEN IF t.count = V THEN (~t.up_down) = on ELSE (t.count > V) = on
      ELSE IF t.count = 0 THEN ~on ELSE IF t.count = V THEN on ELSE p

\* Set at the value of channel 0, clear at the own one; timer 1 leaves the
\* pin of channel 0 alone
Pair(t, i, on) ==
  LET p == t.IOPin[i]
  IN  IF t.kind = "t1" /\ i = 0 THEN p
      ELSE IF t.mode = 2
      THEN IF t.count = 0 THEN on ELSE IF t.count = t.ValRegCMP[i] THEN ~on ELSE p
      ELSE IF t.count = t.ValRegCMP[i] THEN ~on ELSE IF t.count = t.ValRegCMP[0] THEN on ELSE p

\* Compare: the new level of the pin.  The first three modes look at the
\* value of channel 0.
Compare(t, i) ==
  LET p == t.IOPin[i]
      zero == t.count = t.ValRegCMP[0]
  IN  CASE t.RegCTL[i].out = 0 -> p \/ zero
        [] t.RegCTL[i].out = 1 -> p /\ ~zero
        [] t.RegCTL[i].out = 2 -> p # zero
        [] t.RegCTL[i].out = 3 -> UpTo(t, i, TRUE)
        [] t.RegCTL[i].out = 4 -> UpTo(t, i, FALSE)
        [] t.RegCTL[i].out = 5 -> Pair(t, i, FALSE)
        [] t.RegCTL[i].out = 6 -> Pair(t, i, TRUE)
        [] t.RegCTL[i].out = 7 -> FALSE

Matches(t, i) == t.count \in {t.ValRegCMP[0], t.ValRegCMP[i], 0}

\* A channel in compare mode; the DMA controller knows channels 0 to 2.
CompareAt(t, i) ==
  IF ~Matches(t, i) THEN t
  ELSE [t EXCEPT !.IOPin[i] = Compare(t, i),
                 !.sent = IF i < 3 THEN @ \cup {i} ELSE @]

\* The capture of a channel of timer 1 is stored through its registers; the
\* high half of channel 0 requests an interrupt when it is written.
timer1_Store(t, i) ==
  LET u == [t EXCEPT !.ValRegCMP[i] = t.count, !.channelID = i, !.high = FALSE,
                     !.inside = @ /\ i # 0]
  IN  IF i = 0 THEN [Flag(u, 0) EXCEPT !.ircon = TRUE] ELSE u

\* cl_CC2530_timer1::CaptureCompare, the channels 0 to 2: a capture sets its
\* flag without a request
timer1_Visit(t, i) ==
  IF i \notin Chan1 THEN t
  ELSE IF t.RegCTL[i].compare THEN CompareAt(t, i)
  ELSE IF ~Capture(t, i) THEN Seen(t, i)
  ELSE LET u == timer1_Store(Seen(t, i), i) IN IF t.RegCTL[i].im THEN Flag(u, i) ELSE u

\* the channels 3 and 4
timer1_VisitXram(t, i) ==
  IF i \notin Chan1 THEN t
  ELSE IF t.RegCTL[i].compare THEN CompareAt(t, i)
  ELSE IF ~Capture(t, i) THEN Seen(t, i)
  ELSE LET u == timer1_Store(Seen(t, i), i)
       IN  IF t.RegCTL[i].im THEN [Flag(u, i) EXCEPT !.ircon = TRUE] ELSE u

timer1_CaptureCompare(t) ==
  get_next_cc_event(timer1_VisitXram(timer1_VisitXram(
    timer1_Visit(timer1_Visit(timer1_Visit(t, 0), 1), 2), 3), 4))

\* A capture of timers 3 and 4 takes the low byte of timer 1, which is zero
\* here.
Visit34CC(t, i) ==
  IF t.RegCTL[i].compare THEN CompareAt(t, i)
  ELSE IF ~Capture(t, i) THEN Seen(t, i)
  ELSE LET u == [Seen(t, i) EXCEPT !.ValRegCMP[i] = 0, !.inside = @ /\ i # 0]
       IN  IF t.RegCTL[i].im THEN [Flag(u, i + decal(t.kind)) EXCEPT !.ircon = TRUE] ELSE u

\* cl_CC2530_timer3::CaptureCompare
timer3_CaptureCompare(t) == get_next_cc_event(Visit34CC(Visit34CC(t, 0), 1))

\* cl_CC2530_timer4::CaptureCompare
timer4_CaptureCompare(t) == get_next_cc_event(Visit34CC(Visit34CC(t, 0), 1))

CaptureCompare(t) ==
  CASE t.kind = "t1" -> timer1_CaptureCompare(t)
    [] t.kind = "t3" -> timer3_CaptureCompare(t)
    [] t.kind = "t4" -> timer4_CaptureCompare(t)
-----------------------------------------------------------------------------
\* One step of a timer in each mode, on a record whose NextCmpEvent has been
\* decremented.

Due(t) == t.NextCmpEvent = 0

IfDue(t) == IF Due(t) THEN CaptureCompare(t) ELSE t

CountTo(t, c) == [t EXCEPT !.count = ToT(c)]

\* a count of zero is an overflow, unless the timer is turning
Overflowed(t) == IF t.count = 0 THEN overflow(t) ELSE t

do_FreeRunningMode(t) == IfDue(Overflowed(CountTo(t, t.count + 1)))

\* Fault: the overflow does not look for the next compare event.
Fault_do_ModuloMode(t) ==
  LET u == IF t.count = t.ValRegCMP[0] THEN CountTo(t, 0) ELSE CountTo(t, t.count + 1)
  IN  IfDue(IF u.count = 0 THEN overflow(u) ELSE u)

\* back to zero after the value of channel 0, or where T wraps
do_ModuloMode(t) ==
  LET u == IF t.count = t.ValRegCMP[0] THEN CountTo(t, 0) ELSE CountTo(t, t.count + 1)
  IN  IfDue(IF u.count = 0 THEN get_next_cc_event(overflow(u)) ELSE u)

Turn(t) == [t EXCEPT !.up_down = ~@]

do_UpDownMode(t) ==
  IF ~t.up_down
  THEN LET u == CountTo(t, t.count + 1)
           o == IF u.count = 0 THEN overflow(u) ELSE u
       IN  IF u.count = t.ValRegCMP[0] THEN get_next_cc_event(IfDue(Turn(o))) ELSE IfDue(o)
  ELSE LET u == CountTo(t, t.count - 1)
       IN  IF u.count = 0 THEN get_next_cc_event(IfDue(Turn(overflow(u)))) ELSE IfDue(u)

\* from the value of channel 0 down; only timers 3 and 4
do_DownMode(t) ==
  LET w == CountTo(t, t.ValRegCMP[0])
  IN  IfDue(Overflowed(IF t.count # 0 THEN CountTo(t, t.count - 1)
                       ELSE IF Due(t) THEN CaptureCompare(w) ELSE get_next_cc_event(w)))

Counting(t) == IF t.kind = "t1" THEN t.mode # 0 ELSE t.TR

Downwards(t) == t.kind # "t1" /\ t.mode = 1

Up(t) == IF t.kind = "t1" THEN t.mode = 1 ELSE t.mode = 0

\* history: a match of channel 0 that no CaptureCompare saw.  Down mode never
\* sees the reload, and modulo mode with a period of zero sees nothing.
Watched(t) ==
  /\ t.RegCTL[0].compare /\ ~t.stale /\ ~Downwards(t)
  /\ t.mode = 2 => t.ValRegCMP[0] # 0

\* history: on a period of modulo or up/down mode that began at zero
Onset(t) == t.count = 0 /\ t.mode \in {2, 3} /\ t.ValRegCMP[0] > 0 /\ ~t.up_down

Decremented(t) == Predict(t, ToT(t.NextCmpEvent - 1))

Mode(t) ==
  LET s == Decremented(t)
  IN  IF t.mode = 2 THEN do_ModuloMode(s)
      ELSE IF t.mode = 3 THEN do_UpDownMode(s)
      ELSE IF Up(t) THEN do_FreeRunningMode(s)
      ELSE do_DownMode(s)

Step(t) ==
  LET n == Mode(t)
      seen == 0 \in n.sent
  IN  [n EXCEPT !.missed = @ \/ (Watched(t) /\ n.count = t.ValRegCMP[0] /\ ~seen),
                !.inside = @ \/ Onset(n)]

Repeat(t, n) ==
  LET After[k \in 0 .. n] ==
        IF k = 0 THEN t ELSE Step([After[k - 1] EXCEPT !.sent = {}])
  IN  After[n]

\* cl_CC2530_timer1::TimerTick
timer1_TimerTick(t, n) == IF t.mode = 0 THEN t ELSE Repeat(t, n)

\* cl_CC2530_timer3::TimerTick
timer3_TimerTick(t, n) == IF ~t.TR THEN t ELSE Repeat(t, n)

\* cl_CC2530_timer4::TimerTick
timer4_TimerTick(t, n) == IF ~t.TR THEN t ELSE Repeat(t, n)

\* cl_CC2530_timer<T>::tick.  systemTicks counts to the largest prescale:
\* every other divides it.
tick(t, cycles) ==
  LET largest == CHOOSE p \in Prescales : \A q \in Prescales : q <= p
      n == Cardinality({k \in t.systemTicks + 1 .. t.systemTicks + cycles : k % t.prescale = 0})
      u == [t EXCEPT !.systemTicks = (@ + cycles) % largest, !.sent = {}]
  IN  CASE t.kind = "t1" -> timer1_TimerTick(u, n)
        [] t.kind = "t3" -> timer3_TimerTick(u, n)
        [] t.kind = "t4" -> timer4_TimerTick(u, n)
-----------------------------------------------------------------------------
\* A write of the program ends the period that is followed.
Written(t) == [t EXCEPT !.inside = FALSE, !.sent = {}]

\* cl_CC2530_timer<T>::write for TxCTL
write_ctl(t, m) == get_next_cc_event([t EXCEPT !.mode = m])

\* and for CLKCONCMD
write_clkcon(t) == [t EXCEPT !.systemTicks = 0]

\* cl_CC2530_timer1::write stores the byte in the compare value it was told
\* of last, whichever register is written.
timer1_write(t, v) ==
  LET V == t.ValRegCMP[t.channelID] % (2 * Half)
      n == IF t.high THEN (V % Part) + (v * Part) ELSE (V - (V % Part)) + v
  IN  get_next_cc_event([t EXCEPT !.ValRegCMP[t.channelID] = ToT(n)])

timer1_ctl(t, m, p) == timer1_write([write_ctl(t, m) EXCEPT !.prescale = p], m % Part)

timer1_cmp(t, i, hi, v) ==
  LET u == [t EXCEPT !.channelID = i, !.high = hi]
  IN  timer1_write(IF i = 0 /\ hi THEN [Flag(u, 0) EXCEPT !.ircon = TRUE] ELSE u, v)

\* cl_CC2530_timer3::write; the bit that should clear the count is compared
\* with 1 and never does
timer3_ctl(t, m, p, run, ovfim) ==
  [write_ctl(t, m) EXCEPT !.TR = run, !.prescale = p, !.OvfMask = ovfim]

\* cl_CC2530_timer4::write
timer4_ctl(t, m, p, run, ovfim) ==
  [write_ctl(t, m) EXCEPT !.TR = run, !.prescale = p, !.OvfMask = ovfim]

timer34_cmp(t, i, v) == get_next_cc_event([t EXCEPT !.ValRegCMP[i] = v])

\* A reset clears the registers of the sfr space; the mode, the compare
\* values and the pins of the timer stay.
Cleared(t) ==
  [Written(t) EXCEPT !.RegCTL = [i \in DOMAIN @ |-> IF i < 3 THEN NoCtl ELSE @[i]],
                     !.flags = {}, !.ircon = FALSE, !.OvfMask = FALSE, !.stale = TRUE]

\* cl_CC2530_timer1::reset
timer1_reset(t) ==
  [Cleared(t) EXCEPT !.channelID = 0, !.high = FALSE, !.up_down = FALSE, !.systemTicks = 0,
                     !.prescale = 1, !.count = 0]

\* cl_CC2530_timer3::reset: the count stays too
timer3_reset(t) == Cleared(t)

\* cl_CC2530_timer4::reset
timer4_reset(t) == Cleared(t)
-----------------------------------------------------------------------------
\* the record after each operation
Ticked == tm' \in {tick(tm, n) : n \in Cycles}

WriteCtl ==
  \E m \in 0 .. 3, p \in Prescales, r \in BOOLEAN, o \in BOOLEAN :
    /\ tm.kind = "t1" => r /\ o
    /\ tm' = CASE tm.kind = "t1" -> timer1_ctl(Written(tm), m, p)
               [] tm.kind = "t3" -> timer3_ctl(Written(tm), m, p, r, o)
               [] tm.kind = "t4" -> timer4_ctl(Written(tm), m, p, r, o)

WriteCmp ==
  \/ /\ tm.kind = "t1"
     /\ \E i \in Chan1, hi \in BOOLEAN, v \in 0 .. Part - 1 :
          tm' = timer1_cmp(Written(tm), i, hi, v)
  \/ /\ tm.kind # "t1"
     /\ \E i \in {0, 1}, v \in CmpValues : tm' = timer34_cmp(Written(tm), i, v)

\* The control register of a channel is not watched.
WriteChannel ==
  \E i \in Chans(tm.kind), c \in Ctls :
    tm' = [Written(tm) EXCEPT !.RegCTL[i] = c, !.stale = TRUE]

\* TIMIF, T1STAT, IRCON and CLKCONCMD are watched: timer 1 takes the byte, zero
\* here, for a compare value.  Bit 6 of TIMIF lies above the bits kept.
Other(t) == IF t.kind = "t1" THEN timer1_write(Written(t), 0) ELSE Written(t)

WriteOther ==
  \/ tm' = [Other(tm) EXCEPT !.flags = {}]
  \/ tm' = [Other(tm) EXCEPT !.ircon = FALSE]
  \/ tm.kind = "t1" /\ tm' = [Other(tm) EXCEPT !.OvfMask = TRUE]
  \/ tm' = write_clkcon(Other(tm))

ResetTimer ==
  tm' = CASE tm.kind = "t1" -> timer1_reset(tm)
          [] tm.kind = "t3" -> timer3_reset(tm)
          [] tm.kind = "t4" -> timer4_reset(tm)

TimerInit == \E k \in {"t1", "t3", "t4"} : tm = timer_init(k)

TimerNext == Ticked \/ WriteCtl \/ WriteCmp \/ WriteChannel \/ WriteOther \/ ResetTimer
-----------------------------------------------------------------------------
(* Properties *)

\* A match of channel 0 in compare mode is never passed over while the
\* prediction knows the control registers: get_next_cc_event tries channel 0
\* first, takes a negative distance for one through the wrap of T, and is
\* called again wherever the count jumps or turns.
\* In modulo and up/down mode a count that started at zero stays between zero
\* and the value of channel 0 until a register is written.
TimersKeepPace ==
  /\ ~tm.missed
  /\ tm.inside => tm.count \in 0 .. tm.ValRegCMP[0]
=============================================================================

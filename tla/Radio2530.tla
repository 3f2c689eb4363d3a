----------------------------- MODULE Radio2530 ------------------------------
(***************************************************************************)
(* The radio of the CC2530, cl_CC2530_radio and its command strobe         *)
(* processor cl_CC2530_CSP, with the MAC timer that shares CSPT with it.   *)
(*                                                                         *)
(* The processor runs a program of strobes that the CPU stores through     *)
(* RFST; strobes of the CPU that begin with IS run at once, on the same    *)
(* program counter.  CSPT counts MAC timer overflows down and stops the    *)
(* processor when it reaches zero.                                         *)
(*                                                                         *)
(* The processor is no element of the controller, so events that the timer *)
(* sends reach the radio instead, and its own go nowhere.  start_timer     *)
(* divides by an integer that truncates to zero: the time it sets is       *)
(* infinite, and no Timeout follows; before the first one Timer is zero    *)
(* and every tick is a Timeout.  What a frame does once it is received is  *)
(* a choice here; no behaviour gets there.                                 *)
(*                                                                         *)
(* The state is the record rd.  armed and halted are history: CSPT was set *)
(* and counts, and the processor has stopped since.                        *)
(***************************************************************************)
EXTENDS MacTimer

CONSTANTS
  ProgLen,   \* cells of the strobe program (24)
  Codes,     \* instructions the CPU stores: [op, a, c, n]
  MaxPC      \* the program counter is followed up to here

\* the instructions that exec_inst tells apart
Ops == {"skip", "waitw", "repeat", "incmaxy", "snop", "stop", "rxon", "ack", "nack", "stxon",
        "istxon", "txoncca", "flushrx", "flushtx", "rfoff", "isstart", "wevent1", "wevent2",
        "int", "label", "waitx", "randxy", "incx", "incy", "incz", "decx", "decy", "decz", "isclear"}

Instructions == [op : Ops, a : Nat, c : 0 .. 7, n : BOOLEAN]

ASSUME RadioAssumption ==
  /\ ProgLen \in Nat \ {0} /\ MaxPC \in Nat /\ MaxPC >= ProgLen
  /\ Codes \subseteq Instructions

VARIABLE rd

Snop == [op |-> "snop", a |-> 0, c |-> 0, n |-> FALSE]

\* Timer after start_timer
Infinite == 1

\* cl_CC2530_radio::init and reset, and cl_CC2530_CSP::reset
radio_reset ==
  [state |-> "IDLE", TX_ACTIVE |-> FALSE, RX_ACTIVE |-> FALSE, Timer |-> 0, Timeout |-> FALSE,
   rxEnable |-> FALSE, RxWhenTx |-> FALSE, sfd |-> FALSE, cancelACK |-> FALSE]

\* PCwrite, label and the flags of WAITW are not initialized: wr is where the
\* first instruction goes, a negative number a place outside of memory.
csp_reset(wr, wend) ==
  [PC |-> 0, PCwrite |-> wr, label |-> 0, csp_stop |-> FALSE, X |-> 0, Y |-> 0, Z |-> 0,
   WaitX |-> FALSE, WaitW |-> FALSE, waitWend |-> wend, OVFcountdown |-> FALSE,
   STXON |-> FALSE, SRXON |-> FALSE, SFLUSHRX |-> FALSE, SFLUSHTX |-> FALSE,
   pendingBit |-> FALSE, waiting |-> FALSE, radioAnswer |-> FALSE,
   prog |-> [i \in 0 .. ProgLen - 1 |-> Snop]]

Start(wr, wend) ==
  [f |-> radio_reset, c |-> csp_reset(wr, wend), irqm |-> {}, irqf |-> {}, rfif |-> FALSE,
   dead |-> FALSE, armed |-> FALSE, halted |-> FALSE]

Raise(r, bit) == IF bit \in r.irqm THEN [r EXCEPT !.irqf = @ \cup {bit}, !.rfif = TRUE] ELSE r

IRQ_CSP_STOP(r) == [Raise(r, "CSP_STOP") EXCEPT !.c.csp_stop = TRUE, !.halted = TRUE]

IRQ_CSP_WT(r) == Raise(r, "CSP_WAIT")

IRQ_CSP_INT(r) == Raise(r, "CSP_MANINT")
-----------------------------------------------------------------------------
\* Instructions of the strobe processor.

Step1(r) == [r EXCEPT !.c.PC = @ + 1]

\* condition: CCA, SFD, CPU_ctrl and RSSI_valid are never set, u is what they
\* hold
condition(r, c, u) ==
  CASE c = 4 -> r.c.X = 0 [] c = 5 -> r.c.Y = 0 [] c = 6 -> r.c.Z = 0 [] OTHER -> u

Change(v, d) == (v + d) % Bytes

inst_dec_x(r) == Step1([r EXCEPT !.c.X = Change(@, -1)])
\* the program counter stays
inst_dec_y(r) == [r EXCEPT !.c.Y = Change(@, -1)]
inst_dec_z(r) == Step1([r EXCEPT !.c.Z = Change(@, -1)])
inst_inc_x(r) == Step1([r EXCEPT !.c.X = Change(@, 1)])
inst_inc_y(r) == Step1([r EXCEPT !.c.Y = Change(@, 1)])
inst_inc_z(r) == Step1([r EXCEPT !.c.Z = Change(@, 1)])

inst_inc_maxy(r, m) ==
  Step1([r EXCEPT !.c.Y = IF @ + 1 < m THEN @ + 1 ELSE m])

\* v is what rand() leaves of as many bits as Y says
inst_rand_xy(r, v) == Step1([r EXCEPT !.c.X = IF r.c.Y = 0 THEN 0 ELSE v])

inst_int(r) == Step1(IRQ_CSP_INT(r))

inst_waitx(r) ==
  IF r.c.X # 0 THEN [r EXCEPT !.c.WaitX = TRUE]
  ELSE [Step1(IRQ_CSP_WT(r)) EXCEPT !.c.WaitX = FALSE]

\* OVFcountdown is a bool: it holds whether W is not zero
inst_waitw(r, w) ==
  LET s == [r EXCEPT !.c.WaitW = TRUE,
                     !.c.OVFcountdown = IF r.c.waitWend THEN w # 0 ELSE @, !.c.waitWend = FALSE]
  IN  IF s.c.OVFcountdown THEN s
      ELSE [Step1(IRQ_CSP_WT(s)) EXCEPT !.c.WaitW = FALSE, !.c.waitWend = TRUE]

\* events 1 and 2 of the MAC timer, which nothing sends
inst_wait_event1(r) == r
inst_wait_event2(r) == r

\* the program counter stays: a program stops at its label
inst_label(r) == [r EXCEPT !.c.label = r.c.PC + 1]

inst_repeatC(r, code, u) ==
  IF condition(r, code.c, u) # code.n THEN [r EXCEPT !.c.PC = r.c.label] ELSE Step1(r)

inst_skipCS(r, code, u) ==
  IF condition(r, code.c, u) # code.n THEN [r EXCEPT !.c.PC = @ + code.a + 1] ELSE Step1(r)

\* inst_stop and inst_isstop
inst_stop(r) == IRQ_CSP_STOP(r)

\* inst_srxon and inst_isrxon
inst_srxon(r) == Step1([r EXCEPT !.c.SRXON = TRUE])

inst_istxon(r) == Step1([r EXCEPT !.c.STXON = TRUE])

inst_stxoncca(r, u) == Step1([r EXCEPT !.c.STXON = @ \/ u])

\* the strobes that use cells the processor never asked for: STXON, SAMPLECCA,
\* RXMASKBITSET, RXMASKBITCLR and SETCMP1
inst_stxon(r) == [r EXCEPT !.dead = TRUE]

inst_srfoff(r) == Step1([r EXCEPT !.c.STXON = FALSE, !.c.SRXON = FALSE])

inst_sflushrx(r) == Step1([r EXCEPT !.c.SFLUSHRX = TRUE])

inst_sflushtx(r) == Step1([r EXCEPT !.c.SFLUSHTX = TRUE])

\* inst_sack and inst_sackpend wait for the radio, which is not told
inst_sack(r, pend) ==
  LET e == IF ~r.c.SRXON THEN Raise(r, "STROBEERR") ELSE r
      w == IF r.c.waiting THEN e ELSE [e EXCEPT !.c.waiting = TRUE, !.c.pendingBit = pend]
  IN  IF ~r.c.radioAnswer THEN w
      ELSE [Step1(w) EXCEPT !.c.radioAnswer = FALSE, !.c.waiting = FALSE]

inst_snack(r) == Step1(IF ~r.c.SRXON THEN Raise(r, "STROBEERR") ELSE r)

inst_isstart(r) == [r EXCEPT !.c.csp_stop = FALSE, !.c.PC = 0]

\* the cells that are cleared are those of the TXFIFO, not the program
inst_isclear(r) == [r EXCEPT !.c.csp_stop = TRUE, !.halted = TRUE, !.c.PC = 0, !.c.PCwrite = 0]

Executed(r, code, u, v) ==
  CASE code.op = "skip" -> inst_skipCS(r, code, u)
    [] code.op = "waitw" -> inst_waitw(r, code.a)
    [] code.op = "repeat" -> inst_repeatC(r, code, u)
    [] code.op = "incmaxy" -> inst_inc_maxy(r, code.a)
    [] code.op = "snop" -> Step1(r)
    [] code.op = "stop" -> inst_stop(r)
    [] code.op = "rxon" -> inst_srxon(r)
    [] code.op = "ack" -> inst_sack(r, code.n)
    [] code.op = "nack" -> inst_snack(r)
    [] code.op = "stxon" -> inst_stxon(r)
    [] code.op = "istxon" -> inst_istxon(r)
    [] code.op = "txoncca" -> inst_stxoncca(r, u)
    [] code.op = "flushrx" -> inst_sflushrx(r)
    [] code.op = "flushtx" -> inst_sflushtx(r)
    [] code.op = "rfoff" -> inst_srfoff(r)
    [] code.op = "isstart" -> inst_isstart(r)
    [] code.op = "wevent1" -> inst_wait_event1(r)
    [] code.op = "wevent2" -> inst_wait_event2(r)
    [] code.op = "int" -> inst_int(r)
    [] code.op = "label" -> inst_label(r)
    [] code.op = "waitx" -> inst_waitx(r)
    [] code.op = "randxy" -> inst_rand_xy(r, v)
    [] code.op = "incx" -> inst_inc_x(r)
    [] code.op = "incy" -> inst_inc_y(r)
    [] code.op = "incz" -> inst_inc_z(r)
    [] code.op = "decx" -> inst_dec_x(r)
    [] code.op = "decy" -> inst_dec_y(r)
    [] code.op = "decz" -> inst_dec_z(r)
    [] code.op = "isclear" -> inst_isclear(r)

\* exec_inst: only the cell behind the program wraps; a skip may pass it
exec_inst(r, code, u, v) ==
  LET e == Executed(r, code, u, v)
  IN  IF e.c.PC = ProgLen THEN [e EXCEPT !.c.PC = 0] ELSE e

\* the cells behind the program are zero: skip nothing
Fetched(r) ==
  IF r.c.PC < ProgLen THEN r.c.prog[r.c.PC] ELSE [op |-> "skip", a |-> 0, c |-> 0, n |-> FALSE]

\* Fault: a processor that waits for overflows does not look at CSPT.
Fault_CSP_tick(r, cspt, u, v) ==
  LET s == IF cspt = 0 /\ ~r.c.WaitW THEN IRQ_CSP_STOP(r) ELSE r
  IN  IF s.c.csp_stop THEN s ELSE exec_inst(s, Fetched(s), u, v)

\* cl_CC2530_CSP::CSP_tick
CSP_tick(r, cspt, u, v) ==
  LET s == IF cspt = 0 THEN IRQ_CSP_STOP(r) ELSE r
  IN  IF s.c.csp_stop THEN s ELSE exec_inst(s, Fetched(s), u, v)

\* cl_CC2530_CSP::write for RFST: an immediate strobe moves the program
\* counter of the program too, ISCLEAR is stored as well
Immediate(code) == code.op \in {"isstart", "stop", "rxon", "ack", "nack", "istxon", "txoncca",
                                "flushrx", "flushtx", "rfoff"}

Stored(r, code) ==
  IF r.c.PCwrite < 0 THEN [r EXCEPT !.dead = TRUE]
  ELSE [r EXCEPT !.c.prog[r.c.PCwrite] = code, !.c.PCwrite = (@ + 1) % ProgLen]

write_rfst(r, code, now, u) ==
  IF now /\ Immediate(code)
  THEN exec_inst(IF code.op = "isstart" THEN [r EXCEPT !.c.csp_stop = FALSE] ELSE r, code, u, 0)
  ELSE Stored(IF code.op = "isclear" THEN inst_isclear(r) ELSE r, code)
-----------------------------------------------------------------------------
\* The state machine of the radio.

\* cl_CC2530_radio::start_timer: 1 / freq as an unsigned integer is 0
start_timer(r) == [r EXCEPT !.f.Timer = Infinite]

Goto(r, s) == [r EXCEPT !.f.state = s]

GotoTimed(r, s) == start_timer(Goto(r, s))

Idle(r) == Raise(Goto(r, "IDLE"), "RFIDLE")

\* on the time out
OnTimeout(r, s) == IF r.f.Timeout THEN [Goto(r, s) EXCEPT !.f.Timeout = FALSE] ELSE r

Activity(r, tx, rx) == [r EXCEPT !.f.TX_ACTIVE = tx, !.f.RX_ACTIVE = rx]

\* fsm, what the strobes do in any state; SRFOFF is never set
Strobes(r) ==
  LET a == IF r.c.STXON THEN GotoTimed(r, "TX_CALIBRATION") ELSE r
      b == IF a.f.RX_ACTIVE /\ (a.c.SRXON \/ a.c.SFLUSHRX) THEN GotoTimed(a, "RX_CALIBRATION") ELSE a
  IN  IF b.f.TX_ACTIVE /\ b.c.SRXON THEN GotoTimed(b, "TX_SHUTDOWN") ELSE b

\* fsm, the states of reception; k is the state that the received byte leads
\* to.  tick sets radio_in to the delimiter whenever it leaves SFD_WAIT as the
\* state, so the next tick finds one, enabled or not.
Receiving(r, k) ==
  LET s == r.f.state
      t == Activity(r, FALSE, s \notin {"IDLE", "RX_OVERFLOW"})
  IN  CASE s = "IDLE" -> IF r.f.rxEnable THEN GotoTimed(t, "RX_CALIBRATION") ELSE t
        [] s = "RX_CALIBRATION" -> OnTimeout(t, "SFD_WAIT")
        [] s = "SFD_WAIT" ->
             LET i == IF r.f.rxEnable THEN t ELSE Idle(t)
             IN  [Raise(Goto(i, "RX"), "SFD") EXCEPT !.f.sfd = TRUE]
        [] s = "RX" -> IF k \in {"ACK_DELAY", "ACK_CALIBRATION"} THEN GotoTimed(t, k) ELSE Goto(t, k)
        [] s = "RX_RXWAIT" -> OnTimeout(t, "SFD_WAIT")
        [] s = "RXFIFO_RESET" -> Goto(t, "SFD_WAIT")
        [] s = "RX_OVERFLOW" -> IF r.c.SFLUSHRX THEN Goto(t, "RX_CALIBRATION") ELSE t

\* doTX: the start delimiter first; the length of the frame is not initialized
doTX(r, last) ==
  IF ~r.f.sfd THEN [r EXCEPT !.f.sfd = TRUE]
  ELSE IF last THEN [r EXCEPT !.f.sfd = FALSE, !.f.rxEnable = @ \/ r.f.RxWhenTx] ELSE r

\* fsm, the states of transmission; underflow and frame_sent are never set
Transmitting(r, last) ==
  LET s == r.f.state
      t == Activity(r, TRUE, FALSE)
      a == doTX(t, last)
  IN  CASE s = "TX_CALIBRATION" -> OnTimeout(t, "TX")
        [] s = "TX" -> a
        [] s = "TX_FINAL" ->
             IF r.f.rxEnable THEN GotoTimed(t, "TX_RX_TRANSIT") ELSE Goto(t, "TX_SHUTDOWN")
        [] s = "TX_RX_TRANSIT" -> OnTimeout(t, "SFD_WAIT")
        [] s = "ACK_CALIBRATION" -> OnTimeout(t, "ACK")
        [] s = "ACK" ->
             IF r.f.cancelACK THEN Goto(t, "TX_SHUTDOWN")
             ELSE IF a.f.sfd THEN a
             ELSE [Raise(IF a.f.rxEnable THEN a ELSE Goto(a, "TX_SHUTDOWN"), "TXACKDONE")
                     EXCEPT !.c.radioAnswer = TRUE]
        [] s = "ACK_DELAY" -> IF r.f.Timeout THEN GotoTimed(t, "ACK_CALIBRATION") ELSE t
        [] s = "TX_UNDERFLOW" -> OnTimeout(t, "TX_FINAL")
        [] s = "TX_SHUTDOWN" -> Idle(t)

Reception == {"IDLE", "RX_CALIBRATION", "SFD_WAIT", "RX", "RX_RXWAIT", "RXFIFO_RESET", "RX_OVERFLOW"}

fsm(r, k, last) ==
  LET s == Strobes(r) IN IF s.f.state \in Reception THEN Receiving(s, k) ELSE Transmitting(s, last)

\* cl_CC2530_radio::tick
radio_tick(r, cspt, u, v, k, last) ==
  LET t == IF r.f.Timer = 0 THEN [r EXCEPT !.f.Timeout = TRUE] ELSE r
  IN  [CSP_tick(fsm(t, k, last), cspt, u, v) EXCEPT !.f.Timeout = FALSE]
-----------------------------------------------------------------------------
\* With the MAC timer: an instruction of n clocks runs the timer for n clocks,
\* then the radio once.

RadioInit ==
  /\ MacInit
  /\ \E wr \in {0, -1}, wend \in BOOLEAN : rd = Start(wr, wend)

Running == ~rd.dead

\* The tick depends on a value that the code leaves open only in these cases.
Asks(r, ops) == ~r.c.csp_stop /\ Fetched(r).op \in ops

BothTick ==
  \E n \in {1, 2},
     u \in (IF Asks(rd, {"skip", "repeat", "txoncca"}) THEN BOOLEAN ELSE {FALSE}),
     v \in (IF Asks(rd, {"randxy"}) THEN {0, 1} ELSE {0}),
     last \in (IF rd.f.state = "TX" THEN BOOLEAN ELSE {FALSE}) :
    /\ Running /\ rd.c.PC < MaxPC /\ mt.m[Counter] + n <= MaxCount
    /\ mt' = mac_tick(mt, n)
    /\ rd' = radio_tick(rd, mt'.cspt, u, v, "RX_RXWAIT", last)

WriteRfst ==
  \E code \in Codes, now \in BOOLEAN, u \in BOOLEAN :
    /\ Running /\ (now => Immediate(code)) /\ (u => now /\ code.op = "txoncca")
    /\ rd' = write_rfst(rd, code, now, u) /\ UNCHANGED mt

\* The CPU sets CSPT; it is then followed whether the processor stops.
WriteCspt ==
  \E n \in 1 .. Bytes - 2 :
    /\ Running /\ mt' = [mt EXCEPT !.cspt = n]
    /\ rd' = [rd EXCEPT !.armed = TRUE, !.halted = FALSE]

\* A reset of the controller does not reach the strobe processor.
ResetBoth ==
  /\ Running /\ mt' = mac_reset(mt.cspt)
  /\ rd' = [rd EXCEPT !.f = radio_reset, !.irqm = {}, !.irqf = {}, !.rfif = FALSE]

WriteMask == Running /\ rd' = [rd EXCEPT !.irqm = {"CSP_STOP", "CSP_WAIT", "RFIDLE"}] /\ UNCHANGED mt

\* The period of the MAC timer, set through T2MSEL, T2M0 and T2M1, and the
\* count with it.
WritePeriod ==
  \E p \in 1 .. 3 :
    /\ Running /\ ~rd.armed /\ mt' = [mt EXCEPT !.m[Period] = p, !.m[Counter] = 0, !.elapsed = NotKnown]
    /\ UNCHANGED rd

RadioNext == BothTick \/ WriteRfst \/ WriteCspt \/ WriteMask \/ WritePeriod \/ ResetBoth
-----------------------------------------------------------------------------
(* Properties *)

\* CSPT stops the strobe processor: when the overflows it was set to have been
\* counted the processor has stopped, whatever it waits for, or it stops in
\* the same tick.  This needs a period of the MAC timer longer than an
\* instruction: CSPT passes zero unseen when two overflows fall into one.
\* And whatever the strobes ask for, the state machine only calibrates,
\* transmits and shuts down: with rxEnable never set it does not search for a
\* frame, and after the first calibration of a reset a transmission cannot be
\* entered again, as the timer of a second one never runs out.
StrobesStop ==
  /\ (rd.armed /\ mt.m[Period] > 2 /\ mt.cspt = Bytes - 1) => rd.halted
  /\ rd.f.state \in {"IDLE", "TX_CALIBRATION", "TX", "TX_SHUTDOWN"}
  /\ (rd.f.state = "TX_CALIBRATION" => rd.f.Timer = Infinite)
=============================================================================

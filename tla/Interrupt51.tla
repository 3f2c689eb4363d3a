---------------------------- MODULE Interrupt51 ----------------------------
(***************************************************************************)
(* The instruction loop of the MCS51 core (cl_51core::do_inst) and its     *)
(* interrupt system: do_interrupt, it_priority, accept_it, idle_pd, RETI,  *)
(* the irq hardware element (cl_interrupt) with the two external inputs on *)
(* port 3, and reset.                                                      *)
(*                                                                         *)
(* One iteration of the loop in do_inst is cut where the code calls a      *)
(* function, and `phase' says which call comes next:                       *)
(*    "out"  do_inst is not running (main loop, console commands)          *)
(*    "exec" top of the loop: exec_inst, or the idle branch                *)
(*    "post" post_inst, which ticks the hardware elements                  *)
(*    "irq"  do_interrupt                                                  *)
(*    "idle" idle_pd and the loop condition                                *)
(* A register is the set of its bits that are 1; only bits that some code  *)
(* of this component reads are kept.  The instruction executed is a choice *)
(* over the effects an instruction can have on those bits.                 *)
(***************************************************************************)
EXTENDS Integers, Sequences

CONSTANTS
  Sources,    \* the interrupt sources (cl_it_src objects)
  ItSources,  \* uc->it_sources: the sources in polling order
  IeReg,      \* is->ie_reg, the enable register of a source
  IeMask,     \* is->ie_mask, its bit there and its bit in IP
  SrcReg,     \* is->src_reg, the register of its request bit
  ClrBit,     \* the sources whose request bit acceptance clears
  Ext,        \* the external sources, fed by pins of port 3
  Cmos,       \* technology == CPU_CMOS
  MaxPokes    \* bound: console commands that change the machine

ASSUME SourcesAssumption ==
  /\ ItSources \in Seq(Sources)
  /\ IeReg  \in [Sources -> {"IEN0", "IEN1", "IEN2"}]
  /\ ClrBit \subseteq Sources
  /\ Ext \subseteq Sources
  /\ \A s \in Ext : SrcReg[s] = "TCON"
  /\ Cmos \in BOOLEAN
  /\ MaxPokes \in Nat

Masks      == {IeMask[s] : s \in Sources}
EnableBits == {<<IeReg[s], IeMask[s]>> : s \in Sources}
Ien0Bits   == {b \in EnableBits : b[1] = "IEN0"}

VARIABLES
  phase,      \* next call of do_inst
  state,      \* "GO", "IDLE" or "PD"
  result,     \* result of the loop: "GO", "INTERRUPT" or "BREAKPOINT"
  was_reti,   \* interrupt->was_reti
  ea,         \* IEN0.EA
  ien,        \* enable bits of IEN0, IEN1 and IEN2
  ip,         \* bits of IP
  req,        \* active sources whose request bit is 1
  it,         \* external inputs in edge mode (TCON.ITx)
  pinLow,     \* external inputs pulled low by the outside circuit
  latchLow,   \* external inputs whose P3 latch bit is 0
  pcon,       \* the bits "IDL" and "PD" of PCON
  it_levels,  \* priorities in service, bottom element -1
  unexec,     \* history: no instruction was executed since the last RETI,
              \* write of IE, acceptance or wake up
  missed,     \* history: successive checks of the requests, with no RETI in
              \* between, that left an eligible priority 1 request unserved
  pokes       \* console commands so far

cpu  == <<state, result, was_reti>>
sfrs == <<ea, ien, ip, req, it, pcon>>
pins == <<pinLow, latchLow>>
hist == <<unexec, missed, pokes>>
vars == <<phase, cpu, sfrs, pins, it_levels, hist>>

\* No interrupt in service, and the two priorities.
Levels == {-1, 0, 1}

TypeOK ==
  /\ phase  \in {"out", "exec", "post", "irq", "idle"}
  /\ state  \in {"GO", "IDLE", "PD"}
  /\ result \in {"GO", "INTERRUPT", "BREAKPOINT"}
  /\ was_reti \in BOOLEAN
  /\ ea \in BOOLEAN
  /\ ien \subseteq EnableBits
  /\ ip \subseteq Masks
  /\ req \subseteq Sources
  /\ it \subseteq Ext
  /\ pinLow \subseteq Ext
  /\ latchLow \subseteq Ext
  /\ pcon \subseteq {"IDL", "PD"}
  /\ it_levels \in Seq(Levels)
  /\ unexec \in BOOLEAN
  /\ missed \in Nat
  /\ pokes \in 0 .. MaxPokes

(* State after cl_51core::reset.  was_reti is TRUE: clear_sfr writes IE    *)
(* after cl_interrupt::reset has cleared the flag.                         *)
Init ==
  /\ phase = "out" /\ state = "GO" /\ result = "GO" /\ was_reti = TRUE
  /\ ea = FALSE /\ ien = {} /\ ip = {} /\ req = {} /\ it = {}
  /\ pinLow = {} /\ latchLow = {} /\ pcon = {}
  /\ it_levels = <<-1>>
  /\ unexec = TRUE /\ missed = 0 /\ pokes = 0

-----------------------------------------------------------------------------
(* Reading the state.                                                      *)

Top == it_levels[Len(it_levels)]

it_priority(s) == IF IeMask[s] \in ip THEN 1 ELSE 0

\* The tests of do_interrupt on one source.
Requested(s) == s \in req /\ <<IeReg[s], IeMask[s]>> \in ien
\* Seeded fault: <= written as <, equal priorities nest.
Fault_Eligible(s) == Requested(s) /\ (Top >= 0 => it_priority(s) >= Top)

Eligible(s)  == Requested(s) /\ (Top >= 0 => it_priority(s) > Top)

EligibleAt  == {i \in DOMAIN ItSources : Eligible(ItSources[i])}
HighWaiting == \E i \in EligibleAt : it_priority(ItSources[i]) = 1

\* The index the polling loop stops at.
Polled(i) == i \in EligibleAt /\ \A j \in EligibleAt : i <= j

Low(pn, lt) == pn \cup lt     \* bit_INT0/1 are 0: pin or latch is low
-----------------------------------------------------------------------------
\* Seeded fault: the test for power-down mode is missing.
Fault_DoInst ==
  /\ phase = "out" /\ phase' = "exec" /\ result' = "GO"
  /\ UNCHANGED <<state, was_reti, sfrs, pins, it_levels, hist>>

(* do_inst: called by cl_app::run and by commands, with a number of steps. *)
(* In power-down mode the loop is not entered.                             *)
DoInst ==
  /\ phase = "out"
  /\ result' = "GO"
  /\ phase' = IF state = "PD" THEN "out" ELSE "exec"
  /\ UNCHANGED <<state, was_reti, sfrs, pins, it_levels, hist>>

(* The start of an executed instruction: do_inst clears was_reti first, so *)
(* only the instruction itself can set it again.                           *)
Begin ==
  /\ phase = "exec" /\ state = "GO"
  /\ phase' = "post"
  /\ UNCHANGED <<state, result, pokes>>

(* An instruction that does not touch the interrupt system.                *)
ExecPlain ==
  /\ Begin
  /\ was_reti' = FALSE /\ unexec' = FALSE
  /\ UNCHANGED <<sfrs, pins, it_levels, missed>>

(* Register writes: WriteIE is the IE cell, watched by cl_interrupt.       *)
SetIE ==
  /\ \E e \in BOOLEAN, b \in SUBSET Ien0Bits :
       ea' = e /\ ien' = (ien \ Ien0Bits) \cup b
  /\ was_reti' = TRUE /\ unexec' = TRUE
  /\ UNCHANGED <<ip, req, it, pcon, pins>>

\* IEN1, IEN2, IP, PCON: no hardware element reacts.
SetOther ==
  /\ \/ /\ \E b \in SUBSET (EnableBits \ Ien0Bits) :
             ien' = (ien \cap Ien0Bits) \cup b
        /\ UNCHANGED <<ip, pcon>>
     \/ /\ ip' \in SUBSET Masks
        /\ UNCHANGED <<ien, pcon>>
     \/ /\ pcon' \in SUBSET {"IDL", "PD"}
        /\ UNCHANGED <<ien, ip>>
  /\ UNCHANGED <<ea, req, it, pins>>

\* A register with request bits; TCON holds the ITx bits too, and
\* cl_interrupt takes a copy of them.
SetFlags ==
  /\ \E r \in {SrcReg[s] : s \in Sources} :
       LET mine == {s \in Sources : SrcReg[s] = r} IN
       /\ \E b \in SUBSET mine : req' = (req \ mine) \cup b
       /\ it' \in IF r = "TCON" THEN SUBSET Ext ELSE {it}
  /\ UNCHANGED <<ea, ien, ip, pcon, pins>>

\* cl_interrupt::happen, called when latch or pins of port 3 change.
Happen(pn, lt) ==
  LET falling == Low(pn, lt) \ Low(pinLow, latchLow) IN
  /\ pinLow' = pn /\ latchLow' = lt
  /\ req' = req \cup (falling \cap it)
  /\ UNCHANGED <<ea, ien, ip, it, pcon>>

SetP3   == \E lt \in SUBSET Ext : Happen(pinLow, lt)
SetPins == \E pn \in SUBSET Ext : Happen(pn, latchLow)

ExecWriteIE == Begin /\ SetIE /\ UNCHANGED <<it_levels, missed>>

ExecWrite ==
  /\ Begin
  /\ SetOther \/ SetFlags \/ SetP3
  /\ was_reti' = FALSE /\ unexec' = FALSE
  /\ UNCHANGED <<it_levels, missed>>

\* Seeded fault: RETI does not set was_reti.
Fault_ExecReti ==
  /\ Begin
  /\ was_reti' = FALSE /\ unexec' = TRUE /\ missed' = 0
  /\ it_levels' = IF Top >= 0 THEN SubSeq(it_levels, 1, Len(it_levels) - 1)
                              ELSE it_levels
  /\ UNCHANGED <<sfrs, pins>>

(* inst_reti pops one priority, never the bottom one.                      *)
ExecReti ==
  /\ Begin
  /\ was_reti' = TRUE /\ unexec' = TRUE /\ missed' = 0
  /\ it_levels' = IF Top >= 0 THEN SubSeq(it_levels, 1, Len(it_levels) - 1)
                              ELSE it_levels
  /\ UNCHANGED <<sfrs, pins>>

(* exec_inst stopped by a fetch breakpoint: nothing was executed.          *)
ExecBreak ==
  /\ phase = "exec" /\ state = "GO"
  /\ phase' = "post" /\ result' = "BREAKPOINT" /\ was_reti' = FALSE
  /\ UNCHANGED <<state, sfrs, pins, it_levels, hist>>

(* The other branch of do_inst: no instruction in idle mode.               *)
IdleCycle ==
  /\ phase = "exec" /\ state # "GO"
  /\ phase' = "post"
  /\ UNCHANGED <<cpu, sfrs, pins, it_levels, hist>>
-----------------------------------------------------------------------------
(* post_inst: every hardware element is ticked.  Peripherals may raise     *)
(* requests; a low input in level mode raises its own every time.          *)
PostInst ==
  /\ phase = "post"
  /\ \E raised \in SUBSET (Sources \ Ext) :
       req' = req \cup raised \cup (Low(pinLow, latchLow) \ it)
  /\ phase' = IF result = "GO" THEN "irq" ELSE "out"
  /\ UNCHANGED <<cpu, ea, ien, ip, it, pcon, pins, it_levels, hist>>

(* cl_uc::reset and clear_sfr.                                             *)
ResetMachine ==
  /\ state' = "GO" /\ result' = "GO" /\ was_reti' = TRUE
  /\ ea' = FALSE /\ ien' = {} /\ ip' = {} /\ req' = {} /\ it' = {}
  /\ pcon' = {} /\ latchLow' = {} /\ UNCHANGED pinLow
  /\ it_levels' = <<-1>>
  /\ unexec' = TRUE /\ missed' = 0

(* A watchdog resets the CPU from inside the tick of post_inst; the loop   *)
(* goes on with do_interrupt.                                              *)
WatchdogReset ==
  /\ phase = "post" /\ result = "GO"
  /\ ResetMachine
  /\ phase' = "irq"
  /\ UNCHANGED pokes
-----------------------------------------------------------------------------
(* do_interrupt.                                                           *)

\* After RETI or a write of IE the requests are not looked at.
IrqHeldOff ==
  /\ phase = "irq" /\ was_reti
  /\ was_reti' = FALSE /\ phase' = "idle"
  /\ UNCHANGED <<state, result, sfrs, pins, it_levels, hist>>

IrqNone ==
  /\ phase = "irq" /\ ~was_reti
  /\ ~ea \/ EligibleAt = {}
  /\ phase' = "idle" /\ missed' = 0
  /\ UNCHANGED <<cpu, sfrs, pins, it_levels, unexec, pokes>>

\* Seeded fault: the wake up leaves PCON.IDL set.
Fault_IrqWake ==
  /\ phase = "irq" /\ ~was_reti
  /\ ea /\ EligibleAt # {} /\ state = "IDLE"
  /\ state' = "GO" /\ was_reti' = TRUE
  /\ unexec' = TRUE
  /\ missed' = IF HighWaiting THEN missed + 1 ELSE 0
  /\ phase' = "idle"
  /\ UNCHANGED <<result, sfrs, pins, it_levels, pokes>>

\* An eligible request ends idle mode; it is not accepted yet.
IrqWake ==
  /\ phase = "irq" /\ ~was_reti
  /\ ea /\ EligibleAt # {} /\ state = "IDLE"
  /\ state' = "GO" /\ was_reti' = TRUE /\ pcon' = pcon \ {"IDL"}
  /\ unexec' = TRUE
  /\ missed' = IF HighWaiting THEN missed + 1 ELSE 0
  /\ phase' = "idle"
  /\ UNCHANGED <<result, ea, ien, ip, req, it, pins, it_levels, pokes>>

\* accept_it; the loop ends with resINTERRUPT.
accept_it(s) ==
  /\ req' = req \ ({s} \cap ClrBit)
  /\ state' = "GO" /\ pcon' = pcon \ {"IDL"}
  /\ it_levels' = Append(it_levels, it_priority(s))
  /\ unexec' = TRUE
  /\ missed' = IF HighWaiting /\ it_priority(s) = 0 THEN missed + 1 ELSE 0
  /\ result' = "INTERRUPT" /\ phase' = "out"
  /\ UNCHANGED <<was_reti, ea, ien, ip, it, pins, pokes>>

IrqAccept ==
  /\ phase = "irq" /\ ~was_reti /\ ea /\ state # "IDLE"
  /\ \E i \in DOMAIN ItSources : Polled(i) /\ accept_it(ItSources[i])

(* idle_pd, and the end of the iteration: the loop goes on, or ends since  *)
(* its steps are used up, input waits on a console, or the CPU went down.  *)
IdlePd ==
  /\ phase = "idle"
  /\ state' = IF ~Cmos THEN state
              ELSE IF "PD" \in pcon THEN "PD"
              ELSE IF "IDL" \in pcon THEN "IDLE" ELSE state
  /\ phase' \in IF state' = "PD" THEN {"out"} ELSE {"exec", "out"}
  /\ UNCHANGED <<result, was_reti, sfrs, pins, it_levels, hist>>
-----------------------------------------------------------------------------
(* Console commands, only possible while do_inst is not running: `set      *)
(* memory' on an SFR, `set hardware port', `reset'.                        *)

Poke ==
  /\ phase = "out" /\ pokes < MaxPokes
  /\ \/ SetIE
     \/ /\ SetOther \/ SetFlags \/ SetP3 \/ SetPins
        /\ UNCHANGED <<was_reti, unexec>>
  /\ missed' = 0 /\ pokes' = pokes + 1
  /\ UNCHANGED <<phase, state, result, it_levels>>

ResetCommand ==
  /\ phase = "out" /\ pokes < MaxPokes
  /\ ResetMachine
  /\ pokes' = pokes + 1
  /\ UNCHANGED phase

Loop ==
  \/ DoInst
  \/ ExecPlain \/ ExecWriteIE \/ ExecWrite \/ ExecReti \/ ExecBreak \/ IdleCycle
  \/ PostInst \/ WatchdogReset
  \/ IrqHeldOff \/ IrqNone \/ IrqWake \/ IrqAccept
  \/ IdlePd

Next == Loop \/ Poke \/ ResetCommand

Spec == Init /\ [][Next]_vars

(* cl_app::run keeps calling do_inst while the simulation runs, and        *)
(* do_inst is a sequential program.                                        *)
FairSpec == Spec /\ WF_vars(Loop)
-----------------------------------------------------------------------------
Nested(levels) ==
  /\ Len(levels) \in 1 .. 3
  /\ levels[1] = -1
  /\ \A i, j \in 1 .. Len(levels) : i < j => levels[i] < levels[j]

(* Interrupts in service have strictly increasing priorities above the     *)
(* bottom element: a service routine is interrupted only by a request of   *)
(* higher priority, so at most two are active, however RETI, IP writes and *)
(* resets interleave (do_interrupt, inst_reti, cl_uc::reset).              *)
Nesting == Nested(it_levels)

(* Between a RETI, a write of IE, an acceptance or a wake up and the next  *)
(* acceptance at least one instruction is executed, also when a fetch      *)
(* breakpoint or a console command comes in between (was_reti).            *)
AcceptDelayed ==
  [][Len(it_levels') > Len(it_levels) => ~unexec]_vars

(* do_interrupt takes the first source in polling order, whatever its      *)
(* priority.  Still, as long as no RETI is executed, an eligible request of*)
(* priority 1 is passed over at most twice: once to wake the CPU, once for *)
(* a request of priority 0, whose service routine it then interrupts.      *)
HighServed == missed <= 2

(* Power-down mode is left by a reset only: no request is looked at there  *)
(* (do_inst).                                                              *)
PowerDownHolds ==
  [][state = "PD" /\ state' # "PD" => ResetCommand]_vars

(* In idle mode an eligible request wakes the CPU, unless it goes away     *)
(* before (do_inst keeps ticking the hardware and calls do_interrupt).     *)
IdleWakes ==
  (state = "IDLE" /\ ea /\ EligibleAt # {})
    ~> \/ state # "IDLE" /\ phase \in {"exec", "out"}
       \/ ~ea \/ EligibleAt = {}
-----------------------------------------------------------------------------
(* What the safety properties rest on.                                     *)

\* do_inst is never inside its loop in power-down mode, and reaches
\* do_interrupt only with resGO.
LoopInv ==
  /\ state = "PD" => phase = "out"
  /\ phase \in {"exec", "irq", "idle"} => result = "GO"

\* was_reti holds off do_interrupt whenever nothing was executed.
HoldOffInv ==
  phase \in {"post", "irq"} /\ result = "GO" /\ state # "IDLE" /\ unexec
    => was_reti

\* A CPU that passed over a request of priority 1 is awake, and stays so
\* until the requests are looked at again.
MissedInv ==
  /\ missed <= 2
  /\ missed = 2 => Top >= 0
  /\ missed > 0 =>
       /\ state # "IDLE"
       /\ "IDL" \in pcon => /\ phase \in {"post", "irq"}
                            /\ result = "GO" /\ ~was_reti

IInv == TypeOK /\ Nesting /\ LoopInv /\ HoldOffInv /\ MissedInv
=============================================================================

------------------------------- MODULE Clock -------------------------------
(***************************************************************************)
(* Simulated time: the clock counter of cl_uc, the cycles its hardware     *)
(* elements are ticked with, and the clock counters that the `timer'       *)
(* command manages.                                                        *)
(*                                                                         *)
(* An instruction ticks while it executes and the hardware is ticked after *)
(* it by inst_ticks, element by element.  The watchdog of the 51R is one   *)
(* of them and resets the CPU from inside its tick.  `hw', `accepted' and  *)
(* `slip' are history: the cycles that the elements in front of and behind *)
(* the watchdog were ticked with since reset, the interrupts accepted      *)
(* since then, and by how much the reset parted the clock from them.       *)
(***************************************************************************)
EXTENDS Integers, FiniteSets

CONSTANTS
  Slots,      \* the list of counters has the slots 0 .. Slots
  Names,      \* names a user may give a counter
  Unset,      \* what an uninitialized number of a parameter can be
  Cpc,        \* clock_per_cycle
  Width,      \* number of values of a counter (2^64)
  MaxLevels,  \* interrupts that can be in service at a time
  WdtReset,   \* reset_value of the watchdog
  MaxCycles   \* bound: cycles since the last reset

Nameless == "nameless"   \* the name of a counter that is known by its number

ASSUME ClockAssumption ==
  /\ Slots \in Nat \ {0} /\ Cpc \in Nat \ {0} /\ Width \in Nat \ {0}
  /\ Unset \subseteq Int /\ MaxLevels \in Nat /\ WdtReset \in Nat /\ MaxCycles \in Nat
  /\ Nameless \notin Names

Slot == 0 .. Slots

Longest == 4   \* cycles of the longest instruction

\* The elements of hws: in front of the watchdog and behind it.
Side == {"front", "behind"}

Ticker == [name : Names \cup {Nameless}, dir : Int, run : BOOLEAN,
           in_isr : BOOLEAN, ticks : 0 .. Width - 1]

VARIABLES
  counters,    \* slot -> set of at most one Ticker
  ticks,       \* ticks->ticks
  inst_ticks,
  level,       \* interrupts in service: it_levels without its bottom
  polling,     \* do_inst is about to call do_interrupt with was_reti clear
  crashed,     \* the simulator dereferenced a null pointer
  wdt,         \* count of the watchdog, -1 when it is off
  armed,       \* WDTRST holds 0x1e and was written since reset
  hw, accepted, slip

hist == <<hw, accepted, slip>>
vars == <<counters, ticks, inst_ticks, level, polling, crashed, wdt, armed, hist>>

TypeOK ==
  /\ counters \in [Slot -> SUBSET Ticker]
  /\ \A s \in Slot : Cardinality(counters[s]) <= 1
  /\ ticks \in Nat /\ inst_ticks \in Nat /\ level \in 0 .. MaxLevels
  /\ polling \in BOOLEAN /\ crashed \in BOOLEAN
  /\ wdt \in -1 .. WdtReset /\ armed \in BOOLEAN
  /\ hw \in [Side -> Nat] /\ accepted \in Nat /\ slip \in [Side -> -Longest .. 1]

Init ==
  /\ counters = [s \in Slot |-> {}]
  /\ ticks = 0 /\ inst_ticks = 0 /\ level = 0
  /\ polling = FALSE /\ crashed = FALSE
  /\ wdt = -1 /\ armed = FALSE
  /\ hw = [side \in Side |-> 0] /\ accepted = 0 /\ slip = [side \in Side |-> 0]
-----------------------------------------------------------------------------
\* cl_ticker::tick
Ticked(t, n) ==
  IF t.run THEN (t.ticks + t.dir * n * Cpc) % Width ELSE t.ticks

\* The counters that cl_uc::tick ticks when `lv' interrupts are in service.
Counts(t, lv) == t.in_isr \/ lv = 0

(* What cl_uc::tick(n) makes of the counters.                              *)
TickedCounters(n, lv) ==
  [s \in Slot |->
    {IF Counts(t, lv) THEN [t EXCEPT !.ticks = Ticked(t, n)] ELSE t : t \in counters[s]}]

(* cl_uc::tick(n), with `lv' interrupts in service.                        *)
tick(n, lv) ==
  /\ ticks \div Cpc + n <= MaxCycles
  /\ ticks' = ticks + n * Cpc
  /\ counters' = TickedCounters(n, lv)

(* cl_wdt::write: what an instruction writes into WDTRST; 0xe1 behind 0x1e *)
(* starts the watchdog anew.                                               *)
Writes == {"nothing", "1e", "e1", "other"}

Started(w) == IF w = "e1" /\ armed THEN 0 ELSE wdt

\* cl_wdt::tick resets the CPU.
Overdue(count, n) == count >= 0 /\ count + n > WdtReset

WdtTick(count, n) ==
  /\ ~Overdue(count, n)
  /\ wdt' = IF count >= 0 THEN count + n ELSE count

Everywhere(n) == [side \in Side |-> hw[side] + n]

(* An instruction of n cycles: pre_inst clears inst_ticks, exec_inst       *)
(* ticks, post_inst ticks the hardware.                                    *)
Inst(n, w) ==
  /\ ~crashed /\ tick(n, level) /\ WdtTick(Started(w), n)
  /\ armed' = (w = "1e" \/ (w = "nothing" /\ armed))
  /\ inst_ticks' = n /\ hw' = Everywhere(n)
  /\ UNCHANGED <<crashed, accepted, slip>>

Plain ==
  \E n \in 1 .. Longest, w \in Writes : Inst(n, w) /\ polling' = TRUE /\ UNCHANGED level

\* inst_reti ticks before it pops.
Reti ==
  /\ Inst(2, "nothing")
  /\ level' = IF level > 0 THEN level - 1 ELSE 0
  /\ polling' = FALSE

\* Seeded fault: inst_ticks is not set in idle mode.
Fault_IdleCycle ==
  /\ ~crashed /\ tick(1, level) /\ WdtTick(wdt, 1)
  /\ hw' = Everywhere(inst_ticks) /\ inst_ticks' = inst_ticks + 1
  /\ polling' = FALSE
  /\ UNCHANGED <<level, crashed, armed, accepted, slip>>

\* The idle branch of do_inst: inst_ticks= 1, post_inst, tick(1).
IdleCycle ==
  /\ ~crashed /\ tick(1, level) /\ WdtTick(wdt, 1)
  /\ hw' = Everywhere(1) /\ inst_ticks' = 2
  /\ polling' = FALSE
  /\ UNCHANGED <<level, crashed, armed, accepted, slip>>

(* cl_uc::reset, of the clock, the interrupts in service and the watchdog; *)
(* clear_sfr writes IE, so that do_interrupt is held off.                  *)
ResetMachine ==
  /\ level' = 0 /\ polling' = FALSE /\ accepted' = 0
  /\ wdt' = -1 /\ armed' = FALSE

(* The watchdog resets the CPU inside post_inst: the elements behind it    *)
(* are ticked with the cycles of an instruction from before the reset.     *)
WatchdogReset ==
  /\ ~crashed /\ ResetMachine
  /\ \E n \in 1 .. Longest, w \in Writes :
       /\ ticks \div Cpc + n <= MaxCycles /\ Overdue(Started(w), n)
       /\ ticks' = 0 /\ counters' = TickedCounters(n, level) /\ inst_ticks' = n
       /\ hw' = [front |-> 0, behind |-> n] /\ slip' = [front |-> 0, behind |-> -n]
  /\ UNCHANGED crashed

(* It does so in idle mode, where tick(1) comes behind the reset.          *)
WatchdogIdle ==
  /\ ~crashed /\ Overdue(wdt, 1) /\ ResetMachine
  /\ ticks' = Cpc /\ counters' = TickedCounters(1, 0) /\ inst_ticks' = 2
  /\ hw' = [front |-> 0, behind |-> 1] /\ slip' = [front |-> 1, behind |-> 0]
  /\ UNCHANGED crashed

\* accept_it pushes the level, then ticks once; this is after post_inst.
Accept ==
  /\ ~crashed /\ polling /\ polling' = FALSE /\ level < MaxLevels
  /\ level' = level + 1 /\ tick(1, level + 1)
  /\ inst_ticks' = inst_ticks + 1 /\ accepted' = accepted + 1
  /\ UNCHANGED <<crashed, wdt, armed, hw, slip>>

\* The reset command; user counters stay.
Reset ==
  /\ ~crashed /\ ResetMachine
  /\ ticks' = 0
  /\ hw' = [side \in Side |-> 0] /\ slip' = [side \in Side |-> 0]
  /\ UNCHANGED <<counters, inst_ticks, crashed>>
-----------------------------------------------------------------------------
(* The subcommands of `timer'.  The parameters are looked at after the id  *)
(* was shifted out, but through pointers taken before: the direction used  *)
(* is the number of the id parameter, in_isr is the number of the          *)
(* direction parameter, which nobody has set.                              *)
New(name, dir, in_isr) ==
  [name |-> name, dir |-> dir, run |-> TRUE, in_isr |-> in_isr, ticks |-> 0]

\* get_counter(nam)
Named(name) == {s \in Slot : \E t \in counters[s] : t.name = name}

\* Commands are processed when do_inst has returned.
Command ==
  /\ ~crashed /\ polling' = FALSE
  /\ UNCHANGED <<ticks, inst_ticks, level, wdt, armed, hist>>

Put(s, ts) == counters' = [counters EXCEPT ![s] = ts] /\ UNCHANGED crashed

\* `timer add nr', `timer add nr dir' and `timer add nr dir in_isr'.
AddNr(nr) ==
  /\ Command /\ counters[nr] = {}
  /\ \/ Put(nr, {New(Nameless, 1, FALSE)})
     \/ Put(nr, {New(Nameless, nr, FALSE)})
     \/ \E u \in Unset : Put(nr, {New(Nameless, nr, u # 0)})

\* Seeded fault: the search for a free slot begins with slot 0.
Fault_FirstFree == {s \in Slot : counters[s] = {} /\
                                 \A r \in 0 .. s - 1 : counters[r] # {}}

\* add_counter(ticker, nam): the first free slot but slot 0.
FirstFree == {s \in Slot \ {0} : counters[s] = {} /\
                                 \A r \in 1 .. s - 1 : counters[r] # {}}

AddName(name) ==
  /\ Command /\ Named(name) = {}
  /\ \E s \in FirstFree :
       \/ Put(s, {New(name, 1, FALSE)})
       \/ \E d \in Unset, u \in Unset : Put(s, {New(name, d, u # 0)})

\* `timer delete', `timer run', `timer stop'; ids are above 0, or names.
Selected == {s \in Slot \ {0} : counters[s] # {}}

Delete == Command /\ \E s \in Selected : Put(s, {})

RunStop ==
  /\ Command
  /\ \E s \in Selected, r \in BOOLEAN :
       Put(s, {[t EXCEPT !.run = r] : t \in counters[s]})

\* `timer value id n': the test for a missing value is the wrong way round.
Value ==
  /\ Command /\ Selected # {}
  /\ crashed' = TRUE /\ UNCHANGED counters

Halted == crashed /\ UNCHANGED vars

Next ==
  \/ Plain \/ Reti \/ IdleCycle \/ Accept
  \/ WatchdogReset \/ WatchdogIdle \/ Reset
  \/ \E nr \in 1 .. Slots : AddNr(nr)
  \/ \E name \in Names : AddName(name)
  \/ Delete \/ RunStop \/ Value \/ Halted

Spec == Init /\ [][Next]_vars
-----------------------------------------------------------------------------
(* Slot 0 is never used, since del_counter(nr) frees what slot 0 holds     *)
(* whatever nr is, and a name belongs to one counter; all variables have   *)
(* their types, so counters stay within the width of unsigned long.        *)
SlotsSound ==
  /\ TypeOK
  /\ counters[0] = {}
  /\ \A name \in Names : Cardinality(Named(name)) <= 1

(* The hardware is behind the clock by one cycle for every interrupt that  *)
(* was accepted since reset (tick, post_inst, accept_it), and by what a    *)
(* reset of the watchdog inside post_inst leaves: the elements behind it   *)
(* are ahead by the cycles of the instruction, and in idle mode those in   *)
(* front of it are behind by one.  Nothing else parts them.                *)
HwLag ==
  /\ \A side \in Side : ticks = Cpc * (hw[side] + accepted + slip[side])
  /\ slip.front \in {0, 1} /\ slip.behind \in -Longest .. 0
  /\ slip.front = 0 \/ slip.behind = 0
=============================================================================

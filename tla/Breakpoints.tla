----------------------------- MODULE Breakpoints -----------------------------
(***************************************************************************)
(* Fetch and event breakpoints, and what starts and stops a simulation.    *)
(*                                                                         *)
(* A fetch breakpoint is an element of fbrk and a CELL_FETCH_BRK flag on a *)
(* code cell; an event breakpoint is an element of ebrk and an operator on *)
(* a data cell that puts the breakpoint on the `events' list when the cell *)
(* is accessed.  cl_app::run executes one instruction after the other      *)
(* while SIM_GO is set, and a command when there is input on a console.    *)
(*                                                                         *)
(* brk_coll is sorted by number, so it is a set of records here.  The      *)
(* fields `passed' and `stopped' are history: how often the instruction    *)
(* was executed since the last stop, and whether the breakpoint has        *)
(* stopped the program.  The hit number and the permanence of an event     *)
(* breakpoint are stored and shown, but nothing acts on them: left out.    *)
(***************************************************************************)
EXTENDS Integers, FiniteSets

CONSTANTS
  RomSize,    \* code addresses are 0 .. RomSize - 1
  Addrs,      \* addresses a user may type for a fetch breakpoint
  Cells,      \* data cells that exist
  CellAddrs,  \* data addresses a user may type for an event breakpoint
  Hits,       \* hit numbers a user may type
  MaxNr       \* bound: breakpoint numbers

ASSUME BrkAssumption ==
  /\ RomSize \in Nat \ {0}
  /\ 0 .. RomSize - 1 \subseteq Addrs /\ Addrs \subseteq Nat
  /\ Cells \subseteq CellAddrs
  /\ Hits \subseteq Nat /\ 1 \in Hits
  /\ MaxNr \in Nat

Rom   == 0 .. RomSize - 1
Perms == {"fix", "dynamic"}
Kinds == {"read", "write", "access"}  \* brkREAD, brkWRITE, brkACCESS

FetchBrk == [nr : Nat, addr : Addrs, perm : Perms, hit : Hits, cnt : Int,
             passed : Nat, stopped : BOOLEAN]
EventBrk == [nr : Nat, addr : CellAddrs, kind : Kinds]

VARIABLES
  fbrk, ebrk,
  flags,       \* code addresses with CELL_FETCH_BRK
  ops,         \* cell -> numbers of the breakpoints with an operator on it
  events,      \* numbers of the breakpoints on the events list
  brk_counter,
  pc,
  cpu,         \* "go" or "idle": the state of the core
  go,          \* SIM_GO
  loop         \* "main": cl_app::run, "first": the do_inst(1) of `run' and
               \* `next', "removing": the loops of remove_all_breaks

brks == <<fbrk, ebrk, flags, ops, brk_counter>>
vars == <<fbrk, ebrk, flags, ops, events, brk_counter, pc, cpu, go, loop>>

TypeOK ==
  /\ fbrk \subseteq FetchBrk /\ ebrk \subseteq EventBrk
  /\ flags \subseteq Rom
  /\ ops \in [Cells -> SUBSET Nat] /\ events \subseteq Nat
  /\ brk_counter \in Nat
  /\ pc \in Rom /\ cpu \in {"go", "idle"} /\ go \in BOOLEAN
  /\ loop \in {"main", "first", "removing"}

Init ==
  /\ fbrk = {} /\ ebrk = {} /\ flags = {} /\ events = {}
  /\ ops = [c \in Cells |-> {}]
  /\ brk_counter = 0
  /\ pc = 0 /\ cpu = "go" /\ go = FALSE /\ loop = "main"
-----------------------------------------------------------------------------
\* brk_coll::bp_at
bp_at(a) == a \in Rom /\ a \in flags

\* brk_coll::get_bp(addr): none, or the first one in the order of numbers.
get_bp(a) ==
  {b \in fbrk : /\ bp_at(a) /\ b.addr = a
                /\ \A c \in fbrk : c.addr = a => b.nr <= c.nr}

\* Seeded fault: numbers restart when one of the collections is empty.
Fault_make_new_brknr ==
  IF brk_counter = 0 \/ fbrk = {} THEN 1 ELSE brk_counter + 1

make_new_brknr ==
  IF brk_counter = 0 \/ (fbrk = {} /\ ebrk = {}) THEN 1 ELSE brk_counter + 1

NewFetch(a, p, h) ==
  [nr |-> make_new_brknr, addr |-> a, perm |-> p, hit |-> h, cnt |-> h,
   passed |-> 0, stopped |-> FALSE]

\* brk_coll::add_bp and cl_address_space::set_brk for a fetch breakpoint.
add_fetch(a, p, h) ==
  /\ make_new_brknr <= MaxNr
  /\ brk_counter' = make_new_brknr
  /\ fbrk' = fbrk \cup {NewFetch(a, p, h)}
  /\ flags' = flags \cup ({a} \cap Rom)
  /\ UNCHANGED <<ebrk, ops>>

\* Seeded fault: the flag of the cell stays.
Fault_del_bp(a) ==
  /\ fbrk' = fbrk \ get_bp(a)
  /\ UNCHANGED flags

\* brk_coll::del_bp(addr): the flag goes only with a breakpoint that is found.
del_bp(a) ==
  /\ fbrk' = fbrk \ get_bp(a)
  /\ flags' = IF get_bp(a) = {} THEN flags ELSE flags \ {a}

\* Seeded fault: the operator stays on the cell.
Fault_del_ebrk(b) == ebrk' = ebrk \ {b} /\ UNCHANGED ops

\* brk_coll::del_bp(idx) for an event breakpoint.
del_ebrk(b) ==
  /\ ebrk' = ebrk \ {b}
  /\ ops' = [c \in Cells |-> IF c = b.addr /\ b.kind # "access"
                             THEN ops[c] \ {b.nr} ELSE ops[c]]

\* The breakpoints whose operator fires when cell c is read or written.
Fired(c, kind) == {b \in ebrk : b.nr \in ops[c] /\ b.kind = kind}

\* What an access to at most one data cell puts on the events list.
Accesses ==
  {{}} \cup {{b.nr : b \in Fired(c, kind)} : c \in Cells, kind \in Kinds}

-----------------------------------------------------------------------------
\* Seeded fault: the breakpoint stops one hit late.
Fault_Due(b) == b.cnt - 1 < 0

\* cl_brk::do_hit
Due(b) == b.cnt - 1 <= 0

\* The breakpoint that cl_uc::fetch looks at.
Checked == IF go THEN get_bp(pc) ELSE {}

\* Seeded fault: a dynamic breakpoint is not removed.
Fault_HitBreak ==
  /\ cpu = "go"
  /\ \E b \in Checked :
       /\ Due(b)
       /\ fbrk' = (fbrk \ {b})
            \cup {[b EXCEPT !.cnt = b.hit, !.passed = 0, !.stopped = TRUE]}
  /\ events' = {}
  /\ UNCHANGED <<ebrk, ops, brk_counter, pc, cpu, flags>>

\* cl_uc::fetch finds a breakpoint: exec_inst returns resBREAKPOINT.
HitBreak ==
  /\ cpu = "go"
  /\ \E b \in Checked :
       /\ Due(b)
       /\ IF b.perm = "dynamic"
          THEN del_bp(pc)
          ELSE /\ fbrk' = (fbrk \ {b})
                    \cup {[b EXCEPT !.cnt = b.hit, !.passed = 0, !.stopped = TRUE]}
               /\ UNCHANGED flags
  /\ events' = {}
  /\ UNCHANGED <<ebrk, ops, brk_counter, pc, cpu>>

\* pre_inst, exec_inst and post_inst of an instruction that touches at most
\* one data cell; it may end in a jump, in idle mode, or with an error.
\* `stopped' is whether check_errors or check_events called sim->stop.
Execute(stopped) ==
  /\ cpu = "go"
  /\ \A b \in Checked : ~Due(b)
  /\ fbrk' = (fbrk \ Checked) \cup
       {[b EXCEPT !.cnt = b.cnt - 1, !.passed = b.passed + 1] : b \in Checked}
  /\ events' \in Accesses
  /\ \E error \in BOOLEAN : stopped = (error \/ events' # {})
  /\ pc' \in Rom /\ cpu' \in {"go", "idle"}
  /\ UNCHANGED <<ebrk, flags, ops, brk_counter>>

\* A cycle of idle mode: no pre_inst, so the events list is not emptied; the
\* peripherals may access a cell.
Idle(stopped) ==
  /\ cpu = "idle"
  /\ \E new \in Accesses : events' = events \cup new
  /\ stopped = (events' # {})
  /\ \/ UNCHANGED <<pc, cpu>>
     \/ cpu' = "go" /\ pc' \in Rom
  /\ UNCHANGED brks

Cycle(stopped) == Execute(stopped) \/ Idle(stopped)
-----------------------------------------------------------------------------
(* cl_app::run and cl_sim::step: do_inst(1) while SIM_GO is set.           *)
MainHit == loop = "main" /\ HitBreak /\ go' = FALSE /\ UNCHANGED loop

MainCycle ==
  /\ loop = "main" /\ go
  /\ \E stopped \in BOOLEAN : Cycle(stopped) /\ go' = ~stopped
  /\ UNCHANGED loop
-----------------------------------------------------------------------------
(* Commands.                                                               *)
Break(a, p, h) ==
  /\ loop = "main"
  /\ ~bp_at(a) /\ add_fetch(a, p, h)
  /\ UNCHANGED <<events, pc, cpu, go, loop>>

BreakEvent(c, kind) ==
  /\ loop = "main"
  /\ make_new_brknr <= MaxNr
  /\ brk_counter' = make_new_brknr
  /\ ebrk' = ebrk \cup {[nr |-> make_new_brknr, addr |-> c, kind |-> kind]}
  /\ ops' = [d \in Cells |-> IF d = c /\ kind # "access"
                             THEN ops[d] \cup {make_new_brknr} ELSE ops[d]]
  /\ UNCHANGED <<fbrk, flags, events, pc, cpu, go, loop>>

\* `clear addr'; without a parameter the address is the PC.
Clear(a) ==
  /\ loop = "main"
  /\ bp_at(a) /\ del_bp(a)
  /\ UNCHANGED <<ebrk, ops, events, brk_counter, pc, cpu, go, loop>>

\* `delete nr': cl_uc::rm_brk
Delete(nr) ==
  /\ loop = "main"
  /\ \/ /\ \E b \in fbrk : b.nr = nr /\ del_bp(b.addr)
        /\ UNCHANGED <<ebrk, ops>>
     \/ /\ \A b \in fbrk : b.nr # nr
        /\ \E b \in ebrk : b.nr = nr /\ del_ebrk(b)
        /\ UNCHANGED <<fbrk, flags>>
  /\ UNCHANGED <<events, brk_counter, pc, cpu, go, loop>>

\* `delete' calls cl_uc::remove_all_breaks, whose loops are RemoveFirst,
\* which takes fetch breakpoints from the front, then RemoveLast.
DeleteAll ==
  /\ loop = "main" /\ loop' = "removing"
  /\ UNCHANGED <<brks, events, pc, cpu, go>>

RemoveFirst ==
  /\ loop = "removing"
  /\ \E b \in fbrk : (\A c \in fbrk : b.nr <= c.nr) /\ del_bp(b.addr)
  /\ UNCHANGED <<ebrk, ops, events, brk_counter, pc, cpu, go, loop>>

\* Seeded fault: index `count' instead of `count - 1'.
Fault_RemoveLast ==
  /\ loop = "removing" /\ fbrk = {}
  /\ IF ebrk = {} THEN loop' = "main" ELSE UNCHANGED loop
  /\ UNCHANGED <<brks, events, pc, cpu, go>>

RemoveLast ==
  /\ loop = "removing" /\ fbrk = {}
  /\ \/ /\ \E b \in ebrk : (\A c \in ebrk : b.nr >= c.nr) /\ del_ebrk(b)
        /\ UNCHANGED loop
     \/ ebrk = {} /\ loop' = "main" /\ UNCHANGED <<ebrk, ops>>
  /\ UNCHANGED <<fbrk, flags, events, brk_counter, pc, cpu, go>>

\* The end of `run' and `next': one instruction if there is a breakpoint at
\* the PC, then sim->start.
Launch(at) ==
  IF get_bp(at) # {}
  THEN loop' = "first" /\ UNCHANGED go
  ELSE loop' = "main" /\ go' = TRUE

FirstInst ==
  /\ loop = "first"
  /\ HitBreak \/ \E stopped \in BOOLEAN : Cycle(stopped)
  /\ go' = TRUE /\ loop' = "main"

\* `run', `run start', `run start end': a dynamic breakpoint at `end'.
Run ==
  /\ loop = "main"
  /\ Launch(pc)
  /\ UNCHANGED <<brks, events, pc, cpu>>

RunFrom(start) ==
  /\ loop = "main"
  /\ pc' = start /\ Launch(start)
  /\ UNCHANGED <<brks, events, cpu>>

RunTo(start, end) ==
  /\ loop = "main"
  /\ pc' = start
  /\ \/ start = end /\ UNCHANGED <<brks, go, loop>>
     \/ /\ start # end
        /\ IF get_bp(end) = {} THEN add_fetch(end, "dynamic", 1)
                               ELSE UNCHANGED brks
        /\ Launch(start)
  /\ UNCHANGED <<events, cpu>>

\* `next' on a call: a dynamic breakpoint behind it.  On another instruction
\* it is `step'.
NextOver(next) ==
  /\ loop = "main" /\ next # pc
  /\ IF get_bp(next) = {} THEN add_fetch(next, "dynamic", 1)
                          ELSE UNCHANGED brks
  /\ Launch(pc)
  /\ UNCHANGED <<events, pc, cpu>>

\* `step' while the simulation runs is the same as MainHit or MainCycle.
Step ==
  /\ loop = "main" /\ ~go
  /\ \E stopped \in BOOLEAN : Cycle(stopped)
  /\ UNCHANGED <<go, loop>>

\* `stop', or ENTER on the frozen console.
Stop ==
  /\ loop = "main" /\ go' = FALSE
  /\ UNCHANGED <<brks, events, pc, cpu, loop>>

\* `set memory' writes through the operators, `dump' reads through them.
Examine ==
  /\ loop = "main"
  /\ \E new \in Accesses : events' = events \cup new
  /\ UNCHANGED <<brks, pc, cpu, go, loop>>
-----------------------------------------------------------------------------
Next ==
  \/ MainHit \/ MainCycle
  \/ \E a \in Addrs, p \in Perms, h \in Hits : Break(a, p, h)
  \/ \E c \in CellAddrs, kind \in Kinds : BreakEvent(c, kind)
  \/ \E a \in Addrs : Clear(a)
  \/ \E nr \in 1 .. MaxNr : Delete(nr)
  \/ DeleteAll \/ RemoveFirst \/ RemoveLast
  \/ FirstInst \/ Run \/ Step \/ Stop \/ Examine
  \/ \E start \in Rom : RunFrom(start)
  \/ \E start \in Rom, end \in Addrs : RunTo(start, end)
  \/ \E next \in Addrs : NextOver(next)

Spec == Init /\ [][Next]_vars

\* The simulator is one thread: a loop of remove_all_breaks that can go on
\* does.
Fairness == WF_vars(RemoveFirst) /\ WF_vars(RemoveLast)

FairSpec == Spec /\ Fairness
-----------------------------------------------------------------------------
(* A code cell is flagged exactly when there is a fetch breakpoint for it, *)
(* and then there is one: fetch, clear and delete all look at the flag     *)
(* before they look at the collection (set_brk, del_brk, get_bp).          *)
FlagsMatch ==
  \A a \in Rom :
    /\ a \in flags <=> \E b \in fbrk : b.addr = a
    /\ \A b, c \in fbrk : b.addr = a /\ c.addr = a => b = c

(* A number names one breakpoint, fetch or event: `delete nr' removes what *)
(* `info breakpoints' showed (make_new_brknr shares a counter and restarts *)
(* it only when both collections are empty).                               *)
NumbersUnique ==
  /\ \A b, c \in fbrk : b.nr = c.nr => b = c
  /\ \A b, c \in ebrk : b.nr = c.nr => b = c
  /\ \A b \in fbrk, c \in ebrk : b.nr # c.nr
  /\ \A b \in fbrk \cup ebrk : b.nr <= brk_counter

(* The operators on the data cells are those of existing event             *)
(* breakpoints: none is left behind when its breakpoint is deleted, none   *)
(* is missing (set_brk, del_brk, del_operator).                            *)
OperatorsMatch ==
  \A c \in Cells :
    ops[c] = {b.nr : b \in {e \in ebrk : e.addr = c /\ e.kind # "access"}}

(* While the simulation is on, an instruction with a fetch breakpoint of   *)
(* hit number n is executed at most n - 1 times between two stops          *)
(* (cl_uc::fetch, do_hit).                                                 *)
HitsHonoured == \A b \in fbrk : b.passed = 0 \/ b.passed < b.hit

(* A dynamic fetch breakpoint stops the program once (cl_uc::fetch).       *)
DynamicFetchRemoved == \A b \in fbrk : b.perm = "dynamic" => ~b.stopped

(* `delete' without parameters ends with no breakpoint left, provided that *)
(* no fetch breakpoint lies outside the code memory (remove_all_breaks).   *)
DeleteAllEnds ==
  (loop = "removing" /\ \A b \in fbrk : b.addr \in Rom)
    ~> (fbrk = {} /\ ebrk = {})
-----------------------------------------------------------------------------
(* What the documentation says and the code does not do.                   *)

(* doc/cmd_bp.html: `delete' without parameters deletes all breakpoints.   *)
DeleteAllDeletes == (loop = "removing") ~> (fbrk = {} /\ ebrk = {})
-----------------------------------------------------------------------------
(* What the safety properties rest on.                                     *)

\* The count that do_hit goes down by is the hit number less the passes.
CountInv == \A b \in fbrk : b.cnt = b.hit - b.passed

IInv ==
  /\ TypeOK /\ FlagsMatch /\ NumbersUnique /\ OperatorsMatch
  /\ CountInv /\ HitsHonoured /\ DynamicFetchRemoved
=============================================================================

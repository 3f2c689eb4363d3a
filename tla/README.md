# A TLA+ model of uCsim

uCsim simulates microcontrollers: the MCS51 family with the CC2530 system on
chip built on it (`s51.src`), AVR, Z80, HC08 and XA.  One program holds one
simulated controller, a set of command consoles and a main loop that either
executes an instruction or serves a console.  This directory holds TLA+ models
of its core, the TLC configurations that check them, and TLAPS proofs.

## The system

| part | source | state | operations |
|---|---|---|---|
| main loop | `app.cc`, `sim.src/sim.cc` | `going`, `SIM_GO`, reason of the last stop | `cl_app::run`, `cl_sim::step`, `start`, `stop` |
| commander and consoles | `cmd.src/newcmd.cc` | consoles and their flags, `read_set`, `frozen_console` | `input_avail`, `proc_input`, `add_console`, `del_console`, `set_fd_set` |
| commands | `cmd.src/*.cc` | none of their own | `run`, `step`, `next`, `stop`, `break`, `clear`, `delete`, `timer`, `set`, `exec`, `quit`, ... |
| controller | `sim.src/uc.cc` | PC, state, clock, `inst_ticks`, breakpoint collections, `it_levels`, `stack_ops`, errors, events | `fetch`, `pre_inst`, `post_inst`, `tick`, `stack_write`, `stack_read`, `check_events`, `reset` |
| breakpoints | `sim.src/brk.cc`, `sim.src/mem.cc` | `fbrk`, `ebrk`, `CELL_FETCH_BRK` flags, operators on cells, hit counts | add, delete, `do_hit`, `get_bp` |
| memory | `sim.src/mem.cc` | chips, cells, operators, address spaces, decoders | `read`, `write`, `set`, `activate_chip`, ... |
| MCS51 core | `s51.src/uc51.cc`, `jmp.cc`, `mov.cc`, `arith.cc`, ... | registers | `do_inst`, `do_interrupt`, `accept_it`, `idle_pd`, one function per instruction |
| interrupt element | `s51.src/interrupt.cc`, `sim.src/itsrc.cc` | `was_reti`, copies of `ITx` and `INTx` | `write`, `tick`, `happen` |
| MCS51 peripherals | `s51.src/timer*.cc`, `serial.cc`, `pca.cc`, `port.cc`, `wdt.cc` | their registers | `tick`, `write`, `happen` |
| CC2530 peripherals | `s51.src/CC2530*.cc` | DMA channels, timers, USARTs, flash controller, watchdog, radio and its command processor | `tick`, `write`, `happen` |
| other cores | `avr.src`, `z80.src`, `hc08.src`, `xa.src` | registers | instructions |
| collections | `pobj.cc` | plain and sorted lists | add, search, delete |

There is one thread.  What makes it hard is that the same state is reached
from two directions: instructions change it while they execute, and console
commands change it between any two instructions, from several consoles.
Inside one instruction the order of calls matters (fetch and breakpoints,
execution and its ticks, the ticks of the hardware elements, the check of the
interrupt requests, idle and power-down mode), and many facts are kept twice
(a breakpoint and the flag of its cell, a console's flags and the set of
descriptors to wait for, the stack in RAM and the list of tracked operations,
the clock and the time the hardware has seen).

What makes the parts correct:

* interrupts: a service routine is interrupted by a higher priority only; an
  instruction is executed after RETI, a write of IE or an acceptance before the
  next acceptance; a request of high priority is not passed over for long;
  idle mode ends with a request, power-down mode only with a reset;
* stack: the tracker describes what is in RAM and a return it does not
  complain about goes back to its caller;
* breakpoints: flags, operators, numbers and hit counts agree with the
  collections; deleting ends;
* clock: every cycle is accounted for;
* consoles: nobody is deaf, nobody is read who must not be, a parent console
  comes back, ENTER stops a run;
* counters and timers: no pulse, overflow or match is lost when an instruction
  brings several, and a reset or a register write leaves no half of the state
  behind;
* memory: a space is a map from addresses to cells of chips whatever was
  decoded before, the copies of the memory map agree, an operator stays with
  its cell, a list finds what it holds;
* instruction sets: arithmetic by parts agrees with arithmetic as a whole, what
  is pushed comes back, the tables of the disassembler and of `next` agree with
  what the processor fetches;
* CC2530 peripherals: a DMA block arrives whole, flash holds what was written,
  frames are whole, time is kept across several registers.

## The modules

A register or a list is abstracted to what a property can tell apart; the
control (guards, early returns, order of calls) is kept.  `Fault_X` before a
definition `X` is the same definition with a plausible bug seeded; nothing uses
it but the test that the properties notice the bug.

Components that do not interact share a run: the MC modules `MC_Memory`,
`MC_Timer2`, `MC_Soc` and `MC_Cores` extend several component modules, and a
variable `part` tells which of them runs in a behaviour; the others stay in one
initial state.

### Interrupt51 (`MC_Interrupt51`, `Chip_proofs`)

`cl_51core::do_inst` and what it calls.  `phase` is the next call in an
iteration of its loop: `exec` (exec_inst, or the idle branch), `post`
(post_inst), `irq` (do_interrupt), `idle` (idle_pd); `out` is outside, where
console commands run.  An instruction is one of its possible effects on the
interrupt system: none (`ExecPlain`), a write of IE (`ExecWriteIE`), of another
register or of port 3 (`ExecWrite`), RETI (`ExecReti`); `ExecBreak` is an
instruction stopped by a fetch breakpoint.  `PostInst` ticks the hardware: any
peripheral may raise a request, a low external input in level mode does.
`WatchdogReset` is a reset inside that tick.  `IrqHeldOff`, `IrqNone`,
`IrqWake` and `IrqAccept` are the four ways through do_interrupt; `IdlePd` is
idle_pd and the end of the iteration.  `Poke` and `ResetCommand` are console
commands.  After a reset `was_reti` is TRUE, since clear_sfr writes IE after
cl_interrupt::reset has run.

A register is the set of its bits that are one.  `Sources`, their polling
order, enable registers and masks are constants: IP is indexed by the mask
alone, so on the CC2530 two sources of different enable registers share a
priority bit.  `unexec` and `missed` are history variables.

### StackTracker (`MC_Memory`, `Memory_proofs`)

ACALL/LCALL, interrupt acceptance, PUSH, POP, RET and RETI with the bytes in
internal RAM, the `cl_stack_op` objects handed to `stack_write` and
`stack_read`, `sp_max` and `sp_avg`.  Any other instruction is a jump, a store
to RAM, or a load of SP.  Bytes have `Base` values and SP wraps at `SpMod`
(both 256 in the code).

### Breakpoints (`MC_Breakpoints`, `Execution_proofs`)

`fbrk`, `ebrk`, the flags of code cells, the operators of data cells and the
events list; instructions (`HitBreak`, `Execute`, `Idle`), the main loop
(`MainHit`, `MainCycle`) and the commands `break`, `tbreak`, `clear`, `delete`,
`run`, `next`, `step`, `stop`, `set memory`/`dump`.  `run` and `next` on a
breakpoint execute one instruction first (`loop = "first"`); `delete` without
parameters is a loop of its own (`loop = "removing"`), since whether it ends
is a question.

### Clock (`MC_Clock`, `Clock_proofs`)

`cl_uc::tick`, `inst_ticks` and the hardware ticks of post_inst through
instructions, RETI, idle cycles and acceptance, and the `timer` subcommands
with their slots.  The watchdog of the 51R is one of the elements that
post_inst ticks and resets the CPU from inside its tick: the clock is zeroed
while an instruction's cycles are still being handed out, so that the elements
behind the watchdog get cycles from before the reset (`WatchdogReset`), and in
idle mode the clock gets a cycle that those in front of it never see
(`WatchdogIdle`).  `hw`, `accepted` and `slip` are history variables: the
cycles that the elements in `front` of and `behind` the watchdog were ticked
with since reset, the acceptances since, and what such a reset left between
them and the clock.

### Console (`MC_Console`, `Console_proofs`)

`cl_app::run` with `cl_commander::proc_input`, `cl_sim::start` and `stop`,
`exec` and its sub-consoles, `quit`, end of input and new connections.  A
console is the number of its descriptor, since the lowest ready one is served.
Lines are counted, not read: a served line is any command.  Lines on the
descriptor and lines that stdio has read ahead are counted apart.  Users and
the operating system are external.

### PulseCounter, Timer01 (`MC_Timer01`, `Timer01_proofs`), Timer2 and Pca (`MC_Timer2`, `Timer2_proofs`)

`PulseCounter` is the abstract counter: it counts pulses to `top`, continues
from `reload` and reports its overflows, in closed form.  `Timer01` is an object
of `cl_timer0` or `cl_timer1` (`id` tells which): the loops of do_mode0 to
do_mode3, writes of TMOD, TCON, TL and TH, changes of port 3, the acceptance of
its interrupt and reset.  It is an instance of `PulseCounter` in every mode,
with TH,TL or TL as the value; in mode 3 TH is a second one.  `Timer2` is
`cl_timer2` with the features of `cl_uc52`, with its modes, T2EX, and what it
tells the serial interface; `Init` is the state after the first reset, which
writes T2CON (`cl_uc52::clear_sfr`).  Members that the constructors leave
uninitialized have any value in `Init`.  `last` is history: the pulses and
overflows of the last step, which the refinement compares.

`Pca` is `cl_pca`: CH,CL with its four clocks (one pulse per cycle, three, timer
0, ECI), the modules with capture, compare, PWM and the watchdog, the
registers it watches, port 1, and reset.  The modules are looked at only when
CH,CL overflows, as in do_pca_counter.  CH,CL is a `PulseCounter` again.

### Serial51 (`MC_Serial51`, `Serial_proofs`)

`cl_serial`: SBUF, SCON and PCON, the events of the timers, and tick with its
four parts in the order of the code.  Bytes are not told apart; `trTime` and
`recTime` are history, the pulses since a byte began.

### Alu51 (`MC_Cores`, `Execution_proofs`)

The instructions that change ACC, B and the flags of PSW, one action each, for
any operand.  Half a byte has `Nibble` values and a decimal digit `Radix`: the
constants 0x0f, 0x06, 0x60, 0x80 and 255 of the code are written in terms of
them.  `sum` and `stale` are history.

### Dma2530 (`MC_Memory`, `Memory_proofs`)

`cl_CC2530_dma`.  tick serves the channels in turn (`turn`), one state of
StateTrans each; the parts of StateTrans are named after the states.  A
parameter block is a record of its fields, and `block` is what a channel's
configuration address points to; other cells of XRAM are transferred.  Between
ticks the program writes DMAARM, DMAREQ, DMAIRQ, IRCON, cells and blocks, and
elements report events.  `want` and `moved` are history.

### Lists, Memory, Spaces2530 (`MC_Memory`, `Memory_proofs`, `Chip_proofs`)

`Lists` is `pobj.cc`: `cl_list` with its limit and delta, `cl_sorted_list` with
its binary search and duplicates, and the order that `cl_decoder_list` uses.
The array is a sequence; `over` marks a list that has stored behind its array.

`Memory` is an address space of `mem.cc`: cells that point to a place in a chip
or to cells of their own, the sorted list of decoders with
`undecode_area` (`shrink_out_of`, `split`, removal), the console's
`createaddressdecoder`, the operators of event breakpoints and of a hardware
element, and the switch of AUXR in the 89C51R.  activate calls undecode_area,
which activates the second half of a decoder it splits: `calls` is the stack of
the activations under way, each with the place its loop has come to, and
`Connected` takes the turns of the loops until all have returned (`MaxTurns`
bounds them).  `MemoryMapped` compares a cell with the one active decoder over
it, `OperatorsHold` the chain of operators of a cell with the breakpoints that
were set, and `SpaceConsistent` adds that no activation is left under way.

`Spaces2530` has the access functions `read`, `get`, `write` and `set` of
`cl_address_space`, each with its own copy of the map of the unified spaces of
the CC2530 (sram, sfr, the flash banks by FMAP and MCON).  An access happens to
one address of one space, and `AccessesAgree` looks at every place before and
after.

### Timer2530, MacTimer, Radio2530, Flash2530, Usart2530 (`MC_Soc`, `Chip_proofs`, `Serial_proofs`)

`Timer2530` is the template `cl_CC2530_timer<T>` with timers 1, 3 and 4: free
running, modulo, down and up/down mode, the prescaler, capture and compare
channels with their outputs, and the prediction of the next match
(`get_next_cc_event`), which is what can go wrong.  A count is a signed integer
of 2 * `Half` values, as `T` is in the code, and half a compare register of
timer 1 has `Part` values.

`MacTimer` is `cl_CC2530_timer2`: the count, the overflow counter in three
bytes, compare events, and the registers multiplexed by T2MSEL with their
latches.  Bytes have `Bytes` values.

`Radio2530` is the command strobe processor (`cl_CC2530_CSP`: program memory,
PC, WAIT, SKIP, the immediate strobes, CSPT) and the state machine of
`cl_CC2530_radio` it drives, with the MAC timer that counts CSPT down.  An
instruction of the processor is a record of its operation and operands.

`Flash2530` is the flash controller: FADDR, FWDATA in words of four bytes,
erasing of a page and of the chip, the pointer to the bank.  A bank has
`BankPages` pages of `PageBytes` bytes.

`Usart2530` is `cl_CC2530_usart` in UART mode: UxCSR, UxUCR, UxDBUF, sending
with a queue of one byte, receiving, parity.  `broken` is history: a frame that
left the line otherwise than it had to.

### Mcs51, Z80, Avr, Hc08, Xa, Decode (`MC_Cores`)

An instruction set is one record of registers and of the memory cells that were
touched, with one operator per instruction (or family) and an action for all
operands of the small sets in the constants; bytes and words have their real
width, so that constants like 0xff80 mean what they mean in the code.  `Mcs51`
is the other half of `Alu51`: direct, indirect, register and bit addressing,
jumps, calls, MOVC and MOVX with the registers of the CC2530 behind xdata.
`Z80` has all pages (CB, DD, ED, FD, DDCB, FDCB), `Hc08` both, `Avr` and `Xa`
every instruction that does something.  Peculiarities of the code (below) are
in the operators as they are in the source, since the properties are about what
the simulator computes.

Each has properties that relate instructions: subtraction and comparison by
bytes agree with those of words (on the AVR CP, CPI, SUB and SUBI; CPC, SBC and
SBCI misplace the carry and are left out), flags order the operands compared, returns go
back behind the call and leave the stack pointer as it was, frames of
interrupts are restored, block instructions do what their bytewise definition
says, inverse instructions undo each other.

`Decode` is the tables of `glob.cc`, as functions from a code to its length and
its call mark, with `inst_length` and `inst_branch`, the
bytes the processor fetches for a code, `next` (which puts a breakpoint behind
a call) and the loop of `dc`.  `WrongLengths`, `WrongReturns` and
`UnmarkedCalls` name the codes where table and processor differ; everywhere else they must agree.

## The runs

| run | bounds | what it shows |
|---|---|---|
| `interrupt` | three sources (one external, two that share a mask), one console command | `Nesting`, `HighServed`, `AcceptDelayed`, `PowerDownHolds`, and under fairness `IdleWakes` |
| `breakpoints` | 2 code addresses and one beyond, a data cell and an address without one, hit numbers 1 and 2, 3 breakpoint numbers | `FlagsMatch`, `NumbersUnique`, `OperatorsMatch`, `HitsHonoured`, `DynamicFetchRemoved`, and under fairness `DeleteAllEnds` |
| `clock` | 2 slots, one name, watchdog limit of 4 cycles, 6 cycles between resets | `SlotsSound`, `HwLag` |
| `console` | a terminal, a socket, a script of 2 lines, 5 typed lines | `ReadSetFresh`, `ParentsWait`, and under fairness `EnterStops` |
| `timer01` | 4 values in a register, a precounter of one bit, 4 cycles, 2 edges | `CountsPulses`: refinement of `PulseCounter`, twice in mode 3 |
| `timer2` | timer 2: 3 values, 2 pulses per cycle in baud rate mode, 2 cycles, 1 edge; counter array: CH and CL of 2 values, one module (the watchdog's), 4 steps | `T2CountsPulses`, `PcaCounts`: refinements of `PulseCounter`, with what the serial interface knows and what the modules flag |
| `serial` | bytes of 1 or 2 bits, divisors 1, 2 and 3, 2 cycles | `BitsExact`, `BytesOnTime` |
| `memory` | stack: 6 cells, bytes of 2 values, 4 tracked operations; DMA: a channel, three cells of two values, four blocks (words, bytes of variable length, downwards, empty); lists: limit 3, delta 2, two keys, four items; decoders: 5 addresses, chips of 5 and 2 cells, 3 commands; spaces: banks of 5 cells, any MCON and FMAP, one access to any address | `TrackerTrusted`, `FlagWhenDone`, `WritesInWindow`, `ListsFind`, `SpaceConsistent`, `AccessesAgree`, and under fairness `BlockEnds` |
| `soc` | counters of 16 values, prescalers 1 and 2, 2 register writes; MAC timer: bytes of 3 values, 3 writes; strobe programs of 2 instructions, 3 writes; flash: 2 banks of 2 pages of 4 bytes, 7 steps; USART: 4 writes | `TimersKeepPace`, `MacTimeKept`, `StrobesStop`, `FlashHolds`, `FramesExact` |
| `cores` | MCS51 arithmetic: half bytes of 4 values, digits of 3, any number of steps; the other sets: boundary bytes and words, 2 instructions; tables: every code | `AluExact`, `Mcs51Exact`, `Z80Exact`, `AvrExact`, `Hc08Exact`, `XaExact`, `DecodeInStep` |
| `delete_all_outside` | as `breakpoints`, 2 numbers | `DeleteAllDeletes` fails |
| `console_frozen` | as `console`, 4 lines | `UnfrozenWhenStopped` fails |

The types of a module's variables are checked with a property that depends on
them, as its first conjunct, or proved (`Interrupt51`, `Breakpoints`, `Dma2530`,
and as part of the inductive invariants of the other proof modules).

Why the bounds are enough.  For interrupts, breakpoints, clock, consoles,
serial interface, stack, DMA, MAC timer, strobe processor, flash and spaces the
safety properties are proved for all sizes; there the runs guard the model, and
the bounds matter for liveness.  Interrupts: there are two priorities, so three
requests reach every nesting, and the properties are proved for any sources.
Stack: the tracker's rules compare neighbours and the RAM is small enough for
SP to wrap and for the stack to meet itself; a state whose stack was tampered
with is not explored further, because only a reset leaves it and a reset leads
to an initial state.  Breakpoints: a rule relates at most two breakpoints at
an address, and the third number shows restarts of the counter with one left.
Clock: the longest instruction has four cycles, so six allow it, an acceptance
and a nested one, and the watchdog to be started and to overrun by every
length of an instruction and in idle mode.  Console: two interactive consoles and a nested
script meet every pair of flags.

Timers: registers of four values let one instruction of four cycles overflow
and reload more than once, which is what the loops are about; the widths of the
code are multiples of the same structure.  The counter array touches a module
through its own registers and bits only, and four steps are a change of mode,
an edge, an overflow and one more.  Serial: the divisors and bytes are small
enough for a byte to begin and end with every remainder.

Arithmetic: all operands and all flags before an instruction are reached; the
formulas treat a byte as two halves and a sign, which are all there with bytes
of four bits, and digits up to 2 in a half of 4 values overflow in every way
that digits up to 9 do in 16.  The other instruction sets keep their widths, so
operands are chosen at the boundaries of the flags (a half carry, a sign, a
carry from byte to byte, addresses that wrap), and two instructions are what
the properties relate: a call and its return, the low and the high byte.

DMA: a channel sees the others only through XRAM, which the program changes in
the model in every way between two ticks; the safety properties are proved for
any number of channels.  Lists: a list of three grows once and meets its limit
once.  Decoders: an activation meets an older decoder at its left end, its
right end, inside, around it and exactly, which five addresses hold, and three
commands give two old decoders and a new one.  Spaces: a value can be MCON or
FMAP itself.

CC2530: timer ticks and the ticks of the radio are not bounded, only the
register writes between them; sixteen values with steps of three leave a match
between two ticks in every mode, and MAC bytes of three values carry through
all three bytes, since a period restarts the count.  Seven flash steps are an
address, a word and an erase with another address between them.

Several runs may stop: in `console` the simulator may wait for input that never
comes, and in `timer2`, `memory`, `soc` and `cores` a part ends at its bound of
steps or writes.  In the other runs something can always happen, and deadlock
is checked.

Fairness.  `cl_app::run` calls do_inst again and again while the simulation is
on, and do_inst runs to its end: weak fairness of `Loop` in Interrupt51.  The
loops of remove_all_breaks run without interruption: weak fairness of their
two actions.  `cl_app::run` serves a console when select reports one: weak
fairness of `ProcInput` for the served console.  tick_hw calls tick of every
element after every instruction: weak fairness of `Tick` in Dma2530 (`DmaTick`
in `MC_Memory`).  No fairness is assumed of users, of connections or of
commands.

## What is proved

Every theorem holds for all values of the constants that the named assumption
allows, TLC checks the same property on a small instance, and `PROJECT.json`
lists both.

### The interrupt system (`Chip_proofs`)

For all sources, masks, registers and polling
orders (assumption `SourcesAssumption`: the polling order is a sequence of
sources, enable registers are IEN0 to IEN2, external sources have their request
bit in TCON):

| theorem | statement |
|---|---|
| `TypeCorrect` | `Spec => []TypeOK` |
| `NestingHolds` | `Spec => []Nesting` |
| `HighServedHolds` | `Spec => []HighServed` |
| `AcceptDelayedHolds` | `Spec => AcceptDelayed` |
| `PowerDownKept` | `Spec => PowerDownHolds` |

The inductive invariant is `IInv`, the conjunction of

* `TypeOK` and `Nesting`;
* `LoopInv`: the loop of do_inst is never inside in power-down mode, and
  do_interrupt is reached with resGO only.  `PowerDownHolds` needs the first
  part: otherwise a request could end power-down mode in `IrqAccept`;
* `HoldOffInv`: when no instruction was executed since RETI, a write of IE, an
  acceptance or a wake up, `was_reti` is set by the time do_interrupt is
  reached, unless the CPU is idle (then do_interrupt only wakes it up).  This
  is why `AcceptDelayed` holds although fetch breakpoints and commands come in
  between and `was_reti` is cleared in two places;
* `MissedInv`: a request of priority 1 is passed over once to wake the CPU and
  once for a request of priority 0; after the second the level in service is at
  least 0, so only priority 1 is eligible, and the CPU cannot fall asleep in
  between because the wake up clears PCON.IDL.

The proof has one lemma per group of actions that preserve a
conjunct, and combines them in `IInv` being preserved by `Next`.

### Timers 0 and 1, timer 2, the counter array (`Timer01_proofs`, `Timer2_proofs`)

The three counters of the MCS51 family implement `PulseCounter`, for any width
of a register and of the precounter and any number of pulses in a tick
(`TimerAssumption`, `Timer2Assumption`, `PcaAssumption`: registers have two
values at least, the precounter divides a register, and the modules of the array
are a finite set of numbers):

| theorem | statement |
|---|---|
| `TimerCounts` | `Spec => CountsPulses` of `Timer01` |
| `Timer2Counts` | `Spec => T2CountsPulses` |
| `PcaCountsAlways` | `PcaSpec => PcaCounts` |

The inductive invariants are small (`IInv`, `Inv2`, `InvPca`: types, the serial
interface knows whether timer 2 is its clock, and every edge that is pending
was seen since the mode of its module was set).  What takes the work are the
loops, which the models have as recursive functions.  `Induct` is
induction over the naturals for a set of numbers, from the least number of a set
(`Least`, from `WFMin` and `NatLessThanWellFounded` of the library).  With it the
proofs show that each recursive function has a value, then that after n pulses
the total of value and overflows is what it was plus n, and then, since quotient
and remainder are unique, that this is the closed form of `PulseCounter`.  The
mapping of `Timer01` changes with the mode: a step that changes the mode maps to
a load of the abstract counter, and one that counts to a count.  The array
visits its modules in order of their numbers; `PcaState` is what each visit keeps.

### Breakpoints (`Execution_proofs`)

For a code memory of any size, any data cells, any
addresses and hit numbers a user may type, and any number of breakpoints
(assumption `BrkAssumption`: the code memory is not empty, every code address
can be typed, hit numbers are naturals and 1, the default, is one of them):

| theorem | statement |
|---|---|
| `TypeCorrect` | `Spec => []TypeOK` |
| `FlagsMatchHolds` | `Spec => []FlagsMatch` |
| `NumbersUniqueHolds` | `Spec => []NumbersUnique` |
| `OperatorsMatchHolds` | `Spec => []OperatorsMatch` |
| `HitsHonouredHolds` | `Spec => []HitsHonoured` |
| `DynamicFetchRemovedHolds` | `Spec => []DynamicFetchRemoved` |

The inductive invariant is the conjunction of these and of `CountInv`: the
counter of a breakpoint is its hit number less the times it was passed.
`HitsHonoured` is not inductive without it, since do_hit looks at the counter
only.  The properties need each other: that `clear` removes the breakpoint the
flag stands for needs `FlagsMatch`, and that deleting a number leaves the
operators of the other breakpoints alone needs `NumbersUnique`.  The proof has
two halves.  Whatever a step does, its effect on the collections has one of six
shapes (`Keep`, `AddFetch`, `AddEvent`, `DelFetch`, `DelEvent`, `Rewrite`); a
lemma per shape shows that it preserves the invariant, and `StepShape` shows
that every action of `Next` has a shape.

### The arithmetic of the MCS51 (`Execution_proofs`)

For half a byte of one to four bits and any radix its values can hold as a
digit (`AluAssumption`; the code has 16 and 10):

| theorem | statement |
|---|---|
| `AluExactAlways` | `AluSpec => AluExact` |

The invariant `AluInv` adds to the property `SumKnown`: while DA A owes a
decimal sum, ACC and the flags are what an addition of decimal numbers left
(`Unadjusted`).  Decimal digits and carries determine the sum, and
`AdjustExact` shows that the two corrections of DA A give its digits.  `AddExact`,
`SubExact`, `MulExact` and `DivExact` compare results and flags with the sums,
differences, products and quotients of the operands as numbers and as signed
numbers.

### The DMA controller (`Memory_proofs`)

For any number of channels, size of XRAM and blocks
(assumption `DmaAssumption`: the fields have their ranges and a block's
destination lies in XRAM):

| theorem | statement |
|---|---|
| `DmaTypeCorrect` | `DmaSpec => []DmaTypeOK` |
| `DmaFlagWhenDone` | `DmaSpec => FlagWhenDone` |
| `DmaWritesInWindow` | `DmaSpec => WritesInWindow` |

The inductive invariant `DmaInv` says of a loaded channel (`Progress`) that the
count is what is wanted less what was moved, that something is left to move,
and that the address is the start of the destination plus what was moved.  Both
properties follow from it in the one step that moves a unit.

### The stack tracker (`Memory_proofs`)

For any internal RAM of three cells or more, any
width of a byte and any SP after reset (assumption `StackAssumption`):

| theorem | statement |
|---|---|
| `TrackerTrustedHolds` | `Spec => TrackerTrusted` |

The inductive invariant `StackInv` says of a stack that was not tampered with
that the tracked operations follow each other up to SP (`Adjacent`), that each
holds its bytes and lies within the top `live` cells (`Sound`), and that no cell
belongs to two operations (`Apart`).  The last two are what keeps a push from
writing over an older operation when SP wraps.

### The collections (`Memory_proofs`)

For any keys, growth and largest size of a list (`ListAssumption`):

| theorem | statement |
|---|---|
| `ListsFindAlways` | `ListInit /\ [][ListNext]_li => []ListsFind` |

The invariant `ListInv` says that the items are in order, strictly when the list
takes no duplicates, that each has a name of its own, and that they fit the
array.  The binary search is a recursive function of the bounds; it is shown by
induction over their distance (`Induct`) to return the place of the key if
it is there and otherwise the place to insert it, and among equal keys the scan
that follows reaches every item.

### The address space (`Memory_proofs`)

For a space and chips of any size and any event breakpoints
(`MemoryAssumption`: there is a chip, no chip is empty, and the area that AUXR
switches lies in the space and is one that activate accepts for every chip):

| theorem | statement |
|---|---|
| `SpaceConsistentAlways` | `MemoryInit /\ [][MemoryNext]_me => []SpaceConsistent` |

Between commands `SpaceInv` holds: the decoders follow each other without
overlap, an active one maps every cell under it and no other cell is mapped
(`Calm`), and a cell's operators are its hardware and its breakpoints, at the
place of the cell unless that has moved since (`OpsOK`).  While a decoder is
activated this is broken, so the argument is about the turns of the loop
(`LoopInv`, by induction over them).  With one activation under way all
decoders but the new one follow each other, and those the loop has passed are
beside the new one (`OneCall`); once one was split, all of them follow each
other, and the second half waits to be mapped (`TwoCalls`).  Each state says how
many turns are left: a decoder that has to be split leaves no other to be met,
so that a second half never splits anything, and `MaxTurns` turns are enough.

### The clock (`Clock_proofs`)

For any number of slots, names, clocks per cycle, width of a counter and limit
of the watchdog (assumption `ClockAssumption`: the first four are positive, and
the empty name is no name of a user):

| theorem | statement |
|---|---|
| `SlotsSoundHolds` | `Spec => []SlotsSound` |
| `HwLagHolds` | `Spec => []HwLag` |

The inductive invariant `ClockInv` says without cardinalities what `SlotsSound`
says with them: a slot holds one counter (`OnePerSlot`), and counters of one
name are in one slot (`OnePerName`); the counters of a name are counted over
all slots, so that neither implies it alone.  A tick changes every counter in a
way that keeps its slot and name (`Renewed`).  `HwLag` is inductive: every
action adds the same cycles to the clock and to each side of the watchdog, or
one to the clock and to `accepted`, but for the two resets by the watchdog,
which set `slip` to what they leave.

### The consoles (`Console_proofs`)

For any terminals, sockets, scripts and numbers of
lines (assumption `ConsoleAssumption`: a console is of one kind):

| theorem | statement |
|---|---|
| `ReadSetFreshHolds` | `Spec => []ReadSetFresh` |
| `ParentsWaitHolds` | `Spec => []ParentsWait` |

The inductive invariant adds `OneChild`: a console has one script at a time and
only scripts have parents.  Without it the end of one of two scripts would wake
the parent up for the other.  That a console never starts a second script needs
`ReadSetFresh` in turn: one that is out of use is not read.

### The serial interface of the MCS51 (`Serial_proofs`)

For any divisors, byte lengths and instruction times
(assumption `SerialAssumption`: none of them is zero):

| theorem | statement |
|---|---|
| `BitsExactHolds` | `Spec => []BitsExact` |
| `BytesOnTimeHolds` | `Spec => BytesOnTime` |

`BitsExact` is inductive as it stands.  Its core is `CountedExact`, which says
that serial_bit_cnt exchanges pulses for bits at the rate of the divisor and
keeps less than a bit of pulses; `BytesOnTime` follows because tick compares
the bits before it adds the cycles of the instruction.

### The peripherals of the CC2530 (`Chip_proofs`, `Serial_proofs`)

Of each by itself, and of the radio together with the MAC timer beside it:

| theorem | statement |
|---|---|
| `FlashHoldsAlways` | `FlashInit /\ [][FlashNext]_fl => []FlashHolds` |
| `MacTimeKeptAlways` | `MacInit /\ [][MacNext]_mt => []MacTimeKept` |
| `StrobesStopAlways` | `RadioInit /\ [][RadioNext]_<<mt, rd>> => []StrobesStop` |
| `AccessesAgreeAlways` | `SpacesInit /\ [][SpacesNext]_sp2530 => []AccessesAgree` |
| `TimersKeepPaceAlways` | `TimerInit /\ [][TimerNext]_tm => []TimersKeepPace` |
| `FramesExactAlways` | `UsartInit /\ [][UsartTick \/ UsartWrite]_us => []FramesExact` |

* Flash, for any number and size of banks and pages (`FlashAssumption`: pages
  are whole words).  `FlashInv` adds to the property that the bytes of the word
  are the first ones of reg (`WordKept`), that the bank pointer is the bank of
  the address once one was set (`BankKept`), and that the start of a page is
  that of the chip or, after an erase, that within the bank (`StartsKept`).
  The last shows that a page which would be erased elsewhere ends the simulator.
* MAC timer, for any range of a byte above one (`MacAssumption`).  `MacInv`
  states the time of the registers themselves (`Timely`), whatever the windows
  select, and that the count is below the period: do_UpMode compares for
  equality, so that a count beyond the period would never end it.  `NumCarries`
  is the carry through three bytes.
* Radio, for any strobe program (`RadioAssumption`: its instructions are those
  of exec_inst).  `RadioInv` adds to `MacInv` that a processor which waits for
  CSPT has halted or CSPT is between one and its start (`Kept`: no instruction
  changes that or the state machine), and that the state machine is `Calm`:
  nothing enables the receiver, so it never searches, and a calibration that is
  entered has the timer that does not run out.
* Spaces, for any sizes of the areas in the order of the chip
  (`SpacesAssumption`) and any MCON and FMAP.  The property is about the last
  access; `SpacesInv` adds that places hold naturals, so that MCON and FMAP
  select something.  `Reread` is the argument: only MCON moves a place, and a
  write that may change MCON is not behind the first bank.
* Timers, for any width of a count, any prescalers, compare values and channel
  control (`Timer2530Assumption`: a compare register of timer 1 has two halves,
  channel 0 is one of its channels, there is a largest prescaler).  `TimerInv`
  adds to the property that, while the prediction knows the control registers, the
  predicted event is never later than the match of channel 0 in the direction of
  the count (`InTime`), and that a count which started at zero is on its period
  (`OnPeriod`).  A tick counts in a loop; `InTime` is shown for each turn of it
  and for each place that predicts anew.
* USART, for any set of bytes and any number of received bits
  (`UsartAssumption`: bytes have eight bits, as in the code).  `UsartInv` adds
  what has to be on the line so far and what is left in the shift register
  (`Sending`), and that a queued byte is still in UxDBUF unless a reception
  spoiled it.  `ShiftBits` turns a shift by one into a move of the bits, so that
  the frame is compared bit by bit and no power of two is left.

### Only model-checked

* liveness (`IdleWakes`, `DeleteAllEnds`, `EnterStops`, `BlockEnds`), which
  needs fairness and ENABLED;
* `Mcs51Exact`, `Z80Exact`, `AvrExact`, `Hc08Exact` and `XaExact`, whose modules
  have the masks of the code as operators of `Bitwise`;
* `DecodeInStep`, which is about tables without parameters: TLC looks at every
  code, and there is no larger instance to prove it for.

## Where the code and its documentation disagree

With a run:

* `delete_all_outside`: `break` accepts an address outside the code memory
  (`bp_at` is false for it), and `delete` then never ends, because del_bp looks
  at the flag of a cell that does not exist.
* `console_frozen`: after `run` on two consoles the first one stays frozen when
  the simulation stops.

Seen while modelling, and part of the models:

* `run` on a second console while the simulation is on lets the first
  instruction hit the breakpoint at the start address (`Breakpoints`);
* a counter with `in_isr` is ticked always, one without it only outside
  handlers (`Clock`);
* `frozen_console` keeps pointing to a console that was deleted at the end of
  its input (`Console`);
* a reset clears TMOD with `set`, which no element sees, and the build defines
  CC2530 (`s51.src/regs51.h`), so that the write of TMOD that would tell the
  timers is left out: they go on in the mode they had (`Timer01`);
* timer 2 in reload and capture mode counts one per instruction, whatever the
  cycles; counting down to zero it never sets TF2; a second write of T2MOD
  activates the interrupt source of EXF2 again; a reset writes T2CON, so that
  timer 2 stops, and clears T2MOD as a cell only, so that its cached bits stay
  (`Timer2`);
* edges that come while the gate of a counter is closed are counted when it
  opens, and any write of TCON drops the edges both timers have seen since the
  last tick (`Timer01`);
* the divisor 16 that timer 2 sets stays when timer 2 is no longer the clock,
  and applies to mode 0 as well; every mode change of timer 2 clears the
  overflows counted of timer 1; timer 1 goes on clocking the interface when
  timer 2 does (`Serial51`);
* in idle mode the events list is not emptied, and check_events uses a
  breakpoint that the user may have deleted (`Breakpoints`);
* loading a parameter block (LoadConfig calls channel_init) disarms the channel
  and drops a trigger; abort and other writes of DMAARM do not stop a loaded
  channel; arming a channel during its last states is lost; a one written to
  DMAIRQ enables the interrupt of its channel; LEN 0 moves one unit; in single
  mode a trigger that comes during a unit is never cleared, so that the rest of
  the block is moved at once; an event that happen does not know triggers
  whatever channel matches an uninitialized number (`Dma2530`);
* SUBB, DIV and DA A read PSW, write ACC and then write PSW back, with the parity
  of the old ACC; writing PSW does not correct the parity bit either (`Alu51`,
  where `stale` marks these states);
* event breakpoints ignore their hit number and are not removed when dynamic;
  `break` with kind access puts no operator on the cell (`Breakpoints`);
* `timer add` takes its direction from the id parameter, `timer value`
  dereferences a null pointer, `del_counter(nr)` looks at slot 0, which is
  harmless as long as slot 0 is never used (`SlotsSound`), and the cycle of an
  interrupt acceptance never reaches the hardware; a reset by the watchdog
  parts clock and elements, by the instruction's cycles behind the watchdog or,
  in idle mode, by one in front of it (`HwLag`) (`Clock`);
* a user stop drops a pending line of the frozen console, also of a script; a
  second line of a network packet waits in the stdio buffer until a third one
  arrives (`Console`).

* CC2530 timers (`Timer2530`): a write of any watched register overwrites half
  of the last compare value of timer 1; a match of another channel is missed
  when the distance of channel 0 is negative, and channels 3 and 4 are never
  first; down mode never sees the match at the reload, modulo mode with a
  compare value of zero sees nothing; channel control registers are not watched
  and leave the prediction stale; a reset keeps mode, prescaler and compare
  values, so that timer 1 runs on; the clear bit of timers 3 and 4 is compared
  with 1, their overflow flags are bits of other timers, and they capture the
  count of timer 1; captures of channels 0 to 2 set no bit of IRCON;
* MAC timer (`MacTimer`): the run bit is ignored; only the period event can
  request an interrupt (masks are compared with 1); a period of 0x8000 or more
  never matches; a write of T2M0 clears the high byte; event flags are cleared
  by a tick without event only;
* radio (`Radio2530`): the receiver is never enabled, so that reception, frame
  filtering and acknowledgements never run; the timer of a second transmission
  never runs out; DECY and LABEL do not advance PC and immediate strobes do;
  SKIP may pass the end of the program; ISCLEAR clears the transmit FIFO; CSPT
  is missed when two overflows fall into one instruction; a reset does not reach
  the strobe processor, nor do the events of the MAC timer, since it is no
  element of the controller;
* flash (`Flash2530`): the start of a page is subtracted at every erase, so that
  the second erase of a page of an upper bank ends the simulator; after a chip
  erase the pointer is at bank 3; erased pages have 1024 bytes, those of
  addresses 2048; a word begun at one address is stored at the next;
* USART (`Usart2530`): the bit order is tested with `&&`, FLUSH is compared with
  1; ACTIVE is lost by the store that sets it and cleared by the end of a
  reception during a transmission; a reception overwrites a queued byte, which
  is sent with the parity of the one before; a reset makes every USART the
  first and leaves no baud rate;
* memory (`Memory`, `Lists`, `Spaces2530`): the console refuses a decoder that
  ends at the highest address, and so do sram and flashbank0 in make_memories;
  an area may exceed its chip by one cell; operators keep the data pointer of
  their creation; `set_cell_flag` uses the address as the index; writes of rom
  go to cells nobody reads; the switch of `set` has no breaks; read of rom with
  an FMAP of 4 or more ends the simulator while get returns a cell; add_at at
  `max_list_size` stores behind the array;
* counter array (`Pca`): modules are looked at when CH,CL overflows only, so
  that captures store 0 and compares match 0; a capture of a falling edge clears
  the rising one; PWM sets the pin in both branches; the watchdog resets the
  array and not the controller; CCAPL and CCAPH are not watched; a reset keeps
  CMOD, CR and CCAPM and leaves rising edges of port 1 pending;
* MCS51 (`Mcs51`): MOVX to 0x7080 to 0x70ff passes the number of the xdata cell
  to sfr, which has none, and the simulator ends;
* Z80 (`Z80`): RST pushes PC+2 and RST 8 prints; IN and OUT do not fetch their
  operand; EXX copies the alternate bank without saving; SUB A leaves the
  flags; JP PO and PE are swapped; NEG gives 0; RES b,A masks with the number
  of the bit, SET does nothing; DEC IY decrements IX; LD with HX and LX uses H
  and L; CPD increments HL; CPIR and CPDR stop at the match; P is the carry;
  relative jumps do not wrap;
* HC08 (`Hc08`): BHI adds the carry, BLT and BGT are swapped, BRSET and BRCLR
  are inverted against the table, DAA does not store A, SWI clears I, 0x96 falls
  into LDA;
* AVR (`Avr`): `16+(code&0xf0)>>4` and `D-R-(C)?1:0` do not mean what they say;
  ORI and ANDI read register d for d+16; SER is never dispatched; SBIC and SBIS
  use the code as the address; K of SBIW is signed;
* XA (`Xa`): word operations test byte limits, ADDC and SUBB of words ignore the
  carry, the high byte of PSW is cleared, branches never go backwards, CJNE
  jumps when equal, POP of a list does not write SP;
* tables (`Decode`): `WrongLengths` (Z80 ADD HL,DE, OUT, IN and the word loads of
  page ED; HC08 5e, 6b and 9e6b, and 2e and 2f, which halt before their offset; XA LEA
  of words, CJNE with data and direct moves, which fetch no operand, and CJNE of
  words, whose macro fetches the address twice), `WrongReturns` (RST of the Z80
  pushes an address two bytes behind the next instruction) and `UnmarkedCalls`
  (RST, HC08 JSR, BSR and SWI, AVR RCALL and ICALL), at which `next` steps into
  the callee; RST 8 is an escape to the simulator and no call.

Seen, and of no property here: idle cycles run post_inst with the events of an
earlier instruction (`uc51.cc:985`); a user stop drops a pending line of
whichever console is frozen (`sim.cc:157`); the divisor 16 stays
(`serial.cc:296`); the tick counters of the serial interface are ints that grow
while no byte is transferred (`serial.cc:366`).

## What is not modelled

* Command line parsing and the generated expression parser: text.  What the
  commands do with their parameters is in the models.
* Options, printing (disassembled text, dumps, statistics), the graphical front
  ends, libltdl.
* Reception of the radio (doRX, Decode_frame, filter_frame, Dest_match_address,
  set_ack): no state reaches it.  `CC2530WDT.cc`, `CC2530sleepTimer.cc` and
  `obsolete.cc` are not part of the program.  `analyze` of `uc51.cc` is never
  called.
* XA instructions without a body.  `z80.src` and `xa.src` are modelled although
  the committed configuration does not build them.

The status of every part is in `PROJECT.json`.

## Plan

1. Done: the MCS51 with its interrupt system, stack, timers, counter array,
   serial interface and instructions; breakpoints, clock and consoles; memory
   and collections; the peripherals of the CC2530; the instruction sets of Z80,
   AVR, HC08 and XA, and the instruction tables.
2. Done, proofs: every safety property of the modules above except
   `DecodeInStep` and the instruction sets that use masks.
3. The composition of DMA, USART and timers over the events they report to each
   other, and of `Serial51` with `Timer01` and `Timer2`, which it now meets as
   arbitrary events.

------------------------------ MODULE Dma2530 -------------------------------
(***************************************************************************)
(* The DMA controller of the CC2530: cl_CC2530_dma.                        *)
(*                                                                         *)
(* A tick runs the state machine of every channel once, in the order of    *)
(* their numbers; `turn' is the channel whose turn it is and Channels      *)
(* means that no tick is in progress.  Between ticks the program writes    *)
(* registers and parameter blocks and other elements report events.        *)
(*                                                                         *)
(* A parameter block is a record of its fields; blocks lie apart from the  *)
(* cells that are transferred.  `want' and `moved' are history: the units  *)
(* to transfer when the block was loaded and the units transferred since.  *)
(***************************************************************************)
EXTENDS Integers, FiniteSets

CONSTANTS
  Channels,    \* number of channels (5)
  XramSize,    \* cells that are transferred
  MaxByte,     \* largest value of a cell (255)
  Blocks,      \* parameter blocks a program may set up
  Triggers     \* trigger numbers of the events

Channel == 0 .. Channels - 1
Cell == 0 .. XramSize - 1
Byte == 0 .. MaxByte

\* TriggerEvent after channel_init: no event has this number
NoTrigger == 32

\* bit 7 of DMAARM
Abort == 7

BlockType ==
  [src : Cell, dst : Cell, vlen : 0 .. 7, len : Nat, word : BOOLEAN,
   single : BOOLEAN, repeated : BOOLEAN, trig : Triggers,
   sinc : {0, 1, 2, -1}, dinc : {0, 1, 2, -1}, irq : BOOLEAN]

Larger(a, b) == IF a > b THEN a ELSE b

\* The cells that n units of a block are written to.  A write outside XRAM
\* ends the simulator (an assertion of cl_address_space::write).
Window(b, n) ==
  {b.dst + k * b.dinc + o :
     k \in 0 .. Larger(1, n) - 1,
     o \in IF ~b.word THEN {0} ELSE IF b.dinc < 0 THEN {0, -1} ELSE {0, 1}}

ASSUME DmaAssumption ==
  /\ Channels \in Nat \ {0} /\ XramSize \in Nat \ {0} /\ MaxByte \in Nat
  /\ Triggers \subseteq Nat /\ NoTrigger \notin Triggers
  /\ Blocks # {} /\ Blocks \subseteq BlockType
  /\ \A b \in Blocks : Window(b, b.len) \subseteq Cell

\* The fields after channel_init.
Blank ==
  [src |-> 0, dst |-> 0, vlen |-> 0, len |-> 0, word |-> FALSE,
   single |-> FALSE, repeated |-> FALSE, trig |-> NoTrigger,
   sinc |-> 0, dinc |-> 0, irq |-> FALSE]

States == {"idle", "load", "armed", "transfer", "disarm"}

VARIABLES
  turn,
  st, armed, triggered, ITmask, TransferCount, s, d,
  cfg,          \* the block a channel has loaded
  block,        \* the block of a channel in XRAM
  xram, DMAIRQ, DMAIF,
  want, moved

channel == <<st, armed, triggered, ITmask, TransferCount, s, d, cfg>>
registers == <<DMAIRQ, DMAIF>>
history == <<want, moved>>
dmaVars == <<turn, channel, block, xram, registers, history>>

DmaTypeOK ==
  /\ turn \in 0 .. Channels
  /\ st \in [Channel -> States]
  /\ armed \in [Channel -> BOOLEAN] /\ triggered \in [Channel -> BOOLEAN]
  /\ ITmask \in [Channel -> BOOLEAN]
  /\ TransferCount \in [Channel -> Int]
  /\ s \in [Channel -> Int] /\ d \in [Channel -> Int]
  /\ cfg \in [Channel -> Blocks \cup {Blank}]
  /\ block \in [Channel -> Blocks] /\ xram \in [Cell -> Byte]
  /\ DMAIRQ \subseteq Channel /\ DMAIF \in BOOLEAN
  /\ want \in [Channel -> Nat] /\ moved \in [Channel -> Nat]

All(v) == [i \in Channel |-> v]

\* after reset; the blocks and the cells are what the program left in XRAM
DmaInit ==
  /\ turn = Channels
  /\ st = All("idle") /\ armed = All(FALSE) /\ triggered = All(FALSE)
  /\ ITmask = All(FALSE) /\ TransferCount = All(0) /\ s = All(0) /\ d = All(0)
  /\ cfg = All(Blank) /\ block = All(CHOOSE b \in Blocks : TRUE)
  /\ xram = [a \in Cell |-> a % (MaxByte + 1)]
  /\ DMAIRQ = {} /\ DMAIF = FALSE
  /\ want = All(0) /\ moved = All(0)
-----------------------------------------------------------------------------
\* Between ticks.

Between == turn = Channels /\ UNCHANGED turn

\* The channels T are triggered.
Trigger(T) ==
  /\ triggered' = [i \in Channel |-> triggered[i] \/ i \in T]
  /\ UNCHANGED <<st, armed, ITmask, TransferCount, s, d, cfg, block, xram,
                 registers, history>>

\* cl_CC2530_dma::write for DMAARM; bit 7 aborts.  Only programs read the
\* register.
WriteArm(val) ==
  /\ Between
  /\ armed' = [i \in Channel |-> i \in val /\ Abort \notin val]
  /\ UNCHANGED <<st, triggered, ITmask, TransferCount, s, d, cfg, block, xram,
                 registers, history>>

\* for DMAREQ
WriteReq(val) == Between /\ Trigger(val)

\* for DMAIRQ: a bit that is one enables the interrupt of its channel
WriteIrq(val) ==
  /\ Between
  /\ ITmask' = [i \in Channel |-> ITmask[i] \/ i \in val]
  /\ DMAIRQ' = val
  /\ UNCHANGED <<st, armed, triggered, TransferCount, s, d, cfg, block, xram,
                 DMAIF, history>>

\* The program clears DMAIF in IRCON.
ClearIrcon ==
  /\ Between /\ DMAIF /\ DMAIF' = FALSE
  /\ UNCHANGED <<channel, block, xram, DMAIRQ, history>>

\* The program stores to XRAM, or sets up another block.
Store(a, b) ==
  /\ Between /\ xram' = [xram EXCEPT ![a] = b]
  /\ UNCHANGED <<channel, block, registers, history>>

SetUp(i, b) ==
  /\ Between /\ block' = [block EXCEPT ![i] = b]
  /\ UNCHANGED <<channel, xram, registers, history>>

Waiting(t) == {i \in Channel : cfg[i].trig = t}

\* cl_CC2530_dma::happen.  For an event that it does not know, the overflow of
\* a timer, Trigger is not initialized and has any value.
Happen(t) == Between /\ Trigger(Waiting(t))

\* cl_CC2530_dma::reset and clear_sfr
DmaReset ==
  /\ Between
  /\ st' = All("idle") /\ armed' = All(FALSE) /\ triggered' = All(FALSE)
  /\ ITmask' = All(FALSE) /\ TransferCount' = All(0) /\ s' = All(0) /\ d' = All(0)
  /\ cfg' = All(Blank) /\ DMAIRQ' = {} /\ DMAIF' = FALSE
  /\ want' = All(0) /\ moved' = All(0)
  /\ UNCHANGED <<block, xram>>
-----------------------------------------------------------------------------
\* cl_CC2530_dma::tick and, for the channel whose turn it is, StateTrans.

BeginTick ==
  /\ turn = Channels /\ turn' = 0
  /\ UNCHANGED <<channel, block, xram, registers, history>>

InState(i, state) == turn = i /\ turn' = i + 1 /\ st[i] = state

Become(i, state) == st' = [st EXCEPT ![i] = state]

ChannelIdle(i) ==
  /\ InState(i, "idle")
  /\ Become(i, IF armed[i] THEN "load" ELSE "idle")
  /\ UNCHANGED <<armed, triggered, ITmask, TransferCount, s, d, cfg, block, xram,
                 registers, history>>

\* delta of the length modes that take the length from the first byte
Delta(vlen) == CASE vlen = 1 -> 1 [] vlen = 3 -> 2 [] vlen = 4 -> 3 [] OTHER -> 0

Lesser(a, b) == IF a < b THEN a ELSE b

Units(b) ==
  IF b.vlen \in {0, 7} THEN b.len ELSE Lesser(b.len, xram[b.src] + Delta(b.vlen))

\* LoadConfig: channel_init disarms the channel and drops a trigger
LoadConfig(i) ==
  /\ InState(i, "load") /\ Become(i, "armed")
  /\ cfg' = [cfg EXCEPT ![i] = block[i]]
  /\ armed' = [armed EXCEPT ![i] = FALSE]
  /\ triggered' = [triggered EXCEPT ![i] = FALSE]
  /\ ITmask' = [ITmask EXCEPT ![i] = block[i].irq]
  /\ s' = [s EXCEPT ![i] = block[i].src] /\ d' = [d EXCEPT ![i] = block[i].dst]
  /\ TransferCount' = [TransferCount EXCEPT ![i] = Units(block[i])]
  /\ want' = [want EXCEPT ![i] = Units(block[i])]
  /\ moved' = [moved EXCEPT ![i] = 0]
  /\ UNCHANGED <<block, xram, registers>>

Fault_ChannelArmed(i) ==
  /\ InState(i, "armed")
  /\ Become(i, IF triggered[i] /\ armed[i] THEN "transfer" ELSE "armed")
  /\ triggered' = [triggered EXCEPT ![i] = FALSE]
  /\ UNCHANGED <<armed, ITmask, TransferCount, s, d, cfg, block, xram, registers, history>>

ChannelArmed(i) ==
  /\ InState(i, "armed")
  /\ Become(i, IF triggered[i] THEN "transfer" ELSE "armed")
  /\ triggered' = [triggered EXCEPT ![i] = FALSE]
  /\ UNCHANGED <<armed, ITmask, TransferCount, s, d, cfg, block, xram, registers, history>>

\* a cell that does not exist reads as 0
Copied(x, to, from) == [x EXCEPT ![to] = IF from \in Cell THEN x[from] ELSE 0]

Fault_transfer(i) == Copied(xram, s[i], d[i])

\* the direction of the second byte of a word depends on the destination only
Second(i) == IF cfg[i].dinc >= 0 THEN 1 ELSE -1

transfer(i) ==
  LET first == Copied(xram, d[i], s[i])
  IN IF cfg[i].word THEN Copied(first, d[i] + Second(i), s[i] + Second(i)) ELSE first

\* the end of a transfer: the flags and the next state
Finish(i) ==
  /\ DMAIRQ' = DMAIRQ \cup {i} /\ DMAIF' = (DMAIF \/ ITmask[i])
  /\ Become(i, IF cfg[i].repeated THEN "load" ELSE "disarm")

Fault_Continue(i) ==
  /\ Become(i, IF cfg[i].single /\ ~triggered[i] THEN "load" ELSE "transfer")
  /\ UNCHANGED registers

\* there are units left; in single mode they wait for a trigger
Continue(i) ==
  /\ Become(i, IF cfg[i].single /\ ~triggered[i] THEN "armed" ELSE "transfer")
  /\ UNCHANGED registers

Left(i) == TransferCount[i] - 1

TransferOneByteOrWord(i) ==
  /\ InState(i, "transfer")
  /\ xram' = transfer(i)
  /\ s' = [s EXCEPT ![i] = @ + cfg[i].sinc] /\ d' = [d EXCEPT ![i] = @ + cfg[i].dinc]
  /\ TransferCount' = [TransferCount EXCEPT ![i] = Left(i)]
  /\ moved' = [moved EXCEPT ![i] = @ + 1]
  /\ IF Left(i) <= 0 THEN Finish(i) ELSE Continue(i)
  /\ UNCHANGED <<armed, triggered, ITmask, cfg, block, want>>

DisarmChannel(i) ==
  /\ InState(i, "disarm") /\ Become(i, "idle")
  /\ armed' = [armed EXCEPT ![i] = FALSE]
  /\ UNCHANGED <<triggered, ITmask, TransferCount, s, d, cfg, block, xram,
                 registers, history>>

StateTrans(i) ==
  \/ ChannelIdle(i) \/ LoadConfig(i) \/ ChannelArmed(i)
  \/ TransferOneByteOrWord(i) \/ DisarmChannel(i)

Tick == BeginTick \/ \E i \in Channel : StateTrans(i)

Program ==
  \/ \E val \in SUBSET (Channel \cup {Abort}) : WriteArm(val)
  \/ \E val \in SUBSET Channel : WriteReq(val) \/ WriteIrq(val)
  \/ ClearIrcon
  \/ \E a \in Cell, b \in Byte : Store(a, b)
  \/ \E i \in Channel, b \in Blocks : SetUp(i, b)

Events == \E t \in Triggers \cup {NoTrigger} : Happen(t)

DmaNext == Tick \/ Program \/ Events \/ DmaReset

DmaSpec == DmaInit /\ [][DmaNext]_dmaVars /\ WF_dmaVars(Tick)
-----------------------------------------------------------------------------
(***************************************************************************)
(* StateTrans raises the flag of a channel in DMAIRQ exactly when the      *)
(* units that the block asked for when it was loaded have been moved, and  *)
(* one if it asked for none, however triggers, writes of DMAARM and        *)
(* changes of the block in XRAM came in between.                           *)
(***************************************************************************)
FlagWhenDone ==
  [][\A i \in Channel :
       turn = i /\ st[i] = "transfer" =>
         (st'[i] \in {"load", "disarm"} <=> moved'[i] = Larger(1, want[i]))]_dmaVars

(***************************************************************************)
(* A tick writes no cell of XRAM outside the destination of the block that *)
(* the channel has loaded: the addresses that transfer advances over many  *)
(* ticks stay inside.                                                      *)
(***************************************************************************)
WritesInWindow ==
  [][\A a \in Cell : turn < Channels /\ xram'[a] # xram[a] =>
       a \in Window(cfg[turn], want[turn])]_dmaVars

(***************************************************************************)
(* A loaded block that is triggered is moved to its end, since tick serves *)
(* every channel: no write of DMAARM, event or other trigger holds it up   *)
(* (in single mode the next trigger may never come).                       *)
(***************************************************************************)
BlockEnds ==
  \A i \in Channel :
    st[i] = "armed" /\ triggered[i] /\ ~cfg[i].single ~> st[i] \in {"load", "disarm", "idle"}
=============================================================================

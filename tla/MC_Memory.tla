----------------------------- MODULE MC_Memory ------------------------------
(***************************************************************************)
(* What keeps, maps and moves data, one part at a time: the stack and its  *)
(* tracker, the DMA controller, the collections, an address space with its *)
(* decoders, and the unified spaces of the CC2530.  part is the one that   *)
(* runs, the others stay at one of their initial states.                   *)
(***************************************************************************)
EXTENDS StackTracker, Dma2530, Memory, Spaces2530

CONSTANT MaxMemorySteps  \* bound: decoders and breakpoints of a behaviour

VARIABLES part, steps

memoryVars == <<vars, dmaVars, li, me, sp2530, part, steps>>

MCBlock(src, dst, len, dinc) ==
  [src |-> src, dst |-> dst, vlen |-> 0, len |-> len, word |-> FALSE,
   single |-> FALSE, repeated |-> FALSE, trig |-> 2, sinc |-> 1, dinc |-> dinc,
   irq |-> FALSE]

\* Two words, upwards; bytes one by one, as many as the first one says, again
\* and again; words downwards, with an interrupt; nothing at all.
MCBlocks ==
  {[MCBlock(0, 0, 2, 1) EXCEPT !.word = TRUE],
   [MCBlock(0, 1, 2, 0) EXCEPT !.vlen = 1, !.single = TRUE, !.repeated = TRUE],
   [MCBlock(1, 2, 2, -1) EXCEPT !.word = TRUE, !.sinc = -1, !.irq = TRUE, !.single = TRUE],
   MCBlock(0, 0, 0, 0)}

MCChipSize == <<5, 2>>

Untouched == [val |-> [p \in {} |-> 0], access |-> NoAccess, changed |-> {}, n |-> 0]

MCInit ==
  /\ part \in {"stack", "dma", "list", "memory", "spaces"} /\ steps = 0
  /\ Init /\ (part = "stack" \/ iram = [c \in IramCell |-> 0])
  /\ DmaInit
  /\ IF part = "list" THEN ListInit ELSE li = list_init(TRUE, TRUE)
  /\ IF part = "memory" THEN MemoryInit ELSE me = register_hw(Blanked, 0)
  /\ IF part = "spaces" THEN SpacesInit ELSE sp2530 = Untouched

\* Only a reset makes a state of the stack trusted again, and it leads to an
\* initial state: nothing is lost by not going on from an untrusted state.
StackPart == part = "stack" /\ Trusted /\ Next /\ UNCHANGED <<dmaVars, li, me, sp2530, part, steps>>

DmaTick == part = "dma" /\ Tick /\ UNCHANGED <<vars, li, me, sp2530, part, steps>>

DmaPart ==
  \/ DmaTick
  \/ /\ part = "dma" /\ (Program \/ Events \/ DmaReset)
     /\ UNCHANGED <<vars, li, me, sp2530, part, steps>>

ListPart == part = "list" /\ ListNext /\ UNCHANGED <<vars, dmaVars, me, sp2530, part, steps>>

MemoryPart ==
  /\ part = "memory" /\ steps < MaxMemorySteps /\ steps' = steps + 1
  /\ MemoryNext /\ UNCHANGED <<vars, dmaVars, li, sp2530, part>>

SpacesPart == part = "spaces" /\ SpacesNext /\ UNCHANGED <<vars, dmaVars, li, me, part, steps>>

MCNext == StackPart \/ DmaPart \/ ListPart \/ MemoryPart \/ SpacesPart

MCSpec == MCInit /\ [][MCNext]_memoryVars /\ WF_memoryVars(DmaTick)
=============================================================================

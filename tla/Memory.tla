------------------------------- MODULE Memory -------------------------------
(***************************************************************************)
(* An address space of the simulator: cl_address_space with its cells, the *)
(* address decoders that map areas of it to memory chips, and the          *)
(* operators (hardware and event breakpoints) on its cells.                *)
(*                                                                         *)
(* A cell reads and writes either a slot of a chip or memory of its own.   *)
(* The activation of a decoder takes its area away from every other one:   *)
(* they are deleted, shrunk or split, and the second half of a split is    *)
(* activated in its turn.  A decoder that was refused stays in the list.   *)
(*                                                                         *)
(* The state is the record me.  brks and stale are history: the event      *)
(* breakpoints of a cell, and the cells whose place has changed since an   *)
(* operator took it over.                                                  *)
(***************************************************************************)
EXTENDS Lists

CONSTANTS
  SpaceSize,  \* cells of the address space
  ChipSize,   \* size of each chip, a sequence
  AuxrTop,    \* last address that EXTRAM of AUXR switches
  Brks        \* event breakpoints

ASSUME MemoryAssumption ==
  /\ SpaceSize \in Nat /\ AuxrTop \in 0 .. SpaceSize - 1
  /\ ChipSize \in Seq(Nat \ {0}) /\ ChipSize # <<>>
  /\ \A chip \in DOMAIN ChipSize : AuxrTop <= ChipSize[chip]
  /\ 0 \notin Brks

VARIABLE me

Space == 0 .. SpaceSize - 1

Own == [chip |-> 0, at |-> 0]

\* cl_memory_chip::get_slot, and what cl_memory_cell::decode makes of none
get_slot(chip, at) == IF at < ChipSize[chip] THEN [chip |-> chip, at |-> at] ELSE Own

\* history: the operators of a cell keep the place they were made with
Moved(m, a, place) ==
  IF m.ops[a] = <<>> \/ (m.cell[a] = place /\ place # Own) THEN {} ELSE {a}

\* cl_address_space::undecode_cell of the cells of an area, the ones outside
\* of the space left out
undecode_cells(m, area) ==
  LET cells == {a \in area \cap Space : m.cell[a] # Own}
  IN  [m EXCEPT !.cell = [a \in Space |-> IF a \in cells THEN Own ELSE @[a]],
                !.stale = @ \cup UNION {Moved(m, a, Own) : a \in cells}]

\* cl_address_space::decode_cell for each cell of a decoder
decode_cells(m, d) ==
  LET Place(a) == get_slot(d.chip, d.cb + (a - d.key))
  IN  [m EXCEPT !.cell = [a \in Space |-> IF a \in d.key .. d.e THEN Place(a) ELSE @[a]],
                !.stale = @ \cup UNION {Moved(m, a, Place(a)) : a \in d.key .. d.e}]
-----------------------------------------------------------------------------
\* cl_address_decoder.  key is as_begin, by which the list is sorted.
Decoder(u, b, e, chip, cb) ==
  [u |-> u, key |-> b, e |-> e, chip |-> chip, cb |-> cb, activated |-> FALSE]

Unused(m) == CHOOSE u \in 1 .. Count(m.decs) + 1 : \A i \in 1 .. Count(m.decs) : m.decs.items[i].u # u

IndexOf(m, u) == CHOOSE i \in 1 .. Count(m.decs) : m.decs.items[i].u = u

fully_covered_by(d, begin, end) == begin <= d.key /\ end >= d.e
is_in(d, begin, end) == begin \in d.key .. d.e \/ end \in d.key .. d.e
covers(d, begin, end) == begin > d.key /\ end < d.e

\* Fault: the chip's address does not move with the start of the area.
Fault_shrink_out_of(m, i, begin, end) ==
  LET d == m.decs.items[i]
      e == IF begin > d.key THEN begin - 1 ELSE d.e
      front == e > end
  IN  [undecode_cells(m, {a \in d.key .. d.e : a \in begin .. end})
         EXCEPT !.decs.items[i] = [d EXCEPT !.e = e, !.key = IF front THEN end + 1 ELSE @]]

\* shrink_out_of; what it leaves is never empty, as areas that are fully
\* covered are not shrunk
shrink_out_of(m, i, begin, end) ==
  LET d == m.decs.items[i]
      e == IF begin > d.key THEN begin - 1 ELSE d.e
      front == e > end
  IN  [undecode_cells(m, {a \in d.key .. d.e : a \in begin .. end})
         EXCEPT !.decs.items[i] = [d EXCEPT !.e = e, !.key = IF front THEN end + 1 ELSE @,
                                            !.cb = IF front THEN @ + (end - d.key + 1) ELSE @]]

\* split, of a decoder that covers the area: the part behind it is new
Behind(m, i, end) ==
  LET d == m.decs.items[i] IN Decoder(Unused(m), end + 1, d.e, d.chip, d.cb + (end - d.key) + 1)

\* the tests of activate; the last one lets an area exceed the chip by one
Accepted(d) ==
  /\ d.key <= d.e /\ d.cb < ChipSize[d.chip]
  /\ d.key >= 0 /\ d.e < SpaceSize
  /\ d.e - d.key <= ChipSize[d.chip] - d.cb

\* activate up to the call of undecode_area.  calls holds the activations that
\* are under way, the innermost last: the decoder, and the place in the list
\* that undecode_area has come to.
activate(m, u) ==
  LET d == m.decs.items[IndexOf(m, u)]
  IN  IF d.activated \/ ~Accepted(d) THEN m
      ELSE [m EXCEPT !.calls = Append(@, [d |-> d, i |-> 1])]

\* one turn of the loop of undecode_area
undecode_area(m) ==
  LET n == Len(m.calls)
      i == m.calls[n].i
      new == m.calls[n].d
      d == m.decs.items[i]
      on == [m EXCEPT !.calls[n].i = i + 1]
      gone == [m EXCEPT !.decs = disconn_at(@, i - 1)]
      nd == Behind(m, i, new.e)
      cut == shrink_out_of(on, i, new.key, d.e)
  IN  IF d.u = new.u THEN on
      ELSE IF fully_covered_by(d, new.key, new.e) THEN undecode_cells(gone, d.key .. d.e)
      ELSE IF covers(d, new.key, new.e)
           THEN activate([cut EXCEPT !.decs = list_add(@, nd)], nd.u)
      ELSE IF is_in(d, new.key, new.e) THEN shrink_out_of(on, i, new.key, new.e)
      ELSE on

\* activate behind the call
Decoded(m) ==
  LET n == Len(m.calls)
      d == m.calls[n].d
  IN  [decode_cells(m, d) EXCEPT !.decs.items[IndexOf(m, d.u)].activated = TRUE,
                                 !.calls = SubSeq(@, 1, n - 1)]

Turn(m) ==
  IF m.calls = <<>> THEN m
  ELSE IF m.calls[Len(m.calls)].i > Count(m.decs) THEN Decoded(m)
  ELSE undecode_area(m)

\* bound: the turns and the ends of an activation and of that of a second half
MaxTurns(m) == 2 * (Count(m.decs) + 2)

\* A decoder is added to the list and activated.
Connected(m, b, e, chip, cb) ==
  LET d == Decoder(Unused(m), b, e, chip, cb)
      start == activate([m EXCEPT !.decs = list_add(@, d)], d.u)
      turn[n \in 0 .. MaxTurns(start)] == IF n = 0 THEN start ELSE Turn(turn[n - 1])
  IN  turn[MaxTurns(start)]
-----------------------------------------------------------------------------
\* cl_memory_cell: the operators of a cell, a linked list.

Operator(m, a, kind, brk) == [kind |-> kind, brk |-> brk, place |-> m.cell[a]]

append_operator(m, a, op) == [m EXCEPT !.ops[a] = Append(@, op)]

\* del_operator: the first one of the breakpoint
del_operator(m, a, brk) ==
  LET at == {i \in 1 .. Len(m.ops[a]) : m.ops[a][i].brk = brk}
      first == CHOOSE i \in at : \A j \in at : i <= j
  IN  IF at = {} THEN m
      ELSE [m EXCEPT !.ops[a] = SubSeq(@, 1, first - 1) \o SubSeq(@, first + 1, Len(@))]

\* register_hw, set_brk and del_brk of cl_address_space
register_hw(m, a) == append_operator(m, a, Operator(m, a, "hw", 0))

set_brk(m, a, brk, kind) ==
  [append_operator(m, a, Operator(m, a, kind, brk)) EXCEPT !.brks[a] = @ \cup {brk}]

del_brk(m, a, brk) == [del_operator(m, a, brk) EXCEPT !.brks[a] = @ \ {brk}]

\* The operators of one kind that an access passes: every operator of the
\* chain hands it on, and an event operator reports its breakpoint.
Reported(m, a, kind) == {op.brk : op \in {m.ops[a][i] : i \in {j \in DOMAIN m.ops[a] : m.ops[a][j].kind = kind}}}
-----------------------------------------------------------------------------
Blanked ==
  [decs |-> list_init(TRUE, TRUE), cell |-> [a \in Space |-> Own], ops |-> [a \in Space |-> <<>>],
   brks |-> [a \in Space |-> {}], stale |-> {}, calls |-> <<>>]

\* A space that make_memories has mapped to the first chip; or one whose
\* decoder was refused, as the area of the sram and of the first flash bank
\* is; with hardware at the first cell.
MemoryInit ==
  \E e \in {SpaceSize - 1, SpaceSize} : me = register_hw(Connected(Blanked, 0, e, 1, 0), 0)

\* memory createaddressdecoder: the last address of the space is refused
createaddressdecoder ==
  \E b \in Space, e \in Space, chip \in DOMAIN ChipSize : \E cb \in 0 .. ChipSize[chip] - 1 :
    /\ b <= e /\ e < SpaceSize - 1 /\ e - b <= ChipSize[chip] - cb
    /\ me' = Connected(me, b, e, chip, cb)

\* cl_uc51r_dummy_hw::write of AUXR
write_auxr == \E chip \in DOMAIN ChipSize : me' = Connected(me, 0, AuxrTop, chip, 0)

BrkSet ==
  \E a \in Space, brk \in Brks, kind \in {"write", "read"} :
    brk \notin me.brks[a] /\ me' = set_brk(me, a, brk, kind)

BrkDeleted == \E a \in Space : \E brk \in me.brks[a] : me' = del_brk(me, a, brk)

MemoryNext == createaddressdecoder \/ write_auxr \/ BrkSet \/ BrkDeleted
-----------------------------------------------------------------------------
(* Properties *)

DecoderSet == {me.decs.items[i] : i \in 1 .. Count(me.decs)}

\* Whatever areas are decoded over each other, the decoders of a space stay
\* disjoint and in order, though they are shrunk and split in place while the
\* list is searched, and every cell is where the one active decoder over it
\* says: the address in the chip has moved with the start of the area.  A
\* cell without an active decoder, or behind the end of the chip, has memory
\* of its own.
MemoryMapped ==
  /\ \A i, j \in 1 .. Count(me.decs) : i < j => me.decs.items[i].e < me.decs.items[j].key
  /\ \A a \in Space :
       LET over == {d \in DecoderSet : d.activated /\ a \in d.key .. d.e}
       IN  me.cell[a] = IF over = {} THEN Own
                        ELSE LET d == CHOOSE d \in over : TRUE IN get_slot(d.chip, d.cb + (a - d.key))

\* The operators of a cell are its hardware and the event breakpoints that are
\* set on it, each once, whichever were deleted in between; and they write
\* where the cell reads, unless the cell was decoded anew since: decode
\* changes the place of the cell and of none of its operators.
OperatorsHold ==
  \A a \in Space :
    /\ Reported(me, a, "write") \cup Reported(me, a, "read") = me.brks[a]
    /\ Len(me.ops[a]) = (IF a = 0 THEN 1 ELSE 0) + Cardinality(me.brks[a])
    /\ a \notin me.stale => \A i \in DOMAIN me.ops[a] : me.ops[a][i].place = me.cell[a]

\* The space stays consistent when decoders, AUXR and event breakpoints
\* change in any order: the two properties above, and every activation comes to
\* its end, though undecode_area adds to the list it walks through.
SpaceConsistent == MemoryMapped /\ OperatorsHold /\ me.calls = <<>>
=============================================================================

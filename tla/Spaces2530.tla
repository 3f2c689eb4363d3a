----------------------------- MODULE Spaces2530 -----------------------------
(***************************************************************************)
(* The unified address spaces of the CC2530, as the access functions of    *)
(* cl_address_space join them: read, get, write and set of rom and xram    *)
(* reach sram, iram, sfr and the flash banks, by address and by the        *)
(* registers MCON and FMAP.                                                *)
(*                                                                         *)
(* The four functions repeat the map, each in its own way.  A place is a   *)
(* space and an index in it; the addresses are scaled, a space of code or  *)
(* external data has 2 * Bank of them.                                     *)
(*                                                                         *)
(* The state is the record sp2530: the values of the places, and the last  *)
(* access.                                                                 *)
(***************************************************************************)
EXTENDS Integers, FiniteSets

CONSTANTS
  BankSize,    \* addresses of a flash bank (0x8000)
  SramSize,    \* addresses of sram (0x2000)
  IramAt,      \* where iram begins in it (0x1f00)
  SfrAt,       \* where sfr begins in xram (0x7080)
  SfrSize,     \* addresses of sfr (0x80)
  PlaceValues, \* values that are written
  MaxAccesses  \* bound: accesses of a behaviour

ASSUME SpacesAssumption ==
  /\ {BankSize, SramSize, IramAt, SfrAt, SfrSize} \subseteq Nat /\ PlaceValues \subseteq Nat
  /\ IramAt < SramSize /\ SramSize <= SfrAt /\ SfrAt + SfrSize <= BankSize /\ SfrSize >= 2

VARIABLE sp2530

Banks2530 == {"flashbank0", "flashbank1", "flashbank2", "flashbank3"}

SizeOf(space) ==
  CASE space \in Banks2530 -> BankSize
    [] space \in {"rom", "xram"} -> 2 * BankSize
    [] space = "sram" -> SramSize
    [] space = "iram" -> SramSize - IramAt
    [] space = "sfr" -> SfrSize

AllSpaces == Banks2530 \cup {"rom", "xram", "sram", "iram", "sfr"}

\* indexes, from 0 on
Indexes(space) == 0 .. SizeOf(space) - 1

Place(space, i) == [space |-> space, i |-> i]

Dummy == Place("dummy", 0)
\* an assertion ends the simulator
Assert == Place("assert", 0)

flashbank(n) ==
  CASE n = 0 -> "flashbank0" [] n = 1 -> "flashbank1" [] n = 2 -> "flashbank2" [] n = 3 -> "flashbank3"

ValueAt(s, p) == IF p \in DOMAIN s.val THEN s.val[p] ELSE 0

\* MCON and FMAP are the first two registers here
memctr(s) == ValueAt(s, Place("sfr", 0)) % 8
execFromSram(s) == (ValueAt(s, Place("sfr", 0)) \div 8) % 2 = 1
fmap(s) == ValueAt(s, Place("sfr", 1)) % 8
-----------------------------------------------------------------------------
\* cl_address_space::read
read_sram(i) == IF i >= IramAt THEN Place("iram", i - IramAt) ELSE Place("sram", i)

read_rom(s, i) ==
  LET j == i % BankSize
  IN  IF i < BankSize THEN Place("flashbank0", i)
      ELSE IF execFromSram(s) /\ j < SramSize THEN read_sram(j)
      ELSE IF fmap(s) < 4 THEN Place(flashbank(fmap(s)), j)
      ELSE Assert

\* a bank that MCON does not have: the own cell of the xram below
read_xram(s, i) ==
  LET j == i % BankSize
  IN  IF i < SramSize THEN read_sram(i)
      ELSE IF i \in SfrAt .. SfrAt + SfrSize - 1 THEN Place("sfr", i - SfrAt)
      ELSE IF i < BankSize THEN Place("xram", i)
      ELSE IF memctr(s) < 4 THEN Place(flashbank(memctr(s)), j)
      ELSE Place("xram", j)

space_read(s, space, i) ==
  CASE space = "rom" -> read_rom(s, i)
    [] space = "xram" -> read_xram(s, i)
    [] space = "sram" -> read_sram(i)
    [] OTHER -> IF i \in Indexes(space) THEN Place(space, i) ELSE Dummy

\* cl_address_space::get: code of a bank that FMAP does not have comes from
\* the rom cell below
space_get(s, space, i) ==
  IF space = "rom" /\ i >= BankSize /\ fmap(s) >= 4
     /\ ~(execFromSram(s) /\ i % BankSize < SramSize)
  THEN Place("rom", i % BankSize)
  ELSE space_read(s, space, i)

\* Fault: the bank of the code is written.
Fault_space_write(s, space, i) ==
  IF i \notin Indexes(space) THEN Assert
  ELSE IF space = "xram" /\ i >= BankSize /\ fmap(s) < 4 THEN Place(flashbank(fmap(s)), i % BankSize)
  ELSE IF space = "rom" THEN Place("rom", i)
  ELSE space_read(s, space, i)

\* cl_address_space::write; rom writes its own cells, which nothing reads
space_write(s, space, i) ==
  IF i \notin Indexes(space) THEN Assert
  ELSE IF space = "rom" THEN Place("rom", i)
  ELSE space_read(s, space, i)

\* cl_address_space::set: no case of a bank ends with break, so the banks
\* behind it and the own cell are set as well
space_set(s, space, i) ==
  IF i \notin Indexes(space) THEN {Dummy}
  ELSE IF space = "rom" THEN {Place("rom", i)}
  ELSE IF space = "xram" /\ i >= BankSize
       THEN {Place(flashbank(n), i % BankSize) : n \in memctr(s) .. 3} \cup {Place("xram", i % BankSize)}
  ELSE {space_read(s, space, i)}
-----------------------------------------------------------------------------
NoAccess == [op |-> "none", space |-> "rom", i |-> 0, v |-> 0]

\* Any MCON and FMAP
SpacesInit ==
  \E m \in 0 .. 15, f \in 0 .. 7 :
    sp2530 = [val |-> [p \in {Place("sfr", 0), Place("sfr", 1)} |-> IF p.i = 0 THEN m ELSE f],
              access |-> NoAccess, changed |-> {}, n |-> 0]

\* The places take the value; what changed is history.
Update(s, places, access) ==
  LET stored == places \ {Dummy, Assert}
  IN  [s EXCEPT !.val = [p \in DOMAIN @ \cup stored |-> IF p \in stored THEN access.v ELSE @[p]],
                !.access = access, !.changed = stored, !.n = @ + 1]

\* An instruction, the DMA controller or the console writes or sets; beyond
\* the end of a space is tried too.
SpaceWrite ==
  \E space \in AllSpaces, v \in PlaceValues : \E i \in Indexes(space) \cup {SizeOf(space)} :
    /\ sp2530.n < MaxAccesses /\ space_write(sp2530, space, i) # Assert
    /\ sp2530' = Update(sp2530, {space_write(sp2530, space, i)},
                    [op |-> "write", space |-> space, i |-> i, v |-> v])

SpaceSet ==
  \E space \in AllSpaces, v \in PlaceValues : \E i \in Indexes(space) \cup {SizeOf(space)} :
    /\ sp2530.n < MaxAccesses
    /\ sp2530' = Update(sp2530, space_set(sp2530, space, i),
                    [op |-> "set", space |-> space, i |-> i, v |-> v])

SpacesNext == SpaceWrite \/ SpaceSet
-----------------------------------------------------------------------------
(* Properties *)

\* The four copies of the memory map agree: what was written or set at an
\* address of any space but rom is read and got there, whatever bank and
\* window MCON and FMAP select by then (they may be what was written), and
\* seen through xram where the place is part of it; get and read find the
\* same place, unless read stops at the bank of FMAP.  A write changes one
\* place; set may change more, but only in flash and the cells behind it.
AccessesAgree ==
  LET s == sp2530
      a == s.access
      inside == a.i \in Indexes(a.space)
  IN  /\ a.op # "none" /\ a.space # "rom" /\ inside =>
           /\ ValueAt(s, space_read(s, a.space, a.i)) = a.v
           /\ ValueAt(s, space_get(s, a.space, a.i)) = a.v
           /\ a.space = "sram" => ValueAt(s, space_read(s, "xram", a.i)) = a.v
           /\ a.space = "sfr" => ValueAt(s, space_read(s, "xram", SfrAt + a.i)) = a.v
      /\ a.op = "write" => Cardinality(s.changed) = 1
      /\ a.op = "set" /\ Cardinality(s.changed) > 1 => a.space = "xram" /\ a.i >= BankSize
      /\ \A i \in Indexes("rom") :
           space_read(s, "rom", i) # Assert => space_get(s, "rom", i) = space_read(s, "rom", i)
=============================================================================

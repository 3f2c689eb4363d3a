----------------------------- MODULE Flash2530 ------------------------------
(***************************************************************************)
(* The flash controller of the CC2530: cl_CC2530_flash_ctrler.             *)
(*                                                                         *)
(* The program sets a word address, enables writing and stores four bytes  *)
(* to FWDATA, which go to flash together; or it erases a page.  `flash' is *)
(* the bank the controller points to, StartAddr the table of page starts   *)
(* that erasePage makes relative to the bank, once more at every erase.    *)
(*                                                                         *)
(* A page of a word address has twice the bytes of a page that is erased,  *)
(* and the words of a bank twice the bytes the bank holds: 2^9 words of 4  *)
(* bytes, pages of 2^10 bytes and banks of 2^15 bytes in the code.         *)
(*                                                                         *)
(* The state is the record fl.  image and queue are history: the flash as  *)
(* a device that takes the words of FWDATA in order would hold it, and the *)
(* bytes of the current word.                                              *)
(***************************************************************************)
EXTENDS Integers, Sequences, FiniteSets

CONSTANTS
  Banks,       \* number of banks (4)
  BankPages,   \* pages of a bank (32)
  PageBytes,   \* bytes of a page that is erased (1024)
  Data         \* bytes the program writes

ASSUME FlashAssumption ==
  /\ Banks \in Nat \ {0} /\ BankPages \in Nat \ {0} /\ PageBytes \in Nat /\ PageBytes % 4 = 0
  /\ PageBytes > 0 /\ Data \subseteq 0 .. 255

VARIABLE fl

Erased == 255

Pages == Banks * BankPages
BankBytes == BankPages * PageBytes
\* words of a page of the address, words of a bank of the address
PageWords == PageBytes \div 2
BankWords == BankPages * PageWords

Bank(a) == a \div BankWords

\* cl_CC2530_flash_ctrler::reset: the bank and the registers stay
flash_reset(f) ==
  [f EXCEPT !.StartAddr = [p \in 0 .. Pages - 1 |-> p * PageBytes],
            !.lockbit = {}, !.writing = FALSE, !.address = 0, !.TXNum = 0, !.reg = <<0, 0, 0, 0>>,
            !.addressed = FALSE, !.queue = <<>>]

Blanks == [b \in 0 .. Banks - 1 |-> [i \in 0 .. BankBytes - 1 |-> Erased]]

\* After the constructor, which erases the chip and ends at the last bank,
\* and the reset of the controller.
flash_init ==
  [StartAddr |-> [p \in 0 .. Pages - 1 |-> p * PageBytes], lockbit |-> {},
   writing |-> FALSE, address |-> 0, TXNum |-> 0, reg |-> <<0, 0, 0, 0>>,
   flash |-> Banks - 1, faddr |-> 0, cells |-> Blanks, dead |-> FALSE,
   addressed |-> FALSE, image |-> Blanks, queue |-> <<>>]
-----------------------------------------------------------------------------
\* cl_CC2530_flash_ctrler::erasePage.  A write outside the bank ends the
\* simulator, by an assertion of cl_address_space::write.
erasePage(f, p) ==
  LET b == p \div BankPages
      start == f.StartAddr[p] - b * BankBytes
      page == start .. start + PageBytes - 1
      right == (p % BankPages) * PageBytes
      At(c, from) == [i \in DOMAIN c |-> IF i \in from .. from + PageBytes - 1 THEN Erased ELSE c[i]]
      g == [f EXCEPT !.flash = b, !.StartAddr[p] = start]
  IN  IF page \subseteq 0 .. BankBytes - 1
      THEN [g EXCEPT !.cells[b] = At(@, start), !.image[b] = At(@, right)]
      ELSE [g EXCEPT !.dead = TRUE]

\* bits of a word of page 0 lock pages, 32 of them, the last first; a page of
\* the scaled chip has one bit of a byte
Locked(word, reg) ==
  {p \in 0 .. Pages - 1 : p % 4 = 3 - word /\ reg[1 + ((p \div 4) % 4)] % 2 = 0}

\* cl_CC2530_flash_ctrler::flashWrite with the four bytes of reg
flashWrite(f) ==
  LET dest == (f.address % BankWords) * 4
      PageNum == f.address \div PageWords
      WordNum == f.address % PageWords
      Store(c, bytes) == [i \in DOMAIN c |-> IF i \in dest .. dest + 3 THEN bytes[i - dest + 1] ELSE c[i]]
      g == [f EXCEPT !.reg = <<0, 0, 0, 0>>, !.queue = <<>>,
                     !.lockbit = IF PageNum = 0 /\ WordNum < 4
                                 THEN (@ \ {p \in @ : p % 4 = 3 - WordNum}) \cup Locked(WordNum, f.reg)
                                 ELSE @]
  IN  IF dest + 3 >= BankBytes THEN [f EXCEPT !.dead = TRUE]
      ELSE [g EXCEPT !.cells[f.flash] = Store(@, f.reg),
                     !.image[IF f.addressed THEN Bank(f.address) ELSE f.flash] = Store(@, f.queue)]

\* Fault: the address does not select the bank.
Fault_write_faddr(f, a) == [f EXCEPT !.faddr = a, !.address = a, !.addressed = TRUE]

\* cl_CC2530_flash_ctrler::write for FADDRH and FADDRL together or one by one:
\* the other half comes from its cell
write_faddr(f, a) ==
  [f EXCEPT !.faddr = a, !.address = a, !.flash = Bank(a), !.addressed = TRUE]

\* for FCTL: the page is taken from the register, not from the address
write_fctl(f, erase, wr) ==
  LET g == IF erase THEN erasePage(f, f.faddr \div PageWords) ELSE f
  IN  [g EXCEPT !.writing = wr]

\* for FWDATA: the bytes of a word are put together whatever happens between
\* them; FULL is only set while flashWrite runs
write_fwdata(f, v) ==
  IF ~f.writing THEN f
  ELSE LET r == IF f.TXNum = 0 THEN <<0, 0, 0, 0>> ELSE f.reg
           g == [f EXCEPT !.reg = [r EXCEPT ![f.TXNum + 1] = v], !.queue = Append(@, v),
                          !.TXNum = (@ + 1) % 4]
       IN  IF f.TXNum = 3 THEN flashWrite(g) ELSE g
-----------------------------------------------------------------------------
FlashInit == fl = flash_init

Alive == ~fl.dead

FlashNext ==
  \/ \E a \in 0 .. Banks * BankWords - 1 : Alive /\ fl' = write_faddr(fl, a)
  \/ \E erase \in BOOLEAN, wr \in BOOLEAN : Alive /\ fl' = write_fctl(fl, erase, wr)
  \/ \E v \in Data : Alive /\ fl' = write_fwdata(fl, v)
  \/ Alive /\ fl' = flash_reset(fl)
-----------------------------------------------------------------------------
(* Properties *)

\* The flash holds what was written: the words of FWDATA, each from four bytes
\* in order at the address that held when the last of them came, in the bank
\* of that address once the program has set one, and erased pages.  The
\* controller keeps the bank in a pointer that erasePage moves as well, and
\* page starts that it changes at every erase: a page it would erase elsewhere
\* ends the simulator first.
FlashHolds ==
  ~fl.dead => fl.cells = fl.image /\ Len(fl.queue) = fl.TXNum
=============================================================================

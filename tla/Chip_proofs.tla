----------------------------- MODULE Chip_proofs ----------------------------
(***************************************************************************)
(* A chip of the family: the peripherals of the CC2530 and the interrupt   *)
(* system of the MCS51 core.                                               *)
(*                                                                         *)
(* For every geometry of the flash, every width of a byte and all sizes of *)
(* the address spaces: the flash holds what was written to it, the MAC     *)
(* timer loses no tick between its count and its overflow counter, CSPT    *)
(* stops the strobe processor, the copies of the memory map agree, and the *)
(* timers 1, 3 and 4 pass over no match of channel 0.  For any set of      *)
(* sources, any polling order and any assignment of enable bits: the       *)
(* interrupt system nests by priority, serves what it owes and stays down. *)
(***************************************************************************)
EXTENDS Interrupt51, Flash2530, Radio2530, Spaces2530, Timer2530, TLAPS,
        SequenceTheorems, FiniteSetTheorems, WellFoundedInduction

(* Products and quotients of the geometry of the flash.                    *)
LEMMA MulMonotone ==
  ASSUME NEW a \in Nat, NEW b \in Nat, NEW d \in Nat, a <= b
  PROVE  a * d <= b * d /\ a * d \in Nat /\ b * d \in Nat
  OBVIOUS

(* An address below n units of d lies in one of the n.                     *)
LEMMA QuotientBound ==
  ASSUME NEW d \in Nat \ {0}, NEW n \in Nat, NEW a \in 0 .. n * d - 1
  PROVE  a \div d \in 0 .. n - 1
  <1>1. a \div d \in Nat /\ (a \div d) * d <= a
    BY MulMonotone
  <1>2. n * d \in Nat
    BY MulMonotone
  <1>3. (a \div d) * d < n * d
    BY <1>1, <1>2, MulMonotone
  <1>4. ASSUME n <= a \div d PROVE FALSE
    <2>1. n * d <= (a \div d) * d /\ (a \div d) * d \in Nat
      BY <1>1, <1>4, MulMonotone
    <2> QED BY <1>2, <1>3, <2>1
  <1> QED BY <1>1, <1>4

(* A quotient of a quotient.                                               *)
LEMMA QuotientTwice ==
  ASSUME NEW a \in Nat, NEW x \in Nat \ {0}, NEW y \in Nat \ {0}
  PROVE  (a \div x) \div y = a \div (y * x)
  <1> DEFINE q == a \div x
             r == q \div y
  <1>1. q \in Nat /\ q * x <= a /\ a < q * x + x
    OBVIOUS
  <1> HIDE DEF q
  <1>2. r \in Nat /\ r * y <= q /\ q < r * y + y
    BY <1>1
  <1> HIDE DEF r
  <1>3. y * x \in Nat \ {0}
    OBVIOUS
  <1>4. r * (y * x) <= a
    <2>1. (r * y) * x <= q * x
      BY <1>1, <1>2
    <2>2. (r * y) * x = r * (y * x)
      BY <1>2
    <2> QED BY <1>1, <1>2, <2>1, <2>2
  <1>5. a < r * (y * x) + y * x
    <2>1. q + 1 <= r * y + y
      BY <1>1, <1>2
    <2>2. (q + 1) * x <= (r * y + y) * x
      BY <1>1, <1>2, <2>1
    <2>3. (q + 1) * x = q * x + x /\ (r * y + y) * x = r * (y * x) + y * x
      BY <1>1, <1>2
    <2> QED BY <1>1, <1>2, <2>2, <2>3
  <1>6. a \div (y * x) = r
    <2> DEFINE d == y * x
    <2>1. d \in Nat \ {0} /\ r * d <= a /\ a < r * d + d
      BY <1>3, <1>4, <1>5
    <2> HIDE DEF d
    <2>2. a \div d = r
      BY <1>2, <2>1, SMTT(30)
    <2> QED BY <2>2 DEF d
  <1> QED BY <1>6 DEF q, r

(* The remainder is what the quotient leaves.                              *)
LEMMA Remainder ==
  ASSUME NEW a \in Nat, NEW d \in Nat \ {0}
  PROVE  /\ a \div d \in Nat /\ a % d \in 0 .. d - 1
         /\ a = (a \div d) * d + (a % d)
  <1>1. a \div d \in Nat /\ a % d \in 0 .. d - 1
    OBVIOUS
  <1>2. a % d = a - (a \div d) * d
    BY SMTT(30)
  <1>3. (a \div d) * d \in Nat
    BY <1>1
  <1> QED BY <1>1, <1>2, <1>3
-----------------------------------------------------------------------------
(* The flash controller.                                                   *)

WordAddr == 0 .. Banks * BankWords - 1
PageNums == 0 .. Pages - 1
Image == [0 .. Banks - 1 -> [0 .. BankBytes - 1 -> 0 .. 255]]

FlashType ==
  [StartAddr : [PageNums -> Int], lockbit : SUBSET PageNums, writing : BOOLEAN,
   address : WordAddr, TXNum : 0 .. 3, reg : [1 .. 4 -> 0 .. 255],
   flash : 0 .. Banks - 1, faddr : WordAddr, cells : Image, dead : BOOLEAN,
   addressed : BOOLEAN, image : Image, queue : Seq(0 .. 255)]

(* The bytes put together so far are the first ones of reg; once the       *)
(* program has set an address the bank is that of the address, however     *)
(* erasePage moves the pointer; and a page start is that of the chip or,   *)
(* after an erase, that of the bank.                                       *)
WordKept(f) ==
  Len(f.queue) = f.TXNum /\ \A i \in 1 .. f.TXNum : f.reg[i] = f.queue[i]

BankKept(f) == f.addressed => f.address = f.faddr /\ f.flash = Bank(f.faddr)

StartsKept(f) ==
  \A p \in PageNums :
    f.StartAddr[p] = p * PageBytes \/ f.StartAddr[p] = (p % BankPages) * PageBytes

FlashInv(f) ==
  /\ f \in FlashType
  /\ ~f.dead => f.cells = f.image /\ WordKept(f) /\ BankKept(f) /\ StartsKept(f)

(* Pages, banks and words are not empty.                                   *)
LEMMA FlashSizes ==
  /\ Banks \in Nat \ {0} /\ BankPages \in Nat \ {0} /\ PageBytes \in Nat \ {0}
  /\ PageWords \in Nat \ {0} /\ BankWords \in Nat \ {0} /\ BankBytes \in Nat \ {0}
  /\ Pages \in Nat \ {0} /\ Banks * BankWords \in Nat \ {0}
  <1>1. /\ Banks \in Nat \ {0} /\ BankPages \in Nat \ {0}
        /\ PageBytes \in Nat \ {0} /\ PageBytes % 4 = 0
    BY FlashAssumption
  <1>2. PageWords \in Nat \ {0}
    BY <1>1 DEF PageWords
  <1>3. \A a, b \in Nat \ {0} : a * b \in Nat \ {0}
    OBVIOUS
  <1> QED BY <1>1, <1>2, <1>3 DEF BankWords, BankBytes, Pages

(* The page and the bank of a word address are there, and the bank of its  *)
(* page is its bank.                                                       *)
LEMMA AddressParts ==
  ASSUME NEW a \in WordAddr
  PROVE  /\ a \div PageWords \in PageNums
         /\ Bank(a) \in 0 .. Banks - 1
         /\ (a \div PageWords) \div BankPages = Bank(a)
  <1> USE FlashSizes
  <1>1. a \in Nat
    BY DEF WordAddr
  <1>2. Bank(a) \in 0 .. Banks - 1
    BY QuotientBound DEF WordAddr, Bank
  <1>3. Banks * BankWords = Pages * PageWords
    BY DEF BankWords, Pages
  <1>4. a \div PageWords \in PageNums
    <2>1. a \in 0 .. Pages * PageWords - 1
      BY <1>3 DEF WordAddr
    <2> QED BY <2>1, QuotientBound DEF PageNums
  <1>5. (a \div PageWords) \div BankPages = a \div (BankPages * PageWords)
    BY <1>1, QuotientTwice
  <1> QED BY <1>2, <1>4, <1>5 DEF Bank, BankWords

(* Where a page begins in the chip and in its bank.                        *)
LEMMA PageStart ==
  ASSUME NEW p \in PageNums
  PROVE  /\ p \div BankPages \in 0 .. Banks - 1
         /\ (p % BankPages) * PageBytes \in Nat
         /\ (p % BankPages) * PageBytes + PageBytes <= BankBytes
         /\ p * PageBytes = (p \div BankPages) * BankBytes + (p % BankPages) * PageBytes
         /\ p * PageBytes \in Nat /\ (p \div BankPages) * BankBytes \in Nat
         /\ p \div BankPages # 0 => (p \div BankPages) * BankBytes >= BankBytes
  <1> USE FlashSizes
  <1> DEFINE b == p \div BankPages
             r == p % BankPages
  <1>1. p \in Nat
    BY DEF PageNums
  <1>2. b \in Nat /\ r \in 0 .. BankPages - 1 /\ p = b * BankPages + r
    BY <1>1, Remainder
  <1>3. b \in 0 .. Banks - 1
    BY QuotientBound DEF PageNums, Pages
  <1> HIDE DEF b, r
  <1>4. r * PageBytes \in Nat /\ r * PageBytes + PageBytes <= BankBytes
    <2>1. (r + 1) * PageBytes <= BankPages * PageBytes
      BY <1>2, MulMonotone
    <2>2. (r + 1) * PageBytes = r * PageBytes + PageBytes
      BY <1>2
    <2> QED BY <1>2, <2>1, <2>2 DEF BankBytes
  <1>5. p * PageBytes = b * BankBytes + r * PageBytes
    <2>1. (b * BankPages + r) * PageBytes = b * (BankPages * PageBytes) + r * PageBytes
      BY <1>2
    <2> QED BY <1>2, <2>1 DEF BankBytes
  <1>6. b * BankBytes \in Nat /\ p * PageBytes \in Nat
    BY <1>1, <1>2
  <1>7. b # 0 => b * BankBytes >= BankBytes
    BY <1>2
  <1> QED BY <1>3, <1>4, <1>5, <1>6, <1>7 DEF b, r

(* Nothing is promised once the simulator has ended.                       *)
LEMMA DeadKeeps ==
  ASSUME NEW f \in FlashType
  PROVE  FlashInv([f EXCEPT !.dead = TRUE])
  <1>1. [f EXCEPT !.dead = TRUE] \in FlashType /\ [f EXCEPT !.dead = TRUE].dead = TRUE
    BY DEF FlashType
  <1> QED BY <1>1 DEF FlashInv

\* Two records of the controller differ in the fields of S only.
FlashFields ==
  {"StartAddr", "lockbit", "writing", "address", "TXNum", "reg", "flash", "faddr", "cells",
   "dead", "addressed", "image", "queue"}
FlashOnly(f, g, S) ==
  g = [x \in FlashFields |-> g[x]] /\ \A x \in FlashFields \ S : g[x] = f[x]

(* A page is erased where it is, or the simulator ends: the second erase   *)
(* of a page outside bank 0 starts below the bank (erasePage).             *)
LEMMA EraseKeeps ==
  ASSUME NEW f, FlashInv(f), ~f.dead
  PROVE  FlashInv(erasePage(f, f.faddr \div PageWords))
  <1> DEFINE p == f.faddr \div PageWords
             b == p \div BankPages
             start == f.StartAddr[p] - b * BankBytes
             right == (p % BankPages) * PageBytes
             page == start .. start + PageBytes - 1
             At(c, from) == [i \in DOMAIN c |->
                              IF i \in from .. from + PageBytes - 1 THEN Erased ELSE c[i]]
             g == [f EXCEPT !.flash = b, !.StartAddr[p] = start]
             h == [g EXCEPT !.cells[b] = At(@, start), !.image[b] = At(@, right)]
  <1>1. f \in FlashType /\ f.cells = f.image /\ WordKept(f) /\ BankKept(f) /\ StartsKept(f)
    BY DEF FlashInv
  <1>2. p \in PageNums /\ b = Bank(f.faddr) /\ b \in 0 .. Banks - 1
    BY <1>1, AddressParts DEF FlashType
  <1>3. /\ right \in Nat /\ right + PageBytes <= BankBytes /\ b * BankBytes \in Nat
        /\ p * PageBytes = b * BankBytes + right
        /\ b # 0 => b * BankBytes >= BankBytes
    BY <1>2, PageStart
  <1>4. start \in Int /\ f.StartAddr[p] \in Int
    BY <1>1, <1>2, <1>3 DEF FlashType
  <1>5. f.StartAddr[p] = p * PageBytes \/ f.StartAddr[p] = right
    BY <1>1, <1>2 DEF StartsKept
  <1>6. erasePage(f, p) = IF page \subseteq 0 .. BankBytes - 1 THEN h ELSE [g EXCEPT !.dead = TRUE]
    BY DEF erasePage
  <1> HIDE DEF p, b, right
  <1>7. /\ g \in FlashType /\ g.cells = f.cells /\ g.image = f.image /\ g.queue = f.queue
        /\ g.TXNum = f.TXNum /\ g.reg = f.reg /\ g.addressed = f.addressed
        /\ g.address = f.address /\ g.faddr = f.faddr /\ g.dead = f.dead
        /\ g.flash = b /\ g.StartAddr = [f.StartAddr EXCEPT ![p] = start]
    <2> DEFINE k == [f EXCEPT !.flash = b]
               moved == [f.StartAddr EXCEPT ![p] = start]
    <2>1. f \in FlashType /\ b \in 0 .. Banks - 1 /\ moved \in [PageNums -> Int]
      BY <1>1, <1>2, <1>4 DEF FlashType
    <2>2. FlashOnly(f, k, {"flash"}) /\ k.flash = b
      BY <2>1 DEF FlashOnly, FlashFields, FlashType
    <2>3. g = [k EXCEPT !.StartAddr = moved] /\ k.StartAddr = f.StartAddr
      <3>1. g = [k EXCEPT !.StartAddr[p] = start]
        OBVIOUS
      <3>2. k.StartAddr = f.StartAddr
        BY <2>2 DEF FlashOnly, FlashFields
      <3> HIDE DEF g, k, start
      <3> QED BY <3>1, <3>2
    <2> HIDE DEF g, k, moved, start
    <2>4. FlashOnly(f, g, {"flash", "StartAddr"}) /\ g.flash = b /\ g.StartAddr = moved
      BY <2>2, <2>3 DEF FlashOnly, FlashFields
    <2>5. g \in FlashType
      <3>1. g = [x \in FlashFields |-> g[x]]
        BY <2>4 DEF FlashOnly
      <3>2. /\ g.StartAddr = moved /\ g.flash = b /\ g.lockbit = f.lockbit /\ g.writing = f.writing
            /\ g.address = f.address /\ g.TXNum = f.TXNum /\ g.reg = f.reg /\ g.faddr = f.faddr
            /\ g.cells = f.cells /\ g.dead = f.dead /\ g.addressed = f.addressed
            /\ g.image = f.image /\ g.queue = f.queue
        BY <2>4 DEF FlashOnly, FlashFields
      <3> QED BY <2>1, <3>1, <3>2 DEF FlashFields, FlashType
    <2> QED BY <2>4, <2>5 DEF moved, FlashOnly, FlashFields
  <1> HIDE DEF g, start
  <1>8. CASE page \subseteq 0 .. BankBytes - 1
    <2>1. start \in page
      BY <1>4, FlashSizes
    <2>2. start >= 0
      BY <1>8, <2>1
    <2>3. start = right
      <3>1. CASE f.StartAddr[p] = p * PageBytes
        BY <1>3, <3>1 DEF start
      <3>2. CASE f.StartAddr[p] = right
        <4>1. b = 0
          BY <1>2, <1>3, <2>2, <3>2, FlashSizes DEF start
        <4>2. b * BankBytes = 0
          BY <4>1, FlashSizes
        <4> QED BY <1>3, <3>2, <4>2 DEF start
      <3> QED BY <1>5, <3>1, <3>2
    <2>4. At(f.cells[b], start) \in [0 .. BankBytes - 1 -> 0 .. 255]
      <3>1. f.cells[b] \in [0 .. BankBytes - 1 -> 0 .. 255]
        BY <1>1, <1>2 DEF FlashType, Image
      <3>2. ASSUME NEW c \in [0 .. BankBytes - 1 -> 0 .. 255], NEW X
            PROVE  [i \in DOMAIN c |-> IF i \in X THEN Erased ELSE c[i]]
                     \in [0 .. BankBytes - 1 -> 0 .. 255]
        BY DEF Erased
      <3> QED BY <3>1, <3>2
    <2>5. /\ h \in FlashType /\ h.cells = [f.cells EXCEPT ![b] = At(@, start)]
          /\ h.image = [f.image EXCEPT ![b] = At(@, right)] /\ h.queue = f.queue
          /\ h.TXNum = f.TXNum /\ h.reg = f.reg /\ h.addressed = f.addressed
          /\ h.address = f.address /\ h.faddr = f.faddr
          /\ h.flash = b /\ h.StartAddr = [f.StartAddr EXCEPT ![p] = start]
      <3>1. f.cells \in Image /\ f.image = f.cells
        BY <1>1 DEF FlashType
      <3>2. [f.cells EXCEPT ![b] = At(@, start)] \in Image
        BY <2>4, <3>1 DEF Image
      <3>3. [f.image EXCEPT ![b] = At(@, right)] \in Image
        BY <2>3, <3>1, <3>2
      <3> HIDE DEF At
      <3> QED BY <1>7, <3>2, <3>3 DEF FlashType
    <2> HIDE DEF h, At
    <2>6. h.cells = h.image
      BY <1>1, <2>3, <2>5
    <2>7. WordKept(h) /\ BankKept(h)
      BY <1>1, <1>2, <2>5 DEF WordKept, BankKept
    <2>8. StartsKept(h)
      <3> SUFFICES ASSUME NEW x \in PageNums
                   PROVE  \/ h.StartAddr[x] = x * PageBytes
                          \/ h.StartAddr[x] = (x % BankPages) * PageBytes
        BY DEF StartsKept
      <3>1. f.StartAddr \in [PageNums -> Int]
        BY <1>1 DEF FlashType
      <3>2. CASE x = p
        BY <2>3, <2>5, <3>1, <3>2 DEF right
      <3>3. CASE x # p
        BY <1>1, <2>5, <3>1, <3>3 DEF StartsKept
      <3> QED BY <3>2, <3>3
    <2> QED BY <1>6, <1>8, <2>5, <2>6, <2>7, <2>8 DEF FlashInv, p
  <1>9. CASE ~(page \subseteq 0 .. BankBytes - 1)
    BY <1>6, <1>7, <1>9, DeadKeeps DEF p
  <1> QED BY <1>8, <1>9

(* The four bytes go to the same place in the cells and in the image, in   *)
(* the order they came (flashWrite).                                       *)
LEMMA FlashWriteKeeps ==
  ASSUME NEW f \in FlashType, ~f.dead, f.cells = f.image, BankKept(f), StartsKept(f),
         f.TXNum = 0, Len(f.queue) = 4, \A i \in 1 .. 4 : f.reg[i] = f.queue[i]
  PROVE  FlashInv(flashWrite(f))
  <1> DEFINE dest == (f.address % BankWords) * 4
             PageNum == f.address \div PageWords
             WordNum == f.address % PageWords
             Store(c, bytes) == [i \in DOMAIN c |->
                 IF i \in dest .. dest + 3 THEN bytes[i - dest + 1] ELSE c[i]]
             lock == IF PageNum = 0 /\ WordNum < 4
                     THEN (f.lockbit \ {p \in f.lockbit : p % 4 = 3 - WordNum}) \cup Locked(WordNum, f.reg)
                     ELSE f.lockbit
             g == [f EXCEPT !.reg = <<0, 0, 0, 0>>, !.queue = <<>>, !.lockbit = lock]
             bank == IF f.addressed THEN Bank(f.address) ELSE f.flash
             h == [g EXCEPT !.cells[f.flash] = Store(@, f.reg), !.image[bank] = Store(@, f.queue)]
  <1>1. flashWrite(f) = IF dest + 3 >= BankBytes THEN [f EXCEPT !.dead = TRUE] ELSE h
    BY DEF flashWrite
  <1>2. bank = f.flash /\ f.flash \in 0 .. Banks - 1
    BY DEF BankKept, FlashType
  <1>3. dest \in Nat
    <2>1. f.address \in Nat
      BY FlashSizes DEF FlashType, WordAddr
    <2> QED BY <2>1, FlashSizes, Remainder
  <1>4. lock \in SUBSET PageNums
    BY DEF FlashType, Locked, PageNums
  <1> HIDE DEF dest, lock, bank
  <1>5. ASSUME NEW c \in [0 .. BankBytes - 1 -> 0 .. 255]
        PROVE  /\ Store(c, f.reg) \in [0 .. BankBytes - 1 -> 0 .. 255]
               /\ Store(c, f.reg) = Store(c, f.queue)
    <2>1. \A i \in dest .. dest + 3 : i - dest + 1 \in 1 .. 4
      BY <1>3
    <2>2. \A i \in dest .. dest + 3 : /\ f.reg[i - dest + 1] = f.queue[i - dest + 1]
                                      /\ f.reg[i - dest + 1] \in 0 .. 255
      <3>1. f.reg \in [1 .. 4 -> 0 .. 255]
        BY DEF FlashType
      <3> QED BY <2>1, <3>1
    <2>3. DOMAIN c = 0 .. BankBytes - 1
      OBVIOUS
    <2>4. Store(c, f.reg) = Store(c, f.queue)
      BY <2>2
    <2>5. Store(c, f.reg) \in [0 .. BankBytes - 1 -> 0 .. 255]
      <3>1. \A i \in DOMAIN c : c[i] \in 0 .. 255
        BY <2>3
      <3>2. \A i \in DOMAIN c : (IF i \in dest .. dest + 3 THEN f.reg[i - dest + 1] ELSE c[i]) \in 0 .. 255
        BY <2>2, <3>1
      <3> DEFINE D == 0 .. BankBytes - 1
                 R == 0 .. 255
                 val(i) == IF i \in dest .. dest + 3 THEN f.reg[i - dest + 1] ELSE c[i]
      <3>3. DOMAIN c = D /\ (\A i \in DOMAIN c : val(i) \in R)
        BY <2>3, <3>2
      <3> HIDE DEF D, R, val
      <3>4. [i \in DOMAIN c |-> val(i)] \in [D -> R]
        BY <3>3
      <3> QED BY <3>4 DEF D, R, val
    <2> QED BY <2>4, <2>5
  <1> HIDE DEF Store
  <1>6. CASE dest + 3 >= BankBytes
    BY <1>1, <1>6, DeadKeeps
  <1>7. CASE ~(dest + 3 >= BankBytes)
    <2>1. f.cells \in Image /\ f.cells[f.flash] \in [0 .. BankBytes - 1 -> 0 .. 255]
      <3>1. f.cells \in Image
        BY DEF FlashType
      <3> DEFINE D == 0 .. BankBytes - 1
                 R == 0 .. 255
                 B == 0 .. Banks - 1
      <3>2. f.cells \in [B -> [D -> R]] /\ f.flash \in B
        BY <1>2, <3>1 DEF Image
      <3> HIDE DEF D, R, B
      <3>3. f.cells[f.flash] \in [D -> R]
        BY <3>2
      <3> QED BY <3>1, <3>3 DEF D, R
    <2>2. Store(f.cells[f.flash], f.reg) = Store(f.image[bank], f.queue)
      <3>1. Store(f.cells[f.flash], f.reg) = Store(f.cells[f.flash], f.queue)
        BY <1>5, <2>1
      <3> QED BY <1>2, <3>1
    <2>3. Store(f.cells[f.flash], f.reg) \in [0 .. BankBytes - 1 -> 0 .. 255]
      BY <1>5, <2>1
    <2>4. /\ <<0, 0, 0, 0>> \in [1 .. 4 -> 0 .. 255] /\ <<>> \in Seq(0 .. 255) /\ Len(<<>>) = 0
      BY EmptySeq
    <2>5. /\ g \in FlashType /\ g.cells = f.cells /\ g.image = f.image /\ g.queue = <<>>
          /\ g.TXNum = 0 /\ g.addressed = f.addressed /\ g.address = f.address
          /\ g.faddr = f.faddr /\ g.flash = f.flash /\ g.StartAddr = f.StartAddr
      BY <1>4, <2>4 DEF FlashType
    <2> HIDE DEF g
    <2>6. [f.cells EXCEPT ![f.flash] = Store(@, f.reg)] \in Image
      BY <2>1, <2>3 DEF Image
    <2>7. [f.image EXCEPT ![bank] = Store(@, f.queue)] = [f.cells EXCEPT ![f.flash] = Store(@, f.reg)]
      BY <1>2, <2>2
    <2>8. /\ h \in FlashType /\ h.cells = h.image /\ h.queue = <<>> /\ h.TXNum = 0
          /\ h.addressed = f.addressed /\ h.address = f.address
          /\ h.faddr = f.faddr /\ h.flash = f.flash /\ h.StartAddr = f.StartAddr
      BY <2>5, <2>6, <2>7 DEF FlashType
    <2> HIDE DEF h
    <2>9. WordKept(h)
      BY <2>4, <2>8 DEF WordKept
    <2>10. BankKept(h) /\ StartsKept(h)
      BY <2>8 DEF BankKept, StartsKept
    <2> QED BY <1>1, <1>7, <2>8, <2>9, <2>10 DEF FlashInv
  <1> QED BY <1>6, <1>7

(* A byte of FWDATA joins the word, and the fourth one completes it.       *)
LEMMA FwdataKeeps ==
  ASSUME NEW f, FlashInv(f), ~f.dead, NEW v \in 0 .. 255
  PROVE  FlashInv(write_fwdata(f, v))
  <1> DEFINE r == IF f.TXNum = 0 THEN <<0, 0, 0, 0>> ELSE f.reg
             g == [f EXCEPT !.reg = [r EXCEPT ![f.TXNum + 1] = v], !.queue = Append(@, v),
                            !.TXNum = (@ + 1) % 4]
  <1>1. f \in FlashType /\ f.cells = f.image /\ WordKept(f) /\ BankKept(f) /\ StartsKept(f)
    BY DEF FlashInv
  <1>2. write_fwdata(f, v) = IF ~f.writing THEN f ELSE IF f.TXNum = 3 THEN flashWrite(g) ELSE g
    BY DEF write_fwdata
  <1>3. f.TXNum \in 0 .. 3 /\ f.reg \in [1 .. 4 -> 0 .. 255] /\ f.queue \in Seq(0 .. 255)
    BY <1>1 DEF FlashType
  <1>4. r \in [1 .. 4 -> 0 .. 255] /\ \A i \in 1 .. f.TXNum : r[i] = f.queue[i]
    <2>1. CASE f.TXNum = 0
      BY <2>1
    <2>2. CASE f.TXNum # 0
      BY <1>1, <1>3, <2>2 DEF WordKept
    <2> QED BY <2>1, <2>2
  <1> HIDE DEF r
  <1>5. /\ Append(f.queue, v) \in Seq(0 .. 255) /\ Len(Append(f.queue, v)) = f.TXNum + 1
        /\ \A i \in 1 .. f.TXNum : Append(f.queue, v)[i] = f.queue[i]
        /\ Append(f.queue, v)[f.TXNum + 1] = v
    BY <1>1, <1>3, AppendProperties DEF WordKept
  <1>6. [r EXCEPT ![f.TXNum + 1] = v] \in [1 .. 4 -> 0 .. 255]
    BY <1>3, <1>4
  <1>7. \A i \in 1 .. f.TXNum + 1 : [r EXCEPT ![f.TXNum + 1] = v][i] = Append(f.queue, v)[i]
    <2> SUFFICES ASSUME NEW i \in 1 .. f.TXNum + 1
                 PROVE  [r EXCEPT ![f.TXNum + 1] = v][i] = Append(f.queue, v)[i]
      OBVIOUS
    <2>1. i \in 1 .. 4 /\ (i = f.TXNum + 1 \/ i \in 1 .. f.TXNum)
      BY <1>3
    <2> QED BY <1>3, <1>4, <1>5, <2>1
  <1>8. /\ g \in FlashType /\ g.cells = f.cells /\ g.image = f.image /\ g.dead = f.dead
        /\ g.queue = Append(f.queue, v) /\ g.reg = [r EXCEPT ![f.TXNum + 1] = v]
        /\ g.TXNum = (f.TXNum + 1) % 4 /\ g.addressed = f.addressed
        /\ g.address = f.address /\ g.faddr = f.faddr /\ g.flash = f.flash
        /\ g.StartAddr = f.StartAddr
    <2>1. (f.TXNum + 1) % 4 \in 0 .. 3
      BY <1>3
    <2> QED BY <1>1, <1>5, <1>6, <2>1 DEF FlashType
  <1> HIDE DEF g
  <1>9. BankKept(g) /\ StartsKept(g) /\ g.cells = g.image /\ ~g.dead
    BY <1>1, <1>8 DEF BankKept, StartsKept
  <1>10. CASE f.TXNum = 3
    <2>1. g.TXNum = 0 /\ Len(g.queue) = 4 /\ \A i \in 1 .. 4 : g.reg[i] = g.queue[i]
      BY <1>5, <1>7, <1>8, <1>10
    <2>2. FlashInv(flashWrite(g))
      BY <1>8, <1>9, <2>1, FlashWriteKeeps
    <2> QED BY <1>2, <1>10, <2>2
  <1>11. CASE f.TXNum # 3
    <2>1. g.TXNum = f.TXNum + 1
      BY <1>3, <1>8, <1>11
    <2>2. WordKept(g)
      BY <1>5, <1>7, <1>8, <2>1 DEF WordKept
    <2>3. FlashInv(g)
      BY <1>8, <1>9, <2>2 DEF FlashInv
    <2> QED BY <1>2, <1>11, <2>3
  <1> QED BY <1>10, <1>11

(* The address selects the bank.                                           *)
LEMMA FaddrKeeps ==
  ASSUME NEW f, FlashInv(f), ~f.dead, NEW a \in WordAddr
  PROVE  FlashInv(write_faddr(f, a))
  <1> DEFINE g == write_faddr(f, a)
  <1>1. Bank(a) \in 0 .. Banks - 1
    BY AddressParts
  <1>2. /\ g \in FlashType /\ g.cells = f.cells /\ g.image = f.image /\ g.dead = f.dead
        /\ g.queue = f.queue /\ g.reg = f.reg /\ g.TXNum = f.TXNum /\ g.addressed = TRUE
        /\ g.address = a /\ g.faddr = a /\ g.flash = Bank(a) /\ g.StartAddr = f.StartAddr
    BY <1>1 DEF FlashInv, FlashType, write_faddr
  <1> HIDE DEF g
  <1>3. WordKept(g) /\ BankKept(g) /\ StartsKept(g) /\ g.cells = g.image
    BY <1>2 DEF FlashInv, WordKept, BankKept, StartsKept
  <1> QED BY <1>2, <1>3 DEF FlashInv, g

(* FCTL.                                                                   *)
LEMMA FctlKeeps ==
  ASSUME NEW f, FlashInv(f), ~f.dead, NEW erase \in BOOLEAN, NEW wr \in BOOLEAN
  PROVE  FlashInv(write_fctl(f, erase, wr))
  <1>1. PICK g : FlashInv(g) /\ write_fctl(f, erase, wr) = [g EXCEPT !.writing = wr]
    BY EraseKeeps DEF write_fctl
  <1> DEFINE h == [g EXCEPT !.writing = wr]
  <1>2. /\ h \in FlashType /\ h.cells = g.cells /\ h.image = g.image /\ h.dead = g.dead
        /\ h.queue = g.queue /\ h.reg = g.reg /\ h.TXNum = g.TXNum
        /\ h.addressed = g.addressed /\ h.address = g.address /\ h.faddr = g.faddr
        /\ h.flash = g.flash /\ h.StartAddr = g.StartAddr
    BY <1>1 DEF FlashInv, FlashType
  <1> HIDE DEF h
  <1>3. ~h.dead => WordKept(h) /\ BankKept(h) /\ StartsKept(h) /\ h.cells = h.image
    BY <1>1, <1>2 DEF FlashInv, WordKept, BankKept, StartsKept
  <1> QED BY <1>1, <1>2, <1>3 DEF FlashInv, h

(* The constructor and the reset start from nothing.                       *)
LEMMA FlashStart ==
  /\ [p \in PageNums |-> p * PageBytes] \in [PageNums -> Int]
  /\ <<0, 0, 0, 0>> \in [1 .. 4 -> 0 .. 255]
  /\ <<>> \in Seq(0 .. 255) /\ Len(<<>>) = 0 /\ 0 \in WordAddr /\ Blanks \in Image
  <1> USE FlashSizes
  <1>1. [p \in PageNums |-> p * PageBytes] \in [PageNums -> Int]
    BY DEF PageNums
  <1>2. <<>> \in Seq(0 .. 255) /\ Len(<<>>) = 0
    BY EmptySeq
  <1>3. 0 \in WordAddr /\ Blanks \in Image
    BY DEF WordAddr, Blanks, Image, Erased
  <1> QED BY <1>1, <1>2, <1>3

(* A reset forgets the word and the address, not the cells                 *)
(* (cl_CC2530_flash_ctrler::reset).                                        *)
LEMMA FlashResetKeeps ==
  ASSUME NEW f, FlashInv(f), ~f.dead
  PROVE  FlashInv(flash_reset(f))
  <1> DEFINE g == flash_reset(f)
  <1>1. /\ g \in FlashType /\ g.cells = f.cells /\ g.image = f.image
        /\ g.queue = <<>> /\ g.TXNum = 0 /\ g.addressed = FALSE
        /\ g.StartAddr = [p \in PageNums |-> p * PageBytes]
    <2>1. f \in FlashType
      BY DEF FlashInv
    <2> DEFINE st == [p \in PageNums |-> p * PageBytes]
               word == <<0, 0, 0, 0>>
               none == <<>>
    <2>2. g = [f EXCEPT !.StartAddr = st, !.lockbit = {}, !.writing = FALSE, !.address = 0,
                        !.TXNum = 0, !.reg = word, !.addressed = FALSE, !.queue = none]
      BY DEF flash_reset, PageNums
    <2>3. /\ st \in [PageNums -> Int] /\ word \in [1 .. 4 -> 0 .. 255]
          /\ none \in Seq(0 .. 255) /\ 0 \in WordAddr
      <3>1. st \in [PageNums -> Int]
        BY FlashStart
      <3>2. word \in [1 .. 4 -> 0 .. 255]
        BY FlashStart
      <3>3. none \in Seq(0 .. 255) /\ 0 \in WordAddr
        BY FlashStart
      <3> QED BY <3>1, <3>2, <3>3
    <2> HIDE DEF g, st, word, none
    <2>4. g \in FlashType
      <3>1. g = [StartAddr |-> st, lockbit |-> {}, writing |-> FALSE, address |-> 0,
                 TXNum |-> 0, reg |-> word, flash |-> f.flash, faddr |-> f.faddr,
                 cells |-> f.cells, dead |-> f.dead, addressed |-> FALSE,
                 image |-> f.image, queue |-> none]
        BY <2>1, <2>2 DEF FlashType
      <3>2. /\ f.flash \in 0 .. Banks - 1 /\ f.faddr \in WordAddr /\ f.cells \in Image
            /\ f.dead \in BOOLEAN /\ f.image \in Image
        BY <2>1 DEF FlashType
      <3>3. {} \in SUBSET PageNums /\ 0 \in 0 .. 3 /\ FALSE \in BOOLEAN
        OBVIOUS
      <3> QED BY <2>3, <3>1, <3>2, <3>3 DEF FlashType
    <2>5. /\ g.cells = f.cells /\ g.image = f.image
          /\ g.queue = none /\ g.TXNum = 0 /\ g.addressed = FALSE /\ g.StartAddr = st
      BY <2>1, <2>2 DEF FlashType
    <2> QED BY <2>4, <2>5 DEF st, none
  <1> HIDE DEF g
  <1>2. WordKept(g) /\ BankKept(g) /\ StartsKept(g) /\ g.cells = g.image
    BY <1>1, FlashStart DEF FlashInv, WordKept, BankKept, StartsKept
  <1> QED BY <1>1, <1>2 DEF FlashInv, g

(* Every step of the controller preserves the invariant.                   *)
LEMMA FlashStep == FlashInv(fl) /\ [FlashNext]_fl => FlashInv(fl)'
  <1> SUFFICES ASSUME FlashInv(fl), FlashNext PROVE FlashInv(fl')
    OBVIOUS
  <1> ~fl.dead
    BY DEF FlashNext, Alive
  <1>1. ASSUME NEW a \in WordAddr, fl' = write_faddr(fl, a) PROVE FlashInv(fl')
    BY <1>1, FaddrKeeps
  <1>2. ASSUME NEW erase \in BOOLEAN, NEW wr \in BOOLEAN, fl' = write_fctl(fl, erase, wr)
        PROVE  FlashInv(fl')
    BY <1>2, FctlKeeps
  <1>3. ASSUME NEW v \in Data, fl' = write_fwdata(fl, v) PROVE FlashInv(fl')
    <2>1. v \in 0 .. 255
      BY FlashAssumption
    <2> QED BY <1>3, <2>1, FwdataKeeps
  <1>4. CASE fl' = flash_reset(fl)
    BY <1>4, FlashResetKeeps
  <1> QED BY <1>1, <1>2, <1>3, <1>4 DEF FlashNext, WordAddr

(* The invariant holds of a flash that was never written.                  *)
LEMMA FlashInitially == FlashInit => FlashInv(fl)
  <1> SUFFICES ASSUME FlashInit PROVE FlashInv(fl)
    OBVIOUS
  <1>1. Banks - 1 \in 0 .. Banks - 1
    BY FlashSizes
  <1>2. /\ fl \in FlashType /\ fl.cells = fl.image /\ fl.queue = <<>> /\ fl.TXNum = 0
        /\ fl.addressed = FALSE /\ fl.StartAddr = [p \in PageNums |-> p * PageBytes]
    BY <1>1, FlashStart DEF FlashInit, flash_init, FlashType, PageNums
  <1> QED BY <1>2, FlashStart DEF FlashInv, WordKept, BankKept, StartsKept

(* As long as the simulator runs, the flash holds the words of FWDATA in   *)
(* order, in the bank of the address, and erased pages, although erasePage *)
(* moves the bank pointer and changes its table of page starts (flashWrite,*)
(* erasePage, write).                                                      *)
THEOREM FlashHoldsAlways == FlashInit /\ [][FlashNext]_fl => []FlashHolds
  <1>1. FlashInv(fl) => FlashHolds
    BY DEF FlashInv, FlashHolds, WordKept
  <1> QED BY <1>1, FlashInitially, FlashStep, PTL
-----------------------------------------------------------------------------
(* The MAC timer.                                                          *)

Digits == [0 .. 2 -> 0 .. Bytes - 1]

MacType ==
  [mode : {0, 1}, run : BOOLEAN, t2msel : Nat, t2movfsel : Nat, t2m0 : 0 .. Bytes - 1,
   m : [0 .. 4 -> Int], ovf : [0 .. 4 -> Digits],
   evtcfg : [{1, 2} -> Nat], out : [{1, 2} -> BOOLEAN],
   irqf : SUBSET Nat, irqm : SUBSET Nat, ircon : BOOLEAN, event : BOOLEAN, cspt : Int,
   elapsed : Nat \cup {NotKnown}]

Num(o) == o[0] + Bytes * (o[1] + Bytes * o[2])

Cube == Bytes * (Bytes * Bytes)

(* The count and the overflow counter, whatever the windows select.  The   *)
(* count stays below the period: without it one could not tell that the    *)
(* comparison for equality in CountCompare ever ends a period.             *)
Timely(m, o, e) ==
  IF m[Period] > 0
  THEN /\ m[Counter] \in 0 .. m[Period] - 1
       /\ Num(o) * m[Period] + m[Counter] = e % (m[Period] * Cube)
  ELSE m[Counter] = e

MacInv(t) ==
  /\ t \in MacType /\ t.m[Period] < Bytes * Bytes
  /\ t.elapsed # NotKnown => Timely(t.m, t.ovf[Counter], t.elapsed)

(* The range of three bytes.                                               *)
LEMMA CubeFacts ==
  /\ Bytes \in Nat /\ Bytes > 1 /\ Bytes * Bytes \in Nat /\ Bytes * Bytes >= Bytes
  /\ Cube \in Nat \ {0}
  <1>1. Bytes \in Nat /\ Bytes > 1
    BY MacAssumption
  <1>2. Bytes * Bytes \in Nat \ {0} /\ Bytes * Bytes >= Bytes
    BY <1>1
  <1> DEFINE sq == Bytes * Bytes
  <1> HIDE DEF sq
  <1>3. sq \in Nat \ {0} => Bytes * sq \in Nat \ {0}
    BY <1>1
  <1> QED BY <1>1, <1>2, <1>3 DEF Cube, sq

(* One more, carried through three bytes.                                  *)
OneMore(x, y, z) ==
  LET b0 == (x + 1) % Bytes
      b1 == IF b0 = 0 THEN (y + 1) % Bytes ELSE y
      b2 == IF b0 = 0 /\ b1 = 0 THEN (z + 1) % Bytes ELSE z
      n == x + Bytes * (y + Bytes * z)
  IN  /\ b0 \in 0 .. Bytes - 1 /\ b1 \in 0 .. Bytes - 1 /\ b2 \in 0 .. Bytes - 1
      /\ n \in 0 .. Cube - 1
      /\ b0 + Bytes * (b1 + Bytes * b2) = IF n + 1 = Cube THEN 0 ELSE n + 1

(* Adding one with carries through three bytes adds one to their number,   *)
(* as far as three bytes hold.                                             *)
LEMMA NumCarries ==
  ASSUME NEW x \in 0 .. Bytes - 1, NEW y \in 0 .. Bytes - 1, NEW z \in 0 .. Bytes - 1
  PROVE  OneMore(x, y, z)
  <1> DEFINE b0 == (x + 1) % Bytes
             b1 == IF b0 = 0 THEN (y + 1) % Bytes ELSE y
             b2 == IF b0 = 0 /\ b1 = 0 THEN (z + 1) % Bytes ELSE z
             n == x + Bytes * (y + Bytes * z)
  <1>0. Bytes \in Nat /\ Bytes > 1 /\ x \in Nat /\ y \in Nat /\ z \in Nat
        /\ x < Bytes /\ y < Bytes /\ z < Bytes
    BY CubeFacts
  <1>1. ASSUME NEW d \in 0 .. Bytes - 1
        PROVE  (d + 1) % Bytes = IF d + 1 = Bytes THEN 0 ELSE d + 1
    <2>1. CASE d + 1 = Bytes
      BY <1>0, <2>1
    <2>2. CASE d + 1 # Bytes
      BY <1>0, <2>2
    <2> QED BY <2>1, <2>2
  <1>2. b0 = IF x + 1 = Bytes THEN 0 ELSE x + 1
    BY <1>1
  <1>3. (y + 1) % Bytes = IF y + 1 = Bytes THEN 0 ELSE y + 1
    BY <1>1
  <1>4. (z + 1) % Bytes = IF z + 1 = Bytes THEN 0 ELSE z + 1
    BY <1>1
  <1> DEFINE w == y + Bytes * z
  <1>5. w \in Nat /\ w + 1 <= Bytes * Bytes
    <2>1. (z + 1) * Bytes <= Bytes * Bytes
      BY <1>0, MulMonotone
    <2>2. (z + 1) * Bytes = Bytes * z + Bytes /\ Bytes * z \in Nat
      BY <1>0
    <2> QED BY <1>0, <2>1, <2>2
  <1>6. n \in Nat /\ n + 1 <= Cube
    <2>1. (w + 1) * Bytes <= (Bytes * Bytes) * Bytes
      BY <1>0, <1>5, CubeFacts, MulMonotone
    <2>2. (w + 1) * Bytes = Bytes * w + Bytes /\ Bytes * w \in Nat
      BY <1>0, <1>5
    <2>3. (Bytes * Bytes) * Bytes = Cube
      BY <1>0 DEF Cube
    <2> HIDE DEF w
    <2>4. x + Bytes * w \in Nat /\ x + Bytes * w + 1 <= Cube
      BY <1>0, <2>1, <2>2, <2>3, CubeFacts
    <2> QED BY <2>4 DEF w
  <1>b. n \in 0 .. Cube - 1
    <2> HIDE DEF n
    <2> QED BY <1>6, CubeFacts
  <1>7. CASE x + 1 # Bytes
    <2>1. b0 = x + 1 /\ b1 = y /\ b2 = z /\ b0 # 0
      BY <1>0, <1>2, <1>7
    <2>2. n + 1 # Cube
      <3>1. x + 2 <= Bytes
        BY <1>0, <1>7
      <3>2. (w + 1) * Bytes <= (Bytes * Bytes) * Bytes
        BY <1>0, <1>5, CubeFacts, MulMonotone
      <3>3. (w + 1) * Bytes = Bytes * w + Bytes /\ Bytes * w \in Nat
        BY <1>0, <1>5
      <3>4. (Bytes * Bytes) * Bytes = Cube
        BY <1>0 DEF Cube
      <3>5. n = x + Bytes * w
        OBVIOUS
      <3> HIDE DEF n, w
      <3> QED BY <1>0, <3>1, <3>2, <3>3, <3>4, <3>5, CubeFacts
    <2>3. b0 + Bytes * (b1 + Bytes * b2) = n + 1
      <3> DEFINE q == Bytes * (y + Bytes * z)
      <3>1. q \in Int
        BY <1>0
      <3> HIDE DEF q
      <3>2. (x + 1) + q = x + q + 1
        BY <1>0, <3>1
      <3> QED BY <2>1, <3>2 DEF q
    <2>a. b0 \in 0 .. Bytes - 1 /\ b1 \in 0 .. Bytes - 1 /\ b2 \in 0 .. Bytes - 1
      BY <1>0, <2>1, <1>7
    <2>b. b0 + Bytes * (b1 + Bytes * b2) = IF n + 1 = Cube THEN 0 ELSE n + 1
      BY <2>2, <2>3
    <2> QED BY <1>b, <2>a, <2>b DEF OneMore
  <1>8. CASE x + 1 = Bytes /\ y + 1 # Bytes
    <2>1. b0 = 0 /\ b1 = y + 1 /\ b2 = z /\ b1 # 0
      BY <1>0, <1>2, <1>3, <1>8
    <2>2. n + 1 = Bytes * ((y + 1) + Bytes * z)
      BY <1>0, <1>8
    <2>3. n + 1 # Cube
      <3>1. ASSUME w + 1 = Bytes * Bytes PROVE FALSE
        <4>1. (z + 1) * Bytes <= Bytes * Bytes
          BY <1>0, MulMonotone
        <4>2. (z + 1) * Bytes = Bytes * z + Bytes /\ Bytes * z \in Nat
          BY <1>0
        <4> QED BY <1>0, <1>8, <3>1, <4>1, <4>2
      <3>2. w + 1 < Bytes * Bytes
        BY <1>5, <3>1, CubeFacts
      <3>3. n + 1 = Bytes * (w + 1)
        <4>1. (y + 1) + Bytes * z = w + 1
          BY <1>0
        <4> QED BY <2>2, <4>1
      <3>4. ASSUME NEW a \in Nat, NEW b \in Nat, a < b PROVE Bytes * a # Bytes * b
        BY <1>0, <3>4
      <3> HIDE DEF w, n
      <3> QED BY <1>5, <3>2, <3>3, <3>4, CubeFacts DEF Cube
    <2>4. b0 + Bytes * (b1 + Bytes * b2) = n + 1
      <3>1. Bytes * ((y + 1) + Bytes * z) \in Int
        BY <1>0
      <3> QED BY <2>1, <2>2, <3>1
    <2>a. b0 \in 0 .. Bytes - 1 /\ b1 \in 0 .. Bytes - 1 /\ b2 \in 0 .. Bytes - 1
      BY <1>0, <2>1, <1>8
    <2>b. b0 + Bytes * (b1 + Bytes * b2) = IF n + 1 = Cube THEN 0 ELSE n + 1
      BY <2>3, <2>4
    <2> QED BY <1>b, <2>a, <2>b DEF OneMore
  <1>9. CASE x + 1 = Bytes /\ y + 1 = Bytes
    <2>1. b0 = 0 /\ b1 = 0 /\ b2 = IF z + 1 = Bytes THEN 0 ELSE z + 1
      BY <1>2, <1>3, <1>4, <1>9
    <2>2. n + 1 = Bytes * (Bytes * (z + 1))
      BY <1>0, <1>9
    <2>3. CASE z + 1 = Bytes
      <3>1. n + 1 = Cube
        BY <2>2, <2>3 DEF Cube
      <3>2. b0 + Bytes * (b1 + Bytes * b2) = 0
        BY <1>0, <2>1, <2>3
      <3>a. b0 \in 0 .. Bytes - 1 /\ b1 \in 0 .. Bytes - 1 /\ b2 \in 0 .. Bytes - 1
        BY <1>0, <2>1, <2>3
      <3>b. b0 + Bytes * (b1 + Bytes * b2) = IF n + 1 = Cube THEN 0 ELSE n + 1
        BY <3>1, <3>2
      <3> QED BY <1>b, <3>a, <3>b DEF OneMore
    <2>4. CASE z + 1 # Bytes
      <3>1. b2 = z + 1 /\ z + 1 < Bytes
        BY <1>0, <2>1, <2>4
      <3>2. ASSUME NEW a \in Nat, NEW b \in Nat, a < b PROVE Bytes * a < Bytes * b
        BY <1>0, <3>2
      <3>3. Bytes * (z + 1) < Bytes * Bytes /\ Bytes * (z + 1) \in Nat
        BY <1>0, <3>1, <3>2
      <3>4. Bytes * (Bytes * (z + 1)) < Cube
        BY <3>2, <3>3, CubeFacts DEF Cube
      <3>5. b0 + Bytes * (b1 + Bytes * b2) = Bytes * (Bytes * (z + 1))
        BY <1>0, <2>1, <3>1
      <3>6. n + 1 # Cube
        BY <2>2, <3>4, CubeFacts, <1>6
      <3>a. b0 \in 0 .. Bytes - 1 /\ b1 \in 0 .. Bytes - 1 /\ b2 \in 0 .. Bytes - 1
        BY <1>0, <2>1, <3>1
      <3>b. b0 + Bytes * (b1 + Bytes * b2) = IF n + 1 = Cube THEN 0 ELSE n + 1
        BY <2>2, <3>5, <3>6
      <3> QED BY <1>b, <3>a, <3>b DEF OneMore
    <2> QED BY <2>3, <2>4
  <1> QED BY <1>7, <1>8, <1>9 DEF OneMore

(* What the radio needs to know of a step of the timer.                    *)
Aside(t, r) == r.cspt = t.cspt /\ r.mode = t.mode

Succ(n) == IF n + 1 = Cube THEN 0 ELSE n + 1

(* The overflow counter goes up by one (overflow).                         *)
LEMMA IncrementType ==
  ASSUME NEW t \in MacType
  PROVE  LET i == Increment(t) IN
         /\ i \in MacType /\ i.m = t.m /\ i.elapsed = t.elapsed /\ Aside(t, i)
         /\ Num(i.ovf[Counter]) = Succ(Num(t.ovf[Counter]))
  <1> DEFINE o == t.ovf[Counter]
             b0 == (o[0] + 1) % Bytes
             b1 == IF b0 = 0 THEN (o[1] + 1) % Bytes ELSE o[1]
             b2 == IF b0 = 0 /\ b1 = 0 THEN (o[2] + 1) % Bytes ELSE o[2]
             d == [b \in 0 .. 2 |-> CASE b = 0 -> b0 [] b = 1 -> b1 [] b = 2 -> b2]
             i == Increment(t)
  <1>1. t.ovf \in [0 .. 4 -> Digits] /\ o \in Digits
    BY DEF MacType, Counter
  <1>2. o[0] \in 0 .. Bytes - 1 /\ o[1] \in 0 .. Bytes - 1 /\ o[2] \in 0 .. Bytes - 1
    BY <1>1 DEF Digits
  <1>3. i = [t EXCEPT !.ovf[Counter] = d]
    BY DEF Increment
  <1> HIDE DEF o, i
  <1>4. /\ b0 \in 0 .. Bytes - 1 /\ b1 \in 0 .. Bytes - 1 /\ b2 \in 0 .. Bytes - 1
        /\ b0 + Bytes * (b1 + Bytes * b2) = Succ(o[0] + Bytes * (o[1] + Bytes * o[2]))
    <2>1. OneMore(o[0], o[1], o[2])
      BY <1>2, NumCarries
    <2> QED BY <2>1, Zenon DEF OneMore, Succ
  <1> HIDE DEF b0, b1, b2
  <1>5. d \in Digits /\ d[0] = b0 /\ d[1] = b1 /\ d[2] = b2
    BY <1>4 DEF Digits
  <1> HIDE DEF d
  <1>6. /\ i \in MacType /\ i.m = t.m /\ i.elapsed = t.elapsed
        /\ i.ovf = [t.ovf EXCEPT ![Counter] = d] /\ Aside(t, i)
    BY <1>1, <1>3, <1>5 DEF MacType, Counter, Aside
  <1>7. i.ovf[Counter] = d
    BY <1>1, <1>6 DEF Counter
  <1>8. Num(d) = Succ(Num(o))
    BY <1>4, <1>5 DEF Num
  <1> QED BY <1>6, <1>7, <1>8 DEF i, o

(* Flags and the interrupt do not touch the time.                          *)
LEMMA HappenedType ==
  ASSUME NEW t \in MacType, NEW bit \in Nat
  PROVE  LET h == Happened(t, bit) IN
         h \in MacType /\ h.m = t.m /\ h.ovf = t.ovf /\ h.elapsed = t.elapsed /\ Aside(t, h)
  <1> DEFINE h == Happened(t, bit)
             irc == t.ircon \/ (bit = PeriodEvent /\ bit \in t.irqm)
             irq == t.irqf \cup {bit}
  <1>1. h = [t EXCEPT !.irqf = irq, !.event = TRUE, !.ircon = irc]
    BY DEF Happened
  <1>2. irc \in BOOLEAN
    OBVIOUS
  <1>3. irq \in SUBSET Nat
    BY DEF MacType
  <1> HIDE DEF irc, irq, h
  <1>4. h \in MacType /\ h.m = t.m /\ h.ovf = t.ovf /\ h.elapsed = t.elapsed /\ Aside(t, h)
    BY <1>1, <1>2, <1>3 DEF MacType, Aside
  <1> QED BY <1>4 DEF h

(* An event touches the interrupt flags and lines only.                    *)
LEMMA HappenedIfType ==
  ASSUME NEW t \in MacType, NEW cond, NEW bit \in Nat
  PROVE  LET h == HappenedIf(t, cond, bit) IN
         h \in MacType /\ h.m = t.m /\ h.ovf = t.ovf /\ h.elapsed = t.elapsed /\ Aside(t, h)
  BY HappenedType DEF HappenedIf, Aside

(* The time starts again, or it goes on with one more overflow.            *)
Carried(t, r) ==
  /\ r \in MacType
  /\ \/ r.elapsed = 0 /\ r.ovf[Counter] = Zeros
     \/ r.elapsed = t.elapsed /\ Num(r.ovf[Counter]) = Succ(Num(t.ovf[Counter]))

(* An overflow counts CSPT down.                                           *)
CsptDown(c) == IF c # Bytes - 1 THEN (c - 1) % Bytes ELSE c

(* An overflow carries the number on and counts CSPT down once (overflow). *)
LEMMA OverflowType ==
  ASSUME NEW t \in MacType
  PROVE  /\ Carried(t, mac_overflow(t)) /\ mac_overflow(t).m = t.m
         /\ mac_overflow(t).cspt = CsptDown(t.cspt) /\ mac_overflow(t).mode = t.mode
  <1> DEFINE c == IF t.cspt # Bytes - 1 THEN [t EXCEPT !.cspt = (@ - 1) % Bytes] ELSE t
             i == Increment(c)
             h == Happened(i, OvfPeriodEvent)
             z == [h EXCEPT !.ovf[Counter] = Zeros, !.elapsed = 0]
             p == IF i.ovf[Counter] = i.ovf[Period] THEN z ELSE i
             q == HappenedIf(p, p.ovf[Counter] = p.ovf[Compare1], OvfCompareEvent1)
             r == HappenedIf(q, q.ovf[Counter] = q.ovf[Compare2], OvfCompareEvent2)
  <1>0. mac_overflow(t) = r
    BY DEF mac_overflow
  <1>1. /\ c \in MacType /\ c.m = t.m /\ c.ovf = t.ovf /\ c.elapsed = t.elapsed
        /\ c.cspt = CsptDown(t.cspt) /\ c.mode = t.mode
    <2>1. (t.cspt - 1) % Bytes \in Int
      BY CubeFacts DEF MacType
    <2> QED BY <2>1 DEF MacType, CsptDown
  <1> HIDE DEF c
  <1>2. /\ i \in MacType /\ i.m = t.m /\ i.elapsed = t.elapsed /\ Aside(c, i)
        /\ Num(i.ovf[Counter]) = Succ(Num(t.ovf[Counter]))
    BY <1>1, IncrementType
  <1> HIDE DEF i
  <1>3. h \in MacType /\ h.m = i.m /\ h.ovf = i.ovf /\ h.elapsed = i.elapsed /\ Aside(i, h)
    BY <1>2, HappenedType DEF OvfPeriodEvent
  <1> HIDE DEF h
  <1>4. Zeros \in Digits
    BY CubeFacts DEF Zeros, Digits
  <1>5. z \in MacType /\ z.m = h.m /\ z.elapsed = 0 /\ z.ovf = [h.ovf EXCEPT ![Counter] = Zeros]
        /\ Aside(h, z)
    BY <1>3, <1>4 DEF MacType, Counter, Aside
  <1> HIDE DEF z
  <1>6. z.ovf[Counter] = Zeros
    BY <1>3, <1>5 DEF MacType, Counter
  <1>7. Carried(t, p) /\ p.m = t.m
    BY <1>2, <1>3, <1>5, <1>6 DEF Carried
  <1>p. p.cspt = CsptDown(t.cspt) /\ p.mode = t.mode
    BY <1>1, <1>2, <1>3, <1>5 DEF Aside
  <1> HIDE DEF p
  <1>8. q \in MacType /\ q.m = p.m /\ q.ovf = p.ovf /\ q.elapsed = p.elapsed /\ Aside(p, q)
    BY <1>7, HappenedIfType DEF OvfCompareEvent1, Carried
  <1> HIDE DEF q
  <1>9. r \in MacType /\ r.m = q.m /\ r.ovf = q.ovf /\ r.elapsed = q.elapsed /\ Aside(q, r)
    BY <1>8, HappenedIfType DEF OvfCompareEvent2
  <1> HIDE DEF r
  <1> QED BY <1>0, <1>7, <1>p, <1>8, <1>9 DEF Carried, Aside

(* CountCompare resets the count at the period, and only there.            *)
LEMMA CountCompareType ==
  ASSUME NEW t \in MacType
  PROVE  LET r == CountCompare(t) IN
         IF t.m[Counter] = t.m[Period] /\ t.m[Period] # 0
         THEN /\ Carried(t, r) /\ r.m = [t.m EXCEPT ![Counter] = 0]
              /\ r.cspt = CsptDown(t.cspt) /\ r.mode = t.mode
         ELSE r \in MacType /\ r.m = t.m /\ r.ovf = t.ovf /\ r.elapsed = t.elapsed /\ Aside(t, r)
  <1> DEFINE a == HappenedIf(t, t.m[Counter] = t.m[Compare1], CompareEvent1)
             b == HappenedIf(a, a.m[Counter] = a.m[Compare2], CompareEvent2)
             b2 == [b EXCEPT !.m[Counter] = 0]
             v == mac_overflow(b2)
             w == Happened(v, PeriodEvent)
             p == IF b.m[Counter] = b.m[Period] /\ b.m[Period] # 0 THEN w ELSE b
             o1 == [e \in {1, 2} |-> p.evtcfg[e] \in p.irqf]
             o2 == [e \in {1, 2} |-> FALSE]
             r == CountCompare(t)
  <1>0. r = IF p.event THEN [p EXCEPT !.out = o1] ELSE [p EXCEPT !.irqf = {}, !.out = o2]
    BY DEF CountCompare
  <1>1. a \in MacType /\ a.m = t.m /\ a.ovf = t.ovf /\ a.elapsed = t.elapsed /\ Aside(t, a)
    BY HappenedIfType DEF CompareEvent1
  <1> HIDE DEF a
  <1>2. b \in MacType /\ b.m = t.m /\ b.ovf = t.ovf /\ b.elapsed = t.elapsed /\ Aside(t, b)
    BY <1>1, HappenedIfType DEF CompareEvent2, Aside
  <1> HIDE DEF b
  <1>3. /\ b2 \in MacType /\ b2.m = [t.m EXCEPT ![Counter] = 0]
        /\ b2.ovf = t.ovf /\ b2.elapsed = t.elapsed /\ Aside(t, b2)
    BY <1>2 DEF MacType, Counter, Aside
  <1> HIDE DEF b2
  <1>4. Carried(t, v) /\ v.m = b2.m /\ v.cspt = CsptDown(t.cspt) /\ v.mode = t.mode
    <2>1. Carried(b2, v) /\ v.m = b2.m /\ v.cspt = CsptDown(b2.cspt) /\ v.mode = b2.mode
      BY <1>3, OverflowType
    <2> QED BY <1>3, <2>1 DEF Carried, Aside
  <1> HIDE DEF v
  <1>5. w \in MacType /\ w.m = v.m /\ w.ovf = v.ovf /\ w.elapsed = v.elapsed /\ Aside(v, w)
    BY <1>4, HappenedType DEF PeriodEvent, Carried
  <1> HIDE DEF w
  <1>6. p \in MacType
    BY <1>2, <1>5
  <1>7. r \in MacType /\ r.m = p.m /\ r.ovf = p.ovf /\ r.elapsed = p.elapsed /\ Aside(p, r)
    <2>1. o1 \in [{1, 2} -> BOOLEAN]
      OBVIOUS
    <2>2. o2 \in [{1, 2} -> BOOLEAN] /\ {} \in SUBSET Nat
      OBVIOUS
    <2> HIDE DEF p, o1, o2, r
    <2> QED BY <1>0, <1>6, <2>1, <2>2 DEF MacType, Aside
  <1> HIDE DEF r
  <1>8. CASE t.m[Counter] = t.m[Period] /\ t.m[Period] # 0
    <2>1. p = w
      BY <1>2, <1>8
    <2> QED BY <1>3, <1>4, <1>5, <1>7, <1>8, <2>1 DEF Carried, Aside, r
  <1>9. CASE ~(t.m[Counter] = t.m[Period] /\ t.m[Period] # 0)
    <2>1. p = b
      BY <1>2, <1>9
    <2> QED BY <1>2, <1>7, <1>9, <2>1 DEF Aside, r
  <1> QED BY <1>8, <1>9

(* One more tick, and one more period, as far as the counter holds them.   *)
LEMMA ModStep ==
  ASSUME NEW e \in Nat, NEW z \in Nat \ {0}
  PROVE  (e + 1) % z = IF (e % z) + 1 = z THEN 0 ELSE (e % z) + 1
  <1> DEFINE q == e \div z
             r == e % z
  <1>1. q \in Nat /\ r \in 0 .. z - 1 /\ e = q * z + r
    BY SMTT(30)
  <1> HIDE DEF q, r
  <1>2. CASE r + 1 = z
    <2>1. e + 1 = (q + 1) * z
      BY <1>1, <1>2
    <2>2. ((q + 1) * z) % z = 0
      BY <1>1, SMTT(30)
    <2> QED BY <1>2, <2>1, <2>2 DEF r
  <1>3. CASE r + 1 # z
    <2>1. e + 1 = q * z + (r + 1) /\ r + 1 \in 0 .. z - 1
      BY <1>1, <1>3
    <2>2. \A k \in 0 .. z - 1 : (q * z + k) % z = k
      BY <1>1, SMTT(30)
    <2> QED BY <1>3, <2>1, <2>2 DEF r
  <1> QED BY <1>2, <1>3

(* The last tick of a period: the number of periods goes up.               *)
LEMMA PeriodEnds ==
  ASSUME NEW n \in 0 .. Cube - 1, NEW p \in Nat \ {0}, NEW e \in Nat,
         n * p + (p - 1) = e % (p * Cube)
  PROVE  Succ(n) * p + 0 = (e + 1) % (p * Cube)
  <1>1. Cube \in Nat \ {0} /\ n \in Nat /\ n + 1 <= Cube
    BY CubeFacts
  <1>2. p * Cube \in Nat \ {0}
    BY <1>1
  <1>3. (n + 1) * p = n * p + (p - 1) + 1 /\ (n + 1) * p \in Nat
    BY <1>1
  <1>4. (e + 1) % (p * Cube) = IF (n + 1) * p = p * Cube THEN 0 ELSE (n + 1) * p
    <2> DEFINE a == (n + 1) * p
               b == n * p + (p - 1)
               z == p * Cube
    <2>1. a = b + 1 /\ b = e % z /\ z \in Nat \ {0}
      BY <1>2, <1>3
    <2> HIDE DEF a, b, z
    <2>2. (e + 1) % z = IF a = z THEN 0 ELSE a
      BY <2>1, ModStep
    <2> QED BY <2>2 DEF a, z
  <1>5. CASE n + 1 = Cube
    <2>1. (n + 1) * p = p * Cube
      BY <1>1, <1>5
    <2> QED BY <1>4, <1>5, <2>1 DEF Succ
  <1>6. CASE n + 1 # Cube
    <2>1. (n + 1) * p # p * Cube
      BY <1>1, <1>6
    <2>2. Succ(n) = n + 1
      BY <1>6 DEF Succ
    <2> QED BY <1>3, <1>4, <2>1, <2>2
  <1> QED BY <1>5, <1>6

(* A tick within a period.                                                 *)
LEMMA PeriodGoesOn ==
  ASSUME NEW n \in 0 .. Cube - 1, NEW p \in Nat \ {0}, NEW e \in Nat, NEW k \in 0 .. p - 1,
         n * p + k = e % (p * Cube), k + 1 # p
  PROVE  n * p + (k + 1) = (e + 1) % (p * Cube)
  <1>1. Cube \in Nat \ {0} /\ n \in Nat /\ n + 1 <= Cube
    BY CubeFacts
  <1>2. p * Cube \in Nat \ {0} /\ n * p \in Nat
    BY <1>1
  <1>3. (n + 1) * p <= Cube * p
    BY <1>1, MulMonotone
  <1>4. (n + 1) * p = n * p + p /\ Cube * p = p * Cube
    BY <1>1
  <1> DEFINE a == n * p
             z == p * Cube
  <1> HIDE DEF a, z
  <1>5. a + k + 1 # z
    BY <1>2, <1>3, <1>4 DEF a, z
  <1>6. z \in Nat \ {0} /\ a \in Nat /\ e % z = a + k
    BY <1>2 DEF a, z
  <1>7. (e + 1) % z = a + k + 1
    <2>1. (e + 1) % z = IF (e % z) + 1 = z THEN 0 ELSE (e % z) + 1
      BY <1>6, ModStep
    <2> QED BY <1>5, <1>6, <2>1
  <1> QED BY <1>2, <1>7 DEF a, z

(* Three bytes hold a number below Cube.                                   *)
LEMMA NumBound ==
  ASSUME NEW o \in Digits
  PROVE  Num(o) \in 0 .. Cube - 1
  <1>1. o[0] \in 0 .. Bytes - 1 /\ o[1] \in 0 .. Bytes - 1 /\ o[2] \in 0 .. Bytes - 1
    BY DEF Digits
  <1>2. OneMore(o[0], o[1], o[2])
    BY <1>1, NumCarries
  <1> QED BY <1>2, Zenon DEF OneMore, Num

(* The time of a count: from zero, one tick on, and at the end of a period.*)
LEMMA TimelyZero ==
  ASSUME NEW m \in [0 .. 4 -> Int], m[Counter] = 0
  PROVE  Timely(m, Zeros, 0)
  <1>1. Num(Zeros) = 0
    BY CubeFacts DEF Num, Zeros
  <1>2. CASE m[Period] > 0
    <2> DEFINE p == m[Period]
    <2>1. p \in Nat \ {0}
      BY <1>2 DEF Period
    <2> HIDE DEF p
    <2>2. p * Cube \in Nat \ {0}
      BY <2>1, CubeFacts
    <2>3. 0 % (p * Cube) = 0
      BY <2>2
    <2>4. 0 * p + 0 = 0 /\ 0 \in 0 .. p - 1
      BY <2>1
    <2> QED BY <1>1, <1>2, <2>3, <2>4 DEF Timely, p
  <1> QED BY <1>2 DEF Timely

(* Counting within a period, or without one, keeps the time.               *)
LEMMA TimelyUp ==
  ASSUME NEW m \in [0 .. 4 -> Int], NEW o \in Digits, NEW e \in Nat, Timely(m, o, e),
         ~(m[Counter] + 1 = m[Period] /\ m[Period] # 0)
  PROVE  Timely([m EXCEPT ![Counter] = @ + 1], o, e + 1)
  <1> DEFINE m2 == [m EXCEPT ![Counter] = @ + 1]
             n == Num(o)
             p == m[Period]
             c == m[Counter]
  <1>1. m2[Counter] = c + 1 /\ m2[Period] = p /\ p \in Int /\ c \in Int
    BY DEF Counter, Period
  <1>2. n \in 0 .. Cube - 1
    BY NumBound
  <1>3. /\ p > 0 => c \in 0 .. p - 1 /\ n * p + c = e % (p * Cube)
        /\ ~(p > 0) => c = e
        /\ p # 0 => c + 1 # p
    BY DEF Timely
  <1>4. Timely(m2, o, e + 1) = IF m2[Period] > 0
          THEN m2[Counter] \in 0 .. m2[Period] - 1
               /\ n * m2[Period] + m2[Counter] = (e + 1) % (m2[Period] * Cube)
          ELSE m2[Counter] = e + 1
    BY DEF Timely
  <1> HIDE DEF m2, n, p, c
  <1>5. CASE p > 0
    <2>1. n * p + (c + 1) = (e + 1) % (p * Cube)
      BY <1>1, <1>2, <1>3, <1>5, PeriodGoesOn
    <2>2. c + 1 \in 0 .. p - 1
      BY <1>1, <1>3, <1>5
    <2> QED BY <1>1, <1>4, <1>5, <2>1, <2>2 DEF m2
  <1>6. CASE ~(p > 0)
    <2>1. c + 1 = e + 1
      BY <1>3, <1>6
    <2> QED BY <1>1, <1>4, <1>6, <2>1 DEF m2
  <1> QED BY <1>5, <1>6

(* So does the end of a period, when the overflow counter has gone up by   *)
(* one.                                                                    *)
LEMMA TimelyPeriod ==
  ASSUME NEW m \in [0 .. 4 -> Int], NEW o \in Digits, NEW e \in Nat, Timely(m, o, e),
         m[Counter] + 1 = m[Period], m[Period] # 0,
         NEW k, k = Succ(Num(o)), NEW o2, Num(o2) = k,
         NEW m2, m2[Counter] = 0, m2[Period] = m[Period]
  PROVE  Timely(m2, o2, e + 1)
  <1> DEFINE n == Num(o)
             p == m[Period]
             c == m[Counter]
  <1>1. p \in Int /\ c \in Int /\ n \in 0 .. Cube - 1
    BY NumBound DEF Counter, Period
  <1>2. /\ p > 0 => c \in 0 .. p - 1 /\ n * p + c = e % (p * Cube)
        /\ ~(p > 0) => c = e
        /\ p # 0 /\ c + 1 = p
    BY DEF Timely
  <1>3. Timely(m2, o2, e + 1) = IF m2[Period] > 0
          THEN m2[Counter] \in 0 .. m2[Period] - 1
               /\ Num(o2) * m2[Period] + m2[Counter] = (e + 1) % (m2[Period] * Cube)
          ELSE m2[Counter] = e + 1
    BY DEF Timely
  <1>4. Num(o2) = Succ(n) /\ m2[Counter] = 0 /\ m2[Period] = p
    OBVIOUS
  <1> HIDE DEF n, p, c
  <1>5. p \in Nat \ {0} /\ c = p - 1
    BY <1>1, <1>2
  <1>6. n * p + (p - 1) = e % (p * Cube)
    BY <1>2, <1>5
  <1>7. Succ(n) * p + 0 = (e + 1) % (p * Cube)
    BY <1>1, <1>5, <1>6, PeriodEnds
  <1>8. 0 \in 0 .. p - 1 /\ p > 0
    BY <1>5
  <1> QED BY <1>3, <1>4, <1>7, <1>8

(* One cycle of each mode.                                                 *)
Counted(t, r) ==
  /\ r.m[Period] = t.m[Period] /\ r.mode = t.mode
  /\ IF t.m[Counter] + 1 = t.m[Period] /\ t.m[Period] # 0
     THEN r.m[Counter] = 0 /\ r.cspt = CsptDown(t.cspt)
     ELSE r.cspt = t.cspt

(* One clock of the up mode keeps the time, and CSPT goes down at the end  *)
(* of a period only (do_UpMode).                                           *)
LEMMA UpModeInv ==
  ASSUME NEW t, MacInv(t)
  PROVE  MacInv(do_UpMode(t)) /\ Counted(t, do_UpMode(t))
  <1> DEFINE u == [Quiet(t) EXCEPT !.m[Counter] = @ + 1,
                                   !.elapsed = IF @ = NotKnown THEN @ ELSE @ + 1]
             r == CountCompare(u)
  <1>0. do_UpMode(t) = r
    BY DEF do_UpMode
  <1>1. t \in MacType /\ t.m[Period] < Bytes * Bytes
    BY DEF MacInv
  <1>2. /\ u \in MacType /\ u.m = [t.m EXCEPT ![Counter] = @ + 1] /\ u.ovf = t.ovf
        /\ u.elapsed = IF t.elapsed = NotKnown THEN NotKnown ELSE t.elapsed + 1
        /\ Aside(t, u)
    <2> DEFINE m2 == [t.m EXCEPT ![Counter] = @ + 1]
               e2 == IF t.elapsed = NotKnown THEN NotKnown ELSE t.elapsed + 1
    <2>1. m2 \in [0 .. 4 -> Int]
      BY <1>1 DEF MacType, Counter
    <2>2. e2 \in Nat \cup {NotKnown}
      BY <1>1 DEF MacType, NotKnown
    <2>3. u = [t EXCEPT !.event = FALSE, !.m = m2, !.elapsed = e2]
      BY <1>1 DEF MacType, Quiet, Counter
    <2> HIDE DEF m2, e2, u
    <2>4. u \in MacType /\ u.m = m2 /\ u.ovf = t.ovf /\ u.elapsed = e2 /\ Aside(t, u)
      BY <1>1, <2>1, <2>2, <2>3 DEF MacType, Aside
    <2> QED BY <2>4 DEF m2, e2
  <1> HIDE DEF u
  <1>3. /\ t.m \in [0 .. 4 -> Int] /\ t.ovf[Counter] \in Digits
        /\ t.elapsed \in Nat \cup {NotKnown} /\ u.m[Counter] = t.m[Counter] + 1
        /\ u.m[Period] = t.m[Period] /\ u.m \in [0 .. 4 -> Int]
    BY <1>1, <1>2 DEF MacType, Counter, Period
  <1>4. t.elapsed # NotKnown => t.elapsed \in Nat /\ Timely(t.m, t.ovf[Counter], t.elapsed)
    BY <1>3 DEF MacInv
  <1>5. CASE t.m[Counter] + 1 = t.m[Period] /\ t.m[Period] # 0
    <2>1. /\ Carried(u, r) /\ r.m = [u.m EXCEPT ![Counter] = 0]
          /\ r.cspt = CsptDown(u.cspt) /\ r.mode = u.mode
      BY <1>2, <1>3, <1>5, CountCompareType
    <2> HIDE DEF r
    <2>2. r.m[Counter] = 0 /\ r.m[Period] = t.m[Period] /\ r.m \in [0 .. 4 -> Int] /\ r \in MacType
      BY <1>3, <2>1 DEF Counter, Period, Carried
    <2>c. Counted(t, r)
      BY <1>2, <1>5, <2>1, <2>2 DEF Counted, Aside
    <2>3. CASE r.elapsed = 0 /\ r.ovf[Counter] = Zeros
      BY <1>0, <1>1, <2>2, <2>c, <2>3, TimelyZero DEF MacInv
    <2>4. CASE r.elapsed = u.elapsed /\ Num(r.ovf[Counter]) = Succ(Num(u.ovf[Counter]))
      <3>1. ASSUME r.elapsed # NotKnown
            PROVE  Timely(r.m, r.ovf[Counter], r.elapsed)
        <4>1. t.elapsed # NotKnown /\ r.elapsed = t.elapsed + 1
          BY <1>2, <2>4, <3>1
        <4>2. Timely(r.m, r.ovf[Counter], t.elapsed + 1)
          BY <1>2, <1>3, <1>4, <1>5, <2>2, <2>4, <4>1, TimelyPeriod
        <4> QED BY <4>1, <4>2
      <3> QED BY <1>0, <1>1, <2>2, <2>c, <3>1 DEF MacInv
    <2> QED BY <2>1, <2>3, <2>4 DEF Carried
  <1>6. CASE ~(t.m[Counter] + 1 = t.m[Period] /\ t.m[Period] # 0)
    <2>1. r \in MacType /\ r.m = u.m /\ r.ovf = u.ovf /\ r.elapsed = u.elapsed /\ Aside(u, r)
      BY <1>2, <1>3, <1>6, CountCompareType
    <2> HIDE DEF r
    <2>c. Counted(t, r)
      BY <1>2, <1>3, <1>6, <2>1 DEF Counted, Aside
    <2>2. ASSUME r.elapsed # NotKnown
          PROVE  Timely(r.m, r.ovf[Counter], r.elapsed)
      <3>1. t.elapsed # NotKnown /\ r.elapsed = t.elapsed + 1
        BY <1>2, <2>1, <2>2
      <3>2. Timely([t.m EXCEPT ![Counter] = @ + 1], t.ovf[Counter], t.elapsed + 1)
        BY <1>3, <1>4, <1>6, <3>1, TimelyUp
      <3> QED BY <1>2, <2>1, <3>1, <3>2
    <2> QED BY <1>0, <1>1, <1>3, <2>1, <2>c, <2>2 DEF MacInv
  <1> QED BY <1>5, <1>6

(* The delta mode keeps what is said of the registers (do_DeltaMode).      *)
LEMMA DeltaModeInv ==
  ASSUME NEW t, MacInv(t)
  PROVE  MacInv(do_DeltaMode(t))
  <1> DEFINE u == [Quiet(t) EXCEPT !.elapsed = NotKnown]
             d == IF u.m[Counter] = 0 THEN [u EXCEPT !.mode = 0]
                  ELSE [u EXCEPT !.m[Counter] = @ - 1]
             r == CountCompare(d)
  <1>0. do_DeltaMode(t) = r
    BY DEF do_DeltaMode
  <1>1. t \in MacType /\ t.m[Period] < Bytes * Bytes
    BY DEF MacInv
  <1>2. u \in MacType /\ u.m = t.m /\ u.elapsed = NotKnown
    BY <1>1 DEF MacType, Quiet, NotKnown
  <1> HIDE DEF u
  <1>3. d \in MacType /\ d.m[Period] = t.m[Period] /\ d.elapsed = NotKnown
    BY <1>2 DEF MacType, Counter, Period
  <1> HIDE DEF d
  <1>4. d.m \in [0 .. 4 -> Int]
    BY <1>3 DEF MacType
  <1>5. CASE d.m[Counter] = d.m[Period] /\ d.m[Period] # 0
    <2>1. Carried(d, r) /\ r.m = [d.m EXCEPT ![Counter] = 0]
      BY <1>3, <1>5, CountCompareType
    <2> HIDE DEF r
    <2>2. r.m[Counter] = 0 /\ r.m[Period] = t.m[Period] /\ r.m \in [0 .. 4 -> Int] /\ r \in MacType
      BY <1>3, <1>4, <2>1 DEF Counter, Period, Carried
    <2>3. CASE r.elapsed = 0 /\ r.ovf[Counter] = Zeros
      BY <1>0, <1>1, <2>2, <2>3, TimelyZero DEF MacInv
    <2>4. CASE r.elapsed = NotKnown
      BY <1>0, <1>1, <2>2, <2>4 DEF MacInv
    <2> QED BY <1>3, <2>1, <2>3, <2>4 DEF Carried
  <1>6. CASE ~(d.m[Counter] = d.m[Period] /\ d.m[Period] # 0)
    <2>1. r \in MacType /\ r.m = d.m /\ r.ovf = d.ovf /\ r.elapsed = d.elapsed
      BY <1>3, <1>6, CountCompareType
    <2> HIDE DEF r
    <2> QED BY <1>0, <1>1, <1>3, <2>1 DEF MacInv
  <1> QED BY <1>5, <1>6

(* A tick of one or two cycles, the mode looked at once.                   *)
Cycle(t, x) == IF t.mode = 0 THEN do_UpMode(x) ELSE do_DeltaMode(x)

(* A tick is one or two clocks.                                            *)
LEMMA TickIs ==
  ASSUME NEW t, NEW n \in {1, 2}
  PROVE  mac_tick(t, n) = IF n = 1 THEN Cycle(t, t) ELSE Cycle(t, Cycle(t, t))
  <1> DEFINE St(x) == Cycle(t, x)
             Is(f) == f = [k \in 0 .. n |-> IF k = 0 THEN t ELSE St(f[k - 1])]
             val(k) == IF k = 0 THEN t ELSE IF k = 1 THEN St(t) ELSE St(St(t))
             f0 == [k \in 0 .. n |-> val(k)]
             f1 == CHOOSE f : Is(f)
  <1>1. mac_tick(t, n) = f1[n]
    BY DEF mac_tick, Cycle
  <1> HIDE DEF St
  <1>3. Is(f0)
    <2>1. \A k \in 0 .. n : val(k) = IF k = 0 THEN t ELSE St(f0[k - 1])
      <3> SUFFICES ASSUME NEW k \in 0 .. n
                   PROVE  val(k) = IF k = 0 THEN t ELSE St(f0[k - 1])
        OBVIOUS
      <3>1. CASE k = 0
        BY <3>1
      <3>2. CASE k = 1
        <4>1. f0[0] = t
          OBVIOUS
        <4> QED BY <3>2, <4>1
      <3>3. CASE k = 2
        <4>1. f0[1] = St(t)
          OBVIOUS
        <4> QED BY <3>3, <4>1
      <3> QED BY <3>1, <3>2, <3>3
    <2> QED BY <2>1, Zenon
  <1>4. Is(f1)
    BY <1>3, Zenon
  <1> HIDE DEF f1
  <1>5. f1[0] = t /\ f1[1] = St(f1[0]) /\ (n = 2 => f1[2] = St(f1[1]))
    BY <1>4
  <1> QED BY <1>1, <1>5 DEF St

(* A tick of the MAC timer preserves the invariant (tick).                 *)
LEMMA TickInv ==
  ASSUME NEW t, MacInv(t), NEW n \in {1, 2}
  PROVE  MacInv(mac_tick(t, n))
  <1>1. ASSUME NEW x, MacInv(x) PROVE MacInv(Cycle(t, x))
    BY <1>1, UpModeInv, DeltaModeInv DEF Cycle
  <1>2. MacInv(Cycle(t, t)) /\ MacInv(Cycle(t, Cycle(t, t)))
    BY <1>1
  <1> QED BY <1>2, TickIs

(* The writes: to the count, its window and the bytes of the overflow      *)
(* counter the time is not known any more, the others leave it alone.      *)
LEMMA WriteCountInv ==
  ASSUME NEW t, MacInv(t), NEW v \in 0 .. Bytes - 1
  PROVE  MacInv(mac_write_m0(t, v)) /\ MacInv(mac_write_m1(t, v))
  <1>1. /\ t \in MacType /\ t.m[Period] < Bytes * Bytes /\ t.m \in [0 .. 4 -> Int]
        /\ t.t2msel \in Nat /\ t.t2m0 \in 0 .. Bytes - 1
    BY DEF MacInv, MacType
  <1>2. ASSUME NEW x \in Int, x < Bytes * Bytes, NEW r \in MacType, t.t2msel <= 4,
               r.m = [t.m EXCEPT ![t.t2msel] = x], r.elapsed = NotKnown
        PROVE  MacInv(r)
    <2>1. r.m[Period] < Bytes * Bytes
      BY <1>1, <1>2 DEF Period
    <2> QED BY <1>2, <2>1 DEF MacInv
  <1>3. ASSUME NEW r \in MacType, r.m = t.m, r.elapsed = NotKnown
        PROVE  MacInv(r)
    BY <1>1, <1>3 DEF MacInv
  <1>4. MacInv(mac_write_m0(t, v))
    <2> DEFINE u == [Forget(t) EXCEPT !.t2m0 = v]
               w == [u EXCEPT !.m[t.t2msel] = v]
    <2>1. u \in MacType /\ u.m = t.m /\ u.elapsed = NotKnown
      BY <1>1 DEF MacType, Forget, NotKnown
    <2> HIDE DEF u
    <2>2. CASE t.t2msel > 4
      BY <1>3, <2>1, <2>2 DEF mac_write_m0, u
    <2>3. CASE ~(t.t2msel > 4)
      <3>1. t.t2msel \in 0 .. 4 /\ v \in Int /\ v < Bytes * Bytes
        BY <1>1, <2>3, CubeFacts
      <3>2. w \in MacType /\ w.m = [t.m EXCEPT ![t.t2msel] = v] /\ w.elapsed = NotKnown
        BY <2>1, <3>1 DEF MacType
      <3> HIDE DEF w
      <3>3. MacInv(w)
        BY <1>2, <3>1, <3>2
      <3> QED BY <2>3, <3>3 DEF mac_write_m0, u, w
    <2> QED BY <2>2, <2>3
  <1>5. MacInv(mac_write_m1(t, v))
    <2> DEFINE n == v * Bytes + t.t2m0
               u == Forget(t)
               w == [u EXCEPT !.m[t.t2msel] = ToShort(n)]
               md == IF t.run THEN 1 ELSE t.mode
               x == [u EXCEPT !.m[Counter] = n, !.mode = md]
    <2>1. u \in MacType /\ u.m = t.m /\ u.elapsed = NotKnown /\ u.mode = t.mode
      BY <1>1 DEF MacType, Forget, NotKnown
    <2>2. n \in Nat /\ n < Bytes * Bytes
      <3>1. (v + 1) * Bytes <= Bytes * Bytes
        BY CubeFacts, MulMonotone
      <3>2. (v + 1) * Bytes = v * Bytes + Bytes /\ v * Bytes \in Nat
        BY CubeFacts
      <3> QED BY <1>1, <3>1, <3>2, CubeFacts
    <2>3. mac_write_m1(t, v) = IF t.t2msel > 4 THEN u ELSE IF t.t2msel # Counter THEN w ELSE x
      BY <2>1 DEF mac_write_m1
    <2> HIDE DEF n, u
    <2>4. ToShort(n) \in Int /\ ToShort(n) < Bytes * Bytes
      <3> DEFINE sq == Bytes * Bytes
      <3>1. sq \in Nat /\ n < sq /\ ToShort(n) = IF n >= sq \div 2 THEN n - sq ELSE n
        BY <2>2, CubeFacts DEF ToShort
      <3> HIDE DEF sq
      <3>2. ToShort(n) \in Int /\ ToShort(n) < sq
        BY <2>2, <3>1
      <3> QED BY <3>2 DEF sq
    <2>5. CASE t.t2msel > 4
      BY <1>3, <2>1, <2>3, <2>5
    <2>6. CASE ~(t.t2msel > 4) /\ t.t2msel # Counter
      <3>1. t.t2msel \in 0 .. 4
        BY <1>1, <2>6
      <3>2. w \in MacType /\ w.m = [t.m EXCEPT ![t.t2msel] = ToShort(n)] /\ w.elapsed = NotKnown
        BY <2>1, <2>4, <3>1 DEF MacType
      <3> HIDE DEF w
      <3> QED BY <1>2, <2>3, <2>4, <2>6, <3>1, <3>2
    <2>7. CASE ~(t.t2msel > 4) /\ t.t2msel = Counter
      <3>1. md \in {0, 1}
        BY <1>1 DEF MacType
      <3> HIDE DEF md
      <3>2. x \in MacType /\ x.m = [t.m EXCEPT ![t.t2msel] = n] /\ x.elapsed = NotKnown
        <4> DEFINE m2 == [t.m EXCEPT ![Counter] = n]
        <4>1. m2 \in [0 .. 4 -> Int]
          BY <1>1, <2>2 DEF Counter
        <4>2. x = [u EXCEPT !.m = m2, !.mode = md]
          BY <2>1 DEF MacType, Counter
        <4> HIDE DEF x, m2
        <4>3. x \in MacType /\ x.m = m2 /\ x.elapsed = NotKnown
          BY <2>1, <3>1, <4>1, <4>2 DEF MacType
        <4> QED BY <2>7, <4>3 DEF m2
      <3> HIDE DEF x
      <3>3. n \in Int /\ t.t2msel <= 4
        BY <2>2, <2>7 DEF Counter
      <3> QED BY <1>2, <2>2, <2>3, <2>7, <3>2, <3>3
    <2> QED BY <2>5, <2>6, <2>7
  <1> QED BY <1>4, <1>5

(* A write through the overflow window makes the time unknown, unless no   *)
(* register is behind it (write of T2MOVF0..2).                            *)
LEMMA WriteOverflowInv ==
  ASSUME NEW t, MacInv(t), NEW b \in 0 .. 2, NEW v \in 0 .. Bytes - 1
  PROVE  MacInv(mac_write_movf(t, b, v))
  <1>1. t \in MacType /\ t.m[Period] < Bytes * Bytes /\ t.t2movfsel \in Nat
    BY DEF MacInv, MacType
  <1>2. CASE t.t2movfsel > 4
    BY <1>2 DEF mac_write_movf
  <1>3. CASE ~(t.t2movfsel > 4)
    <2> DEFINE o2 == [t.ovf EXCEPT ![t.t2movfsel][b] = v]
               w == [Forget(t) EXCEPT !.ovf[t.t2movfsel][b] = v]
    <2>1. t.t2movfsel \in 0 .. 4 /\ t.ovf \in [0 .. 4 -> Digits]
      BY <1>1, <1>3 DEF MacType
    <2>2. o2 \in [0 .. 4 -> Digits]
      BY <2>1 DEF Digits
    <2>3. w = [t EXCEPT !.elapsed = NotKnown, !.ovf = o2]
      BY <1>1 DEF MacType, Forget
    <2> HIDE DEF o2, w
    <2>4. w \in MacType /\ w.m = t.m /\ w.elapsed = NotKnown
      BY <1>1, <2>2, <2>3 DEF MacType, NotKnown
    <2> QED BY <1>1, <1>3, <2>4 DEF mac_write_movf, w, MacInv
  <1> QED BY <1>2, <1>3

MacWriteRest ==
  \/ \E on \in BOOLEAN : mt' = mac_write_ctrl(mt, on)
  \/ \E r \in {Counter, Period, Compare1, Compare2, 7} : mt' = mac_write_msel(mt, r, r)
  \/ mt' = [mt EXCEPT !.irqm = {PeriodEvent, OvfPeriodEvent}]
  \/ mt' = [mt EXCEPT !.ircon = FALSE]
  \/ \E e \in {1, 2} : mt' = [mt EXCEPT !.evtcfg[e] = OvfCompareEvent1]
  \/ \E v \in {0, 2} : mt' = [mt EXCEPT !.cspt = v]

(* Every register write of the program preserves the invariant.            *)
LEMMA MacWriteInv ==
  ASSUME MacInv(mt), MacWrite
  PROVE  MacInv(mt')
  <1>1. CASE \E v \in 0 .. Bytes - 1 : mt' = mac_write_m0(mt, v) \/ mt' = mac_write_m1(mt, v)
    BY <1>1, WriteCountInv
  <1>2. CASE \E b \in 0 .. 2, v \in {1, Bytes - 1} : mt' = mac_write_movf(mt, b, v)
    <2>1. {1, Bytes - 1} \subseteq 0 .. Bytes - 1
      BY CubeFacts
    <2> QED BY <1>2, <2>1, WriteOverflowInv
  <1>3. CASE MacWriteRest
    <2>1. mt \in MacType
      BY DEF MacInv
    <2>2. mt' \in MacType /\ mt'.m = mt.m /\ mt'.ovf = mt.ovf /\ mt'.elapsed = mt.elapsed
      <3>1. CASE \E on \in BOOLEAN : mt' = mac_write_ctrl(mt, on)
        BY <2>1, <3>1 DEF mac_write_ctrl, MacType
      <3>2. CASE \E r \in {Counter, Period, Compare1, Compare2, 7} : mt' = mac_write_msel(mt, r, r)
        <4>1. PICK r \in Nat : mt' = mac_write_msel(mt, r, r)
          BY <3>2 DEF Counter, Period, Compare1, Compare2
        <4> QED BY <2>1, <4>1 DEF mac_write_msel, MacType
      <3>3. CASE mt' = [mt EXCEPT !.irqm = {PeriodEvent, OvfPeriodEvent}]
        <4>1. {PeriodEvent, OvfPeriodEvent} \in SUBSET Nat
          BY DEF PeriodEvent, OvfPeriodEvent
        <4> QED BY <2>1, <3>3, <4>1 DEF MacType
      <3>4. CASE mt' = [mt EXCEPT !.ircon = FALSE]
        BY <2>1, <3>4 DEF MacType
      <3>5. CASE \E e \in {1, 2} : mt' = [mt EXCEPT !.evtcfg[e] = OvfCompareEvent1]
        BY <2>1, <3>5 DEF MacType, OvfCompareEvent1
      <3>6. CASE \E v \in {0, 2} : mt' = [mt EXCEPT !.cspt = v]
        BY <2>1, <3>6 DEF MacType
      <3> QED BY <1>3, <3>1, <3>2, <3>3, <3>4, <3>5, <3>6 DEF MacWriteRest
    <2> QED BY <2>2 DEF MacInv
  <1> QED BY <1>1, <1>2, <1>3 DEF MacWrite, MacWriteRest

(* The registers after reset satisfy the invariant, whatever CSPT is.      *)
LEMMA MacResetInv ==
  ASSUME NEW c \in Int
  PROVE  MacInv(mac_reset(c))
  <1> DEFINE r == mac_reset(c)
  <1>1. Zeros \in Digits
    BY CubeFacts DEF Zeros, Digits
  <1>2. r \in MacType /\ r.elapsed = 0 /\ r.m \in [0 .. 4 -> Int] /\ r.m[Counter] = 0
        /\ r.m[Period] = 0 /\ r.ovf[Counter] = Zeros
    BY <1>1, CubeFacts DEF mac_reset, MacType, Counter, Period
  <1> HIDE DEF r
  <1>3. 0 < Bytes * Bytes
    BY CubeFacts
  <1> QED BY <1>2, <1>3, TimelyZero DEF MacInv, r

(* Every step of the MAC timer preserves the invariant.                    *)
LEMMA MacStep == MacInv(mt) /\ [MacNext]_mt => MacInv(mt)'
  <1> SUFFICES ASSUME MacInv(mt), [MacNext]_mt
               PROVE  MacInv(mt')
    OBVIOUS
  <1>1. CASE MacTick
    BY <1>1, TickInv DEF MacTick
  <1>2. CASE MacWrite
    BY <1>2, MacWriteInv
  <1>3. CASE MacSync
    <2>1. mt \in MacType /\ mt.m[Period] < Bytes * Bytes
      BY DEF MacInv
    <2>2. /\ mt' \in MacType /\ mt'.m = mt.m /\ mt'.ovf = mt.ovf /\ mt'.elapsed = 0
          /\ mt.m[Counter] = 0 /\ mt.ovf[Counter] = Zeros /\ mt.m \in [0 .. 4 -> Int]
      BY <1>3, <2>1 DEF MacSync, MacType
    <2> QED BY <2>1, <2>2, TimelyZero DEF MacInv
  <1>4. CASE MacReset
    <2>1. mt.cspt \in Int
      BY DEF MacInv, MacType
    <2> QED BY <1>4, <2>1, MacResetInv DEF MacReset
  <1>5. CASE UNCHANGED mt
    BY <1>5
  <1> QED BY <1>1, <1>2, <1>3, <1>4, <1>5 DEF MacNext

(* No tick is lost between the count of the MAC timer and its overflow     *)
(* counter, whatever the modes, the windows and the writes: the count goes *)
(* back to zero exactly when the three bytes of the overflow counter go up *)
(* (CountCompare, overflow, read).                                         *)
THEOREM MacTimeKeptAlways == MacInit /\ [][MacNext]_mt => []MacTimeKept
  <1>1. MacInit => MacInv(mt)
    BY CubeFacts, MacResetInv DEF MacInit
  <1>2. MacInv(mt) => MacTimeKept
    <2> SUFFICES ASSUME MacInv(mt), mt.elapsed # NotKnown, mt.t2msel = Counter,
                        mt.t2movfsel = Counter
                 PROVE  IF mt.m[Period] > 0
                        THEN (mac_read_movf(mt) * mt.m[Period]) + mac_read_m(mt)
                               = mt.elapsed % (mt.m[Period] * Bytes * Bytes * Bytes)
                        ELSE mt.m[Counter] = mt.elapsed
      BY DEF MacTimeKept
    <2> DEFINE p == mt.m[Period]
               c == mt.m[Counter]
               n == Num(mt.ovf[Counter])
               e == mt.elapsed
    <2>1. p \in Int /\ p < Bytes * Bytes
      BY DEF MacInv, MacType, Period
    <2>2. IF p > 0 THEN c \in 0 .. p - 1 /\ n * p + c = e % (p * Cube) ELSE c = e
      BY DEF MacInv, Timely
    <2>3. mac_read_movf(mt) = n /\ mac_read_m(mt) = c % (Bytes * Bytes)
      BY DEF mac_read_movf, mac_read_m, Num
    <2> HIDE DEF p, c, n, e
    <2>4. CASE p > 0
      <3>1. p * Bytes * Bytes * Bytes = p * Cube
        <4>1. ASSUME NEW b \in Int, NEW q \in Int PROVE q * b * b * b = q * (b * (b * b))
          <5> DEFINE sq == b * b
                     a == q * b
          <5>1. sq \in Int /\ a \in Int
            OBVIOUS
          <5>2. a * b * b = a * sq
            <6> HIDE DEF a
            <6> QED BY <5>1
          <5>3. a * sq = q * (b * sq)
            <6> HIDE DEF sq
            <6> QED BY <5>1
          <5> QED BY <5>2, <5>3
        <4> QED BY <2>1, <4>1, CubeFacts DEF Cube
      <3>2. c % (Bytes * Bytes) = c
        <4> DEFINE sq == Bytes * Bytes
        <4>1. sq \in Nat /\ p < sq
          BY <2>1, CubeFacts
        <4> HIDE DEF sq
        <4>2. c % sq = c
          BY <2>1, <2>2, <2>4, <4>1
        <4> QED BY <4>2 DEF sq
      <3>3. (mac_read_movf(mt) * p) + mac_read_m(mt) = e % (p * Bytes * Bytes * Bytes)
        BY <2>2, <2>3, <2>4, <3>1, <3>2
      <3> QED BY <2>4, <3>3 DEF p, e
    <2>5. CASE ~(p > 0)
      BY <2>2, <2>5 DEF p, c, e
    <2> QED BY <2>4, <2>5
  <1> QED BY <1>1, <1>2, MacStep, PTL
-----------------------------------------------------------------------------
(* The strobe processor and the radio, with the MAC timer.                 *)

IrqBits == {"CSP_STOP", "CSP_WAIT", "CSP_MANINT", "STROBEERR", "RFIDLE", "SFD", "TXACKDONE"}

FsmStates ==
  Reception \cup {"TX_CALIBRATION", "TX", "TX_FINAL", "TX_RX_TRANSIT", "ACK_CALIBRATION", "ACK",
                  "ACK_DELAY", "TX_UNDERFLOW", "TX_SHUTDOWN"}

CspType ==
  [PC : Nat, PCwrite : -1 .. ProgLen - 1, label : Nat, csp_stop : BOOLEAN,
   X : Int, Y : Int, Z : Int, WaitX : BOOLEAN, WaitW : BOOLEAN, waitWend : BOOLEAN,
   OVFcountdown : BOOLEAN, STXON : BOOLEAN, SRXON : BOOLEAN, SFLUSHRX : BOOLEAN,
   SFLUSHTX : BOOLEAN, pendingBit : BOOLEAN, waiting : BOOLEAN, radioAnswer : BOOLEAN,
   prog : [0 .. ProgLen - 1 -> Instructions]]

FsmType ==
  [state : FsmStates, TX_ACTIVE : BOOLEAN, RX_ACTIVE : BOOLEAN, Timer : {0, Infinite},
   Timeout : BOOLEAN, rxEnable : BOOLEAN, RxWhenTx : BOOLEAN, sfd : BOOLEAN, cancelACK : BOOLEAN]

RadioType ==
  [f : FsmType, c : CspType, irqm : SUBSET IrqBits, irqf : SUBSET IrqBits, rfif : BOOLEAN,
   dead : BOOLEAN, armed : BOOLEAN, halted : BOOLEAN]

(* An instruction does not touch the state machine, and does not forget    *)
(* that the processor stopped.                                             *)
Kept(r, e) ==
  e \in RadioType /\ e.f = r.f /\ e.armed = r.armed /\ (r.halted => e.halted)

(* Two effects of this kind are one.                                       *)
LEMMA KeptTwice ==
  ASSUME NEW r, NEW e, NEW g, Kept(r, e), Kept(e, g)
  PROVE  Kept(r, g)
  BY DEF Kept

(* A change of the strobe processor's own registers is such an effect.     *)
LEMMA CspUpdate ==
  ASSUME NEW r \in RadioType, NEW c2 \in CspType
  PROVE  Kept(r, [r EXCEPT !.c = c2])
  BY DEF Kept, RadioType

(* Raising an interrupt flag leaves both machines alone.                   *)
LEMMA RaiseKept ==
  ASSUME NEW r \in RadioType, NEW bit \in IrqBits
  PROVE  Kept(r, Raise(r, bit)) /\ Raise(r, bit).c = r.c /\ Raise(r, bit).halted = r.halted
  BY DEF Kept, RadioType, Raise

(* The next instruction.                                                   *)
LEMMA StepKept ==
  ASSUME NEW r \in RadioType
  PROVE  Kept(r, Step1(r))
  <1>1. [r.c EXCEPT !.PC = @ + 1] \in CspType
    BY DEF RadioType, CspType
  <1>2. Step1(r) = [r EXCEPT !.c = [r.c EXCEPT !.PC = @ + 1]]
    BY DEF Step1, RadioType
  <1> QED BY <1>1, <1>2, CspUpdate

(* The stop interrupt halts the processor (IRQ_CSP_STOP).                  *)
LEMMA StopKept ==
  ASSUME NEW r \in RadioType
  PROVE  Kept(r, IRQ_CSP_STOP(r)) /\ IRQ_CSP_STOP(r).halted
  <1> DEFINE e == Raise(r, "CSP_STOP")
             c2 == [e.c EXCEPT !.csp_stop = TRUE]
             g == IRQ_CSP_STOP(r)
  <1>1. Kept(r, e) /\ e \in RadioType
    <2>1. "CSP_STOP" \in IrqBits
      BY DEF IrqBits
    <2>2. Kept(r, e)
      BY <2>1, RaiseKept
    <2> QED BY <2>2 DEF Kept
  <1> HIDE DEF e
  <1>2. c2 \in CspType
    <2>1. e.c \in CspType
      BY <1>1 DEF RadioType
    <2> QED BY <2>1 DEF CspType
  <1>3. g = [e EXCEPT !.c = c2, !.halted = TRUE]
    BY <1>1 DEF RadioType, IRQ_CSP_STOP, e
  <1> HIDE DEF c2, g
  <1>4. g \in RadioType /\ g.f = e.f /\ g.armed = e.armed /\ g.halted = TRUE
    BY <1>1, <1>2, <1>3 DEF RadioType
  <1> QED BY <1>1, <1>4 DEF Kept, g

(* The fields of the processor that instructions set.                      *)
LEMMA CountersKept ==
  ASSUME NEW r \in RadioType, NEW v \in Int
  PROVE  /\ Kept(r, [r EXCEPT !.c.X = v])
         /\ Kept(r, [r EXCEPT !.c.Y = v])
         /\ Kept(r, [r EXCEPT !.c.Z = v])
  <1>1. r.c \in CspType
    BY DEF RadioType
  <1>a. Kept(r, [r EXCEPT !.c.X = v])
    <2> DEFINE c2 == [r.c EXCEPT !.X = v]
    <2>1. c2 \in CspType
      BY <1>1 DEF CspType
    <2>2. Kept(r, [r EXCEPT !.c = c2])
      BY <2>1, CspUpdate
    <2> QED BY <2>2
  <1>b. Kept(r, [r EXCEPT !.c.Y = v])
    <2> DEFINE c2 == [r.c EXCEPT !.Y = v]
    <2>1. c2 \in CspType
      BY <1>1 DEF CspType
    <2>2. Kept(r, [r EXCEPT !.c = c2])
      BY <2>1, CspUpdate
    <2> QED BY <2>2
  <1>c. Kept(r, [r EXCEPT !.c.Z = v])
    <2> DEFINE c2 == [r.c EXCEPT !.Z = v]
    <2>1. c2 \in CspType
      BY <1>1 DEF CspType
    <2>2. Kept(r, [r EXCEPT !.c = c2])
      BY <2>1, CspUpdate
    <2> QED BY <2>2
  <1> QED BY <1>a, <1>b, <1>c

(* Jumps and labels.                                                       *)
LEMMA PlacesKept ==
  ASSUME NEW r \in RadioType, NEW k \in Nat
  PROVE  /\ Kept(r, [r EXCEPT !.c.PC = k])
         /\ Kept(r, [r EXCEPT !.c.label = k])
  <1>1. r.c \in CspType
    BY DEF RadioType
  <1>a. Kept(r, [r EXCEPT !.c.PC = k])
    <2> DEFINE c2 == [r.c EXCEPT !.PC = k]
    <2>1. c2 \in CspType
      BY <1>1 DEF CspType
    <2>2. Kept(r, [r EXCEPT !.c = c2])
      BY <2>1, CspUpdate
    <2> QED BY <2>2
  <1>b. Kept(r, [r EXCEPT !.c.label = k])
    <2> DEFINE c2 == [r.c EXCEPT !.label = k]
    <2>1. c2 \in CspType
      BY <1>1 DEF CspType
    <2>2. Kept(r, [r EXCEPT !.c = c2])
      BY <2>1, CspUpdate
    <2> QED BY <2>2
  <1> QED BY <1>a, <1>b

(* Strobes and waits: each sets a flag of the processor.                   *)
LEMMA FlagsKept ==
  ASSUME NEW r \in RadioType, NEW b \in BOOLEAN
  PROVE  /\ Kept(r, [r EXCEPT !.c.STXON = b])
         /\ Kept(r, [r EXCEPT !.c.SRXON = b])
         /\ Kept(r, [r EXCEPT !.c.SFLUSHRX = b])
         /\ Kept(r, [r EXCEPT !.c.SFLUSHTX = b])
         /\ Kept(r, [r EXCEPT !.c.WaitX = b])
         /\ Kept(r, [r EXCEPT !.c.WaitW = b])
         /\ Kept(r, [r EXCEPT !.c.waitWend = b])
         /\ Kept(r, [r EXCEPT !.c.OVFcountdown = b])
         /\ Kept(r, [r EXCEPT !.c.waiting = b])
         /\ Kept(r, [r EXCEPT !.c.pendingBit = b])
         /\ Kept(r, [r EXCEPT !.c.radioAnswer = b])
         /\ Kept(r, [r EXCEPT !.c.csp_stop = b])
  <1>1. r.c \in CspType
    BY DEF RadioType
  <1>a. Kept(r, [r EXCEPT !.c.STXON = b])
    <2> DEFINE c2 == [r.c EXCEPT !.STXON = b]
    <2>1. c2 \in CspType
      BY <1>1 DEF CspType
    <2>2. Kept(r, [r EXCEPT !.c = c2])
      BY <2>1, CspUpdate
    <2> QED BY <2>2
  <1>b. Kept(r, [r EXCEPT !.c.SRXON = b])
    <2> DEFINE c2 == [r.c EXCEPT !.SRXON = b]
    <2>1. c2 \in CspType
      BY <1>1 DEF CspType
    <2>2. Kept(r, [r EXCEPT !.c = c2])
      BY <2>1, CspUpdate
    <2> QED BY <2>2
  <1>c. Kept(r, [r EXCEPT !.c.SFLUSHRX = b])
    <2> DEFINE c2 == [r.c EXCEPT !.SFLUSHRX = b]
    <2>1. c2 \in CspType
      BY <1>1 DEF CspType
    <2>2. Kept(r, [r EXCEPT !.c = c2])
      BY <2>1, CspUpdate
    <2> QED BY <2>2
  <1>d. Kept(r, [r EXCEPT !.c.SFLUSHTX = b])
    <2> DEFINE c2 == [r.c EXCEPT !.SFLUSHTX = b]
    <2>1. c2 \in CspType
      BY <1>1 DEF CspType
    <2>2. Kept(r, [r EXCEPT !.c = c2])
      BY <2>1, CspUpdate
    <2> QED BY <2>2
  <1>e. Kept(r, [r EXCEPT !.c.WaitX = b])
    <2> DEFINE c2 == [r.c EXCEPT !.WaitX = b]
    <2>1. c2 \in CspType
      BY <1>1 DEF CspType
    <2>2. Kept(r, [r EXCEPT !.c = c2])
      BY <2>1, CspUpdate
    <2> QED BY <2>2
  <1>f. Kept(r, [r EXCEPT !.c.WaitW = b])
    <2> DEFINE c2 == [r.c EXCEPT !.WaitW = b]
    <2>1. c2 \in CspType
      BY <1>1 DEF CspType
    <2>2. Kept(r, [r EXCEPT !.c = c2])
      BY <2>1, CspUpdate
    <2> QED BY <2>2
  <1>g. Kept(r, [r EXCEPT !.c.waitWend = b])
    <2> DEFINE c2 == [r.c EXCEPT !.waitWend = b]
    <2>1. c2 \in CspType
      BY <1>1 DEF CspType
    <2>2. Kept(r, [r EXCEPT !.c = c2])
      BY <2>1, CspUpdate
    <2> QED BY <2>2
  <1>h. Kept(r, [r EXCEPT !.c.OVFcountdown = b])
    <2> DEFINE c2 == [r.c EXCEPT !.OVFcountdown = b]
    <2>1. c2 \in CspType
      BY <1>1 DEF CspType
    <2>2. Kept(r, [r EXCEPT !.c = c2])
      BY <2>1, CspUpdate
    <2> QED BY <2>2
  <1>i. Kept(r, [r EXCEPT !.c.waiting = b])
    <2> DEFINE c2 == [r.c EXCEPT !.waiting = b]
    <2>1. c2 \in CspType
      BY <1>1 DEF CspType
    <2>2. Kept(r, [r EXCEPT !.c = c2])
      BY <2>1, CspUpdate
    <2> QED BY <2>2
  <1>j. Kept(r, [r EXCEPT !.c.pendingBit = b])
    <2> DEFINE c2 == [r.c EXCEPT !.pendingBit = b]
    <2>1. c2 \in CspType
      BY <1>1 DEF CspType
    <2>2. Kept(r, [r EXCEPT !.c = c2])
      BY <2>1, CspUpdate
    <2> QED BY <2>2
  <1>k. Kept(r, [r EXCEPT !.c.radioAnswer = b])
    <2> DEFINE c2 == [r.c EXCEPT !.radioAnswer = b]
    <2>1. c2 \in CspType
      BY <1>1 DEF CspType
    <2>2. Kept(r, [r EXCEPT !.c = c2])
      BY <2>1, CspUpdate
    <2> QED BY <2>2
  <1>l. Kept(r, [r EXCEPT !.c.csp_stop = b])
    <2> DEFINE c2 == [r.c EXCEPT !.csp_stop = b]
    <2>1. c2 \in CspType
      BY <1>1 DEF CspType
    <2>2. Kept(r, [r EXCEPT !.c = c2])
      BY <2>1, CspUpdate
    <2> QED BY <2>2
  <1> QED BY <1>a, <1>b, <1>c, <1>d, <1>e, <1>f, <1>g, <1>h, <1>i, <1>j, <1>k, <1>l

(* An effect followed by the next instruction.                             *)
LEMMA KeptStep ==
  ASSUME NEW r \in RadioType, NEW e, Kept(r, e)
  PROVE  Kept(r, Step1(e))
  <1>1. Kept(e, Step1(e))
    BY StepKept DEF Kept
  <1> QED BY <1>1, KeptTwice

(* The interrupts of WAITX and WAITW, of INT and of a failed strobe.       *)
LEMMA RaisedKept ==
  ASSUME NEW r \in RadioType
  PROVE  Kept(r, IRQ_CSP_WT(r)) /\ Kept(r, IRQ_CSP_INT(r)) /\ Kept(r, Raise(r, "STROBEERR"))
  <1>1. "CSP_WAIT" \in IrqBits /\ "CSP_MANINT" \in IrqBits /\ "STROBEERR" \in IrqBits
    BY DEF IrqBits
  <1>2. Kept(r, Raise(r, "CSP_WAIT")) /\ Kept(r, Raise(r, "CSP_MANINT")) /\ Kept(r, Raise(r, "STROBEERR"))
    BY <1>1, RaiseKept
  <1> QED BY <1>2 DEF IRQ_CSP_WT, IRQ_CSP_INT

(* No effect at all.                                                       *)
LEMMA SameKept ==
  ASSUME NEW r \in RadioType
  PROVE  Kept(r, r)
  BY DEF Kept

(* The instructions that count and draw X, Y and Z.                        *)
LEMMA CountsKept ==
  ASSUME NEW r \in RadioType, NEW m \in Nat, NEW v \in Nat
  PROVE  /\ Kept(r, inst_dec_x(r)) /\ Kept(r, inst_dec_y(r)) /\ Kept(r, inst_dec_z(r))
         /\ Kept(r, inst_inc_x(r)) /\ Kept(r, inst_inc_y(r)) /\ Kept(r, inst_inc_z(r))
         /\ Kept(r, inst_inc_maxy(r, m)) /\ Kept(r, inst_rand_xy(r, v))
  <1>1. r.c.X \in Int /\ r.c.Y \in Int /\ r.c.Z \in Int
    BY DEF RadioType, CspType
  <1>2. ASSUME NEW x \in Int PROVE Change(x, -1) \in Int /\ Change(x, 1) \in Int
    BY CubeFacts DEF Change
  <1>3. ASSUME NEW x \in Int
        PROVE  /\ Kept(r, [r EXCEPT !.c.X = x]) /\ Kept(r, [r EXCEPT !.c.Y = x])
               /\ Kept(r, [r EXCEPT !.c.Z = x])
               /\ Kept(r, Step1([r EXCEPT !.c.X = x])) /\ Kept(r, Step1([r EXCEPT !.c.Y = x]))
               /\ Kept(r, Step1([r EXCEPT !.c.Z = x]))
    <2>1. Kept(r, [r EXCEPT !.c.X = x]) /\ Kept(r, [r EXCEPT !.c.Y = x])
          /\ Kept(r, [r EXCEPT !.c.Z = x])
      BY CountersKept
    <2> QED BY <2>1, KeptStep
  <1>4. /\ Kept(r, inst_dec_x(r)) /\ Kept(r, inst_dec_y(r)) /\ Kept(r, inst_dec_z(r))
    BY <1>1, <1>2, <1>3 DEF inst_dec_x, inst_dec_y, inst_dec_z
  <1>5. Kept(r, inst_inc_x(r)) /\ Kept(r, inst_inc_y(r)) /\ Kept(r, inst_inc_z(r))
    BY <1>1, <1>2, <1>3 DEF inst_inc_x, inst_inc_y, inst_inc_z
  <1>6. Kept(r, inst_inc_maxy(r, m))
    <2>1. (IF r.c.Y + 1 < m THEN r.c.Y + 1 ELSE m) \in Int
      BY <1>1
    <2> QED BY <1>3, <2>1 DEF inst_inc_maxy
  <1>7. Kept(r, inst_rand_xy(r, v))
    <2>1. (IF r.c.Y = 0 THEN 0 ELSE v) \in Int
      OBVIOUS
    <2> QED BY <1>3, <2>1 DEF inst_rand_xy
  <1> QED BY <1>4, <1>5, <1>6, <1>7

(* LABEL, RPT, SKIP and ISSTART.                                           *)
LEMMA JumpsKept ==
  ASSUME NEW r \in RadioType, NEW code \in Instructions, NEW u
  PROVE  /\ Kept(r, inst_label(r)) /\ Kept(r, inst_repeatC(r, code, u))
         /\ Kept(r, inst_skipCS(r, code, u)) /\ Kept(r, inst_isstart(r))
  <1>1. r.c.PC \in Nat /\ r.c.label \in Nat /\ code.a \in Nat
    BY DEF RadioType, CspType, Instructions
  <1>2. ASSUME NEW k \in Nat
        PROVE  Kept(r, [r EXCEPT !.c.PC = k]) /\ Kept(r, [r EXCEPT !.c.label = k])
    BY PlacesKept
  <1>3. Kept(r, Step1(r))
    BY StepKept
  <1>4. Kept(r, inst_label(r))
    <2>1. r.c.PC + 1 \in Nat
      BY <1>1
    <2> QED BY <1>2, <2>1 DEF inst_label
  <1>5. Kept(r, inst_repeatC(r, code, u))
    BY <1>1, <1>2, <1>3 DEF inst_repeatC
  <1>6. Kept(r, inst_skipCS(r, code, u))
    <2>1. r.c.PC + code.a + 1 \in Nat
      BY <1>1
    <2> QED BY <1>2, <1>3, <2>1 DEF inst_skipCS
  <1>7. Kept(r, inst_isstart(r))
    <2> DEFINE e == [r EXCEPT !.c.csp_stop = FALSE]
    <2>1. Kept(r, e)
      BY FlagsKept
    <2>2. Kept(e, [e EXCEPT !.c.PC = 0])
      BY <2>1, PlacesKept DEF Kept
    <2>3. inst_isstart(r) = [e EXCEPT !.c.PC = 0]
      BY DEF inst_isstart, RadioType
    <2> QED BY <2>1, <2>2, <2>3, KeptTwice
  <1> QED BY <1>4, <1>5, <1>6, <1>7

(* The strobes, which ask the state machine through flags only.            *)
LEMMA StrobesKept ==
  ASSUME NEW r \in RadioType, NEW u \in BOOLEAN
  PROVE  /\ Kept(r, inst_srxon(r)) /\ Kept(r, inst_istxon(r)) /\ Kept(r, inst_stxoncca(r, u))
         /\ Kept(r, inst_srfoff(r)) /\ Kept(r, inst_sflushrx(r)) /\ Kept(r, inst_sflushtx(r))
         /\ Kept(r, inst_stxon(r)) /\ Kept(r, inst_int(r)) /\ Kept(r, inst_snack(r))
  <1>1. ASSUME NEW b \in BOOLEAN
        PROVE  /\ Kept(r, Step1([r EXCEPT !.c.STXON = b])) /\ Kept(r, Step1([r EXCEPT !.c.SRXON = b]))
               /\ Kept(r, Step1([r EXCEPT !.c.SFLUSHRX = b]))
               /\ Kept(r, Step1([r EXCEPT !.c.SFLUSHTX = b]))
    <2>1. /\ Kept(r, [r EXCEPT !.c.STXON = b]) /\ Kept(r, [r EXCEPT !.c.SRXON = b])
          /\ Kept(r, [r EXCEPT !.c.SFLUSHRX = b]) /\ Kept(r, [r EXCEPT !.c.SFLUSHTX = b])
      BY FlagsKept
    <2> QED BY <2>1, KeptStep
  <1>2. Kept(r, inst_srxon(r)) /\ Kept(r, inst_istxon(r))
    BY <1>1 DEF inst_srxon, inst_istxon
  <1>3. Kept(r, inst_sflushrx(r)) /\ Kept(r, inst_sflushtx(r))
    BY <1>1 DEF inst_sflushrx, inst_sflushtx
  <1>4. Kept(r, inst_stxoncca(r, u))
    <2>1. (r.c.STXON \/ u) \in BOOLEAN
      OBVIOUS
    <2> QED BY <1>1, <2>1 DEF inst_stxoncca
  <1>5. Kept(r, inst_srfoff(r))
    <2> DEFINE e == [r EXCEPT !.c.STXON = FALSE]
               g == [e EXCEPT !.c.SRXON = FALSE]
    <2>1. Kept(r, e)
      BY FlagsKept
    <2>2. Kept(e, g)
      BY <2>1, FlagsKept DEF Kept
    <2>3. inst_srfoff(r) = Step1(g)
      BY DEF inst_srfoff, RadioType
    <2> HIDE DEF e, g
    <2> QED BY <2>1, <2>2, <2>3, KeptTwice, KeptStep
  <1>6. Kept(r, inst_stxon(r))
    BY DEF inst_stxon, Kept, RadioType
  <1>7. Kept(r, inst_int(r))
    <2>1. Kept(r, IRQ_CSP_INT(r))
      BY RaisedKept
    <2> QED BY <2>1, KeptStep DEF inst_int
  <1>8. Kept(r, inst_snack(r))
    <2> DEFINE e == IF ~r.c.SRXON THEN Raise(r, "STROBEERR") ELSE r
    <2>1. Kept(r, e)
      BY RaisedKept, SameKept
    <2>2. inst_snack(r) = Step1(e)
      BY DEF inst_snack
    <2> HIDE DEF e
    <2> QED BY <2>1, <2>2, KeptStep
  <1> QED BY <1>2, <1>3, <1>4, <1>5, <1>6, <1>7, <1>8

(* The instructions that wait.                                             *)
LEMMA WaitsKept ==
  ASSUME NEW r \in RadioType, NEW w \in Nat, NEW pend \in BOOLEAN
  PROVE  Kept(r, inst_waitx(r)) /\ Kept(r, inst_waitw(r, w)) /\ Kept(r, inst_sack(r, pend))
  <1>1. Kept(r, inst_waitx(r))
    <2> DEFINE a == [r EXCEPT !.c.WaitX = TRUE]
               e == Step1(IRQ_CSP_WT(r))
               g == [e EXCEPT !.c.WaitX = FALSE]
    <2>1. Kept(r, a)
      BY FlagsKept
    <2>2. Kept(r, e) /\ e \in RadioType
      <3>1. Kept(r, IRQ_CSP_WT(r))
        BY RaisedKept
      <3>2. Kept(r, e)
        BY <3>1, KeptStep
      <3> QED BY <3>2 DEF Kept
    <2> HIDE DEF e
    <2>3. Kept(e, g)
      BY <2>2, FlagsKept
    <2>4. inst_waitx(r) = IF r.c.X # 0 THEN a ELSE g
      BY DEF inst_waitx, e
    <2> HIDE DEF a, g
    <2> QED BY <2>1, <2>2, <2>3, <2>4, KeptTwice
  <1>2. Kept(r, inst_waitw(r, w))
    <2> DEFINE o == IF r.c.waitWend THEN w # 0 ELSE r.c.OVFcountdown
               c2 == [r.c EXCEPT !.WaitW = TRUE, !.OVFcountdown = o, !.waitWend = FALSE]
               s == [r EXCEPT !.c.WaitW = TRUE,
                              !.c.OVFcountdown = IF r.c.waitWend THEN w # 0 ELSE @,
                              !.c.waitWend = FALSE]
               e == Step1(IRQ_CSP_WT(s))
               g == [e EXCEPT !.c.WaitW = FALSE]
               h == [g EXCEPT !.c.waitWend = TRUE]
    <2>0. o \in BOOLEAN /\ r.c \in CspType
      BY DEF RadioType, CspType
    <2>1. s = [r EXCEPT !.c = c2]
      OBVIOUS
    <2>a. inst_waitw(r, w) = IF s.c.OVFcountdown THEN s
                             ELSE [e EXCEPT !.c.WaitW = FALSE, !.c.waitWend = TRUE]
      BY DEF inst_waitw
    <2> HIDE DEF o, s
    <2>2. c2 \in CspType
      BY <2>0 DEF CspType
    <2> HIDE DEF c2
    <2>3. Kept(r, s) /\ s \in RadioType
      <3>1. Kept(r, [r EXCEPT !.c = c2])
        BY <2>2, CspUpdate
      <3> QED BY <2>1, <3>1 DEF Kept
    <2>4. Kept(s, e) /\ e \in RadioType
      <3>1. Kept(s, IRQ_CSP_WT(s))
        BY <2>3, RaisedKept
      <3>2. Kept(s, e)
        BY <2>3, <3>1, KeptStep
      <3> QED BY <3>2 DEF Kept
    <2> HIDE DEF e
    <2>5. Kept(e, g) /\ g \in RadioType
      <3>1. Kept(e, g)
        BY <2>4, FlagsKept
      <3> QED BY <3>1 DEF Kept
    <2>6. [e EXCEPT !.c.WaitW = FALSE, !.c.waitWend = TRUE] = h
      BY <2>4 DEF RadioType
    <2> HIDE DEF g
    <2>7. Kept(g, h)
      BY <2>5, FlagsKept
    <2> HIDE DEF h
    <2>8. Kept(r, h)
      BY <2>3, <2>4, <2>5, <2>7, KeptTwice
    <2> QED BY <2>a, <2>3, <2>6, <2>8
  <1>3. Kept(r, inst_sack(r, pend))
    <2> DEFINE e == IF ~r.c.SRXON THEN Raise(r, "STROBEERR") ELSE r
               e1 == [e EXCEPT !.c.waiting = TRUE]
               e2 == [e1 EXCEPT !.c.pendingBit = pend]
               w2 == IF r.c.waiting THEN e ELSE e2
               h == Step1(w2)
               h1 == [h EXCEPT !.c.radioAnswer = FALSE]
               h2 == [h1 EXCEPT !.c.waiting = FALSE]
    <2>1. Kept(r, e) /\ e \in RadioType
      <3>1. Kept(r, e)
        BY RaisedKept, SameKept
      <3> QED BY <3>1 DEF Kept
    <2>a. inst_sack(r, pend)
            = LET w1 == IF r.c.waiting THEN e
                        ELSE [e EXCEPT !.c.waiting = TRUE, !.c.pendingBit = pend]
              IN  IF ~r.c.radioAnswer THEN w1
                  ELSE [Step1(w1) EXCEPT !.c.radioAnswer = FALSE, !.c.waiting = FALSE]
      BY DEF inst_sack
    <2> HIDE DEF e
    <2>2. [e EXCEPT !.c.waiting = TRUE, !.c.pendingBit = pend] = e2
      BY <2>1 DEF RadioType
    <2>3. Kept(e, e1) /\ e1 \in RadioType
      <3>1. Kept(e, e1)
        BY <2>1, FlagsKept
      <3> QED BY <3>1 DEF Kept
    <2> HIDE DEF e1
    <2>4. Kept(e1, e2)
      BY <2>3, FlagsKept
    <2> HIDE DEF e2
    <2>5. Kept(r, w2) /\ w2 \in RadioType
      <3>1. Kept(r, e2)
        BY <2>1, <2>3, <2>4, KeptTwice
      <3> QED BY <2>1, <3>1 DEF Kept
    <2>b. inst_sack(r, pend) = IF ~r.c.radioAnswer THEN w2
                               ELSE [h EXCEPT !.c.radioAnswer = FALSE, !.c.waiting = FALSE]
      BY <2>a, <2>2
    <2> HIDE DEF w2
    <2>6. Kept(r, h) /\ h \in RadioType
      <3>1. Kept(r, h)
        BY <2>5, KeptStep
      <3> QED BY <3>1 DEF Kept
    <2> HIDE DEF h
    <2>7. [h EXCEPT !.c.radioAnswer = FALSE, !.c.waiting = FALSE] = h2
      BY <2>6 DEF RadioType
    <2>8. Kept(h, h1) /\ h1 \in RadioType
      <3>1. Kept(h, h1)
        BY <2>6, FlagsKept
      <3> QED BY <3>1 DEF Kept
    <2> HIDE DEF h1
    <2>9. Kept(h1, h2)
      BY <2>8, FlagsKept
    <2> HIDE DEF h2
    <2>10. Kept(r, h2)
      BY <2>6, <2>8, <2>9, KeptTwice
    <2> QED BY <2>b, <2>5, <2>7, <2>10
  <1> QED BY <1>1, <1>2, <1>3

(* ISCLEAR.                                                                *)
LEMMA ClearKept ==
  ASSUME NEW r \in RadioType
  PROVE  Kept(r, inst_isclear(r))
  <1> DEFINE c2 == [r.c EXCEPT !.csp_stop = TRUE, !.PC = 0, !.PCwrite = 0]
             e == inst_isclear(r)
  <1>1. r.c \in CspType
    BY DEF RadioType
  <1>2. c2 \in CspType
    <2>1. 0 \in -1 .. ProgLen - 1
      BY RadioAssumption
    <2> QED BY <1>1, <2>1 DEF CspType
  <1>3. e = [r EXCEPT !.c = c2, !.halted = TRUE]
    BY DEF inst_isclear, RadioType
  <1> HIDE DEF c2, e
  <1>4. Kept(r, e)
    BY <1>2, <1>3 DEF Kept, RadioType
  <1> QED BY <1>4 DEF e

(* So every instruction leaves the state machine alone and unhalts nothing *)
(* (exec_inst).                                                            *)
LEMMA ExecutedKept ==
  ASSUME NEW r \in RadioType, NEW code \in Instructions, NEW u \in BOOLEAN, NEW v \in Nat
  PROVE  Kept(r, Executed(r, code, u, v))
  <1>1. code.op \in Ops /\ code.a \in Nat /\ code.n \in BOOLEAN
    BY DEF Instructions
  <1>2. /\ Kept(r, inst_skipCS(r, code, u)) /\ Kept(r, inst_repeatC(r, code, u))
        /\ Kept(r, inst_label(r)) /\ Kept(r, inst_isstart(r))
    BY JumpsKept
  <1>3. Kept(r, inst_waitw(r, code.a)) /\ Kept(r, inst_waitx(r)) /\ Kept(r, inst_sack(r, code.n))
    BY <1>1, WaitsKept
  <1>4. /\ Kept(r, inst_dec_x(r)) /\ Kept(r, inst_dec_y(r)) /\ Kept(r, inst_dec_z(r))
        /\ Kept(r, inst_inc_x(r)) /\ Kept(r, inst_inc_y(r)) /\ Kept(r, inst_inc_z(r))
        /\ Kept(r, inst_inc_maxy(r, code.a)) /\ Kept(r, inst_rand_xy(r, v))
    BY <1>1, CountsKept
  <1>5. /\ Kept(r, inst_srxon(r)) /\ Kept(r, inst_istxon(r)) /\ Kept(r, inst_stxoncca(r, u))
        /\ Kept(r, inst_srfoff(r)) /\ Kept(r, inst_sflushrx(r)) /\ Kept(r, inst_sflushtx(r))
        /\ Kept(r, inst_stxon(r)) /\ Kept(r, inst_int(r)) /\ Kept(r, inst_snack(r))
    BY StrobesKept
  <1>6. /\ Kept(r, Step1(r)) /\ Kept(r, inst_stop(r)) /\ Kept(r, inst_isclear(r))
        /\ Kept(r, inst_wait_event1(r)) /\ Kept(r, inst_wait_event2(r))
    BY StepKept, StopKept, ClearKept, SameKept DEF inst_stop, inst_wait_event1, inst_wait_event2
  <1> QED BY <1>1, <1>2, <1>3, <1>4, <1>5, <1>6 DEF Executed, Ops

(* Nor does the return to the start of the program.                        *)
LEMMA ExecKept ==
  ASSUME NEW r \in RadioType, NEW code \in Instructions, NEW u \in BOOLEAN, NEW v \in Nat
  PROVE  Kept(r, exec_inst(r, code, u, v))
  <1> DEFINE e == Executed(r, code, u, v)
             g == [e EXCEPT !.c.PC = 0]
  <1>1. Kept(r, e) /\ e \in RadioType
    <2>1. Kept(r, e)
      BY ExecutedKept
    <2> QED BY <2>1 DEF Kept
  <1>2. exec_inst(r, code, u, v) = IF e.c.PC = ProgLen THEN g ELSE e
    BY DEF exec_inst
  <1> HIDE DEF e
  <1>3. Kept(e, g)
    BY <1>1, PlacesKept
  <1> HIDE DEF g
  <1>4. Kept(r, g)
    BY <1>1, <1>3, KeptTwice
  <1> QED BY <1>1, <1>2, <1>4

(* What is fetched is an instruction, also behind the program, where zero  *)
(* cells skip nothing.                                                     *)
LEMMA FetchedInstr ==
  ASSUME NEW r \in RadioType
  PROVE  Fetched(r) \in Instructions
  <1>1. r.c.PC \in Nat /\ r.c.prog \in [0 .. ProgLen - 1 -> Instructions]
    BY DEF RadioType, CspType
  <1>2. CASE r.c.PC < ProgLen
    <2>1. r.c.PC \in 0 .. ProgLen - 1
      BY <1>1, <1>2, RadioAssumption
    <2> QED BY <1>1, <1>2, <2>1 DEF Fetched
  <1>3. CASE ~(r.c.PC < ProgLen)
    BY <1>3 DEF Fetched, Instructions, Ops
  <1> QED BY <1>2, <1>3

(* A tick of the processor with CSPT at zero stops it.                     *)
LEMMA CspTickKept ==
  ASSUME NEW r \in RadioType, NEW cspt, NEW u \in BOOLEAN, NEW v \in Nat
  PROVE  /\ Kept(r, CSP_tick(r, cspt, u, v))
         /\ cspt = 0 => CSP_tick(r, cspt, u, v).halted
  <1> DEFINE s == IF cspt = 0 THEN IRQ_CSP_STOP(r) ELSE r
             e == exec_inst(s, Fetched(s), u, v)
             g == CSP_tick(r, cspt, u, v)
  <1>1. Kept(r, s) /\ (cspt = 0 => s.halted)
    BY StopKept, SameKept
  <1>2. s \in RadioType
    BY <1>1 DEF Kept
  <1>3. g = IF s.c.csp_stop THEN s ELSE e
    BY DEF CSP_tick
  <1> HIDE DEF s
  <1>4. Kept(s, e)
    BY <1>2, FetchedInstr, ExecKept
  <1> HIDE DEF e
  <1>5. Kept(s, g)
    BY <1>2, <1>3, <1>4, SameKept
  <1> HIDE DEF g
  <1>6. Kept(r, g)
    BY <1>1, <1>5, KeptTwice
  <1>7. cspt = 0 => g.halted
    BY <1>1, <1>5 DEF Kept
  <1> QED BY <1>6, <1>7 DEF g

(* A strobe that the program writes to RFST itself (write of RFST).        *)
LEMMA RfstKept ==
  ASSUME NEW r \in RadioType, NEW code \in Instructions, NEW now \in BOOLEAN, NEW u \in BOOLEAN
  PROVE  Kept(r, write_rfst(r, code, now, u))
  <1>1. CASE now /\ Immediate(code)
    <2> DEFINE s == IF code.op = "isstart" THEN [r EXCEPT !.c.csp_stop = FALSE] ELSE r
               e == exec_inst(s, code, u, 0)
    <2>1. Kept(r, [r EXCEPT !.c.csp_stop = FALSE])
      BY FlagsKept
    <2>2. Kept(r, s)
      BY <2>1, SameKept
    <2>3. write_rfst(r, code, now, u) = e
      BY <1>1 DEF write_rfst
    <2> HIDE DEF s
    <2>4. s \in RadioType
      BY <2>2 DEF Kept
    <2>5. Kept(s, e)
      BY <2>4, ExecKept
    <2> HIDE DEF e
    <2> QED BY <2>2, <2>3, <2>5, KeptTwice
  <1>2. CASE ~(now /\ Immediate(code))
    <2> DEFINE s == IF code.op = "isclear" THEN inst_isclear(r) ELSE r
    <2>1. Kept(r, s)
      BY ClearKept, SameKept
    <2>2. write_rfst(r, code, now, u) = Stored(s, code)
      BY <1>2 DEF write_rfst
    <2> HIDE DEF s
    <2>3. s \in RadioType
      BY <2>1 DEF Kept
    <2>4. Kept(s, Stored(s, code))
      <3>1. s.c \in CspType /\ s.c.PCwrite \in -1 .. ProgLen - 1
        BY <2>3 DEF RadioType, CspType
      <3>2. CASE s.c.PCwrite < 0
        <4>1. Stored(s, code) = [s EXCEPT !.dead = TRUE]
          BY <3>2 DEF Stored
        <4> QED BY <2>3, <4>1 DEF Kept, RadioType
      <3>3. CASE ~(s.c.PCwrite < 0)
        <4> DEFINE w == s.c.PCwrite
                   p2 == [s.c.prog EXCEPT ![w] = code]
                   w2 == (w + 1) % ProgLen
                   c2 == [s.c EXCEPT !.prog = p2, !.PCwrite = w2]
        <4>1. w \in 0 .. ProgLen - 1
          BY <3>1, <3>3, RadioAssumption
        <4>2. p2 \in [0 .. ProgLen - 1 -> Instructions]
          BY <3>1, <4>1 DEF CspType
        <4>3. w2 \in -1 .. ProgLen - 1
          BY <4>1, RadioAssumption
        <4>4. Stored(s, code) = [s EXCEPT !.c = c2]
          BY <2>3, <3>3 DEF Stored, RadioType
        <4> HIDE DEF p2, w2
        <4>5. c2 \in CspType
          BY <3>1, <4>2, <4>3 DEF CspType
        <4> HIDE DEF c2
        <4> QED BY <2>3, <4>4, <4>5, CspUpdate
      <3> QED BY <3>2, <3>3
    <2> QED BY <2>1, <2>2, <2>4, KeptTwice
  <1> QED BY <1>1, <1>2

(* The states that the state machine gets to: it never receives.           *)
Calm(f) ==
  /\ f \in FsmType /\ f.rxEnable = FALSE /\ f.RxWhenTx = FALSE /\ f.RX_ACTIVE = FALSE
  /\ f.state \in {"IDLE", "TX_CALIBRATION", "TX", "TX_SHUTDOWN"}
  /\ f.state = "TX_CALIBRATION" => f.Timer = Infinite

(* The state machine alone moves.                                          *)
Moved(r, g) ==
  /\ g \in RadioType /\ Calm(g.f) /\ g.armed = r.armed /\ g.halted = r.halted

(* A change of the state machine leaves the strobe processor alone.        *)
LEMMA FsmUpdate ==
  ASSUME NEW r \in RadioType, NEW f2 \in FsmType
  PROVE  LET g == [r EXCEPT !.f = f2]
         IN  g \in RadioType /\ g.f = f2 /\ g.c = r.c /\ g.armed = r.armed /\ g.halted = r.halted
  BY DEF RadioType

(* A calm state machine is reached by such a change.                       *)
LEMMA MovedBy ==
  ASSUME NEW r \in RadioType, NEW f2, Calm(f2)
  PROVE  Moved(r, [r EXCEPT !.f = f2])
  <1>1. f2 \in FsmType
    BY DEF Calm
  <1> DEFINE g == [r EXCEPT !.f = f2]
  <1>2. g \in RadioType /\ g.f = f2 /\ g.armed = r.armed /\ g.halted = r.halted
    BY <1>1, FsmUpdate
  <1> HIDE DEF g
  <1>3. Moved(r, g)
    BY <1>2 DEF Moved
  <1> QED BY <1>3 DEF g

(* Two moves are one.                                                      *)
LEMMA MovedTwice ==
  ASSUME NEW r, NEW g, NEW h, Moved(r, g), Moved(g, h)
  PROVE  Moved(r, h)
  BY DEF Moved

(* Entering calibration or shutdown starts the timer (start_timer).        *)
LEMMA TimedMoved ==
  ASSUME NEW r \in RadioType, Calm(r.f), NEW st \in {"TX_CALIBRATION", "TX_SHUTDOWN"}
  PROVE  Moved(r, GotoTimed(r, st))
  <1> DEFINE f2 == [r.f EXCEPT !.state = st, !.Timer = Infinite]
  <1>1. GotoTimed(r, st) = [r EXCEPT !.f = f2]
    BY DEF GotoTimed, start_timer, Goto, RadioType
  <1>2. st \in FsmStates
    BY DEF FsmStates
  <1>3. Calm(f2)
    BY <1>2 DEF Calm, FsmType
  <1> HIDE DEF f2
  <1> QED BY <1>1, <1>3, MovedBy

(* A calm machine stays calm when it takes the strobes.                    *)
LEMMA StrobesMoved ==
  ASSUME NEW r \in RadioType, Calm(r.f)
  PROVE  Moved(r, Strobes(r))
  <1> DEFINE a == IF r.c.STXON THEN GotoTimed(r, "TX_CALIBRATION") ELSE r
             g == IF a.f.TX_ACTIVE /\ a.c.SRXON THEN GotoTimed(a, "TX_SHUTDOWN") ELSE a
  <1>1. Moved(r, r)
    BY DEF Moved
  <1>2. Moved(r, a)
    BY <1>1, TimedMoved
  <1>3. a.f.RX_ACTIVE = FALSE
    BY <1>2 DEF Moved, Calm
  <1>4. Strobes(r) = g
    BY <1>3 DEF Strobes
  <1> HIDE DEF a
  <1>5. a \in RadioType /\ Calm(a.f)
    BY <1>2 DEF Moved
  <1>6. Moved(a, g)
    <2>1. Moved(a, a)
      BY <1>5 DEF Moved
    <2>2. Moved(a, GotoTimed(a, "TX_SHUTDOWN"))
      BY <1>5, TimedMoved
    <2> QED BY <2>1, <2>2
  <1> HIDE DEF g
  <1> QED BY <1>2, <1>4, <1>6, MovedTwice

(* The activity flags follow the state.                                    *)
LEMMA ActivityMoved ==
  ASSUME NEW r \in RadioType, Calm(r.f), NEW tx \in BOOLEAN
  PROVE  Moved(r, Activity(r, tx, FALSE)) /\ Activity(r, tx, FALSE).f.state = r.f.state
  <1> DEFINE f2 == [r.f EXCEPT !.TX_ACTIVE = tx, !.RX_ACTIVE = FALSE]
  <1>1. Activity(r, tx, FALSE) = [r EXCEPT !.f = f2]
    BY DEF Activity, RadioType
  <1>2. Calm(f2) /\ f2.state = r.f.state
    BY DEF Calm, FsmType
  <1>3. [r EXCEPT !.f = f2].f = f2
    BY DEF RadioType
  <1> HIDE DEF f2
  <1> QED BY <1>1, <1>2, <1>3, MovedBy

(* A tick of the state machine keeps it calm: it never searches for a      *)
(* frame.                                                                  *)
LEMMA FsmMoved ==
  ASSUME NEW r \in RadioType, Calm(r.f), NEW k, NEW last \in BOOLEAN
  PROVE  Moved(r, fsm(r, k, last))
  <1> DEFINE s == Strobes(r)
  <1>1. Moved(r, s) /\ s \in RadioType /\ Calm(s.f)
    <2>1. Moved(r, s)
      BY StrobesMoved
    <2> QED BY <2>1 DEF Moved
  <1>2. fsm(r, k, last) = IF s.f.state \in Reception THEN Receiving(s, k) ELSE Transmitting(s, last)
    BY DEF fsm
  <1> HIDE DEF s
  <1>3. s.f.state \in {"IDLE", "TX_CALIBRATION", "TX", "TX_SHUTDOWN"} /\ s.f.rxEnable = FALSE
    BY <1>1 DEF Calm
  <1>4. CASE s.f.state = "IDLE"
    <2>1. Receiving(s, k) = Activity(s, FALSE, FALSE)
      BY <1>3, <1>4 DEF Receiving
    <2>2. fsm(r, k, last) = Activity(s, FALSE, FALSE)
      BY <1>2, <1>4, <2>1 DEF Reception
    <2> QED BY <1>1, <2>2, ActivityMoved, MovedTwice
  <1>5. CASE s.f.state # "IDLE"
    <2> DEFINE t == Activity(s, TRUE, FALSE)
    <2>0. fsm(r, k, last) = Transmitting(s, last)
      BY <1>2, <1>3, <1>5 DEF Reception
    <2>1. Moved(s, t) /\ t.f.state = s.f.state
      BY <1>1, ActivityMoved
    <2>2. t \in RadioType /\ Calm(t.f)
      BY <2>1 DEF Moved
    <2>3. CASE s.f.state = "TX_CALIBRATION"
      <3> DEFINE f2 == [t.f EXCEPT !.state = "TX", !.Timeout = FALSE]
      <3>1. Transmitting(s, last) = OnTimeout(t, "TX")
        BY <2>3 DEF Transmitting
      <3> HIDE DEF t
      <3>2. OnTimeout(t, "TX") = IF t.f.Timeout THEN [t EXCEPT !.f = f2] ELSE t
        BY <2>2 DEF OnTimeout, Goto, RadioType
      <3>3. Calm(f2)
        BY <2>2 DEF Calm, FsmType, FsmStates
      <3> HIDE DEF f2
      <3>4. Moved(t, [t EXCEPT !.f = f2]) /\ Moved(t, t)
        BY <2>2, <3>3, MovedBy DEF Moved
      <3>5. Moved(t, OnTimeout(t, "TX"))
        BY <3>2, <3>4
      <3> QED BY <1>1, <2>0, <2>1, <3>1, <3>5, MovedTwice
    <2>4. CASE s.f.state = "TX"
      <3> DEFINE f2 == [t.f EXCEPT !.sfd = TRUE]
                 re == t.f.rxEnable \/ t.f.RxWhenTx
                 f3 == [t.f EXCEPT !.sfd = FALSE, !.rxEnable = re]
      <3>1. Transmitting(s, last) = doTX(t, last)
        BY <2>4 DEF Transmitting
      <3> HIDE DEF t
      <3>a. re = FALSE
        BY <2>2 DEF Calm
      <3>2. doTX(t, last) = IF ~t.f.sfd THEN [t EXCEPT !.f = f2]
                            ELSE IF last THEN [t EXCEPT !.f = f3] ELSE t
        BY <2>2 DEF doTX, RadioType
      <3> HIDE DEF re
      <3>3. Calm(f2) /\ Calm(f3)
        BY <2>2, <3>a DEF Calm, FsmType
      <3> HIDE DEF f2, f3
      <3>4. Moved(t, [t EXCEPT !.f = f2]) /\ Moved(t, [t EXCEPT !.f = f3]) /\ Moved(t, t)
        BY <2>2, <3>3, MovedBy DEF Moved
      <3>5. Moved(t, doTX(t, last))
        BY <3>2, <3>4
      <3> QED BY <1>1, <2>0, <2>1, <3>1, <3>5, MovedTwice
    <2>5. CASE s.f.state = "TX_SHUTDOWN"
      <3> DEFINE f2 == [t.f EXCEPT !.state = "IDLE"]
                 g == [t EXCEPT !.f = f2]
      <3>1. Transmitting(s, last) = Idle(t)
        BY <2>5 DEF Transmitting
      <3> HIDE DEF t
      <3>2. Idle(t) = Raise(g, "RFIDLE")
        BY <2>2 DEF Idle, Goto, RadioType
      <3>3. Calm(f2)
        BY <2>2 DEF Calm, FsmType, FsmStates, Reception
      <3> HIDE DEF f2
      <3>4. Moved(t, g)
        BY <2>2, <3>3, MovedBy
      <3> HIDE DEF g
      <3>5. "RFIDLE" \in IrqBits /\ g \in RadioType
        BY <3>4 DEF IrqBits, Moved
      <3>6. Kept(g, Raise(g, "RFIDLE")) /\ Raise(g, "RFIDLE").halted = g.halted
        BY <3>5, RaiseKept
      <3>7. Moved(t, Idle(t))
        BY <3>2, <3>4, <3>6 DEF Moved, Kept
      <3> QED BY <1>1, <2>0, <2>1, <3>1, <3>7, MovedTwice
    <2> QED BY <1>3, <1>5, <2>3, <2>4, <2>5
  <1> QED BY <1>4, <1>5

(* A tick of the radio: it stays calm, and CSPT at zero stops the          *)
(* processor.                                                              *)
LEMMA RadioTicks ==
  ASSUME NEW r \in RadioType, Calm(r.f), NEW cspt, NEW u \in BOOLEAN, NEW v \in Nat, NEW k,
         NEW last \in BOOLEAN, NEW e, e = radio_tick(r, cspt, u, v, k, last)
  PROVE  /\ e \in RadioType /\ Calm(e.f) /\ e.armed = r.armed /\ (r.halted => e.halted)
         /\ cspt = 0 => e.halted
  <1> DEFINE f1 == [r.f EXCEPT !.Timeout = TRUE]
             t == IF r.f.Timer = 0 THEN [r EXCEPT !.f = f1] ELSE r
             g == fsm(t, k, last)
             h == CSP_tick(g, cspt, u, v)
             f2 == [h.f EXCEPT !.Timeout = FALSE]
  <1>1. (IF r.f.Timer = 0 THEN [r EXCEPT !.f.Timeout = TRUE] ELSE r) = t
    BY DEF RadioType
  <1>2. e = [h EXCEPT !.f.Timeout = FALSE]
    BY <1>1 DEF radio_tick
  <1>3. Calm(f1)
    BY DEF Calm, FsmType
  <1> HIDE DEF f1
  <1>4. Moved(r, t)
    <2>1. Moved(r, [r EXCEPT !.f = f1]) /\ Moved(r, r)
      BY <1>3, MovedBy DEF Moved
    <2> QED BY <2>1
  <1> HIDE DEF t
  <1>5. Moved(t, g)
    BY <1>4, FsmMoved DEF Moved
  <1> HIDE DEF g
  <1>6. Kept(g, h) /\ (cspt = 0 => h.halted)
    BY <1>5, CspTickKept DEF Moved
  <1> HIDE DEF h
  <1>7. e = [h EXCEPT !.f = f2]
    BY <1>2, <1>6 DEF Kept, RadioType
  <1>8. Calm(h.f)
    BY <1>5, <1>6 DEF Moved, Kept
  <1>9. Calm(f2)
    BY <1>8 DEF Calm, FsmType
  <1> HIDE DEF f2
  <1>10. Moved(h, e)
    BY <1>6, <1>7, <1>9, MovedBy DEF Kept
  <1> QED BY <1>4, <1>5, <1>6, <1>10 DEF Moved, Kept

(* With a period of more than two clocks an instruction sees at most one   *)
(* overflow.                                                               *)
LEMMA TickCspt ==
  ASSUME NEW t, MacInv(t), t.mode = 0, NEW n \in {1, 2}, NEW e, e = mac_tick(t, n)
  PROVE  /\ e.mode = 0 /\ e.m[Period] = t.m[Period]
         /\ t.m[Period] > 2 => e.cspt \in {t.cspt, CsptDown(t.cspt)}
  <1> DEFINE x == do_UpMode(t)
             y == do_UpMode(x)
  <1>1. e = IF n = 1 THEN x ELSE y
    BY TickIs DEF Cycle
  <1>2. MacInv(x) /\ Counted(t, x)
    BY UpModeInv
  <1> HIDE DEF x
  <1>3. MacInv(y) /\ Counted(x, y)
    BY <1>2, UpModeInv
  <1> HIDE DEF y
  <1>4. CASE n = 1
    BY <1>1, <1>2, <1>4 DEF Counted
  <1>5. CASE n = 2
    <2>1. e = y
      BY <1>1, <1>5
    <2>2. e.mode = 0 /\ e.m[Period] = t.m[Period]
      BY <1>2, <1>3, <2>1 DEF Counted
    <2>3. ASSUME t.m[Period] > 2
          PROVE  e.cspt \in {t.cspt, CsptDown(t.cspt)}
      <3>1. t.m[Period] \in Int /\ x.m[Period] = t.m[Period]
        BY <1>2 DEF Counted, MacInv, MacType, Period
      <3>2. CASE x.m[Counter] = 0
        <4>1. ~(x.m[Counter] + 1 = x.m[Period])
          BY <2>3, <3>1, <3>2
        <4>2. y.cspt = x.cspt
          BY <1>3, <4>1 DEF Counted
        <4> QED BY <1>2, <2>1, <4>2 DEF Counted
      <3>3. CASE x.m[Counter] # 0
        <4>1. x.cspt = t.cspt
          BY <1>2, <3>3 DEF Counted
        <4> QED BY <1>3, <2>1, <4>1 DEF Counted
      <3> QED BY <3>2, <3>3
    <2> QED BY <2>2, <2>3
  <1> QED BY <1>4, <1>5

(* CSPT is on its way down, or the processor has stopped.                  *)
RadioInv(m, r) ==
  /\ MacInv(m) /\ m.mode = 0 /\ r \in RadioType /\ Calm(r.f)
  /\ r.armed /\ m.m[Period] > 2 => r.halted \/ m.cspt \in 1 .. Bytes - 2

(* After reset both machines are at rest.                                  *)
LEMMA RadioInitially == RadioInit => RadioInv(mt, rd)
  <1> SUFFICES ASSUME MacInit, NEW wr \in {0, -1}, NEW wend \in BOOLEAN, rd = Start(wr, wend)
               PROVE  RadioInv(mt, rd)
    BY DEF RadioInit
  <1>1. MacInv(mt) /\ mt.mode = 0
    <2>1. mt = mac_reset(Bytes - 1) /\ Bytes - 1 \in Int
      BY CubeFacts DEF MacInit
    <2> QED BY <2>1, MacResetInv DEF mac_reset
  <1> DEFINE c == csp_reset(wr, wend)
             f == radio_reset
  <1>2. c \in CspType
    <2>1. [i \in 0 .. ProgLen - 1 |-> Snop] \in [0 .. ProgLen - 1 -> Instructions]
      <3>1. Snop \in Instructions
        BY DEF Snop, Instructions, Ops
      <3> QED BY <3>1
    <2>2. wr \in -1 .. ProgLen - 1
      BY RadioAssumption
    <2> DEFINE p == [i \in 0 .. ProgLen - 1 |-> Snop]
    <2>3. c = [PC |-> 0, PCwrite |-> wr, label |-> 0, csp_stop |-> FALSE, X |-> 0, Y |-> 0, Z |-> 0,
               WaitX |-> FALSE, WaitW |-> FALSE, waitWend |-> wend, OVFcountdown |-> FALSE,
               STXON |-> FALSE, SRXON |-> FALSE, SFLUSHRX |-> FALSE, SFLUSHTX |-> FALSE,
               pendingBit |-> FALSE, waiting |-> FALSE, radioAnswer |-> FALSE, prog |-> p]
      BY DEF csp_reset
    <2> HIDE DEF p, c
    <2>4. p \in [0 .. ProgLen - 1 -> Instructions]
      BY <2>1 DEF p
    <2> QED BY <2>2, <2>3, <2>4 DEF CspType
  <1>3. Calm(f)
    BY DEF radio_reset, Calm, FsmType, FsmStates, Reception
  <1>4. f \in FsmType
    BY <1>3 DEF Calm
  <1>5. rd = [f |-> f, c |-> c, irqm |-> {}, irqf |-> {}, rfif |-> FALSE,
              dead |-> FALSE, armed |-> FALSE, halted |-> FALSE]
    BY DEF Start
  <1> HIDE DEF c, f
  <1>6. rd \in RadioType /\ rd.f = f /\ rd.armed = FALSE
    BY <1>2, <1>4, <1>5 DEF RadioType
  <1> QED BY <1>1, <1>3, <1>6 DEF RadioInv

(* Every step of the radio and of the MAC timer beside it preserves the    *)
(* invariant.                                                              *)
LEMMA RadioStep == RadioInv(mt, rd) /\ [RadioNext]_<<mt, rd>> => RadioInv(mt, rd)'
  <1> SUFFICES ASSUME RadioInv(mt, rd), [RadioNext]_<<mt, rd>>
               PROVE  RadioInv(mt', rd')
    OBVIOUS
  <1>1. /\ MacInv(mt) /\ mt.mode = 0 /\ rd \in RadioType /\ Calm(rd.f) /\ mt \in MacType
        /\ mt.cspt \in Int /\ mt.m \in [0 .. 4 -> Int]
    BY DEF RadioInv, MacInv, MacType
  <1>2. rd.armed /\ mt.m[Period] > 2 => rd.halted \/ mt.cspt \in 1 .. Bytes - 2
    BY DEF RadioInv
  <1>3. CASE BothTick
    <2>1. PICK n \in {1, 2}, u \in BOOLEAN, v \in Nat, last \in BOOLEAN :
            /\ mt' = mac_tick(mt, n)
            /\ rd' = radio_tick(rd, mt'.cspt, u, v, "RX_RXWAIT", last)
      BY <1>3 DEF BothTick
    <2>2. MacInv(mt')
      BY <1>1, <2>1, TickInv
    <2>3. /\ mt'.mode = 0 /\ mt'.m[Period] = mt.m[Period]
          /\ mt.m[Period] > 2 => mt'.cspt \in {mt.cspt, CsptDown(mt.cspt)}
      BY <1>1, <2>1, TickCspt
    <2>4. /\ rd' \in RadioType /\ Calm(rd'.f) /\ rd'.armed = rd.armed /\ (rd.halted => rd'.halted)
          /\ mt'.cspt = 0 => rd'.halted
      BY <1>1, <2>1, RadioTicks
    <2>5. ASSUME rd'.armed, mt'.m[Period] > 2, ~rd'.halted
          PROVE  mt'.cspt \in 1 .. Bytes - 2
      <3>1. mt.cspt \in 1 .. Bytes - 2 /\ mt'.cspt # 0 /\ mt'.cspt \in {mt.cspt, CsptDown(mt.cspt)}
        BY <1>2, <2>3, <2>4, <2>5
      <3>2. ASSUME NEW k \in 1 .. Bytes - 2 PROVE CsptDown(k) = k - 1
        <4>1. k # Bytes - 1 /\ k - 1 \in 0 .. Bytes - 1
          BY CubeFacts
        <4>2. (k - 1) % Bytes = k - 1
          BY <4>1, CubeFacts
        <4> QED BY <4>1, <4>2 DEF CsptDown
      <3>3. mt'.cspt = mt.cspt \/ mt'.cspt = mt.cspt - 1
        BY <3>1, <3>2
      <3> QED BY <3>1, <3>3, CubeFacts
    <2> QED BY <2>2, <2>3, <2>4, <2>5 DEF RadioInv
  <1>4. CASE WriteRfst
    <2>1. PICK code \in Codes, now \in BOOLEAN, u \in BOOLEAN :
            rd' = write_rfst(rd, code, now, u) /\ mt' = mt
      BY <1>4 DEF WriteRfst
    <2>2. code \in Instructions
      BY RadioAssumption
    <2>3. Kept(rd, rd')
      BY <1>1, <2>1, <2>2, RfstKept
    <2> QED BY <1>1, <1>2, <2>1, <2>3 DEF RadioInv, Kept
  <1>5. CASE WriteCspt
    <2>1. PICK n \in 1 .. Bytes - 2 :
            /\ mt' = [mt EXCEPT !.cspt = n]
            /\ rd' = [rd EXCEPT !.armed = TRUE, !.halted = FALSE]
      BY <1>5 DEF WriteCspt
    <2>2. /\ mt' \in MacType /\ mt'.m = mt.m /\ mt'.ovf = mt.ovf /\ mt'.elapsed = mt.elapsed
          /\ mt'.mode = mt.mode /\ mt'.cspt = n
      <3>1. n \in Int
        OBVIOUS
      <3> QED BY <1>1, <2>1, <3>1 DEF MacType
    <2>3. MacInv(mt')
      BY <1>1, <2>2 DEF MacInv
    <2>4. rd' \in RadioType /\ rd'.f = rd.f
      BY <1>1, <2>1 DEF RadioType
    <2> QED BY <1>1, <2>2, <2>3, <2>4 DEF RadioInv
  <1>6. CASE WriteMask
    <2>1. {"CSP_STOP", "CSP_WAIT", "RFIDLE"} \in SUBSET IrqBits
      BY DEF IrqBits
    <2>2. rd' \in RadioType /\ rd'.f = rd.f /\ rd'.armed = rd.armed /\ rd'.halted = rd.halted
      BY <1>1, <1>6, <2>1 DEF WriteMask, RadioType
    <2> QED BY <1>1, <1>2, <1>6, <2>2 DEF WriteMask, RadioInv
  <1>7. CASE WritePeriod
    <2>1. PICK p \in 1 .. 3 :
            /\ ~rd.armed /\ rd' = rd
            /\ mt' = [mt EXCEPT !.m[Period] = p, !.m[Counter] = 0, !.elapsed = NotKnown]
      BY <1>7 DEF WritePeriod
    <2> DEFINE m2 == [mt.m EXCEPT ![Period] = p, ![Counter] = 0]
    <2>2. m2 \in [0 .. 4 -> Int] /\ m2[Period] = p
      BY <1>1 DEF Period, Counter
    <2>3. mt' = [mt EXCEPT !.m = m2, !.elapsed = NotKnown]
      BY <1>1, <2>1 DEF MacType
    <2> HIDE DEF m2
    <2>4. mt' \in MacType /\ mt'.m = m2 /\ mt'.elapsed = NotKnown /\ mt'.mode = mt.mode
      BY <1>1, <2>2, <2>3 DEF MacType
    <2>5. p < Bytes * Bytes
      <3>1. 2 * 2 <= Bytes * Bytes
        <4>1. 2 * 2 <= Bytes * 2 /\ 2 * Bytes <= Bytes * Bytes
          BY CubeFacts, MulMonotone
        <4> QED BY <4>1, CubeFacts
      <3> QED BY <3>1, CubeFacts
    <2> QED BY <1>1, <2>1, <2>2, <2>4, <2>5 DEF RadioInv, MacInv
  <1>8. CASE ResetBoth
    <2>1. /\ mt' = mac_reset(mt.cspt)
          /\ rd' = [rd EXCEPT !.f = radio_reset, !.irqm = {}, !.irqf = {}, !.rfif = FALSE]
      BY <1>8 DEF ResetBoth
    <2>2. MacInv(mt')
      BY <1>1, <2>1, MacResetInv
    <2>3. mt'.mode = 0 /\ mt'.m[Period] = 0
      BY <2>1 DEF mac_reset, Period
    <2>4. Calm(radio_reset) /\ radio_reset \in FsmType
      BY DEF radio_reset, Calm, FsmType, FsmStates, Reception
    <2>5. rd' \in RadioType /\ rd'.f = radio_reset
      BY <1>1, <2>1, <2>4 DEF RadioType
    <2> QED BY <2>2, <2>3, <2>4, <2>5 DEF RadioInv
  <1>9. CASE UNCHANGED <<mt, rd>>
    BY <1>9
  <1> QED BY <1>3, <1>4, <1>5, <1>6, <1>7, <1>8, <1>9 DEF RadioNext

(* Whatever program the strobe processor runs, CSPT stops it when the MAC  *)
(* timer has overflowed as often as it was set to, in the tick it reaches  *)
(* zero, as long as a period is longer than an instruction; and the state  *)
(* machine never gets to a state of reception (CSP_tick, overflow, fsm,    *)
(* start_timer).                                                           *)
THEOREM StrobesStopAlways == RadioInit /\ [][RadioNext]_<<mt, rd>> => []StrobesStop
  <1>1. RadioInv(mt, rd) => StrobesStop
    <2> SUFFICES ASSUME RadioInv(mt, rd)
                 PROVE  StrobesStop
      OBVIOUS
    <2>1. Bytes - 1 \notin 1 .. Bytes - 2
      BY CubeFacts
    <2>2. (rd.armed /\ mt.m[Period] > 2 /\ mt.cspt = Bytes - 1) => rd.halted
      BY <2>1 DEF RadioInv
    <2> QED BY <2>2 DEF RadioInv, Calm, StrobesStop
  <1> QED BY <1>1, RadioInitially, RadioStep, PTL
-----------------------------------------------------------------------------
(* The unified address spaces.                                             *)

(* The areas of the memory map are in order and not empty.                 *)
LEMMA Spaces2530Sizes ==
  /\ BankSize \in Nat /\ SramSize \in Nat /\ IramAt \in Nat /\ SfrAt \in Nat /\ SfrSize \in Nat
  /\ IramAt < SramSize /\ SramSize <= SfrAt /\ SfrAt + SfrSize <= BankSize /\ SfrSize >= 2
  /\ BankSize > 0
  /\ \A v \in PlaceValues : v \in Nat
  BY SpacesAssumption

(* What was stored holds numbers, so the registers select a bank.          *)
SpacesHold(s) ==
  /\ s = [val |-> s.val, access |-> s.access, changed |-> s.changed, n |-> s.n]
  /\ \A p \in DOMAIN s.val : s.val[p] \in Nat
  /\ s.val = [p \in DOMAIN s.val |-> s.val[p]]

(* A place holds a number.                                                 *)
LEMMA ValueIsNat ==
  ASSUME NEW s, SpacesHold(s), NEW p
  PROVE  ValueAt(s, p) \in Nat
  BY DEF SpacesHold, ValueAt

(* MCON and FMAP select a bank of eight.                                   *)
LEMMA Selected ==
  ASSUME NEW s, SpacesHold(s)
  PROVE  memctr(s) \in 0 .. 7 /\ fmap(s) \in 0 .. 7
  <1>1. \A x \in Nat : x % 8 \in 0 .. 7
    OBVIOUS
  <1>2. ValueAt(s, Place("sfr", 0)) \in Nat /\ ValueAt(s, Place("sfr", 1)) \in Nat
    BY ValueIsNat
  <1> QED BY <1>1, <1>2 DEF memctr, fmap

(* A place of an access belongs to a space, so it is no assertion.         *)
IsCell(p) == p # Dummy /\ p # Assert

(* A place of a memory is a cell.                                          *)
LEMMA PlacesAreCells ==
  ASSUME NEW space, NEW i, space # "dummy", space # "assert"
  PROVE  IsCell(Place(space, i))
  BY DEF IsCell, Place, Dummy, Assert

(* The flash banks are four of the memories.                               *)
LEMMA BankNames ==
  ASSUME NEW n \in 0 .. 3
  PROVE  flashbank(n) \in Banks2530
  BY DEF flashbank, Banks2530

(* Which place an access reaches: a cell, and the same one after a change  *)
(* of anything but the register it was selected by.                        *)
LEMMA ReadsCell ==
  ASSUME NEW s, SpacesHold(s), NEW space \in AllSpaces \ {"rom"}, NEW i \in Indexes(space)
  PROVE  IsCell(space_read(s, space, i))
  <1>1. CASE space = "xram"
    <2>1. IsCell(read_xram(s, i))
      BY PlacesAreCells, BankNames, Selected DEF read_xram, read_sram, Banks2530
    <2> QED BY <1>1, <2>1 DEF space_read
  <1>2. CASE space = "sram"
    BY <1>2, PlacesAreCells DEF space_read, read_sram
  <1>3. CASE space \notin {"xram", "sram"}
    <2>1. space_read(s, space, i) = Place(space, i)
      BY <1>3 DEF space_read
    <2> QED BY <2>1, PlacesAreCells DEF AllSpaces, Banks2530
  <1> QED BY <1>1, <1>2, <1>3

(* Between two accesses only MCON can move the place of an address, and    *)
(* only behind the first bank.                                             *)
LEMMA Reread ==
  ASSUME NEW s, SpacesHold(s), NEW s2, NEW space \in AllSpaces \ {"rom"}, NEW i \in Indexes(space),
         space = "xram" /\ i >= BankSize => memctr(s2) = memctr(s)
  PROVE  space_read(s2, space, i) = space_read(s, space, i)
  <1>1. CASE space = "xram"
    <2>1. i \in Nat
      BY <1>1, Spaces2530Sizes DEF Indexes, SizeOf, Banks2530
    <2>2. CASE i >= BankSize
      BY <1>1, <2>2 DEF space_read, read_xram
    <2>3. CASE i < BankSize
      BY <1>1, <2>1, <2>3, Spaces2530Sizes DEF space_read, read_xram
    <2> QED BY <2>1, <2>2, <2>3, Spaces2530Sizes
  <1>2. CASE space # "xram"
    BY <1>2 DEF space_read
  <1> QED BY <1>1, <1>2

(* The places that are stored to hold the value, the others what they held.*)
LEMMA UpdateHolds ==
  ASSUME NEW s, SpacesHold(s), NEW places, NEW a, a.v \in Nat
  PROVE  LET u == Update(s, places, a)
             stored == places \ {Dummy, Assert}
         IN  /\ SpacesHold(u) /\ u.access = a /\ u.changed = stored
             /\ \A p \in stored : ValueAt(u, p) = a.v
             /\ \A p : p \notin stored => ValueAt(u, p) = ValueAt(s, p)
  <1> DEFINE u == Update(s, places, a)
             stored == places \ {Dummy, Assert}
             v2 == [p \in DOMAIN s.val \cup stored |-> IF p \in stored THEN a.v ELSE s.val[p]]
  <1> HIDE DEF stored
  <1>1. u = [val |-> v2, access |-> a, changed |-> stored, n |-> s.n + 1]
    <2>1. s = [val |-> s.val, access |-> s.access, changed |-> s.changed, n |-> s.n]
      BY DEF SpacesHold
    <2>2. u = [s EXCEPT !.val = v2, !.access = a, !.changed = stored, !.n = @ + 1]
      BY DEF Update, stored
    <2> HIDE DEF u, v2
    <2> QED BY <2>1, <2>2
  <1> HIDE DEF u
  <1>2. \A p \in DOMAIN v2 : v2[p] \in Nat
    BY DEF SpacesHold
  <1>3. DOMAIN v2 = DOMAIN s.val \cup stored /\ v2 = [p \in DOMAIN v2 |-> v2[p]]
    OBVIOUS
  <1>4. \A p : ValueAt(u, p) = IF p \in stored THEN a.v ELSE ValueAt(s, p)
    BY <1>1 DEF ValueAt
  <1> HIDE DEF v2
  <1>5. SpacesHold(u)
    BY <1>1, <1>2, <1>3 DEF SpacesHold
  <1>6. u.access = a /\ u.changed = stored
    BY <1>1
  <1>7. \A p \in stored : ValueAt(u, p) = a.v
    BY <1>4
  <1>8. \A p : p \notin stored => ValueAt(u, p) = ValueAt(s, p)
    BY <1>4
  <1> QED BY <1>5, <1>6, <1>7, <1>8, Zenon DEF u, stored

(* The access before is found again where it was stored.                   *)
AccessFound(s) ==
  LET a == s.access
  IN  a.op # "none" =>
        /\ a.space # "rom" /\ a.i \in Indexes(a.space) =>
             a.space \in AllSpaces /\ ValueAt(s, space_read(s, a.space, a.i)) = a.v
        /\ a.op = "write" => Cardinality(s.changed) = 1
        /\ a.op = "set" /\ Cardinality(s.changed) > 1 => a.space = "xram" /\ a.i >= BankSize

(* MCON is read from its cell.                                             *)
LEMMA SfrPlace ==
  ASSUME NEW s, NEW u, ValueAt(u, Place("sfr", 0)) = ValueAt(s, Place("sfr", 0))
  PROVE  memctr(u) = memctr(s)
  BY DEF memctr

(* Behind the first bank xram shows the bank that MCON selects, or its own *)
(* cells.                                                                  *)
LEMMA HighPlaces ==
  ASSUME NEW s, SpacesHold(s), NEW i \in Nat, i >= BankSize
  PROVE  space_read(s, "xram", i) = IF memctr(s) < 4
           THEN Place(flashbank(memctr(s)), i % BankSize) ELSE Place("xram", i % BankSize)
  BY Spaces2530Sizes DEF space_read, read_xram

(* A cell of the flash is no register.                                     *)
LEMMA BanksAreNotSfr ==
  ASSUME NEW n \in 0 .. 3, NEW j, NEW k
  PROVE  Place(flashbank(n), j) # Place("sfr", k)
  BY BankNames DEF Place, Banks2530

(* What is written is found again, although it may be MCON itself (write). *)
LEMMA WriteFound ==
  ASSUME NEW s, SpacesHold(s), NEW space \in AllSpaces, NEW v \in PlaceValues, NEW i,
         space_write(s, space, i) # Assert
  PROVE  LET u == Update(s, {space_write(s, space, i)},
                         [op |-> "write", space |-> space, i |-> i, v |-> v])
         IN  SpacesHold(u) /\ AccessFound(u)
  <1> DEFINE p == space_write(s, space, i)
             a == [op |-> "write", space |-> space, i |-> i, v |-> v]
             u == Update(s, {p}, a)
             stored == {p} \ {Dummy, Assert}
  <1>1. a.v \in Nat /\ a.op = "write" /\ a.space = space /\ a.i = i /\ a.v = v
    BY Spaces2530Sizes
  <1>2. /\ SpacesHold(u) /\ u.access = a /\ u.changed = stored
        /\ \A q \in stored : ValueAt(u, q) = a.v
        /\ \A q : q \notin stored => ValueAt(u, q) = ValueAt(s, q)
    BY <1>1, UpdateHolds
  <1> HIDE DEF u, a
  <1>3. i \in Indexes(space) /\ IsCell(p)
    <2>1. i \in Indexes(space)
      BY DEF space_write
    <2>2. CASE space = "rom"
      BY <2>1, <2>2, PlacesAreCells DEF space_write
    <2>3. CASE space # "rom"
      BY <2>1, <2>3, ReadsCell DEF space_write
    <2> QED BY <2>1, <2>2, <2>3
  <1>4. stored = {p}
    BY <1>3 DEF IsCell
  <1>5. Cardinality(u.changed) = 1
    BY <1>2, <1>4, FS_Singleton
  <1>6. ASSUME space # "rom"
        PROVE  ValueAt(u, space_read(u, space, i)) = v
    <2>1. p = space_read(s, space, i)
      BY <1>3, <1>6 DEF space_write
    <2>2. ASSUME space = "xram", i >= BankSize
          PROVE  memctr(u) = memctr(s)
      <3>1. i \in Nat
        BY <1>3, <2>2, Spaces2530Sizes DEF Indexes, SizeOf, Banks2530
      <3>2. p = IF memctr(s) < 4
                THEN Place(flashbank(memctr(s)), i % BankSize) ELSE Place("xram", i % BankSize)
        BY <2>1, <2>2, <3>1, HighPlaces
      <3>3. p # Place("sfr", 0)
        <4>1. CASE memctr(s) < 4
          <5>1. memctr(s) \in 0 .. 3
            BY <4>1, Selected
          <5> QED BY <3>2, <4>1, <5>1, BanksAreNotSfr
        <4>2. CASE ~(memctr(s) < 4)
          BY <3>2, <4>2 DEF Place
        <4> QED BY <4>1, <4>2
      <3>4. ValueAt(u, Place("sfr", 0)) = ValueAt(s, Place("sfr", 0))
        BY <1>2, <1>4, <3>3
      <3> QED BY <3>4, SfrPlace
    <2>3. space_read(u, space, i) = p
      BY <1>3, <1>6, <2>1, <2>2, Reread
    <2> QED BY <1>1, <1>2, <1>4, <2>3
  <1>7. AccessFound(u)
    BY <1>1, <1>2, <1>5, <1>6 DEF AccessFound
  <1> QED BY <1>2, <1>7 DEF u, a

(* set changes the place that read finds, and others only behind the first *)
(* bank, where MCON is not (set).                                          *)
LEMMA SetPlaces ==
  ASSUME NEW s, SpacesHold(s), NEW space \in AllSpaces \ {"rom"}, NEW i \in Indexes(space)
  PROVE  /\ space_read(s, space, i) \in space_set(s, space, i)
         /\ space = "xram" /\ i >= BankSize => Place("sfr", 0) \notin space_set(s, space, i)
         /\ \/ space_set(s, space, i) = {space_read(s, space, i)}
            \/ space = "xram" /\ i >= BankSize
  <1>1. CASE space = "xram" /\ i >= BankSize
    <2> DEFINE j == i % BankSize
               set == {Place(flashbank(n), j) : n \in memctr(s) .. 3} \cup {Place("xram", j)}
    <2>1. i \in Nat
      BY <1>1, Spaces2530Sizes DEF Indexes, SizeOf, Banks2530
    <2>2. space_set(s, space, i) = set
      BY <1>1 DEF space_set
    <2>3. memctr(s) \in 0 .. 7
      BY Selected
    <2> HIDE DEF j
    <2>4. space_read(s, space, i) \in set
      <3>1. space_read(s, space, i)
              = IF memctr(s) < 4 THEN Place(flashbank(memctr(s)), j) ELSE Place("xram", j)
        BY <1>1, <2>1, HighPlaces DEF j
      <3>2. memctr(s) < 4 => memctr(s) \in memctr(s) .. 3
        BY <2>3
      <3> QED BY <3>1, <3>2
    <2>5. Place("sfr", 0) \notin set
      <3>1. Place("sfr", 0) # Place("xram", j)
        BY DEF Place
      <3>2. \A n \in memctr(s) .. 3 : n \in 0 .. 3
        BY <2>3
      <3>3. \A n \in memctr(s) .. 3 : Place(flashbank(n), j) # Place("sfr", 0)
        BY <3>2, BanksAreNotSfr
      <3> QED BY <3>1, <3>3
    <2> QED BY <1>1, <2>2, <2>4, <2>5
  <1>2. CASE ~(space = "xram" /\ i >= BankSize)
    BY <1>2 DEF space_set
  <1> QED BY <1>1, <1>2

(* What is set is found again (set).                                       *)
LEMMA SetFound ==
  ASSUME NEW s, SpacesHold(s), NEW space \in AllSpaces, NEW v \in PlaceValues, NEW i
  PROVE  LET u == Update(s, space_set(s, space, i),
                         [op |-> "set", space |-> space, i |-> i, v |-> v])
         IN  SpacesHold(u) /\ AccessFound(u)
  <1> DEFINE set == space_set(s, space, i)
             a == [op |-> "set", space |-> space, i |-> i, v |-> v]
             u == Update(s, set, a)
             stored == set \ {Dummy, Assert}
  <1>1. a.v \in Nat /\ a.op = "set" /\ a.space = space /\ a.i = i /\ a.v = v
    BY Spaces2530Sizes
  <1>2. /\ SpacesHold(u) /\ u.access = a /\ u.changed = stored
        /\ \A q \in stored : ValueAt(u, q) = a.v
        /\ \A q : q \notin stored => ValueAt(u, q) = ValueAt(s, q)
    BY <1>1, UpdateHolds
  <1> HIDE DEF u, a, set
  <1>3. ASSUME space # "rom", i \in Indexes(space)
        PROVE  ValueAt(u, space_read(u, space, i)) = v
    <2>1. space_read(s, space, i) \in stored
      BY <1>3, SetPlaces, ReadsCell DEF set, IsCell
    <2>2. ASSUME space = "xram", i >= BankSize
          PROVE  memctr(u) = memctr(s)
      <3>1. Place("sfr", 0) \notin stored
        BY <1>3, <2>2, SetPlaces DEF set
      <3> QED BY <1>2, <3>1, SfrPlace
    <2>3. space_read(u, space, i) = space_read(s, space, i)
      BY <1>3, <2>2, Reread
    <2> QED BY <1>1, <1>2, <2>1, <2>3
  <1>4. ASSUME ~(space = "xram" /\ i >= BankSize)
        PROVE  ~(Cardinality(u.changed) > 1)
    <2>0. \E p : set = {p}
      <3>1. CASE i \notin Indexes(space)
        BY <3>1 DEF set, space_set
      <3>2. CASE i \in Indexes(space) /\ space = "rom"
        BY <3>2 DEF set, space_set
      <3>3. CASE i \in Indexes(space) /\ space # "rom"
        BY <1>4, <3>3, SetPlaces DEF set
      <3> QED BY <3>1, <3>2, <3>3
    <2>1. PICK p : set = {p}
      BY <2>0
    <2>2. stored = {} \/ stored = {p}
      BY <2>1
    <2>3. Cardinality(stored) = 0 \/ Cardinality(stored) = 1
      BY <2>2, FS_EmptySet, FS_Singleton
    <2> HIDE DEF stored
    <2> QED BY <1>2, <2>3
  <1>5. AccessFound(u)
    BY <1>1, <1>2, <1>3, <1>4 DEF AccessFound
  <1> QED BY <1>2, <1>5 DEF u, a, set

SpacesInv(s) == SpacesHold(s) /\ AccessFound(s)

(* Every access preserves the invariant.                                   *)
LEMMA SpacesStep == SpacesInv(sp2530) /\ [SpacesNext]_sp2530 => SpacesInv(sp2530)'
  <1> SUFFICES ASSUME SpacesInv(sp2530), [SpacesNext]_sp2530
               PROVE  SpacesInv(sp2530')
    OBVIOUS
  <1>1. CASE SpaceWrite
    BY <1>1, WriteFound DEF SpaceWrite, SpacesInv
  <1>2. CASE SpaceSet
    BY <1>2, SetFound DEF SpaceSet, SpacesInv
  <1>3. CASE UNCHANGED sp2530
    BY <1>3
  <1> QED BY <1>1, <1>2, <1>3 DEF SpacesNext

(* Wherever and whatever the program writes, MCON and FMAP included, the   *)
(* four copies of the memory map find the same place (cl_address_space::   *)
(* read, get, write, set).                                                 *)
THEOREM AccessesAgreeAlways == SpacesInit /\ [][SpacesNext]_sp2530 => []AccessesAgree
  <1>1. SpacesInit => SpacesInv(sp2530)
    <2> SUFFICES ASSUME NEW m \in 0 .. 15, NEW f \in 0 .. 7,
                        NEW v, v = [p \in {Place("sfr", 0), Place("sfr", 1)} |-> IF p.i = 0 THEN m ELSE f],
                        sp2530 = [val |-> v, access |-> NoAccess, changed |-> {}, n |-> 0]
                 PROVE  SpacesInv(sp2530)
      BY DEF SpacesInit
    <2>1. SpacesHold(sp2530)
      BY DEF SpacesHold
    <2>2. sp2530.access.op = "none"
      BY DEF NoAccess
    <2> QED BY <2>1, <2>2 DEF SpacesInv, AccessFound
  <1>2. SpacesInv(sp2530) => AccessesAgree
    <2> SUFFICES ASSUME SpacesInv(sp2530)
                 PROVE  AccessesAgree
      OBVIOUS
    <2> DEFINE s == sp2530
               a == s.access
    <2>1. SpacesHold(s) /\ AccessFound(s)
      BY DEF SpacesInv
    <2>2. ASSUME a.op # "none", a.space # "rom", a.i \in Indexes(a.space)
          PROVE  /\ ValueAt(s, space_read(s, a.space, a.i)) = a.v
                 /\ ValueAt(s, space_get(s, a.space, a.i)) = a.v
                 /\ a.space = "sram" => ValueAt(s, space_read(s, "xram", a.i)) = a.v
                 /\ a.space = "sfr" => ValueAt(s, space_read(s, "xram", SfrAt + a.i)) = a.v
      <3>1. ValueAt(s, space_read(s, a.space, a.i)) = a.v
        BY <2>1, <2>2 DEF AccessFound
      <3>2. space_get(s, a.space, a.i) = space_read(s, a.space, a.i)
        BY <2>2 DEF space_get
      <3>3. ASSUME a.space = "sram"
            PROVE  space_read(s, "xram", a.i) = space_read(s, "sram", a.i)
        <4>1. a.i \in Nat /\ a.i < SramSize
          BY <2>2, <3>3, Spaces2530Sizes DEF Indexes, SizeOf, Banks2530
        <4> QED BY <4>1 DEF space_read, read_xram
      <3>4. ASSUME a.space = "sfr"
            PROVE  space_read(s, "xram", SfrAt + a.i) = space_read(s, "sfr", a.i)
        <4>1. a.i \in Nat /\ a.i < SfrSize
          BY <2>2, <3>4, Spaces2530Sizes DEF Indexes, SizeOf, Banks2530
        <4>2. space_read(s, "sfr", a.i) = Place("sfr", a.i)
          BY <2>2, <3>4 DEF space_read
        <4>3. read_xram(s, SfrAt + a.i) = Place("sfr", a.i)
          <5> DEFINE k == SfrAt + a.i
          <5>1. k \in SfrAt .. SfrAt + SfrSize - 1 /\ ~(k < SramSize) /\ k - SfrAt = a.i
            BY <4>1, Spaces2530Sizes
          <5> HIDE DEF k
          <5>2. read_xram(s, k) = Place("sfr", k - SfrAt)
            BY <5>1 DEF read_xram
          <5> QED BY <5>1, <5>2 DEF k
        <4> QED BY <4>2, <4>3 DEF space_read
      <3> QED BY <3>1, <3>2, <3>3, <3>4
    <2>3. /\ a.op = "write" => Cardinality(s.changed) = 1
          /\ a.op = "set" /\ Cardinality(s.changed) > 1 => a.space = "xram" /\ a.i >= BankSize
      BY <2>1 DEF AccessFound
    <2>4. ASSUME NEW i \in Indexes("rom"), space_read(s, "rom", i) # Assert
          PROVE  space_get(s, "rom", i) = space_read(s, "rom", i)
      <3>1. i \in Nat /\ fmap(s) \in 0 .. 7
        BY <2>1, Spaces2530Sizes, Selected DEF Indexes, SizeOf, Banks2530
      <3>2. read_rom(s, i) # Assert
        BY <2>4 DEF space_read
      <3>3. ~(/\ i >= BankSize /\ fmap(s) >= 4
              /\ ~(execFromSram(s) /\ i % BankSize < SramSize))
        BY <3>1, <3>2, Spaces2530Sizes DEF read_rom
      <3> QED BY <3>3 DEF space_get
    <2> QED BY <2>2, <2>3, <2>4 DEF AccessesAgree
  <1> QED BY <1>1, <1>2, SpacesStep, PTL
-----------------------------------------------------------------------------
(* The timers 1, 3 and 4: what the steps need to know of the record.       *)
Fields ==
  {"kind", "count", "NextCmpEvent", "up_down", "mode", "TR", "prescale", "systemTicks",
   "ValRegCMP", "RegCTL", "IOPin", "ExIOPin", "flags", "ircon", "OvfMask", "channelID",
   "high", "stale", "missed", "inside", "sent"}

\* the values of T
Word == -Half .. Half - 1

CtlType == [compare : BOOLEAN, out : 0 .. 7, edge : 0 .. 3, im : BOOLEAN]

TimerType(t) ==
  /\ DOMAIN t = Fields /\ t.kind \in {"t1", "t3", "t4"} /\ t.mode \in 0 .. 3
  /\ t.count \in Word /\ t.NextCmpEvent \in Word /\ t.up_down \in BOOLEAN
  /\ t.ValRegCMP \in [Chans(t.kind) -> Word] /\ t.RegCTL \in [Chans(t.kind) -> CtlType]
  /\ t.channelID \in Chans(t.kind) /\ t.prescale \in Nat \ {0} /\ t.systemTicks \in Nat

(* The ticks until T, going towards zero, gets there: one of zero goes all *)
(* the way round.                                                          *)
Gap(d) == IF d > 0 THEN d ELSE d + 2 * Half

\* the distance to the value of channel 0, the way the count goes
Toward(t) == IF t.mode = 3 /\ t.up_down THEN Behind(t, 0) ELSE Ahead(t, 0)

(* The prediction is not late for channel 0.                               *)
InTime(t) ==
  /\ t.NextCmpEvent # 0
  /\ t.RegCTL[0].compare /\ ~Downwards(t) => Gap(t.NextCmpEvent) <= Gap(Toward(t))

(* On a period that began at zero the count lies on it, and turns in time. *)
OnPeriod(t) ==
  /\ t.mode \in {2, 3} /\ 0 <= t.count /\ t.count <= t.ValRegCMP[0]
  /\ t.mode = 3 => IF t.up_down THEN 0 < t.count ELSE t.count < t.ValRegCMP[0]

TimerInv(t) ==
  /\ TimerType(t) /\ ~t.missed
  /\ Watched(t) => InTime(t)
  /\ t.inside => OnPeriod(t)
-----------------------------------------------------------------------------
(* A remainder of a number near zero.                                      *)
LEMMA ModNear ==
  ASSUME NEW m \in Nat \ {0}, NEW y \in Int
  PROVE  /\ y % m \in 0 .. m - 1
         /\ 0 <= y /\ y < m => y % m = y
         /\ m <= y /\ y < m + m => y % m = y - m
         /\ -m <= y /\ y < 0 => y % m = y + m
  <1>1. y % m \in 0 .. m - 1
    OBVIOUS
  <1>2. 0 <= y /\ y < m => y % m = y
    OBVIOUS
  <1>3. m <= y /\ y < m + m => y % m = y - m
    OBVIOUS
  <1>4. -m <= y /\ y < 0 => y % m = y + m
    OBVIOUS
  <1> QED BY <1>1, <1>2, <1>3, <1>4

(* The constants that the arithmetic needs.                                *)
LEMMA TimerSizes ==
  /\ Half \in Nat /\ Half > 0 /\ 2 * Half \in Nat \ {0}
  /\ Part \in Nat \ {0} /\ 0 \in Chan1 /\ Chan1 \subseteq 0 .. 4
  BY Timer2530Assumption

(* Assignments to T wrap.                                                  *)
LEMMA Wraps ==
  ASSUME NEW x \in Int
  PROVE  /\ ToT(x) \in Word
         /\ -(3 * Half) <= x /\ x < 3 * Half
              => ToT(x) = IF x < -Half THEN x + 2 * Half
                          ELSE IF x >= Half THEN x - 2 * Half ELSE x
  <1> DEFINE m == 2 * Half
             y == x + Half
             r == y % m
  <1>1. Half \in Nat /\ Half > 0 /\ m \in Nat \ {0} /\ m = Half + Half /\ y \in Int
    BY TimerSizes
  <1>2. /\ r \in 0 .. m - 1
        /\ 0 <= y /\ y < m => r = y
        /\ m <= y /\ y < m + m => r = y - m
        /\ -m <= y /\ y < 0 => r = y + m
    <2> HIDE DEF m, y
    <2> QED BY <1>1, ModNear
  <1>3. ToT(x) = r - Half
    BY DEF ToT
  <1> HIDE DEF r
  <1>4. r - Half \in -Half .. Half - 1
    BY <1>1, <1>2
  <1>5. -(3 * Half) <= x /\ x < 3 * Half
          => r - Half = IF x < -Half THEN x + 2 * Half
                        ELSE IF x >= Half THEN x - 2 * Half ELSE x
    BY <1>1, <1>2
  <1> QED BY <1>3, <1>4, <1>5 DEF Word

(* A tick less: the gap shrinks, and is gone at zero.                      *)
LEMMA GapShrinks ==
  ASSUME NEW d \in Word
  PROVE  /\ Gap(d) \in 1 .. 2 * Half /\ ToT(d - 1) \in Word
         /\ d # 0 => Gap(d) < 2 * Half
         /\ ToT(d - 1) = 0 <=> Gap(d) = 1
         /\ Gap(d) # 1 => Gap(ToT(d - 1)) = Gap(d) - 1
  <1>1. Half \in Nat /\ Half > 0 /\ d \in Int /\ -Half <= d /\ d < Half
    BY TimerSizes DEF Word
  <1> DEFINE e == ToT(d - 1)
  <1>2. e \in Word /\ e = IF d - 1 < -Half THEN d - 1 + 2 * Half ELSE d - 1
    BY <1>1, Wraps
  <1> HIDE DEF e
  <1>3. Gap(d) \in 1 .. 2 * Half /\ (d # 0 => Gap(d) < 2 * Half)
    BY <1>1 DEF Gap
  <1>4. e = 0 <=> Gap(d) = 1
    BY <1>1, <1>2 DEF Gap
  <1>5. Gap(d) # 1 => Gap(e) = Gap(d) - 1
    BY <1>1, <1>2 DEF Gap
  <1> QED BY <1>2, <1>3, <1>4, <1>5 DEF e

(* The count moves by one, and so does the distance.                       *)
LEMMA DistanceMoves ==
  ASSUME NEW c \in Word, NEW v \in Word
  PROVE  /\ ToT(v - c) \in Word /\ (ToT(v - c) = 0 <=> c = v)
         /\ ToT(c - v) \in Word /\ (ToT(c - v) = 0 <=> c = v)
         /\ ToT(v - ToT(c + 1)) = ToT(ToT(v - c) - 1)
         /\ ToT(ToT(c - 1) - v) = ToT(ToT(c - v) - 1)
         /\ ToT(c + 1) \in Word /\ ToT(c - 1) \in Word
  <1>1. /\ Half \in Nat /\ Half > 0 /\ c \in Int /\ -Half <= c /\ c < Half
        /\ v \in Int /\ -Half <= v /\ v < Half
    BY TimerSizes DEF Word
  <1> DEFINE N(x) == IF x < -Half THEN x + 2 * Half
                     ELSE IF x >= Half THEN x - 2 * Half ELSE x
  <1>2. \A x \in Int : -(3 * Half) <= x /\ x < 3 * Half => ToT(x) = N(x)
    BY Wraps
  <1>3. \A x \in Int : ToT(x) \in Word
    BY Wraps
  <1>4. ToT(v - c) = N(v - c) /\ ToT(c - v) = N(c - v) /\ ToT(c + 1) = N(c + 1)
        /\ ToT(c - 1) = N(c - 1)
    <2> HIDE DEF N
    <2> QED BY <1>1, <1>2
  <1>5. /\ N(v - c) \in -Half .. Half - 1 /\ N(c - v) \in -Half .. Half - 1
        /\ N(c + 1) \in -Half .. Half - 1 /\ N(c - 1) \in -Half .. Half - 1
    BY <1>1
  <1>6. /\ ToT(v - N(c + 1)) = N(v - N(c + 1)) /\ ToT(N(c - 1) - v) = N(N(c - 1) - v)
        /\ ToT(N(v - c) - 1) = N(N(v - c) - 1) /\ ToT(N(c - v) - 1) = N(N(c - v) - 1)
    <2> HIDE DEF N
    <2> QED BY <1>1, <1>2, <1>5
  <1>7. N(v - N(c + 1)) = N(N(v - c) - 1)
    BY <1>1
  <1>8. N(N(c - 1) - v) = N(N(c - v) - 1)
    BY <1>1
  <1>9. (N(v - c) = 0 <=> c = v) /\ (N(c - v) = 0 <=> c = v)
    BY <1>1
  <1>10. /\ ToT(v - c) \in Word /\ ToT(c - v) \in Word
         /\ ToT(c + 1) \in Word /\ ToT(c - 1) \in Word
    BY <1>1, <1>3
  <1> HIDE DEF N
  <1> QED BY <1>4, <1>6, <1>7, <1>8, <1>9, <1>10

(* The rule of get_next_cc_event takes no distance that is later.          *)
Chosen(p, d) == IF (d > 0 /\ d < p) \/ (p = -1 /\ d # 0) THEN d ELSE p

ChosenXram(p, d) == IF d > 0 /\ d < p THEN d ELSE p

(* The rules of the channels keep the nearer of two events, and take the   *)
(* first one for none.                                                     *)
LEMMA ChosenIsSooner ==
  ASSUME NEW p \in Word, NEW d \in Word, p # 0
  PROVE  /\ Chosen(p, d) \in Word /\ Chosen(p, d) # 0
         /\ ChosenXram(p, d) \in Word /\ ChosenXram(p, d) # 0
         /\ \A g \in 1 .. 2 * Half :
              Gap(p) <= g => Gap(Chosen(p, d)) <= g /\ Gap(ChosenXram(p, d)) <= g
         /\ p = -1 => Gap(Chosen(p, d)) <= Gap(d)
  <1>1. /\ Half \in Nat /\ Half > 0 /\ p \in Int /\ -Half <= p /\ p < Half
        /\ d \in Int /\ -Half <= d /\ d < Half
    BY TimerSizes DEF Word
  <1>2. Chosen(p, d) \in Word /\ ChosenXram(p, d) \in Word
    BY DEF Chosen, ChosenXram
  <1>3. Chosen(p, d) # 0 /\ ChosenXram(p, d) # 0
    BY <1>1 DEF Chosen, ChosenXram
  <1>4. \A g \in 1 .. 2 * Half : Gap(p) <= g => Gap(Chosen(p, d)) <= g
    BY <1>1 DEF Chosen, Gap
  <1>5. \A g \in 1 .. 2 * Half : Gap(p) <= g => Gap(ChosenXram(p, d)) <= g
    BY <1>1 DEF ChosenXram, Gap
  <1>6. p = -1 => Gap(Chosen(p, d)) <= Gap(d)
    BY <1>1 DEF Chosen, Gap
  <1> QED BY <1>2, <1>3, <1>4, <1>5, <1>6
-----------------------------------------------------------------------------
(* A step that changes no other field.                                     *)
Only(t, u, S) == DOMAIN u = Fields /\ \A f \in Fields \ S : u[f] = t[f]

(* A visit of get_next_cc_event brings the event nearer or leaves it.      *)
Hastens(u, r) ==
  /\ Only(u, r, {"NextCmpEvent"})
  /\ r.NextCmpEvent \in Word \ {0}
  /\ \A g \in 1 .. 2 * Half : Gap(u.NextCmpEvent) <= g => Gap(r.NextCmpEvent) <= g

(* Visits follow one another.                                              *)
LEMMA HastensTwice ==
  ASSUME NEW u, NEW r, NEW w, Hastens(u, r), Hastens(r, w)
  PROVE  Hastens(u, w)
  BY DEF Hastens, Only

(* The rules as functions of the prediction alone.                         *)
LEMMA SoonerIs ==
  ASSUME NEW u, DOMAIN u = Fields, NEW d
  PROVE  /\ Only(u, Sooner(u, d), {"NextCmpEvent"})
         /\ Sooner(u, d).NextCmpEvent = Chosen(u.NextCmpEvent, d)
         /\ Only(u, SoonerXram(u, d), {"NextCmpEvent"})
         /\ SoonerXram(u, d).NextCmpEvent = ChosenXram(u.NextCmpEvent, d)
  <1>1. Only(u, u, {"NextCmpEvent"})
    BY DEF Only
  <1>2. Only(u, Predict(u, d), {"NextCmpEvent"}) /\ Predict(u, d).NextCmpEvent = d
    BY DEF Only, Predict, Fields
  <1>3. /\ Only(u, Sooner(u, d), {"NextCmpEvent"})
        /\ Sooner(u, d).NextCmpEvent = Chosen(u.NextCmpEvent, d)
    BY <1>1, <1>2 DEF Sooner, Chosen
  <1>4. /\ Only(u, SoonerXram(u, d), {"NextCmpEvent"})
        /\ SoonerXram(u, d).NextCmpEvent = ChosenXram(u.NextCmpEvent, d)
    BY <1>1, <1>2 DEF SoonerXram, ChosenXram
  <1> QED BY <1>3, <1>4

(* A distance of a channel is taken only when it is nearer.                *)
LEMMA SoonerHastens ==
  ASSUME NEW u, DOMAIN u = Fields, u.NextCmpEvent \in Word \ {0}, NEW d \in Word
  PROVE  /\ Hastens(u, u) /\ Hastens(u, Sooner(u, d)) /\ Hastens(u, SoonerXram(u, d))
  <1>1. Hastens(u, u)
    BY DEF Hastens, Only
  <1>2. Hastens(u, Sooner(u, d))
    BY SoonerIs, ChosenIsSooner DEF Hastens
  <1>3. Hastens(u, SoonerXram(u, d))
    BY SoonerIs, ChosenIsSooner DEF Hastens
  <1> QED BY <1>1, <1>2, <1>3

(* The distances of a timer are values of T.                               *)
LEMMA Distances ==
  ASSUME NEW t, TimerType(t), NEW i \in Chans(t.kind)
  PROVE  /\ Ahead(t, i) \in Word /\ Behind(t, i) \in Word
         /\ t.ValRegCMP[i] \in Word /\ t.RegCTL[i] \in CtlType
         /\ 0 \in Chans(t.kind) /\ (Toward(t) \in Word) /\ t.ValRegCMP[0] \in Word
  <1>1. 0 \in Chans(t.kind)
    BY TimerSizes DEF Chans
  <1>2. /\ t.ValRegCMP[i] \in Word /\ t.RegCTL[i] \in CtlType /\ t.count \in Word
        /\ t.ValRegCMP[0] \in Word
    BY <1>1 DEF TimerType
  <1>3. Ahead(t, i) \in Word /\ Behind(t, i) \in Word
    BY <1>2, DistanceMoves DEF Ahead, Behind
  <1>4. Ahead(t, 0) \in Word /\ Behind(t, 0) \in Word
    BY <1>2, DistanceMoves DEF Ahead, Behind
  <1> QED BY <1>1, <1>2, <1>3, <1>4 DEF Toward

(* What get_next_cc_event leaves.                                          *)
LEMMA NextEvent ==
  ASSUME NEW t, TimerType(t)
  PROVE  /\ Only(t, get_next_cc_event(t), {"NextCmpEvent", "stale"})
         /\ TimerType(get_next_cc_event(t)) /\ InTime(get_next_cc_event(t))
         /\ ~get_next_cc_event(t).stale
  <1> DEFINE b == [Predict(t, -1) EXCEPT !.stale = FALSE]
  <1>1. Only(t, b, {"NextCmpEvent", "stale"}) /\ b.NextCmpEvent = -1 /\ b.stale = FALSE
    BY DEF TimerType, Only, Predict, Fields
  <1>2. -1 \in Word \ {0}
    BY TimerSizes DEF Word
  <1> HIDE DEF b
  (* a record that differs in the prediction only has the same distances *)
  <1>3. ASSUME NEW u, Only(t, u, {"NextCmpEvent", "stale"}), u.NextCmpEvent \in Word
        PROVE  /\ TimerType(u) /\ Toward(u) = Toward(t) /\ u.kind = t.kind
               /\ u.RegCTL = t.RegCTL /\ Downwards(u) = Downwards(t)
    <2>1. /\ u.kind = t.kind /\ u.RegCTL = t.RegCTL /\ u.count = t.count /\ u.mode = t.mode
          /\ u.up_down = t.up_down /\ u.ValRegCMP = t.ValRegCMP /\ u.channelID = t.channelID
          /\ u.prescale = t.prescale /\ u.systemTicks = t.systemTicks
      BY <1>3 DEF Only, Fields
    <2>2. TimerType(u)
      BY <1>3, <2>1 DEF TimerType, Only
    <2> QED BY <2>1, <2>2 DEF Toward, Ahead, Behind, Downwards
  <1>4. b.NextCmpEvent \in Word \ {0} /\ DOMAIN b = Fields
    BY <1>1, <1>2 DEF Only
  <1>5. ASSUME NEW u, Hastens(b, u), NEW w, Hastens(u, w) PROVE Hastens(b, w)
    BY <1>5, HastensTwice
  <1>6. Hastens(b, b)
    BY <1>4 DEF Hastens, Only
  <1>7. ASSUME NEW u, Hastens(b, u)
        PROVE  /\ Only(t, u, {"NextCmpEvent", "stale"}) /\ u.NextCmpEvent \in Word \ {0}
               /\ DOMAIN u = Fields /\ u.stale = FALSE
    BY <1>1, <1>7 DEF Hastens, Only, Fields
  (* the visits of the other channels *)
  <1>8. ASSUME NEW u, Hastens(b, u), NEW i \in 0 .. 4, t.kind = "t1"
        PROVE  Hastens(b, Visit1(u, i)) /\ Hastens(u, Visit1(u, i))
    <2>1. TimerType(u) /\ u.kind = t.kind /\ DOMAIN u = Fields /\ u.NextCmpEvent \in Word \ {0}
      BY <1>3, <1>7, <1>8
    <2>2. CASE i \in Chan1
      <3>1. i \in Chans(u.kind)
        BY <1>8, <2>1, <2>2 DEF Chans
      <3>2. Ahead(u, i) \in Word /\ Behind(u, i) \in Word
        BY <2>1, <3>1, Distances
      <3>3. Hastens(u, Visit1(u, i))
        BY <2>1, <3>2, SoonerHastens DEF Visit1
      <3> QED BY <1>5, <1>8, <3>3
    <2>3. CASE i \notin Chan1
      <3>1. Hastens(u, u)
        BY <2>1 DEF Hastens, Only
      <3> QED BY <1>8, <2>3, <3>1 DEF Visit1
    <2> QED BY <2>2, <2>3
  <1>9. ASSUME NEW u, Hastens(b, u), NEW i \in {0, 1}, t.kind # "t1"
        PROVE  Hastens(b, Visit34(u, i)) /\ Hastens(u, Visit34(u, i))
    <2>1. TimerType(u) /\ u.kind = t.kind /\ DOMAIN u = Fields /\ u.NextCmpEvent \in Word \ {0}
      BY <1>3, <1>7, <1>9
    <2>2. i \in Chans(u.kind)
      BY <1>9, <2>1 DEF Chans
    <2>3. Ahead(u, i) \in Word /\ Behind(u, i) \in Word
      BY <2>1, <2>2, Distances
    <2>4. Hastens(u, Visit34(u, i))
      BY <2>1, <2>3, SoonerHastens DEF Visit34
    <2> QED BY <1>5, <1>9, <2>4
  (* channel 0 comes first and sets the event *)
  <1> DEFINE First(u) == t.RegCTL[0].compare /\ ~Downwards(t)
                           => Gap(u.NextCmpEvent) <= Gap(Toward(t))
  <1>10. /\ TimerType(b) /\ Toward(b) = Toward(t) /\ b.kind = t.kind /\ b.RegCTL = t.RegCTL
         /\ Downwards(b) = Downwards(t)
    BY <1>1, <1>2, <1>3
  <1>11. Toward(t) \in Word /\ Gap(Toward(t)) \in 1 .. 2 * Half
    <2>1. 0 \in Chans(t.kind)
      BY TimerSizes DEF Chans
    <2>2. Toward(t) \in Word
      BY <2>1, Distances
    <2> QED BY <2>2, GapShrinks
  <1>12. Gap(Sooner(b, Toward(t)).NextCmpEvent) <= Gap(Toward(t))
    BY <1>1, <1>2, <1>4, <1>11, SoonerIs, ChosenIsSooner
  <1>13. t.kind = "t1" => First(Visit1(b, 0))
    <2>1. 0 \in Chan1 /\ ~(0 >= 3)
      BY TimerSizes
    <2>2. t.RegCTL[0].compare => Visit1(b, 0) = Sooner(b, Toward(b))
      BY <1>10, <2>1 DEF Visit1, Toward
    <2> QED BY <1>10, <1>12, <2>2
  <1>14. t.kind # "t1" => First(Visit34(b, 0))
    <2>1. t.kind # "t1" /\ ~Downwards(t) => b.mode # 1
      BY <1>10 DEF Downwards
    <2>2. t.kind # "t1" /\ ~Downwards(t) /\ t.RegCTL[0].compare
            => Visit34(b, 0) = Sooner(b, Toward(b))
      BY <1>10, <2>1 DEF Visit34, Toward
    <2> QED BY <1>10, <1>12, <2>2
  <1>15. ASSUME NEW u, NEW w, First(u), Hastens(u, w) PROVE First(w)
    BY <1>11, <1>15 DEF Hastens
  <1>16. ASSUME NEW r, Hastens(b, r), First(r)
         PROVE  /\ Only(t, r, {"NextCmpEvent", "stale"})
                /\ TimerType(r) /\ InTime(r) /\ ~r.stale
    <2>1. Only(t, r, {"NextCmpEvent", "stale"}) /\ r.NextCmpEvent \in Word \ {0} /\ ~r.stale
      BY <1>7, <1>16
    <2>2. /\ TimerType(r) /\ Toward(r) = Toward(t) /\ r.RegCTL = t.RegCTL
          /\ Downwards(r) = Downwards(t)
      BY <1>3, <2>1
    <2> QED BY <1>16, <2>1, <2>2 DEF InTime
  <1>17. CASE t.kind = "t1"
    <2> DEFINE v0 == Visit1(b, 0)
               v1 == Visit1(v0, 1)
               v2 == Visit1(v1, 2)
               v3 == Visit1(v2, 3)
               v4 == Visit1(v3, 4)
    <2>0. get_next_cc_event(t) = v4
      BY <1>17 DEF get_next_cc_event, timer1_get_next_cc_event, b
    <2>1. Hastens(b, v0) /\ First(v0)
      BY <1>6, <1>8, <1>13, <1>17
    <2> HIDE DEF First, v0, v1, v2, v3, v4
    <2>2. Hastens(b, v1) /\ First(v1)
      BY <1>8, <1>15, <1>17, <2>1 DEF v1
    <2>3. Hastens(b, v2) /\ First(v2)
      BY <1>8, <1>15, <1>17, <2>2 DEF v2
    <2>4. Hastens(b, v3) /\ First(v3)
      BY <1>8, <1>15, <1>17, <2>3 DEF v3
    <2>5. Hastens(b, v4) /\ First(v4)
      BY <1>8, <1>15, <1>17, <2>4 DEF v4
    <2> QED BY <1>16, <2>0, <2>5
  <1>18. CASE t.kind # "t1"
    <2> DEFINE v0 == Visit34(b, 0)
               v1 == Visit34(v0, 1)
    <2>0. get_next_cc_event(t) = v1
      <3>1. t.kind \in {"t3", "t4"}
        BY <1>18 DEF TimerType
      <3> QED BY <3>1 DEF get_next_cc_event, timer3_get_next_cc_event,
                          timer4_get_next_cc_event, b
    <2>1. Hastens(b, v0) /\ First(v0)
      BY <1>6, <1>9, <1>14, <1>18
    <2> HIDE DEF First, v0, v1
    <2>2. Hastens(b, v1) /\ First(v1)
      BY <1>9, <1>15, <1>18, <2>1 DEF v1
    <2> QED BY <1>16, <2>0, <2>2
  <1> QED BY <1>17, <1>18
-----------------------------------------------------------------------------
(* What a visit of the channels may change: not the count, nor the value   *)
(* of channel 0 while it compares or while a period is followed.           *)
Settled(u, r) ==
  /\ TimerType(r) /\ r.kind = u.kind /\ r.count = u.count /\ r.up_down = u.up_down
  /\ r.mode = u.mode /\ r.RegCTL = u.RegCTL /\ r.missed = u.missed /\ u.sent \subseteq r.sent
  /\ u.RegCTL[0].compare => r.ValRegCMP[0] = u.ValRegCMP[0]
  /\ r.inside => u.inside /\ r.ValRegCMP[0] = u.ValRegCMP[0]

(* Visits of the channels follow one another.                              *)
LEMMA SettledTwice ==
  ASSUME NEW t, NEW u, NEW r, Settled(t, u), Settled(u, r)
  PROVE  Settled(t, r)
  BY DEF Settled

\* and it leaves the prediction to get_next_cc_event
Visited(u, r) == Settled(u, r) /\ r.NextCmpEvent = u.NextCmpEvent /\ r.stale = u.stale

(* The same with the prediction left alone.                                *)
LEMMA VisitedTwice ==
  ASSUME NEW t, NEW u, NEW r, Visited(t, u), Visited(u, r)
  PROVE  Visited(t, r)
  BY SettledTwice DEF Visited

\* the fields that nothing depends on
Signals == {"TR", "IOPin", "ExIOPin", "flags", "ircon", "OvfMask", "high", "sent"}

(* A change of signals only is such a visit.                               *)
LEMMA SignalsSettle ==
  ASSUME NEW t, TimerType(t), NEW r, Only(t, r, Signals), t.sent \subseteq r.sent
  PROVE  Visited(t, r) /\ r.ValRegCMP = t.ValRegCMP /\ r.inside = t.inside
  <1>1. /\ r.kind = t.kind /\ r.RegCTL = t.RegCTL /\ r.count = t.count /\ r.mode = t.mode
        /\ r.up_down = t.up_down /\ r.ValRegCMP = t.ValRegCMP /\ r.channelID = t.channelID
        /\ r.prescale = t.prescale /\ r.systemTicks = t.systemTicks /\ r.missed = t.missed
        /\ r.NextCmpEvent = t.NextCmpEvent /\ r.stale = t.stale /\ r.inside = t.inside
    BY DEF Only, Fields, Signals
  <1>2. TimerType(r)
    BY <1>1 DEF TimerType, Only
  <1> QED BY <1>1, <1>2 DEF Visited, Settled

(* get_next_cc_event settles as well.                                      *)
LEMMA NextSettles ==
  ASSUME NEW t, TimerType(t)
  PROVE  Settled(t, get_next_cc_event(t))
  <1> DEFINE r == get_next_cc_event(t)
  <1>1. Only(t, r, {"NextCmpEvent", "stale"}) /\ TimerType(r)
    BY NextEvent
  <1> HIDE DEF r
  <1>2. /\ r.kind = t.kind /\ r.RegCTL = t.RegCTL /\ r.count = t.count /\ r.mode = t.mode
        /\ r.up_down = t.up_down /\ r.ValRegCMP = t.ValRegCMP /\ r.missed = t.missed
        /\ r.inside = t.inside /\ r.sent = t.sent
    BY <1>1 DEF Only, Fields
  <1> QED BY <1>1, <1>2 DEF Settled, r

(* A channel that compares reports a match; one that waits for an edge     *)
(* takes the count for its value.                                          *)
LEMMA CompareSettles ==
  ASSUME NEW t, TimerType(t), NEW i
  PROVE  /\ Visited(t, CompareAt(t, i))
         /\ i = 0 /\ t.count = t.ValRegCMP[0] => 0 \in CompareAt(t, i).sent
  <1>1. Only(t, CompareAt(t, i), Signals) /\ t.sent \subseteq CompareAt(t, i).sent
    BY DEF CompareAt, Only, Fields, Signals, TimerType
  <1>2. i = 0 /\ t.count = t.ValRegCMP[0] => 0 \in CompareAt(t, i).sent
    BY DEF CompareAt, Matches, Fields, TimerType
  <1> QED BY <1>1, <1>2, SignalsSettle

(* Looking at the pin of a channel.                                        *)
LEMMA SeenSettles ==
  ASSUME NEW t, TimerType(t), NEW i
  PROVE  Visited(t, Seen(t, i)) /\ TimerType(Seen(t, i))
  <1>1. Only(t, Seen(t, i), Signals) /\ t.sent \subseteq Seen(t, i).sent
    BY DEF Seen, Only, Fields, Signals, TimerType
  <1> QED BY <1>1, SignalsSettle DEF Visited, Settled

(* Setting a flag, with or without a request.                              *)
LEMMA FlagSettles ==
  ASSUME NEW t, TimerType(t), NEW b
  PROVE  Visited(t, Flag(t, b)) /\ Visited(t, [Flag(t, b) EXCEPT !.ircon = TRUE])
  <1>1. Only(t, Flag(t, b), Signals) /\ t.sent \subseteq Flag(t, b).sent
    BY DEF Flag, Only, Fields, Signals, TimerType
  <1>2. /\ Only(t, [Flag(t, b) EXCEPT !.ircon = TRUE], Signals)
        /\ t.sent \subseteq [Flag(t, b) EXCEPT !.ircon = TRUE].sent
    BY DEF Flag, Only, Fields, Signals, TimerType
  <1> QED BY <1>1, <1>2, SignalsSettle

(* A capture stores the count in the value of a channel that does not      *)
(* compare; one in channel 0 ends the period that is followed.             *)
LEMMA StoreSettles ==
  ASSUME NEW t, TimerType(t), NEW i \in Chans(t.kind), ~t.RegCTL[i].compare, NEW c \in Word,
         NEW j \in Chans(t.kind), NEW h
  PROVE  /\ Visited(t, [t EXCEPT !.ValRegCMP[i] = c, !.inside = @ /\ i # 0])
         /\ Visited(t, [t EXCEPT !.ValRegCMP[i] = c, !.channelID = j, !.high = h,
                                 !.inside = @ /\ i # 0])
  <1> DEFINE v == [t.ValRegCMP EXCEPT ![i] = c]
  <1>1. v \in [Chans(t.kind) -> Word] /\ (i # 0 => v[0] = t.ValRegCMP[0])
    BY TimerSizes DEF TimerType, Chans
  <1> HIDE DEF v
  <1>2. ASSUME NEW r, Only(t, r, {"ValRegCMP", "channelID", "high", "inside"}),
               r.ValRegCMP = v, r.channelID \in Chans(t.kind), r.inside => t.inside /\ i # 0
        PROVE  Visited(t, r)
    <2>1. /\ r.kind = t.kind /\ r.RegCTL = t.RegCTL /\ r.count = t.count /\ r.mode = t.mode
          /\ r.up_down = t.up_down /\ r.prescale = t.prescale /\ r.systemTicks = t.systemTicks
          /\ r.missed = t.missed /\ r.NextCmpEvent = t.NextCmpEvent /\ r.stale = t.stale
          /\ r.sent = t.sent
      BY <1>2 DEF Only, Fields
    <2>2. TimerType(r)
      BY <1>1, <1>2, <2>1 DEF TimerType, Only
    <2>3. t.RegCTL[0].compare => r.ValRegCMP[0] = t.ValRegCMP[0]
      BY <1>1, <1>2
    <2>4. r.inside => t.inside /\ r.ValRegCMP[0] = t.ValRegCMP[0]
      BY <1>1, <1>2
    <2> QED BY <2>1, <2>2, <2>3, <2>4 DEF Visited, Settled
  <1> DEFINE p == [t EXCEPT !.ValRegCMP[i] = c, !.inside = @ /\ i # 0]
             q == [t EXCEPT !.ValRegCMP[i] = c, !.channelID = j, !.high = h,
                            !.inside = @ /\ i # 0]
  <1>3. DOMAIN t = Fields /\ t.channelID \in Chans(t.kind)
    BY DEF TimerType
  <1>4. /\ Only(t, p, {"ValRegCMP", "channelID", "high", "inside"}) /\ p.ValRegCMP = v
        /\ p.channelID = t.channelID /\ (p.inside => t.inside /\ i # 0)
    BY <1>3 DEF Only, Fields, v
  <1>5. /\ Only(t, q, {"ValRegCMP", "channelID", "high", "inside"}) /\ q.ValRegCMP = v
        /\ q.channelID = j /\ (q.inside => t.inside /\ i # 0)
    BY <1>3 DEF Only, Fields, v
  <1> HIDE DEF p, q
  <1>6. Visited(t, p) /\ Visited(t, q)
    BY <1>2, <1>3, <1>4, <1>5
  <1> QED BY <1>6 DEF p, q

(* A visit of CaptureCompare, whatever the channel does.                   *)
LEMMA CaptureVisits ==
  ASSUME NEW t, TimerType(t)
  PROVE  /\ t.kind = "t1" => \A i \in 0 .. 4 : /\ Visited(t, timer1_Visit(t, i))
                                               /\ Visited(t, timer1_VisitXram(t, i))
         /\ t.kind # "t1" => \A i \in {0, 1} : Visited(t, Visit34CC(t, i))
         /\ t.RegCTL[0].compare /\ t.count = t.ValRegCMP[0]
              => /\ t.kind = "t1" => 0 \in timer1_Visit(t, 0).sent
                 /\ t.kind # "t1" => 0 \in Visit34CC(t, 0).sent
  <1>1. \A u : TimerType(u) => Visited(u, u)
    BY DEF Visited, Settled
  <1>2. ASSUME NEW i \in 0 .. 4, t.kind = "t1", i \in Chan1, ~t.RegCTL[i].compare
        PROVE  /\ Visited(t, Seen(t, i)) /\ Visited(t, timer1_Store(Seen(t, i), i))
               /\ TimerType(timer1_Store(Seen(t, i), i))
    <2> DEFINE s == Seen(t, i)
               u == [s EXCEPT !.ValRegCMP[i] = s.count, !.channelID = i, !.high = FALSE,
                              !.inside = @ /\ i # 0]
    <2>1. Visited(t, s) /\ TimerType(s)
      BY SeenSettles
    <2> HIDE DEF s
    <2>2. i \in Chans(s.kind) /\ ~s.RegCTL[i].compare /\ s.count \in Word
      BY <1>2, <2>1 DEF Visited, Settled, Chans, TimerType
    <2>3. Visited(s, u)
      BY <2>1, <2>2, StoreSettles
    <2> HIDE DEF u
    <2>4. TimerType(u) /\ Visited(t, u)
      BY <2>1, <2>3, VisitedTwice DEF Visited, Settled
    <2>5. Visited(t, [Flag(u, 0) EXCEPT !.ircon = TRUE])
      BY <2>4, FlagSettles, VisitedTwice
    <2>6. timer1_Store(s, i) = u \/ timer1_Store(s, i) = [Flag(u, 0) EXCEPT !.ircon = TRUE]
      BY DEF timer1_Store, u
    <2>7. Visited(t, timer1_Store(s, i))
      BY <2>4, <2>5, <2>6
    <2> QED BY <2>1, <2>7 DEF s, Visited, Settled
  <1>3. ASSUME NEW i \in 0 .. 4, t.kind = "t1"
        PROVE  Visited(t, timer1_Visit(t, i)) /\ Visited(t, timer1_VisitXram(t, i))
    <2>1. CASE i \notin Chan1
      BY <1>1, <2>1 DEF timer1_Visit, timer1_VisitXram
    <2>2. CASE i \in Chan1 /\ t.RegCTL[i].compare
      BY <2>2, CompareSettles DEF timer1_Visit, timer1_VisitXram
    <2>3. CASE i \in Chan1 /\ ~t.RegCTL[i].compare
      <3> DEFINE u == timer1_Store(Seen(t, i), i)
      <3>1. Visited(t, Seen(t, i)) /\ Visited(t, u) /\ TimerType(u)
        BY <1>2, <1>3, <2>3
      <3> HIDE DEF u
      <3>2. Visited(t, Flag(u, i)) /\ Visited(t, [Flag(u, i) EXCEPT !.ircon = TRUE])
        BY <3>1, FlagSettles, VisitedTwice
      <3>3. timer1_Visit(t, i) \in {Seen(t, i), u, Flag(u, i)}
        BY <2>3 DEF timer1_Visit, u
      <3>4. timer1_VisitXram(t, i) \in {Seen(t, i), u, [Flag(u, i) EXCEPT !.ircon = TRUE]}
        BY <2>3 DEF timer1_VisitXram, u
      <3> QED BY <3>1, <3>2, <3>3, <3>4
    <2> QED BY <2>1, <2>2, <2>3
  <1>4. ASSUME NEW i \in {0, 1}, t.kind # "t1"
        PROVE  Visited(t, Visit34CC(t, i))
    <2>1. CASE t.RegCTL[i].compare
      BY <2>1, CompareSettles DEF Visit34CC
    <2>2. CASE ~t.RegCTL[i].compare
      <3> DEFINE s == Seen(t, i)
                 u == [s EXCEPT !.ValRegCMP[i] = 0, !.inside = @ /\ i # 0]
                 b == i + decal(t.kind)
      <3>1. Visited(t, s) /\ TimerType(s)
        BY SeenSettles
      <3> HIDE DEF s, b
      <3>2. i \in Chans(s.kind) /\ ~s.RegCTL[i].compare /\ 0 \in Word
        BY <1>4, <2>2, <3>1, TimerSizes DEF Visited, Settled, Chans, Word
      <3>3. Visited(s, u)
        BY <3>1, <3>2, StoreSettles
      <3> HIDE DEF u
      <3>4. TimerType(u) /\ Visited(t, u)
        BY <3>1, <3>3, VisitedTwice DEF Visited, Settled
      <3>5. Visited(t, [Flag(u, b) EXCEPT !.ircon = TRUE])
        BY <3>4, FlagSettles, VisitedTwice
      <3>6. Visit34CC(t, i) \in {s, u, [Flag(u, b) EXCEPT !.ircon = TRUE]}
        BY <2>2 DEF Visit34CC, s, u, b
      <3> QED BY <3>1, <3>4, <3>5, <3>6
    <2> QED BY <2>1, <2>2
  <1>5. ASSUME t.RegCTL[0].compare, t.count = t.ValRegCMP[0]
        PROVE  /\ t.kind = "t1" => 0 \in timer1_Visit(t, 0).sent
               /\ t.kind # "t1" => 0 \in Visit34CC(t, 0).sent
    <2>1. 0 \in CompareAt(t, 0).sent
      BY <1>5, CompareSettles
    <2>2. 0 \in Chan1
      BY TimerSizes
    <2> QED BY <1>5, <2>1, <2>2 DEF timer1_Visit, Visit34CC
  <1> QED BY <1>3, <1>4, <1>5

(* CaptureCompare sees a match of channel 0 and looks for the next event.  *)
Looked(t, r) ==
  /\ Settled(t, r) /\ InTime(r) /\ ~r.stale
  /\ t.RegCTL[0].compare /\ t.count = t.ValRegCMP[0] => 0 \in r.sent

(* CaptureCompare sees a match of channel 0 and predicts anew.             *)
LEMMA CaptureLooks ==
  ASSUME NEW t, TimerType(t)
  PROVE  Looked(t, CaptureCompare(t))
  <1>1. ASSUME NEW w, Visited(t, w),
               t.RegCTL[0].compare /\ t.count = t.ValRegCMP[0] => 0 \in w.sent
        PROVE  Looked(t, get_next_cc_event(w))
    <2>1. TimerType(w)
      BY <1>1 DEF Visited, Settled
    <2> DEFINE r == get_next_cc_event(w)
    <2>2. Settled(w, r) /\ InTime(r) /\ ~r.stale
      BY <2>1, NextEvent, NextSettles
    <2> HIDE DEF r
    <2>3. Settled(t, r)
      BY <1>1, <2>2, SettledTwice DEF Visited
    <2>4. w.sent \subseteq r.sent
      BY <2>2 DEF Settled
    <2> QED BY <1>1, <2>2, <2>3, <2>4 DEF Looked, r
  <1>2. ASSUME NEW u, NEW w, Visited(t, u), Visited(u, w)
        PROVE  Visited(t, w) /\ TimerType(w) /\ w.kind = t.kind /\ u.sent \subseteq w.sent
    <2>1. Visited(t, w)
      BY <1>2, VisitedTwice
    <2> QED BY <1>2, <2>1 DEF Visited, Settled
  <1>3. CASE t.kind = "t1"
    <2> DEFINE v0 == timer1_Visit(t, 0)
               v1 == timer1_Visit(v0, 1)
               v2 == timer1_Visit(v1, 2)
               v3 == timer1_VisitXram(v2, 3)
               v4 == timer1_VisitXram(v3, 4)
               Sees(u) == t.RegCTL[0].compare /\ t.count = t.ValRegCMP[0] => 0 \in u.sent
    <2>1. CaptureCompare(t) = get_next_cc_event(v4)
      BY <1>3 DEF CaptureCompare, timer1_CaptureCompare
    <2>2. Visited(t, v0) /\ Sees(v0) /\ TimerType(v0) /\ v0.kind = "t1"
      BY <1>3, CaptureVisits DEF Visited, Settled
    <2> HIDE DEF v0, v1, v2, v3, v4
    <2>3. Visited(v0, v1)
      BY <2>2, CaptureVisits DEF v1
    <2>4. Visited(t, v1) /\ Sees(v1) /\ TimerType(v1) /\ v1.kind = "t1"
      BY <1>2, <1>3, <2>2, <2>3
    <2>5. Visited(v1, v2)
      BY <2>4, CaptureVisits DEF v2
    <2>6. Visited(t, v2) /\ Sees(v2) /\ TimerType(v2) /\ v2.kind = "t1"
      BY <1>2, <1>3, <2>4, <2>5
    <2>7. Visited(v2, v3)
      BY <2>6, CaptureVisits DEF v3
    <2>8. Visited(t, v3) /\ Sees(v3) /\ TimerType(v3) /\ v3.kind = "t1"
      BY <1>2, <1>3, <2>6, <2>7
    <2>9. Visited(v3, v4)
      BY <2>8, CaptureVisits DEF v4
    <2>10. Visited(t, v4) /\ Sees(v4)
      BY <1>2, <1>3, <2>8, <2>9
    <2> QED BY <1>1, <2>1, <2>10
  <1>4. CASE t.kind # "t1"
    <2> DEFINE v0 == Visit34CC(t, 0)
               v1 == Visit34CC(v0, 1)
               Sees(u) == t.RegCTL[0].compare /\ t.count = t.ValRegCMP[0] => 0 \in u.sent
    <2>1. CaptureCompare(t) = get_next_cc_event(v1)
      <3>1. t.kind \in {"t3", "t4"}
        BY <1>4 DEF TimerType
      <3> QED BY <3>1 DEF CaptureCompare, timer3_CaptureCompare, timer4_CaptureCompare
    <2>2. Visited(t, v0) /\ Sees(v0) /\ TimerType(v0) /\ v0.kind # "t1"
      BY <1>4, CaptureVisits DEF Visited, Settled
    <2> HIDE DEF v0, v1
    <2>3. Visited(v0, v1)
      BY <2>2, CaptureVisits DEF v1
    <2>4. Visited(t, v1) /\ Sees(v1)
      BY <1>2, <2>2, <2>3
    <2> QED BY <1>1, <2>1, <2>4
  <1> QED BY <1>3, <1>4
-----------------------------------------------------------------------------
(* What a step of the count leaves alone, and the event that is one nearer.*)
Moves(t, u) ==
  /\ TimerType(u) /\ u.kind = t.kind /\ u.mode = t.mode /\ u.RegCTL = t.RegCTL
  /\ u.ValRegCMP = t.ValRegCMP /\ u.missed = t.missed /\ u.inside = t.inside
  /\ u.stale = t.stale /\ u.NextCmpEvent = ToT(t.NextCmpEvent - 1)

\* the count one on, the way it goes
Along(t) == IF t.mode = 3 /\ t.up_down THEN ToT(t.count - 1) ELSE ToT(t.count + 1)

(* The count moves and the prediction counts down.                         *)
LEMMA CountMoves ==
  ASSUME NEW t, TimerType(t), NEW c \in Int
  PROVE  /\ Moves(t, CountTo(Decremented(t), c)) /\ CountTo(Decremented(t), c).count = ToT(c)
         /\ CountTo(Decremented(t), c).up_down = t.up_down
         /\ Decremented(t).count = t.count /\ Decremented(t).ValRegCMP = t.ValRegCMP
         /\ Decremented(t).up_down = t.up_down
         /\ Decremented(t).NextCmpEvent = ToT(t.NextCmpEvent - 1)
  <1> DEFINE e == ToT(t.NextCmpEvent - 1)
             k == ToT(c)
             s == Decremented(t)
             u == CountTo(s, c)
  <1>1. e \in Word /\ k \in Word
    <2>1. t.NextCmpEvent \in Int
      BY TimerSizes DEF TimerType, Word
    <2> QED BY <2>1, Wraps
  <1>2. Only(t, s, {"NextCmpEvent"}) /\ s.NextCmpEvent = e
    BY DEF Decremented, Predict, Only, Fields, TimerType
  <1>3. Only(t, u, {"NextCmpEvent", "count"}) /\ u.NextCmpEvent = e /\ u.count = k
    <2> HIDE DEF s, e
    <2> QED BY <1>2 DEF CountTo, Only, Fields
  <1> HIDE DEF e, k, s, u
  <1>4. s.count = t.count /\ s.ValRegCMP = t.ValRegCMP /\ s.up_down = t.up_down
    BY <1>2 DEF Only, Fields
  <1>5. /\ u.kind = t.kind /\ u.RegCTL = t.RegCTL /\ u.mode = t.mode /\ u.stale = t.stale
        /\ u.up_down = t.up_down /\ u.ValRegCMP = t.ValRegCMP /\ u.channelID = t.channelID
        /\ u.prescale = t.prescale /\ u.systemTicks = t.systemTicks /\ u.missed = t.missed
        /\ u.inside = t.inside
    BY <1>3 DEF Only, Fields
  <1>6. TimerType(u)
    BY <1>1, <1>3, <1>5 DEF TimerType, Only
  <1>7. Moves(t, u)
    BY <1>3, <1>5, <1>6 DEF Moves, e
  <1> QED BY <1>2, <1>3, <1>4, <1>5, <1>7 DEF e, k, s, u

(* An overflow only signals.                                               *)
LEMMA OverflowVisits ==
  ASSUME NEW u, TimerType(u)
  PROVE  /\ Visited(u, overflow(u)) /\ overflow(u).ValRegCMP = u.ValRegCMP
         /\ overflow(u).inside = u.inside
  <1> DEFINE o == IF u.OvfMask THEN [Flag(u, OVFIF(u.kind)) EXCEPT !.ircon = TRUE] ELSE u
             r == overflow(u)
  <1>1. Only(u, o, Signals) /\ u.sent \subseteq o.sent
    BY DEF TimerType, Flag, Only, Fields, Signals
  <1>2. r = [o EXCEPT !.sent = @ \cup {EvOverflow}]
    BY DEF overflow
  <1> HIDE DEF o, r
  <1>3. Only(u, r, Signals) /\ u.sent \subseteq r.sent
    BY <1>1, <1>2 DEF Only, Fields, Signals
  <1>4. Visited(u, r) /\ r.ValRegCMP = u.ValRegCMP /\ r.inside = u.inside
    BY <1>3, SignalsSettle
  <1> QED BY <1>4 DEF r

(* It leaves where the count goes alone.                                   *)
LEMMA OverflowMoves ==
  ASSUME NEW t, NEW u, Moves(t, u)
  PROVE  /\ Moves(t, overflow(u)) /\ overflow(u).count = u.count
         /\ overflow(u).up_down = u.up_down /\ overflow(u).NextCmpEvent = u.NextCmpEvent
  <1> DEFINE r == overflow(u)
  <1>1. TimerType(u)
    BY DEF Moves
  <1>2. Visited(u, r) /\ r.ValRegCMP = u.ValRegCMP /\ r.inside = u.inside
    BY <1>1, OverflowVisits
  <1> HIDE DEF r
  <1>3. Moves(t, r)
    BY <1>2 DEF Moves, Visited, Settled
  <1> QED BY <1>2, <1>3 DEF r, Visited, Settled

(* The count turns.                                                        *)
LEMMA TurnMoves ==
  ASSUME NEW t, NEW u, Moves(t, u)
  PROVE  /\ Moves(t, Turn(u)) /\ Turn(u).count = u.count /\ Turn(u).up_down = ~u.up_down
         /\ Turn(u).NextCmpEvent = u.NextCmpEvent
  <1> DEFINE r == Turn(u)
  <1>1. TimerType(u)
    BY DEF Moves
  <1>2. Only(u, r, {"up_down"}) /\ r.up_down = ~u.up_down
    BY <1>1 DEF Turn, Only, Fields, TimerType
  <1> HIDE DEF r
  <1>3. /\ r.kind = u.kind /\ r.RegCTL = u.RegCTL /\ r.mode = u.mode /\ r.stale = u.stale
        /\ r.count = u.count /\ r.ValRegCMP = u.ValRegCMP /\ r.channelID = u.channelID
        /\ r.prescale = u.prescale /\ r.systemTicks = u.systemTicks /\ r.missed = u.missed
        /\ r.inside = u.inside /\ r.NextCmpEvent = u.NextCmpEvent
    BY <1>2 DEF Only, Fields
  <1>4. r.up_down \in BOOLEAN
    BY <1>2
  <1>5. TimerType(r)
    BY <1>1, <1>2, <1>3, <1>4 DEF TimerType, Only
  <1>6. Moves(t, r)
    BY <1>3, <1>5 DEF Moves
  <1> QED BY <1>2, <1>3, <1>6 DEF r

(* When the count comes to the value of channel 0 the event is due, and    *)
(* otherwise it is still in time.                                          *)
LEMMA MatchIsDue ==
  ASSUME NEW t, TimerInv(t), Watched(t), NEW u, Moves(t, u), u.count = Along(t)
  PROVE  /\ u.count = t.ValRegCMP[0] => u.NextCmpEvent = 0
         /\ u.NextCmpEvent # 0 /\ u.up_down = t.up_down => InTime(u)
  <1> DEFINE d == Toward(t)
             p == t.NextCmpEvent
             c == t.count
             v == t.ValRegCMP[0]
  <1>1. /\ TimerType(t) /\ t.RegCTL[0].compare /\ ~Downwards(t) /\ p # 0 /\ p \in Word
        /\ c \in Word /\ Gap(p) <= Gap(d)
    BY DEF TimerInv, TimerType, Watched, InTime
  <1>2. d \in Word /\ v \in Word
    <2>1. 0 \in Chans(t.kind)
      BY TimerSizes DEF Chans
    <2> QED BY <1>1, <2>1, Distances
  <1>3. /\ Gap(p) \in 1 .. 2 * Half /\ (ToT(p - 1) = 0 <=> Gap(p) = 1)
        /\ Gap(p) # 1 => Gap(ToT(p - 1)) = Gap(p) - 1
    BY <1>1, GapShrinks
  <1>4. /\ Gap(d) \in 1 .. 2 * Half /\ (ToT(d - 1) = 0 <=> Gap(d) = 1)
        /\ Gap(d) # 1 => Gap(ToT(d - 1)) = Gap(d) - 1
    BY <1>2, GapShrinks
  <1> DEFINE back == t.mode = 3 /\ t.up_down
  <1>5. d = IF back THEN ToT(c - v) ELSE ToT(v - c)
    BY DEF Toward, Ahead, Behind
  <1>6. u.count = IF back THEN ToT(c - 1) ELSE ToT(c + 1)
    BY DEF Along
  <1> HIDE DEF d, p, c, v, back
  <1>7. (IF back THEN ToT(u.count - v) ELSE ToT(v - u.count)) = ToT(d - 1)
    BY <1>1, <1>2, <1>5, <1>6, DistanceMoves
  <1>8. u.count \in Word
    BY DEF Moves, TimerType
  <1>9. ToT(d - 1) = 0 <=> u.count = v
    <2>1. (ToT(v - u.count) = 0 <=> u.count = v) /\ (ToT(u.count - v) = 0 <=> u.count = v)
      BY <1>2, <1>8, DistanceMoves
    <2> QED BY <1>7, <2>1
  <1>10. u.NextCmpEvent = ToT(p - 1)
    BY DEF Moves, p
  <1>11. u.count = v => u.NextCmpEvent = 0
    BY <1>1, <1>3, <1>4, <1>9, <1>10
  <1>12. ASSUME u.NextCmpEvent # 0, u.up_down = t.up_down PROVE InTime(u)
    <2>1. Toward(u) = ToT(d - 1)
      BY <1>7, <1>12 DEF Toward, Ahead, Behind, Moves, back, v
    <2>2. Gap(u.NextCmpEvent) <= Gap(Toward(u))
      BY <1>1, <1>3, <1>4, <1>10, <1>12, <2>1
    <2> QED BY <1>12, <2>2 DEF InTime
  <1> QED BY <1>11, <1>12 DEF v

(* What a step of a timer must keep.                                       *)
Stepped(t, r) ==
  /\ TimerType(r) /\ r.kind = t.kind /\ r.mode = t.mode /\ r.missed = t.missed
  /\ Watched(r) => InTime(r)
  /\ Watched(t) /\ r.count = t.ValRegCMP[0] => 0 \in r.sent
  /\ r.inside => OnPeriod(r)

(* The channels are visited when the event is due, and only then.          *)
LEMMA DueLooks ==
  ASSUME NEW u, TimerType(u)
  PROVE  /\ Settled(u, IfDue(u))
         /\ u.NextCmpEvent = 0 => Looked(u, IfDue(u))
         /\ u.NextCmpEvent # 0 => IfDue(u) = u
  <1>1. Settled(u, u)
    BY DEF Settled
  <1>2. Looked(u, CaptureCompare(u))
    BY CaptureLooks
  <1> QED BY <1>1, <1>2 DEF IfDue, Due, Looked

(* A visit that leaves a period followed leaves the count on it.           *)
LEMMA PeriodSettles ==
  ASSUME NEW t, NEW u, NEW r, Moves(t, u), Settled(u, r), t.inside => OnPeriod(u), r.inside
  PROVE  OnPeriod(r)
  <1>1. OnPeriod(u) /\ r.mode = u.mode /\ r.count = u.count /\ r.up_down = u.up_down
        /\ r.ValRegCMP[0] = u.ValRegCMP[0]
    BY DEF Moves, Settled
  <1> QED BY <1>1 DEF OnPeriod

(* A step that goes on the same way.                                       *)
LEMMA GoesOn ==
  ASSUME NEW t, TimerInv(t), NEW u, Moves(t, u), u.count = Along(t), u.up_down = t.up_down,
         t.inside => OnPeriod(u)
  PROVE  Stepped(t, IfDue(u))
  <1> DEFINE r == IfDue(u)
  <1>1. TimerType(u)
    BY DEF Moves
  <1>2. /\ Settled(u, r) /\ (u.NextCmpEvent = 0 => Looked(u, r))
        /\ (u.NextCmpEvent # 0 => r = u)
    BY <1>1, DueLooks
  <1> HIDE DEF r
  <1>3. r.inside => OnPeriod(r)
    BY <1>2, PeriodSettles
  <1>4. TimerType(r) /\ r.kind = t.kind /\ r.mode = t.mode /\ r.missed = t.missed
        /\ r.count = u.count
    BY <1>2 DEF Settled, Moves
  <1>5. CASE u.NextCmpEvent = 0
    <2>1. InTime(r) /\ (u.RegCTL[0].compare /\ u.count = u.ValRegCMP[0] => 0 \in r.sent)
      BY <1>2, <1>5 DEF Looked
    <2>2. Watched(t) /\ r.count = t.ValRegCMP[0] => 0 \in r.sent
      BY <1>4, <2>1 DEF Watched, Moves
    <2> QED BY <1>3, <1>4, <2>1, <2>2 DEF Stepped, r
  <1>6. CASE u.NextCmpEvent # 0
    <2>1. r = u
      BY <1>2, <1>6
    <2>2. Watched(u) => Watched(t)
      BY DEF Watched, Moves, Downwards
    <2>3. Watched(t) => InTime(u) /\ u.count # t.ValRegCMP[0]
      BY <1>6, MatchIsDue
    <2> QED BY <1>3, <1>4, <2>1, <2>2, <2>3 DEF Stepped, r
  <1> QED BY <1>5, <1>6

(* A step that turns round at one end of the period.                       *)
LEMMA TurnsRound ==
  ASSUME NEW t, TimerInv(t), NEW u, Moves(t, u), u.count = Along(t), t.inside => OnPeriod(u)
  PROVE  Stepped(t, get_next_cc_event(IfDue(u)))
  <1> DEFINE w == IfDue(u)
             r == get_next_cc_event(w)
  <1>1. TimerType(u)
    BY DEF Moves
  <1>2. Settled(u, w) /\ (u.NextCmpEvent = 0 => Looked(u, w))
    BY <1>1, DueLooks
  <1>3. TimerType(w)
    BY <1>2 DEF Settled
  <1> HIDE DEF w
  <1>4. Settled(w, r) /\ InTime(r)
    BY <1>3, NextEvent, NextSettles
  <1> HIDE DEF r
  <1>5. Settled(u, r)
    BY <1>2, <1>4, SettledTwice
  <1>6. r.inside => OnPeriod(r)
    BY <1>5, PeriodSettles
  <1>7. TimerType(r) /\ r.kind = t.kind /\ r.mode = t.mode /\ r.missed = t.missed
        /\ r.count = u.count
    BY <1>5 DEF Settled, Moves
  <1>8. ASSUME Watched(t), r.count = t.ValRegCMP[0] PROVE 0 \in r.sent
    <2>1. u.NextCmpEvent = 0
      BY <1>7, <1>8, MatchIsDue
    <2>2. 0 \in w.sent
      BY <1>2, <1>7, <1>8, <2>1 DEF Looked, Watched, Moves
    <2> QED BY <1>4, <2>2 DEF Settled
  <1> QED BY <1>4, <1>6, <1>7, <1>8 DEF Stepped, r, w

(* A period of modulo mode ends: zero is no match unless the period is.    *)
LEMMA StartsAgain ==
  ASSUME NEW t, TimerInv(t), NEW u, Moves(t, u), t.mode = 2, u.count = 0,
         t.inside => OnPeriod(u)
  PROVE  Stepped(t, IfDue(get_next_cc_event(u)))
  <1> DEFINE r == get_next_cc_event(u)
  <1>1. TimerType(u)
    BY DEF Moves
  <1>2. Settled(u, r) /\ InTime(r)
    BY <1>1, NextEvent, NextSettles
  <1> HIDE DEF r
  <1>3. IfDue(r) = r
    BY <1>2 DEF InTime, IfDue, Due
  <1>4. r.inside => OnPeriod(r)
    BY <1>2, PeriodSettles
  <1>5. TimerType(r) /\ r.kind = t.kind /\ r.mode = t.mode /\ r.missed = t.missed
        /\ r.count = 0
    BY <1>2 DEF Settled, Moves
  <1>6. ~(Watched(t) /\ r.count = t.ValRegCMP[0])
    BY <1>5 DEF Watched
  <1> QED BY <1>2, <1>3, <1>4, <1>5, <1>6 DEF Stepped, r

(* The arithmetic of a period: no step on it wraps.                        *)
LEMMA StepsOnPeriod ==
  ASSUME NEW c \in Word, NEW v \in Word
  PROVE  /\ c < v => ToT(c + 1) = c + 1
         /\ 0 < c => ToT(c - 1) = c - 1
         /\ ToT(0) = 0 /\ ToT(c) = c
  <1>1. /\ Half \in Nat /\ Half > 0 /\ c \in Int /\ -Half <= c /\ c < Half
        /\ v \in Int /\ -Half <= v /\ v < Half
    BY TimerSizes DEF Word
  <1>2. c < v => ToT(c + 1) = c + 1
    BY <1>1, Wraps
  <1>3. 0 < c => ToT(c - 1) = c - 1
    BY <1>1, Wraps
  <1>4. ToT(0) = 0
    BY <1>1, Wraps
  <1>5. ToT(c) = c
    BY <1>1, Wraps
  <1> QED BY <1>2, <1>3, <1>4, <1>5

(* Modulo mode.                                                            *)
LEMMA ModuloSteps ==
  ASSUME NEW t, TimerInv(t), t.mode = 2
  PROVE  Stepped(t, do_ModuloMode(Decremented(t)))
  <1> DEFINE s == Decremented(t)
             c == t.count
             v == t.ValRegCMP[0]
             k == IF c = v THEN 0 ELSE c + 1
             u == CountTo(s, k)
  <1>1. TimerType(t) /\ c \in Word /\ v \in Word /\ c \in Int /\ v \in Int
    <2>1. TimerType(t) /\ c \in Word /\ 0 \in Chans(t.kind)
      BY TimerSizes DEF TimerInv, TimerType, Chans
    <2>2. v \in Word
      BY <2>1, Distances
    <2> QED BY <2>1, <2>2, TimerSizes DEF Word
  <1>2. k \in Int
    BY <1>1
  <1>3. Moves(t, u) /\ u.count = ToT(k) /\ u.up_down = t.up_down
    <2> HIDE DEF k
    <2> QED BY <1>1, <1>2, CountMoves
  <1>4. do_ModuloMode(s)
          = IfDue(IF u.count = 0 THEN get_next_cc_event(overflow(u)) ELSE u)
    <2>1. s.count = c /\ s.ValRegCMP = t.ValRegCMP
      BY <1>1, CountMoves
    <2> HIDE DEF s
    <2> QED BY <2>1 DEF do_ModuloMode
  <1> HIDE DEF u, s
  <1>5. t.inside => OnPeriod(u)
    <2>1. SUFFICES ASSUME t.inside PROVE OnPeriod(u)
      OBVIOUS
    <2>2. 0 <= c /\ c <= v
      BY <2>1 DEF TimerInv, OnPeriod
    <2>3. 0 <= ToT(k) /\ ToT(k) <= v
      BY <1>1, <2>2, StepsOnPeriod
    <2>4. u.mode = 2 /\ u.ValRegCMP[0] = v
      BY <1>3 DEF Moves
    <2> QED BY <1>3, <2>3, <2>4 DEF OnPeriod
  <1>6. CASE u.count = 0
    <2>1. Moves(t, overflow(u)) /\ overflow(u).count = 0 /\ overflow(u).up_down = u.up_down
      BY <1>3, <1>6, OverflowMoves
    <2>2. t.inside => OnPeriod(overflow(u))
      BY <1>3, <1>5, <1>6, <2>1 DEF OnPeriod, Moves
    <2> QED BY <1>4, <1>6, <2>1, <2>2, StartsAgain DEF s
  <1>7. CASE u.count # 0
    <2>1. c # v
      BY <1>1, <1>3, <1>7, StepsOnPeriod
    <2>2. u.count = Along(t)
      BY <1>3, <2>1 DEF Along
    <2> QED BY <1>3, <1>4, <1>5, <1>7, <2>2, GoesOn DEF s
  <1> QED BY <1>6, <1>7

(* Up/down mode.                                                           *)
LEMMA UpDownSteps ==
  ASSUME NEW t, TimerInv(t), t.mode = 3
  PROVE  Stepped(t, do_UpDownMode(Decremented(t)))
  <1> DEFINE s == Decremented(t)
             c == t.count
             v == t.ValRegCMP[0]
  <1>1. TimerType(t) /\ c \in Word /\ v \in Word /\ c \in Int /\ v \in Int
    <2>1. TimerType(t) /\ c \in Word /\ 0 \in Chans(t.kind)
      BY TimerSizes DEF TimerInv, TimerType, Chans
    <2>2. v \in Word
      BY <2>1, Distances
    <2> QED BY <2>1, <2>2, TimerSizes DEF Word
  <1>2. s.count = c /\ s.ValRegCMP = t.ValRegCMP /\ s.up_down = t.up_down
    BY <1>1, CountMoves
  <1>3. ASSUME NEW u, Moves(t, u)
        PROVE  u.mode = 3 /\ u.ValRegCMP[0] = v /\ u.count \in Int
    BY <1>3, TimerSizes DEF Moves, TimerType, Word
  <1>4. CASE ~t.up_down
    <2> DEFINE u == CountTo(s, c + 1)
               o == IF u.count = 0 THEN overflow(u) ELSE u
               w == Turn(o)
    <2>1. Moves(t, u) /\ u.count = ToT(c + 1) /\ u.up_down = t.up_down
      BY <1>1, CountMoves
    <2>2. do_UpDownMode(s)
            = IF u.count = v THEN get_next_cc_event(IfDue(w)) ELSE IfDue(o)
      <3> HIDE DEF s
      <3> QED BY <1>2, <1>4 DEF do_UpDownMode
    <2> HIDE DEF u, s
    <2>3. Moves(t, o) /\ o.count = u.count /\ o.up_down = t.up_down
      BY <2>1, OverflowMoves
    <2> HIDE DEF o
    <2>4. Moves(t, w) /\ w.count = u.count /\ w.up_down = ~t.up_down
      BY <2>3, TurnMoves
    <2> HIDE DEF w
    <2>5. o.count = Along(t) /\ w.count = Along(t)
      BY <1>4, <2>1, <2>3, <2>4 DEF Along
    <2>6. t.inside => 0 <= c /\ c < v /\ u.count = c + 1
      <3>1. t.inside => 0 <= c /\ c < v
        BY <1>4 DEF TimerInv, OnPeriod
      <3> QED BY <1>1, <2>1, <3>1, StepsOnPeriod
    <2>7. CASE u.count = v
      <3>2. w.up_down
        BY <1>4, <2>4
      <3>3. w.mode = 3 /\ w.ValRegCMP[0] = v /\ w.count = u.count
        BY <1>3, <2>4
      <3>1. t.inside => OnPeriod(w)
        BY <1>1, <2>6, <2>7, <3>2, <3>3 DEF OnPeriod
      <3> QED BY <2>2, <2>4, <2>5, <2>7, <3>1, TurnsRound DEF s
    <2>8. CASE u.count # v
      <3>1. t.inside => OnPeriod(o)
        BY <1>1, <1>3, <1>4, <2>3, <2>6, <2>8 DEF OnPeriod
      <3> QED BY <2>2, <2>3, <2>5, <2>8, <3>1, GoesOn DEF s
    <2> QED BY <2>7, <2>8
  <1>5. CASE t.up_down
    <2> DEFINE u == CountTo(s, c - 1)
               o == overflow(u)
               w == Turn(o)
    <2>1. Moves(t, u) /\ u.count = ToT(c - 1) /\ u.up_down = t.up_down
      BY <1>1, CountMoves
    <2>2. do_UpDownMode(s)
            = IF u.count = 0 THEN get_next_cc_event(IfDue(w)) ELSE IfDue(u)
      <3> HIDE DEF s
      <3> QED BY <1>2, <1>5 DEF do_UpDownMode
    <2> HIDE DEF u, s
    <2>3. Moves(t, o) /\ o.count = u.count /\ o.up_down = t.up_down
      BY <2>1, OverflowMoves
    <2> HIDE DEF o
    <2>4. Moves(t, w) /\ w.count = u.count /\ w.up_down = ~t.up_down
      BY <2>3, TurnMoves
    <2> HIDE DEF w
    <2>5. u.count = Along(t) /\ w.count = Along(t)
      BY <1>5, <2>1, <2>4 DEF Along
    <2>6. t.inside => 0 < c /\ c <= v /\ u.count = c - 1
      <3>1. t.inside => 0 < c /\ c <= v
        BY <1>5 DEF TimerInv, OnPeriod
      <3> QED BY <1>1, <2>1, <3>1, StepsOnPeriod
    <2>7. CASE u.count = 0
      <3>2. ~w.up_down
        BY <1>5, <2>4
      <3>3. w.mode = 3 /\ w.ValRegCMP[0] = v /\ w.count = u.count
        BY <1>3, <2>4
      <3>1. t.inside => OnPeriod(w)
        BY <1>1, <2>6, <2>7, <3>2, <3>3 DEF OnPeriod
      <3> QED BY <2>2, <2>4, <2>5, <2>7, <3>1, TurnsRound DEF s
    <2>8. CASE u.count # 0
      <3>1. t.inside => OnPeriod(u)
        BY <1>1, <1>3, <1>5, <2>1, <2>6, <2>8 DEF OnPeriod
      <3> QED BY <2>1, <2>2, <2>5, <2>8, <3>1, GoesOn DEF s
    <2> QED BY <2>7, <2>8
  <1> QED BY <1>4, <1>5

(* Free-running mode; down mode, in which channel 0 is not watched.        *)
LEMMA FreeSteps ==
  ASSUME NEW t, TimerInv(t), t.mode \notin {2, 3}, Up(t)
  PROVE  Stepped(t, do_FreeRunningMode(Decremented(t)))
  <1> DEFINE s == Decremented(t)
             u == CountTo(s, t.count + 1)
             o == IF u.count = 0 THEN overflow(u) ELSE u
  <1>1. TimerType(t) /\ t.count \in Int
    BY TimerSizes DEF TimerInv, TimerType, Word
  <1>2. Moves(t, u) /\ u.count = ToT(t.count + 1) /\ u.up_down = t.up_down /\ s.count = t.count
    BY <1>1, CountMoves
  <1>3. do_FreeRunningMode(s) = IfDue(o)
    <2> HIDE DEF s
    <2> QED BY <1>2 DEF do_FreeRunningMode, Overflowed
  <1> HIDE DEF u, s
  <1>4. Moves(t, o) /\ o.count = u.count /\ o.up_down = t.up_down
    BY <1>2, OverflowMoves
  <1> HIDE DEF o
  <1>5. o.count = Along(t)
    BY <1>2, <1>4 DEF Along
  <1>6. ~t.inside
    BY DEF TimerInv, OnPeriod
  <1> QED BY <1>3, <1>4, <1>5, <1>6, GoesOn DEF s

(* One step of down mode, in which nothing is watched: the count is        *)
(* reloaded or goes down, and either may come to zero.                     *)
LEMMA DownSteps ==
  ASSUME NEW t, TimerInv(t), Downwards(t)
  PROVE  Stepped(t, do_DownMode(Decremented(t)))
  <1> DEFINE s == Decremented(t)
             v == t.ValRegCMP[0]
             w == CountTo(s, v)
             d == CountTo(s, t.count - 1)
             c == IF Due(s) THEN CaptureCompare(w) ELSE get_next_cc_event(w)
             u == IF t.count # 0 THEN d ELSE c
             o == IF u.count = 0 THEN overflow(u) ELSE u
  <1>1. TimerType(t) /\ t.count \in Int /\ v \in Int
    <2>1. TimerType(t) /\ 0 \in Chans(t.kind)
      BY TimerSizes DEF TimerInv, Chans
    <2>2. v \in Word
      BY <2>1, Distances
    <2> QED BY <2>1, <2>2, TimerSizes DEF Word, TimerType
  <1>2. ~t.inside
    BY DEF TimerInv, OnPeriod, Downwards
  <1>3. ASSUME NEW x, Moves(t, x), NEW r, Settled(x, r) PROVE Stepped(t, r)
    <2>1. TimerType(r) /\ r.kind = t.kind /\ r.mode = t.mode /\ r.missed = t.missed /\ ~r.inside
      BY <1>2, <1>3 DEF Settled, Moves
    <2>2. ~Watched(t) /\ ~Watched(r)
      BY <2>1 DEF Watched, Downwards
    <2> QED BY <2>1, <2>2 DEF Stepped
  <1>4. s.count = t.count /\ s.ValRegCMP = t.ValRegCMP
    BY <1>1, CountMoves
  <1>5. Moves(t, w) /\ TimerType(w) /\ Moves(t, d) /\ TimerType(d)
    <2>1. Moves(t, w)
      BY <1>1, CountMoves
    <2>2. t.count - 1 \in Int
      BY <1>1
    <2>3. Moves(t, d)
      BY <1>1, <2>2, CountMoves
    <2> HIDE DEF s, w, d
    <2> QED BY <2>1, <2>3 DEF Moves
  <1>6. do_DownMode(s) = IfDue(o)
    <2> HIDE DEF s
    <2> QED BY <1>4 DEF do_DownMode, Overflowed
  <1> HIDE DEF s, w, d
  <1>7. PICK x : Moves(t, x) /\ Settled(x, u)
    <2>1. Settled(d, d)
      BY <1>5 DEF Settled
    <2>2. Settled(w, c)
      BY <1>5, CaptureLooks, NextSettles DEF Looked
    <2> HIDE DEF c
    <2> QED BY <1>5, <2>1, <2>2
  <1> HIDE DEF u
  <1>8. Settled(x, o) /\ TimerType(o)
    <2>1. TimerType(u)
      BY <1>7 DEF Settled
    <2>2. Settled(u, overflow(u))
      BY <2>1, OverflowVisits DEF Visited
    <2>3. Settled(x, o)
      BY <1>7, <2>2, SettledTwice
    <2> QED BY <2>3 DEF Settled
  <1> HIDE DEF o
  <1>9. Settled(x, IfDue(o))
    BY <1>8, DueLooks, SettledTwice
  <1> QED BY <1>3, <1>6, <1>7, <1>9 DEF s
-----------------------------------------------------------------------------
(* A tick of the timer, with the history.                                  *)
Runs(t) == t.kind = "t1" => t.mode # 0

(* One step of the mode that is set.                                       *)
LEMMA ModeSteps ==
  ASSUME NEW t, TimerInv(t), Runs(t)
  PROVE  Stepped(t, Mode(t))
  <1>1. CASE t.mode = 2
    BY <1>1, ModuloSteps DEF Mode
  <1>2. CASE t.mode = 3
    BY <1>2, UpDownSteps DEF Mode
  <1>3. CASE t.mode \notin {2, 3} /\ Up(t)
    BY <1>3, FreeSteps DEF Mode
  <1>4. CASE t.mode \notin {2, 3} /\ ~Up(t)
    <2>1. t.mode \in 0 .. 3
      BY DEF TimerInv, TimerType
    <2>2. Downwards(t)
      BY <1>4, <2>1 DEF Up, Downwards, Runs
    <2> QED BY <1>4, <2>2, DownSteps DEF Mode
  <1> QED BY <1>1, <1>2, <1>3, <1>4

(* With the history: no match of channel 0 is missed on the step, and a    *)
(* period that begins is one the count lies on.                            *)
LEMMA StepKeeps ==
  ASSUME NEW t, TimerInv(t), Runs(t)
  PROVE  TimerInv(Step(t)) /\ Runs(Step(t))
  <1> DEFINE w == Mode(t)
             late == Watched(t) /\ w.count = t.ValRegCMP[0] /\ ~(0 \in w.sent)
             r == Step(t)
  <1>1. Stepped(t, w)
    BY ModeSteps
  <1>2. r = [w EXCEPT !.missed = @ \/ late, !.inside = @ \/ Onset(w)]
    BY DEF Step
  <1> HIDE DEF w, r
  <1>3. ~late /\ TimerType(w) /\ ~w.missed
    BY <1>1 DEF Stepped, TimerInv
  <1>4. /\ Only(w, r, {"missed", "inside"}) /\ r.missed = (w.missed \/ late)
        /\ r.inside = (w.inside \/ Onset(w))
    BY <1>2, <1>3 DEF Only, Fields, TimerType
  <1> HIDE DEF late
  <1>5. /\ r.kind = w.kind /\ r.RegCTL = w.RegCTL /\ r.mode = w.mode /\ r.stale = w.stale
        /\ r.count = w.count /\ r.ValRegCMP = w.ValRegCMP /\ r.channelID = w.channelID
        /\ r.prescale = w.prescale /\ r.systemTicks = w.systemTicks
        /\ r.NextCmpEvent = w.NextCmpEvent /\ r.up_down = w.up_down
    BY <1>4 DEF Only, Fields
  <1>6. TimerType(r)
    BY <1>3, <1>4, <1>5 DEF TimerType, Only
  <1>7. Watched(r) => InTime(r)
    <2>1. Watched(r) => Watched(w)
      BY <1>5 DEF Watched, Downwards
    <2>2. Watched(w) => InTime(w)
      BY <1>1 DEF Stepped
    <2>3. InTime(w) => InTime(r)
      BY <1>5 DEF InTime, Toward, Ahead, Behind, Downwards
    <2> QED BY <2>1, <2>2, <2>3
  <1>8. r.inside => OnPeriod(r)
    <2>1. w.inside => OnPeriod(w)
      BY <1>1 DEF Stepped
    <2>2. Onset(w) => OnPeriod(w)
      <3>1. 0 \in Chans(w.kind)
        BY TimerSizes DEF Chans
      <3>2. w.ValRegCMP[0] \in Int
        BY <1>3, <3>1, TimerSizes, Distances DEF Word
      <3> QED BY <3>2 DEF Onset, OnPeriod
    <2>3. OnPeriod(w) => OnPeriod(r)
      BY <1>5 DEF OnPeriod
    <2> QED BY <1>4, <2>1, <2>2, <2>3
  <1>9. ~r.missed
    BY <1>3, <1>4
  <1>10. Runs(r)
    BY <1>1, <1>5 DEF Runs, Stepped
  <1> QED BY <1>6, <1>7, <1>8, <1>9, <1>10 DEF TimerInv, r

(* What changes only signals, the division and its count keeps it.         *)
LEMMA SignalsKeep ==
  ASSUME NEW t, TimerInv(t), NEW r, Only(t, r, Signals \cup {"prescale", "systemTicks"}),
         r.prescale \in Nat \ {0}, r.systemTicks \in Nat
  PROVE  TimerInv(r) /\ r.kind = t.kind /\ r.mode = t.mode /\ r.inside = t.inside
  <1>1. /\ r.kind = t.kind /\ r.RegCTL = t.RegCTL /\ r.count = t.count /\ r.mode = t.mode
        /\ r.up_down = t.up_down /\ r.ValRegCMP = t.ValRegCMP /\ r.channelID = t.channelID
        /\ r.missed = t.missed /\ r.NextCmpEvent = t.NextCmpEvent /\ r.stale = t.stale
        /\ r.inside = t.inside
    BY DEF Only, Fields, Signals
  <1>2. TimerType(r)
    BY <1>1 DEF TimerInv, TimerType, Only
  <1>3. Watched(r) => InTime(r)
    <2>1. Watched(r) => Watched(t)
      BY <1>1 DEF Watched, Downwards
    <2>2. InTime(t) => InTime(r)
      BY <1>1 DEF InTime, Toward, Ahead, Behind, Downwards
    <2> QED BY <2>1, <2>2 DEF TimerInv
  <1>4. r.inside => OnPeriod(r)
    BY <1>1 DEF TimerInv, OnPeriod
  <1>5. ~r.missed
    BY <1>1 DEF TimerInv
  <1> QED BY <1>1, <1>2, <1>3, <1>4, <1>5 DEF TimerInv

(* Forgetting the events of the last step.                                 *)
LEMMA SilentKeeps ==
  ASSUME NEW t, TimerInv(t)
  PROVE  /\ TimerInv([t EXCEPT !.sent = {}]) /\ [t EXCEPT !.sent = {}].kind = t.kind
         /\ [t EXCEPT !.sent = {}].mode = t.mode
  <1> DEFINE r == [t EXCEPT !.sent = {}]
  <1>1. DOMAIN t = Fields /\ t.prescale \in Nat \ {0} /\ t.systemTicks \in Nat
    BY DEF TimerInv, TimerType
  <1>2. /\ Only(t, r, Signals \cup {"prescale", "systemTicks"}) /\ r.prescale = t.prescale
        /\ r.systemTicks = t.systemTicks
    BY <1>1 DEF Only, Fields, Signals
  <1> HIDE DEF r
  <1>3. TimerInv(r) /\ r.kind = t.kind /\ r.mode = t.mode
    BY <1>1, <1>2, SignalsKeep
  <1> QED BY <1>3 DEF r

(* A set of naturals that is not empty has a least element.                *)
LEMMA LeastNatural ==
  ASSUME NEW S \in SUBSET Nat, NEW z \in S
  PROVE  \E m \in S : \A k \in S : m <= k
  <1> DEFINE R == OpToRel(<, Nat)
  <1>1. IsWellFoundedOn(R, Nat)
    BY NatLessThanWellFounded
  <1>2. S \subseteq Nat /\ S # {}
    OBVIOUS
  <1> HIDE DEF R
  <1>3. PICK x \in S : \A y \in S : ~(<<y, x>> \in R)
    BY <1>1, <1>2, WFMin
  <1>4. \A y \in S : y < x => <<y, x>> \in R
    BY DEF R, OpToRel
  <1>5. \A y \in S : ~(y < x)
    BY <1>3, <1>4, Zenon
  <1>6. \A y \in S : x <= y
    BY <1>2, <1>5
  <1> QED BY <1>6

(* So a set that has zero and the successor of each number has them all.   *)
LEMMA AllNaturals ==
  ASSUME NEW S, 0 \in S, \A n \in Nat : n \in S => n + 1 \in S
  PROVE  Nat \subseteq S
  <1> DEFINE B == Nat \ S
  <1> SUFFICES ASSUME NEW z \in B PROVE FALSE
    OBVIOUS
  <1>1. PICK m \in B : \A k \in B : m <= k
    <2>1. B \in SUBSET Nat
      OBVIOUS
    <2> HIDE DEF B
    <2> QED BY <2>1, LeastNatural
  <1>2. m # 0 /\ m \in Nat
    OBVIOUS
  <1>3. m - 1 \in Nat /\ m - 1 \notin B
    BY <1>1, <1>2
  <1>4. m - 1 \in S
    BY <1>3
  <1>5. (m - 1) + 1 \in S
    BY <1>4, <1>3
  <1> QED BY <1>5, <1>2

NextCycle(t) == Step([t EXCEPT !.sent = {}])

RunOf(f, t, n) == f = [k \in 0 .. n |-> IF k = 0 THEN t ELSE NextCycle(f[k - 1])]

(* The recursive definition of Repeat has a solution.                      *)
LEMMA TicksExist ==
  ASSUME NEW t, NEW n \in Nat
  PROVE  \E f : RunOf(f, t, n)
  <1> DEFINE Good == {m \in Nat : \E f : RunOf(f, t, m)}
  <1>1. 0 \in Good
    <2> DEFINE f == [k \in 0 .. 0 |-> t]
    <2>1. f = [k \in 0 .. 0 |-> IF k = 0 THEN t ELSE NextCycle(f[k - 1])]
      OBVIOUS
    <2> HIDE DEF f
    <2> QED BY <2>1 DEF RunOf
  <1>2. ASSUME NEW m \in Nat, m \in Good PROVE m + 1 \in Good
    <2>1. PICK f : RunOf(f, t, m)
      BY <1>2
    <2> DEFINE h == [k \in 0 .. m + 1 |-> IF k = m + 1 THEN NextCycle(f[m]) ELSE f[k]]
    <2>2. ASSUME NEW k \in 0 .. m + 1
          PROVE  h[k] = IF k = 0 THEN t ELSE NextCycle(h[k - 1])
      <3>1. CASE k = m + 1
        <4>1. h[k] = NextCycle(f[m]) /\ h[k - 1] = f[m] /\ k # 0
          BY <3>1
        <4> HIDE DEF h
        <4> QED BY <4>1
      <3>2. CASE k # m + 1
        <4>1. k \in 0 .. m
          BY <3>2
        <4>2. h[k] = f[k] /\ (k # 0 => h[k - 1] = f[k - 1])
          BY <4>1
        <4>3. f[k] = IF k = 0 THEN t ELSE NextCycle(f[k - 1])
          BY <2>1, <4>1 DEF RunOf
        <4> HIDE DEF h
        <4> QED BY <4>2, <4>3
      <3> QED BY <3>1, <3>2
    <2>3. h = [k \in 0 .. m + 1 |-> h[k]]
      OBVIOUS
    <2> HIDE DEF h
    <2>4. RunOf(h, t, m + 1)
      BY <2>2, <2>3 DEF RunOf
    <2> QED BY <2>4
  <1> HIDE DEF Good
  <1>3. n \in Good
    BY <1>1, <1>2, AllNaturals
  <1> QED BY <1>3 DEF Good

(* Any number of ticks keeps what one keeps.                               *)
LEMMA RepeatKeeps ==
  ASSUME NEW t, TimerInv(t), Runs(t), NEW n \in Nat
  PROVE  TimerInv(Repeat(t, n))
  <1>1. PICK f : RunOf(f, t, n) /\ Repeat(t, n) = f[n]
    <2>1. \A f : RunOf(f, t, n)
                   <=> f = [k \in 0 .. n |->
                              IF k = 0 THEN t ELSE Step([f[k - 1] EXCEPT !.sent = {}])]
      BY DEF RunOf, NextCycle
    <2> QED BY <2>1, TicksExist DEF Repeat
  <1> DEFINE Good == {k \in Nat : k <= n => TimerInv(f[k]) /\ Runs(f[k])}
  <1>2. \A k \in 0 .. n : f[k] = IF k = 0 THEN t ELSE NextCycle(f[k - 1])
    BY <1>1 DEF RunOf
  <1>3. 0 \in Good
    <2>1. f[0] = t
      BY <1>2
    <2> QED BY <2>1
  <1>4. ASSUME NEW k \in Nat, k \in Good PROVE k + 1 \in Good
    <2>1. SUFFICES ASSUME k + 1 <= n PROVE TimerInv(f[k + 1]) /\ Runs(f[k + 1])
      OBVIOUS
    <2>2. TimerInv(f[k]) /\ Runs(f[k])
      BY <1>4, <2>1
    <2>3. f[k + 1] = NextCycle(f[k])
      <3>1. k + 1 \in 0 .. n /\ k + 1 # 0 /\ (k + 1) - 1 = k
        BY <2>1
      <3> QED BY <1>2, <3>1
    <2>4. ASSUME NEW u, TimerInv(u), Runs(u) PROVE TimerInv(NextCycle(u)) /\ Runs(NextCycle(u))
      <3> DEFINE w == [u EXCEPT !.sent = {}]
      <3>1. TimerInv(w) /\ Runs(w)
        BY <2>4, SilentKeeps DEF Runs
      <3> HIDE DEF w
      <3>2. TimerInv(Step(w)) /\ Runs(Step(w))
        BY <3>1, StepKeeps
      <3> QED BY <3>2 DEF NextCycle, w
    <2> QED BY <2>2, <2>3, <2>4
  <1> HIDE DEF Good
  <1>5. n \in Good
    BY <1>3, <1>4, AllNaturals
  <1>6. TimerInv(f[n])
    BY <1>5 DEF Good
  <1> QED BY <1>1, <1>6
-----------------------------------------------------------------------------
(* cl_CC2530_timer<T>::tick divides the clock and steps the timer.         *)
LEMMA TickKeeps ==
  ASSUME NEW t, TimerInv(t), NEW cycles \in Nat
  PROVE  TimerInv(tick(t, cycles))
  <1> DEFINE largest == CHOOSE p \in Prescales : \A q \in Prescales : q <= p
             S == {k \in t.systemTicks + 1 .. t.systemTicks + cycles : k % t.prescale = 0}
             n == Cardinality(S)
             u == [t EXCEPT !.systemTicks = (@ + cycles) % largest, !.sent = {}]
  <1>1. /\ DOMAIN t = Fields /\ t.prescale \in Nat \ {0} /\ t.systemTicks \in Nat
        /\ t.kind \in {"t1", "t3", "t4"}
    BY DEF TimerInv, TimerType
  <1>2. largest \in Nat \ {0}
    <2>1. largest \in Prescales
      BY Timer2530Assumption
    <2> HIDE DEF largest
    <2> QED BY <2>1, Timer2530Assumption
  <1> HIDE DEF largest
  <1>3. n \in Nat
    <2>1. IsFiniteSet(t.systemTicks + 1 .. t.systemTicks + cycles)
      BY <1>1, FS_Interval
    <2>2. S \subseteq t.systemTicks + 1 .. t.systemTicks + cycles
      OBVIOUS
    <2> HIDE DEF S
    <2>3. IsFiniteSet(S)
      BY <2>1, <2>2, FS_Subset
    <2> QED BY <2>3, FS_CardinalityType
  <1>4. /\ Only(t, u, Signals \cup {"prescale", "systemTicks"}) /\ u.prescale = t.prescale
        /\ u.systemTicks = (t.systemTicks + cycles) % largest
    BY <1>1 DEF Only, Fields, Signals
  <1>5. (t.systemTicks + cycles) % largest \in Nat
    <2>1. t.systemTicks + cycles \in Int
      BY <1>1
    <2> QED BY <1>2, <2>1
  <1> HIDE DEF n, u
  <1>6. TimerInv(u) /\ u.kind = t.kind
    BY <1>1, <1>4, <1>5, SignalsKeep
  <1>7. Runs(u) => TimerInv(Repeat(u, n))
    BY <1>3, <1>6, RepeatKeeps
  <1>8. CASE t.kind = "t1"
    <2>1. tick(t, cycles) = timer1_TimerTick(u, n)
      BY <1>8 DEF tick, u, n, largest
    <2> QED BY <1>6, <1>7, <2>1 DEF timer1_TimerTick, Runs
  <1>9. CASE t.kind \in {"t3", "t4"}
    <2>1. tick(t, cycles) = IF ~u.TR THEN u ELSE Repeat(u, n)
      BY <1>9 DEF tick, u, n, largest, timer3_TimerTick, timer4_TimerTick
    <2>2. Runs(u)
      BY <1>6, <1>9 DEF Runs
    <2> QED BY <1>6, <1>7, <2>1, <2>2
  <1> QED BY <1>1, <1>8, <1>9

(* A record of the right types on which no period is followed.             *)
Unfollowed(t) == TimerType(t) /\ ~t.missed /\ ~t.inside

(* The fields a write or a reset assigns.                                  *)
Assigned == Signals \cup {"prescale", "systemTicks", "channelID", "mode", "ValRegCMP",
                          "RegCTL", "stale", "count", "up_down"}

(* Assignments of the right types keep a record so.                        *)
LEMMA AssignedQuiet ==
  ASSUME NEW t, Unfollowed(t), NEW r, Only(t, r, Assigned), r.mode \in 0 .. 3,
         r.count \in Word, r.up_down \in BOOLEAN, r.prescale \in Nat \ {0},
         r.systemTicks \in Nat, r.channelID \in Chans(t.kind),
         r.ValRegCMP \in [Chans(t.kind) -> Word], r.RegCTL \in [Chans(t.kind) -> CtlType]
  PROVE  Unfollowed(r) /\ r.kind = t.kind
  <1>1. /\ r.kind = t.kind /\ r.missed = t.missed /\ r.inside = t.inside
        /\ r.NextCmpEvent = t.NextCmpEvent /\ DOMAIN r = Fields
    BY DEF Only, Fields, Signals, Assigned
  <1>2. TimerType(r)
    BY <1>1 DEF Unfollowed, TimerType
  <1> QED BY <1>1, <1>2 DEF Unfollowed

(* On such a record get_next_cc_event restores the invariant.              *)
LEMMA EventKeeps ==
  ASSUME NEW t, Unfollowed(t)
  PROVE  LET r == get_next_cc_event(t)
         IN  /\ TimerInv(r) /\ Unfollowed(r) /\ r.kind = t.kind
             /\ Only(t, r, {"NextCmpEvent", "stale"})
  <1> DEFINE r == get_next_cc_event(t)
  <1>1. Only(t, r, {"NextCmpEvent", "stale"}) /\ TimerType(r) /\ InTime(r)
    BY NextEvent DEF Unfollowed
  <1> HIDE DEF r
  <1>2. r.kind = t.kind /\ r.missed = t.missed /\ r.inside = t.inside
    BY <1>1 DEF Only, Fields
  <1>3. TimerInv(r) /\ Unfollowed(r)
    BY <1>1, <1>2 DEF TimerInv, Unfollowed
  <1> QED BY <1>1, <1>2, <1>3 DEF r

(* A record the prediction does not know of keeps it too.                  *)
LEMMA StaleKeeps ==
  ASSUME NEW t, Unfollowed(t), t.stale = TRUE
  PROVE  TimerInv(t)
  BY DEF Unfollowed, TimerInv, Watched

(* A write ends the period that is followed.                               *)
LEMMA WrittenQuiet ==
  ASSUME NEW t, TimerInv(t)
  PROVE  Unfollowed(Written(t)) /\ Written(t).kind = t.kind
  <1> DEFINE r == Written(t)
  <1>1. DOMAIN t = Fields
    BY DEF TimerInv, TimerType
  <1>2. Only(t, r, {"inside", "sent"}) /\ r.inside = FALSE
    BY <1>1 DEF Only, Fields, Written
  <1> HIDE DEF r
  <1>3. /\ r.kind = t.kind /\ r.RegCTL = t.RegCTL /\ r.count = t.count /\ r.mode = t.mode
        /\ r.up_down = t.up_down /\ r.ValRegCMP = t.ValRegCMP /\ r.channelID = t.channelID
        /\ r.missed = t.missed /\ r.NextCmpEvent = t.NextCmpEvent
        /\ r.prescale = t.prescale /\ r.systemTicks = t.systemTicks
    BY <1>2 DEF Only, Fields
  <1>4. TimerType(r)
    BY <1>2, <1>3 DEF TimerInv, TimerType, Only
  <1>5. Unfollowed(r)
    BY <1>2, <1>3, <1>4 DEF TimerInv, Unfollowed
  <1> QED BY <1>3, <1>5 DEF r

(* cl_CC2530_timer<T>::write for TxCTL changes the mode under way and      *)
(* predicts anew.                                                          *)
LEMMA CtlKeeps ==
  ASSUME NEW t, Unfollowed(t), NEW m \in 0 .. 3
  PROVE  LET r == write_ctl(t, m) IN TimerInv(r) /\ Unfollowed(r) /\ r.kind = t.kind
  <1> DEFINE u == [t EXCEPT !.mode = m]
  <1>1. TimerType(t)
    BY DEF Unfollowed
  <1>2. Only(t, u, {"mode"}) /\ u.mode = m
    BY <1>1 DEF TimerType, Only, Fields
  <1> HIDE DEF u
  <1>3. /\ Only(t, u, Assigned) /\ u.count = t.count /\ u.up_down = t.up_down
        /\ u.prescale = t.prescale /\ u.systemTicks = t.systemTicks
        /\ u.channelID = t.channelID /\ u.ValRegCMP = t.ValRegCMP /\ u.RegCTL = t.RegCTL
    BY <1>2 DEF Only, Fields, Assigned
  <1>4. Unfollowed(u) /\ u.kind = t.kind
    BY <1>1, <1>2, <1>3, AssignedQuiet DEF TimerType
  <1>5. TimerInv(get_next_cc_event(u)) /\ Unfollowed(get_next_cc_event(u))
        /\ get_next_cc_event(u).kind = t.kind
    BY <1>4, EventKeeps
  <1> QED BY <1>5 DEF write_ctl, u

(* A new compare value.                                                    *)
LEMMA ValueKeeps ==
  ASSUME NEW t, Unfollowed(t), NEW i \in Chans(t.kind), NEW v \in Word
  PROVE  LET r == get_next_cc_event([t EXCEPT !.ValRegCMP[i] = v])
         IN  TimerInv(r) /\ Unfollowed(r) /\ r.kind = t.kind
  <1> DEFINE u == [t EXCEPT !.ValRegCMP[i] = v]
  <1>1. TimerType(t)
    BY DEF Unfollowed
  <1>2. Only(t, u, {"ValRegCMP"}) /\ u.ValRegCMP = [t.ValRegCMP EXCEPT ![i] = v]
    BY <1>1 DEF TimerType, Only, Fields
  <1> HIDE DEF u
  <1>3. /\ Only(t, u, Assigned) /\ u.count = t.count /\ u.up_down = t.up_down
        /\ u.prescale = t.prescale /\ u.systemTicks = t.systemTicks
        /\ u.channelID = t.channelID /\ u.mode = t.mode /\ u.RegCTL = t.RegCTL
    BY <1>2 DEF Only, Fields, Assigned
  <1>4. u.ValRegCMP \in [Chans(t.kind) -> Word]
    BY <1>1, <1>2 DEF TimerType
  <1>5. Unfollowed(u) /\ u.kind = t.kind
    BY <1>1, <1>3, <1>4, AssignedQuiet DEF TimerType
  <1>6. TimerInv(get_next_cc_event(u)) /\ Unfollowed(get_next_cc_event(u))
        /\ get_next_cc_event(u).kind = t.kind
    BY <1>5, EventKeeps
  <1> QED BY <1>6 DEF u

(* cl_CC2530_timer1::write puts a byte in the value of the channel it was  *)
(* told of last.                                                           *)
LEMMA ByteKeeps ==
  ASSUME NEW t, Unfollowed(t), NEW v \in Nat
  PROVE  LET r == timer1_write(t, v) IN TimerInv(r) /\ Unfollowed(r) /\ r.kind = t.kind
  <1> DEFINE V == t.ValRegCMP[t.channelID] % (2 * Half)
             n == IF t.high THEN (V % Part) + (v * Part) ELSE (V - (V % Part)) + v
  <1>1. t.channelID \in Chans(t.kind) /\ t.ValRegCMP[t.channelID] \in Word
    BY DEF Unfollowed, TimerType
  <1>2. V \in Int
    BY <1>1, TimerSizes DEF Word
  <1> HIDE DEF V
  <1>3. V % Part \in Int /\ v * Part \in Int
    BY <1>2, TimerSizes
  <1>4. n \in Int
    BY <1>2, <1>3
  <1> HIDE DEF n
  <1>5. ToT(n) \in Word
    BY <1>4, Wraps
  <1>6. timer1_write(t, v) = get_next_cc_event([t EXCEPT !.ValRegCMP[t.channelID] = ToT(n)])
    BY DEF timer1_write, V, n
  <1> QED BY <1>1, <1>5, <1>6, ValueKeeps

(* Signals, the division and its count are no concern of it.               *)
LEMMA SignalsQuiet ==
  ASSUME NEW t, Unfollowed(t), NEW r,
         Only(t, r, Signals \cup {"prescale", "systemTicks", "channelID"}),
         r.prescale \in Nat \ {0}, r.systemTicks \in Nat, r.channelID \in Chans(t.kind)
  PROVE  Unfollowed(r) /\ r.kind = t.kind
  <1>1. /\ Only(t, r, Assigned) /\ r.count = t.count /\ r.up_down = t.up_down
        /\ r.mode = t.mode /\ r.ValRegCMP = t.ValRegCMP /\ r.RegCTL = t.RegCTL
    BY DEF Only, Fields, Signals, Assigned
  <1> QED BY <1>1, AssignedQuiet DEF Unfollowed, TimerType
-----------------------------------------------------------------------------
(* The writes of a program, and resets.                                    *)
LEMMA WriteCtlKeeps ==
  ASSUME TimerInv(tm), WriteCtl
  PROVE  TimerInv(tm')
  <1>1. PICK m \in 0 .. 3, p \in Prescales, r \in BOOLEAN, o \in BOOLEAN :
          tm' = CASE tm.kind = "t1" -> timer1_ctl(Written(tm), m, p)
                  [] tm.kind = "t3" -> timer3_ctl(Written(tm), m, p, r, o)
                  [] tm.kind = "t4" -> timer4_ctl(Written(tm), m, p, r, o)
    BY DEF WriteCtl
  <1> DEFINE w == write_ctl(Written(tm), m)
  <1>2. Unfollowed(Written(tm)) /\ Written(tm).kind = tm.kind
    BY WrittenQuiet
  <1>3. TimerInv(w) /\ Unfollowed(w) /\ w.kind = tm.kind
    BY <1>2, CtlKeeps
  <1> HIDE DEF w
  <1>4. TimerType(w) /\ tm.kind \in {"t1", "t3", "t4"}
    BY <1>3 DEF Unfollowed, TimerInv, TimerType
  <1>5. p \in Nat \ {0}
    BY Timer2530Assumption
  <1>6. CASE tm.kind = "t1"
    <2> DEFINE u == [w EXCEPT !.prescale = p]
    <2>1. /\ Only(w, u, {"prescale"}) /\ u.prescale = p
      BY <1>4 DEF TimerType, Only, Fields
    <2> HIDE DEF u
    <2>2. /\ Only(w, u, Signals \cup {"prescale", "systemTicks", "channelID"})
          /\ u.systemTicks = w.systemTicks /\ u.channelID = w.channelID
      BY <2>1 DEF Only, Fields, Signals
    <2>3. Unfollowed(u)
      BY <1>3, <1>4, <1>5, <2>1, <2>2, SignalsQuiet DEF TimerType
    <2>4. m % Part \in Nat
      BY TimerSizes
    <2>5. tm' = timer1_write(u, m % Part)
      BY <1>1, <1>6 DEF timer1_ctl, u, w
    <2> QED BY <2>3, <2>4, <2>5, ByteKeeps
  <1>7. CASE tm.kind \in {"t3", "t4"}
    <2> DEFINE u == [w EXCEPT !.TR = r, !.prescale = p, !.OvfMask = o]
    <2>1. /\ Only(w, u, {"TR", "prescale", "OvfMask"}) /\ u.prescale = p
      BY <1>4 DEF TimerType, Only, Fields
    <2>2. tm' = u
      BY <1>1, <1>7 DEF timer3_ctl, timer4_ctl, w
    <2> HIDE DEF u
    <2>3. /\ Only(w, u, Signals \cup {"prescale", "systemTicks"})
          /\ u.systemTicks = w.systemTicks
      BY <2>1 DEF Only, Fields, Signals
    <2>4. TimerInv(u)
      BY <1>3, <1>4, <1>5, <2>1, <2>3, SignalsKeep DEF TimerType
    <2> QED BY <2>2, <2>4
  <1> QED BY <1>4, <1>6, <1>7

(* The compare registers.                                                  *)
LEMMA WriteCmpKeeps ==
  ASSUME TimerInv(tm), WriteCmp
  PROVE  TimerInv(tm')
  <1> DEFINE t == Written(tm)
  <1>1. Unfollowed(t) /\ t.kind = tm.kind
    BY WrittenQuiet
  <1> HIDE DEF t
  <1>2. TimerType(t)
    BY <1>1 DEF Unfollowed
  <1>3. ASSUME tm.kind = "t1", NEW i \in Chan1, NEW hi \in BOOLEAN, NEW v \in 0 .. Part - 1,
               tm' = timer1_cmp(t, i, hi, v)
        PROVE  TimerInv(tm')
    <2> DEFINE u == [t EXCEPT !.channelID = i, !.high = hi]
               x == IF i = 0 /\ hi THEN [Flag(u, 0) EXCEPT !.ircon = TRUE] ELSE u
    <2>1. Only(t, u, {"channelID", "high"}) /\ u.channelID = i
      BY <1>2 DEF TimerType, Only, Fields
    <2>2. Only(t, x, {"channelID", "high", "flags", "ircon"}) /\ x.channelID = i
      <3> HIDE DEF u
      <3>1. Only(t, u, {"channelID", "high", "flags", "ircon"})
        BY <2>1 DEF Only
      <3>2. /\ Only(u, [Flag(u, 0) EXCEPT !.ircon = TRUE], {"flags", "ircon"})
            /\ [Flag(u, 0) EXCEPT !.ircon = TRUE].channelID = i
        BY <2>1 DEF Flag, Only, Fields
      <3>3. Only(t, [Flag(u, 0) EXCEPT !.ircon = TRUE], {"channelID", "high", "flags", "ircon"})
        BY <3>1, <3>2 DEF Only
      <3> QED BY <2>1, <3>1, <3>2, <3>3
    <2>3. tm' = timer1_write(x, v)
      BY <1>3 DEF timer1_cmp
    <2> HIDE DEF u, x
    <2>4. /\ Only(t, x, Signals \cup {"prescale", "systemTicks", "channelID"})
          /\ x.systemTicks = t.systemTicks /\ x.prescale = t.prescale
      BY <2>2 DEF Only, Fields, Signals
    <2>5. x.channelID \in Chans(t.kind)
      BY <1>1, <1>3, <2>2 DEF Chans
    <2>6. Unfollowed(x)
      BY <1>1, <1>2, <2>4, <2>5, SignalsQuiet DEF TimerType
    <2>7. v \in Nat
      BY TimerSizes
    <2> QED BY <2>3, <2>6, <2>7, ByteKeeps
  <1>4. ASSUME tm.kind # "t1", NEW i \in {0, 1}, NEW v \in CmpValues, tm' = timer34_cmp(t, i, v)
        PROVE  TimerInv(tm')
    <2>1. i \in Chans(t.kind) /\ v \in Word
      BY <1>1, <1>4, Timer2530Assumption DEF Chans, Word
    <2> QED BY <1>1, <1>4, <2>1, ValueKeeps DEF timer34_cmp
  <1> QED BY <1>3, <1>4 DEF WriteCmp, t

(* The control register of a channel, which is not watched.                *)
LEMMA WriteChannelKeeps ==
  ASSUME TimerInv(tm), WriteChannel
  PROVE  TimerInv(tm')
  <1>1. PICK i \in Chans(tm.kind), c \in Ctls :
          tm' = [Written(tm) EXCEPT !.RegCTL[i] = c, !.stale = TRUE]
    BY DEF WriteChannel
  <1> DEFINE t == Written(tm)
             u == [t EXCEPT !.RegCTL[i] = c, !.stale = TRUE]
  <1>2. Unfollowed(t) /\ t.kind = tm.kind
    BY WrittenQuiet
  <1>3. tm' = u
    BY <1>1
  <1> HIDE DEF t
  <1>4. TimerType(t)
    BY <1>2 DEF Unfollowed
  <1>5. /\ Only(t, u, {"RegCTL", "stale"}) /\ u.stale = TRUE
        /\ u.RegCTL = [t.RegCTL EXCEPT ![i] = c]
    BY <1>4 DEF TimerType, Only, Fields
  <1> HIDE DEF u
  <1>6. /\ Only(t, u, Assigned) /\ u.count = t.count /\ u.up_down = t.up_down
        /\ u.prescale = t.prescale /\ u.systemTicks = t.systemTicks
        /\ u.channelID = t.channelID /\ u.ValRegCMP = t.ValRegCMP /\ u.mode = t.mode
    BY <1>5 DEF Only, Fields, Assigned
  <1>7. u.RegCTL \in [Chans(t.kind) -> CtlType]
    <2>1. c \in CtlType
      BY Timer2530Assumption DEF CtlType
    <2> QED BY <1>4, <1>5, <2>1 DEF TimerType
  <1>8. Unfollowed(u)
    BY <1>2, <1>4, <1>6, <1>7, AssignedQuiet DEF TimerType
  <1> QED BY <1>3, <1>5, <1>8, StaleKeeps

(* The flags, the masks and the clock.                                     *)
LEMMA WriteOtherKeeps ==
  ASSUME TimerInv(tm), WriteOther
  PROVE  TimerInv(tm')
  <1> DEFINE t == Other(tm)
  <1>1. Unfollowed(Written(tm)) /\ Written(tm).kind = tm.kind
    BY WrittenQuiet
  <1>2. TimerInv(t)
    <2>1. CASE tm.kind = "t1"
      <3>1. 0 \in Nat
        OBVIOUS
      <3> QED BY <1>1, <2>1, <3>1, ByteKeeps DEF Other
    <2>2. CASE tm.kind # "t1"
      <3> DEFINE r == Written(tm)
      <3>1. DOMAIN tm = Fields
        BY DEF TimerInv, TimerType
      <3>2. Only(tm, r, {"inside", "sent"})
        BY <3>1 DEF Only, Fields, Written
      <3> HIDE DEF r
      <3>3. /\ r.RegCTL = tm.RegCTL /\ r.count = tm.count /\ r.mode = tm.mode
            /\ r.up_down = tm.up_down /\ r.ValRegCMP = tm.ValRegCMP /\ r.kind = tm.kind
            /\ r.NextCmpEvent = tm.NextCmpEvent /\ r.stale = tm.stale
        BY <3>2 DEF Only, Fields
      <3>4. Watched(r) => Watched(tm)
        BY <3>3 DEF Watched, Downwards
      <3>5. InTime(tm) => InTime(r)
        BY <3>3 DEF InTime, Toward, Ahead, Behind, Downwards
      <3>6. TimerInv(r)
        BY <1>1, <3>4, <3>5 DEF Unfollowed, TimerInv, r
      <3> QED BY <2>2, <3>6 DEF Other, r
    <2> QED BY <2>1, <2>2
  <1> HIDE DEF t
  <1>3. TimerType(t)
    BY <1>2 DEF TimerInv
  <1>4. ASSUME NEW u, Only(t, u, {"flags", "ircon", "OvfMask", "systemTicks"}),
               u.systemTicks \in Nat
        PROVE  TimerInv(u)
    <2>1. Only(t, u, Signals \cup {"prescale", "systemTicks"}) /\ u.prescale = t.prescale
      BY <1>4 DEF Only, Fields, Signals
    <2> QED BY <1>2, <1>3, <1>4, <2>1, SignalsKeep DEF TimerType
  <1>5. CASE tm' = [t EXCEPT !.flags = {}]
    <2>1. /\ Only(t, tm', {"flags", "ircon", "OvfMask", "systemTicks"})
          /\ tm'.systemTicks = t.systemTicks
      BY <1>3, <1>5 DEF TimerType, Only, Fields
    <2> QED BY <1>3, <1>4, <2>1 DEF TimerType
  <1>6. CASE tm' = [t EXCEPT !.ircon = FALSE]
    <2>1. /\ Only(t, tm', {"flags", "ircon", "OvfMask", "systemTicks"})
          /\ tm'.systemTicks = t.systemTicks
      BY <1>3, <1>6 DEF TimerType, Only, Fields
    <2> QED BY <1>3, <1>4, <2>1 DEF TimerType
  <1>7. CASE tm' = [t EXCEPT !.OvfMask = TRUE]
    <2>1. /\ Only(t, tm', {"flags", "ircon", "OvfMask", "systemTicks"})
          /\ tm'.systemTicks = t.systemTicks
      BY <1>3, <1>7 DEF TimerType, Only, Fields
    <2> QED BY <1>3, <1>4, <2>1 DEF TimerType
  <1>8. CASE tm' = write_clkcon(t)
    <2>1. Only(t, tm', {"flags", "ircon", "OvfMask", "systemTicks"}) /\ tm'.systemTicks = 0
      BY <1>3, <1>8 DEF TimerType, Only, Fields, write_clkcon
    <2> QED BY <1>4, <2>1
  <1> QED BY <1>5, <1>6, <1>7, <1>8 DEF WriteOther, t

(* A reset leaves the prediction out of date.                              *)
LEMMA ResetKeeps ==
  ASSUME TimerInv(tm), ResetTimer
  PROVE  TimerInv(tm')
  <1> DEFINE t == Written(tm)
             C == [i \in DOMAIN t.RegCTL |-> IF i < 3 THEN NoCtl ELSE t.RegCTL[i]]
             u == Cleared(tm)
             z == timer1_reset(tm)
  <1>1. Unfollowed(t) /\ t.kind = tm.kind
    BY WrittenQuiet
  <1>2. TimerType(t) /\ tm.kind \in {"t1", "t3", "t4"}
    BY <1>1 DEF Unfollowed, TimerType
  <1>3. u = [t EXCEPT !.RegCTL = C, !.flags = {}, !.ircon = FALSE, !.OvfMask = FALSE,
                      !.stale = TRUE]
    <2> HIDE DEF t
    <2>1. DOMAIN t = Fields
      BY <1>2 DEF TimerType
    <2> QED BY <2>1 DEF Cleared, Fields, t
  <1>4. z = [u EXCEPT !.channelID = 0, !.high = FALSE, !.up_down = FALSE, !.systemTicks = 0,
                      !.prescale = 1, !.count = 0]
    BY DEF timer1_reset
  <1>5. C \in [Chans(t.kind) -> CtlType]
    <2> HIDE DEF t
    <2>1. t.RegCTL \in [Chans(t.kind) -> CtlType] /\ NoCtl \in CtlType
      BY <1>2 DEF TimerType, CtlType, NoCtl
    <2> QED BY <2>1
  <1>6. tm' = IF tm.kind = "t1" THEN z ELSE u
    BY <1>2 DEF ResetTimer, timer3_reset, timer4_reset
  <1> HIDE DEF t, C, u, z
  <1>7. /\ Only(t, u, {"RegCTL", "flags", "ircon", "OvfMask", "stale"}) /\ u.stale = TRUE
        /\ u.RegCTL = C
    BY <1>2, <1>3 DEF TimerType, Only, Fields
  <1>8. Unfollowed(u) /\ u.kind = tm.kind
    <2>1. /\ Only(t, u, Assigned) /\ u.count = t.count /\ u.up_down = t.up_down
          /\ u.prescale = t.prescale /\ u.systemTicks = t.systemTicks /\ u.mode = t.mode
          /\ u.channelID = t.channelID /\ u.ValRegCMP = t.ValRegCMP
      BY <1>7 DEF Only, Fields, Assigned, Signals
    <2> QED BY <1>1, <1>2, <1>5, <1>7, <2>1, AssignedQuiet DEF TimerType
  <1>9. /\ Only(u, z, {"channelID", "high", "up_down", "systemTicks", "prescale", "count"})
        /\ z.channelID = 0 /\ z.up_down = FALSE /\ z.systemTicks = 0 /\ z.prescale = 1
        /\ z.count = 0
    BY <1>4, <1>7 DEF Only, Fields
  <1>10. Unfollowed(z) /\ z.stale = TRUE
    <2>1. /\ Only(u, z, Assigned) /\ z.mode = u.mode /\ z.ValRegCMP = u.ValRegCMP
          /\ z.RegCTL = u.RegCTL /\ z.stale = u.stale
      BY <1>9 DEF Only, Fields, Assigned, Signals
    <2>2. 0 \in Word /\ 0 \in Chans(u.kind)
      BY TimerSizes DEF Word, Chans
    <2>3. TimerType(u)
      BY <1>8 DEF Unfollowed
    <2>4. /\ z.mode \in 0 .. 3 /\ z.ValRegCMP \in [Chans(u.kind) -> Word]
          /\ z.RegCTL \in [Chans(u.kind) -> CtlType]
      BY <2>1, <2>3 DEF TimerType
    <2>5. z.count \in Word /\ z.up_down \in BOOLEAN /\ z.channelID \in Chans(u.kind)
      BY <1>9, <2>2, Zenon
    <2>6. z.prescale \in Nat \ {0} /\ z.systemTicks \in Nat
      BY <1>9
    <2>7. Unfollowed(z)
      BY <1>8, <2>1, <2>4, <2>5, <2>6, AssignedQuiet
    <2> QED BY <1>7, <2>1, <2>7
  <1> QED BY <1>6, <1>7, <1>8, <1>10, StaleKeeps

(* After the constructor and init.                                         *)
LEMMA TimerInvInit ==
  TimerInit => TimerInv(tm)
  <1> SUFFICES ASSUME NEW k \in {"t1", "t3", "t4"}, tm = timer_init(k) PROVE TimerInv(tm)
    BY DEF TimerInit
  <1>1. /\ DOMAIN tm = Fields /\ tm.kind = k /\ tm.count = 0 /\ tm.NextCmpEvent = -1
        /\ tm.up_down = FALSE /\ tm.mode = 0 /\ tm.prescale = 1 /\ tm.systemTicks = 0
        /\ tm.ValRegCMP = [i \in Chans(k) |-> 0] /\ tm.RegCTL = [i \in Chans(k) |-> NoCtl]
        /\ tm.channelID = 0 /\ tm.stale = TRUE /\ tm.missed = FALSE /\ tm.inside = FALSE
    BY DEF timer_init, Fields
  <1>2. 0 \in Word /\ -1 \in Word /\ 0 \in Chans(k) /\ NoCtl \in CtlType
    BY TimerSizes DEF Word, Chans, NoCtl, CtlType
  <1>3. /\ tm.ValRegCMP \in [Chans(tm.kind) -> Word] /\ tm.RegCTL \in [Chans(tm.kind) -> CtlType]
        /\ tm.channelID \in Chans(tm.kind)
    BY <1>1, <1>2
  <1>4. /\ tm.kind \in {"t1", "t3", "t4"} /\ tm.count \in Word /\ tm.NextCmpEvent \in Word
        /\ tm.up_down \in BOOLEAN /\ ~tm.missed /\ ~tm.inside
    BY <1>1, <1>2, Zenon
  <1>5. tm.mode \in 0 .. 3 /\ tm.prescale \in Nat \ {0} /\ tm.systemTicks \in Nat
    BY <1>1
  <1>6. Unfollowed(tm)
    BY <1>1, <1>3, <1>4, <1>5 DEF TimerType, Unfollowed
  <1> QED BY <1>1, <1>6, StaleKeeps

(* Every operation keeps the invariant.                                    *)
LEMMA TimerInvStep ==
  TimerInv(tm) /\ [TimerNext]_tm => TimerInv(tm)'
  <1> SUFFICES ASSUME TimerInv(tm), [TimerNext]_tm PROVE TimerInv(tm')
    BY DEF TimerInv, TimerType, Watched, InTime, OnPeriod, Toward, Ahead, Behind, Downwards
  <1>1. CASE Ticked
    <2>1. PICK n \in Cycles : tm' = tick(tm, n)
      BY <1>1 DEF Ticked
    <2>2. n \in Nat
      BY Timer2530Assumption
    <2> QED BY <2>1, <2>2, TickKeeps
  <1>2. CASE WriteCtl
    BY <1>2, WriteCtlKeeps
  <1>3. CASE WriteCmp
    BY <1>3, WriteCmpKeeps
  <1>4. CASE WriteChannel
    BY <1>4, WriteChannelKeeps
  <1>5. CASE WriteOther
    BY <1>5, WriteOtherKeeps
  <1>6. CASE ResetTimer
    BY <1>6, ResetKeeps
  <1>7. CASE UNCHANGED tm
    BY <1>7
  <1> QED BY <1>1, <1>2, <1>3, <1>4, <1>5, <1>6, <1>7 DEF TimerNext

(* A timer that is written, read and reset at will while it counts never   *)
(* passes over a match of channel 0 that its prediction knows of, and a    *)
(* count that started a period of modulo or up/down mode at zero stays on  *)
(* it.                                                                     *)
THEOREM TimersKeepPaceAlways == TimerInit /\ [][TimerNext]_tm => []TimersKeepPace
  <1>1. TimerInv(tm) => TimersKeepPace
    <2> SUFFICES ASSUME TimerInv(tm) PROVE TimersKeepPace
      OBVIOUS
    <2>1. TimerType(tm) /\ ~tm.missed
      BY DEF TimerInv
    <2>2. 0 \in Chans(tm.kind)
      BY TimerSizes DEF Chans
    <2>3. tm.ValRegCMP[0] \in Int /\ tm.count \in Int
      BY <2>1, <2>2, TimerSizes, Distances DEF Word, TimerType
    <2>4. tm.inside => 0 <= tm.count /\ tm.count <= tm.ValRegCMP[0]
      BY DEF TimerInv, OnPeriod
    <2> QED BY <2>1, <2>3, <2>4 DEF TimersKeepPace
  <1> QED BY <1>1, TimerInvInit, TimerInvStep, PTL
-----------------------------------------------------------------------------
(* The interrupt system.                                                   *)
USE SourcesAssumption

(* The stack of priorities after a reset is a sequence of priorities.      *)
LEMMA BaseLevels == <<-1>> \in Seq(Levels)
  BY DEF Levels

(* Type correctness is kept by every step.                                 *)
LEMMA TypeStep == TypeOK /\ [Next]_vars => TypeOK'
<1> SUFFICES ASSUME TypeOK, [Next]_vars PROVE TypeOK'
  OBVIOUS
<1> USE DEF TypeOK
<1>1. CASE DoInst BY <1>1 DEF DoInst, sfrs, pins, hist
<1>2. CASE ExecPlain BY <1>2 DEF ExecPlain, Begin, sfrs, pins
<1>3. CASE ExecWriteIE
  BY <1>3 DEF ExecWriteIE, Begin, SetIE, pins, Ien0Bits
<1>4. CASE ExecWrite
  BY <1>4 DEF ExecWrite, Begin, SetOther, SetFlags, SetP3, Happen, Low, pins, Ien0Bits
<1>5. CASE ExecReti BY <1>5 DEF ExecReti, Begin, sfrs, pins, Top
<1>6. CASE ExecBreak BY <1>6 DEF ExecBreak, sfrs, pins, hist
<1>7. CASE IdleCycle BY <1>7 DEF IdleCycle, cpu, sfrs, pins, hist
<1>8. CASE PostInst BY <1>8 DEF PostInst, cpu, pins, hist, Low
<1>9. CASE WatchdogReset BY <1>9, BaseLevels DEF WatchdogReset, ResetMachine
<1>10. CASE IrqHeldOff BY <1>10 DEF IrqHeldOff, sfrs, pins, hist
<1>11. CASE IrqNone BY <1>11 DEF IrqNone, cpu, sfrs, pins
<1>12. CASE IrqWake BY <1>12 DEF IrqWake, pins
<1>13. CASE IrqAccept BY <1>13 DEF IrqAccept, accept_it, it_priority, pins, Levels
<1>14. CASE IdlePd BY <1>14 DEF IdlePd, sfrs, pins, hist
<1>15. CASE Poke
  <2>1. /\ pokes' \in 0 .. MaxPokes /\ missed' = 0
        /\ UNCHANGED <<phase, state, result, it_levels>>
    BY <1>15 DEF Poke
  <2>2. CASE SetIE
    BY <2>1, <2>2 DEF SetIE, pins, Ien0Bits
  <2>3. CASE SetOther /\ UNCHANGED <<was_reti, unexec>>
    BY <2>1, <2>3 DEF SetOther, pins, Ien0Bits
  <2>4. CASE (SetFlags \/ SetP3 \/ SetPins) /\ UNCHANGED <<was_reti, unexec>>
    BY <2>1, <2>4 DEF SetFlags, SetP3, SetPins, Happen, Low, pins
  <2> QED
    BY <1>15, <2>2, <2>3, <2>4 DEF Poke
<1>16. CASE ResetCommand
  <2>1. pokes' \in 0 .. MaxPokes
    BY <1>16 DEF ResetCommand
  <2>2. it_levels' \in Seq(Levels)
    BY <1>16, BaseLevels DEF ResetCommand, ResetMachine
  <2> QED
    BY <1>16, <2>1, <2>2 DEF ResetCommand, ResetMachine
<1>17. CASE UNCHANGED vars BY <1>17 DEF vars, cpu, sfrs, pins, hist
<1> QED
  BY <1>1, <1>2, <1>3, <1>4, <1>5, <1>6, <1>7, <1>8, <1>9, <1>10, <1>11,
     <1>12, <1>13, <1>14, <1>15, <1>16, <1>17 DEF Next, Loop

(* The state after reset is well typed.                                    *)
LEMMA InitType == Init => TypeOK
<1> SUFFICES ASSUME Init PROVE TypeOK
  OBVIOUS
<1>1. pokes \in 0 .. MaxPokes
  BY DEF Init
<1>2. it_levels \in Seq(Levels)
  BY BaseLevels DEF Init
<1> QED
  BY <1>1, <1>2 DEF Init, TypeOK

(* Every reachable state of the interrupt system is well typed.            *)
THEOREM TypeCorrect == Spec => []TypeOK
  BY InitType, TypeStep, PTL DEF Spec
-----------------------------------------------------------------------------
(* A nested sequence of priorities stays nested when a higher priority is  *)
(* pushed on it.                                                            *)
LEMMA NestedAppend ==
  ASSUME NEW s \in Seq(Levels), Nested(s), NEW p \in {0, 1},
         s[Len(s)] >= 0 => p > s[Len(s)]
  PROVE  Nested(Append(s, p))
<1>1. /\ Len(Append(s, p)) = Len(s) + 1
      /\ \A i \in 1 .. Len(s) : Append(s, p)[i] = s[i]
      /\ Append(s, p)[Len(s) + 1] = p
  OBVIOUS
<1>2. \A i \in 1 .. Len(s) : s[i] \in Levels
  BY ElementOfSeq
<1>3. \A i \in 1 .. Len(s) : s[i] < p
  BY <1>2 DEF Nested, Levels
<1>4. Len(s) # 3
  <2> SUFFICES ASSUME Len(s) = 3 PROVE FALSE
    OBVIOUS
  <2>1. 1 \in 1 .. Len(s) /\ 2 \in 1 .. Len(s) /\ 3 \in 1 .. Len(s) /\ 1 < 2 /\ 2 < 3
    OBVIOUS
  <2>2. s[1] < s[2] /\ s[2] < s[3]
    BY <2>1, Zenon DEF Nested
  <2>3. s[1] \in Levels /\ s[2] \in Levels /\ s[3] \in Levels /\ s[3] < p
    BY <1>2, <1>3, <2>1, Zenon
  <2> QED
    BY <2>2, <2>3 DEF Levels
<1> QED
  BY <1>1, <1>3, <1>4 DEF Nested

(* The elements below the top are what they were when the top is popped.   *)
LEMMA FrontProperties ==
  ASSUME NEW S, NEW s \in Seq(S), NEW n \in 1 .. Len(s)
  PROVE  /\ Len(SubSeq(s, 1, n)) = n
         /\ \A i \in 1 .. n : SubSeq(s, 1, n)[i] = s[i]
  OBVIOUS

(* RETI keeps a nested sequence nested.                                    *)
LEMMA NestedFront ==
  ASSUME NEW s \in Seq(Levels), Nested(s), s[Len(s)] >= 0
  PROVE  Nested(SubSeq(s, 1, Len(s) - 1))
<1>1. Len(s) \in 2 .. 3
  <2>1. Len(s) \in 1 .. 3 /\ s[1] = -1
    BY DEF Nested
  <2> QED
    BY <2>1
<1>2. /\ Len(SubSeq(s, 1, Len(s) - 1)) = Len(s) - 1
      /\ \A i \in 1 .. Len(s) - 1 : SubSeq(s, 1, Len(s) - 1)[i] = s[i]
  <2>1. Len(s) - 1 \in 1 .. Len(s)
    BY <1>1
  <2> QED
    BY <2>1, FrontProperties
<1> QED
  BY <1>1, <1>2 DEF Nested

(* The bottom element alone is nested.                                     *)
LEMMA NestedBase == Nested(<<-1>>)
  BY DEF Nested

(* Every step, acceptance, RETI and resets included, keeps the priorities  *)
(* in service nested.                                                      *)
LEMMA NestingStep == IInv /\ [Next]_vars => Nesting'
<1> SUFFICES ASSUME IInv, [Next]_vars PROVE Nesting'
  OBVIOUS
<1>1. CASE UNCHANGED it_levels
  BY <1>1 DEF IInv, Nesting
<1>2. CASE ExecReti
  BY <1>2, NestedFront DEF ExecReti, IInv, Nesting, Top, TypeOK
<1>3. CASE IrqAccept
  <2>1. PICK i \in DOMAIN ItSources : Polled(i) /\ accept_it(ItSources[i])
    BY <1>3 DEF IrqAccept
  <2>2. Top >= 0 => it_priority(ItSources[i]) > Top
    BY <2>1 DEF Polled, EligibleAt, Eligible
  <2>3. it_priority(ItSources[i]) \in {0, 1}
    BY DEF it_priority
  <2> QED
    BY <2>1, <2>2, <2>3, NestedAppend DEF accept_it, IInv, Nesting, Top, TypeOK
<1>4. CASE WatchdogReset \/ ResetCommand
  BY <1>4, NestedBase
  DEF WatchdogReset, ResetCommand, ResetMachine, Nesting
<1> QED
  BY <1>1, <1>2, <1>3, <1>4
  DEF Next, Loop, vars, DoInst, ExecPlain, ExecWriteIE, ExecWrite, ExecBreak,
      IdleCycle, PostInst, IrqHeldOff, IrqNone, IrqWake, IdlePd, Poke
-----------------------------------------------------------------------------
(* The loop of do_inst is left in power-down mode, and was_reti is set     *)
(* whenever do_interrupt is about to run with no instruction executed.     *)
LEMMA LoopStep == IInv /\ [Next]_vars => LoopInv' /\ HoldOffInv'
<1> SUFFICES ASSUME IInv, [Next]_vars PROVE LoopInv' /\ HoldOffInv'
  OBVIOUS
<1> USE DEF IInv, TypeOK, LoopInv, HoldOffInv
<1>1. CASE DoInst BY <1>1 DEF DoInst
<1>2. CASE ExecPlain \/ ExecWriteIE \/ ExecWrite \/ ExecReti
  BY <1>2 DEF ExecPlain, ExecWriteIE, SetIE, ExecWrite, ExecReti, Begin
<1>3. CASE ExecBreak BY <1>3 DEF ExecBreak
<1>4. CASE IdleCycle BY <1>4 DEF IdleCycle, cpu, hist
<1>5. CASE PostInst BY <1>5 DEF PostInst, cpu, hist
<1>6. CASE WatchdogReset BY <1>6 DEF WatchdogReset, ResetMachine
<1>7. CASE IrqHeldOff \/ IrqNone
  BY <1>7 DEF IrqHeldOff, IrqNone, cpu
<1>8. CASE IrqWake BY <1>8 DEF IrqWake
<1>9. CASE IrqAccept BY <1>9 DEF IrqAccept, accept_it
<1>10. CASE IdlePd BY <1>10 DEF IdlePd
<1>11. CASE Poke BY <1>11 DEF Poke
<1>12. CASE ResetCommand BY <1>12 DEF ResetCommand, ResetMachine
<1>13. CASE UNCHANGED vars BY <1>13 DEF vars, cpu, hist
<1> QED
  BY <1>1, <1>2, <1>3, <1>4, <1>5, <1>6, <1>7, <1>8, <1>9, <1>10, <1>11,
     <1>12, <1>13 DEF Next, Loop

(* The count of passed over requests stays within its bound.               *)
LEMMA MissedStep == IInv /\ [Next]_vars => MissedInv'
<1> SUFFICES ASSUME IInv, [Next]_vars PROVE MissedInv'
  OBVIOUS
<1> USE DEF IInv, TypeOK, LoopInv, MissedInv
<1>1. CASE DoInst BY <1>1 DEF DoInst, hist, sfrs, Top
<1>2. CASE ExecPlain BY <1>2 DEF ExecPlain, Begin, sfrs, Top
<1>3. CASE ExecWriteIE BY <1>3 DEF ExecWriteIE, SetIE, Begin, Top
<1>4. CASE ExecWrite
  BY <1>4 DEF ExecWrite, Begin, SetOther, SetFlags, SetP3, Happen, Top
<1>5. CASE ExecReti BY <1>5 DEF ExecReti
<1>6. CASE ExecBreak BY <1>6 DEF ExecBreak, hist, sfrs, Top
<1>7. CASE IdleCycle BY <1>7 DEF IdleCycle, cpu, hist, sfrs, Top
<1>8. CASE PostInst BY <1>8 DEF PostInst, cpu, hist, Top
<1>9. CASE WatchdogReset \/ ResetCommand
  BY <1>9 DEF WatchdogReset, ResetCommand, ResetMachine
<1>10. CASE IrqHeldOff BY <1>10 DEF IrqHeldOff, hist, sfrs, Top
<1>11. CASE IrqNone BY <1>11 DEF IrqNone
<1>12. CASE IrqWake BY <1>12 DEF IrqWake, Top
<1>13. CASE IrqAccept
  <2>1. PICK i \in DOMAIN ItSources : Polled(i) /\ accept_it(ItSources[i])
    BY <1>13 DEF IrqAccept
  <2>2. it_priority(ItSources[i]) \in {0, 1}
    BY DEF it_priority
  <2>3. CASE missed' = 0
    BY <2>3
  <2>4. CASE missed' # 0
    <3>1. missed' = missed + 1 /\ it_priority(ItSources[i]) = 0
      BY <2>1, <2>4 DEF accept_it
    <3>2. ~(Top >= 0)
      <4>1. Top \in Levels
        BY ElementOfSeq DEF Top, Nesting, Nested
      <4>2. Top >= 0 => 0 > Top
        BY <2>1, <3>1 DEF Polled, EligibleAt, Eligible
      <4> QED
        BY <4>1, <4>2 DEF Levels
    <3>3. Top' = 0
      <4>1. it_levels' = Append(it_levels, 0)
        BY <2>1, <3>1 DEF accept_it
      <4>2. Len(it_levels') = Len(it_levels) + 1
            /\ it_levels'[Len(it_levels) + 1] = 0
        BY <4>1
      <4> QED
        BY <4>2 DEF Top
    <3>4. state' = "GO" /\ "IDL" \notin pcon'
      BY <2>1 DEF accept_it
    <3> QED
      BY <3>1, <3>2, <3>3, <3>4
  <2> QED
    BY <2>3, <2>4
<1>14. CASE IdlePd BY <1>14 DEF IdlePd, hist, sfrs, Top
<1>15. CASE Poke BY <1>15 DEF Poke
<1>16. CASE UNCHANGED vars BY <1>16 DEF vars, cpu, sfrs, hist, Top
<1> QED
  BY <1>1, <1>2, <1>3, <1>4, <1>5, <1>6, <1>7, <1>8, <1>9, <1>10, <1>11,
     <1>12, <1>13, <1>14, <1>15, <1>16 DEF Next, Loop

(* The inductive invariant holds in every reachable state.                 *)
LEMMA Inductive == Spec => []IInv
<1>1. Init => IInv
  BY InitType, NestedBase
  DEF Init, IInv, Nesting, LoopInv, HoldOffInv, MissedInv
<1>2. IInv /\ [Next]_vars => IInv'
  BY TypeStep, NestingStep, LoopStep, MissedStep DEF IInv
<1> QED
  BY <1>1, <1>2, PTL DEF Spec

(* Interrupts in service always have strictly increasing priorities, so at *)
(* most two service routines are active.                                   *)
THEOREM NestingHolds == Spec => []Nesting
<1>1. IInv => Nesting
  BY DEF IInv
<1> QED
  BY <1>1, Inductive, PTL

(* An eligible request of priority 1 is passed over at most twice before   *)
(* the next RETI, for any polling order.                                   *)
THEOREM HighServedHolds == Spec => []HighServed
<1>1. IInv => HighServed
  BY DEF IInv, MissedInv, HighServed
<1> QED
  BY <1>1, Inductive, PTL

(* No interrupt is accepted before an instruction was executed after a     *)
(* RETI, a write of IE, an acceptance or a wake up.                        *)
THEOREM AcceptDelayedHolds == Spec => AcceptDelayed
<1>1. IInv /\ [Next]_vars => [Len(it_levels') > Len(it_levels) => ~unexec]_vars
  <2> SUFFICES ASSUME IInv, [Next]_vars, Len(it_levels') > Len(it_levels)
               PROVE  ~unexec
    OBVIOUS
  <2>1. Len(it_levels) \in Nat
    BY DEF IInv, TypeOK
  <2>2. CASE IrqAccept
    BY <2>2 DEF IrqAccept, IInv, LoopInv, HoldOffInv, TypeOK
  <2>3. CASE UNCHANGED it_levels
    BY <2>1, <2>3
  <2>4. CASE ExecReti /\ ~UNCHANGED it_levels
    <3>1. it_levels' = SubSeq(it_levels, 1, Len(it_levels) - 1)
      BY <2>4 DEF ExecReti
    <3>2. Len(it_levels') <= Len(it_levels)
      BY <3>1, <2>1 DEF IInv, TypeOK
    <3> QED
      BY <2>1, <3>2
  <2>5. CASE WatchdogReset \/ ResetCommand
    <3>1. it_levels' = <<-1>>
      BY <2>5 DEF WatchdogReset, ResetCommand, ResetMachine
    <3>2. Len(it_levels') = 1
      BY <3>1
    <3>3. Len(it_levels) >= 1
      BY DEF IInv, Nesting, Nested
    <3> QED
      BY <2>1, <3>2, <3>3
  <2> QED
    BY <2>2, <2>3, <2>4, <2>5
    DEF Next, Loop, vars, DoInst, ExecPlain, ExecWriteIE, ExecWrite, ExecBreak,
        IdleCycle, PostInst, IrqHeldOff, IrqNone, IrqWake, IdlePd, Poke
<1> QED
  BY <1>1, Inductive, PTL DEF Spec, AcceptDelayed

(* Power-down mode is left by the reset command only.                      *)
THEOREM PowerDownKept == Spec => PowerDownHolds
<1>1. IInv /\ [Next]_vars =>
        [state = "PD" /\ state' # "PD" => ResetCommand]_vars
  BY DEF IInv, LoopInv, Next, Loop, vars, cpu, DoInst, Begin, ExecPlain, ExecWriteIE,
         ExecWrite, ExecReti, ExecBreak, IdleCycle, PostInst, WatchdogReset,
         IrqHeldOff, IrqNone, IrqWake, IrqAccept, IdlePd, Poke
<1> QED
  BY <1>1, Inductive, PTL DEF Spec, PowerDownHolds
=============================================================================

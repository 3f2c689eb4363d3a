------------------------------- MODULE Alu51 --------------------------------
(***************************************************************************)
(* The arithmetic of the MCS51: the instructions that change ACC, B and    *)
(* the flags of PSW.  A source operand x is a byte of the program, a       *)
(* direct address (ACC and PSW too), a register or an indirect one: the    *)
(* four functions of an instruction differ only in where they read it.     *)
(*                                                                         *)
(* A write of ACC goes through cl_uc51_dummy_hw, which sets the parity bit *)
(* of PSW; a write of PSW goes through nothing.                            *)
(*                                                                         *)
(* `sum' and `stale' are history: the decimal sum that DA A has to give    *)
(* (None if the last instruction was no addition of decimal numbers), and  *)
(* whether PSW has been written since ACC was.                             *)
(***************************************************************************)
EXTENDS Integers, FiniteSets

CONSTANTS
  Nibble,      \* values of half a byte (16)
  Radix        \* values of a decimal digit (10)

Modulus == Nibble * Nibble
Half == Modulus \div 2
Byte == 0 .. Modulus - 1

ASSUME AluAssumption ==
  /\ Nibble \in {2, 4, 8, 16} /\ Radix \in 2 .. Nibble /\ 2 * Radix > Nibble

None == -1

VARIABLES acc, B, CY, AC, OV, P, sum, stale

aluVars == <<acc, B, CY, AC, OV, P, sum, stale>>

AluTypeOK ==
  /\ acc \in Byte /\ B \in Byte
  /\ CY \in BOOLEAN /\ AC \in BOOLEAN /\ OV \in BOOLEAN /\ P \in BOOLEAN
  /\ sum \in {None} \cup 0 .. 2 * Radix * Radix - 1 /\ stale \in BOOLEAN

\* clear_sfr
AluInit ==
  /\ acc = 0 /\ B = 0 /\ CY = FALSE /\ AC = FALSE /\ OV = FALSE /\ P = FALSE
  /\ sum = None /\ stale = FALSE
-----------------------------------------------------------------------------
Num(b) == IF b THEN 1 ELSE 0
Low(v) == v % Nibble
High(v) == v \div Nibble
Signed(v) == IF v < Half THEN v ELSE v - Modulus
Bit(v, i) == (v \div 2^i) % 2 = 1
Bits == {i \in 0 .. 7 : 2^i < Modulus}

\* The loop of cl_uc51_dummy_hw::write over the bits of ACC.
Parity(v) == Cardinality({i \in Bits : Bit(v, i)}) % 2 = 1

Decimal(v) == Low(v) < Radix /\ High(v) < Radix
Value(v) == Radix * High(v) + Low(v)

\* acc->write(v)
WriteAcc(v) == acc' = v /\ P' = Parity(v) /\ stale' = FALSE

\* acc->write(v), then psw->write of a value that was read before it
WriteAccPsw(v) == acc' = v /\ UNCHANGED P /\ stale' = TRUE

NoSum == sum' = None
-----------------------------------------------------------------------------
Fault_AddFlags(x, c) ==
  LET carry == acc + x + c > Modulus - 1
      c6 == (acc % Half) + (x % Half) >= Half
  IN /\ CY' = carry /\ OV' = (carry # c6)
     /\ AC' = (Low(acc) + Low(x) + c >= Nibble)

AddFlags(x, c) ==
  LET carry == acc + x + c > Modulus - 1
      c6 == (acc % Half) + (x % Half) + c >= Half
  IN /\ CY' = carry /\ OV' = (carry # c6)
     /\ AC' = (Low(acc) + Low(x) + c >= Nibble)

Addition(x, c) ==
  /\ AddFlags(x, c)
  /\ WriteAcc((acc + x + c) % Modulus)
  /\ sum' = IF Decimal(acc) /\ Decimal(x) THEN Value(acc) + Value(x) + c ELSE None
  /\ UNCHANGED B

ADD(x) == Addition(x, 0)
ADDC(x) == Addition(x, Num(CY))

\* AC of SUBB
Borrow(x, c) == Low(acc) < Low(x + c) \/ (c = 1 /\ Low(x) = Nibble - 1)

SUBB(x) ==
  LET c == Num(CY)
      result == (acc - x - c) % Modulus
  IN /\ CY' = (acc < x + c)
     /\ OV' = (\/ acc < Half /\ x >= Half /\ result >= Half
               \/ acc >= Half /\ x < Half /\ result < Half)
     /\ AC' = Borrow(x, c)
     /\ WriteAccPsw(result) /\ NoSum /\ UNCHANGED B

MUL ==
  /\ WriteAcc((acc * B) % Modulus) /\ B' = (acc * B) \div Modulus
  /\ OV' = (B' # 0) /\ CY' = FALSE
  /\ NoSum /\ UNCHANGED AC

\* by zero only the flags change
DIV ==
  /\ CY' = FALSE /\ OV' = (B = 0)
  /\ IF B = 0 THEN UNCHANGED <<acc, B, P, stale>>
              ELSE B' = acc % B /\ WriteAccPsw(acc \div B)
  /\ NoSum /\ UNCHANGED AC

\* the distance that DA A adds to a digit
Skip == Nibble - Radix

\* each correction may set the carry and none clears it
DA ==
  LET low == Low(acc) > Radix - 1 \/ AC
      ac == IF low THEN acc + Skip ELSE acc
      carry == CY \/ ac > Modulus - 1
      high == High(ac % Modulus) > Radix - 1 \/ carry
      ac2 == IF high THEN (ac % Modulus) + Skip * Nibble ELSE ac % Modulus
  IN /\ CY' = (carry \/ ac2 > Modulus - 1)
     /\ WriteAccPsw(ac2 % Modulus) /\ NoSum /\ UNCHANGED <<B, AC, OV>>
-----------------------------------------------------------------------------
\* The other instructions on ACC: rotations, SWAP, CPL, INC, DEC, logic, and
\* any load (MOV, MOVX, MOVC, XCH, XCHD, CLR, POP ACC).

RR == WriteAcc((acc \div 2) + Num(Bit(acc, 0)) * Half) /\ NoSum /\ UNCHANGED <<B, CY, AC, OV>>

RL ==
  /\ WriteAcc((2 * acc + Num(acc >= Half)) % Modulus)
  /\ NoSum /\ UNCHANGED <<B, CY, AC, OV>>

RRC ==
  /\ CY' = Bit(acc, 0) /\ WriteAcc((acc \div 2) + Num(CY) * Half)
  /\ NoSum /\ UNCHANGED <<B, AC, OV>>

RLC ==
  /\ CY' = (acc >= Half) /\ WriteAcc((2 * acc + Num(CY)) % Modulus)
  /\ NoSum /\ UNCHANGED <<B, AC, OV>>

Load(v) == WriteAcc(v) /\ NoSum /\ UNCHANGED <<B, CY, AC, OV>>

swap == Load(Low(acc) * Nibble + High(acc))
CPL == Load(Modulus - 1 - acc)
INC == Load((acc + 1) % Modulus)
DEC == Load((acc - 1) % Modulus)
XCHD(x) == Load(High(acc) * Nibble + Low(x))

LoadB(v) == B' = v /\ NoSum /\ UNCHANGED <<acc, CY, AC, OV, P, stale>>

\* The carry: SETB, CLR, CPL, MOV C, ANL C, ORL C give it any value; CJNE
\* compares.
SetC(c) == CY' = c /\ NoSum /\ UNCHANGED <<acc, B, AC, OV, P, stale>>
CJNE(x) == SetC(acc < x)

\* An instruction that writes PSW (MOV PSW, POP PSW, ...), the parity bit too.
WritePsw(c, a, o, p) ==
  /\ CY' = c /\ AC' = a /\ OV' = o /\ P' = p
  /\ stale' = TRUE /\ NoSum /\ UNCHANGED <<acc, B>>

Arithmetic == (\E x \in Byte : ADD(x) \/ ADDC(x) \/ SUBB(x)) \/ MUL \/ DIV \/ DA

Shifts == RR \/ RL \/ RRC \/ RLC \/ swap \/ CPL \/ INC \/ DEC

Moves ==
  \/ \E x \in Byte : Load(x) \/ LoadB(x) \/ XCHD(x) \/ CJNE(x)
  \/ \E c \in BOOLEAN : SetC(c)
  \/ \E c, a, o, p \in BOOLEAN : WritePsw(c, a, o, p)

AluNext == Arithmetic \/ Shifts \/ Moves

AluSpec == AluInit /\ [][AluNext]_aluVars
-----------------------------------------------------------------------------
InRange(v) == v \in -Half .. Half - 1

(***************************************************************************)
(* Carry, ACC and B hold the exact result of ADD, ADDC, SUBB, MUL and DIV; *)
(* AC is the carry of the low digits; and OV, which ADD derives from two   *)
(* carries and SUBB from written-out cases, tells that the result of the   *)
(* signed numbers does not fit, that the product needs B or B was zero.    *)
(***************************************************************************)
ArithmeticExact ==
  [][aluVars' # aluVars =>
     /\ \A x \in Byte :
          /\ \A c \in 0 .. Num(CY) :
               Addition(x, c) =>
                 /\ Modulus * Num(CY') + acc' = acc + x + c
                 /\ Nibble * Num(AC') + Low(acc') = Low(acc) + Low(x) + c
                 /\ OV' = ~InRange(Signed(acc) + Signed(x) + c)
          /\ SUBB(x) =>
               /\ acc' - Modulus * Num(CY') = acc - x - Num(CY)
               /\ Low(acc') - Nibble * Num(AC') = Low(acc) - Low(x) - Num(CY)
               /\ OV' = ~InRange(Signed(acc) - Signed(x) - Num(CY))
     /\ MUL => Modulus * B' + acc' = acc * B /\ OV' = (acc * B >= Modulus)
     /\ DIV /\ B # 0 => acc' * B + B' = acc /\ B' < B /\ ~OV']_aluVars

(***************************************************************************)
(* DA A after an addition of two decimal numbers, with or without carry    *)
(* and whatever flags earlier instructions left, gives the decimal digits  *)
(* of the sum and its carry.                                               *)
(***************************************************************************)
DecimalSum ==
  [][sum # None /\ DA =>
       Decimal(acc') /\ Radix * Radix * Num(CY') + Value(acc') = sum]_aluVars

(***************************************************************************)
(* P is the parity of ACC whenever ACC was written after PSW: no           *)
(* instruction but those that write PSW after ACC (SUBB, DIV, DA A) or     *)
(* alone leaves it behind.  With it, the types: ACC stays a byte.          *)
(***************************************************************************)
ParityTracked == AluTypeOK /\ (~stale => P = Parity(acc))

(***************************************************************************)
(* Over any sequence of instructions the arithmetic is exact, DA A corrects*)
(* sums of decimal numbers whatever the flags, and P follows ACC: the three*)
(* properties above.                                                       *)
(***************************************************************************)
AluExact == []ParityTracked /\ ArithmeticExact /\ DecimalSum
=============================================================================

-------------------------- MODULE Execution_proofs --------------------------
(***************************************************************************)
(* The execution of a program: the breakpoints that stop it, and the       *)
(* arithmetic of the MCS51 instructions.                                   *)
(*                                                                         *)
(* For any code and data memory, any addresses and hit numbers a user may  *)
(* type, and any number of breakpoints: the effect of a step on the        *)
(* collections has one of six shapes: a breakpoint is added, deleted,      *)
(* rewritten in place, or nothing changes.  The invariant is proved for    *)
(* the shapes, and every action is shown to have one.                      *)
(*                                                                         *)
(* For every size of a byte and every radix that its digits can hold: the  *)
(* results and the flags of the arithmetic are exact, DA A corrects a sum  *)
(* of decimal numbers, and P follows ACC.                                  *)
(***************************************************************************)
EXTENDS Breakpoints, Alu51, TLAPS, FiniteSetTheorems

(* The arithmetic.                                                         *)

(* The sizes that half a byte can have.                                    *)
LEMMA AluSizes ==
  /\ \/ Nibble = 2 /\ Modulus = 4 /\ Half = 2
     \/ Nibble = 4 /\ Modulus = 16 /\ Half = 8
     \/ Nibble = 8 /\ Modulus = 64 /\ Half = 32
     \/ Nibble = 16 /\ Modulus = 256 /\ Half = 128
  /\ Radix \in Nat /\ 2 <= Radix /\ Radix <= Nibble /\ 2 * Radix > Nibble
  <1>1. Nibble = 2 => Modulus = 4 /\ Half = 2
    BY DEF Modulus, Half
  <1>2. Nibble = 4 => Modulus = 16 /\ Half = 8
    BY DEF Modulus, Half
  <1>3. Nibble = 8 => Modulus = 64 /\ Half = 32
    BY DEF Modulus, Half
  <1>4. Nibble = 16 => Modulus = 256 /\ Half = 128
    BY DEF Modulus, Half
  <1> QED BY <1>1, <1>2, <1>3, <1>4, AluAssumption

(* A byte has two digits.                                                  *)
LEMMA Digits ==
  ASSUME NEW v \in Byte
  PROVE  /\ Low(v) \in 0 .. Nibble - 1 /\ High(v) \in 0 .. Nibble - 1
         /\ v = Nibble * High(v) + Low(v)
  <1>1. CASE Nibble = 2 /\ Modulus = 4
    BY <1>1 DEF Byte, Low, High
  <1>2. CASE Nibble = 4 /\ Modulus = 16
    BY <1>2 DEF Byte, Low, High
  <1>3. CASE Nibble = 8 /\ Modulus = 64
    BY <1>3 DEF Byte, Low, High
  <1>4. CASE Nibble = 16 /\ Modulus = 256
    BY <1>4 DEF Byte, Low, High
  <1> QED BY <1>1, <1>2, <1>3, <1>4, AluSizes

(* Two digits make a byte.                                                 *)
LEMMA Composed ==
  ASSUME NEW h \in 0 .. Nibble - 1, NEW l \in 0 .. Nibble - 1
  PROVE  /\ Nibble * h + l \in Byte
         /\ Low(Nibble * h + l) = l /\ High(Nibble * h + l) = h
  <1>1. CASE Nibble = 2 /\ Modulus = 4
    BY <1>1 DEF Byte, Low, High
  <1>2. CASE Nibble = 4 /\ Modulus = 16
    BY <1>2 DEF Byte, Low, High
  <1>3. CASE Nibble = 8 /\ Modulus = 64
    BY <1>3 DEF Byte, Low, High
  <1>4. CASE Nibble = 16 /\ Modulus = 256
    BY <1>4 DEF Byte, Low, High
  <1> QED BY <1>1, <1>2, <1>3, <1>4, AluSizes
-----------------------------------------------------------------------------
(* The remainder of a sum or a difference.                                 *)
LEMMA Wrapped ==
  ASSUME NEW v \in -Modulus .. 2 * Modulus - 1
  PROVE  /\ v % Modulus \in Byte
         /\ v % Modulus = IF v < 0 THEN v + Modulus ELSE IF v < Modulus THEN v ELSE v - Modulus
  <1>1. CASE Nibble = 2 /\ Modulus = 4 /\ Half = 2
    BY <1>1 DEF Byte
  <1>2. CASE Nibble = 4 /\ Modulus = 16 /\ Half = 8
    BY <1>2 DEF Byte
  <1>3. CASE Nibble = 8 /\ Modulus = 64 /\ Half = 32
    BY <1>3 DEF Byte
  <1>4. CASE Nibble = 16 /\ Modulus = 256 /\ Half = 128
    BY <1>4 DEF Byte
  <1> QED BY <1>1, <1>2, <1>3, <1>4, AluSizes

(* The lower bits of a byte.                                               *)
LEMMA Halved ==
  ASSUME NEW v \in Byte
  PROVE  v % Half = IF v < Half THEN v ELSE v - Half
  <1>1. CASE Nibble = 2 /\ Modulus = 4 /\ Half = 2
    BY <1>1 DEF Byte
  <1>2. CASE Nibble = 4 /\ Modulus = 16 /\ Half = 8
    BY <1>2 DEF Byte
  <1>3. CASE Nibble = 8 /\ Modulus = 64 /\ Half = 32
    BY <1>3 DEF Byte
  <1>4. CASE Nibble = 16 /\ Modulus = 256 /\ Half = 128
    BY <1>4 DEF Byte
  <1> QED BY <1>1, <1>2, <1>3, <1>4, AluSizes

(* An addition: the carry, that of the low digits, and the overflow.       *)
LEMMA AddExact ==
  ASSUME NEW a \in Byte, NEW x \in Byte, NEW c \in 0 .. 1
  PROVE  LET r == (a + x + c) % Modulus
             carry == a + x + c > Modulus - 1
             c6 == (a % Half) + (x % Half) + c >= Half
             half == Low(a) + Low(x) + c >= Nibble
         IN  /\ r \in Byte /\ Modulus * Num(carry) + r = a + x + c
             /\ Nibble * Num(half) + Low(r) = Low(a) + Low(x) + c
             /\ (carry # c6) <=> ~InRange(Signed(a) + Signed(x) + c)
  <1> DEFINE r == (a + x + c) % Modulus
             carry == a + x + c > Modulus - 1
             c6 == (a % Half) + (x % Half) + c >= Half
             half == Low(a) + Low(x) + c >= Nibble
             al == Low(a)
             ah == High(a)
             xl == Low(x)
             xh == High(x)
  <1>1. /\ al \in 0 .. Nibble - 1 /\ ah \in 0 .. Nibble - 1 /\ a = Nibble * ah + al
        /\ xl \in 0 .. Nibble - 1 /\ xh \in 0 .. Nibble - 1 /\ x = Nibble * xh + xl
    BY Digits
  <1>2. /\ a \in Int /\ x \in Int /\ 0 <= a /\ a < Modulus /\ 0 <= x /\ x < Modulus
        /\ a + x + c \in -Modulus .. 2 * Modulus - 1
    <2>1. CASE Nibble = 2 /\ Modulus = 4 /\ Half = 2
      BY <2>1 DEF Byte
    <2>2. CASE Nibble = 4 /\ Modulus = 16 /\ Half = 8
      BY <2>2 DEF Byte
    <2>3. CASE Nibble = 8 /\ Modulus = 64 /\ Half = 32
      BY <2>3 DEF Byte
    <2>4. CASE Nibble = 16 /\ Modulus = 256 /\ Half = 128
      BY <2>4 DEF Byte
    <2> QED BY <2>1, <2>2, <2>3, <2>4, AluSizes
  <1>3. r \in Byte /\ r = IF carry THEN a + x + c - Modulus ELSE a + x + c
    <2>1. CASE Nibble = 2 /\ Modulus = 4 /\ Half = 2
      BY <2>1, <1>2, Wrapped
    <2>2. CASE Nibble = 4 /\ Modulus = 16 /\ Half = 8
      BY <2>2, <1>2, Wrapped
    <2>3. CASE Nibble = 8 /\ Modulus = 64 /\ Half = 32
      BY <2>3, <1>2, Wrapped
    <2>4. CASE Nibble = 16 /\ Modulus = 256 /\ Half = 128
      BY <2>4, <1>2, Wrapped
    <2> QED BY <2>1, <2>2, <2>3, <2>4, AluSizes
  <1> HIDE DEF r
  <1>4. Modulus * Num(carry) + r = a + x + c
    <2>1. CASE Nibble = 2 /\ Modulus = 4 /\ Half = 2
      BY <2>1, <1>2, <1>3 DEF Num
    <2>2. CASE Nibble = 4 /\ Modulus = 16 /\ Half = 8
      BY <2>2, <1>2, <1>3 DEF Num
    <2>3. CASE Nibble = 8 /\ Modulus = 64 /\ Half = 32
      BY <2>3, <1>2, <1>3 DEF Num
    <2>4. CASE Nibble = 16 /\ Modulus = 256 /\ Half = 128
      BY <2>4, <1>2, <1>3 DEF Num
    <2> QED BY <2>1, <2>2, <2>3, <2>4, AluSizes
  <1>5. Nibble * Num(half) + Low(r) = al + xl + c
    <2> DEFINE hc == Num(half)
               h == ah + xh + hc - (IF carry THEN Nibble ELSE 0)
               l == al + xl + c - Nibble * hc
    <2> HIDE DEF al, ah, xl, xh
    <2>1. hc = IF al + xl + c >= Nibble THEN 1 ELSE 0
      BY DEF Num, al, xl
    <2> HIDE DEF hc
    <2>2. h \in 0 .. Nibble - 1 /\ l \in 0 .. Nibble - 1 /\ r = Nibble * h + l
      <3>1. CASE Nibble = 2 /\ Modulus = 4 /\ Half = 2
        BY <3>1, <1>1, <1>2, <1>3, <2>1
      <3>2. CASE Nibble = 4 /\ Modulus = 16 /\ Half = 8
        BY <3>2, <1>1, <1>2, <1>3, <2>1
      <3>3. CASE Nibble = 8 /\ Modulus = 64 /\ Half = 32
        BY <3>3, <1>1, <1>2, <1>3, <2>1
      <3>4. CASE Nibble = 16 /\ Modulus = 256 /\ Half = 128
        BY <3>4, <1>1, <1>2, <1>3, <2>1
      <3> QED BY <3>1, <3>2, <3>3, <3>4, AluSizes
    <2> HIDE DEF h
    <2>3. Low(r) = l /\ l \in Int
      BY <2>2, Composed, AluSizes
    <2>4. Nibble * hc \in Int /\ al \in Int /\ xl \in Int
      BY <1>1, <2>1, AluSizes
    <2> QED BY <2>3, <2>4 DEF hc
  <1>6. (carry # c6) <=> ~InRange(Signed(a) + Signed(x) + c)
    <2> DEFINE am == a % Half
               xm == x % Half
    <2>1. am = (IF a < Half THEN a ELSE a - Half) /\ xm = (IF x < Half THEN x ELSE x - Half)
      BY Halved
    <2> HIDE DEF am, xm
    <2>2. CASE Nibble = 2 /\ Modulus = 4 /\ Half = 2
      BY <2>2, <1>2, <2>1 DEF InRange, Signed
    <2>3. CASE Nibble = 4 /\ Modulus = 16 /\ Half = 8
      BY <2>3, <1>2, <2>1 DEF InRange, Signed
    <2>4. CASE Nibble = 8 /\ Modulus = 64 /\ Half = 32
      BY <2>4, <1>2, <2>1 DEF InRange, Signed
    <2>5. CASE Nibble = 16 /\ Modulus = 256 /\ Half = 128
      BY <2>5, <1>2, <2>1 DEF InRange, Signed
    <2> QED BY <2>2, <2>3, <2>4, <2>5, AluSizes
  <1> QED BY <1>3, <1>4, <1>5, <1>6 DEF r

\* what SUBB computes
SubResult(a, x, c) == (a - x - c) % Modulus

SubBorrow(a, x, c) == Low(a) < Low(x + c) \/ (c = 1 /\ Low(x) = Nibble - 1)

SubOverflow(a, x, c) ==
  \/ a < Half /\ x >= Half /\ SubResult(a, x, c) >= Half
  \/ a >= Half /\ x < Half /\ SubResult(a, x, c) < Half

(* A subtraction.                                                          *)
LEMMA SubExact ==
  ASSUME NEW a \in Byte, NEW x \in Byte, NEW c \in 0 .. 1
  PROVE  /\ SubResult(a, x, c) \in Byte
         /\ SubResult(a, x, c) - Modulus * Num(a < x + c) = a - x - c
         /\ Low(SubResult(a, x, c)) - Nibble * Num(SubBorrow(a, x, c)) = Low(a) - Low(x) - c
         /\ SubOverflow(a, x, c) <=> ~InRange(Signed(a) - Signed(x) - c)
  <1> DEFINE r == (a - x - c) % Modulus
             y == Low(x + c)
             borrow == a < x + c
             half == Low(a) < y \/ (c = 1 /\ Low(x) = Nibble - 1)
             over == \/ a < Half /\ x >= Half /\ r >= Half
                     \/ a >= Half /\ x < Half /\ r < Half
             al == Low(a)
             ah == High(a)
             xl == Low(x)
             xh == High(x)
  <1>1. /\ al \in 0 .. Nibble - 1 /\ ah \in 0 .. Nibble - 1 /\ a = Nibble * ah + al
        /\ xl \in 0 .. Nibble - 1 /\ xh \in 0 .. Nibble - 1 /\ x = Nibble * xh + xl
    BY Digits
  <1>2. /\ a \in Int /\ x \in Int /\ 0 <= a /\ a < Modulus /\ 0 <= x /\ x < Modulus
        /\ a - x - c \in -Modulus .. 2 * Modulus - 1
    <2>1. CASE Nibble = 2 /\ Modulus = 4 /\ Half = 2
      BY <2>1 DEF Byte
    <2>2. CASE Nibble = 4 /\ Modulus = 16 /\ Half = 8
      BY <2>2 DEF Byte
    <2>3. CASE Nibble = 8 /\ Modulus = 64 /\ Half = 32
      BY <2>3 DEF Byte
    <2>4. CASE Nibble = 16 /\ Modulus = 256 /\ Half = 128
      BY <2>4 DEF Byte
    <2> QED BY <2>1, <2>2, <2>3, <2>4, AluSizes
  <1>3. r \in Byte /\ r = IF borrow THEN a - x - c + Modulus ELSE a - x - c
    <2>1. CASE Nibble = 2 /\ Modulus = 4 /\ Half = 2
      BY <2>1, <1>2, Wrapped
    <2>2. CASE Nibble = 4 /\ Modulus = 16 /\ Half = 8
      BY <2>2, <1>2, Wrapped
    <2>3. CASE Nibble = 8 /\ Modulus = 64 /\ Half = 32
      BY <2>3, <1>2, Wrapped
    <2>4. CASE Nibble = 16 /\ Modulus = 256 /\ Half = 128
      BY <2>4, <1>2, Wrapped
    <2> QED BY <2>1, <2>2, <2>3, <2>4, AluSizes
  <1> HIDE DEF r
  <1>4. r - Modulus * Num(borrow) = a - x - c
    <2>1. CASE Nibble = 2 /\ Modulus = 4 /\ Half = 2
      BY <2>1, <1>2, <1>3 DEF Num
    <2>2. CASE Nibble = 4 /\ Modulus = 16 /\ Half = 8
      BY <2>2, <1>2, <1>3 DEF Num
    <2>3. CASE Nibble = 8 /\ Modulus = 64 /\ Half = 32
      BY <2>3, <1>2, <1>3 DEF Num
    <2>4. CASE Nibble = 16 /\ Modulus = 256 /\ Half = 128
      BY <2>4, <1>2, <1>3 DEF Num
    <2> QED BY <2>1, <2>2, <2>3, <2>4, AluSizes
  <1>5. Low(r) - Nibble * Num(half) = al - xl - c
    <2> DEFINE hc == Num(half)
               h == ah - xh - hc + (IF borrow THEN Nibble ELSE 0)
               l == al - xl - c + Nibble * hc
    <2> HIDE DEF al, ah, xl, xh
    <2>1. y = IF xl + c = Nibble THEN 0 ELSE xl + c
      <3>1. CASE Nibble = 2 /\ Modulus = 4 /\ Half = 2
        BY <3>1, <1>1, <1>2 DEF Low
      <3>2. CASE Nibble = 4 /\ Modulus = 16 /\ Half = 8
        BY <3>2, <1>1, <1>2 DEF Low
      <3>3. CASE Nibble = 8 /\ Modulus = 64 /\ Half = 32
        BY <3>3, <1>1, <1>2 DEF Low
      <3>4. CASE Nibble = 16 /\ Modulus = 256 /\ Half = 128
        BY <3>4, <1>1, <1>2 DEF Low
      <3> QED BY <3>1, <3>2, <3>3, <3>4, AluSizes
    <2>2. hc = IF al < xl + c THEN 1 ELSE 0
      <3>1. CASE Nibble = 2 /\ Modulus = 4 /\ Half = 2
        BY <3>1, <1>1, <2>1 DEF Num, al, xl
      <3>2. CASE Nibble = 4 /\ Modulus = 16 /\ Half = 8
        BY <3>2, <1>1, <2>1 DEF Num, al, xl
      <3>3. CASE Nibble = 8 /\ Modulus = 64 /\ Half = 32
        BY <3>3, <1>1, <2>1 DEF Num, al, xl
      <3>4. CASE Nibble = 16 /\ Modulus = 256 /\ Half = 128
        BY <3>4, <1>1, <2>1 DEF Num, al, xl
      <3> QED BY <3>1, <3>2, <3>3, <3>4, AluSizes
    <2> HIDE DEF hc
    <2>3. h \in 0 .. Nibble - 1 /\ l \in 0 .. Nibble - 1 /\ r = Nibble * h + l
      <3>1. CASE Nibble = 2 /\ Modulus = 4 /\ Half = 2
        BY <3>1, <1>1, <1>2, <1>3, <2>2
      <3>2. CASE Nibble = 4 /\ Modulus = 16 /\ Half = 8
        BY <3>2, <1>1, <1>2, <1>3, <2>2
      <3>3. CASE Nibble = 8 /\ Modulus = 64 /\ Half = 32
        BY <3>3, <1>1, <1>2, <1>3, <2>2
      <3>4. CASE Nibble = 16 /\ Modulus = 256 /\ Half = 128
        BY <3>4, <1>1, <1>2, <1>3, <2>2
      <3> QED BY <3>1, <3>2, <3>3, <3>4, AluSizes
    <2> HIDE DEF h
    <2>4. Low(r) = l /\ l \in Int
      BY <2>3, Composed, AluSizes
    <2>5. Nibble * hc \in Int /\ al \in Int /\ xl \in Int
      BY <1>1, <2>2, AluSizes
    <2> QED BY <2>4, <2>5 DEF hc
  <1>6. over <=> ~InRange(Signed(a) - Signed(x) - c)
    <2>1. CASE Nibble = 2 /\ Modulus = 4 /\ Half = 2
      BY <2>1, <1>2, <1>3 DEF InRange, Signed
    <2>2. CASE Nibble = 4 /\ Modulus = 16 /\ Half = 8
      BY <2>2, <1>2, <1>3 DEF InRange, Signed
    <2>3. CASE Nibble = 8 /\ Modulus = 64 /\ Half = 32
      BY <2>3, <1>2, <1>3 DEF InRange, Signed
    <2>4. CASE Nibble = 16 /\ Modulus = 256 /\ Half = 128
      BY <2>4, <1>2, <1>3 DEF InRange, Signed
    <2> QED BY <2>1, <2>2, <2>3, <2>4, AluSizes
  <1>7. /\ SubResult(a, x, c) = r /\ SubBorrow(a, x, c) = half /\ SubOverflow(a, x, c) = over
    BY DEF SubResult, SubBorrow, SubOverflow, r
  <1> HIDE DEF half, over
  <1> QED BY <1>3, <1>4, <1>5, <1>6, <1>7

(* A product takes two bytes, the second of them for the overflow.         *)
LEMMA MulExact ==
  ASSUME NEW a \in Byte, NEW b \in Byte
  PROVE  /\ (a * b) % Modulus \in Byte /\ (a * b) \div Modulus \in Byte
         /\ Modulus * ((a * b) \div Modulus) + ((a * b) % Modulus) = a * b
         /\ ((a * b) \div Modulus # 0) <=> a * b >= Modulus
  <1> DEFINE p == a * b
  <1>1. a \in Nat /\ b \in Nat /\ a <= Modulus - 1 /\ b <= Modulus - 1 /\ Modulus \in Nat
    BY AluSizes DEF Byte
  <1>2. p \in Nat /\ p <= (Modulus - 1) * (Modulus - 1)
    <2>1. a * b <= (Modulus - 1) * b
      BY <1>1
    <2>2. (Modulus - 1) * b <= (Modulus - 1) * (Modulus - 1)
      BY <1>1
    <2> QED BY <1>1, <2>1, <2>2
  <1> HIDE DEF p
  <1>3. /\ p % Modulus \in Byte /\ p \div Modulus \in Byte
        /\ Modulus * (p \div Modulus) + (p % Modulus) = p
        /\ (p \div Modulus # 0) <=> p >= Modulus
    <2>1. CASE Nibble = 2 /\ Modulus = 4 /\ Half = 2
      BY <2>1, <1>2 DEF Byte
    <2>2. CASE Nibble = 4 /\ Modulus = 16 /\ Half = 8
      BY <2>2, <1>2 DEF Byte
    <2>3. CASE Nibble = 8 /\ Modulus = 64 /\ Half = 32
      BY <2>3, <1>2 DEF Byte
    <2>4. CASE Nibble = 16 /\ Modulus = 256 /\ Half = 128
      BY <2>4, <1>2 DEF Byte
    <2> QED BY <2>1, <2>2, <2>3, <2>4, AluSizes
  <1> QED BY <1>3 DEF p

(* A quotient and its remainder.                                           *)
LEMMA DivExact ==
  ASSUME NEW a \in Byte, NEW b \in Byte, b # 0
  PROVE  /\ a \div b \in Byte /\ a % b \in Byte /\ a % b < b
         /\ (a \div b) * b + (a % b) = a
  <1>1. a \in Nat /\ b \in Nat \ {0} /\ b < Modulus /\ a < Modulus /\ Modulus \in Nat
    BY AluSizes DEF Byte
  <1> DEFINE q == a \div b
  <1>2. q \in Nat /\ a % b \in 0 .. b - 1 /\ a % b = a - q * b
    <2>1. a \div b \in Nat /\ a % b \in 0 .. b - 1
      BY <1>1
    <2>2. a % b = a - (a \div b) * b
      BY <1>1, SMTT(30)
    <2> QED BY <2>1, <2>2
  <1>3. a % b \in Nat /\ a % b < b
    BY <1>1, <1>2
  <1> HIDE DEF q
  <1>4. q * b \in Nat /\ q <= q * b
    BY <1>1, <1>2
  <1>5. q * b + (a % b) = a
    BY <1>1, <1>2, <1>4
  <1>6. q \in Byte
    BY <1>1, <1>2, <1>3, <1>4, <1>5 DEF Byte
  <1>7. a % b \in Byte
    BY <1>1, <1>3 DEF Byte
  <1> QED BY <1>3, <1>5, <1>6, <1>7 DEF q
-----------------------------------------------------------------------------
(* What an addition of decimal numbers leaves: the sums s0 and s1 of the   *)
(* digits, in ACC and the flags.                                           *)
Unadjusted(s0, s1, a, cy, ha) ==
  /\ cy <=> Nibble * s1 + s0 >= Modulus
  /\ ha <=> s0 >= Nibble
  /\ a = IF Nibble * s1 + s0 >= Modulus THEN (Nibble * s1 + s0) - Modulus ELSE Nibble * s1 + s0

(* DA A corrects the low digit, which may carry, then the high one.        *)
LEMMA AdjustExact ==
  ASSUME NEW s0 \in 0 .. 2 * Radix - 1, NEW s1 \in 0 .. 2 * Radix - 2, NEW a \in Byte,
         NEW cy \in BOOLEAN, NEW ha \in BOOLEAN, Unadjusted(s0, s1, a, cy, ha)
  PROVE  LET low == Low(a) > Radix - 1 \/ ha
             ac == IF low THEN a + Skip ELSE a
             carry == cy \/ ac > Modulus - 1
             high == High(ac % Modulus) > Radix - 1 \/ carry
             ac2 == IF high THEN (ac % Modulus) + Skip * Nibble ELSE ac % Modulus
         IN  /\ Decimal(ac2 % Modulus)
             /\ Radix * Radix * Num(carry \/ ac2 > Modulus - 1) + Value(ac2 % Modulus)
                  = Radix * s1 + s0
  <1> DEFINE low == Low(a) > Radix - 1 \/ ha
             ac == IF low THEN a + Skip ELSE a
             carry == cy \/ ac > Modulus - 1
             V == ac % Modulus
             high == High(V) > Radix - 1 \/ carry
             ac2 == IF high THEN V + Skip * Nibble ELSE V
             r == ac2 % Modulus
             t0 == IF s0 < Radix THEN s0 ELSE s0 - Radix
             t1 == IF s0 < Radix THEN s1 ELSE s1 + 1
  <1>1. /\ s0 \in Int /\ 0 <= s0 /\ s0 <= 2 * Radix - 1 /\ s1 \in Int /\ 0 <= s1
        /\ s1 <= 2 * Radix - 2 /\ Radix \in Int /\ 2 <= Radix /\ Radix <= Nibble
    BY AluSizes
  <1>2. /\ cy <=> Nibble * s1 + s0 >= Modulus
        /\ ha <=> s0 >= Nibble
        /\ a = IF Nibble * s1 + s0 >= Modulus THEN (Nibble * s1 + s0) - Modulus
               ELSE Nibble * s1 + s0
    BY DEF Unadjusted
  <1>3. t0 \in 0 .. Radix - 1 /\ t1 \in 0 .. 2 * Radix - 1
    BY <1>1
  <1>4. low <=> s0 >= Radix
    <2> DEFINE l == IF s0 < Nibble THEN s0 ELSE s0 - Nibble
               h1 == IF s0 < Nibble THEN s1 ELSE s1 + 1
               h == IF Nibble * s1 + s0 >= Modulus THEN h1 - Nibble ELSE h1
    <2>1. l \in 0 .. Nibble - 1 /\ h \in 0 .. Nibble - 1 /\ a = Nibble * h + l
      <3>1. CASE Nibble = 2 /\ Modulus = 4 /\ Half = 2
        BY <3>1, <1>1, <1>2
      <3>2. CASE Nibble = 4 /\ Modulus = 16 /\ Half = 8
        BY <3>2, <1>1, <1>2
      <3>3. CASE Nibble = 8 /\ Modulus = 64 /\ Half = 32
        BY <3>3, <1>1, <1>2
      <3>4. CASE Nibble = 16 /\ Modulus = 256 /\ Half = 128
        BY <3>4, <1>1, <1>2
      <3> QED BY <3>1, <3>2, <3>3, <3>4, AluSizes
    <2> HIDE DEF h
    <2>2. Low(a) = l
      BY <2>1, Composed
    <2> QED BY <1>1, <1>2, <2>2, AluSizes
  <1> HIDE DEF low
  <1>5. /\ carry <=> t1 >= Nibble
        /\ V = Nibble * (IF t1 >= Nibble THEN t1 - Nibble ELSE t1) + t0
        /\ ac \in -Modulus .. 2 * Modulus - 1
    <2> DEFINE u == IF t1 >= Nibble THEN t1 - Nibble ELSE t1
    <2>1. ac = IF s0 >= Radix THEN a + (Nibble - Radix) ELSE a
      BY <1>4 DEF Skip
    <2> HIDE DEF ac
    <2>2. /\ ac \in -Modulus .. 2 * Modulus - 1 /\ ac >= 0
          /\ ac = Nibble * u + t0 \/ ac = Nibble * u + t0 + Modulus
          /\ (cy \/ ac > Modulus - 1) <=> t1 >= Nibble
          /\ 0 <= Nibble * u + t0 /\ Nibble * u + t0 < Modulus
      <3>1. CASE Nibble = 2 /\ Modulus = 4 /\ Half = 2
        BY <3>1, <1>1, <1>2, <2>1
      <3>2. CASE Nibble = 4 /\ Modulus = 16 /\ Half = 8
        BY <3>2, <1>1, <1>2, <2>1
      <3>3. CASE Nibble = 8 /\ Modulus = 64 /\ Half = 32
        BY <3>3, <1>1, <1>2, <2>1
      <3>4. CASE Nibble = 16 /\ Modulus = 256 /\ Half = 128
        BY <3>4, <1>1, <1>2, <2>1
      <3> QED BY <3>1, <3>2, <3>3, <3>4, AluSizes
    <2>3. V = IF ac < Modulus THEN ac ELSE ac - Modulus
      BY <2>2, Wrapped
    <2> HIDE DEF V
    <2> DEFINE z == Nibble * u + t0
    <2>4. z \in Int
      BY <1>3, AluSizes
    <2>5. V = z
      <3>1. ac = z \/ ac = z + Modulus
        BY <2>2
      <3>2. 0 <= z /\ z < Modulus
        BY <2>2
      <3> HIDE DEF z
      <3> QED BY <2>3, <2>4, <3>1, <3>2, AluSizes
    <2> QED BY <2>2, <2>5
  <1> HIDE DEF ac, carry, V
  <1>6. high <=> t1 >= Radix
    <2> DEFINE u == IF t1 >= Nibble THEN t1 - Nibble ELSE t1
    <2>1. u \in 0 .. Nibble - 1 /\ t0 \in 0 .. Nibble - 1
      BY <1>1, <1>3, AluSizes
    <2>2. High(V) = u
      BY <1>5, <2>1, Composed
    <2> QED BY <1>1, <1>3, <1>5, <2>2, AluSizes
  <1> DEFINE w == IF t1 >= Radix THEN t1 - Radix ELSE t1
  <1>7. /\ r = Nibble * w + t0 /\ w \in 0 .. Radix - 1
        /\ (carry \/ ac2 > Modulus - 1) <=> t1 >= Radix
    <2>1. ac2 = IF t1 >= Radix THEN V + (Nibble - Radix) * Nibble ELSE V
      BY <1>6 DEF Skip
    <2> HIDE DEF ac2, t0, t1
    <2> DEFINE z == Nibble * w + t0
    <2>2. /\ ac2 \in -Modulus .. 2 * Modulus - 1 /\ ac2 >= 0 /\ w \in 0 .. Radix - 1
          /\ ac2 = z \/ ac2 = z + Modulus
          /\ (carry \/ ac2 > Modulus - 1) <=> t1 >= Radix
          /\ 0 <= z /\ z < Modulus /\ z \in Int
      <3>1. CASE Nibble = 2 /\ Modulus = 4 /\ Half = 2
        BY <3>1, <1>1, <1>3, <1>5, <2>1
      <3>2. CASE Nibble = 4 /\ Modulus = 16 /\ Half = 8
        BY <3>2, <1>1, <1>3, <1>5, <2>1
      <3>3. CASE Nibble = 8 /\ Modulus = 64 /\ Half = 32
        BY <3>3, <1>1, <1>3, <1>5, <2>1
      <3>4. CASE Nibble = 16 /\ Modulus = 256 /\ Half = 128
        BY <3>4, <1>1, <1>3, <1>5, <2>1
      <3> QED BY <3>1, <3>2, <3>3, <3>4, AluSizes
    <2>3. r = IF ac2 < Modulus THEN ac2 ELSE ac2 - Modulus
      BY <2>2, Wrapped
    <2> HIDE DEF r
    <2>4. r = z
      <3> HIDE DEF z
      <3> QED BY <2>2, <2>3, AluSizes
    <2> QED BY <2>2, <2>4
  <1> HIDE DEF r, ac2, w
  <1>8. Low(r) = t0 /\ High(r) = w
    BY <1>1, <1>3, <1>7, Composed, AluSizes
  <1>9. Decimal(r) /\ Value(r) = Radix * w + t0
    <2> HIDE DEF t0, t1
    <2>1. t0 < Radix /\ w < Radix
      BY <1>1, <1>3, <1>7
    <2> QED BY <1>8, <2>1 DEF Decimal, Value
  <1>10. Radix * Radix * Num(carry \/ ac2 > Modulus - 1) + (Radix * w + t0) = Radix * s1 + s0
    <2>1. Radix * (s1 + 1) = Radix * s1 + Radix /\ Radix * s1 \in Int /\ Radix * Radix \in Int
      BY <1>1
    <2>2. Radix * t1 + t0 = Radix * s1 + s0 /\ t1 \in Int /\ t0 \in Int
      BY <1>1, <1>3, <2>1
    <2> HIDE DEF t0, t1
    <2>3. Radix * (t1 - Radix) = Radix * t1 - Radix * Radix /\ Radix * t1 \in Int
      BY <1>1, <2>2
    <2>4. CASE t1 >= Radix
      <3>1. Num(carry \/ ac2 > Modulus - 1) = 1 /\ w = t1 - Radix
        BY <1>7, <2>4 DEF Num, w
      <3> QED BY <2>1, <2>2, <2>3, <3>1
    <2>5. CASE ~(t1 >= Radix)
      <3>1. Num(carry \/ ac2 > Modulus - 1) = 0 /\ w = t1
        BY <1>7, <2>5 DEF Num, w
      <3> QED BY <2>1, <2>2, <2>3, <3>1
    <2> QED BY <2>4, <2>5
  <1> QED BY <1>9, <1>10 DEF r, ac2, V, carry, ac, low
-----------------------------------------------------------------------------
Sums == {None} \cup 0 .. 2 * Radix * Radix - 1

(* While DA A owes a decimal sum, ACC and the flags hold what an addition  *)
(* of decimal numbers left.                                                *)
SumKnown ==
  sum # None =>
    \E s0 \in 0 .. 2 * Radix - 1, s1 \in 0 .. 2 * Radix - 2 :
      sum = Radix * s1 + s0 /\ Unadjusted(s0, s1, acc, CY, AC)

AluInv == ParityTracked /\ SumKnown

(* The other results are bytes.                                            *)
LEMMA BytesKept ==
  ASSUME NEW v \in Byte, NEW x \in Byte, NEW c \in BOOLEAN
  PROVE  /\ (v \div 2) + Num(c) * Half \in Byte
         /\ (2 * v + Num(c)) % Modulus \in Byte
         /\ Low(v) * Nibble + High(v) \in Byte /\ High(v) * Nibble + Low(x) \in Byte
         /\ Modulus - 1 - v \in Byte /\ (v + 1) % Modulus \in Byte /\ (v - 1) % Modulus \in Byte
  <1>1. Num(c) \in 0 .. 1
    BY DEF Num
  <1>2. /\ (v \div 2) + Num(c) * Half \in Byte /\ Modulus - 1 - v \in Byte
        /\ 2 * v + Num(c) \in -Modulus .. 2 * Modulus - 1
        /\ v + 1 \in -Modulus .. 2 * Modulus - 1 /\ v - 1 \in -Modulus .. 2 * Modulus - 1
    <2> DEFINE n == Num(c)
    <2>1. n \in 0 .. 1
      BY <1>1
    <2> HIDE DEF n
    <2>2. /\ (v \div 2) + n * Half \in Byte /\ Modulus - 1 - v \in Byte
          /\ 2 * v + n \in -Modulus .. 2 * Modulus - 1
          /\ v + 1 \in -Modulus .. 2 * Modulus - 1 /\ v - 1 \in -Modulus .. 2 * Modulus - 1
      <3>1. CASE Nibble = 2 /\ Modulus = 4 /\ Half = 2
        BY <3>1, <2>1 DEF Byte
      <3>2. CASE Nibble = 4 /\ Modulus = 16 /\ Half = 8
        BY <3>2, <2>1 DEF Byte
      <3>3. CASE Nibble = 8 /\ Modulus = 64 /\ Half = 32
        BY <3>3, <2>1 DEF Byte
      <3>4. CASE Nibble = 16 /\ Modulus = 256 /\ Half = 128
        BY <3>4, <2>1 DEF Byte
      <3> QED BY <3>1, <3>2, <3>3, <3>4, AluSizes
    <2> QED BY <2>2 DEF n
  <1>3. /\ Low(v) \in 0 .. Nibble - 1 /\ High(v) \in 0 .. Nibble - 1
        /\ Low(x) \in 0 .. Nibble - 1
    BY Digits
  <1>4. /\ Low(v) * Nibble = Nibble * Low(v) /\ High(v) * Nibble = Nibble * High(v)
    BY <1>3, AluSizes
  <1>5. Nibble * Low(v) + High(v) \in Byte /\ Nibble * High(v) + Low(x) \in Byte
    BY <1>3, Composed
  <1> QED BY <1>2, <1>4, <1>5, Wrapped

(* ACC is written with its parity or before PSW.                           *)
LEMMA AccWritten ==
  ASSUME NEW v \in Byte, AluInv, WriteAcc(v) \/ WriteAccPsw(v)
  PROVE  /\ acc' \in Byte /\ P' \in BOOLEAN /\ stale' \in BOOLEAN
         /\ ~stale' => P' = Parity(acc')
  <1>1. Parity(v) \in BOOLEAN
    BY Zenon DEF Parity
  <1>2. P \in BOOLEAN
    BY DEF AluInv, ParityTracked, AluTypeOK
  <1> QED BY <1>1, <1>2, Zenon DEF WriteAcc, WriteAccPsw

(* The types and the parity after an instruction.                          *)
Rest ==
  /\ acc' \in Byte /\ B' \in Byte
  /\ CY' \in BOOLEAN /\ AC' \in BOOLEAN /\ OV' \in BOOLEAN /\ P' \in BOOLEAN
  /\ stale' \in BOOLEAN /\ (~stale' => P' = Parity(acc'))

(* An instruction that owes no decimal sum keeps the invariant.            *)
LEMMA RestSuffices ==
  ASSUME Rest, NoSum
  PROVE  AluInv'
  <1>1. sum' = None /\ sum' \in Sums
    BY DEF NoSum, Sums
  <1>2. AluTypeOK'
    BY <1>1 DEF Rest, AluTypeOK, Sums
  <1>3. SumKnown'
    BY <1>1 DEF SumKnown
  <1> QED BY <1>2, <1>3 DEF Rest, AluInv, ParityTracked

(* A sum of decimal numbers is owed with its digits.                       *)
LEMMA AdditionStep ==
  ASSUME AluInv, NEW x \in Byte, NEW c \in 0 .. 1, Addition(x, c)
  PROVE  AluInv'
  <1> DEFINE r == (acc + x + c) % Modulus
             carry == acc + x + c > Modulus - 1
             half == Low(acc) + Low(x) + c >= Nibble
  <1>1. acc \in Byte /\ B \in Byte
    BY DEF AluInv, ParityTracked, AluTypeOK
  <1>2. r \in Byte /\ Modulus * Num(carry) + r = acc + x + c
    BY <1>1, AddExact
  <1>3. acc' = r /\ CY' = carry /\ AC' = half
    BY DEF Addition, AddFlags, WriteAcc
  <1>4. CY' \in BOOLEAN /\ AC' \in BOOLEAN /\ OV' \in BOOLEAN
    <2>1. acc \in Int /\ x \in Int /\ Modulus \in Int
      BY <1>1, AluSizes DEF Byte
    <2>2. carry \in BOOLEAN /\ half \in BOOLEAN
      BY <2>1
    <2>3. OV' \in BOOLEAN
      BY Zenon DEF Addition, AddFlags
    <2> QED BY <1>3, <2>2, <2>3
  <1>5. /\ acc' \in Byte /\ P' \in BOOLEAN /\ stale' \in BOOLEAN
        /\ ~stale' => P' = Parity(acc')
    BY <1>2, AccWritten DEF Addition
  <1>6. Rest
    BY <1>1, <1>4, <1>5 DEF Rest, Addition
  <1>7. CASE ~(Decimal(acc) /\ Decimal(x))
    <2>1. NoSum
      BY <1>7 DEF Addition, NoSum
    <2> QED BY <1>6, <2>1, RestSuffices
  <1>8. CASE Decimal(acc) /\ Decimal(x)
    <2> DEFINE al == Low(acc)
               ah == High(acc)
               xl == Low(x)
               xh == High(x)
               s0 == al + xl + c
               s1 == ah + xh
               v == Nibble * s1 + s0
    <2>1. /\ al \in 0 .. Radix - 1 /\ ah \in 0 .. Radix - 1 /\ acc = Nibble * ah + al
          /\ xl \in 0 .. Radix - 1 /\ xh \in 0 .. Radix - 1 /\ x = Nibble * xh + xl
      BY <1>1, <1>8, Digits, AluSizes DEF Decimal
    <2>2. sum' = (Radix * ah + al) + (Radix * xh + xl) + c
      BY <1>8 DEF Addition, Value
    <2>3. (CY' <=> carry) /\ (AC' <=> s0 >= Nibble)
      BY <1>3, <1>4
    <2> HIDE DEF al, ah, xl, xh
    <2>4. /\ s0 \in 0 .. 2 * Radix - 1 /\ s1 \in 0 .. 2 * Radix - 2
          /\ al \in Int /\ ah \in Int /\ xl \in Int /\ xh \in Int /\ Radix \in Int
      BY <2>1, AluSizes
    <2>5. acc + x + c = v /\ v \in Int
      <3>1. CASE Nibble = 2 /\ Modulus = 4 /\ Half = 2
        BY <3>1, <2>1, <2>4
      <3>2. CASE Nibble = 4 /\ Modulus = 16 /\ Half = 8
        BY <3>2, <2>1, <2>4
      <3>3. CASE Nibble = 8 /\ Modulus = 64 /\ Half = 32
        BY <3>3, <2>1, <2>4
      <3>4. CASE Nibble = 16 /\ Modulus = 256 /\ Half = 128
        BY <3>4, <2>1, <2>4
      <3> QED BY <3>1, <3>2, <3>3, <3>4, AluSizes
    <2>6. Radix * s1 = Radix * ah + Radix * xh /\ Radix * ah \in Int /\ Radix * xh \in Int
      BY <2>4
    <2>7. sum' = Radix * s1 + s0
      BY <2>2, <2>4, <2>6
    <2>8. sum' \in Sums
      <3>1. Radix * s1 <= Radix * (2 * Radix - 2)
        BY <2>4, AluSizes
      <3>2. Radix * (2 * Radix - 2) = 2 * Radix * Radix - 2 * Radix /\ Radix * Radix \in Int
        BY <2>4
      <3>3. 0 <= Radix * s1 /\ Radix * s1 \in Int
        BY <2>4, AluSizes
      <3> HIDE DEF s1, s0
      <3>4. 0 <= sum' /\ sum' <= 2 * Radix * Radix - 1 /\ sum' \in Int
        BY <2>4, <2>7, <3>1, <3>2, <3>3
      <3> QED BY <2>4, <3>4 DEF Sums
    <2> HIDE DEF v, s0, s1
    <2>9. (carry <=> v >= Modulus) /\ r = IF v >= Modulus THEN v - Modulus ELSE v
      <3>1. carry <=> v >= Modulus
        BY <2>5, AluSizes
      <3>2. Num(carry) = IF v >= Modulus THEN 1 ELSE 0
        BY <3>1 DEF Num
      <3>3. Modulus * Num(carry) + r = v /\ r \in Int
        BY <1>2, <2>5, AluSizes DEF Byte
      <3> HIDE DEF r, carry
      <3> QED BY <2>5, <3>1, <3>2, <3>3, AluSizes
    <2>10. Unadjusted(s0, s1, acc', CY', AC')
      <3>1. (CY' <=> v >= Modulus) /\ (AC' <=> s0 >= Nibble)
        BY <2>3, <2>9
      <3>2. acc' = IF v >= Modulus THEN v - Modulus ELSE v
        BY <1>3, <2>9
      <3> QED BY <1>4, <3>1, <3>2 DEF Unadjusted, v
    <2>11. SumKnown'
      BY <2>4, <2>7, <2>10 DEF SumKnown
    <2>12. AluTypeOK'
      BY <1>6, <2>8 DEF Rest, AluTypeOK, Sums
    <2> QED BY <1>6, <2>11, <2>12 DEF Rest, AluInv, ParityTracked
  <1> QED BY <1>7, <1>8

(* Each instruction keeps the invariant.                                   *)
LEMMA AluStep == AluInv /\ [AluNext]_aluVars => AluInv'
  <1> SUFFICES ASSUME AluInv, [AluNext]_aluVars PROVE AluInv'
    OBVIOUS
  <1>1. /\ acc \in Byte /\ B \in Byte /\ CY \in BOOLEAN /\ AC \in BOOLEAN /\ OV \in BOOLEAN
        /\ P \in BOOLEAN /\ stale \in BOOLEAN /\ (~stale => P = Parity(acc))
    BY DEF AluInv, ParityTracked, AluTypeOK
  <1>2. Num(CY) \in 0 .. 1 /\ 0 \in 0 .. 1
    BY DEF Num
  <1>3. ASSUME NEW x \in Byte, ADD(x) \/ ADDC(x) PROVE AluInv'
    BY <1>2, <1>3, AdditionStep DEF ADD, ADDC
  <1>4. ASSUME NEW v \in Byte, WriteAcc(v) \/ WriteAccPsw(v), NoSum, B' \in Byte,
               CY' \in BOOLEAN, AC' \in BOOLEAN, OV' \in BOOLEAN
        PROVE  AluInv'
    <2>1. /\ acc' \in Byte /\ P' \in BOOLEAN /\ stale' \in BOOLEAN
          /\ ~stale' => P' = Parity(acc')
      BY <1>4, AccWritten
    <2>2. Rest
      BY <1>4, <2>1 DEF Rest
    <2> QED BY <1>4, <2>2, RestSuffices
  <1>5. ASSUME NEW x \in Byte, SUBB(x) PROVE AluInv'
    <2>1. CY' \in BOOLEAN /\ AC' \in BOOLEAN /\ OV' \in BOOLEAN
      BY <1>1, <1>2, <1>5, AluSizes DEF SUBB, Borrow, Byte
    <2>2. (acc - x - Num(CY)) % Modulus \in Byte
      <3>1. SubResult(acc, x, Num(CY)) \in Byte
        BY <1>1, <1>2, SubExact
      <3> QED BY <3>1 DEF SubResult
    <2> QED BY <1>1, <1>4, <1>5, <2>1, <2>2 DEF SUBB
  <1>6. ASSUME MUL PROVE AluInv'
    <2>1. CY' \in BOOLEAN /\ OV' \in BOOLEAN
      BY <1>6, Zenon DEF MUL
    <2>2. (acc * B) % Modulus \in Byte /\ (acc * B) \div Modulus \in Byte
      BY <1>1, MulExact
    <2> QED BY <1>1, <1>4, <1>6, <2>1, <2>2 DEF MUL
  <1>7. ASSUME DIV PROVE AluInv'
    <2>1. CY' \in BOOLEAN /\ OV' \in BOOLEAN /\ AC' \in BOOLEAN
      BY <1>1, <1>7, Zenon DEF DIV
    <2>2. CASE B = 0
      <3>1. Rest
        BY <1>1, <1>7, <2>1, <2>2 DEF DIV, Rest
      <3> QED BY <1>7, <3>1, RestSuffices DEF DIV
    <2>3. CASE B # 0
      <3>1. acc % B \in Byte /\ acc \div B \in Byte
        BY <1>1, <2>3, DivExact
      <3> QED BY <1>4, <1>7, <2>1, <2>3, <3>1 DEF DIV
    <2> QED BY <2>2, <2>3
  <1>8. ASSUME DA PROVE AluInv'
    <2>1. CY' \in BOOLEAN /\ OV' \in BOOLEAN /\ AC' \in BOOLEAN /\ B' \in Byte /\ NoSum
      BY <1>1, <1>8, Zenon DEF DA
    <2>2. PICK z : WriteAccPsw(z % Modulus) /\ z \in Int
      <3> DEFINE low == Low(acc) > Radix - 1 \/ AC
                 ac == IF low THEN acc + Skip ELSE acc
                 carry == CY \/ ac > Modulus - 1
                 high == High(ac % Modulus) > Radix - 1 \/ carry
                 ac2 == IF high THEN (ac % Modulus) + Skip * Nibble ELSE ac % Modulus
      <3>1. WriteAccPsw(ac2 % Modulus)
        BY <1>8 DEF DA
      <3>2. acc \in Int /\ Skip \in Int /\ Skip * Nibble \in Int /\ Modulus \in Nat \ {0}
        BY <1>1, AluSizes DEF Byte, Skip
      <3> HIDE DEF low, high
      <3>3. ac \in Int
        BY <3>2
      <3> HIDE DEF ac
      <3>4. ac % Modulus \in Int
        BY <3>2, <3>3
      <3>5. ac2 \in Int
        BY <3>2, <3>4
      <3> HIDE DEF ac2
      <3> QED BY <3>1, <3>5
    <2>3. z % Modulus \in Byte
      BY <2>2, AluSizes DEF Byte
    <2> QED BY <1>4, <2>1, <2>2, <2>3
  <1>9. CASE Shifts
    <2>1. Bit(acc, 0) \in BOOLEAN /\ (acc >= Half) \in BOOLEAN
      BY <1>1, AluSizes DEF Bit, Byte
    <2>2. /\ (acc \div 2) + Num(Bit(acc, 0)) * Half \in Byte
          /\ (2 * acc + Num(acc >= Half)) % Modulus \in Byte
          /\ (acc \div 2) + Num(CY) * Half \in Byte /\ (2 * acc + Num(CY)) % Modulus \in Byte
          /\ Low(acc) * Nibble + High(acc) \in Byte
          /\ Modulus - 1 - acc \in Byte /\ (acc + 1) % Modulus \in Byte
          /\ (acc - 1) % Modulus \in Byte
      <3>1. /\ (acc \div 2) + Num(Bit(acc, 0)) * Half \in Byte
        BY <1>1, <2>1, BytesKept
      <3>2. (2 * acc + Num(acc >= Half)) % Modulus \in Byte
        BY <1>1, <2>1, BytesKept
      <3> QED BY <1>1, <3>1, <3>2, BytesKept
    <2>3. CASE RR
      BY <1>1, <1>4, <2>2, <2>3 DEF RR
    <2>4. CASE RL
      BY <1>1, <1>4, <2>2, <2>4 DEF RL
    <2>5. CASE RRC
      BY <1>1, <1>4, <2>1, <2>2, <2>5 DEF RRC
    <2>6. CASE RLC
      BY <1>1, <1>4, <2>1, <2>2, <2>6 DEF RLC
    <2>7. CASE swap \/ CPL \/ INC \/ DEC
      BY <1>1, <1>4, <2>2, <2>7 DEF swap, CPL, INC, DEC, Load
    <2> QED BY <1>9, <2>3, <2>4, <2>5, <2>6, <2>7 DEF Shifts
  <1>10. CASE Moves
    <2>1. ASSUME NEW x \in Byte, Load(x) \/ XCHD(x) PROVE AluInv'
      <3>1. High(acc) * Nibble + Low(x) \in Byte
        BY <1>1, BytesKept
      <3> QED BY <1>1, <1>4, <2>1, <3>1 DEF Load, XCHD
    <2>2. ASSUME NEW x \in Byte, LoadB(x) PROVE AluInv'
      <3>1. Rest
        BY <1>1, <2>2 DEF LoadB, Rest
      <3> QED BY <2>2, <3>1, RestSuffices DEF LoadB
    <2>3. ASSUME NEW c \in BOOLEAN, SetC(c) PROVE AluInv'
      <3>1. Rest
        BY <1>1, <2>3 DEF SetC, Rest
      <3> QED BY <2>3, <3>1, RestSuffices DEF SetC
    <2>4. ASSUME NEW x \in Byte, CJNE(x) PROVE AluInv'
      <3>1. (acc < x) \in BOOLEAN
        BY <1>1, AluSizes DEF Byte
      <3> QED BY <2>3, <2>4, <3>1 DEF CJNE
    <2>5. ASSUME NEW c \in BOOLEAN, NEW a \in BOOLEAN, NEW o \in BOOLEAN, NEW p \in BOOLEAN,
                 WritePsw(c, a, o, p)
          PROVE  AluInv'
      <3>1. Rest
        BY <1>1, <2>5 DEF WritePsw, Rest
      <3> QED BY <2>5, <3>1, RestSuffices DEF WritePsw
    <2> QED BY <1>10, <2>1, <2>2, <2>3, <2>4, <2>5 DEF Moves
  <1>11. CASE UNCHANGED aluVars
    BY <1>11 DEF aluVars, AluInv, ParityTracked, AluTypeOK, SumKnown
  <1> QED BY <1>3, <1>5, <1>6, <1>7, <1>8, <1>9, <1>10, <1>11 DEF AluNext, Arithmetic
-----------------------------------------------------------------------------
\* what ArithmeticExact says of a step, and DecimalSum
ResultsExact ==
  /\ \A x \in Byte :
       /\ \A c \in 0 .. Num(CY) :
            Addition(x, c) =>
              /\ Modulus * Num(CY') + acc' = acc + x + c
              /\ Nibble * Num(AC') + Low(acc') = Low(acc) + Low(x) + c
              /\ OV' = ~InRange(Signed(acc) + Signed(x) + c)
       /\ SUBB(x) =>
            /\ acc' - Modulus * Num(CY') = acc - x - Num(CY)
            /\ Low(acc') - Nibble * Num(AC') = Low(acc) - Low(x) - Num(CY)
            /\ OV' = ~InRange(Signed(acc) - Signed(x) - Num(CY))
  /\ MUL => Modulus * B' + acc' = acc * B /\ OV' = (acc * B >= Modulus)
  /\ DIV /\ B # 0 => acc' * B + B' = acc /\ B' < B /\ ~OV'

(* The results of the arithmetic are exact in every state that is well     *)
(* typed.                                                                  *)
LEMMA ResultsStep == AluInv => ResultsExact
  <1> SUFFICES ASSUME AluInv PROVE ResultsExact
    OBVIOUS
  <1>1. acc \in Byte /\ B \in Byte /\ CY \in BOOLEAN
    BY DEF AluInv, ParityTracked, AluTypeOK
  <1>2. Num(CY) \in 0 .. 1
    BY <1>1 DEF Num
  <1>3. ASSUME NEW x \in Byte, NEW c \in 0 .. Num(CY), Addition(x, c)
        PROVE  /\ Modulus * Num(CY') + acc' = acc + x + c
               /\ Nibble * Num(AC') + Low(acc') = Low(acc) + Low(x) + c
               /\ OV' = ~InRange(Signed(acc) + Signed(x) + c)
    <2> DEFINE r == (acc + x + c) % Modulus
               carry == acc + x + c > Modulus - 1
               c6 == (acc % Half) + (x % Half) + c >= Half
               half == Low(acc) + Low(x) + c >= Nibble
    <2>1. c \in 0 .. 1
      BY <1>2
    <2>2. /\ Modulus * Num(carry) + r = acc + x + c
          /\ Nibble * Num(half) + Low(r) = Low(acc) + Low(x) + c
          /\ (carry # c6) <=> ~InRange(Signed(acc) + Signed(x) + c)
      BY <1>1, <2>1, AddExact
    <2>3. acc' = r /\ CY' = carry /\ AC' = half /\ OV' = (carry # c6)
      BY <1>3 DEF Addition, AddFlags, WriteAcc
    <2> HIDE DEF r, carry, c6, half
    <2>4. OV' = ~InRange(Signed(acc) + Signed(x) + c)
      BY <2>2, <2>3, Zenon
    <2> QED BY <2>2, <2>3, <2>4
  <1>4. ASSUME NEW x \in Byte, SUBB(x)
        PROVE  /\ acc' - Modulus * Num(CY') = acc - x - Num(CY)
               /\ Low(acc') - Nibble * Num(AC') = Low(acc) - Low(x) - Num(CY)
               /\ OV' = ~InRange(Signed(acc) - Signed(x) - Num(CY))
    <2> DEFINE c == Num(CY)
               r == SubResult(acc, x, c)
               borrow == acc < x + c
               half == SubBorrow(acc, x, c)
               over == SubOverflow(acc, x, c)
    <2>1. acc' = r /\ CY' = borrow /\ AC' = half /\ OV' = over
      BY <1>4 DEF SUBB, Borrow, WriteAccPsw, SubResult, SubBorrow, SubOverflow
    <2>2. c \in 0 .. 1
      BY <1>2
    <2> HIDE DEF c
    <2>3. /\ r - Modulus * Num(borrow) = acc - x - c
          /\ Low(r) - Nibble * Num(half) = Low(acc) - Low(x) - c
          /\ over <=> ~InRange(Signed(acc) - Signed(x) - c)
      BY <1>1, <2>2, SubExact
    <2>4. half \in BOOLEAN /\ over \in BOOLEAN
      BY Zenon DEF SubBorrow, SubOverflow
    <2> HIDE DEF r, borrow, half, over
    <2>5. OV' = ~InRange(Signed(acc) - Signed(x) - c)
      BY <2>1, <2>3, <2>4, Zenon
    <2> QED BY <2>1, <2>3, <2>5 DEF c
  <1>5. ASSUME MUL PROVE Modulus * B' + acc' = acc * B /\ OV' = (acc * B >= Modulus)
    <2> DEFINE p == acc * B
    <2>1. acc' = p % Modulus /\ B' = p \div Modulus /\ OV' = (B' # 0)
      BY <1>5 DEF MUL, WriteAcc
    <2>2. /\ Modulus * (p \div Modulus) + (p % Modulus) = p
          /\ (p \div Modulus # 0) <=> p >= Modulus
      BY <1>1, MulExact
    <2>3. p \in Int /\ Modulus \in Int
      BY <1>1, AluSizes DEF Byte
    <2> HIDE DEF p
    <2>4. OV' = (p >= Modulus)
      BY <2>1, <2>2, <2>3
    <2> QED BY <2>1, <2>2, <2>4 DEF p
  <1>6. ASSUME DIV, B # 0 PROVE acc' * B + B' = acc /\ B' < B /\ ~OV'
    <2>1. acc' = acc \div B /\ B' = acc % B /\ OV' = (B = 0)
      BY <1>6 DEF DIV, WriteAccPsw
    <2>2. acc % B < B /\ (acc \div B) * B + (acc % B) = acc
      BY <1>1, <1>6, DivExact
    <2>3. ~OV'
      BY <1>6, <2>1
    <2> QED BY <2>1, <2>2, <2>3
  <1> QED BY <1>3, <1>4, <1>5, <1>6 DEF ResultsExact

DecimalExact ==
  sum # None /\ DA => Decimal(acc') /\ Radix * Radix * Num(CY') + Value(acc') = sum

(* DA A gives the decimal sum that is owed.                                *)
LEMMA DecimalStep == AluInv => DecimalExact
  <1> SUFFICES ASSUME AluInv, sum # None, DA
               PROVE  Decimal(acc') /\ Radix * Radix * Num(CY') + Value(acc') = sum
    BY DEF DecimalExact
  <1>1. PICK s0 \in 0 .. 2 * Radix - 1, s1 \in 0 .. 2 * Radix - 2 :
          sum = Radix * s1 + s0 /\ Unadjusted(s0, s1, acc, CY, AC)
    BY DEF AluInv, SumKnown
  <1>2. acc \in Byte /\ CY \in BOOLEAN /\ AC \in BOOLEAN
    BY DEF AluInv, ParityTracked, AluTypeOK
  <1> DEFINE low == Low(acc) > Radix - 1 \/ AC
             ac == IF low THEN acc + Skip ELSE acc
             carry == CY \/ ac > Modulus - 1
             high == High(ac % Modulus) > Radix - 1 \/ carry
             ac2 == IF high THEN (ac % Modulus) + Skip * Nibble ELSE ac % Modulus
  <1>3. acc' = ac2 % Modulus /\ CY' = (carry \/ ac2 > Modulus - 1)
    BY DEF DA, WriteAccPsw
  <1>4. /\ Decimal(ac2 % Modulus)
        /\ Radix * Radix * Num(carry \/ ac2 > Modulus - 1) + Value(ac2 % Modulus)
             = Radix * s1 + s0
    BY <1>1, <1>2, AdjustExact
  <1> HIDE DEF ac2, carry
  <1> QED BY <1>1, <1>3, <1>4

(* Over any sequence of instructions, for every size of a byte and every   *)
(* radix that its digits can hold: the arithmetic is exact, DA A corrects  *)
(* the sum of decimal numbers, and P follows ACC.                          *)
THEOREM AluExactAlways == AluSpec => AluExact
  <1>1. AluInit => AluInv
    <2> SUFFICES ASSUME AluInit PROVE AluInv
      OBVIOUS
    <2>1. 0 \in Byte /\ None \in Sums
      BY AluSizes DEF Byte, Sums
    <2>2. Parity(0) = FALSE
      <3>1. ASSUME NEW i \in 0 .. 7 PROVE ~Bit(0, i)
        <4>1. /\ 2^0 = 1 /\ 2^1 = 2 /\ 2^2 = 4 /\ 2^3 = 8 /\ 2^4 = 16 /\ 2^5 = 32 /\ 2^6 = 64
              /\ 2^7 = 128
          OBVIOUS
        <4>2. \A j \in 0 .. 7 : 2^j \in {1, 2, 4, 8, 16, 32, 64, 128}
          <5>1. \A j \in 0 .. 7 : j \in {0, 1, 2, 3, 4, 5, 6, 7}
            OBVIOUS
          <5> QED BY <4>1, <5>1
        <4>3. PICK w \in {1, 2, 4, 8, 16, 32, 64, 128} : w = 2^i
          BY <4>2
        <4>4. Bit(0, i) <=> (0 \div w) % 2 = 1
          BY <4>3 DEF Bit
        <4>5. (0 \div w) % 2 = 0
          OBVIOUS
        <4> QED BY <4>4, <4>5
      <3>2. {i \in Bits : Bit(0, i)} = {}
        BY <3>1 DEF Bits
      <3>3. Cardinality({i \in Bits : Bit(0, i)}) % 2 = 0
        BY <3>2, FS_EmptySet
      <3> QED BY <3>3 DEF Parity
    <2>3. /\ CY \in BOOLEAN /\ AC \in BOOLEAN /\ OV \in BOOLEAN /\ P \in BOOLEAN
          /\ stale \in BOOLEAN
      BY Zenon DEF AluInit
    <2>4. AluTypeOK
      BY <2>1, <2>3 DEF AluInit, AluTypeOK, Sums
    <2>5. SumKnown
      BY DEF AluInit, SumKnown
    <2>6. P = Parity(acc)
      BY <2>2 DEF AluInit
    <2> QED BY <2>4, <2>5, <2>6 DEF AluInv, ParityTracked
  <1>2. AluInv => ParityTracked
    BY DEF AluInv
  <1> QED
    BY <1>1, <1>2, AluStep, ResultsStep, DecimalStep, PTL
    DEF AluSpec, AluExact, ArithmeticExact, DecimalSum, ResultsExact, DecimalExact
-----------------------------------------------------------------------------
(* The breakpoints.                                                        *)
USE BrkAssumption

\* What holds of one fetch breakpoint at any time.
Sound(b) ==
  /\ b.cnt = b.hit - b.passed
  /\ b.passed = 0 \/ b.passed < b.hit
  /\ b.perm = "dynamic" => ~b.stopped

\* The fields that are set once.
Same(b, r) == r.nr = b.nr /\ r.addr = b.addr

\* The part of TypeOK that is not about breakpoints.
RestType ==
  /\ pc \in Rom /\ cpu \in {"go", "idle"} /\ go \in BOOLEAN
  /\ loop \in {"main", "first", "removing"} /\ events \subseteq Nat

BrkType ==
  /\ fbrk \subseteq FetchBrk /\ ebrk \subseteq EventBrk
  /\ flags \subseteq Rom
  /\ ops \in [Cells -> SUBSET Nat] /\ brk_counter \in Nat

BrkInv ==
  /\ BrkType /\ FlagsMatch /\ NumbersUnique /\ OperatorsMatch
  /\ \A b \in fbrk : Sound(b)

\* The six shapes.
Keep == UNCHANGED brks

AddFetch(a, p, h) == ~bp_at(a) /\ add_fetch(a, p, h)

AddEvent(c, kind) ==
  /\ brk_counter' = make_new_brknr
  /\ ebrk' = ebrk \cup {[nr |-> make_new_brknr, addr |-> c, kind |-> kind]}
  /\ ops' = [d \in Cells |-> IF d = c /\ kind # "access"
                             THEN ops[d] \cup {make_new_brknr} ELSE ops[d]]
  /\ UNCHANGED <<fbrk, flags>>

DelFetch(a) == del_bp(a) /\ UNCHANGED <<ebrk, ops, brk_counter>>

DelEvent(b) == del_ebrk(b) /\ UNCHANGED <<fbrk, flags, brk_counter>>

Rewrite(b, r) ==
  /\ Same(b, r) /\ Sound(r)
  /\ fbrk' = (fbrk \ {b}) \cup {r}
  /\ UNCHANGED <<flags, ebrk, ops, brk_counter>>

Shape ==
  \/ Keep
  \/ \E a \in Addrs, p \in Perms, h \in Hits : AddFetch(a, p, h)
  \/ \E c \in CellAddrs, kind \in Kinds : AddEvent(c, kind)
  \/ \E a \in Addrs : DelFetch(a)
  \/ \E b \in ebrk : DelEvent(b)
  \/ \E b \in fbrk, r \in FetchBrk : Rewrite(b, r)
-----------------------------------------------------------------------------
(* A new number is above all numbers in use (make_new_brknr).              *)
LEMMA NewNumber ==
  ASSUME BrkType, NumbersUnique
  PROVE  /\ make_new_brknr \in Nat
         /\ \A b \in fbrk \cup ebrk : b.nr < make_new_brknr
<1>1. \A b \in fbrk \cup ebrk : b.nr \in Nat /\ b.nr <= brk_counter
  BY DEF BrkType, NumbersUnique, FetchBrk, EventBrk
<1> QED
  BY <1>1 DEF BrkType, make_new_brknr

(* A breakpoint in the code memory is the one that get_bp finds, and       *)
(* get_bp finds nothing else (brk_coll::get_bp).                           *)
LEMMA Found ==
  ASSUME BrkType, FlagsMatch, NEW a \in Rom
  PROVE  get_bp(a) = {b \in fbrk : b.addr = a}
<1>1. ASSUME NEW b \in fbrk, b.addr = a PROVE b \in get_bp(a)
  <2>1. a \in flags
    BY <1>1 DEF FlagsMatch
  <2>2. \A c \in fbrk : c.addr = a => b.nr <= c.nr
    BY <1>1 DEF FlagsMatch, BrkType, FetchBrk
  <2> QED
    BY <1>1, <2>1, <2>2 DEF get_bp, bp_at
<1> QED
  BY <1>1 DEF get_bp

(* What no fetch breakpoint is found for can be given one.                 *)
LEMMA NotFound ==
  ASSUME BrkType, FlagsMatch, NEW a \in Addrs, get_bp(a) = {}
  PROVE  ~bp_at(a)
<1>1. SUFFICES ASSUME bp_at(a) PROVE FALSE
  OBVIOUS
<1>2. a \in Rom /\ a \in flags
  BY <1>1 DEF bp_at
<1>3. PICK b \in fbrk : b.addr = a
  BY <1>2 DEF FlagsMatch
<1> QED
  BY <1>2, <1>3, Found
-----------------------------------------------------------------------------
(* The invariant of the collections is kept when a fetch breakpoint is     *)
(* added (add_bp, set_brk).                                                *)
LEMMA AddFetchKeeps ==
  ASSUME BrkInv, NEW a \in Addrs, NEW p \in Perms, NEW h \in Hits,
         AddFetch(a, p, h)
  PROVE  BrkInv'
<1> DEFINE n == make_new_brknr
           r == NewFetch(a, p, h)
<1>1. /\ n \in Nat /\ \A b \in fbrk \cup ebrk : b.nr < n
  BY NewNumber DEF BrkInv
<1>2. /\ r \in FetchBrk /\ r.nr = n /\ r.addr = a /\ Sound(r)
  <2>1. h \in Nat
    OBVIOUS
  <2> QED
    BY <1>1, <2>1 DEF NewFetch, FetchBrk, Sound
<1> HIDE DEF n, r
<1>3. /\ brk_counter' = n /\ fbrk' = fbrk \cup {r}
      /\ flags' = flags \cup ({a} \cap Rom) /\ ebrk' = ebrk /\ ops' = ops
      /\ ~(a \in Rom /\ a \in flags)
  BY DEF AddFetch, add_fetch, bp_at, n, r
<1>4. BrkType'
  BY <1>1, <1>2, <1>3 DEF BrkInv, BrkType
<1>5. FlagsMatch'
  BY <1>2, <1>3 DEF BrkInv, FlagsMatch
<1>6. NumbersUnique'
  <2>1. \A b \in fbrk \cup ebrk : b.nr \in Nat
    BY DEF BrkInv, BrkType, FetchBrk, EventBrk
  <2> QED
    BY <1>1, <1>2, <1>3, <2>1 DEF BrkInv, NumbersUnique
<1>7. OperatorsMatch'
  BY <1>3 DEF BrkInv, OperatorsMatch
<1>8. \A b \in fbrk' : Sound(b)
  BY <1>2, <1>3 DEF BrkInv
<1> QED
  BY <1>4, <1>5, <1>6, <1>7, <1>8 DEF BrkInv, Sound

(* ... when an event breakpoint is added (set_brk).                        *)
LEMMA AddEventKeeps ==
  ASSUME BrkInv, NEW c \in CellAddrs, NEW kind \in Kinds, AddEvent(c, kind)
  PROVE  BrkInv'
<1> DEFINE n == make_new_brknr
           r == [nr |-> n, addr |-> c, kind |-> kind]
<1>1. /\ n \in Nat /\ \A b \in fbrk \cup ebrk : b.nr < n
  BY NewNumber DEF BrkInv
<1>2. /\ r \in EventBrk /\ r.nr = n /\ r.addr = c /\ r.kind = kind
  BY <1>1 DEF EventBrk
<1>3. /\ brk_counter' = n /\ ebrk' = ebrk \cup {r}
      /\ ops' = [d \in Cells |-> IF d = c /\ kind # "access"
                                 THEN ops[d] \cup {n} ELSE ops[d]]
      /\ fbrk' = fbrk /\ flags' = flags
  BY DEF AddEvent
<1> HIDE DEF n, r
<1>4. BrkType'
  BY <1>1, <1>2, <1>3 DEF BrkInv, BrkType
<1>5. FlagsMatch'
  BY <1>3 DEF BrkInv, FlagsMatch
<1>6. NumbersUnique'
  <2>1. \A b \in fbrk \cup ebrk : b.nr \in Nat
    BY DEF BrkInv, BrkType, FetchBrk, EventBrk
  <2> QED
    BY <1>1, <1>2, <1>3, <2>1 DEF BrkInv, NumbersUnique
<1>7. OperatorsMatch'
  <2> SUFFICES ASSUME NEW d \in Cells
               PROVE  ops'[d] = {b.nr : b \in {e \in ebrk' : e.addr = d /\ e.kind # "access"}}
    BY DEF OperatorsMatch
  <2>1. ops[d] = {b.nr : b \in {e \in ebrk : e.addr = d /\ e.kind # "access"}}
    BY DEF BrkInv, OperatorsMatch
  <2>2. CASE d = c /\ kind # "access"
    <3>1. ops'[d] = ops[d] \cup {n}
      BY <1>3, <2>2
    <3>2. {e \in ebrk' : e.addr = d /\ e.kind # "access"}
            = {e \in ebrk : e.addr = d /\ e.kind # "access"} \cup {r}
      BY <1>2, <1>3, <2>2
    <3> QED
      BY <1>2, <2>1, <3>1, <3>2
  <2>3. CASE ~(d = c /\ kind # "access")
    <3>1. ops'[d] = ops[d]
      BY <1>3, <2>3
    <3>2. {e \in ebrk' : e.addr = d /\ e.kind # "access"}
            = {e \in ebrk : e.addr = d /\ e.kind # "access"}
      BY <1>2, <1>3, <2>3
    <3> QED
      BY <2>1, <3>1, <3>2
  <2> QED
    BY <2>2, <2>3
<1>8. \A b \in fbrk' : Sound(b)
  BY <1>3 DEF BrkInv
<1> QED
  BY <1>4, <1>5, <1>6, <1>7, <1>8 DEF BrkInv, Sound

(* ... when the first fetch breakpoint at an address is deleted (del_bp).  *)
LEMMA DelFetchKeeps ==
  ASSUME BrkInv, NEW a \in Addrs, DelFetch(a)
  PROVE  BrkInv'
<1>1. /\ fbrk' = fbrk \ get_bp(a) /\ ebrk' = ebrk /\ ops' = ops
      /\ brk_counter' = brk_counter
      /\ flags' = IF get_bp(a) = {} THEN flags ELSE flags \ {a}
  BY DEF DelFetch, del_bp
<1>2. BrkType'
  BY <1>1 DEF BrkInv, BrkType
<1>3. FlagsMatch'
  <2>1. CASE a \notin Rom
    <3>1. get_bp(a) = {}
      BY <2>1 DEF get_bp, bp_at
    <3> QED
      BY <1>1, <3>1 DEF BrkInv, FlagsMatch
  <2>2. CASE a \in Rom
    <3>1. get_bp(a) = {b \in fbrk : b.addr = a}
      BY <2>2, Found DEF BrkInv
    <3>2. a \notin flags'
      BY <1>1, <2>2, <3>1 DEF BrkInv, FlagsMatch
    <3>3. \A b \in fbrk' : b \in fbrk /\ b.addr # a
      BY <1>1, <3>1
    <3>4. \A b \in fbrk : b.addr # a => b \in fbrk'
      BY <1>1, <3>1
    <3>5. \A d \in Rom : d # a => (d \in flags' <=> d \in flags)
      BY <1>1
    <3> QED
      BY <3>2, <3>3, <3>4, <3>5 DEF BrkInv, FlagsMatch
  <2> QED
    BY <2>1, <2>2
<1>4. NumbersUnique'
  BY <1>1 DEF BrkInv, NumbersUnique
<1>5. OperatorsMatch'
  BY <1>1 DEF BrkInv, OperatorsMatch
<1>6. \A b \in fbrk' : Sound(b)
  BY <1>1 DEF BrkInv
<1> QED
  BY <1>2, <1>3, <1>4, <1>5, <1>6 DEF BrkInv, Sound

(* ... when an event breakpoint is deleted (del_bp, del_brk).              *)
LEMMA DelEventKeeps ==
  ASSUME BrkInv, NEW b \in ebrk, DelEvent(b)
  PROVE  BrkInv'
<1>1. /\ ebrk' = ebrk \ {b} /\ fbrk' = fbrk /\ flags' = flags
      /\ brk_counter' = brk_counter
      /\ ops' = [c \in Cells |-> IF c = b.addr /\ b.kind # "access"
                                 THEN ops[c] \ {b.nr} ELSE ops[c]]
  BY DEF DelEvent, del_ebrk
<1>2. BrkType'
  BY <1>1 DEF BrkInv, BrkType
<1>3. FlagsMatch'
  BY <1>1 DEF BrkInv, FlagsMatch
<1>4. NumbersUnique'
  BY <1>1 DEF BrkInv, NumbersUnique
<1>5. OperatorsMatch'
  <2> SUFFICES ASSUME NEW d \in Cells
               PROVE  ops'[d] = {e.nr : e \in {x \in ebrk' : x.addr = d /\ x.kind # "access"}}
    BY DEF OperatorsMatch
  <2> DEFINE Old == {x \in ebrk  : x.addr = d /\ x.kind # "access"}
             New == {x \in ebrk' : x.addr = d /\ x.kind # "access"}
  <2>1. ops[d] = {e.nr : e \in Old}
    BY DEF BrkInv, OperatorsMatch
  <2>2. CASE d = b.addr /\ b.kind # "access"
    <3>1. ops'[d] = ops[d] \ {b.nr}
      BY <1>1, <2>2
    <3>2. New = Old \ {b}
      BY <1>1
    <3>3. \A e \in Old : e.nr = b.nr => e = b
      BY DEF BrkInv, NumbersUnique
    <3> QED
      BY <2>1, <3>1, <3>2, <3>3
  <2>3. CASE ~(d = b.addr /\ b.kind # "access")
    <3>1. ops'[d] = ops[d]
      BY <1>1, <2>3
    <3>2. New = Old
      BY <1>1, <2>3
    <3> QED
      BY <2>1, <3>1, <3>2
  <2> QED
    BY <2>2, <2>3
<1>6. \A c \in fbrk' : Sound(c)
  BY <1>1 DEF BrkInv
<1> QED
  BY <1>2, <1>3, <1>4, <1>5, <1>6 DEF BrkInv, Sound

(* ... when a fetch breakpoint counts a hit or stops the program (do_hit). *)
LEMMA RewriteKeeps ==
  ASSUME BrkInv, NEW b \in fbrk, NEW r \in FetchBrk, Rewrite(b, r)
  PROVE  BrkInv'
<1>1. /\ fbrk' = (fbrk \ {b}) \cup {r} /\ r.nr = b.nr /\ r.addr = b.addr
      /\ flags' = flags /\ ebrk' = ebrk /\ ops' = ops
      /\ brk_counter' = brk_counter
  BY DEF Rewrite, Same
<1>2. BrkType'
  BY <1>1 DEF BrkInv, BrkType
<1>3. FlagsMatch'
  BY <1>1 DEF BrkInv, FlagsMatch
<1>4. NumbersUnique'
  BY <1>1 DEF BrkInv, NumbersUnique
<1>5. OperatorsMatch'
  BY <1>1 DEF BrkInv, OperatorsMatch
<1>6. \A c \in fbrk' : Sound(c)
  BY <1>1 DEF BrkInv, Rewrite
<1> QED
  BY <1>2, <1>3, <1>4, <1>5, <1>6 DEF BrkInv, Sound

(* The invariant of the collections is kept by a step of any shape.        *)
LEMMA ShapeKeeps == BrkInv /\ Shape => BrkInv'
<1> SUFFICES ASSUME BrkInv, Shape PROVE BrkInv'
  OBVIOUS
<1>1. CASE Keep
  BY <1>1 DEF Keep, brks, BrkInv, BrkType, FlagsMatch, NumbersUnique,
              OperatorsMatch, Sound
<1>2. CASE \E a \in Addrs, p \in Perms, h \in Hits : AddFetch(a, p, h)
  BY <1>2, AddFetchKeeps
<1>3. CASE \E c \in CellAddrs, kind \in Kinds : AddEvent(c, kind)
  BY <1>3, AddEventKeeps
<1>4. CASE \E a \in Addrs : DelFetch(a)
  BY <1>4, DelFetchKeeps
<1>5. CASE \E b \in ebrk : DelEvent(b)
  BY <1>5, DelEventKeeps
<1>6. CASE \E b \in fbrk, r \in FetchBrk : Rewrite(b, r)
  BY <1>6, RewriteKeeps
<1> QED
  BY <1>1, <1>2, <1>3, <1>4, <1>5, <1>6 DEF Shape
-----------------------------------------------------------------------------
(* fetch looks at one breakpoint at most, and it is a good one.            *)
LEMMA CheckedOne ==
  ASSUME BrkInv, NEW b \in Checked
  PROVE  /\ b \in fbrk /\ b \in FetchBrk /\ Sound(b)
         /\ b.addr = pc /\ pc \in Rom /\ Checked = {b}
<1>1. b \in get_bp(pc) /\ Checked = get_bp(pc)
  BY DEF Checked
<1>2. /\ b \in fbrk /\ b.addr = pc /\ pc \in Rom
  BY <1>1 DEF get_bp, bp_at
<1>3. get_bp(pc) = {c \in fbrk : c.addr = pc}
  BY <1>2, Found DEF BrkInv
<1>4. \A c \in fbrk : c.addr = pc => c = b
  BY <1>2 DEF BrkInv, FlagsMatch
<1> QED
  BY <1>1, <1>2, <1>3, <1>4 DEF BrkInv, BrkType

(* A fetch breakpoint stays one when it is counted or has stopped the      *)
(* program (do_hit).                                                       *)
LEMMA Counted ==
  ASSUME NEW b \in FetchBrk, NEW c \in Int, NEW p \in Nat
  PROVE  /\ [b EXCEPT !.cnt = c, !.passed = p] \in FetchBrk
         /\ [b EXCEPT !.cnt = c, !.passed = p, !.stopped = TRUE] \in FetchBrk
  BY DEF FetchBrk

(* An instruction stopped by a breakpoint deletes or rewrites it           *)
(* (cl_uc::fetch).                                                         *)
LEMMA HitShape == BrkInv /\ RestType /\ HitBreak => Shape
<1> SUFFICES ASSUME BrkInv, RestType, HitBreak PROVE Shape
  OBVIOUS
<1>1. PICK b \in Checked :
        /\ Due(b)
        /\ IF b.perm = "dynamic"
           THEN del_bp(pc)
           ELSE /\ fbrk' = (fbrk \ {b})
                     \cup {[b EXCEPT !.cnt = b.hit, !.passed = 0, !.stopped = TRUE]}
                /\ UNCHANGED flags
  BY DEF HitBreak
<1>2. UNCHANGED <<ebrk, ops, brk_counter>>
  BY DEF HitBreak
<1>3. CASE b.perm = "dynamic"
  <2>1. pc \in Addrs
    BY DEF RestType, Rom
  <2> QED
    BY <1>1, <1>2, <1>3, <2>1 DEF Shape, DelFetch
<1>4. CASE b.perm # "dynamic"
  <2> DEFINE r == [b EXCEPT !.cnt = b.hit, !.passed = 0, !.stopped = TRUE]
  <2>1. b \in fbrk /\ b \in FetchBrk
    BY CheckedOne
  <2>2. /\ r \in FetchBrk /\ Same(b, r) /\ Sound(r)
    <3>1. b.hit \in Nat
      BY <2>1 DEF FetchBrk
    <3>2. /\ r.nr = b.nr /\ r.addr = b.addr /\ r.perm = b.perm /\ r.hit = b.hit
          /\ r.cnt = b.hit /\ r.passed = 0
      BY <2>1 DEF FetchBrk
    <3>3. r \in FetchBrk
      <4>1. b.hit \in Int /\ 0 \in Nat
        BY <3>1
      <4> QED
        BY <2>1, <4>1, Counted
    <3> HIDE DEF r
    <3> QED
      BY <1>4, <3>1, <3>2, <3>3 DEF Same, Sound
  <2>3. Rewrite(b, r)
    BY <1>1, <1>2, <1>4, <2>2 DEF Rewrite
  <2> QED
    BY <2>1, <2>2, <2>3 DEF Shape
<1> QED
  BY <1>3, <1>4

(* An executed instruction counts a hit of the breakpoint it passes, an    *)
(* idle cycle changes no breakpoint (pre_inst, fetch, do_hit).             *)
LEMMA CycleShape ==
  ASSUME BrkInv, NEW stopped, Cycle(stopped)
  PROVE  Shape
<1>1. CASE Idle(stopped)
  BY <1>1 DEF Idle, Shape, Keep
<1>2. CASE Execute(stopped) /\ Checked = {}
  BY <1>2 DEF Execute, Shape, Keep, brks
<1>3. CASE Execute(stopped) /\ Checked # {}
  <2>1. PICK b : b \in Checked
    BY <1>3
  <2>2. /\ b \in fbrk /\ b \in FetchBrk /\ Sound(b) /\ Checked = {b}
    BY <2>1, CheckedOne
  <2> DEFINE r == [b EXCEPT !.cnt = b.cnt - 1, !.passed = b.passed + 1]
  <2>3. ~Due(b) /\ fbrk' = (fbrk \ {b}) \cup {r}
    BY <1>3, <2>2 DEF Execute
  <2>4. b.hit \in Nat
    BY <2>2 DEF FetchBrk
  <2>5. /\ r \in FetchBrk /\ Same(b, r) /\ Sound(r)
    <3>1. b.cnt \in Int /\ b.passed \in Nat
      BY <2>2 DEF FetchBrk
    <3>2. /\ r.nr = b.nr /\ r.addr = b.addr /\ r.perm = b.perm /\ r.hit = b.hit
          /\ r.cnt = b.cnt - 1 /\ r.passed = b.passed + 1
          /\ r.stopped = b.stopped
      BY <2>2 DEF FetchBrk
    <3>3. r \in FetchBrk
      <4>1. b.cnt - 1 \in Int /\ b.passed + 1 \in Nat
        BY <3>1
      <4> QED
        BY <2>2, <4>1, Counted
    <3> HIDE DEF r
    <3>4. r.cnt = r.hit - r.passed /\ r.passed < r.hit
      BY <2>2, <2>3, <2>4, <3>1, <3>2 DEF Sound, Due
    <3>5. r.perm = "dynamic" => ~r.stopped
      BY <2>2, <3>2 DEF Sound
    <3> QED
      BY <3>2, <3>3, <3>4, <3>5 DEF Same, Sound
  <2>6. Rewrite(b, r)
    BY <1>3, <2>3, <2>5 DEF Rewrite, Execute
  <2> QED
    BY <2>2, <2>5, <2>6 DEF Shape
<1> QED
  BY <1>1, <1>2, <1>3 DEF Cycle

(* Every step has a shape.                                                 *)
LEMMA StepShape == BrkInv /\ RestType /\ [Next]_vars => Shape
<1> SUFFICES ASSUME BrkInv, RestType, [Next]_vars PROVE Shape
  OBVIOUS
<1>1. CASE MainHit BY <1>1, HitShape DEF MainHit
<1>2. CASE MainCycle BY <1>2, CycleShape DEF MainCycle
<1>3. ASSUME NEW a \in Addrs, NEW p \in Perms, NEW h \in Hits, Break(a, p, h)
      PROVE  Shape
  BY <1>3 DEF Break, Shape, AddFetch
<1>4. ASSUME NEW c \in CellAddrs, NEW kind \in Kinds, BreakEvent(c, kind)
      PROVE  Shape
  BY <1>4 DEF BreakEvent, Shape, AddEvent
<1>5. ASSUME NEW a \in Addrs, Clear(a) PROVE Shape
  BY <1>5 DEF Clear, Shape, DelFetch
<1>6. ASSUME NEW nr \in 1 .. MaxNr, Delete(nr) PROVE Shape
  <2>1. CASE \E b \in fbrk : del_bp(b.addr) /\ UNCHANGED <<ebrk, ops, brk_counter>>
    BY <2>1 DEF Shape, DelFetch, BrkInv, BrkType, FetchBrk
  <2>2. CASE \E b \in ebrk : del_ebrk(b) /\ UNCHANGED <<fbrk, flags, brk_counter>>
    BY <2>2 DEF Shape, DelEvent
  <2> QED
    BY <1>6, <2>1, <2>2 DEF Delete
<1>7. CASE RemoveFirst
  <2>1. PICK b \in fbrk : del_bp(b.addr)
    BY <1>7 DEF RemoveFirst
  <2>2. b.addr \in Addrs
    BY DEF BrkInv, BrkType, FetchBrk
  <2> QED
    BY <1>7, <2>1, <2>2 DEF RemoveFirst, Shape, DelFetch
<1>8. CASE RemoveLast
  <2>1. CASE \E b \in ebrk : del_ebrk(b)
    BY <1>8, <2>1 DEF RemoveLast, Shape, DelEvent
  <2>2. CASE UNCHANGED <<ebrk, ops>>
    BY <1>8, <2>2 DEF RemoveLast, Shape, Keep, brks
  <2> QED
    BY <1>8, <2>1, <2>2 DEF RemoveLast
<1>9. CASE FirstInst
  BY <1>9, HitShape, CycleShape DEF FirstInst
<1>10. CASE DeleteAll \/ Run \/ Stop \/ Examine
  BY <1>10 DEF DeleteAll, Run, Stop, Examine, Shape, Keep
<1>11. CASE Step
  BY <1>11, CycleShape DEF Step
<1>12. ASSUME NEW start \in Rom, RunFrom(start) PROVE Shape
  BY <1>12 DEF RunFrom, Shape, Keep
<1>13. ASSUME NEW end \in Addrs,
              IF get_bp(end) = {} THEN add_fetch(end, "dynamic", 1)
                                  ELSE UNCHANGED brks
       PROVE  Shape
  <2>1. CASE get_bp(end) = {}
    <3>1. ~bp_at(end)
      BY <2>1, NotFound DEF BrkInv
    <3>2. AddFetch(end, "dynamic", 1)
      BY <1>13, <2>1, <3>1 DEF AddFetch
    <3> QED
      BY <3>2 DEF Shape, Perms
  <2>2. CASE get_bp(end) # {}
    BY <1>13, <2>2 DEF Shape, Keep
  <2> QED
    BY <2>1, <2>2
<1>14. ASSUME NEW start \in Rom, NEW end \in Addrs, RunTo(start, end)
       PROVE  Shape
  <2>1. CASE UNCHANGED brks
    BY <2>1 DEF Shape, Keep
  <2>2. CASE ~UNCHANGED brks
    BY <1>13, <1>14, <2>2 DEF RunTo
  <2> QED
    BY <2>1, <2>2
<1>15. ASSUME NEW next \in Addrs, NextOver(next) PROVE Shape
  BY <1>13, <1>15 DEF NextOver
<1>16. CASE UNCHANGED vars
  BY <1>16 DEF vars, Shape, Keep, brks
<1> QED
  BY <1>1, <1>2, <1>3, <1>4, <1>5, <1>6, <1>7, <1>8, <1>9, <1>10, <1>11,
     <1>12, <1>14, <1>15, <1>16 DEF Next
-----------------------------------------------------------------------------
(* The rest of the state is well typed after every step.                   *)
LEMMA RestKept == BrkInv /\ RestType /\ [Next]_vars => RestType'
<1> SUFFICES ASSUME BrkInv, RestType, [Next]_vars PROVE RestType'
  OBVIOUS
<1> USE DEF RestType
<1>1. \A s \in Accesses : s \subseteq Nat
  <2>1. \A b \in ebrk : b.nr \in Nat
    BY DEF BrkInv, BrkType, EventBrk
  <2> QED
    BY <2>1 DEF Accesses, Fired
<1>2. ASSUME NEW stopped, Cycle(stopped)
      PROVE  pc' \in Rom /\ cpu' \in {"go", "idle"} /\ events' \subseteq Nat
  BY <1>1, <1>2 DEF Cycle, Execute, Idle
<1>3. HitBreak => pc' \in Rom /\ cpu' \in {"go", "idle"} /\ events' \subseteq Nat
  BY DEF HitBreak
<1>4. CASE MainHit \/ FirstInst
  BY <1>2, <1>3, <1>4 DEF MainHit, FirstInst
<1>5. CASE MainCycle \/ Step
  BY <1>2, <1>5 DEF MainCycle, Step
<1>6. ASSUME NEW a, NEW p, NEW h, Break(a, p, h) PROVE RestType'
  BY <1>6 DEF Break
<1>7. ASSUME NEW c, NEW kind, BreakEvent(c, kind) PROVE RestType'
  BY <1>7 DEF BreakEvent
<1>8. ASSUME NEW a, Clear(a) \/ Delete(a) PROVE RestType'
  BY <1>8 DEF Clear, Delete
<1>9. CASE DeleteAll \/ RemoveFirst \/ RemoveLast
  BY <1>9 DEF DeleteAll, RemoveFirst, RemoveLast
<1>10. CASE Run \/ Stop
  BY <1>10 DEF Run, Stop, Launch
<1>11. CASE Examine
  BY <1>1, <1>11 DEF Examine
<1>12. ASSUME NEW start \in Rom, RunFrom(start) PROVE RestType'
  BY <1>12 DEF RunFrom, Launch
<1>13. ASSUME NEW start \in Rom, NEW end, RunTo(start, end) PROVE RestType'
  BY <1>13 DEF RunTo, Launch
<1>14. ASSUME NEW next, NextOver(next) PROVE RestType'
  BY <1>14 DEF NextOver, Launch
<1>15. CASE UNCHANGED vars
  BY <1>15 DEF vars
<1> QED
  BY <1>4, <1>5, <1>6, <1>7, <1>8, <1>9, <1>10, <1>11, <1>12, <1>13, <1>14,
     <1>15 DEF Next

(* The parts of the invariant are those of the model.                      *)
LEMMA Parts == BrkInv /\ RestType => IInv
  BY DEF BrkInv, RestType, BrkType, IInv, TypeOK, CountInv, HitsHonoured,
         DynamicFetchRemoved, Sound

(* No breakpoint is there at the beginning (cl_uc::init).                  *)
LEMMA InitInv == Init => BrkInv /\ RestType
<1> SUFFICES ASSUME Init PROVE BrkInv /\ RestType
  OBVIOUS
<1>1. 0 \in Rom
  BY DEF Rom
<1>2. BrkType
  BY DEF Init, BrkType
<1>3. OperatorsMatch
  BY DEF Init, OperatorsMatch
<1> QED
  BY <1>1, <1>2, <1>3 DEF Init, BrkInv, RestType, FlagsMatch, NumbersUnique

(* The inductive invariant of the breakpoints holds in every reachable     *)
(* state.                                                                  *)
THEOREM Invariance == Spec => []IInv
<1>1. BrkInv /\ RestType /\ [Next]_vars => (BrkInv /\ RestType)'
  BY StepShape, ShapeKeeps, RestKept
<1> QED
  BY <1>1, InitInv, Parts, PTL DEF Spec

(* Breakpoints are well typed (brk_coll, cl_uc).                           *)
THEOREM TypeCorrect == Spec => []TypeOK
<1>1. IInv => TypeOK
  BY DEF IInv
<1> QED
  BY <1>1, Invariance, PTL

(* A cell has the flag of a fetch breakpoint exactly when it has one, and  *)
(* it has one only (set_brk, del_bp, fetch).                               *)
THEOREM FlagsMatchHolds == Spec => []FlagsMatch
<1>1. IInv => FlagsMatch
  BY DEF IInv
<1> QED
  BY <1>1, Invariance, PTL

(* Numbers name one breakpoint (make_new_brknr).                           *)
THEOREM NumbersUniqueHolds == Spec => []NumbersUnique
<1>1. IInv => NumbersUnique
  BY DEF IInv
<1> QED
  BY <1>1, Invariance, PTL

(* The operators on data cells are those of the event breakpoints          *)
(* (set_brk, del_brk).                                                     *)
THEOREM OperatorsMatchHolds == Spec => []OperatorsMatch
<1>1. IInv => OperatorsMatch
  BY DEF IInv
<1> QED
  BY <1>1, Invariance, PTL

(* A fetch breakpoint of hit number n lets n - 1 executions pass (do_hit), *)
(* for every n, zero and one included.                                     *)
THEOREM HitsHonouredHolds == Spec => []HitsHonoured
<1>1. IInv => HitsHonoured
  BY DEF IInv
<1> QED
  BY <1>1, Invariance, PTL

(* A dynamic fetch breakpoint is gone once it has stopped the program      *)
(* (cl_uc::fetch).                                                         *)
THEOREM DynamicFetchRemovedHolds == Spec => []DynamicFetchRemoved
<1>1. IInv => DynamicFetchRemoved
  BY DEF IInv
<1> QED
  BY <1>1, Invariance, PTL
=============================================================================

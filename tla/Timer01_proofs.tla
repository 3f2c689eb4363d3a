-------------------------- MODULE Timer01_proofs ---------------------------
(***************************************************************************)
(* For every width of a register and of the precounter and every number of *)
(* pulses in a tick: the loops of do_mode0 to do_mode3 compute what        *)
(* PulseCounter states in closed form, so timer 0 and timer 1 implement    *)
(* it, and TH alone does in mode 3.                                        *)
(***************************************************************************)
EXTENDS Timer01, TLAPS, WellFoundedInduction

(* A set of naturals that is not empty has a least element.                *)
LEMMA Least ==
  ASSUME NEW S \in SUBSET Nat, NEW z \in S
  PROVE  \E m \in S : \A k \in S : m <= k
  <1> DEFINE R == OpToRel(<, Nat)
  <1>1. IsWellFoundedOn(R, Nat)
    BY NatLessThanWellFounded
  <1>2. S \subseteq Nat /\ S # {}
    OBVIOUS
  <1> HIDE DEF R
  <1>3. PICK x \in S : \A y \in S : ~(<<y, x>> \in R)
    BY <1>1, <1>2, WFMin
  <1>4. \A y \in S : y < x => <<y, x>> \in R
    BY DEF R, OpToRel
  <1>5. \A y \in S : ~(y < x)
    BY <1>3, <1>4, Zenon
  <1>6. \A y \in S : x <= y
    BY <1>2, <1>5
  <1> QED BY <1>6

(* Induction over the naturals, for a set.                                 *)
LEMMA Induct ==
  ASSUME NEW S, 0 \in S, \A n \in Nat : n \in S => n + 1 \in S
  PROVE  Nat \subseteq S
  <1> DEFINE B == Nat \ S
  <1> SUFFICES ASSUME NEW z \in B PROVE FALSE
    OBVIOUS
  <1>1. PICK m \in B : \A k \in B : m <= k
    <2>1. B \in SUBSET Nat
      OBVIOUS
    <2> HIDE DEF B
    <2> QED BY <2>1, Least
  <1>2. m # 0 /\ m \in Nat
    OBVIOUS
  <1>3. m - 1 \in Nat /\ m - 1 \notin B
    BY <1>1, <1>2
  <1>4. m - 1 \in S
    BY <1>3
  <1>5. (m - 1) + 1 \in S
    BY <1>4, <1>3
  <1> QED BY <1>5, <1>2
-----------------------------------------------------------------------------
(* The pulses of the modes 0 to 3 and of TH, under one name.               *)
Pulse(k, c) ==
  CASE k = 0 -> Pulse0(c)
    [] k = 1 -> Pulse1(c)
    [] k = 2 -> Pulse2(c)
    [] k = 3 -> Pulse3(c)
    [] k = 4 -> PulseTH(c)

Follows(f, k, c, n) == f = [i \in 0 .. n |-> IF i = 0 THEN c ELSE Pulse(k, f[i - 1])]

(* A loop of n pulses has a run: what the recursive definition of Pulses   *)
(* defines exists.                                                         *)
LEMMA RunExists ==
  ASSUME NEW k, NEW c, NEW n \in Nat
  PROVE  \E f : Follows(f, k, c, n)
  <1> DEFINE Good == {m \in Nat : \E f : Follows(f, k, c, m)}
  <1>1. 0 \in Good
    <2> DEFINE f == [i \in 0 .. 0 |-> c]
    <2>1. f = [i \in 0 .. 0 |-> IF i = 0 THEN c ELSE Pulse(k, f[i - 1])]
      OBVIOUS
    <2> HIDE DEF f
    <2> QED BY <2>1 DEF Follows
  <1>2. ASSUME NEW m \in Nat, m \in Good PROVE m + 1 \in Good
    <2>1. PICK f : Follows(f, k, c, m)
      BY <1>2
    <2> DEFINE h == [i \in 0 .. m + 1 |-> IF i = m + 1 THEN Pulse(k, f[m]) ELSE f[i]]
    <2>2. ASSUME NEW i \in 0 .. m + 1
          PROVE  h[i] = IF i = 0 THEN c ELSE Pulse(k, h[i - 1])
      <3>1. CASE i = m + 1
        <4>1. h[i] = Pulse(k, f[m]) /\ h[i - 1] = f[m] /\ i # 0
          BY <3>1
        <4> HIDE DEF h
        <4> QED BY <4>1
      <3>2. CASE i # m + 1
        <4>1. i \in 0 .. m
          BY <3>2
        <4>2. h[i] = f[i] /\ (i # 0 => h[i - 1] = f[i - 1])
          BY <4>1
        <4>3. f[i] = IF i = 0 THEN c ELSE Pulse(k, f[i - 1])
          BY <2>1, <4>1 DEF Follows
        <4> HIDE DEF h
        <4> QED BY <4>2, <4>3
      <3> QED BY <3>1, <3>2
    <2>3. h = [i \in 0 .. m + 1 |-> h[i]]
      OBVIOUS
    <2> HIDE DEF h
    <2>4. Follows(h, k, c, m + 1)
      BY <2>2, <2>3 DEF Follows
    <2> QED BY <2>4
  <1> HIDE DEF Good
  <1>3. n \in Good
    BY <1>1, <1>2, Induct
  <1> QED BY <1>3 DEF Good

(* So each loop ends where such a run does.                                *)
LEMMA LoopsRun ==
  ASSUME NEW c, NEW n \in Nat
  PROVE  /\ \E f : Follows(f, 0, c, n) /\ Pulses(Pulse0, c, n) = f[n]
         /\ \E f : Follows(f, 1, c, n) /\ Pulses(Pulse1, c, n) = f[n]
         /\ \E f : Follows(f, 2, c, n) /\ Pulses(Pulse2, c, n) = f[n]
         /\ \E f : Follows(f, 3, c, n) /\ Pulses(Pulse3, c, n) = f[n]
         /\ \E f : Follows(f, 4, c, n) /\ Pulses(PulseTH, c, n) = f[n]
  <1>0. \A f : Follows(f, 0, c, n) <=> f = [i \in 0 .. n |-> IF i = 0 THEN c ELSE Pulse0(f[i - 1])]
    BY DEF Follows, Pulse
  <1>1. \A f : Follows(f, 1, c, n) <=> f = [i \in 0 .. n |-> IF i = 0 THEN c ELSE Pulse1(f[i - 1])]
    BY DEF Follows, Pulse
  <1>2. \A f : Follows(f, 2, c, n) <=> f = [i \in 0 .. n |-> IF i = 0 THEN c ELSE Pulse2(f[i - 1])]
    BY DEF Follows, Pulse
  <1>3. \A f : Follows(f, 3, c, n) <=> f = [i \in 0 .. n |-> IF i = 0 THEN c ELSE Pulse3(f[i - 1])]
    BY DEF Follows, Pulse
  <1>4. \A f : Follows(f, 4, c, n) <=> f = [i \in 0 .. n |-> IF i = 0 THEN c ELSE PulseTH(f[i - 1])]
    BY DEF Follows, Pulse
  <1>5. \A k : \E f : Follows(f, k, c, n)
    BY RunExists
  <1>10. \E f : Follows(f, 0, c, n) /\ Pulses(Pulse0, c, n) = f[n]
    BY <1>0, <1>5 DEF Pulses
  <1>11. \E f : Follows(f, 1, c, n) /\ Pulses(Pulse1, c, n) = f[n]
    BY <1>1, <1>5 DEF Pulses
  <1>12. \E f : Follows(f, 2, c, n) /\ Pulses(Pulse2, c, n) = f[n]
    BY <1>2, <1>5 DEF Pulses
  <1>13. \E f : Follows(f, 3, c, n) /\ Pulses(Pulse3, c, n) = f[n]
    BY <1>3, <1>5 DEF Pulses
  <1>14. \E f : Follows(f, 4, c, n) /\ Pulses(PulseTH, c, n) = f[n]
    BY <1>4, <1>5 DEF Pulses
  <1> QED BY <1>10, <1>11, <1>12, <1>13, <1>14
-----------------------------------------------------------------------------
(* What a loop counts, up to what, where it continues and what it reports. *)
CountType == [tl : Bytes, th : Bytes, ovf : Nat, ovfh : Nat]

ValueOf(k, c) ==
  CASE k = 0 -> c.th * Pre + (c.tl % Pre)
    [] k = 1 -> c.th * Byte + c.tl
    [] k = 4 -> c.th
    [] OTHER -> c.tl

TopOf(k) == CASE k = 0 -> Byte * Pre [] k = 1 -> Byte * Byte [] OTHER -> Byte

ReloadOf(k, c) == IF k = 2 THEN c.th ELSE 0

OvfOf(k, c) == IF k = 4 THEN c.ovfh ELSE c.ovf

(* and what it leaves alone                                                *)
Aside(k, c, d) ==
  /\ k = 4 => d.tl = c.tl /\ d.ovf = c.ovf
  /\ k # 4 => d.ovfh = c.ovfh
  /\ k \in {2, 3} => d.th = c.th

(* A pulse counts one up, or starts again at the end and reports that.     *)
Counted(k, c, d) ==
  /\ d \in CountType /\ Aside(k, c, d)
  /\ \/ ValueOf(k, d) = ValueOf(k, c) + 1 /\ OvfOf(k, d) = OvfOf(k, c)
     \/ /\ ValueOf(k, c) + 1 = TopOf(k) /\ ValueOf(k, d) = ReloadOf(k, c)
        /\ OvfOf(k, d) = OvfOf(k, c) + 1

(* Products of the number of values of a register.                         *)
LEMMA Products ==
  ASSUME NEW a \in Nat, NEW d \in Nat
  PROVE  a * d \in Nat /\ (a + 1) * d = a * d + d
  OBVIOUS

(* One unit more is no more than the next product.                         *)
LEMMA ProductBound ==
  ASSUME NEW a \in Nat, NEW b \in Nat, NEW d \in Nat, a < b
  PROVE  a * d + d <= b * d
  <1>1. a + 1 <= b
    OBVIOUS
  <1>2. (a + 1) * d <= b * d
    BY <1>1
  <1> QED BY <1>2, Products

(* Quotient and remainder are unique.                                      *)
LEMMA Divide ==
  ASSUME NEW a \in Nat, NEW d \in Nat \ {0},
         NEW q \in Nat, NEW r \in Nat, r < d, a = q * d + r
  PROVE  a \div d = q /\ a % d = r
  <1>1. q * d \in Nat /\ q * d <= a /\ a < q * d + d
    OBVIOUS
  <1>2. a \div d = q
    BY <1>1, SMTT(30)
  <1>3. a % d = a - (a \div d) * d
    BY SMTT(30)
  <1> QED BY <1>1, <1>2, <1>3

(* and every natural has them.                                             *)
LEMMA Remainder ==
  ASSUME NEW a \in Nat, NEW d \in Nat \ {0}
  PROVE  /\ a \div d \in Nat /\ a % d \in 0 .. d - 1
         /\ a = (a \div d) * d + (a % d)
  <1>1. a \div d \in Nat /\ a % d \in 0 .. d - 1
    OBVIOUS
  <1>2. a % d = a - (a \div d) * d
    BY SMTT(30)
  <1>3. (a \div d) * d \in Nat
    BY <1>1
  <1> QED BY <1>1, <1>2, <1>3

(* A register wraps at its end only.                                       *)
LEMMA IncIs ==
  ASSUME NEW b \in Bytes
  PROVE  /\ Inc(b) = IF b = Byte - 1 THEN 0 ELSE b + 1
         /\ Inc(b) \in Bytes
  <1> USE TimerAssumption
  <1>1. CASE b = Byte - 1
    BY <1>1 DEF Inc, Bytes
  <1>2. CASE b # Byte - 1
    <2>1. b + 1 \in 0 .. Byte - 1
      BY <1>2 DEF Bytes
    <2>2. (b + 1) % Byte = b + 1
      BY <2>1
    <2> QED BY <1>2, <2>1, <2>2 DEF Inc, Bytes
  <1> QED BY <1>1, <1>2

(* The precounter of mode 0, in the low bits of TL: the register wraps     *)
(* where the precounter does.                                              *)
LEMMA PreIs ==
  ASSUME NEW b \in Bytes
  PROVE  /\ b % Pre \in 0 .. Pre - 1
         /\ Inc(b) % Pre = IF b % Pre = Pre - 1 THEN 0 ELSE (b % Pre) + 1
  <1> USE TimerAssumption
  <1>1. b \in Nat /\ Pre \in Nat /\ Pre > 1
    BY DEF Bytes
  <1>2. b % Pre \in 0 .. Pre - 1
    BY <1>1
  <1>3. (b + 1) % Pre = IF b % Pre = Pre - 1 THEN 0 ELSE (b % Pre) + 1
    <2> DEFINE q == b \div Pre
               r == b % Pre
    <2>1. q \in Nat /\ r \in 0 .. Pre - 1 /\ b = q * Pre + r
      BY <1>1, Remainder
    <2> HIDE DEF q, r
    <2>2. CASE r = Pre - 1
      <3>1. q + 1 \in Nat /\ (q + 1) * Pre = q * Pre + Pre /\ q * Pre \in Nat
        BY <1>1, <2>1, Products
      <3>2. b + 1 = (q + 1) * Pre + 0
        BY <1>1, <2>1, <2>2, <3>1
      <3>3. (b + 1) % Pre = 0
        BY <1>1, <3>1, <3>2, Divide
      <3> QED BY <2>2, <3>3 DEF r
    <2>3. CASE r # Pre - 1
      <3> DEFINE s == r + 1
      <3>1. s \in Nat /\ s < Pre /\ q * Pre \in Nat
        BY <1>1, <2>1, <2>3
      <3>2. b + 1 = q * Pre + s
        BY <1>1, <2>1, <3>1
      <3> HIDE DEF s
      <3>3. (b + 1) % Pre = s
        BY <1>1, <2>1, <3>1, <3>2, Divide
      <3> QED BY <2>3, <3>3 DEF r, s
    <2> QED BY <2>2, <2>3
  <1>4. CASE b = Byte - 1
    <2>1. Inc(b) = 0 /\ b + 1 = Byte
      BY <1>4, IncIs DEF Bytes
    <2>2. (b + 1) % Pre = 0
      BY <2>1
    <2>3. b % Pre = Pre - 1
      BY <1>1, <1>2, <1>3, <2>2
    <2>4. 0 % Pre = 0
      BY <1>1
    <2> QED BY <1>2, <2>1, <2>3, <2>4
  <1>5. CASE b # Byte - 1
    <2>1. Inc(b) = b + 1
      BY <1>5, IncIs
    <2> QED BY <1>2, <1>3, <2>1
  <1> QED BY <1>4, <1>5

(* A count is a natural below its end, and so is the reload value.         *)
LEMMA ValueBelowTop ==
  ASSUME NEW k \in 0 .. 4, NEW c \in CountType
  PROVE  /\ ValueOf(k, c) \in Nat /\ TopOf(k) \in Nat /\ ReloadOf(k, c) \in Nat
         /\ ValueOf(k, c) < TopOf(k) /\ ReloadOf(k, c) < TopOf(k)
         /\ OvfOf(k, c) \in Nat
  <1> USE TimerAssumption
  <1>1. /\ c.tl \in Bytes /\ c.th \in Bytes /\ c.ovf \in Nat /\ c.ovfh \in Nat
        /\ c.tl \in Nat /\ c.th \in Nat /\ c.tl < Byte /\ c.th < Byte
        /\ Byte \in Nat /\ Pre \in Nat /\ Byte > 1 /\ Pre > 1
    BY DEF CountType, Bytes
  <1>2. CASE k = 0
    <2> DEFINE r == c.tl % Pre
    <2>1. r \in Nat /\ r < Pre
      BY <1>1
    <2> HIDE DEF r
    <2>2. c.th * Pre \in Nat /\ Byte * Pre \in Nat /\ c.th * Pre + Pre <= Byte * Pre
      BY <1>1, ProductBound
    <2>3. ValueOf(k, c) = c.th * Pre + r
      BY <1>2 DEF ValueOf, r
    <2>4. TopOf(k) = Byte * Pre /\ ReloadOf(k, c) = 0 /\ OvfOf(k, c) = c.ovf
      BY <1>2 DEF TopOf, ReloadOf, OvfOf
    <2> QED BY <1>1, <2>1, <2>2, <2>3, <2>4
  <1>3. CASE k = 1
    <2>2. /\ c.th * Byte \in Nat /\ Byte * Byte \in Nat
          /\ c.th * Byte + Byte <= Byte * Byte
      BY <1>1, ProductBound
    <2>3. ValueOf(k, c) = c.th * Byte + c.tl
      BY <1>3 DEF ValueOf
    <2>4. TopOf(k) = Byte * Byte /\ ReloadOf(k, c) = 0 /\ OvfOf(k, c) = c.ovf
      BY <1>3 DEF TopOf, ReloadOf, OvfOf
    <2> QED BY <1>1, <2>2, <2>3, <2>4
  <1>4. CASE k \in {2, 3, 4}
    BY <1>1, <1>4 DEF ValueOf, TopOf, ReloadOf, OvfOf
  <1> QED BY <1>2, <1>3, <1>4

(* Each pulse of the five loops counts.                                    *)
LEMMA PulseCounts ==
  ASSUME NEW k \in 0 .. 4, NEW c \in CountType
  PROVE  Counted(k, c, Pulse(k, c))
  <1> USE TimerAssumption
  <1> DEFINE l == Inc(c.tl)
             h == Inc(c.th)
             d == Pulse(k, c)
  <1>1. /\ c.tl \in Bytes /\ c.th \in Bytes /\ c.ovf \in Nat /\ c.ovfh \in Nat
        /\ c.tl \in Nat /\ c.th \in Nat /\ c.tl < Byte /\ c.th < Byte
        /\ Byte \in Nat /\ Pre \in Nat /\ Byte > 1 /\ Pre > 1 /\ 0 \in Bytes
    BY DEF CountType, Bytes
  <1>2. /\ l \in Bytes /\ l \in Nat /\ l = (IF c.tl = Byte - 1 THEN 0 ELSE c.tl + 1)
        /\ h \in Bytes /\ h \in Nat /\ h = (IF c.th = Byte - 1 THEN 0 ELSE c.th + 1)
    BY <1>1, IncIs DEF Bytes
  <1>3. CASE k = 0
    <2>1. d = IF l % Pre # 0 THEN [c EXCEPT !.tl = l]
              ELSE [c EXCEPT !.tl = 0, !.th = h,
                             !.ovf = IF h = 0 THEN @ + 1 ELSE @]
      BY <1>3 DEF Pulse, Pulse0, CountType
    <2> DEFINE r == c.tl % Pre
               s == l % Pre
    <2>2. r \in 0 .. Pre - 1 /\ s = IF r = Pre - 1 THEN 0 ELSE r + 1
      BY <1>1, PreIs
    <2>3. 0 % Pre = 0
      BY <1>1
    <2>4. /\ c.th * Pre \in Nat /\ (c.th + 1) * Pre = c.th * Pre + Pre
          /\ Byte * Pre \in Nat /\ 0 * Pre = 0
      BY <1>1, Products
    <2>5. TopOf(k) = Byte * Pre /\ ReloadOf(k, c) = 0
      BY <1>3 DEF TopOf, ReloadOf
    <2>6. ValueOf(k, c) = c.th * Pre + r /\ OvfOf(k, c) = c.ovf
      BY <1>3 DEF ValueOf, OvfOf
    <2>7. ValueOf(k, d) = d.th * Pre + (d.tl % Pre) /\ OvfOf(k, d) = d.ovf
      BY <1>3 DEF ValueOf, OvfOf
    <2>8. Aside(k, c, d) <=> d.ovfh = c.ovfh
      BY <1>3 DEF Aside
    <2>9. CASE s # 0
      <3>1. /\ d \in CountType /\ d.tl = l /\ d.th = c.th
            /\ d.ovf = c.ovf /\ d.ovfh = c.ovfh
        BY <1>1, <1>2, <2>1, <2>9 DEF CountType
      <3> HIDE DEF d, l, h
      <3>2. ValueOf(k, d) = c.th * Pre + s
        BY <2>7, <3>1
      <3> HIDE DEF r, s
      <3>3. ValueOf(k, d) = ValueOf(k, c) + 1
        BY <2>2, <2>4, <2>6, <2>9, <3>2
      <3> QED BY <2>6, <2>7, <2>8, <3>1, <3>3 DEF Counted, d
    <2>10. CASE s = 0
      <3> DEFINE o == IF h = 0 THEN c.ovf + 1 ELSE c.ovf
      <3>0. o \in Nat /\ d = [c EXCEPT !.tl = 0, !.th = h, !.ovf = o]
        BY <1>1, <2>1, <2>10 DEF CountType
      <3> HIDE DEF d, l, o
      <3>1. d \in CountType /\ d.tl = 0 /\ d.th = h /\ d.ovf = o /\ d.ovfh = c.ovfh
        BY <1>1, <1>2, <3>0 DEF CountType
      <3>2. ValueOf(k, d) = h * Pre
        <4>1. ValueOf(k, d) = h * Pre + (0 % Pre)
          BY <2>7, <3>1
        <4>2. h * Pre \in Nat
          BY <1>1, <1>2
        <4> QED BY <2>3, <4>1, <4>2
      <3> HIDE DEF r, s, h
      <3>3. r = Pre - 1
        BY <2>2, <2>10, <1>1
      <3>4. CASE c.th = Byte - 1
        <4>1. h = 0 /\ c.th + 1 = Byte
          BY <1>1, <1>2, <3>4
        <4>2. ValueOf(k, c) + 1 = TopOf(k) /\ ValueOf(k, d) = ReloadOf(k, c)
          BY <1>1, <2>4, <2>5, <2>6, <3>2, <3>3, <4>1
        <4> QED BY <2>6, <2>7, <2>8, <3>1, <4>1, <4>2 DEF Counted, d, o
      <3>5. CASE c.th # Byte - 1
        <4>1. h = c.th + 1 /\ h # 0
          BY <1>1, <1>2, <3>5
        <4>2. ValueOf(k, d) = ValueOf(k, c) + 1
          BY <1>1, <2>4, <2>6, <3>2, <3>3, <4>1
        <4> QED BY <2>6, <2>7, <2>8, <3>1, <4>1, <4>2 DEF Counted, d, o
      <3> QED BY <3>4, <3>5
    <2> QED BY <2>9, <2>10
  <1>4. CASE k = 1
    <2>1. d = IF l # 0 THEN [c EXCEPT !.tl = l]
              ELSE [c EXCEPT !.tl = 0, !.th = h,
                             !.ovf = IF h = 0 THEN @ + 1 ELSE @]
      BY <1>4 DEF Pulse, Pulse1, CountType
    <2>4. /\ c.th * Byte \in Nat /\ (c.th + 1) * Byte = c.th * Byte + Byte
          /\ Byte * Byte \in Nat /\ 0 * Byte = 0
      BY <1>1, Products
    <2>5. TopOf(k) = Byte * Byte /\ ReloadOf(k, c) = 0
      BY <1>4 DEF TopOf, ReloadOf
    <2>6. ValueOf(k, c) = c.th * Byte + c.tl /\ OvfOf(k, c) = c.ovf
      BY <1>4 DEF ValueOf, OvfOf
    <2>7. ValueOf(k, d) = d.th * Byte + d.tl /\ OvfOf(k, d) = d.ovf
      BY <1>4 DEF ValueOf, OvfOf
    <2>8. Aside(k, c, d) <=> d.ovfh = c.ovfh
      BY <1>4 DEF Aside
    <2>9. CASE l # 0
      <3>1. /\ d \in CountType /\ d.tl = l /\ d.th = c.th
            /\ d.ovf = c.ovf /\ d.ovfh = c.ovfh
        BY <1>1, <1>2, <2>1, <2>9 DEF CountType
      <3> HIDE DEF d, l, h
      <3>3. ValueOf(k, d) = ValueOf(k, c) + 1
        BY <1>1, <1>2, <2>4, <2>6, <2>7, <2>9, <3>1
      <3> QED BY <2>6, <2>7, <2>8, <3>1, <3>3 DEF Counted, d
    <2>10. CASE l = 0
      <3> DEFINE o == IF h = 0 THEN c.ovf + 1 ELSE c.ovf
      <3>0. o \in Nat /\ d = [c EXCEPT !.tl = 0, !.th = h, !.ovf = o]
        BY <1>1, <2>1, <2>10 DEF CountType
      <3> HIDE DEF d, l, o
      <3>1. d \in CountType /\ d.tl = 0 /\ d.th = h /\ d.ovf = o /\ d.ovfh = c.ovfh
        BY <1>1, <1>2, <3>0 DEF CountType
      <3>2. ValueOf(k, d) = h * Byte
        BY <1>1, <1>2, <2>7, <3>1
      <3> HIDE DEF h
      <3>3. c.tl = Byte - 1
        BY <1>1, <1>2, <2>10
      <3>4. CASE c.th = Byte - 1
        <4>1. h = 0 /\ c.th + 1 = Byte
          BY <1>1, <1>2, <3>4
        <4>2. ValueOf(k, c) + 1 = TopOf(k) /\ ValueOf(k, d) = ReloadOf(k, c)
          BY <1>1, <2>4, <2>5, <2>6, <3>2, <3>3, <4>1
        <4> QED BY <2>6, <2>7, <2>8, <3>1, <4>1, <4>2 DEF Counted, d, o
      <3>5. CASE c.th # Byte - 1
        <4>1. h = c.th + 1 /\ h # 0
          BY <1>1, <1>2, <3>5
        <4>2. ValueOf(k, d) = ValueOf(k, c) + 1
          BY <1>1, <2>4, <2>6, <3>2, <3>3, <4>1
        <4> QED BY <2>6, <2>7, <2>8, <3>1, <4>1, <4>2 DEF Counted, d, o
      <3> QED BY <3>4, <3>5
    <2> QED BY <2>9, <2>10
  <1>5. CASE k = 2
    <2>1. d = IF l # 0 THEN [c EXCEPT !.tl = l]
              ELSE [c EXCEPT !.tl = c.th, !.ovf = @ + 1]
      BY <1>5 DEF Pulse, Pulse2, CountType
    <2>2. /\ d \in CountType /\ d.th = c.th /\ d.ovfh = c.ovfh
          /\ l # 0 => d.tl = l /\ d.ovf = c.ovf
          /\ l = 0 => d.tl = c.th /\ d.ovf = c.ovf + 1
      <3>1. CASE l # 0
        BY <1>1, <1>2, <2>1, <3>1 DEF CountType
      <3>2. CASE l = 0
        <4> DEFINE o == c.ovf + 1
                   b == c.th
        <4>1. b \in Bytes /\ o \in Nat /\ d = [c EXCEPT !.tl = b, !.ovf = o]
          BY <1>1, <2>1, <3>2 DEF CountType
        <4> HIDE DEF d, l, o, b
        <4>2. d \in CountType /\ d.th = c.th /\ d.ovfh = c.ovfh /\ d.tl = b /\ d.ovf = o
          BY <1>1, <4>1 DEF CountType
        <4> QED BY <3>2, <4>2 DEF o, b
      <3> QED BY <3>1, <3>2
    <2> HIDE DEF d, l, h
    <2> QED BY <1>1, <1>2, <1>5, <2>2
            DEF Counted, Aside, ValueOf, TopOf, ReloadOf, OvfOf, d
  <1>6. CASE k = 3
    <2> DEFINE o == IF l = 0 THEN c.ovf + 1 ELSE c.ovf
    <2>1. o \in Nat /\ d = [c EXCEPT !.tl = l, !.ovf = o]
      BY <1>1, <1>6 DEF Pulse, Pulse3, CountType
    <2> HIDE DEF d, l, h, o
    <2>2. d \in CountType /\ d.th = c.th /\ d.ovfh = c.ovfh /\ d.tl = l /\ d.ovf = o
      BY <1>1, <1>2, <2>1 DEF CountType
    <2> QED BY <1>1, <1>2, <1>6, <2>2
            DEF Counted, Aside, ValueOf, TopOf, ReloadOf, OvfOf, d, o
  <1>7. CASE k = 4
    <2> DEFINE o == IF h = 0 THEN c.ovfh + 1 ELSE c.ovfh
    <2>1. o \in Nat /\ d = [c EXCEPT !.th = h, !.ovfh = o]
      BY <1>1, <1>7 DEF Pulse, PulseTH, CountType
    <2> HIDE DEF d, l, h, o
    <2>2. d \in CountType /\ d.tl = c.tl /\ d.ovf = c.ovf /\ d.th = h /\ d.ovfh = o
      BY <1>1, <1>2, <2>1 DEF CountType
    <2> QED BY <1>1, <1>2, <1>7, <2>2
            DEF Counted, Aside, ValueOf, TopOf, ReloadOf, OvfOf, d, o
  <1> QED BY <1>3, <1>4, <1>5, <1>6, <1>7
-----------------------------------------------------------------------------
(* After i pulses of a loop that starts at c: the pulses are in the count  *)
(* or in the overflows, and a loop that overflowed is past the reload      *)
(* value.                                                                  *)
Counts(k, c, i, d) ==
  /\ d \in CountType /\ Aside(k, c, d)
  /\ ValueOf(k, c) + i = ValueOf(k, d) + OvfOf(k, d) * (TopOf(k) - ReloadOf(k, c))
  /\ OvfOf(k, d) > 0 => ReloadOf(k, c) <= ValueOf(k, d)

(* One pulse more keeps that.                                              *)
LEMMA OneMore ==
  ASSUME NEW k \in 0 .. 4, NEW c \in CountType, NEW i \in Nat, NEW d, NEW e,
         Counts(k, c, i, d), Counted(k, d, e)
  PROVE  Counts(k, c, i + 1, e)
  <1>1. d \in CountType /\ e \in CountType /\ Aside(k, c, d) /\ Aside(k, d, e)
    BY DEF Counts, Counted
  <1>2. ReloadOf(k, d) = ReloadOf(k, c)
    BY <1>1 DEF ReloadOf, Aside
  <1>3. Aside(k, c, e)
    BY <1>1 DEF Aside
  <1> DEFINE V == ValueOf(k, c)
             R == ReloadOf(k, c)
             T == TopOf(k)
             x == ValueOf(k, d)
             y == ValueOf(k, e)
             o == OvfOf(k, d)
             p == OvfOf(k, e)
             w == T - R
  <1>4. V \in Nat /\ R \in Nat /\ T \in Nat /\ R < T
    BY ValueBelowTop
  <1>5. x \in Nat /\ o \in Nat
    BY <1>1, ValueBelowTop
  <1>6. y \in Nat /\ p \in Nat
    BY <1>1, ValueBelowTop
  <1>7. V + i = x + o * w /\ (o > 0 => R <= x)
    BY DEF Counts
  <1>8. (y = x + 1 /\ p = o) \/ (x + 1 = T /\ y = R /\ p = o + 1)
    BY <1>2 DEF Counted
  <1>9. SUFFICES V + (i + 1) = y + p * w /\ (p > 0 => R <= y)
    BY <1>1, <1>3 DEF Counts
  <1>10. w \in Nat /\ w = T - R
    BY <1>4
  <1> HIDE DEF V, R, T, x, y, o, p, w
  <1>11. o * w \in Nat /\ (o + 1) * w = o * w + w
    BY <1>5, <1>10, Products
  <1>12. CASE y = x + 1 /\ p = o
    BY <1>4, <1>5, <1>7, <1>11, <1>12
  <1>13. CASE x + 1 = T /\ y = R /\ p = o + 1
    BY <1>4, <1>5, <1>7, <1>10, <1>11, <1>13
  <1> QED BY <1>8, <1>12, <1>13

(* So a run counts all its pulses.                                         *)
LEMMA RunCounts ==
  ASSUME NEW k \in 0 .. 4, NEW c \in CountType, OvfOf(k, c) = 0,
         NEW n \in Nat, NEW f, Follows(f, k, c, n)
  PROVE  Counts(k, c, n, f[n])
  <1> DEFINE S == {i \in Nat : i <= n => Counts(k, c, i, f[i])}
  <1>1. 0 \in S
    <2>1. f[0] = c
      BY DEF Follows
    <2>2. ValueOf(k, c) \in Nat /\ TopOf(k) - ReloadOf(k, c) \in Int
      BY ValueBelowTop
    <2> DEFINE w == TopOf(k) - ReloadOf(k, c)
    <2> HIDE DEF w
    <2>3. ValueOf(k, c) + 0 = ValueOf(k, c) + OvfOf(k, c) * w
      BY <2>2 DEF w
    <2>4. Counts(k, c, 0, c)
      BY <2>3 DEF Counts, Aside, w
    <2> QED BY <2>1, <2>4
  <1>2. ASSUME NEW i \in Nat, i \in S PROVE i + 1 \in S
    <2> SUFFICES ASSUME i + 1 <= n PROVE Counts(k, c, i + 1, f[i + 1])
      OBVIOUS
    <2>1. Counts(k, c, i, f[i])
      BY <1>2
    <2>2. i + 1 \in 0 .. n /\ i + 1 # 0 /\ (i + 1) - 1 = i
      OBVIOUS
    <2>3. f[i + 1] = Pulse(k, f[i])
      <3>1. f[i + 1] = Pulse(k, f[(i + 1) - 1])
        BY <2>2 DEF Follows
      <3> QED BY <2>2, <3>1
    <2>4. f[i] \in CountType
      BY <2>1 DEF Counts
    <2>5. Counted(k, f[i], f[i + 1])
      BY <2>3, <2>4, PulseCounts
    <2> HIDE DEF S
    <2> QED BY <2>1, <2>5, OneMore
  <1>3. n \in S
    <2> HIDE DEF S
    <2> QED BY <1>1, <1>2, Induct
  <1> QED BY <1>3

(* and so does each loop.                                                  *)
LEMMA LoopsCount ==
  ASSUME NEW c \in CountType, NEW n \in Nat
  PROVE  /\ c.ovf = 0 => /\ Counts(0, c, n, Pulses(Pulse0, c, n))
                         /\ Counts(1, c, n, Pulses(Pulse1, c, n))
                         /\ Counts(2, c, n, Pulses(Pulse2, c, n))
                         /\ Counts(3, c, n, Pulses(Pulse3, c, n))
         /\ c.ovfh = 0 => Counts(4, c, n, Pulses(PulseTH, c, n))
  <1>1. \A k \in 0 .. 3 : OvfOf(k, c) = c.ovf
    BY DEF OvfOf
  <1>2. OvfOf(4, c) = c.ovfh
    BY DEF OvfOf
  <1>3. \A k \in 0 .. 4 : OvfOf(k, c) = 0
           => \A f : Follows(f, k, c, n) => Counts(k, c, n, f[n])
    BY RunCounts
  <1>4. ASSUME c.ovf = 0 PROVE Counts(0, c, n, Pulses(Pulse0, c, n))
    BY <1>1, <1>3, <1>4, LoopsRun
  <1>5. ASSUME c.ovf = 0 PROVE Counts(1, c, n, Pulses(Pulse1, c, n))
    BY <1>1, <1>3, <1>5, LoopsRun
  <1>6. ASSUME c.ovf = 0 PROVE Counts(2, c, n, Pulses(Pulse2, c, n))
    BY <1>1, <1>3, <1>6, LoopsRun
  <1>7. ASSUME c.ovf = 0 PROVE Counts(3, c, n, Pulses(Pulse3, c, n))
    BY <1>1, <1>3, <1>7, LoopsRun
  <1>8. ASSUME c.ovfh = 0 PROVE Counts(4, c, n, Pulses(PulseTH, c, n))
    BY <1>2, <1>3, <1>8, LoopsRun
  <1> QED BY <1>4, <1>5, <1>6, <1>7, <1>8
-----------------------------------------------------------------------------
(* The closed form of PulseCounter.                                        *)
AfterOf(v, t, r, n) ==
  IF v + n - t < 0 THEN v + n ELSE r + ((v + n - t) % (t - r))

OverflowsOf(v, t, r, n) ==
  IF v + n - t < 0 THEN 0 ELSE 1 + ((v + n - t) \div (t - r))

(* The count and the overflows are determined by their sum.                *)
LEMMA Closed ==
  ASSUME NEW v \in Nat, NEW t \in Nat, NEW r \in Nat, NEW n \in Nat,
         NEW x \in Nat, NEW o \in Nat, v < t, r < t, x < t,
         v + n = x + o * (t - r), o > 0 => r <= x
  PROVE  x = AfterOf(v, t, r, n) /\ o = OverflowsOf(v, t, r, n)
  <1> DEFINE w == t - r
             a == v + n - t
  <1>1. w \in Nat \ {0} /\ w = t - r /\ v + n = x + o * w
    OBVIOUS
  <1>2. a \in Int /\ a = v + n - t
    OBVIOUS
  <1>3. CASE o = 0
    <2>1. o * w = 0
      BY <1>3
    <2> HIDE DEF w, a
    <2>2. v + n = x
      BY <1>1, <2>1
    <2> QED BY <1>3, <2>2 DEF AfterOf, OverflowsOf
  <1>4. CASE o > 0
    <2> DEFINE q == o - 1
               s == x - r
    <2>1. q \in Nat /\ s \in Nat /\ s < w /\ o = q + 1
      BY <1>4
    <2> HIDE DEF w, a, q
    <2>2. o * w = q * w + w /\ q * w \in Nat
      BY <1>1, <2>1, Products
    <2>3. a = q * w + s /\ a \in Nat
      BY <1>1, <1>2, <2>1, <2>2
    <2> HIDE DEF s
    <2>4. a \div w = q /\ a % w = s
      BY <1>1, <2>1, <2>3, Divide
    <2>5. ~(a < 0) /\ x = r + s /\ o = 1 + q
      BY <2>1, <2>3 DEF s
    <2> QED BY <1>1, <1>2, <2>4, <2>5 DEF AfterOf, OverflowsOf, w, a
  <1> QED BY <1>3, <1>4
-----------------------------------------------------------------------------
(* The timer in a step.                                                    *)

\* A value that is not a mode counts as mode 3, whose count is TL.
Kind == IF cfg.mode = 4 THEN 3 ELSE cfg.mode

LastType == [n : Int, ovf : Nat, nh : Int, ovfh : Nat]

IInv == TypeOK /\ last \in LastType

(* What the registers hold is a count of its kind.                         *)
LEMMA NowCounts ==
  ASSUME TypeOK
  PROVE  /\ Kind \in 0 .. 3 /\ Now \in CountType
         /\ Value = ValueOf(Kind, Now) /\ Top = TopOf(Kind)
         /\ (IF cfg.mode = 2 THEN th ELSE 0) = ReloadOf(Kind, Now)
         /\ th = ValueOf(4, Now) /\ TopOf(4) = Byte /\ ReloadOf(4, Now) = 0
  <1>1. cfg.mode \in 0 .. 4 /\ tl \in Bytes /\ th \in Bytes
    BY DEF TypeOK, Members
  <1> QED BY <1>1 DEF Kind, Now, CountType, Value, Top, ValueOf, TopOf, ReloadOf

(* In every state the counts are in range.                                 *)
LEMMA RangeOK == TypeOK => Main!InRange /\ Half!InRange
  <1> SUFFICES ASSUME TypeOK PROVE Main!InRange /\ Half!InRange
    OBVIOUS
  <1>1. /\ ValueOf(Kind, Now) < TopOf(Kind) /\ ReloadOf(Kind, Now) < TopOf(Kind)
    BY NowCounts, ValueBelowTop
  <1>2. ValueOf(4, Now) < TopOf(4) /\ ReloadOf(4, Now) < TopOf(4)
    BY NowCounts, ValueBelowTop
  <1> QED BY <1>1, <1>2, NowCounts DEF Main!InRange, Half!InRange

(* The pulses of a tick, and none when mode is not a mode.                 *)
LEMMA FedIs ==
  ASSUME TypeOK, NEW cycles \in 1 .. MaxCycles
  PROVE  /\ Fed(cycles) \in Nat /\ FedTH(cycles) \in Nat
         /\ cfg.mode = 4 => Fed(cycles) = 0
  BY TimerAssumption DEF TypeOK, Fed, FedTH, Counting

(* What do_mode0 to do_mode3 compute: the count of the mode, and that of   *)
(* TH in mode 3.                                                           *)
Ended(c, n, nh) ==
  /\ c \in CountType
  /\ ValueOf(Kind, c)
       = AfterOf(ValueOf(Kind, Now), TopOf(Kind), ReloadOf(Kind, Now), n)
  /\ c.ovf = OverflowsOf(ValueOf(Kind, Now), TopOf(Kind), ReloadOf(Kind, Now), n)
  /\ Kind = 2 => c.th = th
  /\ cfg.mode = 3 => /\ c.th = AfterOf(th, Byte, 0, nh)
                     /\ c.ovfh = OverflowsOf(th, Byte, 0, nh)

(* The steps of each mode count the pulses.                                *)
LEMMA ModeCounts ==
  ASSUME TypeOK, NEW n \in Nat, NEW nh \in Nat, cfg.mode = 4 => n = 0
  PROVE  Ended(do_mode(n, nh), n, nh)
  <1> DEFINE c == do_mode(n, nh)
  <1> USE NowCounts
  <1>1. Now.ovf = 0 /\ Now.ovfh = 0 /\ Now.th = th
    BY DEF Now
  <1>2. ASSUME NEW k \in 0 .. 4, NEW b \in CountType, NEW m \in Nat, NEW d,
               Counts(k, b, m, d)
        PROVE  /\ ValueOf(k, d) = AfterOf(ValueOf(k, b), TopOf(k), ReloadOf(k, b), m)
               /\ OvfOf(k, d) = OverflowsOf(ValueOf(k, b), TopOf(k), ReloadOf(k, b), m)
    <2>1. /\ d \in CountType
          /\ ValueOf(k, b) + m
                = ValueOf(k, d) + OvfOf(k, d) * (TopOf(k) - ReloadOf(k, b))
          /\ OvfOf(k, d) > 0 => ReloadOf(k, b) <= ValueOf(k, d)
      BY <1>2 DEF Counts
    <2>2. /\ ValueOf(k, b) \in Nat /\ TopOf(k) \in Nat /\ ReloadOf(k, b) \in Nat
          /\ ValueOf(k, b) < TopOf(k) /\ ReloadOf(k, b) < TopOf(k)
      BY ValueBelowTop
    <2>3. ValueOf(k, d) \in Nat /\ ValueOf(k, d) < TopOf(k) /\ OvfOf(k, d) \in Nat
      BY <2>1, ValueBelowTop
    <2> DEFINE v == ValueOf(k, b)
               t == TopOf(k)
               r == ReloadOf(k, b)
               x == ValueOf(k, d)
               o == OvfOf(k, d)
    <2>4. /\ v \in Nat /\ t \in Nat /\ r \in Nat /\ x \in Nat /\ o \in Nat
          /\ v < t /\ r < t /\ x < t /\ v + m = x + o * (t - r) /\ (o > 0 => r <= x)
      BY <2>1, <2>2, <2>3
    <2> HIDE DEF v, t, r, x, o
    <2>5. x = AfterOf(v, t, r, m) /\ o = OverflowsOf(v, t, r, m)
      BY <2>4, Closed
    <2> QED BY <2>5 DEF v, t, r, x, o
  <1>3. ASSUME NEW k \in 0 .. 2, cfg.mode = k, Counts(k, Now, n, c)
        PROVE  Ended(c, n, nh)
    <2> HIDE DEF c
    <2>1. c \in CountType /\ Kind = k /\ OvfOf(k, c) = c.ovf /\ cfg.mode # 3
      BY <1>3 DEF Counts, Kind, OvfOf
    <2>2. k = 2 => c.th = th
      BY <1>1, <1>3 DEF Counts, Aside
    <2>3. k \in 0 .. 4
      BY <1>3
    <2>4. /\ ValueOf(k, c) = AfterOf(ValueOf(k, Now), TopOf(k), ReloadOf(k, Now), n)
          /\ OvfOf(k, c) = OverflowsOf(ValueOf(k, Now), TopOf(k), ReloadOf(k, Now), n)
      BY <1>2, <1>3, <2>3
    <2> QED BY <2>1, <2>2, <2>4 DEF Ended
  <1>4. CASE cfg.mode = 0
    <2>1. c = Pulses(Pulse0, Now, n)
      BY <1>4 DEF do_mode
    <2>2. Counts(0, Now, n, c)
      BY <1>1, <2>1, LoopsCount
    <2> HIDE DEF c
    <2> QED BY <1>3, <1>4, <2>2 DEF c
  <1>5. CASE cfg.mode = 1
    <2>1. c = Pulses(Pulse1, Now, n)
      BY <1>5 DEF do_mode
    <2>2. Counts(1, Now, n, c)
      BY <1>1, <2>1, LoopsCount
    <2> HIDE DEF c
    <2> QED BY <1>3, <1>5, <2>2 DEF c
  <1>6. CASE cfg.mode = 2
    <2>1. c = Pulses(Pulse2, Now, n)
      BY <1>6 DEF do_mode
    <2>2. Counts(2, Now, n, c)
      BY <1>1, <2>1, LoopsCount
    <2> HIDE DEF c
    <2> QED BY <1>3, <1>6, <2>2 DEF c
  <1>7. CASE cfg.mode = 3
    <2> DEFINE b == Pulses(Pulse3, Now, n)
    <2>1. c = Pulses(PulseTH, b, nh)
      BY <1>7 DEF do_mode
    <2>2. Counts(3, Now, n, b)
      BY <1>1, LoopsCount
    <2> HIDE DEF b, c
    <2>3. b \in CountType /\ b.th = th /\ b.ovfh = 0
      BY <1>1, <2>2 DEF Counts, Aside
    <2>4. Counts(4, b, nh, c)
      BY <2>1, <2>3, LoopsCount
    <2>5. c \in CountType /\ c.tl = b.tl /\ c.ovf = b.ovf
      BY <2>4 DEF Counts, Aside
    <2>6. /\ ValueOf(3, b) = AfterOf(ValueOf(3, Now), TopOf(3), ReloadOf(3, Now), n)
          /\ OvfOf(3, b) = OverflowsOf(ValueOf(3, Now), TopOf(3), ReloadOf(3, Now), n)
      BY <1>2, <2>2
    <2>7. /\ ValueOf(4, c) = AfterOf(ValueOf(4, b), TopOf(4), ReloadOf(4, b), nh)
          /\ OvfOf(4, c) = OverflowsOf(ValueOf(4, b), TopOf(4), ReloadOf(4, b), nh)
      BY <1>2, <2>3, <2>4
    <2>8. Kind = 3 /\ ValueOf(3, c) = ValueOf(3, b) /\ OvfOf(3, b) = c.ovf
      BY <1>7, <2>5 DEF Kind, ValueOf, OvfOf
    <2>9. /\ ValueOf(4, b) = th /\ TopOf(4) = Byte /\ ReloadOf(4, b) = 0
          /\ ValueOf(4, c) = c.th /\ OvfOf(4, c) = c.ovfh
      BY <2>3 DEF ValueOf, TopOf, ReloadOf, OvfOf
    <2>10. Ended(c, n, nh)
      BY <1>7, <2>5, <2>6, <2>7, <2>8, <2>9 DEF Ended
    <2> QED BY <2>10 DEF c
  <1>8. CASE cfg.mode = 4
    <2>1. c = Now /\ n = 0 /\ Kind = 3
      BY <1>8 DEF do_mode, Kind
    <2>2. ValueOf(3, Now) \in Nat /\ TopOf(3) \in Nat /\ ValueOf(3, Now) < TopOf(3)
      BY ValueBelowTop
    <2>3. /\ AfterOf(ValueOf(3, Now), TopOf(3), ReloadOf(3, Now), 0) = ValueOf(3, Now)
          /\ OverflowsOf(ValueOf(3, Now), TopOf(3), ReloadOf(3, Now), 0) = 0
      BY <2>2 DEF AfterOf, OverflowsOf
    <2> QED BY <1>1, <1>8, <2>1, <2>3 DEF Ended
  <1>9. cfg.mode \in 0 .. 4
    BY DEF TypeOK, Members
  <1> QED BY <1>4, <1>5, <1>6, <1>7, <1>8, <1>9

(* A tick is a step of both counters and keeps the types.                  *)
LEMMA TickStep ==
  ASSUME IInv, NEW cycles \in 1 .. MaxCycles, Tick(cycles)
  PROVE  IInv' /\ Main!Count /\ (Half!Count \/ Half!Load)
  <1> DEFINE n  == Fed(cycles)
             nh == FedTH(cycles)
             c  == do_mode(n, nh)
  <1>1. TypeOK /\ last \in LastType
    BY DEF IInv
  <1>2. n \in Nat /\ nh \in Nat /\ Ended(c, n, nh)
    BY <1>1, FedIs, ModeCounts
  <1>3. /\ tl' = c.tl /\ th' = c.th
        /\ TF' = TF \cup (IF c.ovf > 0 THEN {id} ELSE {})
                    \cup (IF c.ovfh > 0 THEN {1} ELSE {})
        /\ T_edge' = (IF Counting /\ cfg.C_T THEN 0 ELSE T_edge)
        /\ last' = [n |-> n, ovf |-> c.ovf, nh |-> nh, ovfh |-> c.ovfh]
        /\ UNCHANGED <<id, tmod, cfg, TR, high>>
    BY DEF Tick
  <1> HIDE DEF n, nh, c
  <1>4. c \in CountType /\ c.tl \in Bytes /\ c.th \in Bytes /\ c.ovf \in Nat /\ c.ovfh \in Nat
    BY <1>2 DEF Ended, CountType
  <1>5. last' \in LastType
    BY <1>2, <1>3, <1>4 DEF LastType
  <1>6. TypeOK'
    <2>1. T_edge' \in 0 .. MaxEdges
      BY <1>1, <1>3, TimerAssumption DEF TypeOK
    <2>2. TF' \subseteq Ids
      BY <1>1, <1>3 DEF TypeOK, Ids
    <2>3. /\ last'.n \in Int /\ last'.ovf \in Nat /\ last'.nh \in Int
          /\ last'.ovfh \in Nat
      BY <1>5 DEF LastType
    <2> QED BY <1>1, <1>3, <1>4, <2>1, <2>2, <2>3 DEF TypeOK
  <1>7. last'.n = n /\ last'.ovf = c.ovf /\ last'.nh = nh /\ last'.ovfh = c.ovfh
    BY <1>3
  <1>8. Main!Count
    <2>1. Value' = ValueOf(Kind, c)
      BY <1>1, <1>3, NowCounts DEF Value, ValueOf, Kind, TypeOK, Members
    <2>2. Top' = Top
      BY <1>3 DEF Top
    <2>3. (IF cfg'.mode = 2 THEN th' ELSE 0) = (IF cfg.mode = 2 THEN th ELSE 0)
      BY <1>2, <1>3 DEF Ended, Kind
    <2>4. Value' = AfterOf(Value, Top, IF cfg.mode = 2 THEN th ELSE 0, n)
      BY <1>1, <1>2, <2>1, NowCounts DEF Ended
    <2>5. c.ovf = OverflowsOf(Value, Top, IF cfg.mode = 2 THEN th ELSE 0, n)
      BY <1>1, <1>2, NowCounts DEF Ended
    <2> QED BY <1>2, <1>7, <2>2, <2>3, <2>4, <2>5
            DEF Main!Count, Main!After, Main!Overflows, Main!Excess,
                AfterOf, OverflowsOf
  <1>9. CASE cfg.mode = 3
    <2>1. cfg'.mode = 3 /\ th' = AfterOf(th, Byte, 0, nh) /\ c.ovfh = OverflowsOf(th, Byte, 0, nh)
      BY <1>2, <1>3, <1>9 DEF Ended
    <2>2. Half!Count
      BY <1>2, <1>7, <1>9, <2>1
         DEF Half!Count, Half!After, Half!Overflows, Half!Excess,
             AfterOf, OverflowsOf
    <2> QED BY <1>5, <1>6, <1>8, <2>2 DEF IInv
  <1>10. CASE cfg.mode # 3
    <2>1. cfg'.mode # 3 /\ th' < Byte /\ 0 < Byte
      BY <1>3, <1>4, <1>10, TimerAssumption DEF Bytes
    <2>2. Half!Load
      BY <2>1 DEF Half!Load, Half!InRange
    <2> QED BY <1>5, <1>6, <1>8, <2>2 DEF IInv
  <1> QED BY <1>9, <1>10

(* A step that writes registers, moves a line or clears a request loads    *)
(* both counters.                                                          *)
LEMMA WriteStep ==
  ASSUME IInv, Next, ~\E c \in 1 .. MaxCycles : Tick(c)
  PROVE  IInv' /\ Written
  <1> USE TimerAssumption DEF IInv
  <1>1. Written => /\ last' \in LastType /\ last'.n \in Int /\ last'.ovf \in Nat
                   /\ last'.nh \in Int /\ last'.ovfh \in Nat
    BY DEF Written, LastType
  <1>2. ASSUME NEW v \in Tmod, WriteTmod(v) PROVE IInv' /\ Written
    <2>1. v \in Members
      BY DEF Tmod, Members
    <2> QED BY <1>1, <1>2, <2>1 DEF WriteTmod, TypeOK
  <1>3. ASSUME NEW r \in SUBSET Ids, NEW f \in SUBSET Ids, WriteTcon(r, f)
        PROVE  IInv' /\ Written
    BY <1>1, <1>3 DEF WriteTcon, TypeOK
  <1>4. ASSUME NEW b \in Bytes, WriteTL(b) \/ WriteTH(b) PROVE IInv' /\ Written
    BY <1>1, <1>4 DEF WriteTL, WriteTH, TypeOK, regs
  <1>5. ASSUME NEW new \in SUBSET Lines, Port3(new) PROVE IInv' /\ Written
    BY <1>1, <1>5 DEF Port3, TypeOK, regs
  <1>6. ASSUME NEW t \in Ids, Accept(t) PROVE IInv' /\ Written
    BY <1>1, <1>6 DEF Accept, TypeOK, regs
  <1>7. ASSUME OtherOverflow PROVE IInv' /\ Written
    BY <1>1, <1>7 DEF OtherOverflow, TypeOK, regs, Ids
  <1>8. ASSUME Reset PROVE IInv' /\ Written
    <2>1. Zero \in Tmod /\ 0 \in Bytes
      BY DEF Zero, Tmod, Bytes
    <2> QED BY <1>1, <1>8, <2>1 DEF Reset, TypeOK
  <1> QED BY <1>2, <1>3, <1>4, <1>5, <1>6, <1>7, <1>8 DEF Next

(* Timer 0 and timer 1 implement PulseCounter, and TH in mode 3 does: in   *)
(* every mode the loops of do_mode0 to do_mode3 count all the pulses of a  *)
(* tick and report all the overflows, whatever the widths, the pulses, the *)
(* reload value and the order of writes, edges and ticks.                  *)
THEOREM TimerCounts == Spec => CountsPulses
  <1>1. Init => IInv /\ Main!Init /\ Half!Init
    <2> SUFFICES ASSUME Init PROVE IInv /\ Main!Init /\ Half!Init
      OBVIOUS
    <2>1. Zero \in Tmod /\ 0 \in Bytes
      BY TimerAssumption DEF Zero, Tmod, Bytes
    <2>2. IInv
      BY <2>1, TimerAssumption DEF Init, IInv, TypeOK, LastType
    <2>3. Main!InRange /\ Half!InRange
      BY <2>2, RangeOK DEF IInv
    <2> QED BY <2>2, <2>3 DEF Init, Main!Init, Half!Init
  <1>2. TypeOK' => Main!InRange' /\ Half!InRange'
    BY RangeOK, PTL
  <1>3. IInv /\ [Next]_vars
          => /\ IInv' /\ [Main!Count \/ Main!Load]_(Main!counter)
             /\ [Half!Count \/ Half!Load]_(Half!counter)
    <2> SUFFICES ASSUME IInv, [Next]_vars
                 PROVE  /\ IInv' /\ [Main!Count \/ Main!Load]_(Main!counter)
                        /\ [Half!Count \/ Half!Load]_(Half!counter)
      OBVIOUS
    <2>1. CASE \E c \in 1 .. MaxCycles : Tick(c)
      BY <2>1, TickStep
    <2>2. CASE Next /\ ~\E c \in 1 .. MaxCycles : Tick(c)
      <3>1. IInv' /\ Written
        BY <2>2, WriteStep
      <3>2. last'.n = -1 /\ last'.ovf = 0 /\ last'.nh = -1 /\ last'.ovfh = 0
        BY <3>1 DEF Written
      <3> QED BY <1>2, <3>1, <3>2 DEF IInv, Main!Load, Half!Load
    <2>3. CASE UNCHANGED vars
      <3>1. IInv'
        BY <2>3 DEF IInv, TypeOK, vars
      <3>2. UNCHANGED Main!counter /\ UNCHANGED Half!counter
        BY <2>3 DEF vars, Main!counter, Half!counter, Value, Top
      <3> QED BY <3>1, <3>2
    <2> QED BY <2>1, <2>2, <2>3
  <1>4. IInv => TypeOK
    BY DEF IInv
  <1> QED BY <1>1, <1>3, <1>4, PTL DEF Spec, CountsPulses, Main!Spec, Half!Spec
=============================================================================

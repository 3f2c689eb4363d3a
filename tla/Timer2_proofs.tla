--------------------------- MODULE Timer2_proofs ---------------------------
(***************************************************************************)
(* Timer 2 of the 8052 and the counter array of the 89C51R implement       *)
(* PulseCounter, for every width of the counters, all numbers of pulses in *)
(* a tick and every set of modules of the array.  The loops of the code    *)
(* are recursive functions: that they have a value, and what it is, is     *)
(* shown by induction over the naturals, for sets (Induct).                *)
(***************************************************************************)
EXTENDS Timer2, Pca, TLAPS, WellFoundedInduction

(* A set of naturals that is not empty has a least element.                *)
LEMMA Least ==
  ASSUME NEW S \in SUBSET Nat, NEW z \in S
  PROVE  \E m \in S : \A k \in S : m <= k
  <1> DEFINE R == OpToRel(<, Nat)
  <1>1. IsWellFoundedOn(R, Nat)
    BY NatLessThanWellFounded
  <1>2. S \subseteq Nat /\ S # {}
    OBVIOUS
  <1> HIDE DEF R
  <1>3. PICK x \in S : \A y \in S : ~(<<y, x>> \in R)
    BY <1>1, <1>2, WFMin
  <1>4. \A y \in S : y < x => <<y, x>> \in R
    BY DEF R, OpToRel
  <1>5. \A y \in S : ~(y < x)
    BY <1>3, <1>4, Zenon
  <1>6. \A y \in S : x <= y
    BY <1>2, <1>5
  <1> QED BY <1>6

(* Induction over the naturals, for a set.                                 *)
LEMMA Induct ==
  ASSUME NEW S, 0 \in S, \A n \in Nat : n \in S => n + 1 \in S
  PROVE  Nat \subseteq S
  <1> DEFINE B == Nat \ S
  <1> SUFFICES ASSUME NEW z \in B PROVE FALSE
    OBVIOUS
  <1>1. PICK m \in B : \A k \in B : m <= k
    <2>1. B \in SUBSET Nat
      OBVIOUS
    <2> HIDE DEF B
    <2> QED BY <2>1, Least
  <1>2. m # 0 /\ m \in Nat
    OBVIOUS
  <1>3. m - 1 \in Nat /\ m - 1 \notin B
    BY <1>1, <1>2
  <1>4. m - 1 \in S
    BY <1>3
  <1>5. (m - 1) + 1 \in S
    BY <1>4, <1>3
  <1> QED BY <1>5, <1>2
(* Products of the number of values of a register.                         *)
LEMMA Products ==
  ASSUME NEW a \in Nat, NEW d \in Nat
  PROVE  a * d \in Nat /\ (a + 1) * d = a * d + d
  OBVIOUS

(* Quotient and remainder are unique.                                      *)
LEMMA Divide ==
  ASSUME NEW a \in Nat, NEW d \in Nat \ {0},
         NEW q \in Nat, NEW r \in Nat, r < d, a = q * d + r
  PROVE  a \div d = q /\ a % d = r
  <1>1. q * d \in Nat /\ q * d <= a /\ a < q * d + d
    OBVIOUS
  <1>2. a \div d = q
    BY <1>1, SMTT(30)
  <1>3. a % d = a - (a \div d) * d
    BY SMTT(30)
  <1> QED BY <1>1, <1>2, <1>3

(* and every natural has them.                                             *)
LEMMA Remainder ==
  ASSUME NEW a \in Nat, NEW d \in Nat \ {0}
  PROVE  /\ a \div d \in Nat /\ a % d \in 0 .. d - 1
         /\ a = (a \div d) * d + (a % d)
  <1>1. a \div d \in Nat /\ a % d \in 0 .. d - 1
    OBVIOUS
  <1>2. a % d = a - (a \div d) * d
    BY SMTT(30)
  <1>3. (a \div d) * d \in Nat
    BY <1>1
  <1> QED BY <1>1, <1>2, <1>3

(* The closed form of PulseCounter.                                        *)
AfterOf(v, t, r, n) ==
  IF v + n - t < 0 THEN v + n ELSE r + ((v + n - t) % (t - r))

OverflowsOf(v, t, r, n) ==
  IF v + n - t < 0 THEN 0 ELSE 1 + ((v + n - t) \div (t - r))

(* The count and the overflows are determined by their sum.                *)
LEMMA Closed ==
  ASSUME NEW v \in Nat, NEW t \in Nat, NEW r \in Nat, NEW n \in Nat,
         NEW x \in Nat, NEW o \in Nat, v < t, r < t, x < t,
         v + n = x + o * (t - r), o > 0 => r <= x
  PROVE  x = AfterOf(v, t, r, n) /\ o = OverflowsOf(v, t, r, n)
  <1> DEFINE w == t - r
             a == v + n - t
  <1>1. w \in Nat \ {0} /\ w = t - r /\ v + n = x + o * w
    OBVIOUS
  <1>2. a \in Int /\ a = v + n - t
    OBVIOUS
  <1>3. CASE o = 0
    <2>1. o * w = 0
      BY <1>3
    <2> HIDE DEF w, a
    <2>2. v + n = x
      BY <1>1, <2>1
    <2> QED BY <1>3, <2>2 DEF AfterOf, OverflowsOf
  <1>4. CASE o > 0
    <2> DEFINE q == o - 1
               s == x - r
    <2>1. q \in Nat /\ s \in Nat /\ s < w /\ o = q + 1
      BY <1>4
    <2> HIDE DEF w, a, q
    <2>2. o * w = q * w + w /\ q * w \in Nat
      BY <1>1, <2>1, Products
    <2>3. a = q * w + s /\ a \in Nat
      BY <1>1, <1>2, <2>1, <2>2
    <2> HIDE DEF s
    <2>4. a \div w = q /\ a % w = s
      BY <1>1, <2>1, <2>3, Divide
    <2>5. ~(a < 0) /\ x = r + s /\ o = 1 + q
      BY <2>1, <2>3 DEF s
    <2> QED BY <1>1, <1>2, <2>4, <2>5 DEF AfterOf, OverflowsOf, w, a
  <1> QED BY <1>3, <1>4
-----------------------------------------------------------------------------
(* The pulses of timer 2, up and down, under one name.                     *)
Pulse2(up, c) == IF up THEN Up(c) ELSE Down(c)

Follows2(f, up, c, n) == f = [i \in 0 .. n |-> IF i = 0 THEN c ELSE Pulse2(up, f[i - 1])]

(* A loop of n pulses has a run.                                           *)
LEMMA RunExists2 ==
  ASSUME NEW up, NEW c, NEW n \in Nat
  PROVE  \E f : Follows2(f, up, c, n)
  <1> DEFINE Good == {m \in Nat : \E f : Follows2(f, up, c, m)}
  <1>1. 0 \in Good
    <2> DEFINE f == [i \in 0 .. 0 |-> c]
    <2>1. f = [i \in 0 .. 0 |-> IF i = 0 THEN c ELSE Pulse2(up, f[i - 1])]
      OBVIOUS
    <2> HIDE DEF f
    <2> QED BY <2>1 DEF Follows2
  <1>2. ASSUME NEW m \in Nat, m \in Good PROVE m + 1 \in Good
    <2>1. PICK f : Follows2(f, up, c, m)
      BY <1>2
    <2> DEFINE h == [i \in 0 .. m + 1 |-> IF i = m + 1 THEN Pulse2(up, f[m]) ELSE f[i]]
    <2>2. ASSUME NEW i \in 0 .. m + 1
          PROVE  h[i] = IF i = 0 THEN c ELSE Pulse2(up, h[i - 1])
      <3>1. CASE i = m + 1
        <4>1. h[i] = Pulse2(up, f[m]) /\ h[i - 1] = f[m] /\ i # 0
          BY <3>1
        <4> HIDE DEF h
        <4> QED BY <4>1
      <3>2. CASE i # m + 1
        <4>1. i \in 0 .. m
          BY <3>2
        <4>2. h[i] = f[i] /\ (i # 0 => h[i - 1] = f[i - 1])
          BY <4>1
        <4>3. f[i] = IF i = 0 THEN c ELSE Pulse2(up, f[i - 1])
          BY <2>1, <4>1 DEF Follows2
        <4> HIDE DEF h
        <4> QED BY <4>2, <4>3
      <3> QED BY <3>1, <3>2
    <2>3. h = [i \in 0 .. m + 1 |-> h[i]]
      OBVIOUS
    <2> HIDE DEF h
    <2>4. Follows2(h, up, c, m + 1)
      BY <2>2, <2>3 DEF Follows2
    <2> QED BY <2>4
  <1> HIDE DEF Good
  <1>3. n \in Good
    BY <1>1, <1>2, Induct
  <1> QED BY <1>3 DEF Good

(* So the loops of do_t2_baud, do_t2_reload and do_t2_down end where one   *)
(* does.                                                                   *)
LEMMA LoopsRun2 ==
  ASSUME NEW c, NEW n \in Nat
  PROVE  /\ \E f : Follows2(f, TRUE, c, n) /\ Pulses(Up, c, n) = f[n]
         /\ \E f : Follows2(f, FALSE, c, n) /\ Pulses(Down, c, n) = f[n]
  <1>1. \A f : Follows2(f, TRUE, c, n) <=> f = [i \in 0 .. n |-> IF i = 0 THEN c ELSE Up(f[i - 1])]
    BY DEF Follows2, Pulse2
  <1>2. \A f : Follows2(f, FALSE, c, n)
                 <=> f = [i \in 0 .. n |-> IF i = 0 THEN c ELSE Down(f[i - 1])]
    BY DEF Follows2, Pulse2
  <1>3. \A up : \E f : Follows2(f, up, c, n)
    BY RunExists2
  <1>4. \E f : Follows2(f, TRUE, c, n) /\ Pulses(Up, c, n) = f[n]
    BY <1>1, <1>3 DEF Pulses
  <1>5. \E f : Follows2(f, FALSE, c, n) /\ Pulses(Down, c, n) = f[n]
    BY <1>2, <1>3 DEF Pulses
  <1> QED BY <1>4, <1>5

CountType2 == [count : Words, ovf : Nat]

(* Up: after i pulses every one is in the count or in the overflows, and a *)
(* loop that overflowed is past RCAP2.                                     *)
Counted2(v, i, d) ==
  /\ d \in CountType2
  /\ v + i = d.count + d.ovf * (Word - rcap)
  /\ d.ovf > 0 => rcap <= d.count

(* Down: as long as nothing was reported the count from RCAP2 or above     *)
(* only fell.                                                              *)
Fallen(v, d) ==
  /\ d \in CountType2
  /\ 0 < rcap /\ rcap <= v /\ d.ovf = 0 => rcap <= d.count /\ d.count <= v

(* One pulse up.                                                           *)
LEMMA UpCounts ==
  ASSUME rcap \in Words, NEW v \in Words, NEW i \in Nat, NEW d, Counted2(v, i, d)
  PROVE  Counted2(v, i + 1, Up(d))
  <1> USE Timer2Assumption
  <1> DEFINE w == Word - rcap
             o == d.ovf
             x == d.count
  <1>1. /\ d \in CountType2 /\ x \in Words /\ o \in Nat /\ v + i = x + o * w
        /\ (o > 0 => rcap <= x)
    BY DEF Counted2, CountType2
  <1>2. w \in Nat /\ v \in Nat /\ x \in Nat /\ rcap \in Nat /\ w = Word - rcap
    BY <1>1 DEF Words
  <1>3. CASE x = Word - 1
    <2>1. Up(d) = [count |-> rcap, ovf |-> o + 1]
      BY <1>3 DEF Up
    <2>2. Up(d) \in CountType2 /\ Up(d).count = rcap /\ Up(d).ovf = o + 1
      BY <1>1, <2>1 DEF CountType2
    <2>3. (o + 1) * w = o * w + w /\ o * w \in Nat
      BY <1>1, <1>2, Products
    <2> HIDE DEF w, o, x
    <2>4. v + (i + 1) = rcap + (o + 1) * w
      BY <1>1, <1>2, <1>3, <2>3
    <2> QED BY <1>2, <2>2, <2>4 DEF Counted2, w
  <1>4. CASE x # Word - 1
    <2>1. Up(d) = [d EXCEPT !.count = @ + 1]
      BY <1>4 DEF Up
    <2>2. Up(d).count = x + 1 /\ Up(d).ovf = o /\ x + 1 \in Words /\ Up(d) \in CountType2
      BY <1>1, <1>4, <2>1 DEF CountType2, Words
    <2>3. o * w \in Nat
      BY <1>1, <1>2, Products
    <2> HIDE DEF w, o, x
    <2>4. v + (i + 1) = (x + 1) + o * w
      BY <1>1, <1>2, <2>3
    <2>5. o > 0 => rcap <= x + 1
      BY <1>1, <1>2
    <2> QED BY <2>2, <2>4, <2>5 DEF Counted2, w
  <1> QED BY <1>3, <1>4

(* One pulse down.                                                         *)
LEMMA DownFalls ==
  ASSUME rcap \in Words, NEW v \in Words, NEW d, Fallen(v, d)
  PROVE  Fallen(v, Down(d))
  <1> USE Timer2Assumption
  <1> DEFINE o == d.ovf
             x == d.count
             e == (x - 1) % Word
  <1>1. /\ d \in CountType2 /\ x \in Words /\ o \in Nat
        /\ 0 < rcap /\ rcap <= v /\ o = 0 => rcap <= x /\ x <= v
    BY DEF Fallen, CountType2
  <1>2. e \in Words /\ (0 < x => e = x - 1)
    <2>1. x \in Int /\ 0 <= x /\ x < Word /\ Word \in Nat \ {0}
      BY <1>1 DEF Words
    <2> HIDE DEF x
    <2>2. e \in 0 .. Word - 1
      BY <2>1
    <2>3. 0 < x => e = x - 1
      BY <2>1
    <2> QED BY <2>2, <2>3 DEF Words
  <1>3. CASE e < rcap
    <2>1. Down(d) = [count |-> Word - 1, ovf |-> o + 1]
      BY <1>3 DEF Down
    <2>2. Down(d) \in CountType2 /\ Down(d).ovf = o + 1
      BY <1>1, <2>1 DEF CountType2, Words
    <2> HIDE DEF o, x, e
    <2>3. o + 1 # 0
      BY <1>1
    <2> QED BY <2>2, <2>3 DEF Fallen
  <1>4. CASE ~(e < rcap)
    <2>1. Down(d) = [d EXCEPT !.count = e]
      BY <1>4 DEF Down
    <2> HIDE DEF e
    <2>2. Down(d).count = e /\ Down(d).ovf = o /\ Down(d) \in CountType2
      BY <1>1, <1>2, <2>1 DEF CountType2
    <2> HIDE DEF o, x
    <2>3. rcap \in Int /\ e \in Int /\ x \in Int /\ v \in Int
      BY <1>1, <1>2 DEF Words
    <2>4. 0 < rcap /\ rcap <= v /\ o = 0 => rcap <= e /\ e <= v
      BY <1>1, <1>2, <1>4, <2>3
    <2> QED BY <2>2, <2>4 DEF Fallen
  <1> QED BY <1>3, <1>4

(* n pulses, either way.                                                   *)
LEMMA LoopsCount2 ==
  ASSUME rcap \in Words, NEW v \in Words, NEW n \in Nat
  PROVE  Counted2(v, n, Pulses(Up, From(v), n)) /\ Fallen(v, Pulses(Down, From(v), n))
  <1> USE Timer2Assumption
  <1>1. From(v) \in CountType2 /\ From(v).count = v /\ From(v).ovf = 0
    BY DEF From, CountType2
  <1>2. Counted2(v, 0, From(v)) /\ Fallen(v, From(v))
    <2>1. v \in Int /\ rcap \in Int /\ 0 * (Word - rcap) = 0
      BY DEF Words
    <2> QED BY <1>1, <2>1 DEF Counted2, Fallen
  <1>3. ASSUME NEW f, Follows2(f, TRUE, From(v), n) PROVE Counted2(v, n, f[n])
    <2> DEFINE Good == {i \in Nat : i <= n => Counted2(v, i, f[i])}
    <2>1. \A i \in 0 .. n : f[i] = IF i = 0 THEN From(v) ELSE Up(f[i - 1])
      BY <1>3 DEF Follows2, Pulse2
    <2>2. 0 \in Good
      BY <1>2, <2>1
    <2>3. ASSUME NEW i \in Nat, i \in Good PROVE i + 1 \in Good
      <3>1. SUFFICES ASSUME i + 1 <= n PROVE Counted2(v, i + 1, f[i + 1])
        OBVIOUS
      <3>2. Counted2(v, i, f[i])
        BY <2>3, <3>1
      <3>3. i + 1 \in 0 .. n /\ i + 1 # 0 /\ (i + 1) - 1 = i
        BY <3>1
      <3>4. f[i + 1] = Up(f[i])
        BY <2>1, <3>3
      <3> QED BY <3>2, <3>4, UpCounts
    <2> HIDE DEF Good
    <2>4. n \in Good
      BY <2>2, <2>3, Induct
    <2> QED BY <2>4 DEF Good
  <1>4. ASSUME NEW f, Follows2(f, FALSE, From(v), n) PROVE Fallen(v, f[n])
    <2> DEFINE Good == {i \in Nat : i <= n => Fallen(v, f[i])}
    <2>1. \A i \in 0 .. n : f[i] = IF i = 0 THEN From(v) ELSE Down(f[i - 1])
      BY <1>4 DEF Follows2, Pulse2
    <2>2. 0 \in Good
      BY <1>2, <2>1
    <2>3. ASSUME NEW i \in Nat, i \in Good PROVE i + 1 \in Good
      <3>1. SUFFICES ASSUME i + 1 <= n PROVE Fallen(v, f[i + 1])
        OBVIOUS
      <3>2. Fallen(v, f[i])
        BY <2>3, <3>1
      <3>3. i + 1 \in 0 .. n /\ i + 1 # 0 /\ (i + 1) - 1 = i
        BY <3>1
      <3>4. f[i + 1] = Down(f[i])
        BY <2>1, <3>3
      <3> QED BY <3>2, <3>4, DownFalls
    <2> HIDE DEF Good
    <2>4. n \in Good
      BY <2>2, <2>3, Induct
    <2> QED BY <2>4 DEF Good
  <1>5. PICK f : Follows2(f, TRUE, From(v), n) /\ Pulses(Up, From(v), n) = f[n]
    BY LoopsRun2
  <1>6. PICK g : Follows2(g, FALSE, From(v), n) /\ Pulses(Down, From(v), n) = g[n]
    BY LoopsRun2
  <1> QED BY <1>3, <1>4, <1>5, <1>6
-----------------------------------------------------------------------------
(* The count and the overflows of n pulses up, in closed form.             *)
LEMMA UpIs ==
  ASSUME rcap \in Words, NEW v \in Words, NEW n \in Nat, NEW c, c = Pulses(Up, From(v), n)
  PROVE  /\ c \in CountType2 /\ c.count \in Words /\ c.ovf \in Nat
         /\ c.count = AfterOf(v, Word, rcap, n) /\ c.ovf = OverflowsOf(v, Word, rcap, n)
  <1>1. Counted2(v, n, c)
    BY LoopsCount2
  <1>2. /\ c \in CountType2 /\ c.count \in Words /\ c.ovf \in Nat
        /\ v + n = c.count + c.ovf * (Word - rcap) /\ (c.ovf > 0 => rcap <= c.count)
    BY <1>1 DEF Counted2, CountType2
  <1> DEFINE x == c.count
             o == c.ovf
  <1>3. /\ v \in Nat /\ Word \in Nat /\ rcap \in Nat /\ x \in Nat /\ o \in Nat
        /\ v < Word /\ rcap < Word /\ x < Word
    BY <1>2, Timer2Assumption DEF Words
  <1>4. v + n = x + o * (Word - rcap) /\ (o > 0 => rcap <= x)
    BY <1>2
  <1> HIDE DEF x, o
  <1>5. x = AfterOf(v, Word, rcap, n) /\ o = OverflowsOf(v, Word, rcap, n)
    BY <1>3, <1>4, Closed
  <1> QED BY <1>2, <1>5 DEF x, o

LastType2 == [n : Int, ovf : Nat]

\* the serial interface and T2CON agree, and so do T2CON and the mode
Inv2 ==
  /\ TypeOK /\ last \in LastType2
  /\ cfg.CLK <=> mode = "BAUDRATE"
  /\ t2_baud <=> cfg.CLK

(* A count down that starts again above RCAP2 is flagged.                  *)
EndFlagged ==
  last'.n = -2 /\ 0 < rcap /\ rcap <= count /\ count < count' => "TF2" \in flags'

(* A step of the abstract counter.                                         *)
CounterStep == Counter!Count \/ Counter!Load

(* When registers are written, or the count goes down.                     *)
LEMMA LoadStep ==
  ASSUME count' \in Words, rcap' \in Words, last'.n < 0, last'.n \in Int, last'.ovf = 0
  PROVE  Counter!Load
  <1>1. count' < Word /\ rcap' < Word
    BY Timer2Assumption DEF Words
  <1> QED BY <1>1 DEF Counter!Load, Counter!InRange

(* When pulses are counted up.                                             *)
LEMMA CountStep ==
  ASSUME rcap \in Words, count \in Words, rcap' = rcap, NEW n \in Nat, NEW c,
         c = Pulses(Up, From(count), n), count' = c.count, last' = [n |-> n, ovf |-> c.ovf]
  PROVE  /\ Counter!Count /\ last' \in LastType2 /\ count' \in Words
         /\ last'.n = n /\ last'.n # -2
  <1>1. /\ c.count \in Words /\ c.ovf \in Nat /\ c.count = AfterOf(count, Word, rcap, n)
        /\ c.ovf = OverflowsOf(count, Word, rcap, n)
    BY UpIs
  <1>2. last'.n = n /\ last'.ovf = c.ovf /\ ~(n < 0) /\ n # -2
    OBVIOUS
  <1>3. last' \in LastType2
    BY <1>1, <1>2 DEF LastType2
  <1>4. Counter!Count
    BY <1>1, <1>2 DEF Counter!Count, Counter!After, Counter!Overflows, Counter!Excess,
                      AfterOf, OverflowsOf
  <1> QED BY <1>1, <1>2, <1>3, <1>4

(* The edges after a tick.                                                 *)
LEMMA EdgesKept ==
  ASSUME T_edge \in 0 .. MaxEdges, TakeEdges
  PROVE  T_edge' \in 0 .. MaxEdges
  BY Timer2Assumption DEF TakeEdges

(* What a tick owes to the count, given the rest.                          *)
Owed == CounterStep /\ EndFlagged /\ last' \in LastType2 /\ count' \in Words /\ rcap' \in Words

(* do_t2_baud                                                              *)
LEMMA BaudStep ==
  ASSUME Inv2, NEW cycles \in 1 .. MaxCycles, TickBaud(cycles)
  PROVE  Owed /\ flags' \subseteq {"TF2", "EXF2"} /\ t2ex_edge' \in 0 .. MaxEdges /\ cex' = cex
  <1> DEFINE n == IF ~cfg.TR THEN 0
                  ELSE IF cfg.C_T THEN T_edge ELSE BaudFactor * cycles
             c == Pulses(Up, From(count), n)
  <1>1. TypeOK
    BY DEF Inv2
  <1>2. n \in Nat
    <2>1. BaudFactor * cycles \in Nat /\ T_edge \in Nat
      BY <1>1, Timer2Assumption DEF TypeOK
    <2> QED BY <2>1
  <1>3. count' = c.count /\ last' = [n |-> n, ovf |-> c.ovf] /\ rcap' = rcap /\ cex' = cex
    BY DEF TickBaud
  <1>4. flags' \subseteq {"TF2", "EXF2"} /\ t2ex_edge' \in 0 .. MaxEdges
    BY <1>1, Timer2Assumption DEF TickBaud, TypeOK
  <1> HIDE DEF n
  <1>5. c = Pulses(Up, From(count), n)
    OBVIOUS
  <1> HIDE DEF c
  <1>6. count \in Words /\ rcap \in Words
    BY <1>1 DEF TypeOK
  <1>7. Counter!Count /\ last' \in LastType2 /\ count' \in Words /\ last'.n # -2
    BY <1>2, <1>3, <1>5, <1>6, CountStep
  <1> QED BY <1>3, <1>4, <1>6, <1>7 DEF Owed, CounterStep, EndFlagged

(* do_t2_capture                                                           *)
LEMMA CaptureStep ==
  ASSUME Inv2, TickCapture
  PROVE  Owed /\ flags' \subseteq {"TF2", "EXF2"} /\ t2ex_edge' \in 0 .. MaxEdges /\ cex' = cex
  <1> DEFINE n == IF cfg.TR THEN 1 ELSE 0
  <1>1. TypeOK
    BY DEF Inv2
  <1>2. /\ rcap' \in Words /\ count' = (count + n) % Word /\ last' = [n |-> -1, ovf |-> 0]
        /\ cex' = cex
    BY <1>1 DEF TickCapture, TypeOK
  <1>3. flags' \subseteq {"TF2", "EXF2"} /\ t2ex_edge' \in 0 .. MaxEdges
    BY <1>1, Timer2Assumption DEF TickCapture, TypeOK
  <1>4. count' \in Words
    <2>1. count + n \in Int
      BY <1>1, Timer2Assumption DEF TypeOK, Words
    <2> HIDE DEF n
    <2> QED BY <1>2, <2>1, Timer2Assumption DEF Words
  <1>5. last' \in LastType2 /\ last'.n = -1 /\ last'.ovf = 0
    BY <1>2 DEF LastType2
  <1>6. Counter!Load
    BY <1>2, <1>4, <1>5, LoadStep
  <1> QED BY <1>2, <1>3, <1>4, <1>5, <1>6 DEF Owed, CounterStep, EndFlagged

(* do_t2_reload                                                            *)
LEMMA ReloadStep ==
  ASSUME Inv2, TickReload
  PROVE  Owed /\ flags' \subseteq {"TF2", "EXF2"} /\ t2ex_edge' \in 0 .. MaxEdges /\ cex' = cex
  <1> DEFINE n == IF cfg.TR THEN 1 ELSE 0
             s == IF External THEN rcap ELSE count
             c == Pulses(Up, From(s), n)
  <1>1. TypeOK
    BY DEF Inv2
  <1>2. /\ count' = c.count /\ rcap' = rcap /\ cex' = cex
        /\ last' = IF External THEN [n |-> -1, ovf |-> 0] ELSE [n |-> n, ovf |-> c.ovf]
        /\ flags' = flags \cup (IF External THEN {"EXF2"} ELSE {})
                          \cup (IF c.ovf > 0 THEN {"TF2"} ELSE {})
    BY DEF TickReload
  <1>3. t2ex_edge' \in 0 .. MaxEdges
    BY <1>1, Timer2Assumption DEF TickReload, TypeOK
  <1>4. count \in Words /\ rcap \in Words /\ s \in Words /\ n \in Nat
    BY <1>1 DEF TypeOK
  <1>5. c = Pulses(Up, From(s), n)
    OBVIOUS
  <1> HIDE DEF c, n
  <1>6. flags' \subseteq {"TF2", "EXF2"}
    BY <1>1, <1>2 DEF TypeOK
  <1>7. CASE External
    <2> HIDE DEF s
    <2>1. c.count \in Words
      BY <1>4, <1>5, UpIs
    <2>2. last' \in LastType2 /\ last'.n = -1 /\ last'.ovf = 0
      BY <1>2, <1>7 DEF LastType2
    <2>3. Counter!Load
      BY <1>2, <1>4, <2>1, <2>2, LoadStep
    <2> QED BY <1>2, <1>3, <1>4, <1>6, <2>1, <2>2, <2>3 DEF Owed, CounterStep, EndFlagged
  <1>8. CASE ~External
    <2>1. c = Pulses(Up, From(count), n) /\ last' = [n |-> n, ovf |-> c.ovf]
      BY <1>2, <1>5, <1>8
    <2> HIDE DEF s
    <2>2. Counter!Count /\ last' \in LastType2 /\ count' \in Words /\ last'.n # -2
      BY <1>2, <1>4, <2>1, CountStep
    <2> QED BY <1>2, <1>3, <1>4, <1>6, <2>2 DEF Owed, CounterStep, EndFlagged
  <1> QED BY <1>7, <1>8

(* do_t2_down                                                              *)
LEMMA DownStep ==
  ASSUME Inv2, NEW cycles \in 1 .. MaxCycles, TickDown(cycles)
  PROVE  /\ Owed /\ flags' \subseteq {"TF2", "EXF2"} /\ t2ex_edge' \in 0 .. MaxEdges
         /\ cex' \in BOOLEAN
  <1> DEFINE n == IF cfg.TR THEN Fed(cycles) ELSE 0
             u == Pulses(Up, From(count), n)
             d == Pulses(Down, From(count), n)
             c == IF "T2EX" \in high THEN u ELSE d
  <1>1. TypeOK
    BY DEF Inv2
  <1>2. /\ count' = c.count /\ rcap' = rcap
        /\ flags' = (IF c.ovf > 0 THEN flags \cup {"TF2"} ELSE flags)
        /\ cex' = (IF c.ovf > 0 THEN ~cex ELSE cex)
        /\ last' = IF "T2EX" \in high THEN [n |-> n, ovf |-> c.ovf] ELSE [n |-> -2, ovf |-> 0]
        /\ t2ex_edge' = t2ex_edge
    BY DEF TickDown
  <1>3. n \in Nat
    BY <1>1, Timer2Assumption DEF Fed, TypeOK
  <1> HIDE DEF n
  <1>4. u = Pulses(Up, From(count), n) /\ d = Pulses(Down, From(count), n)
    OBVIOUS
  <1> HIDE DEF u, d
  <1>5. /\ count \in Words /\ rcap \in Words /\ flags \subseteq {"TF2", "EXF2"}
        /\ t2ex_edge \in 0 .. MaxEdges /\ cex \in BOOLEAN
    BY <1>1 DEF TypeOK
  <1>6. /\ flags' \subseteq {"TF2", "EXF2"} /\ t2ex_edge' \in 0 .. MaxEdges
        /\ cex' \in BOOLEAN
    <2> HIDE DEF c
    <2>1. flags' \subseteq {"TF2", "EXF2"} /\ t2ex_edge' \in 0 .. MaxEdges
      BY <1>2, <1>5
    <2>2. cex' \in BOOLEAN
      BY <1>2, <1>5, Zenon
    <2> QED BY <2>1, <2>2
  <1>7. CASE "T2EX" \in high
    <2>1. count' = u.count /\ last' = [n |-> n, ovf |-> u.ovf]
      BY <1>2, <1>7
    <2> HIDE DEF c
    <2>2. Counter!Count /\ last' \in LastType2 /\ count' \in Words /\ last'.n # -2
      BY <1>2, <1>3, <1>4, <1>5, <2>1, CountStep
    <2> QED BY <1>2, <1>5, <1>6, <2>2 DEF Owed, CounterStep, EndFlagged
  <1>8. CASE "T2EX" \notin high
    <2>1. /\ count' = d.count /\ last' = [n |-> -2, ovf |-> 0]
          /\ flags' = IF d.ovf > 0 THEN flags \cup {"TF2"} ELSE flags
      BY <1>2, <1>8
    <2> HIDE DEF c
    <2>2. Fallen(count, d)
      BY <1>3, <1>4, <1>5, LoopsCount2
    <2>3. last' \in LastType2 /\ last'.n = -2 /\ last'.ovf = 0
      BY <2>1 DEF LastType2
    <2>4. d.count \in Words /\ d.ovf \in Nat
      BY <2>2 DEF Fallen, CountType2
    <2>5. Counter!Load
      BY <1>2, <1>5, <2>1, <2>3, <2>4, LoadStep
    <2>6. EndFlagged
      <3>1. count \in Int /\ d.count \in Int
        BY <1>5, <2>4, Timer2Assumption DEF Words
      <3>2. 0 < rcap /\ rcap <= count /\ d.ovf = 0 => d.count <= count
        BY <2>2 DEF Fallen
      <3>3. 0 < rcap /\ rcap <= count /\ count < d.count => d.ovf > 0
        BY <2>4, <3>1, <3>2
      <3> QED BY <2>1, <3>3 DEF EndFlagged
    <2> QED BY <1>2, <1>5, <1>6, <2>1, <2>3, <2>4, <2>5, <2>6 DEF Owed, CounterStep
  <1> QED BY <1>7, <1>8

(* A tick.                                                                 *)
LEMMA TickStep2 ==
  ASSUME Inv2, NEW cycles \in 1 .. MaxCycles, Tick(cycles)
  PROVE  Inv2' /\ CounterStep /\ EndFlagged
  <1>1. TypeOK
    BY DEF Inv2
  <1>2. /\ Owed /\ flags' \subseteq {"TF2", "EXF2"} /\ t2ex_edge' \in 0 .. MaxEdges
        /\ cex' \in BOOLEAN
    <2>1. cex \in BOOLEAN
      BY <1>1 DEF TypeOK
    <2>2. CASE TickBaud(cycles)
      BY <2>1, <2>2, BaudStep
    <2>3. CASE TickCapture
      BY <2>1, <2>3, CaptureStep
    <2>4. CASE TickReload
      BY <2>1, <2>4, ReloadStep
    <2>5. CASE TickDown(cycles)
      BY <2>5, DownStep
    <2> QED BY <2>2, <2>3, <2>4, <2>5 DEF Tick
  <1>3. UNCHANGED <<mode, cfg, high, exf2it, t2_baud>> /\ TakeEdges
    BY DEF Tick, TickBaud, TickCapture, TickReload, TickDown
  <1>4. T_edge' \in 0 .. MaxEdges
    BY <1>1, <1>3, EdgesKept DEF TypeOK
  <1>5. last' \in LastType2 /\ last'.n \in Int /\ last'.ovf \in Nat
    BY <1>2 DEF Owed, LastType2
  <1>6. TypeOK'
    BY <1>1, <1>2, <1>3, <1>4, <1>5 DEF TypeOK, Owed
  <1>7. Inv2'
    BY <1>3, <1>5, <1>6 DEF Inv2
  <1> QED BY <1>2, <1>7 DEF Owed

(* A step that writes registers or moves a line.                           *)
LEMMA WriteStep2 ==
  ASSUME Inv2, Next, ~\E c \in 1 .. MaxCycles : Tick(c)
  PROVE  Inv2' /\ Written
  <1> USE Timer2Assumption
  <1>1. TypeOK /\ (cfg.CLK <=> mode = "BAUDRATE") /\ (t2_baud <=> cfg.CLK)
    BY DEF Inv2
  <1>2. Written => last' \in LastType2 /\ last'.n \in Int /\ last'.ovf \in Nat
    BY DEF Written, LastType2
  <1>3. /\ mode \in Modes /\ cfg \in T2con /\ cfg.CLK \in BOOLEAN
        /\ flags \subseteq {"TF2", "EXF2"} /\ count \in Words /\ rcap \in Words
        /\ high \subseteq Lines /\ T_edge \in 0 .. MaxEdges /\ t2ex_edge \in 0 .. MaxEdges
        /\ exf2it \in BOOLEAN /\ cex \in BOOLEAN /\ t2_baud \in BOOLEAN
    BY <1>1 DEF TypeOK, T2con
  <1>4. Edges => T_edge' \in 0 .. MaxEdges /\ t2ex_edge' \in 0 .. MaxEdges
    BY <1>3 DEF Edges
  (* T2CON, by the program or by a reset *)
  <1>5. ASSUME NEW v \in T2con, cfg' = v, mode' = ModeOf(v), Inform(v)
        PROVE  /\ mode' \in Modes /\ cfg' \in T2con /\ (cfg'.CLK <=> mode' = "BAUDRATE")
               /\ t2_baud' \in BOOLEAN /\ (t2_baud' <=> cfg'.CLK)
    <2>1. v.CLK \in BOOLEAN
      BY DEF T2con
    <2>2. mode' \in Modes /\ (v.CLK <=> mode' = "BAUDRATE")
      BY <1>5 DEF ModeOf, Modes
    <2>3. CASE mode' # mode
      <3>1. t2_baud' = v.CLK
        BY <1>5, <2>3 DEF Inform
      <3> QED BY <1>5, <2>1, <2>2, <3>1, Zenon
    <2>4. CASE mode' = mode
      <3>1. t2_baud' = t2_baud
        BY <1>5, <2>4 DEF Inform
      <3> QED BY <1>1, <1>3, <1>5, <2>2, <2>4, <3>1, Zenon
    <2> QED BY <2>3, <2>4
  <1>6. ASSUME NEW v \in T2con, NEW f \in SUBSET {"TF2", "EXF2"}, WriteT2con(v, f)
        PROVE  Inv2' /\ Written
    <2>1. /\ cfg' = v /\ mode' = ModeOf(v) /\ Inform(v) /\ Edges /\ Written
          /\ flags' = f /\ exf2it' = TRUE /\ UNCHANGED <<count, rcap, high, cex>>
      BY <1>6 DEF WriteT2con
    <2>2. /\ mode' \in Modes /\ cfg' \in T2con /\ (cfg'.CLK <=> mode' = "BAUDRATE")
          /\ t2_baud' \in BOOLEAN /\ (t2_baud' <=> cfg'.CLK)
      BY <1>5, <2>1
    <2>3. exf2it' \in BOOLEAN
      BY <2>1, Zenon
    <2>4. TypeOK'
      BY <1>2, <1>3, <1>4, <2>1, <2>2, <2>3 DEF TypeOK
    <2> QED BY <1>2, <2>1, <2>2, <2>4 DEF Inv2
  <1>7. ASSUME NEW b \in BOOLEAN, WriteT2mod(b) PROVE Inv2' /\ Written
    <2>1. /\ cfg' = cfg /\ Edges /\ Written
          /\ UNCHANGED <<flags, count, rcap, high, cex, t2_baud>>
          /\ mode' = mode \/ (mode = "RELOAD" /\ mode' = "DOWN")
          /\ exf2it' \in BOOLEAN
      BY <1>7 DEF WriteT2mod
    <2>2. mode' \in Modes /\ (mode' = "BAUDRATE" <=> mode = "BAUDRATE")
      BY <1>3, <2>1 DEF Modes
    <2>3. TypeOK'
      BY <1>2, <1>3, <1>4, <2>1, <2>2 DEF TypeOK
    <2> QED BY <1>1, <1>2, <2>1, <2>2, <2>3 DEF Inv2
  <1>8. ASSUME NEW c \in Words, WriteCount(c) \/ WriteRcap(c) PROVE Inv2' /\ Written
    <2>1. /\ UNCHANGED <<mode, cfg, flags, high, T_edge, t2ex_edge, exf2it, cex, t2_baud>>
          /\ count' \in Words /\ rcap' \in Words /\ Written
      BY <1>3, <1>8 DEF WriteCount, WriteRcap
    <2>2. TypeOK'
      BY <1>2, <1>3, <2>1 DEF TypeOK
    <2> QED BY <1>1, <1>2, <2>1, <2>2 DEF Inv2
  <1>9. ASSUME NEW new \in SUBSET Lines, Port1(new) PROVE Inv2' /\ Written
    <2>1. /\ UNCHANGED <<mode, cfg, flags, count, rcap, exf2it, cex, t2_baud>>
          /\ high' \subseteq Lines /\ Written
          /\ T_edge' \in 0 .. MaxEdges /\ t2ex_edge' \in 0 .. MaxEdges
      BY <1>3, <1>9 DEF Port1
    <2>2. TypeOK'
      BY <1>2, <1>3, <2>1 DEF TypeOK
    <2> QED BY <1>1, <1>2, <2>1, <2>2 DEF Inv2
  <1>10. ASSUME Reset PROVE Inv2' /\ Written
    <2>1. /\ cfg' = NoBits /\ mode' = ModeOf(NoBits) /\ Inform(NoBits) /\ Edges /\ Written
          /\ flags' = {} /\ exf2it' = TRUE /\ count' = 0 /\ rcap' = 0 /\ cex' = TRUE
          /\ high' \subseteq Lines
      BY <1>10 DEF Reset
    <2>2. NoBits \in T2con /\ 0 \in Words
      BY DEF NoBits, T2con, Words
    <2>3. /\ mode' \in Modes /\ cfg' \in T2con /\ (cfg'.CLK <=> mode' = "BAUDRATE")
          /\ t2_baud' \in BOOLEAN /\ (t2_baud' <=> cfg'.CLK)
      BY <1>5, <2>1, <2>2
    <2>4. exf2it' \in BOOLEAN /\ cex' \in BOOLEAN
      BY <2>1, Zenon
    <2>5. TypeOK'
      BY <1>2, <1>4, <2>1, <2>2, <2>3, <2>4 DEF TypeOK
    <2> QED BY <1>2, <2>1, <2>3, <2>5 DEF Inv2
  <1> QED BY <1>6, <1>7, <1>8, <1>9, <1>10 DEF Next

(* Timer 2 implements PulseCounter, flags the end of a count down and      *)
(* keeps the serial interface informed, for every width, reload value and  *)
(* number of pulses, and whatever the order of writes, edges and ticks.    *)
THEOREM Timer2Counts == Spec => T2CountsPulses
  <1>1. Init => Inv2 /\ Counter!Init
    <2> SUFFICES ASSUME Init PROVE Inv2 /\ Counter!Init
      OBVIOUS
    <2> USE Timer2Assumption
    <2>1. NoBits \in T2con /\ 0 \in Words /\ NoBits.CLK = FALSE /\ "RELOAD" \in Modes
      BY DEF NoBits, T2con, Words, Modes
    <2>2. last \in LastType2 /\ last.n = -1 /\ last.ovf = 0
      BY DEF Init, LastType2
    <2>3. exf2it \in BOOLEAN /\ cex \in BOOLEAN /\ t2_baud \in BOOLEAN
      BY Zenon DEF Init
    <2>4. TypeOK
      BY <2>1, <2>2, <2>3 DEF Init, TypeOK
    <2>5. (cfg.CLK <=> mode = "BAUDRATE") /\ (t2_baud <=> cfg.CLK)
      BY <2>1 DEF Init
    <2>6. Counter!Init
      BY <2>2 DEF Init, Counter!Init, Counter!InRange
    <2> QED BY <2>2, <2>4, <2>5, <2>6 DEF Inv2
  <1>2. Inv2 /\ [Next]_vars
          => Inv2' /\ [Counter!Count \/ Counter!Load]_(Counter!counter) /\ [EndFlagged]_vars
    <2> SUFFICES ASSUME Inv2, [Next]_vars
                 PROVE  /\ Inv2' /\ [Counter!Count \/ Counter!Load]_(Counter!counter)
                        /\ [EndFlagged]_vars
      OBVIOUS
    <2>1. CASE \E c \in 1 .. MaxCycles : Tick(c)
      BY <2>1, TickStep2 DEF CounterStep
    <2>2. CASE Next /\ ~\E c \in 1 .. MaxCycles : Tick(c)
      <3>1. Inv2' /\ Written
        BY <2>2, WriteStep2
      <3>2. last'.n = -1 /\ last'.ovf = 0 /\ count' \in Words /\ rcap' \in Words
        BY <3>1 DEF Written, Inv2, TypeOK
      <3>3. Counter!Load
        BY <3>2, LoadStep
      <3> QED BY <3>1, <3>2, <3>3 DEF EndFlagged
    <2>3. CASE UNCHANGED vars
      <3>1. Inv2'
        BY <2>3 DEF Inv2, TypeOK, vars
      <3>2. UNCHANGED Counter!counter
        BY <2>3 DEF vars, Counter!counter
      <3> QED BY <2>3, <3>1, <3>2
    <2> QED BY <2>1, <2>2, <2>3
  <1>3. Inv2 => BaudKnown
    BY DEF Inv2, BaudKnown
  <1> QED BY <1>1, <1>2, <1>3, PTL DEF Spec, T2CountsPulses, Counter!Spec, EndFlagged
-----------------------------------------------------------------------------
(* The counter array.                                                      *)
PcaFields == {"chl", "ccap", "ccon", "pulses", "pos", "neg", "p1", "ovf", "took"}

Counts16 == 0 .. Top - 1

PulseType == [t0 : 0 .. PcaEdges, eci : 0 .. PcaEdges]

\* an edge of module m that its mode waits for was seen
Edged(m) == m \in seen.any /\ ("CAPN" \notin ccapm[m] => m \in seen.up)

(* What holds of the state that do_pca_counter passes on: edges are only   *)
(* taken, each once, an overflow is flagged, and a module that is flagged  *)
(* compares or saw its edge.                                               *)
PcaState(s) ==
  /\ DOMAIN s = PcaFields
  /\ s.chl \in Counts16 /\ s.ccap \in [Mods -> Counts16] /\ s.ccon \subseteq Mods \cup {CF}
  /\ s.pulses \in PulseType /\ s.p1 \subseteq Pins /\ s.ovf \in Nat
  /\ s.pos \subseteq cex_pos /\ s.neg \subseteq cex_neg /\ s.pos \cap s.took = {}
  /\ s.ovf > 0 => CF \in s.ccon
  /\ \A m \in (s.ccon \ ccon) \ {CF} : "ECOM" \in ccapm[m] \/ Edged(m)

LastTypePca == [n : Int, ovf : Nat]

InvPca ==
  /\ PcaTypeOK /\ pcaLast \in LastTypePca
  /\ seen \in [up : SUBSET Mods, any : SUBSET Mods]
  /\ cex_pos \cup cex_neg \subseteq seen.any /\ cex_pos \subseteq seen.up

(* The numbers of the array.                                               *)
LEMMA PcaSizes ==
  /\ Byte \in Nat /\ Byte > 1 /\ Top \in Nat \ {0} /\ Byte <= Top /\ PcaCycles \in Nat
  /\ PcaEdges \in Nat /\ Mods \subseteq Nat /\ CF \notin Mods /\ ECI \notin Mods
  <1>1. Byte \in Nat /\ Byte > 1 /\ PcaCycles \in Nat /\ PcaEdges \in Nat /\ Mods \subseteq Nat
    BY PcaAssumption
  <1>2. Byte * Byte \in Nat /\ Byte * Byte > 0 /\ Byte <= Byte * Byte
    BY <1>1
  <1>3. CF \notin Mods /\ ECI \notin Mods
    BY <1>1 DEF CF, ECI
  <1> QED BY <1>1, <1>2, <1>3 DEF Top

(* One module: do_pca_module.                                              *)
LEMMA ModuleKeeps ==
  ASSUME InvPca, NEW s, PcaState(s), NEW m \in Mods
  PROVE  LET r == do_pca_module(s, m) IN PcaState(r) /\ r.chl = s.chl /\ r.ovf = s.ovf
  <1> DEFINE k == [s EXCEPT !.pos = @ \ {m}, !.ccap[m] = s.chl, !.ccon = @ \cup {m},
                            !.took = @ \cup {m}]
             c == IF ~Captures(s, m) THEN s ELSE k
  <1>1. PcaState(c) /\ c.chl = s.chl /\ c.ovf = s.ovf
    <2>1. CASE ~Captures(s, m)
      BY <2>1
    <2>2. CASE Captures(s, m)
      <3>1. /\ DOMAIN k = PcaFields /\ k.chl = s.chl /\ k.pulses = s.pulses /\ k.neg = s.neg
            /\ k.p1 = s.p1 /\ k.ovf = s.ovf /\ k.pos = s.pos \ {m}
            /\ k.ccap = [s.ccap EXCEPT ![m] = s.chl] /\ k.ccon = s.ccon \cup {m}
            /\ k.took = s.took \cup {m}
        BY DEF PcaState, PcaFields
      <3>2. c = k
        BY <2>2
      <3>3. Edged(m)
        BY <2>2 DEF Captures, Edged, PcaState, InvPca
      <3> HIDE DEF c, k
      <3>4. k.ccap \in [Mods -> Counts16]
        BY <3>1 DEF PcaState
      <3>5. \A i \in (k.ccon \ ccon) \ {CF} : "ECOM" \in ccapm[i] \/ Edged(i)
        BY <3>1, <3>3 DEF PcaState
      <3>6. PcaState(k)
        BY <3>1, <3>4, <3>5 DEF PcaState
      <3> QED BY <3>1, <3>2, <3>6
    <2> QED BY <2>1, <2>2
  <1> DEFINE match == c.chl = c.ccap[m]
             bites == match /\ m = Watchdog /\ cmod.WDTE
             t == IF ~match THEN c
                  ELSE [c EXCEPT !.ccon = @ \cup {m},
                                 !.p1 = IF "TOG" \notin ccapm[m] THEN @
                                        ELSE IF m \in @ THEN @ \ {m} ELSE @ \cup {m}]
             w == [c EXCEPT !.pulses = NoPulses, !.pos = {}, !.neg = {}]
             x == [t EXCEPT !.p1 = IF "PWM" \in ccapm[m] THEN @ \cup {m} ELSE @]
  <1>2. do_pca_module(s, m) = IF "ECOM" \notin ccapm[m] THEN c ELSE IF bites THEN w ELSE x
    BY DEF do_pca_module
  <1> HIDE DEF c
  <1>3. PcaState(w) /\ w.chl = c.chl /\ w.ovf = c.ovf
    <2>1. /\ DOMAIN w = PcaFields /\ w.chl = c.chl /\ w.pulses = NoPulses /\ w.neg = {}
          /\ w.p1 = c.p1 /\ w.ovf = c.ovf /\ w.pos = {} /\ w.ccap = c.ccap /\ w.ccon = c.ccon
      BY <1>1 DEF PcaState, PcaFields
    <2>2. NoPulses \in PulseType
      BY PcaSizes DEF NoPulses, PulseType
    <2> HIDE DEF w
    <2> QED BY <1>1, <2>1, <2>2 DEF PcaState
  <1>4. ASSUME "ECOM" \in ccapm[m], NEW e, DOMAIN e = PcaFields, e.chl = c.chl,
               e.pulses = c.pulses, e.neg = c.neg, e.pos = c.pos, e.ovf = c.ovf,
               e.ccap = c.ccap, e.took = c.took, e.p1 \subseteq c.p1 \cup {m},
               e.ccon = c.ccon \/ e.ccon = c.ccon \cup {m}
        PROVE  PcaState(e)
    <2>1. e.p1 \subseteq Pins
      BY <1>1, <1>4 DEF PcaState, Pins
    <2>2. e.ccon \subseteq Mods \cup {CF} /\ (e.ovf > 0 => CF \in e.ccon)
      BY <1>1, <1>4 DEF PcaState
    <2>3. \A i \in (e.ccon \ ccon) \ {CF} : "ECOM" \in ccapm[i] \/ Edged(i)
      BY <1>1, <1>4 DEF PcaState
    <2> QED BY <1>1, <1>4, <2>1, <2>2, <2>3 DEF PcaState
  <1>5. "ECOM" \in ccapm[m] => PcaState(x) /\ x.chl = c.chl /\ x.ovf = c.ovf
    <2>1. /\ DOMAIN t = PcaFields /\ t.chl = c.chl /\ t.pulses = c.pulses /\ t.neg = c.neg
          /\ t.pos = c.pos /\ t.ovf = c.ovf /\ t.ccap = c.ccap /\ t.took = c.took
          /\ t.p1 \subseteq c.p1 \cup {m} /\ (t.ccon = c.ccon \/ t.ccon = c.ccon \cup {m})
      <3>1. DOMAIN c = PcaFields
        BY <1>1 DEF PcaState
      <3> HIDE DEF match
      <3>2. CASE ~match
        BY <3>1, <3>2
      <3>3. CASE match
        BY <3>1, <3>3 DEF PcaFields
      <3> QED BY <3>2, <3>3
    <2> HIDE DEF t
    <2>2. /\ DOMAIN x = PcaFields /\ x.chl = t.chl /\ x.pulses = t.pulses /\ x.neg = t.neg
          /\ x.pos = t.pos /\ x.ovf = t.ovf /\ x.ccap = t.ccap /\ x.took = t.took
          /\ x.p1 \subseteq t.p1 \cup {m} /\ x.ccon = t.ccon
      BY <2>1 DEF PcaFields
    <2> HIDE DEF x
    <2>3. x.p1 \subseteq c.p1 \cup {m} /\ (x.ccon = c.ccon \/ x.ccon = c.ccon \cup {m})
      BY <2>1, <2>2
    <2> QED BY <1>4, <2>1, <2>2, <2>3
  <1> HIDE DEF w, x, bites
  <1> QED BY <1>1, <1>2, <1>3, <1>5
-----------------------------------------------------------------------------
\* the modules before m
Before(m) == {k \in Mods : k < m}

(* The modules of S in turn.                                               *)
Turned(f, o, S) ==
  f = [m \in S |-> do_pca_module(IF Before(m) = {} THEN o ELSE f[Max(Before(m))], m)]

(* A set of naturals that is bounded has a greatest element.               *)
LEMMA MaxIs ==
  ASSUME NEW S \in SUBSET Nat, S # {}, NEW b \in Nat, \A y \in S : y <= b
  PROVE  Max(S) \in S /\ \A y \in S : y <= Max(S)
  <1> DEFINE D == {b - y : y \in S}
  <1>1. PICK z \in S : TRUE
    OBVIOUS
  <1>2. D \in SUBSET Nat /\ b - z \in D
    OBVIOUS
  <1>3. PICK d \in D : \A e \in D : d <= e
    <2> HIDE DEF D
    <2> QED BY <1>2, Least
  <1>4. PICK x \in S : d = b - x
    OBVIOUS
  <1>5. \A y \in S : x >= y
    <2> TAKE y \in S
    <2>1. b - y \in D
      OBVIOUS
    <2>2. b - x <= b - y
      BY <1>3, <1>4, <2>1
    <2> QED BY <2>2
  <1>6. \E v \in S : \A y \in S : v >= y
    BY <1>4, <1>5
  <1>7. Max(S) \in S /\ \A y \in S : Max(S) >= y
    BY <1>6 DEF Max
  <1> QED BY <1>7

(* The module called last before m, if there is one.                       *)
LEMMA BeforeIs ==
  ASSUME NEW m \in Mods, Before(m) # {}
  PROVE  Max(Before(m)) \in Mods /\ Max(Before(m)) < m
  <1>1. Before(m) \in SUBSET Nat /\ m \in Nat /\ \A y \in Before(m) : y <= m
    <2>1. m \in Nat /\ \A k \in Mods : k \in Nat
      BY PcaSizes
    <2>2. \A y \in Before(m) : y \in Nat /\ y < m
      BY <2>1 DEF Before
    <2>3. \A y \in Before(m) : y <= m
      BY <2>1, <2>2
    <2> QED BY <2>1, <2>2, <2>3
  <1>2. Max(Before(m)) \in Before(m)
    BY <1>1, MaxIs
  <1> QED BY <1>2 DEF Before

(* The recursion over the modules has a solution.                          *)
LEMMA TurnsExist ==
  ASSUME NEW o
  PROVE  \E f : Turned(f, o, Mods)
  <1> DEFINE Part(n) == {k \in Mods : k < n}
             Good == {n \in Nat : \E f : Turned(f, o, Part(n))}
  <1>1. 0 \in Good
    <2>1. Part(0) = {}
      <3>1. \A k \in Mods : k \in Nat
        BY PcaSizes
      <3>2. \A k \in Mods : ~(k < 0)
        BY <3>1
      <3> QED BY <3>2
    <2> DEFINE f == [m \in {} |-> o]
    <2>2. f = [m \in {} |-> do_pca_module(IF Before(m) = {} THEN o ELSE f[Max(Before(m))], m)]
      OBVIOUS
    <2>3. Turned(f, o, Part(0))
      BY <2>1, <2>2 DEF Turned
    <2> HIDE DEF f
    <2> QED BY <2>3
  <1>2. ASSUME NEW n \in Nat, n \in Good PROVE n + 1 \in Good
    <2>1. PICK f : Turned(f, o, Part(n))
      BY <1>2
    <2> DEFINE Rule(g, m) == do_pca_module(IF Before(m) = {} THEN o ELSE g[Max(Before(m))], m)
               h == [m \in Part(n + 1) |-> IF m < n THEN f[m] ELSE Rule(f, m)]
    <2>2. \A m \in Part(n) : f[m] = Rule(f, m)
      BY <2>1 DEF Turned
    <2>3. ASSUME NEW m \in Part(n + 1) PROVE h[m] = Rule(h, m)
      <3>1. m \in Mods /\ m \in Nat /\ m < n + 1
        BY PcaSizes
      <3>2. Before(m) # {} => h[Max(Before(m))] = f[Max(Before(m))]
        <4> SUFFICES ASSUME Before(m) # {} PROVE h[Max(Before(m))] = f[Max(Before(m))]
          OBVIOUS
        <4> DEFINE k == Max(Before(m))
        <4>1. k \in Mods /\ k < m
          BY <3>1, BeforeIs
        <4> HIDE DEF k
        <4>2. k \in Nat /\ k < n /\ k \in Part(n + 1)
          BY <3>1, <4>1, PcaSizes
        <4>3. h[k] = f[k]
          BY <4>2
        <4> QED BY <4>3 DEF k
      <3>3. Rule(h, m) = Rule(f, m)
        <4> HIDE DEF h
        <4> QED BY <3>2
      <3>4. h[m] = Rule(f, m)
        <4>1. h[m] = IF m < n THEN f[m] ELSE Rule(f, m)
          OBVIOUS
        <4>2. m < n => f[m] = Rule(f, m)
          BY <2>2, <3>1
        <4> HIDE DEF h, Rule
        <4> QED BY <4>1, <4>2
      <3> HIDE DEF h, Rule
      <3> QED BY <3>3, <3>4
    <2>4. h = [m \in Part(n + 1) |-> h[m]]
      OBVIOUS
    <2>5. Turned(h, o, Part(n + 1))
      <3> HIDE DEF h, Part
      <3>1. h = [m \in Part(n + 1) |-> Rule(h, m)]
        BY <2>3, <2>4
      <3> QED BY <3>1 DEF Turned
    <2> HIDE DEF h
    <2> QED BY <2>5
  <1>3. PICK n \in Nat : Mods \subseteq 0 .. n
    BY PcaAssumption
  <1>4. Part(n + 1) = Mods
    <2>1. \A k \in Mods : k \in 0 .. n
      BY <1>3
    <2>2. \A k \in Mods : k < n + 1
      BY <2>1
    <2> QED BY <2>2
  <1> HIDE DEF Good, Part
  <1>5. n + 1 \in Good
    BY <1>1, <1>2, <1>3, Induct
  <1>6. \E f : Turned(f, o, Part(n + 1))
    BY <1>5 DEF Good
  <1> QED BY <1>4, <1>6

(* Each module in turn keeps it.                                           *)
LEMMA TurnKeeps ==
  ASSUME InvPca, NEW o, PcaState(o), NEW f, Turned(f, o, Mods), NEW i \in Mods
  PROVE  PcaState(f[i]) /\ f[i].chl = o.chl /\ f[i].ovf = o.ovf
  <1> DEFINE Fine(s) == PcaState(s) /\ s.chl = o.chl /\ s.ovf = o.ovf
             Good == {n \in Nat : \A m \in Mods : m < n => Fine(f[m])}
  <1>1. 0 \in Good
    BY PcaSizes
  <1>2. ASSUME NEW n \in Nat, n \in Good PROVE n + 1 \in Good
    <2> SUFFICES ASSUME NEW m \in Mods, m < n + 1 PROVE Fine(f[m])
      OBVIOUS
    <2> DEFINE b == IF Before(m) = {} THEN o ELSE f[Max(Before(m))]
    <2>1. f[m] = do_pca_module(b, m)
      BY DEF Turned
    <2>2. Fine(b)
      <3>1. CASE Before(m) = {}
        BY <3>1
      <3>2. CASE Before(m) # {}
        <4> DEFINE k == Max(Before(m))
        <4>1. k \in Mods /\ k < m
          BY <3>2, BeforeIs
        <4>2. b = f[k]
          BY <3>2
        <4> HIDE DEF k, b, Fine
        <4>3. k < n
          BY <4>1, PcaSizes
        <4>4. Fine(f[k])
          BY <1>2, <4>1, <4>3
        <4> QED BY <4>2, <4>4
      <3> QED BY <3>1, <3>2
    <2> HIDE DEF b
    <2> QED BY <2>1, <2>2, ModuleKeeps
  <1> HIDE DEF Good, Fine
  <1>3. i + 1 \in Nat /\ i < i + 1 /\ i \in Nat
    BY PcaSizes
  <1>4. i + 1 \in Good
    BY <1>1, <1>2, <1>3, Induct
  <1>5. Fine(f[i])
    BY <1>3, <1>4 DEF Good
  <1> QED BY <1>5 DEF Fine
-----------------------------------------------------------------------------
(* One pulse: what it does before the modules are called.                  *)
Bumped(s) ==
  [s EXCEPT !.chl = (s.chl + 1) % Top,
            !.ccap = IF ((s.chl + 1) % Top) % Byte = 0
                     THEN [m \in Mods |-> IF "PWM" \in ccapm[m]
                                          THEN Byte * (s.ccap[m] \div Byte) + (s.ccap[m] \div Byte)
                                          ELSE s.ccap[m]]
                     ELSE @]

Overflowed(s) == [Bumped(s) EXCEPT !.ccon = @ \cup {CF}, !.ovf = @ + 1]

(* An overflow calls the modules, the last of which is the greatest.       *)
LEMMA PulseIs ==
  ASSUME NEW s
  PROVE  /\ (s.chl + 1) % Top # 0 => PcaPulse(s) = Bumped(s)
         /\ (s.chl + 1) % Top = 0 /\ Mods = {} => PcaPulse(s) = Overflowed(s)
         /\ (s.chl + 1) % Top = 0 /\ Mods # {}
              => \E f : Turned(f, Overflowed(s), Mods) /\ PcaPulse(s) = f[Max(Mods)]
  <1>1. (s.chl + 1) % Top # 0 => PcaPulse(s) = Bumped(s)
    BY DEF PcaPulse, Bumped
  <1>2. (s.chl + 1) % Top = 0 /\ Mods = {} => PcaPulse(s) = Overflowed(s)
    BY DEF PcaPulse, Overflowed, Bumped
  <1>3. ASSUME (s.chl + 1) % Top = 0, Mods # {}
        PROVE  \E f : Turned(f, Overflowed(s), Mods) /\ PcaPulse(s) = f[Max(Mods)]
    <2>1. PcaPulse(s)
            = (CHOOSE f : f = [m \in Mods |->
                                 do_pca_module(IF {k \in Mods : k < m} = {} THEN Overflowed(s)
                                               ELSE f[Max({k \in Mods : k < m})], m)])[Max(Mods)]
      BY <1>3, Zenon DEF PcaPulse, Overflowed, Bumped
    <2>2. \A f : Turned(f, Overflowed(s), Mods)
                   <=> f = [m \in Mods |->
                              do_pca_module(IF {k \in Mods : k < m} = {} THEN Overflowed(s)
                                            ELSE f[Max({k \in Mods : k < m})], m)]
      BY DEF Turned, Before
    <2>3. \E f : Turned(f, Overflowed(s), Mods)
      BY TurnsExist
    <2> QED BY <2>1, <2>2, <2>3, Zenon
  <1> QED BY <1>1, <1>2, <1>3

(* A compare value whose low half is reloaded from the high half.          *)
LEMMA ReloadFits ==
  ASSUME NEW v \in Counts16
  PROVE  Byte * (v \div Byte) + (v \div Byte) \in Counts16
  <1> DEFINE q == v \div Byte
  <1>1. Byte \in Nat \ {0} /\ v \in Nat /\ v < Byte * Byte /\ Byte * Byte \in Nat
    BY PcaSizes DEF Counts16, Top
  <1>2. q \in Nat /\ v = q * Byte + (v % Byte) /\ v % Byte \in Nat
    <2>1. v \div Byte \in Nat /\ v % Byte \in 0 .. Byte - 1 /\ v = (v \div Byte) * Byte + (v % Byte)
      BY <1>1, Remainder
    <2>2. v % Byte \in Nat
      BY <1>1, <2>1
    <2> QED BY <2>1, <2>2
  <1> HIDE DEF q
  <1>3. q < Byte
    <2> SUFFICES ASSUME Byte <= q PROVE FALSE
      BY <1>1, <1>2
    <2>1. PICK e \in Nat : q = Byte + e
      <3>1. q - Byte \in Nat /\ q = Byte + (q - Byte)
        BY <1>1, <1>2
      <3> QED BY <3>1
    <2>2. q * Byte = Byte * Byte + e * Byte /\ e * Byte \in Nat
      BY <1>1, <2>1
    <2> QED BY <1>1, <1>2, <2>2
  <1>4. PICK e \in Nat : Byte = q + 1 + e
    <2>1. Byte - 1 - q \in Nat /\ Byte = q + 1 + (Byte - 1 - q)
      BY <1>1, <1>2, <1>3
    <2> QED BY <2>1
  <1>5. Byte * Byte = Byte * q + Byte + Byte * e /\ Byte * e \in Nat /\ Byte * q \in Nat
    BY <1>1, <1>2, <1>4
  <1>6. Byte * q + q < Byte * Byte /\ Byte * q + q \in Nat
    BY <1>1, <1>2, <1>3, <1>5
  <1> QED BY <1>6, <1>1 DEF q, Counts16, Top

(* A pulse keeps the state, counts one up and reports the end.             *)
LEMMA PcaPulseKeeps ==
  ASSUME InvPca, NEW s, PcaState(s)
  PROVE  LET r == PcaPulse(s)
         IN  /\ PcaState(r)
             /\ \/ r.chl = s.chl + 1 /\ r.ovf = s.ovf
                \/ s.chl + 1 = Top /\ r.chl = 0 /\ r.ovf = s.ovf + 1
  <1> DEFINE b == Bumped(s)
             o == Overflowed(s)
             r == PcaPulse(s)
  <1>1. /\ s.chl \in Int /\ 0 <= s.chl /\ s.chl < Top /\ Top \in Nat \ {0}
        /\ DOMAIN s = PcaFields /\ s.ccap \in [Mods -> Counts16]
    BY PcaSizes DEF PcaState, Counts16
  <1>2. /\ s.chl + 1 = Top => (s.chl + 1) % Top = 0
        /\ s.chl + 1 # Top => (s.chl + 1) % Top = s.chl + 1
        /\ (s.chl + 1) % Top \in Counts16
    <2>1. s.chl + 1 = Top => (s.chl + 1) % Top = 0
      BY <1>1
    <2>2. s.chl + 1 # Top => (s.chl + 1) % Top = s.chl + 1
      BY <1>1
    <2> QED BY <1>1, <2>1, <2>2 DEF Counts16
  <1>3. /\ DOMAIN b = PcaFields /\ b.chl = (s.chl + 1) % Top /\ b.ccon = s.ccon
        /\ b.pulses = s.pulses /\ b.pos = s.pos /\ b.neg = s.neg /\ b.p1 = s.p1
        /\ b.ovf = s.ovf /\ b.took = s.took
        /\ \/ b.ccap = s.ccap
           \/ b.ccap = [m \in Mods |-> IF "PWM" \in ccapm[m]
                                       THEN Byte * (s.ccap[m] \div Byte) + (s.ccap[m] \div Byte)
                                       ELSE s.ccap[m]]
    BY <1>1 DEF Bumped, PcaFields
  <1>4. b.ccap \in [Mods -> Counts16]
    <2>1. \A m \in Mods : /\ s.ccap[m] \in Counts16
                          /\ Byte * (s.ccap[m] \div Byte) + (s.ccap[m] \div Byte) \in Counts16
      BY <1>1, ReloadFits
    <2> HIDE DEF b
    <2> QED BY <1>1, <1>3, <2>1
  <1>5. o = [b EXCEPT !.ccon = @ \cup {CF}, !.ovf = @ + 1]
    BY DEF Overflowed
  <1> HIDE DEF b, o
  <1>6. PcaState(b)
    BY <1>2, <1>3, <1>4 DEF PcaState
  <1>7. /\ DOMAIN o = PcaFields /\ o.chl = b.chl /\ o.ccon = b.ccon \cup {CF}
        /\ o.pulses = b.pulses /\ o.pos = b.pos /\ o.neg = b.neg /\ o.p1 = b.p1
        /\ o.ovf = b.ovf + 1 /\ o.took = b.took /\ o.ccap = b.ccap
    BY <1>3, <1>5 DEF PcaFields
  <1>8. PcaState(o)
    <2>1. o.ovf \in Nat
      BY <1>6, <1>7 DEF PcaState
    <2>2. \A m \in (o.ccon \ ccon) \ {CF} : "ECOM" \in ccapm[m] \/ Edged(m)
      BY <1>6, <1>7 DEF PcaState
    <2> QED BY <1>6, <1>7, <2>1, <2>2 DEF PcaState
  <1>9. CASE s.chl + 1 # Top
    <2>1. (s.chl + 1) % Top = s.chl + 1 /\ (s.chl + 1) % Top # 0
      BY <1>1, <1>2, <1>9
    <2>2. r = b
      BY <2>1, PulseIs DEF b
    <2> HIDE DEF r
    <2>3. r.chl = s.chl + 1 /\ r.ovf = s.ovf
      BY <1>3, <2>1, <2>2
    <2> QED BY <1>6, <2>2, <2>3 DEF r
  <1>10. CASE s.chl + 1 = Top
    <2>1. (s.chl + 1) % Top = 0
      BY <1>2, <1>10
    <2>2. PcaState(r) /\ r.chl = o.chl /\ r.ovf = o.ovf
      <3>1. CASE Mods = {}
        <4>1. r = o
          BY <2>1, <3>1, PulseIs DEF o
        <4> QED BY <1>8, <4>1
      <3>2. CASE Mods # {}
        <4>1. PICK f : Turned(f, o, Mods) /\ r = f[Max(Mods)]
          BY <2>1, <3>2, PulseIs DEF o
        <4>2. Max(Mods) \in Mods
          <5>1. PICK n \in Nat : Mods \subseteq 0 .. n
            BY PcaAssumption
          <5>2. \A y \in Mods : y \in 0 .. n
            BY <5>1
          <5>3. Mods \in SUBSET Nat /\ \A y \in Mods : y <= n
            BY <5>2
          <5> QED BY <3>2, <5>3, MaxIs
        <4> HIDE DEF r
        <4> QED BY <1>8, <4>1, <4>2, TurnKeeps
      <3> QED BY <3>1, <3>2
    <2> HIDE DEF r
    <2>3. r.chl = 0 /\ r.ovf = s.ovf + 1
      BY <1>3, <1>7, <2>1, <2>2
    <2> QED BY <1>10, <2>2, <2>3 DEF r
  <1> QED BY <1>9, <1>10

FollowsPca(f, c, n) == f = [k \in 0 .. n |-> IF k = 0 THEN c ELSE PcaPulse(f[k - 1])]

(* The loop of do_pca_counter has a run.                                   *)
LEMMA PcaRunExists ==
  ASSUME NEW c, NEW n \in Nat
  PROVE  \E f : FollowsPca(f, c, n)
  <1> DEFINE Good == {m \in Nat : \E f : FollowsPca(f, c, m)}
  <1>1. 0 \in Good
    <2> DEFINE f == [i \in 0 .. 0 |-> c]
    <2>1. f = [i \in 0 .. 0 |-> IF i = 0 THEN c ELSE PcaPulse(f[i - 1])]
      OBVIOUS
    <2> HIDE DEF f
    <2> QED BY <2>1 DEF FollowsPca
  <1>2. ASSUME NEW m \in Nat, m \in Good PROVE m + 1 \in Good
    <2>1. PICK f : FollowsPca(f, c, m)
      BY <1>2
    <2> DEFINE h == [i \in 0 .. m + 1 |-> IF i = m + 1 THEN PcaPulse(f[m]) ELSE f[i]]
    <2>2. ASSUME NEW i \in 0 .. m + 1
          PROVE  h[i] = IF i = 0 THEN c ELSE PcaPulse(h[i - 1])
      <3>1. CASE i = m + 1
        <4>1. h[i] = PcaPulse(f[m]) /\ h[i - 1] = f[m] /\ i # 0
          BY <3>1
        <4> HIDE DEF h
        <4> QED BY <4>1
      <3>2. CASE i # m + 1
        <4>1. i \in 0 .. m
          BY <3>2
        <4>2. h[i] = f[i] /\ (i # 0 => h[i - 1] = f[i - 1])
          BY <4>1
        <4>3. f[i] = IF i = 0 THEN c ELSE PcaPulse(f[i - 1])
          BY <2>1, <4>1 DEF FollowsPca
        <4> HIDE DEF h
        <4> QED BY <4>2, <4>3
      <3> QED BY <3>1, <3>2
    <2>3. h = [i \in 0 .. m + 1 |-> h[i]]
      OBVIOUS
    <2> HIDE DEF h
    <2>4. FollowsPca(h, c, m + 1)
      BY <2>2, <2>3 DEF FollowsPca
    <2> QED BY <2>4
  <1> HIDE DEF Good
  <1>3. n \in Good
    BY <1>1, <1>2, Induct
  <1> QED BY <1>3 DEF Good

(* After i pulses each of them is in the count or in the overflows.        *)
CountedPca(i, s) == PcaState(s) /\ chl + i = s.chl + s.ovf * Top

(* The count starts with no overflow.                                      *)
LEMMA NowState ==
  ASSUME InvPca
  PROVE  CountedPca(0, Now)
  <1>1. /\ DOMAIN Now = PcaFields /\ Now.chl = chl /\ Now.ccap = ccap /\ Now.ccon = ccon
        /\ Now.pulses = pulses /\ Now.pos = cex_pos /\ Now.neg = cex_neg /\ Now.p1 = p1
        /\ Now.ovf = 0 /\ Now.took = {}
    BY DEF Now, PcaFields
  <1>2. PcaState(Now)
    BY <1>1 DEF PcaState, InvPca, PcaTypeOK, Counts16, PulseType
  <1>3. chl \in Int /\ 0 * Top = 0
    BY PcaSizes DEF InvPca, PcaTypeOK
  <1> QED BY <1>1, <1>2, <1>3 DEF CountedPca

(* One more pulse is in the count or in the overflows.                     *)
LEMMA PulseCounted ==
  ASSUME InvPca, NEW i \in Nat, NEW s, CountedPca(i, s)
  PROVE  CountedPca(i + 1, PcaPulse(s))
  <1> DEFINE r == PcaPulse(s)
             x == s.chl
             o == s.ovf
  <1>1. /\ PcaState(r) /\ x \in Int /\ o \in Nat /\ chl + i = x + o * Top
        /\ chl \in Int /\ Top \in Nat
    <2>1. PcaState(s) /\ chl + i = x + o * Top
      BY DEF CountedPca
    <2>2. PcaState(r)
      BY <2>1, PcaPulseKeeps
    <2>3. Top \in Nat
      BY PcaSizes
    <2>4. x \in Int /\ o \in Nat
      BY <2>1, <2>3 DEF PcaState, Counts16
    <2>5. chl \in Int
      BY <2>3 DEF InvPca, PcaTypeOK
    <2> QED BY <2>1, <2>2, <2>3, <2>4, <2>5
  <1>2. \/ r.chl = x + 1 /\ r.ovf = o
        \/ x + 1 = Top /\ r.chl = 0 /\ r.ovf = o + 1
    BY PcaPulseKeeps DEF CountedPca
  <1>3. (o + 1) * Top = o * Top + Top /\ o * Top \in Nat
    BY <1>1, Products
  <1> HIDE DEF r, x, o
  <1>4. CASE r.chl = x + 1 /\ r.ovf = o
    <2>1. chl + (i + 1) = (x + 1) + o * Top
      BY <1>1, <1>3
    <2> QED BY <1>1, <1>4, <2>1 DEF CountedPca, r
  <1>5. CASE x + 1 = Top /\ r.chl = 0 /\ r.ovf = o + 1
    <2>1. chl + (i + 1) = 0 + (o + 1) * Top
      BY <1>1, <1>3, <1>5
    <2> QED BY <1>1, <1>5, <2>1 DEF CountedPca, r
  <1> QED BY <1>2, <1>4, <1>5

(* do_pca_counter counts n pulses.                                         *)
LEMMA CounterCounts ==
  ASSUME InvPca, NEW n \in Nat, NEW s, s = do_pca_counter(Now, n)
  PROVE  /\ PcaState(s) /\ s.chl = AfterOf(chl, Top, 0, n)
         /\ s.ovf = OverflowsOf(chl, Top, 0, n)
  <1>1. PICK f : FollowsPca(f, Now, n) /\ do_pca_counter(Now, n) = f[n]
    <2>1. \A f : FollowsPca(f, Now, n)
                   <=> f = [k \in 0 .. n |-> IF k = 0 THEN Now ELSE PcaPulse(f[k - 1])]
      BY DEF FollowsPca
    <2> QED BY <2>1, PcaRunExists DEF do_pca_counter
  <1> DEFINE Good == {i \in Nat : i <= n => CountedPca(i, f[i])}
  <1>2. \A i \in 0 .. n : f[i] = IF i = 0 THEN Now ELSE PcaPulse(f[i - 1])
    BY <1>1 DEF FollowsPca
  <1>3. 0 \in Good
    BY <1>2, NowState
  <1>4. ASSUME NEW i \in Nat, i \in Good PROVE i + 1 \in Good
    <2>1. SUFFICES ASSUME i + 1 <= n PROVE CountedPca(i + 1, f[i + 1])
      OBVIOUS
    <2>2. CountedPca(i, f[i])
      BY <1>4, <2>1
    <2>3. i + 1 \in 0 .. n /\ i + 1 # 0 /\ (i + 1) - 1 = i
      BY <2>1
    <2>4. f[i + 1] = PcaPulse(f[i])
      BY <1>2, <2>3
    <2> QED BY <2>2, <2>4, PulseCounted
  <1> HIDE DEF Good
  <1>5. n \in Good
    BY <1>3, <1>4, Induct
  <1>6. CountedPca(n, s)
    BY <1>1, <1>5 DEF Good
  <1> DEFINE x == s.chl
             o == s.ovf
             r == 0
  <1>7. /\ PcaState(s) /\ chl \in Nat /\ chl < Top /\ Top \in Nat /\ x \in Nat /\ x < Top
        /\ o \in Nat /\ chl + n = x + o * Top
    BY <1>6, PcaSizes DEF CountedPca, PcaState, Counts16, InvPca, PcaTypeOK
  <1>8. r \in Nat /\ r < Top /\ Top - r = Top /\ (o > 0 => r <= x)
    BY <1>7, PcaSizes
  <1>9. r = 0
    OBVIOUS
  <1> HIDE DEF x, o, r
  <1>10. chl + n = x + o * (Top - r)
    BY <1>7, <1>8
  <1>11. x = AfterOf(chl, Top, r, n) /\ o = OverflowsOf(chl, Top, r, n)
    BY <1>7, <1>8, <1>10, Closed
  <1> QED BY <1>7, <1>9, <1>11 DEF x, o
-----------------------------------------------------------------------------
\* an overflow is flagged, and a module that is flagged compares or saw its edge
Flagged ==
  pcaLast'.n >= 0 =>
    /\ pcaLast'.ovf > 0 => CF \in ccon'
    /\ \A m \in (ccon' \ ccon) \ {CF} : "ECOM" \notin ccapm[m] =>
         m \in seen.any /\ ("CAPN" \notin ccapm[m] => m \in seen.up)

(* A tick counts its pulses and flags what it must.                        *)
LEMMA PcaTickStep ==
  ASSUME InvPca, NEW c \in 1 .. PcaCycles, NEW idle \in BOOLEAN, PcaTick(c, idle)
  PROVE  InvPca' /\ PcaCounter!Count /\ Flagged
  <1> DEFINE n == CASE cmod.clk = "cycle" -> c
                    [] cmod.clk = "three" -> 3 * c
                    [] cmod.clk = "t0" -> pulses.t0
                    [] OTHER -> pulses.eci
             s == do_pca_counter(Now, n)
  <1>1. n \in Nat
    <2>1. /\ c \in Nat /\ 3 * c \in Nat /\ PcaEdges \in Nat
          /\ cmod.clk \in {"cycle", "three", "t0", "eci"}
      BY PcaSizes DEF InvPca, PcaTypeOK, Sources
    <2>2. pulses.t0 \in Nat /\ pulses.eci \in Nat
      BY <2>1 DEF InvPca, PcaTypeOK
    <2> QED BY <2>1, <2>2
  <1>2. /\ chl' = s.chl /\ ccap' = s.ccap /\ ccon' = s.ccon /\ p1' = s.p1
        /\ cex_pos' = s.pos /\ cex_neg' = s.neg
        /\ pulses' = CASE cmod.clk = "t0" -> [s.pulses EXCEPT !.t0 = 0]
                       [] cmod.clk = "eci" -> [s.pulses EXCEPT !.eci = 0]
                       [] OTHER -> s.pulses
        /\ pcaLast' = [n |-> n, ovf |-> s.ovf]
        /\ seen' = [seen EXCEPT !.up = @ \ s.took]
        /\ UNCHANGED <<cmod, CR, ccapm, pins>>
    BY DEF PcaTick
  <1> HIDE DEF n
  <1>3. /\ PcaState(s) /\ s.chl = AfterOf(chl, Top, 0, n)
        /\ s.ovf = OverflowsOf(chl, Top, 0, n)
    BY <1>1, CounterCounts
  <1> HIDE DEF s
  <1>4. pulses' \in PulseType
    <2>1. s.pulses \in PulseType /\ PcaEdges \in Nat
      BY <1>3, PcaSizes DEF PcaState
    <2>2. /\ [s.pulses EXCEPT !.t0 = 0] \in PulseType
          /\ [s.pulses EXCEPT !.eci = 0] \in PulseType
      BY <2>1 DEF PulseType
    <2> QED BY <1>2, <2>1, <2>2
  <1>5. /\ seen' \in [up : SUBSET Mods, any : SUBSET Mods]
        /\ seen'.up = seen.up \ s.took /\ seen'.any = seen.any
    BY <1>2 DEF InvPca
  <1>6. cex_pos' \cup cex_neg' \subseteq seen'.any /\ cex_pos' \subseteq seen'.up
    BY <1>2, <1>3, <1>5 DEF InvPca, PcaState
  <1>7. /\ pcaLast'.n = n /\ pcaLast'.ovf = s.ovf /\ pcaLast' \in LastTypePca
    BY <1>1, <1>2, <1>3 DEF PcaState, LastTypePca
  <1>8. PcaTypeOK'
    <2>1. chl' \in 0 .. Top - 1 /\ ccap' \in [Mods -> 0 .. Top - 1]
      BY <1>2, <1>3 DEF PcaState, Counts16
    <2>2. ccon' \subseteq Mods \cup {CF} /\ p1' \subseteq Pins
      BY <1>2, <1>3 DEF PcaState
    <2>3. cex_pos' \cup cex_neg' \subseteq Mods
      BY <1>2, <1>3 DEF PcaState, InvPca, PcaTypeOK
    <2> QED BY <1>2, <1>4, <2>1, <2>2, <2>3 DEF InvPca, PcaTypeOK, PulseType
  <1>9. InvPca'
    BY <1>5, <1>6, <1>7, <1>8 DEF InvPca, LastTypePca
  <1>10. PcaCounter!Count
    BY <1>1, <1>2, <1>3, <1>7
    DEF PcaCounter!Count, PcaCounter!After, PcaCounter!Overflows, PcaCounter!Excess,
        AfterOf, OverflowsOf
  <1>11. Flagged
    BY <1>2, <1>3, <1>7 DEF Flagged, PcaState, Edged
  <1> QED BY <1>9, <1>10, <1>11

\* types of registers, kept folded in the steps below
CcapSet == [Mods -> 0 .. Top - 1]
CmodSet == [clk : Sources, CIDL : BOOLEAN, WDTE : BOOLEAN]

(* Writes, events and the reset keep the edges that were seen.             *)
LEMMA PcaWriteStep ==
  ASSUME InvPca, PcaNext, ~\E c \in 1 .. PcaCycles, idle \in BOOLEAN : PcaTick(c, idle)
  PROVE  InvPca' /\ PcaWritten
  <1> USE DEF CmodSet, CcapSet
  <1>1. /\ cmod \in CmodSet /\ CR \in BOOLEAN /\ ccapm \in [Mods -> CcapmSet] /\ ccap \in CcapSet
        /\ chl \in 0 .. Top - 1 /\ ccon \subseteq Mods \cup {CF} /\ pulses \in PulseType
        /\ cex_pos \cup cex_neg \subseteq Mods /\ p1 \subseteq Pins /\ pins \subseteq Pins
        /\ seen \in [up : SUBSET Mods, any : SUBSET Mods]
        /\ cex_pos \cup cex_neg \subseteq seen.any /\ cex_pos \subseteq seen.up
    BY DEF InvPca, PcaTypeOK, PulseType
  <1>2. PcaWritten => pcaLast' \in LastTypePca
    BY DEF PcaWritten, LastTypePca
  <1>3. NoPulses \in PulseType /\ PcaEdges \in Nat /\ 0 \in 0 .. Top - 1
    BY PcaSizes DEF NoPulses, PulseType
  <1> HIDE DEF CmodSet, CcapSet
  <1>4. ASSUME WriteCmod PROVE InvPca' /\ PcaWritten
    <2>1. /\ cmod' \in CmodSet /\ pulses' \in PulseType /\ PcaWritten
          /\ UNCHANGED <<CR, ccapm, ccap, chl, ccon, cex_pos, cex_neg, p1, pins, seen>>
      BY <1>1, <1>3, <1>4 DEF WriteCmod, CmodSet
    <2>2. PcaTypeOK'
      BY <1>1, <2>1 DEF PcaTypeOK, CmodSet, CcapSet, PulseType
    <2> QED BY <1>1, <1>2, <2>1, <2>2 DEF InvPca, LastTypePca
  <1>5. ASSUME WriteCcon PROVE InvPca' /\ PcaWritten
    <2>1. /\ CR' \in BOOLEAN /\ ccon' \subseteq Mods \cup {CF} /\ PcaWritten
          /\ UNCHANGED <<cmod, ccapm, ccap, chl, pulses, cex_pos, cex_neg, p1, pins, seen>>
      BY <1>5 DEF WriteCcon
    <2>2. PcaTypeOK'
      BY <1>1, <2>1 DEF PcaTypeOK, CmodSet, CcapSet, PulseType
    <2> QED BY <1>1, <1>2, <2>1, <2>2 DEF InvPca, LastTypePca
  <1>6. ASSUME WriteCcapm PROVE InvPca' /\ PcaWritten
    <2>1. PICK m \in Mods, v \in CcapmSet :
            LET forgets == IF v # ccapm[m] THEN {m} ELSE {}
            IN /\ ccapm' = [ccapm EXCEPT ![m] = v]
               /\ cex_pos' = cex_pos \ forgets /\ cex_neg' = cex_neg \ forgets
               /\ seen' = [up |-> seen.up \ forgets, any |-> seen.any \ forgets]
               /\ PcaWritten /\ UNCHANGED <<cmod, CR, ccap, chl, ccon, pulses, p1, pins>>
      BY <1>6 DEF WriteCcapm
    <2> DEFINE forgets == IF v # ccapm[m] THEN {m} ELSE {}
    <2>2. /\ cex_pos' = cex_pos \ forgets /\ cex_neg' = cex_neg \ forgets
          /\ seen' = [up |-> seen.up \ forgets, any |-> seen.any \ forgets]
      BY <2>1
    <2>3. ccapm' \in [Mods -> CcapmSet]
      BY <1>1, <2>1
    <2> HIDE DEF forgets
    <2>4. /\ seen' \in [up : SUBSET Mods, any : SUBSET Mods]
          /\ seen'.up = seen.up \ forgets /\ seen'.any = seen.any \ forgets
      BY <1>1, <2>2
    <2>5. /\ cex_pos' \cup cex_neg' \subseteq seen'.any /\ cex_pos' \subseteq seen'.up
          /\ cex_pos' \cup cex_neg' \subseteq Mods
      BY <1>1, <2>2, <2>4
    <2>6. PcaTypeOK'
      BY <1>1, <2>1, <2>3, <2>5 DEF PcaTypeOK, CmodSet, CcapSet, PulseType
    <2> QED BY <1>2, <2>1, <2>4, <2>5, <2>6 DEF InvPca, LastTypePca
  <1>7. ASSUME WriteCells PROVE InvPca' /\ PcaWritten
    <2>1. /\ chl' \in 0 .. Top - 1 /\ ccap' \in CcapSet /\ PcaWritten
          /\ UNCHANGED <<cmod, CR, ccapm, ccon, pulses, cex_pos, cex_neg, p1, pins, seen>>
      BY <1>1, <1>7 DEF WriteCells, CcapSet
    <2>2. PcaTypeOK'
      BY <1>1, <2>1 DEF PcaTypeOK, CmodSet, CcapSet, PulseType
    <2> QED BY <1>1, <1>2, <2>1, <2>2 DEF InvPca, LastTypePca
  <1>8. ASSUME HappenOverflow PROVE InvPca' /\ PcaWritten
    <2>1. /\ pulses' \in PulseType /\ PcaWritten
          /\ UNCHANGED <<cmod, CR, ccapm, ccap, chl, ccon, cex_pos, cex_neg, p1, pins, seen>>
      BY <1>1, <1>3, <1>8 DEF HappenOverflow, PulseType
    <2>2. PcaTypeOK'
      BY <1>1, <2>1 DEF PcaTypeOK, CmodSet, CcapSet, PulseType
    <2> QED BY <1>1, <1>2, <2>1, <2>2 DEF InvPca, LastTypePca
  <1>9. ASSUME HappenPort PROVE InvPca' /\ PcaWritten
    <2> DEFINE falling == (p1 \cap pins) \ (p1' \cap pins')
               rising == (p1' \cap pins') \ (p1 \cap pins)
    <2>1. /\ ECI \in falling => pulses.eci < PcaEdges
          /\ pulses' = IF ECI \in falling THEN [pulses EXCEPT !.eci = @ + 1] ELSE pulses
          /\ cex_neg' = cex_neg \cup (falling \cap Mods)
          /\ cex_pos' = cex_pos \cup (rising \cap Mods)
          /\ seen' = [up |-> seen.up \cup (rising \cap Mods),
                      any |-> seen.any \cup ((falling \cup rising) \cap Mods)]
          /\ PcaWritten /\ UNCHANGED <<cmod, CR, ccapm, ccap, chl, ccon>>
      BY <1>9 DEF HappenPort
    <2>2. p1' \subseteq Pins /\ pins' \subseteq Pins
      BY <1>1, <1>9 DEF HappenPort
    <2> HIDE DEF falling, rising
    <2>3. pulses' \in PulseType
      BY <1>1, <1>3, <2>1 DEF PulseType
    <2>4. /\ seen' \in [up : SUBSET Mods, any : SUBSET Mods]
          /\ seen'.up = seen.up \cup (rising \cap Mods)
          /\ seen'.any = seen.any \cup ((falling \cup rising) \cap Mods)
      BY <1>1, <2>1
    <2>5. /\ cex_pos' \cup cex_neg' \subseteq seen'.any /\ cex_pos' \subseteq seen'.up
          /\ cex_pos' \cup cex_neg' \subseteq Mods
      BY <1>1, <2>1, <2>4
    <2>6. PcaTypeOK'
      BY <1>1, <2>1, <2>2, <2>3, <2>5 DEF PcaTypeOK, CmodSet, CcapSet, PulseType
    <2> QED BY <1>2, <2>1, <2>4, <2>5, <2>6 DEF InvPca, LastTypePca
  <1>10. ASSUME PcaReset PROVE InvPca' /\ PcaWritten
    <2>1. /\ pulses' = NoPulses /\ cex_pos' = pins \cap Mods /\ cex_neg' = {}
          /\ seen' = [up |-> cex_pos', any |-> cex_pos']
          /\ ccap' = [m \in Mods |-> 0] /\ chl' = 0 /\ ccon' = {} /\ p1' = Pins
          /\ PcaWritten /\ UNCHANGED <<cmod, CR, ccapm, pins>>
      BY <1>10 DEF PcaReset
    <2>2. ccap' \in CcapSet
      BY <1>3, <2>1 DEF CcapSet
    <2>3. /\ seen' \in [up : SUBSET Mods, any : SUBSET Mods]
          /\ seen'.up = cex_pos' /\ seen'.any = cex_pos'
      BY <2>1
    <2>4. PcaTypeOK'
      BY <1>1, <1>3, <2>1, <2>2 DEF PcaTypeOK, CmodSet, CcapSet, PulseType
    <2> QED BY <1>2, <2>1, <2>3, <2>4 DEF InvPca, LastTypePca
  <1> QED BY <1>4, <1>5, <1>6, <1>7, <1>8, <1>9, <1>10 DEF PcaNext

(* The array implements PulseCounter through every change of its clock,    *)
(* flags each overflow, and flags a module that does not compare only for  *)
(* an edge of its pin that its mode waits for and that no capture took:    *)
(* for every width, set of modules, modes and number of pulses.            *)
THEOREM PcaCountsAlways == PcaSpec => PcaCounts
  <1>1. PcaInit => InvPca /\ PcaCounter!Init
    <2> SUFFICES ASSUME PcaInit PROVE InvPca /\ PcaCounter!Init
      OBVIOUS
    <2>1. Top \in Nat \ {0} /\ 0 \in 0 .. Top - 1 /\ PcaEdges \in Nat
      BY PcaSizes
    <2>2. pulses \in PulseType
      BY <2>1 DEF PcaInit, NoPulses, PulseType
    <2>3. pcaLast \in LastTypePca /\ pcaLast.n = -1 /\ pcaLast.ovf = 0
      BY DEF PcaInit, LastTypePca
    <2>4. /\ seen \in [up : SUBSET Mods, any : SUBSET Mods]
          /\ seen.up = cex_pos /\ seen.any = cex_pos /\ cex_neg = {} /\ cex_pos \subseteq Mods
      BY DEF PcaInit
    <2>5. PcaTypeOK
      BY <2>1, <2>2, <2>4 DEF PcaInit, PcaTypeOK, PulseType
    <2>6. PcaCounter!Init
      BY <2>1, <2>3 DEF PcaInit, PcaCounter!Init, PcaCounter!InRange
    <2> QED BY <2>3, <2>4, <2>5, <2>6 DEF InvPca
  <1>2. InvPca /\ [PcaNext]_pcaVars
          => /\ InvPca' /\ [PcaCounter!Count \/ PcaCounter!Load]_(PcaCounter!counter)
             /\ [Flagged]_pcaVars
    <2> SUFFICES ASSUME InvPca, [PcaNext]_pcaVars
                 PROVE  /\ InvPca' /\ [PcaCounter!Count \/ PcaCounter!Load]_(PcaCounter!counter)
                        /\ [Flagged]_pcaVars
      OBVIOUS
    <2>1. CASE \E c \in 1 .. PcaCycles, idle \in BOOLEAN : PcaTick(c, idle)
      BY <2>1, PcaTickStep
    <2>2. CASE PcaNext /\ ~\E c \in 1 .. PcaCycles, idle \in BOOLEAN : PcaTick(c, idle)
      <3>1. InvPca' /\ PcaWritten
        BY <2>2, PcaWriteStep
      <3>2. pcaLast'.n = -1 /\ pcaLast'.ovf = 0 /\ chl' < Top /\ 0 < Top
        BY <3>1, PcaSizes DEF PcaWritten, InvPca, PcaTypeOK
      <3>3. PcaCounter!Load
        BY <3>2 DEF PcaCounter!Load, PcaCounter!InRange
      <3>4. Flagged
        BY <3>2 DEF Flagged
      <3> QED BY <3>1, <3>3, <3>4
    <2>3. CASE UNCHANGED pcaVars
      <3>1. InvPca'
        BY <2>3 DEF InvPca, PcaTypeOK, pcaVars
      <3>2. UNCHANGED PcaCounter!counter
        BY <2>3 DEF pcaVars, PcaCounter!counter
      <3> QED BY <2>3, <3>1, <3>2
    <2> QED BY <2>1, <2>2, <2>3
  <1>3. InvPca => PcaTypeOK
    BY DEF InvPca
  <1> QED BY <1>1, <1>2, <1>3, PTL DEF PcaSpec, PcaCounts, PcaCounter!Spec, Flagged
=============================================================================

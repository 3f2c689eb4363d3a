--------------------------- MODULE Memory_proofs ----------------------------
(***************************************************************************)
(* What keeps and moves data: the stack and its tracker, the DMA           *)
(* controller, the collections and the address spaces.                     *)
(*                                                                         *)
(* For every size of the internal RAM, every width of a byte and every SP  *)
(* after reset: a stack the tracker has not complained about is what the   *)
(* tracker says it is, and a return it accepts goes back to the caller.    *)
(* For every number of channels, size of XRAM and set of blocks: the       *)
(* registers of the DMA controller keep their types, a channel raises its  *)
(* flag exactly when the units of its block have been moved, and a tick    *)
(* writes only to the destination of the block.  For every set of keys,    *)
(* growth and largest size of a list: the binary search finds what is      *)
(* there, and the list stays in order and within its array.  For every     *)
(* size of an address space and of its chips: it stays consistent,         *)
(* whatever decoders are activated over each other.                        *)
(***************************************************************************)
EXTENDS StackTracker, Dma2530, Memory, TLAPS, SequenceTheorems, FiniteSetTheorems,
        WellFoundedInduction
-----------------------------------------------------------------------------
(* The stack and its tracker.                                              *)

(* How far a cell is below the top of the stack; SP may have wrapped.      *)
Dist(at, c) == IF c <= at THEN at - c ELSE at + SpMod - c

(* The bytes of an operation are in the RAM.                               *)
Holds(o, ram) ==
  /\ ram[Up(o.before, 1)] = o.data % Base
  /\ o.op # "push" => ram[Up(o.before, 2)] = o.data \div Base

(* What is true of a trusted stack: the operations follow each other up to *)
(* SP and hold their bytes, and their cells are among the top n ones, each *)
(* in one operation only.  Without the last two the next push could write  *)
(* over an operation, and the end of one take cells of another.            *)
Adjacent(ops, at) ==
  /\ \A i \in 1 .. Len(ops) - 1 : ops[i].after = ops[i + 1].before
  /\ ops # <<>> => ops[Len(ops)].after = at

Sound(o, at, ram, n) ==
  /\ Holds(o, ram) /\ o.after = Up(o.before, Size(o.op))
  /\ \A c \in CellsOf(o) : Dist(at, c) < n

Apart(ops) ==
  \A i, j \in 1 .. Len(ops) : \A c \in CellsOf(ops[i]) : c \in CellsOf(ops[j]) => i = j

StackFits(ops, at, ram, n) ==
  /\ n <= SpMod
  /\ Adjacent(ops, at) /\ Apart(ops)
  /\ \A i \in 1 .. Len(ops) : Sound(ops[i], at, ram, n)

StackInv == TypeOK /\ (Trusted => StackFits(stack_ops, sp, iram, live))
-----------------------------------------------------------------------------
(* The arithmetic of SP and of addresses.                                  *)

(* SP goes up by one or two, and wraps at most once.                       *)
LEMMA UpIs ==
  ASSUME NEW at \in IramCell, NEW n \in 1 .. 2
  PROVE  /\ Up(at, n) = IF at + n < SpMod THEN at + n ELSE at + n - SpMod
         /\ Up(at, n) \in IramCell
  <1> USE StackAssumption
  <1>1. CASE at + n < SpMod
    <2>1. (at + n) % SpMod = at + n
      BY <1>1 DEF IramCell
    <2> QED BY <1>1, <2>1 DEF Up, IramCell
  <1>2. CASE ~(at + n < SpMod)
    <2>1. (at + n) % SpMod = at + n - SpMod
      BY <1>2 DEF IramCell
    <2> QED BY <1>2, <2>1 DEF Up, IramCell
  <1> QED BY <1>1, <1>2

(* SP goes down likewise.                                                  *)
LEMMA DownIs ==
  ASSUME NEW at \in IramCell, NEW n \in 1 .. 2
  PROVE  /\ Down(at, n) = IF at >= n THEN at - n ELSE at + SpMod - n
         /\ Down(at, n) \in IramCell
  <1> USE StackAssumption
  <1>1. CASE at < n
    <2>1. (at + SpMod - n) % SpMod = at + SpMod - n
      BY <1>1 DEF IramCell
    <2> QED BY <1>1, <2>1 DEF Down, IramCell
  <1>2. CASE ~(at < n)
    <2>1. (at + SpMod - n) % SpMod = at - n
      BY <1>2 DEF IramCell
    <2> QED BY <1>2, <2>1 DEF Down, IramCell
  <1> QED BY <1>1, <1>2 DEF IramCell

(* Pulling SP back undoes pushing it forward.                              *)
LEMMA DownUp ==
  ASSUME NEW at \in IramCell, NEW n \in 1 .. 2
  PROVE  Down(Up(at, n), n) = at /\ Down(Up(at, 2), 1) = Up(at, 1)
  <1>1. /\ Up(at, 1) = IF at + 1 < SpMod THEN at + 1 ELSE at + 1 - SpMod
        /\ Up(at, 2) = IF at + 2 < SpMod THEN at + 2 ELSE at + 2 - SpMod
        /\ Up(at, 1) \in IramCell /\ Up(at, 2) \in IramCell
    BY UpIs
  <1>2. \A t \in IramCell : \A k \in 1 .. 2 :
          Down(t, k) = IF t >= k THEN t - k ELSE t + SpMod - k
    BY DownIs
  <1>3. Down(Up(at, 1), 1) = at
    BY <1>1, <1>2, StackAssumption DEF IramCell
  <1>4. Down(Up(at, 2), 2) = at /\ Down(Up(at, 2), 1) = Up(at, 1)
    BY <1>1, <1>2, StackAssumption DEF IramCell
  <1>5. n = 1 \/ n = 2
    OBVIOUS
  <1> QED BY <1>3, <1>4, <1>5

(* Two bytes make an address and an address two bytes (high byte first in  *)
(* inst_ret, low byte first in inst_lcall).                                *)
LEMMA AddrOfBytes ==
  ASSUME NEW a \in Addr
  PROVE  /\ a % Base \in StackByte /\ a \div Base \in StackByte
         /\ (a \div Base) * Base + (a % Base) = a
  <1> USE StackAssumption
  <1>1. a \in Nat /\ Base \in Nat \ {0}
    BY DEF Addr
  <1>2. a % Base \in StackByte
    BY <1>1 DEF StackByte
  <1>3. a \div Base \in StackByte
    BY <1>1 DEF StackByte, Addr
  <1>4. a % Base = a - (a \div Base) * Base
    BY <1>1, SMTT(30)
  <1>5. (a \div Base) * Base \in Int
    BY <1>1, <1>3 DEF StackByte
  <1> QED BY <1>1, <1>2, <1>3, <1>4, <1>5

(* Two bytes are an address, and so is one.                                *)
LEMMA BytesOfAddr ==
  ASSUME NEW h \in StackByte, NEW l \in StackByte
  PROVE  h * Base + l \in Addr /\ l \in Addr
  BY StackAssumption DEF StackByte, Addr

(* cl_uc51_dummy_hw::write keeps sp_max and sp_avg values of SP.           *)
LEMMA SpTypes ==
  ASSUME NEW m \in IramCell, NEW at \in IramCell
  PROVE  MaxOf(m, at) \in IramCell /\ AvgOf(m, at) \in IramCell
  <1>1. m \in 0 .. SpMod - 1 /\ at \in 0 .. SpMod - 1 /\ SpMod \in Nat
    BY StackAssumption DEF IramCell
  <1>2. MaxOf(m, at) \in IramCell
    BY DEF MaxOf
  <1>3. (m + at) \div 2 \in 0 .. SpMod - 1
    BY <1>1
  <1> QED BY <1>2, <1>3 DEF AvgOf, IramCell

(* A cell is less than the whole RAM below the top.                        *)
LEMMA DistType ==
  ASSUME NEW at \in IramCell, NEW c \in IramCell
  PROVE  Dist(at, c) \in 0 .. SpMod - 1
  BY StackAssumption DEF Dist, IramCell

(* The cells above SP are the farthest below it.                           *)
LEMMA DistUp ==
  ASSUME NEW at \in IramCell, NEW n \in 1 .. 2, NEW j \in 1 .. n
  PROVE  /\ Dist(at, Up(at, j)) = SpMod - j
         /\ Dist(Up(at, n), Up(at, j)) = n - j
         /\ \A c \in IramCell : Dist(at, c) + n < SpMod => Dist(Up(at, n), c) = Dist(at, c) + n
         /\ \A c \in IramCell : Dist(at, c) >= SpMod - n => c = Up(at, 1) \/ (n = 2 /\ c = Up(at, 2))
  <1>1. /\ Up(at, 1) = IF at + 1 < SpMod THEN at + 1 ELSE at + 1 - SpMod
        /\ Up(at, 2) = IF at + 2 < SpMod THEN at + 2 ELSE at + 2 - SpMod
    BY UpIs
  <1>2. n = 1 \/ n = 2
    OBVIOUS
  <1>3. j = 1 \/ (n = 2 /\ j = 2)
    BY <1>2
  <1> USE StackAssumption DEF Dist, IramCell
  <1>4. Dist(at, Up(at, j)) = SpMod - j
    BY <1>1, <1>3
  <1>5. Dist(Up(at, n), Up(at, j)) = n - j
    BY <1>1, <1>2, <1>3
  <1>6. ASSUME NEW c \in IramCell, Dist(at, c) + n < SpMod
        PROVE  Dist(Up(at, n), c) = Dist(at, c) + n
    BY <1>1, <1>2, <1>6
  <1>7. ASSUME NEW c \in IramCell, Dist(at, c) >= SpMod - n
        PROVE  c = Up(at, 1) \/ (n = 2 /\ c = Up(at, 2))
    BY <1>1, <1>2, <1>7
  <1> QED BY <1>4, <1>5, <1>6, <1>7

(* A cell that SP has not passed is nearer to it afterwards.               *)
LEMMA DistDown ==
  ASSUME NEW at \in IramCell, NEW n \in 1 .. 2, NEW c \in IramCell
  PROVE  /\ Dist(at, c) >= n => Dist(Down(at, n), c) = Dist(at, c) - n
         /\ Dist(at, c) < n => c = at \/ (n = 2 /\ c = Down(at, 1))
  BY DownIs, StackAssumption DEF Dist, IramCell

(* The cells of an operation.                                              *)
LEMMA CellsAre ==
  ASSUME NEW o \in OpType
  PROVE  /\ Size(o.op) \in 1 .. 2 /\ o.before \in IramCell
         /\ o.op = "push" <=> Size(o.op) = 1
         /\ CellsOf(o) \subseteq IramCell
         /\ Up(o.before, 1) \in CellsOf(o)
         /\ Size(o.op) = 2 => Up(o.before, 2) \in CellsOf(o)
         /\ \A c \in CellsOf(o) : c = Up(o.before, 1) \/ (Size(o.op) = 2 /\ c = Up(o.before, 2))
  <1>1. o.op \in WriteOps /\ o.before \in IramCell
    BY DEF OpType
  <1>2. Size(o.op) \in 1 .. 2 /\ (o.op = "push" <=> Size(o.op) = 1)
    BY <1>1 DEF Size, WriteOps
  <1>3. \A n \in 1 .. Size(o.op) : n \in 1 .. 2
    BY <1>2
  <1>4. CellsOf(o) \subseteq IramCell
    BY <1>1, <1>3, UpIs DEF CellsOf
  <1>5. 1 \in 1 .. Size(o.op) /\ (Size(o.op) = 2 => 2 \in 1 .. Size(o.op))
    BY <1>2
  <1>6. \A n \in 1 .. Size(o.op) : n = 1 \/ (Size(o.op) = 2 /\ n = 2)
    BY <1>2
  <1> QED BY <1>1, <1>2, <1>4, <1>5, <1>6 DEF CellsOf
-----------------------------------------------------------------------------
(* An operation on a stack that it does not fill over its bottom writes    *)
(* over none of the tracked bytes (stack_write).                           *)
LEMMA WriteFits ==
  ASSUME NEW ops \in Seq(OpType), NEW at \in IramCell, NEW ram, NEW ram2, NEW n \in Nat,
         NEW o \in OpType, o.before = at, o.after = Up(at, Size(o.op)),
         StackFits(ops, at, ram, n), n + Size(o.op) <= SpMod,
         Holds(o, ram2), \A c \in IramCell \ CellsOf(o) : ram2[c] = ram[c]
  PROVE  StackFits(Append(ops, o), o.after, ram2, n + Size(o.op))
  <1> DEFINE z == Size(o.op)
             t == Up(at, z)
             new == Append(ops, o)
             L == Len(ops)
  <1>1. /\ z \in 1 .. 2 /\ CellsOf(o) \subseteq IramCell
        /\ \A c \in CellsOf(o) : c = Up(at, 1) \/ (z = 2 /\ c = Up(at, 2))
    BY CellsAre
  <1>2. t \in IramCell /\ SpMod \in Nat
    BY <1>1, UpIs, StackAssumption
  <1>3. /\ L \in Nat /\ Len(new) = L + 1 /\ new[L + 1] = o /\ new # <<>>
        /\ \A i \in 1 .. L : new[i] = ops[i] /\ ops[i] \in OpType
    BY AppendProperties, LenProperties, ElementOfSeq
  <1> HIDE DEF z, t, new, L
  <1>4. \A c \in CellsOf(o) : Dist(at, c) >= SpMod - z /\ Dist(t, c) < z
    <2> SUFFICES ASSUME NEW c \in CellsOf(o)
                 PROVE  Dist(at, c) >= SpMod - z /\ Dist(t, c) < z
      OBVIOUS
    <2>1. PICK j \in 1 .. z : c = Up(at, j)
      BY <1>1
    <2>2. Dist(at, c) = SpMod - j /\ Dist(t, c) = z - j
      BY <1>1, <2>1, DistUp DEF t
    <2> QED BY <1>1, <1>2, <2>1, <2>2
  <1>5. ASSUME NEW i \in 1 .. L, NEW c \in CellsOf(ops[i])
        PROVE  c \in IramCell /\ Dist(at, c) < n /\ c \notin CellsOf(o) /\ Dist(t, c) = Dist(at, c) + z
    <2>1. c \in IramCell /\ Dist(at, c) < n
      BY <1>3, <1>5, CellsAre DEF StackFits, Sound, L
    <2>2. Dist(at, c) \in 0 .. SpMod - 1
      BY <2>1, DistType
    <2>3. Dist(at, c) + z < SpMod
      BY <1>1, <1>2, <2>1, <2>2 DEF z
    <2>4. c \notin CellsOf(o)
      BY <1>1, <1>2, <1>4, <2>2, <2>3
    <2>5. 1 \in 1 .. z
      BY <1>1
    <2> QED BY <1>1, <2>1, <2>3, <2>4, <2>5, DistUp DEF t
  <1>6. ASSUME NEW i \in 1 .. L + 1
        PROVE  Sound(new[i], t, ram2, n + z)
    <2>1. CASE i = L + 1
      <3>1. Holds(new[i], ram2) /\ new[i].after = Up(new[i].before, Size(new[i].op))
        BY <1>3, <2>1
      <3>2. \A c \in CellsOf(new[i]) : Dist(t, c) < n + z
        <4> SUFFICES ASSUME NEW c \in CellsOf(o) PROVE Dist(t, c) < n + z
          BY <1>3, <2>1
        <4>1. Dist(t, c) < z /\ Dist(t, c) \in 0 .. SpMod - 1
          BY <1>1, <1>2, <1>4, DistType
        <4> QED BY <4>1, <1>1
      <3> QED BY <3>1, <3>2 DEF Sound
    <2>2. CASE i \in 1 .. L
      <3>1. new[i] = ops[i] /\ Sound(ops[i], at, ram, n) /\ ops[i] \in OpType
        BY <1>3, <2>2 DEF StackFits, L
      <3>2. \A c \in CellsOf(ops[i]) : ram2[c] = ram[c]
        BY <1>5, <2>2
      <3>3. Holds(ops[i], ram2)
        <4>1. ops[i].op # "push" => Size(ops[i].op) = 2
          BY <3>1, CellsAre
        <4> QED BY <3>1, <3>2, <4>1, CellsAre DEF Sound, Holds
      <3>4. \A c \in CellsOf(ops[i]) : Dist(t, c) < n + z
        <4> SUFFICES ASSUME NEW c \in CellsOf(ops[i]) PROVE Dist(t, c) < n + z
          OBVIOUS
        <4>1. c \in IramCell /\ Dist(at, c) < n /\ Dist(t, c) = Dist(at, c) + z
          BY <1>5, <2>2
        <4>2. Dist(at, c) \in 0 .. SpMod - 1
          BY <4>1, DistType
        <4> QED BY <1>1, <4>1, <4>2
      <3> QED BY <3>1, <3>3, <3>4 DEF Sound
    <2> QED BY <1>3, <2>1, <2>2
  <1>7. Apart(new)
    <2> SUFFICES ASSUME NEW i \in 1 .. L + 1, NEW j \in 1 .. L + 1,
                        NEW c \in CellsOf(new[i]), c \in CellsOf(new[j])
                 PROVE  i = j
      BY <1>3 DEF Apart
    <2>1. (i \in 1 .. L \/ i = L + 1) /\ (j \in 1 .. L \/ j = L + 1)
      BY <1>3
    <2>2. CASE i \in 1 .. L /\ j \in 1 .. L
      BY <1>3, <2>2 DEF StackFits, Apart, L
    <2>3. CASE i \in 1 .. L /\ j = L + 1
      BY <1>3, <1>5, <2>3
    <2>4. CASE i = L + 1 /\ j \in 1 .. L
      BY <1>3, <1>5, <2>4
    <2> QED BY <2>1, <2>2, <2>3, <2>4
  <1>8. Adjacent(new, t)
    <2>1. new[Len(new)].after = t
      BY <1>3 DEF t, z
    <2>2. ASSUME NEW i \in 1 .. Len(new) - 1 PROVE new[i].after = new[i + 1].before
      <3>1. CASE i = L
        <4>1. L # 0
          BY <1>3, <3>1
        <4>2. ops # <<>>
          BY <4>1, EmptySeq DEF L
        <4>3. ops[L].after = at
          BY <4>2 DEF StackFits, Adjacent, L
        <4> QED BY <1>3, <3>1, <4>1, <4>3
      <3>2. CASE i # L
        <4>1. i \in 1 .. L - 1 /\ i + 1 \in 1 .. L
          BY <1>3, <3>2
        <4>2. ops[i].after = ops[i + 1].before
          BY <4>1 DEF StackFits, Adjacent, L
        <4> QED BY <1>3, <4>1, <4>2
      <3> QED BY <3>1, <3>2
    <2> QED BY <2>1, <2>2 DEF Adjacent
  <1> QED BY <1>3, <1>6, <1>7, <1>8 DEF StackFits, new, t, z

(* Taking off the last operation, and whatever else stack_read removes as  *)
(* long as the rest ends at SP, leaves a sound stack.                      *)
LEMMA ReadFits ==
  ASSUME NEW ops \in Seq(OpType), NEW at \in IramCell, NEW ram, NEW n \in Nat,
         NEW z \in 1 .. 2, ops # <<>>, z = Size(ops[Len(ops)].op),
         NEW k \in 0 .. Len(ops) - 1, k > 0 => ops[k].after = Down(at, z),
         StackFits(ops, at, ram, n)
  PROVE  StackFits(SubSeq(ops, 1, k), Down(at, z), ram, IF n >= z THEN n - z ELSE 0)
  <1> DEFINE new == SubSeq(ops, 1, k)
             t == Down(at, z)
             m == IF n >= z THEN n - z ELSE 0
             L == Len(ops)
             top == ops[L]
  <1>1. /\ L \in Nat \ {0} /\ k \in Nat /\ k < L
        /\ \A i \in 1 .. L : ops[i] \in OpType
    BY EmptySeq, LenProperties, ElementOfSeq
  <1>2. /\ new \in Seq(OpType) /\ Len(new) = k
        /\ \A i \in 1 .. k : new[i] = ops[i] /\ i \in 1 .. L
    <2>1. \A i \in 1 .. k : i \in 1 .. L /\ ops[i] \in OpType
      BY <1>1
    <2> QED BY <1>1, <2>1, SubSeqProperties
  <1>3. m \in Nat /\ m <= SpMod
    BY StackAssumption DEF StackFits
  <1>4. /\ top \in OpType /\ top.after = at /\ at = Up(top.before, z)
        /\ L \in 1 .. L
    BY <1>1 DEF StackFits, Adjacent, Sound
  <1> HIDE DEF new, t, m, L, top
  \* The cells that SP passes are those of the last operation.
  <1>5. at \in CellsOf(top) /\ (z = 2 => Down(at, 1) \in CellsOf(top))
    <2>1. /\ top.before \in IramCell /\ z = Size(top.op)
          /\ Up(top.before, 1) \in CellsOf(top)
          /\ Size(top.op) = 2 => Up(top.before, 2) \in CellsOf(top)
      BY <1>4, CellsAre DEF top, L
    <2>2. z = 2 => Down(at, 1) = Up(top.before, 1)
      BY <1>4, <2>1, DownUp
    <2> QED BY <1>4, <2>1, <2>2
  <1>6. ASSUME NEW i \in 1 .. k, NEW c \in CellsOf(ops[i])
        PROVE  Dist(t, c) < m
    <2>1. c \in IramCell /\ Dist(at, c) < n /\ i \in 1 .. L
      BY <1>1, <1>2, CellsAre DEF StackFits, Sound, L
    <2>2. c \notin CellsOf(top)
      <3>1. i # L
        BY <1>1
      <3>2. \A j \in 1 .. L : c \in CellsOf(ops[j]) => i = j
        BY <2>1 DEF StackFits, Apart, L
      <3> QED BY <1>4, <3>1, <3>2 DEF top
    <2>3. ~(Dist(at, c) < z)
      BY <1>5, <2>1, <2>2, DistDown
    <2>4. Dist(at, c) \in 0 .. SpMod - 1
      BY <2>1, DistType
    <2>5. Dist(t, c) = Dist(at, c) - z
      BY <2>1, <2>3, <2>4, DistDown DEF t
    <2> QED BY <2>1, <2>3, <2>4, <2>5 DEF m
  <1>7. ASSUME NEW i \in 1 .. k PROVE Sound(new[i], t, ram, m)
    <2>1. Sound(ops[i], at, ram, n)
      BY <1>2 DEF StackFits, L
    <2> QED BY <1>2, <1>6, <2>1 DEF Sound
  <1>8. Apart(new)
    BY <1>2 DEF StackFits, Apart, L
  <1>9. Adjacent(new, t)
    <2>1. new # <<>> => k > 0
      <3>1. \A q \in Seq(OpType) : q # <<>> => Len(q) \in Nat \ {0}
        BY EmptySeq
      <3> QED BY <1>1, <1>2, <3>1
    <2>2. new # <<>> => new[Len(new)].after = t
      BY <1>1, <1>2, <2>1 DEF t
    <2>3. ASSUME NEW i \in 1 .. Len(new) - 1 PROVE new[i].after = new[i + 1].before
      <3>1. i \in 1 .. k /\ i + 1 \in 1 .. k /\ i \in 1 .. L - 1
        BY <1>1, <1>2
      <3> QED BY <1>2, <3>1 DEF StackFits, Adjacent, L
    <2> QED BY <2>2, <2>3 DEF Adjacent
  <1> QED BY <1>2, <1>3, <1>7, <1>8, <1>9 DEF StackFits, new, t, m
-----------------------------------------------------------------------------
(* stack_write for the operations the instructions make.                   *)
LEMMA WriteKeeps ==
  ASSUME StackInv, NEW o \in OpType, o.before = sp, o.after = Up(sp, Size(o.op)),
         stack_write(o.op, o.data, o.after), sp' = o.after,
         iram' \in [IramCell -> StackByte], Holds(o, iram'),
         \A c \in IramCell \ CellsOf(o) : iram'[c] = iram[c]
  PROVE  /\ stack_ops' \in Seq(OpType) /\ live' \in Nat
         /\ errors' \subseteq {"empty", "unmatch", "inconsistent"} /\ tampered' \in BOOLEAN
         /\ Trusted' => StackFits(stack_ops', sp', iram', live')
  <1> DEFINE z == Size(o.op)
  <1>1. o = [op |-> o.op, before |-> sp, after |-> o.after, data |-> o.data]
    BY DEF OpType
  <1>2. /\ stack_ops' = Append(stack_ops, o) /\ live' = live + z /\ errors' = errors
        /\ tampered' = (tampered \/ live + z > SpMod)
    BY <1>1 DEF stack_write
  <1>3. stack_ops \in Seq(OpType) /\ live \in Nat /\ sp \in IramCell /\ z \in 1 .. 2
    BY CellsAre DEF StackInv, TypeOK
  <1>4. stack_ops' \in Seq(OpType)
    BY <1>2, <1>3, AppendProperties
  <1>5. tampered' \in BOOLEAN
    BY <1>2
  <1>6. ASSUME Trusted' PROVE StackFits(stack_ops', sp', iram', live')
    <2>1. errors = {} /\ ~tampered /\ ~(live + z > SpMod)
      BY <1>2, <1>6 DEF Trusted
    <2>2. StackFits(stack_ops, sp, iram, live)
      BY <2>1 DEF StackInv, Trusted
    <2>3. live + z <= SpMod
      BY <1>3, <2>1, StackAssumption
    <2> QED BY <1>2, <1>3, <2>2, <2>3, WriteFits
  <1>7. live' \in Nat /\ errors' \subseteq {"empty", "unmatch", "inconsistent"}
    BY <1>2, <1>3 DEF StackInv, TypeOK
  <1> QED BY <1>4, <1>5, <1>6, <1>7

(* A read that matches the last operation removes it: the while loop of    *)
(* stack_read stops below it (can_removed).                                *)
LEMMA MatchedIsRemoved ==
  ASSUME StackInv, Trusted, stack_ops # <<>>, NEW op \in ReadOps,
         match(stack_ops[Len(stack_ops)].op, op),
         NEW k \in Kept(stack_ops, [op |-> op, before |-> sp, after |-> Down(sp, Size(op))])
  PROVE  /\ k \in 0 .. Len(stack_ops) - 1
         /\ Size(op) = Size(stack_ops[Len(stack_ops)].op)
  <1> DEFINE L == Len(stack_ops)
             top == stack_ops[L]
             o == [op |-> op, before |-> sp, after |-> Down(sp, Size(op))]
  <1>1. /\ L \in Nat \ {0} /\ DOMAIN stack_ops = 1 .. L /\ top \in OpType
        /\ sp \in IramCell /\ stack_ops \in Seq(OpType)
    <2>1. stack_ops \in Seq(OpType) /\ sp \in IramCell
      BY DEF StackInv, TypeOK
    <2> QED BY <2>1, EmptySeq, LenProperties, ElementOfSeq
  <1>2. Size(op) = Size(top.op)
    BY DEF match, Size
  <1>3. top.after = sp /\ sp = Up(top.before, Size(op))
    BY <1>1, <1>2 DEF StackInv, StackFits, Adjacent, Sound
  <1>4. top.before = Down(sp, Size(op)) /\ Down(sp, Size(op)) \in IramCell
    BY <1>1, <1>2, <1>3, CellsAre, DownUp, DownIs
  <1>5. top.op \in WriteOps /\ op \notin WriteOps
    BY <1>1 DEF OpType, ReadOps, WriteOps
  <1>6. o.op = op /\ o.before = sp /\ o.after = Down(sp, Size(op))
    OBVIOUS
  <1> HIDE DEF o, top
  <1>7. can_removed(top, o)
    <2>1. sp_increased(top) = (sp > Down(sp, Size(op)))
      BY <1>3, <1>4, <1>5 DEF sp_increased
    <2>2. sp_increased(o) = (Down(sp, Size(op)) < sp)
      BY <1>5, <1>6 DEF sp_increased
    <2>3. (sp > Down(sp, Size(op))) = (Down(sp, Size(op)) < sp)
      OBVIOUS
    <2>4. top.before >= o.after /\ top.before <= o.after
      BY <1>4, <1>6, StackAssumption DEF IramCell
    <2> QED BY <2>1, <2>2, <2>3, <2>4 DEF can_removed
  <1>8. L \notin {i \in DOMAIN stack_ops : ~can_removed(stack_ops[i], o)}
    BY <1>7 DEF top
  <1>9. k = 0 \/ (k \in 1 .. L /\ k # L)
    BY <1>1, <1>8 DEF Kept, o
  <1> QED BY <1>1, <1>2, <1>9 DEF top

(* stack_read for RET, RETI and POP.                                       *)
LEMMA ReadKeeps ==
  ASSUME StackInv, NEW op \in ReadOps, stack_read(op, Down(sp, Size(op))),
         sp' = Down(sp, Size(op)), iram' = iram
  PROVE  /\ stack_ops' \in Seq(OpType) /\ live' \in Nat
         /\ errors' \subseteq {"empty", "unmatch", "inconsistent"} /\ tampered' \in BOOLEAN
         /\ Trusted' => StackFits(stack_ops', sp', iram', live')
  <1> DEFINE L == Len(stack_ops)
             z == Size(op)
             o == [op |-> op, before |-> sp, after |-> Down(sp, z)]
             m == IF live >= z THEN live - z ELSE 0
  <1>1. /\ stack_ops \in Seq(OpType) /\ L \in Nat /\ live \in Nat
        /\ sp \in IramCell /\ DOMAIN stack_ops = 1 .. L
        /\ \A i \in 1 .. L : stack_ops[i] \in OpType
        /\ errors \subseteq {"empty", "unmatch", "inconsistent"}
    <2>1. stack_ops \in Seq(OpType)
      BY DEF StackInv, TypeOK
    <2> QED BY <2>1, LenProperties, ElementOfSeq DEF StackInv, TypeOK
  <1>2. z \in 1 .. 2
    BY DEF Size
  <1>3. live' = m /\ tampered' = tampered /\ live' \in Nat
    BY <1>1, <1>2 DEF stack_read
  <1>4. tampered' \in BOOLEAN
    BY <1>3 DEF StackInv, TypeOK
  <1>5. CASE L = 0
    <2>1. errors' = errors \cup {"empty"} /\ stack_ops' = stack_ops
      BY <1>5 DEF stack_read
    <2>2. ~Trusted'
      BY <2>1 DEF Trusted
    <2> QED BY <1>1, <1>3, <1>4, <2>1, <2>2
  <1>6. CASE L # 0
    <2>1. PICK k \in Kept(stack_ops, o) :
            /\ stack_ops' = SubSeq(stack_ops, 1, k)
            /\ errors' = errors
                 \cup {e \in {"unmatch"} : ~match(stack_ops[L].op, op)}
                 \cup {e \in {"inconsistent"} : k > 0 /\ stack_ops[k].after # Down(sp, z)}
      BY <1>6 DEF stack_read
    <2>2. k \in 0 .. L
      BY <1>1 DEF Kept
    <2>3. stack_ops' \in Seq(OpType)
      <3>1. \A i \in 1 .. k : stack_ops[i] \in OpType
        BY <1>1, <2>2
      <3> QED BY <2>1, <2>2, <3>1, SubSeqProperties
    <2>4. errors' \subseteq {"empty", "unmatch", "inconsistent"}
      BY <1>1, <2>1
    <2>5. ASSUME Trusted' PROVE StackFits(stack_ops', sp', iram', live')
      <3>1. /\ errors = {} /\ ~tampered /\ match(stack_ops[L].op, op)
            /\ k > 0 => stack_ops[k].after = Down(sp, z)
        BY <1>3, <2>1, <2>5 DEF Trusted
      <3>2. Trusted /\ StackFits(stack_ops, sp, iram, live)
        BY <3>1 DEF StackInv, Trusted
      <3>3. stack_ops # <<>>
        BY <1>1, <1>6, EmptySeq
      <3>4. k \in 0 .. L - 1 /\ z = Size(stack_ops[L].op)
        BY <2>1, <3>1, <3>2, <3>3, MatchedIsRemoved
      <3>5. StackFits(SubSeq(stack_ops, 1, k), Down(sp, z), iram, m)
        <4> HIDE DEF z
        <4> QED BY <1>1, <1>2, <3>1, <3>2, <3>3, <3>4, ReadFits
      <3> QED BY <1>3, <2>1, <3>5
    <2> QED BY <1>3, <1>4, <2>3, <2>4, <2>5
  <1> QED BY <1>5, <1>6
-----------------------------------------------------------------------------
(* The instructions.                                                       *)

(* ACALL, LCALL and the acceptance of an interrupt.                        *)
LEMMA PushPCKeeps ==
  ASSUME StackInv, NEW op \in {"call", "intr"}, PushPC(op)
  PROVE  StackInv'
  <1> DEFINE o == [op |-> op, before |-> sp, after |-> Up(sp, 2), data |-> pc]
  <1>1. /\ pc \in Addr /\ sp \in IramCell /\ iram \in [IramCell -> StackByte]
        /\ sp_max \in IramCell /\ sp_avg \in IramCell
    BY DEF StackInv, TypeOK
  <1>2. /\ Up(sp, 1) \in IramCell /\ Up(sp, 2) \in IramCell /\ Up(sp, 1) # Up(sp, 2)
    <2>1. 1 \in 1 .. 2 /\ 2 \in 1 .. 2
      OBVIOUS
    <2>2. /\ Up(sp, 1) = IF sp + 1 < SpMod THEN sp + 1 ELSE sp + 1 - SpMod
          /\ Up(sp, 2) = IF sp + 2 < SpMod THEN sp + 2 ELSE sp + 2 - SpMod
          /\ Up(sp, 1) \in IramCell /\ Up(sp, 2) \in IramCell
      BY <1>1, <2>1, UpIs
    <2> QED BY <1>1, <2>2, StackAssumption DEF IramCell
  <1>3. /\ o \in OpType /\ o.op = op /\ o.before = sp /\ o.after = Up(sp, 2) /\ o.data = pc
        /\ Size(o.op) = 2
    BY <1>1, <1>2 DEF OpType, WriteOps, Size
  <1> HIDE DEF o
  <1>4. pc % Base \in StackByte /\ pc \div Base \in StackByte
    BY <1>1, AddrOfBytes
  <1>5. /\ iram' = [iram EXCEPT ![Up(sp, 1)] = pc % Base, ![Up(sp, 2)] = pc \div Base]
        /\ sp' = Up(sp, 2) /\ pc' \in Addr /\ stack_write(op, pc, Up(sp, 2))
        /\ sp_max' = MaxOf(MaxOf(sp_max, Up(sp, 1)), Up(sp, 2))
        /\ sp_avg' = AvgOf(AvgOf(sp_avg, Up(sp, 1)), Up(sp, 2))
    BY DEF PushPC, Sp2
  <1>6. sp_max' \in IramCell /\ sp_avg' \in IramCell
    BY <1>1, <1>2, <1>5, SpTypes
  <1>7. iram' \in [IramCell -> StackByte] /\ Holds(o, iram')
    BY <1>1, <1>2, <1>3, <1>4, <1>5 DEF Holds
  <1>8. \A c \in IramCell \ CellsOf(o) : iram'[c] = iram[c]
    <2>1. Up(sp, 1) \in CellsOf(o) /\ Up(sp, 2) \in CellsOf(o)
      BY <1>3, CellsAre
    <2> QED BY <1>1, <1>5, <2>1
  <1>9. /\ stack_ops' \in Seq(OpType) /\ live' \in Nat
        /\ errors' \subseteq {"empty", "unmatch", "inconsistent"} /\ tampered' \in BOOLEAN
        /\ Trusted' => StackFits(stack_ops', sp', iram', live')
    BY <1>3, <1>5, <1>7, <1>8, WriteKeeps
  <1>10. TypeOK'
    BY <1>2, <1>5, <1>6, <1>7, <1>9 DEF TypeOK
  <1> QED BY <1>9, <1>10 DEF StackInv

(* PUSH.                                                                   *)
LEMMA PushKeeps ==
  ASSUME StackInv, Push
  PROVE  StackInv'
  <1>1. /\ pc \in Addr /\ sp \in IramCell /\ iram \in [IramCell -> StackByte]
        /\ sp_max \in IramCell /\ sp_avg \in IramCell
    BY DEF StackInv, TypeOK
  <1>2. Up(sp, 1) \in IramCell
    BY <1>1, UpIs
  <1>3. PICK v \in StackByte : /\ iram' = [iram EXCEPT ![Up(sp, 1)] = v]
                               /\ stack_write("push", v, Up(sp, 1))
    BY DEF Push
  <1> DEFINE o == [op |-> "push", before |-> sp, after |-> Up(sp, 1), data |-> v]
  <1>4. /\ o \in OpType /\ o.op = "push" /\ o.before = sp /\ o.after = Up(sp, 1)
        /\ o.data = v /\ Size(o.op) = 1
    BY <1>1, <1>2, BytesOfAddr DEF OpType, WriteOps, Size
  <1> HIDE DEF o
  <1>5. /\ sp' = Up(sp, 1) /\ pc' = pc
        /\ sp_max' = MaxOf(sp_max, Up(sp, 1)) /\ sp_avg' = AvgOf(sp_avg, Up(sp, 1))
    BY DEF Push, Sp1
  <1>6. sp_max' \in IramCell /\ sp_avg' \in IramCell
    BY <1>1, <1>2, <1>5, SpTypes
  <1>7. iram' \in [IramCell -> StackByte] /\ Holds(o, iram')
    <2>1. v % Base = v
      BY StackAssumption DEF StackByte
    <2> QED BY <1>1, <1>2, <1>3, <1>4, <2>1 DEF Holds
  <1>8. \A c \in IramCell \ CellsOf(o) : iram'[c] = iram[c]
    <2>1. Up(sp, 1) \in CellsOf(o)
      BY <1>4, CellsAre
    <2> QED BY <1>1, <1>3, <2>1
  <1>9. /\ stack_ops' \in Seq(OpType) /\ live' \in Nat
        /\ errors' \subseteq {"empty", "unmatch", "inconsistent"} /\ tampered' \in BOOLEAN
        /\ Trusted' => StackFits(stack_ops', sp', iram', live')
    BY <1>3, <1>4, <1>5, <1>7, <1>8, WriteKeeps
  <1>10. TypeOK'
    BY <1>1, <1>2, <1>5, <1>6, <1>7, <1>9 DEF TypeOK
  <1> QED BY <1>9, <1>10 DEF StackInv

(* RET and RETI.                                                           *)
LEMMA PopPCKeeps ==
  ASSUME StackInv, NEW op \in {"ret", "iret"}, PopPC(op)
  PROVE  StackInv'
  <1>1. /\ sp \in IramCell /\ iram \in [IramCell -> StackByte]
        /\ sp_max \in IramCell /\ sp_avg \in IramCell
    BY DEF StackInv, TypeOK
  <1>2. Down(sp, 1) \in IramCell /\ Down(sp, 2) \in IramCell /\ Size(op) = 2 /\ op \in ReadOps
    BY <1>1, DownIs DEF Size, ReadOps
  <1>3. /\ sp' = Down(sp, 2) /\ iram' = iram /\ stack_read(op, Down(sp, 2))
        /\ pc' = iram[sp] * Base + iram[Down(sp, 1)]
        /\ sp_max' = MaxOf(MaxOf(sp_max, Down(sp, 1)), Down(sp, 2))
        /\ sp_avg' = AvgOf(AvgOf(sp_avg, Down(sp, 1)), Down(sp, 2))
    BY DEF PopPC, Sp2
  <1>4. pc' \in Addr
    BY <1>1, <1>2, <1>3, BytesOfAddr
  <1>5. sp_max' \in IramCell /\ sp_avg' \in IramCell
    BY <1>1, <1>2, <1>3, SpTypes
  <1>6. /\ stack_ops' \in Seq(OpType) /\ live' \in Nat
        /\ errors' \subseteq {"empty", "unmatch", "inconsistent"} /\ tampered' \in BOOLEAN
        /\ Trusted' => StackFits(stack_ops', sp', iram', live')
    BY <1>2, <1>3, ReadKeeps
  <1>7. TypeOK'
    BY <1>1, <1>2, <1>3, <1>4, <1>5, <1>6 DEF TypeOK
  <1> QED BY <1>6, <1>7 DEF StackInv

(* POP.                                                                    *)
LEMMA PopKeeps ==
  ASSUME StackInv, Pop
  PROVE  StackInv'
  <1>1. /\ pc \in Addr /\ sp \in IramCell /\ iram \in [IramCell -> StackByte]
        /\ sp_max \in IramCell /\ sp_avg \in IramCell
    BY DEF StackInv, TypeOK
  <1>2. Down(sp, 1) \in IramCell /\ Size("pop") = 1 /\ "pop" \in ReadOps
    BY <1>1, DownIs DEF Size, ReadOps
  <1>3. /\ sp' = Down(sp, 1) /\ iram' = iram /\ pc' = pc /\ stack_read("pop", Down(sp, 1))
        /\ sp_max' = MaxOf(sp_max, Down(sp, 1)) /\ sp_avg' = AvgOf(sp_avg, Down(sp, 1))
    BY DEF Pop, Sp1
  <1>4. sp_max' \in IramCell /\ sp_avg' \in IramCell
    BY <1>1, <1>2, <1>3, SpTypes
  <1>5. /\ stack_ops' \in Seq(OpType) /\ live' \in Nat
        /\ errors' \subseteq {"empty", "unmatch", "inconsistent"} /\ tampered' \in BOOLEAN
        /\ Trusted' => StackFits(stack_ops', sp', iram', live')
    BY <1>2, <1>3, ReadKeeps
  <1>6. TypeOK'
    BY <1>1, <1>2, <1>3, <1>4, <1>5 DEF TypeOK
  <1> QED BY <1>5, <1>6 DEF StackInv

(* A store that spares the tracked cells spares their bytes.               *)
LEMMA StoreKeeps ==
  ASSUME StackInv, StoreByte
  PROVE  StackInv'
  <1>1. PICK c \in IramCell, v \in StackByte :
          /\ iram' = [iram EXCEPT ![c] = v]
          /\ tampered' = (tampered \/ c \in LiveCells)
    BY DEF StoreByte
  <1>2. UNCHANGED <<pc, sp, sp_max, sp_avg, stack_ops, errors, live>>
    BY DEF StoreByte
  <1>3. iram \in [IramCell -> StackByte] /\ stack_ops \in Seq(OpType)
    BY DEF StackInv, TypeOK
  <1>4. /\ \A i \in 1 .. Len(stack_ops) : stack_ops[i] \in OpType
        /\ DOMAIN stack_ops = 1 .. Len(stack_ops)
    BY <1>3, LenProperties, ElementOfSeq
  <1>5. tampered' \in BOOLEAN
    BY <1>1
  <1>6. iram' \in [IramCell -> StackByte]
    BY <1>1, <1>3
  <1>7. TypeOK'
    BY <1>2, <1>5, <1>6 DEF StackInv, TypeOK
  <1>8. ASSUME Trusted' PROVE StackFits(stack_ops', sp', iram', live')
    <2>1. Trusted /\ c \notin LiveCells
      BY <1>1, <1>2, <1>8 DEF Trusted
    <2>2. StackFits(stack_ops, sp, iram, live)
      BY <2>1 DEF StackInv
    <2>3. ASSUME NEW i \in 1 .. Len(stack_ops)
          PROVE  Sound(stack_ops[i], sp, iram', live)
      <3>1. Sound(stack_ops[i], sp, iram, live) /\ stack_ops[i] \in OpType
        BY <1>4, <2>2 DEF StackFits
      <3>2. c \notin CellsOf(stack_ops[i])
        BY <1>4, <2>1 DEF LiveCells
      <3>3. Holds(stack_ops[i], iram')
        <4>1. /\ Up(stack_ops[i].before, 1) \in CellsOf(stack_ops[i])
              /\ stack_ops[i].op # "push" =>
                   Up(stack_ops[i].before, 2) \in CellsOf(stack_ops[i])
              /\ CellsOf(stack_ops[i]) \subseteq IramCell
          BY <3>1, CellsAre
        <4> QED BY <1>1, <1>3, <3>1, <3>2, <4>1 DEF Sound, Holds
      <3> QED BY <3>1, <3>3 DEF Sound
    <2> QED BY <1>2, <2>2, <2>3 DEF StackFits
  <1> QED BY <1>7, <1>8 DEF StackInv

(* Every step of the program.                                              *)
LEMMA StackStep == StackInv /\ [Next]_vars => StackInv'
  <1> SUFFICES ASSUME StackInv, [Next]_vars PROVE StackInv'
    OBVIOUS
  <1>1. CASE Call \/ Interrupt
    BY <1>1, PushPCKeeps DEF Call, Interrupt
  <1>2. CASE Push
    BY <1>2, PushKeeps
  <1>3. CASE Ret \/ Reti
    BY <1>3, PopPCKeeps DEF Ret, Reti
  <1>4. CASE Pop
    BY <1>4, PopKeeps
  <1>5. CASE Jump
    BY <1>5 DEF Jump, StackInv, TypeOK, Trusted
  <1>6. CASE StoreByte
    BY <1>6, StoreKeeps
  <1>7. CASE LoadSP
    <2>1. PICK at \in IramCell : Sp1(at)
      BY <1>7 DEF LoadSP
    <2>2. sp_max' \in IramCell /\ sp_avg' \in IramCell /\ sp' \in IramCell
      BY <2>1, SpTypes DEF Sp1, StackInv, TypeOK
    <2>3. tampered' = TRUE /\ ~Trusted'
      BY <1>7 DEF LoadSP, Trusted
    <2> QED BY <1>7, <2>2, <2>3 DEF LoadSP, StackInv, TypeOK
  <1>8. CASE Reset
    <2>1. /\ pc' = 0 /\ sp' = SpReset /\ sp_max' = SpReset /\ sp_avg' = SpReset \div 2
          /\ stack_ops' = <<>> /\ errors' = {} /\ live' = 0 /\ tampered' = FALSE
          /\ iram' = iram
      BY <1>8 DEF Reset
    <2>2. pc' \in Addr /\ sp' \in IramCell /\ sp_max' \in IramCell /\ sp_avg' \in IramCell
      BY <2>1, StackAssumption DEF Addr, IramCell
    <2>3. stack_ops' \in Seq(OpType) /\ Len(stack_ops') = 0
      BY <2>1, EmptySeq
    <2>4. TypeOK'
      BY <2>1, <2>2, <2>3 DEF StackInv, TypeOK
    <2>5. StackFits(stack_ops', sp', iram', live')
      BY <2>1, <2>3, StackAssumption DEF StackFits, Adjacent, Apart
    <2> QED BY <2>4, <2>5 DEF StackInv
  <1>9. CASE UNCHANGED vars
    BY <1>9 DEF vars, StackInv, TypeOK, Trusted
  <1> QED BY <1>1, <1>2, <1>3, <1>4, <1>5, <1>6, <1>7, <1>8, <1>9 DEF Next

(* An empty stack fits.                                                    *)
LEMMA StackInitially == Init => StackInv
  <1> SUFFICES ASSUME Init PROVE StackInv
    OBVIOUS
  <1>1. /\ pc = 0 /\ sp = SpReset /\ sp_max = SpReset /\ sp_avg = SpReset \div 2
        /\ stack_ops = <<>> /\ errors = {} /\ live = 0 /\ tampered = FALSE
        /\ iram \in [IramCell -> StackByte]
    BY DEF Init
  <1>2. pc \in Addr /\ sp \in IramCell /\ sp_max \in IramCell /\ sp_avg \in IramCell
    BY <1>1, StackAssumption DEF Addr, IramCell
  <1>3. stack_ops \in Seq(OpType) /\ Len(stack_ops) = 0
    BY <1>1, EmptySeq
  <1>4. TypeOK
    BY <1>1, <1>2, <1>3 DEF TypeOK
  <1>5. StackFits(stack_ops, sp, iram, live)
    BY <1>1, <1>3, StackAssumption DEF StackFits, Adjacent, Apart
  <1> QED BY <1>4, <1>5 DEF StackInv

(* The invariant holds always.                                             *)
LEMMA StackInvariant == Spec => []StackInv
  BY StackInitially, StackStep, PTL DEF Spec

(* What the tracker holds is in the RAM.                                   *)
LEMMA StackInvImplies == StackInv => TrackerMatchesRam
  <1> SUFFICES ASSUME StackInv PROVE TrackerMatchesRam
    OBVIOUS
  <1>1. TypeOK /\ DOMAIN stack_ops = 1 .. Len(stack_ops)
    BY LenProperties DEF StackInv, TypeOK
  <1> QED BY <1>1 DEF StackInv, StackFits, Adjacent, Sound, Holds, TrackerMatchesRam
-----------------------------------------------------------------------------
(* The step of ReturnsHome.                                                *)
GoesHome ==
  (Ret \/ Reti) /\ errors' = {} /\ ~tampered
    => /\ stack_ops[Len(stack_ops)].op # "push"
       /\ pc' = stack_ops[Len(stack_ops)].data

(* A return that the tracker accepts takes the address of the last call.   *)
LEMMA StepGoesHome == StackInv => GoesHome
  <1> SUFFICES ASSUME StackInv, NEW op \in {"ret", "iret"}, PopPC(op),
                      errors' = {}, ~tampered
               PROVE  /\ stack_ops[Len(stack_ops)].op # "push"
                      /\ pc' = stack_ops[Len(stack_ops)].data
    BY DEF GoesHome, Ret, Reti
  <1> DEFINE L == Len(stack_ops)
             top == stack_ops[L]
  <1>1. stack_ops \in Seq(OpType) /\ L \in Nat
    BY LenProperties DEF StackInv, TypeOK
  <1>2. L # 0 /\ errors = {} /\ match(top.op, op)
    BY DEF PopPC, stack_read
  <1>3. StackFits(stack_ops, sp, iram, live)
    BY <1>2 DEF StackInv, Trusted
  <1>4. stack_ops # <<>>
    BY <1>1, <1>2, EmptySeq
  <1>5. L \in 1 .. L /\ top \in OpType
    BY <1>1, <1>2, ElementOfSeq
  <1>6. top.op # "push" /\ Size(top.op) = 2
    BY <1>2 DEF match, Size
  <1>7. top.after = sp /\ sp = Up(top.before, 2) /\ Holds(top, iram)
    BY <1>3, <1>4, <1>5, <1>6 DEF StackFits, Adjacent, Sound
  <1>8. Down(sp, 1) = Up(top.before, 1)
    BY <1>5, <1>7, CellsAre, DownUp
  <1>9. pc' = iram[sp] * Base + iram[Down(sp, 1)]
    BY DEF PopPC
  <1>10. pc' = (top.data \div Base) * Base + (top.data % Base)
    BY <1>6, <1>7, <1>8, <1>9 DEF Holds
  <1>11. top.data \in Addr
    BY <1>5 DEF OpType
  <1> QED BY <1>6, <1>10, <1>11, AddrOfBytes

(* As long as no stack error was reported and the program did not write    *)
(* over its stack, the tracker's list is what is on the stack, also when   *)
(* SP wraps (stack_write, stack_read), and a return without an error goes  *)
(* to the address that the matching call or interrupt pushed (inst_ret,    *)
(* inst_reti).                                                             *)
THEOREM TrackerTrustedHolds == Spec => TrackerTrusted
  <1>1. Spec => []TrackerMatchesRam
    BY StackInvariant, StackInvImplies, PTL
  <1>2. StackInv /\ [Next]_vars => [GoesHome]_vars
    BY StepGoesHome
  <1>3. Spec => [][GoesHome]_vars
    BY <1>2, StackInvariant, PTL DEF Spec
  <1> QED BY <1>1, <1>3 DEF TrackerTrusted, ReturnsHome, GoesHome
-----------------------------------------------------------------------------
(* The DMA controller.                                                     *)

(***************************************************************************)
(* What transfer and StateTrans rely on while a block is loaded: the count *)
(* and the destination address say how many units have been moved, there   *)
(* is one to move, and the block asked for at least as many as are wanted. *)
(***************************************************************************)
Progress(i) ==
  /\ cfg[i] \in Blocks
  /\ want[i] <= cfg[i].len
  /\ moved[i] < Larger(1, want[i])
  /\ TransferCount[i] = want[i] - moved[i]
  /\ d[i] = cfg[i].dst + moved[i] * cfg[i].dinc

Loaded == {"armed", "transfer"}

DmaInv ==
  /\ DmaTypeOK
  /\ \A i \in Channel : st[i] \in Loaded => Progress(i)

(***************************************************************************)
(* Units: the number of units of a block is a natural number, and at most  *)
(* LEN.                                                                    *)
(***************************************************************************)
LEMMA UnitsBounded ==
  ASSUME NEW b \in Blocks, xram \in [Cell -> Byte]
  PROVE  Units(b) \in Nat /\ Units(b) <= b.len
<1>1. b \in BlockType
  BY DmaAssumption DEF DmaAssumption
<1>2. b.len \in Nat /\ b.vlen \in 0 .. 7 /\ b.src \in Cell
  BY <1>1 DEF BlockType
<1>3. xram[b.src] \in Nat
  BY <1>2, DmaAssumption DEF DmaAssumption, Byte
<1>4. Delta(b.vlen) \in Nat
  BY <1>2 DEF Delta
<1> QED
  BY <1>2, <1>3, <1>4 DEF Units, Lesser

(***************************************************************************)
(* transfer: the cells stay bytes, and only cells of the unit are written. *)
(***************************************************************************)
LEMMA CopiedTyped ==
  ASSUME NEW x \in [Cell -> Byte], NEW to, NEW from
  PROVE  /\ Copied(x, to, from) \in [Cell -> Byte]
         /\ \A a \in Cell : Copied(x, to, from)[a] # x[a] => a = to
<1>1. 0 \in Byte
  BY DmaAssumption DEF DmaAssumption, Byte
<1> QED
  BY <1>1 DEF Copied

(* A transfer writes the cell of the destination, and the second one of a  *)
(* word (transfer).                                                        *)
LEMMA TransferTyped ==
  ASSUME NEW i \in Channel, xram \in [Cell -> Byte]
  PROVE  /\ transfer(i) \in [Cell -> Byte]
         /\ \A a \in Cell : transfer(i)[a] # xram[a] =>
              a = d[i] \/ (cfg[i].word /\ a = d[i] + Second(i))
<1> DEFINE first == Copied(xram, d[i], s[i])
           both == Copied(first, d[i] + Second(i), s[i] + Second(i))
<1>1. first \in [Cell -> Byte] /\ \A a \in Cell : first[a] # xram[a] => a = d[i]
  BY CopiedTyped
<1>2. both \in [Cell -> Byte] /\ \A a \in Cell : both[a] # first[a] => a = d[i] + Second(i)
  BY <1>1, CopiedTyped
<1>3. transfer(i) = IF cfg[i].word THEN both ELSE first
  BY DEF transfer
<1> HIDE DEF first, both
<1> QED
  BY <1>1, <1>2, <1>3

(***************************************************************************)
(* channel_init: the registers after reset have their types and no channel *)
(* has a block loaded.                                                     *)
(***************************************************************************)
LEMMA DmaInitInv == DmaInit => DmaInv
<1> SUFFICES ASSUME DmaInit PROVE DmaInv
  OBVIOUS
<1>1. (CHOOSE b \in Blocks : TRUE) \in Blocks
  BY DmaAssumption DEF DmaAssumption
<1>2. xram \in [Cell -> Byte]
  BY DmaAssumption DEF DmaInit, DmaAssumption, Cell, Byte
<1>3. /\ turn \in 0 .. Channels
      /\ TransferCount \in [Channel -> Int] /\ s \in [Channel -> Int] /\ d \in [Channel -> Int]
      /\ want \in [Channel -> Nat] /\ moved \in [Channel -> Nat]
  BY DmaAssumption DEF DmaInit, All, DmaAssumption
<1>4. /\ st \in [Channel -> States]
      /\ armed \in [Channel -> BOOLEAN] /\ triggered \in [Channel -> BOOLEAN]
      /\ ITmask \in [Channel -> BOOLEAN]
      /\ cfg \in [Channel -> Blocks \cup {Blank}] /\ block \in [Channel -> Blocks]
      /\ DMAIRQ \subseteq Channel /\ DMAIF \in BOOLEAN
  BY <1>1, Zenon DEF DmaInit, All, States
<1>5. DmaTypeOK
  BY <1>2, <1>3, <1>4 DEF DmaTypeOK
<1> QED
  BY <1>5 DEF DmaInv, DmaInit, All, Loaded

(***************************************************************************)
(* A step that leaves the loaded blocks alone, and loads none, keeps what  *)
(* is known of them.                                                       *)
(***************************************************************************)
LEMMA OthersKeep ==
  ASSUME DmaInv, NEW i \in Channel, st'[i] \in Loaded => st[i] \in Loaded,
         cfg'[i] = cfg[i], want'[i] = want[i], moved'[i] = moved[i],
         TransferCount'[i] = TransferCount[i], d'[i] = d[i]
  PROVE  st'[i] \in Loaded => Progress(i)'
BY DEF DmaInv, Progress

(***************************************************************************)
(* The writes of the program, the events and reset.                        *)
(***************************************************************************)
LEMMA BetweenInv ==
  ASSUME DmaInv, Program \/ Events \/ DmaReset \/ BeginTick \/ UNCHANGED dmaVars
  PROVE  DmaInv'
<1> USE DEF DmaInv, DmaTypeOK
<1>1. ASSUME UNCHANGED <<st, cfg, want, moved, TransferCount, d>>, DmaTypeOK'
      PROVE  DmaInv'
  BY <1>1, OthersKeep
<1>2. ASSUME NEW val, WriteArm(val) PROVE DmaInv'
  <2>1. armed' \in [Channel -> BOOLEAN]
    BY <1>2, Zenon DEF WriteArm
  <2> QED
    BY <2>1, <1>1, <1>2 DEF WriteArm, Between, registers, history
<1>3. ASSUME NEW T, Between, Trigger(T) PROVE DmaInv'
  <2>1. triggered' \in [Channel -> BOOLEAN]
    BY <1>3, Zenon DEF Trigger
  <2> QED
    BY <2>1, <1>1, <1>3 DEF Trigger, Between, registers, history
<1>4. ASSUME NEW val \in SUBSET Channel, WriteIrq(val) PROVE DmaInv'
  <2>1. ITmask' \in [Channel -> BOOLEAN]
    BY <1>4, Zenon DEF WriteIrq
  <2> QED
    BY <2>1, <1>1, <1>4 DEF WriteIrq, Between, registers, history
<1>5. CASE ClearIrcon
  BY <1>1, <1>5 DEF ClearIrcon, Between, channel, registers, history
<1>6. ASSUME NEW a \in Cell, NEW b \in Byte, Store(a, b) PROVE DmaInv'
  BY <1>1, <1>6 DEF Store, Between, channel, registers, history
<1>7. ASSUME NEW i \in Channel, NEW b \in Blocks, SetUp(i, b) PROVE DmaInv'
  BY <1>1, <1>7 DEF SetUp, Between, channel, registers, history
<1>8. CASE DmaReset
  <2>1. /\ st' \in [Channel -> States]
        /\ armed' \in [Channel -> BOOLEAN] /\ triggered' \in [Channel -> BOOLEAN]
        /\ ITmask' \in [Channel -> BOOLEAN]
        /\ cfg' \in [Channel -> Blocks \cup {Blank}]
        /\ DMAIRQ' \subseteq Channel /\ DMAIF' \in BOOLEAN
    BY <1>8, Zenon DEF DmaReset, All, States
  <2>2. DmaTypeOK'
    BY <2>1, <1>8 DEF DmaReset, All, Between
  <2> QED
    BY <2>2, <1>8 DEF DmaReset, All, Loaded
<1>9. CASE BeginTick
  BY <1>1, <1>9, DmaAssumption DEF BeginTick, channel, registers, history, DmaAssumption
<1>10. CASE UNCHANGED dmaVars
  BY <1>1, <1>10 DEF dmaVars, channel, registers, history
<1> QED
  BY <1>2, <1>3, <1>4, <1>5, <1>6, <1>7, <1>8, <1>9, <1>10
     DEF Program, Events, WriteReq, Happen

(***************************************************************************)
(* Facts of the fields of a block.                                         *)
(***************************************************************************)
LEMMA BlockFields ==
  ASSUME NEW b \in Blocks
  PROVE  /\ b.src \in Int /\ b.dst \in Int /\ b.len \in Nat
         /\ b.sinc \in Int /\ b.dinc \in Int /\ b.irq \in BOOLEAN
<1>1. b \in BlockType
  BY DmaAssumption DEF DmaAssumption
<1> QED
  BY <1>1, DmaAssumption DEF BlockType, Cell, DmaAssumption

(***************************************************************************)
(* The next unit of a block is one further on.                             *)
(***************************************************************************)
LEMMA NextUnit ==
  ASSUME NEW m \in Nat, NEW x \in Int
  PROVE  m * x \in Int /\ (m + 1) * x = m * x + x
OBVIOUS

(***************************************************************************)
(* StateTrans keeps the types and what is known of the loaded blocks.      *)
(***************************************************************************)
LEMMA TickInv ==
  ASSUME DmaInv, NEW i \in Channel, StateTrans(i)
  PROVE  DmaInv'
<1> USE DEF DmaInv, DmaTypeOK
<1>0. i \in 0 .. Channels /\ i + 1 \in 0 .. Channels
  BY DmaAssumption DEF Channel, DmaAssumption
<1>1. CASE ChannelIdle(i)
  <2>1. DmaTypeOK'
    BY <1>0, <1>1 DEF ChannelIdle, InState, Become, States, registers, history
  <2> QED
    BY <2>1, <1>1, OthersKeep DEF ChannelIdle, InState, Become, Loaded, history
<1>2. CASE LoadConfig(i)
  <2>1. Units(block[i]) \in Nat /\ Units(block[i]) <= block[i].len
    BY UnitsBounded
  <2>2. /\ block[i] \in Blocks /\ block[i].src \in Int /\ block[i].dst \in Int
        /\ block[i].dinc \in Int /\ block[i].irq \in BOOLEAN
    BY BlockFields
  <2>3. ITmask' \in [Channel -> BOOLEAN] /\ armed' \in [Channel -> BOOLEAN]
        /\ triggered' \in [Channel -> BOOLEAN]
    BY <1>2, <2>2, Zenon DEF LoadConfig
  <2>4. DmaTypeOK'
    BY <1>0, <1>2, <2>1, <2>2, <2>3 DEF LoadConfig, InState, Become, States, registers
  <2>5. Progress(i)'
    BY <1>2, <2>1, <2>2 DEF LoadConfig, Progress, Larger
  <2>6. ASSUME NEW j \in Channel, j # i PROVE st'[j] \in Loaded => Progress(j)'
    BY <1>2, <2>6, OthersKeep DEF LoadConfig, Become
  <2> QED
    BY <2>4, <2>5, <2>6
<1>3. CASE ChannelArmed(i)
  <2>1. DmaTypeOK'
    BY <1>0, <1>3 DEF ChannelArmed, InState, Become, States, registers, history
  <2> QED
    BY <2>1, <1>3, OthersKeep DEF ChannelArmed, InState, Become, Loaded, history
<1>4. CASE TransferOneByteOrWord(i)
  <2>1. Progress(i)
    BY <1>4 DEF TransferOneByteOrWord, InState, Loaded
  <2>2. cfg[i] \in Blocks /\ cfg[i].dst \in Int /\ cfg[i].sinc \in Int /\ cfg[i].dinc \in Int
    BY <2>1, BlockFields DEF Progress
  <2>3. xram' \in [Cell -> Byte]
    BY <1>4, TransferTyped DEF TransferOneByteOrWord
  <2>4. DMAIRQ' \subseteq Channel /\ DMAIF' \in BOOLEAN /\ st' \in [Channel -> States]
    <3>1. CASE Left(i) <= 0
      BY <3>1, <1>4, Zenon DEF TransferOneByteOrWord, Finish, Become, States
    <3>2. CASE ~(Left(i) <= 0)
      BY <3>2, <1>4, Zenon DEF TransferOneByteOrWord, Continue, Become, States, registers
    <3> QED
      BY <3>1, <3>2
  <2>5. DmaTypeOK'
    <3>1. /\ turn' = i + 1
          /\ s' = [s EXCEPT ![i] = @ + cfg[i].sinc] /\ d' = [d EXCEPT ![i] = @ + cfg[i].dinc]
          /\ TransferCount' = [TransferCount EXCEPT ![i] = TransferCount[i] - 1]
          /\ moved' = [moved EXCEPT ![i] = @ + 1]
          /\ UNCHANGED <<armed, triggered, ITmask, cfg, block, want>>
      BY <1>4 DEF TransferOneByteOrWord, InState, Left
    <3>2. /\ TransferCount' \in [Channel -> Int] /\ moved' \in [Channel -> Nat]
          /\ s' \in [Channel -> Int] /\ d' \in [Channel -> Int]
      BY <3>1, <2>2
    <3> QED
      BY <1>0, <2>3, <2>4, <3>1, <3>2
  <2>6. st'[i] \in Loaded => Progress(i)'
    <3>1. moved[i] \in Nat /\ want[i] \in Nat /\ TransferCount[i] \in Int /\ d[i] \in Int
      OBVIOUS
    <3>2. (moved[i] + 1) * cfg[i].dinc = moved[i] * cfg[i].dinc + cfg[i].dinc
          /\ moved[i] * cfg[i].dinc \in Int
      BY <3>1, <2>2, NextUnit
    <3>3. CASE Left(i) <= 0
      BY <3>3, <1>4 DEF TransferOneByteOrWord, Finish, Become, Loaded
    <3>4. CASE ~(Left(i) <= 0)
      <4>1. /\ cfg'[i] = cfg[i] /\ want'[i] = want[i] /\ moved'[i] = moved[i] + 1
            /\ TransferCount'[i] = TransferCount[i] - 1 /\ d'[i] = d[i] + cfg[i].dinc
        BY <1>4 DEF TransferOneByteOrWord, Left
      <4>2. moved[i] + 1 < Larger(1, want[i])
        BY <3>1, <3>4, <2>1 DEF Left, Progress, Larger
      <4>3. d'[i] = cfg[i].dst + (moved[i] + 1) * cfg[i].dinc
        BY <3>1, <3>2, <4>1, <2>1, <2>2 DEF Progress
      <4> QED
        BY <3>1, <4>1, <4>2, <4>3, <2>1 DEF Progress
    <3> QED
      BY <3>3, <3>4
  <2>7. ASSUME NEW j \in Channel, j # i PROVE st'[j] \in Loaded => Progress(j)'
    <3>1. st'[j] = st[j]
      BY <1>4, <2>7 DEF TransferOneByteOrWord, Finish, Continue, Become
    <3> QED
      BY <1>4, <2>7, <3>1, OthersKeep DEF TransferOneByteOrWord
  <2> QED
    BY <2>5, <2>6, <2>7
<1>5. CASE DisarmChannel(i)
  <2>1. DmaTypeOK'
    BY <1>0, <1>5 DEF DisarmChannel, InState, Become, States, registers, history
  <2> QED
    BY <2>1, <1>5, OthersKeep DEF DisarmChannel, InState, Become, Loaded, history
<1> QED
  BY <1>1, <1>2, <1>3, <1>4, <1>5 DEF StateTrans

(***************************************************************************)
(* cl_CC2530_dma: the invariant holds in every reachable state.            *)
(***************************************************************************)
THEOREM DmaInvariant == DmaSpec => []DmaInv
<1>1. DmaInit => DmaInv
  BY DmaInitInv
<1>2. DmaInv /\ [DmaNext]_dmaVars => DmaInv'
  BY BetweenInv, TickInv DEF DmaNext, Tick
<1> QED
  BY <1>1, <1>2, PTL DEF DmaSpec

(***************************************************************************)
(* The registers and the channels keep their types (DmaTypeOK).            *)
(***************************************************************************)
THEOREM DmaTypeCorrect == DmaSpec => []DmaTypeOK
<1>1. DmaInv => DmaTypeOK
  BY DEF DmaInv
<1> QED
  BY <1>1, DmaInvariant, PTL

(***************************************************************************)
(* Only StateTrans of the channel whose turn it is steps during a tick.    *)
(***************************************************************************)
LEMMA TurnSteps ==
  ASSUME DmaInv, DmaNext, NEW i \in Channel, turn = i
  PROVE  StateTrans(i)
<1>1. turn # Channels
  BY DmaAssumption DEF Channel, DmaAssumption
<1>2. ~(Program \/ Events \/ DmaReset \/ BeginTick)
  BY <1>1 DEF Program, Events, DmaReset, BeginTick, WriteArm, WriteReq, WriteIrq,
     ClearIrcon, Store, SetUp, Happen, Between
<1>3. PICK j \in Channel : StateTrans(j)
  BY <1>2 DEF DmaNext, Tick
<1>4. turn = j
  BY <1>3 DEF StateTrans, ChannelIdle, LoadConfig, ChannelArmed, TransferOneByteOrWord,
     DisarmChannel, InState
<1> QED
  BY <1>3, <1>4

(***************************************************************************)
(* StateTrans raises the flag of a channel exactly when the units of the   *)
(* block have been moved (FlagWhenDone).                                   *)
(***************************************************************************)
THEOREM DmaFlagWhenDone == DmaSpec => FlagWhenDone
<1>1. ASSUME DmaInv, DmaNext, NEW i \in Channel, turn = i, st[i] = "transfer"
      PROVE  st'[i] \in {"load", "disarm"} <=> moved'[i] = Larger(1, want[i])
  <2>1. TransferOneByteOrWord(i)
    BY <1>1, TurnSteps DEF StateTrans, ChannelIdle, LoadConfig, ChannelArmed, DisarmChannel, InState
  <2>2. Progress(i) /\ DmaTypeOK
    BY <1>1 DEF DmaInv, Loaded
  <2>3. moved'[i] = moved[i] + 1
    BY <2>1, <2>2 DEF TransferOneByteOrWord, DmaTypeOK
  <2>4. Left(i) <= 0 <=> moved[i] + 1 = Larger(1, want[i])
    BY <2>2 DEF Left, Progress, Larger, DmaTypeOK
  <2>5. st'[i] \in {"load", "disarm"} <=> Left(i) <= 0
    BY <2>1, <2>2 DEF TransferOneByteOrWord, Finish, Continue, Become, DmaTypeOK
  <2> QED
    BY <2>3, <2>4, <2>5
<1>2. DmaInv /\ [DmaNext]_dmaVars =>
        [\A i \in Channel : turn = i /\ st[i] = "transfer" =>
           (st'[i] \in {"load", "disarm"} <=> moved'[i] = Larger(1, want[i]))]_dmaVars
  BY <1>1
<1> QED
  BY <1>2, DmaInvariant, PTL DEF DmaSpec, FlagWhenDone

(***************************************************************************)
(* A tick writes no cell outside the destination of the loaded block       *)
(* (WritesInWindow).                                                       *)
(***************************************************************************)
THEOREM DmaWritesInWindow == DmaSpec => WritesInWindow
<1>1. ASSUME DmaInv, DmaNext, NEW a \in Cell, turn < Channels, xram'[a] # xram[a]
      PROVE  a \in Window(cfg[turn], want[turn])
  <2>1. turn \in Channel
    BY <1>1, DmaAssumption DEF DmaInv, DmaTypeOK, Channel, DmaAssumption
  <2>2. PICK i \in Channel : i = turn
    BY <2>1
  <2>3. TransferOneByteOrWord(i)
    BY <1>1, <2>2, TurnSteps
       DEF StateTrans, ChannelIdle, LoadConfig, ChannelArmed, DisarmChannel
  <2>4. Progress(i) /\ DmaTypeOK
    BY <1>1, <2>3 DEF DmaInv, Loaded, TransferOneByteOrWord, InState
  <2>5. a = d[i] \/ (cfg[i].word /\ a = d[i] + Second(i))
    BY <1>1, <2>3, <2>4, TransferTyped DEF TransferOneByteOrWord, DmaTypeOK
  <2>6. cfg[i].dst \in Int /\ cfg[i].dinc \in Int
    BY <2>4, BlockFields DEF Progress
  <2>7. moved[i] \in 0 .. Larger(1, want[i]) - 1
    BY <2>4 DEF Progress, DmaTypeOK, Larger
  <2> DEFINE Off == IF ~cfg[i].word THEN {0} ELSE IF cfg[i].dinc < 0 THEN {0, -1} ELSE {0, 1}
  <2>8. PICK o \in Off : a = d[i] + o
    BY <2>4, <2>5, <2>6 DEF Second, DmaTypeOK
  <2>9. a = cfg[i].dst + moved[i] * cfg[i].dinc + o
    BY <2>4, <2>8 DEF Progress
  <2>10. a \in Window(cfg[i], want[i])
    BY <2>7, <2>8, <2>9 DEF Window
  <2> QED
    BY <2>2, <2>10
<1>2. DmaInv /\ [DmaNext]_dmaVars =>
        [\A a \in Cell : turn < Channels /\ xram'[a] # xram[a] =>
           a \in Window(cfg[turn], want[turn])]_dmaVars
  BY <1>1
<1> QED
  BY <1>2, DmaInvariant, PTL DEF DmaSpec, WritesInWindow
-----------------------------------------------------------------------------
(* The collections.                                                        *)

(* A set of naturals that is not empty has a least element.                *)
LEMMA Least ==
  ASSUME NEW S \in SUBSET Nat, NEW z \in S
  PROVE  \E m \in S : \A k \in S : m <= k
  <1> DEFINE R == OpToRel(<, Nat)
  <1>1. IsWellFoundedOn(R, Nat)
    BY NatLessThanWellFounded
  <1>2. S \subseteq Nat /\ S # {}
    OBVIOUS
  <1> HIDE DEF R
  <1>3. PICK x \in S : \A y \in S : ~(<<y, x>> \in R)
    BY <1>1, <1>2, WFMin
  <1>4. \A y \in S : y < x => <<y, x>> \in R
    BY DEF R, OpToRel
  <1>5. \A y \in S : ~(y < x)
    BY <1>3, <1>4, Zenon
  <1>6. \A y \in S : x <= y
    BY <1>2, <1>5
  <1> QED BY <1>6

(* Induction over the naturals, for a set.                                 *)
LEMMA Induct ==
  ASSUME NEW S, 0 \in S, \A n \in Nat : n \in S => n + 1 \in S
  PROVE  Nat \subseteq S
  <1> DEFINE B == Nat \ S
  <1> SUFFICES ASSUME NEW z \in B PROVE FALSE
    OBVIOUS
  <1>1. PICK m \in B : \A k \in B : m <= k
    <2>1. B \in SUBSET Nat
      OBVIOUS
    <2> HIDE DEF B
    <2> QED BY <2>1, Least
  <1>2. m # 0 /\ m \in Nat
    OBVIOUS
  <1>3. m - 1 \in Nat /\ m - 1 \notin B
    BY <1>1, <1>2
  <1>4. m - 1 \in S
    BY <1>3
  <1>5. (m - 1) + 1 \in S
    BY <1>4, <1>3
  <1> QED BY <1>5, <1>2
-----------------------------------------------------------------------------
(* The binary search: its ranges, one probe of it, and a function of all   *)
(* of them.                                                                *)
Ranges(n) == (0 .. n) \X (-1 .. n - 1)

Probed(keys, key, dup, f, p) ==
  LET l == p[1]
      h == p[2]
      i == (l + h) \div 2
  IN  IF l > h THEN [res |-> FALSE, index |-> l]
      ELSE IF keys[i + 1] < key THEN f[<<i + 1, h>>]
      ELSE IF keys[i + 1] > key THEN f[<<l, i - 1>>]
      ELSE IF ~dup THEN [res |-> TRUE, index |-> i]
      ELSE [f[<<l, i - 1>>] EXCEPT !.res = TRUE]

Searches(f, keys, key, dup) ==
  f = [p \in Ranges(Len(keys)) |-> Probed(keys, key, dup, f, p)]

(* A range is halved at one of its items, and each half is shorter.        *)
LEMMA Halves ==
  ASSUME NEW n \in Nat, NEW l \in 0 .. n, NEW h \in -1 .. n - 1, l <= h
  PROVE  LET i == (l + h) \div 2
         IN  /\ i \in l .. h /\ i \in 0 .. n - 1
             /\ <<i + 1, h>> \in Ranges(n) /\ <<l, i - 1>> \in Ranges(n)
             /\ h - (i + 1) < h - l /\ (i - 1) - l < h - l
  <1> DEFINE i == (l + h) \div 2
  <1>1. l \in Int /\ h \in Int /\ 0 <= l /\ l <= h /\ h < n
    OBVIOUS
  <1>2. i \in Int /\ l <= i /\ i <= h
    BY <1>1
  <1> HIDE DEF i
  <1>3. i + 1 \in 0 .. n /\ i - 1 \in -1 .. n - 1
    BY <1>1, <1>2
  <1>4. <<i + 1, h>> \in Ranges(n) /\ <<l, i - 1>> \in Ranges(n)
    BY <1>3 DEF Ranges
  <1>5. h - (i + 1) < h - l /\ (i - 1) - l < h - l /\ i \in l .. h /\ i \in 0 .. n - 1
    BY <1>1, <1>2
  <1> QED BY <1>4, <1>5 DEF i

(* A probe depends on shorter ranges only.                                 *)
LEMMA ProbesShrink ==
  ASSUME NEW keys, Len(keys) \in Nat, NEW key, NEW dup, NEW f, NEW g,
         NEW p \in Ranges(Len(keys)),
         \A q \in Ranges(Len(keys)) : q[2] - q[1] < p[2] - p[1] => f[q] = g[q]
  PROVE  Probed(keys, key, dup, f, p) = Probed(keys, key, dup, g, p)
  <1> DEFINE n == Len(keys)
             l == p[1]
             h == p[2]
             i == (l + h) \div 2
  <1>1. l \in 0 .. n /\ h \in -1 .. n - 1
    BY DEF Ranges
  <1>2. CASE l > h
    BY <1>2 DEF Probed
  <1>3. CASE ~(l > h)
    <2>1. l <= h
      BY <1>1, <1>3
    <2>2. /\ <<i + 1, h>> \in Ranges(n) /\ <<l, i - 1>> \in Ranges(n)
          /\ h - (i + 1) < h - l /\ (i - 1) - l < h - l
      BY <1>1, <2>1, Halves
    <2> HIDE DEF i, n
    <2>3. f[<<i + 1, h>>] = g[<<i + 1, h>>] /\ f[<<l, i - 1>>] = g[<<l, i - 1>>]
      BY <2>2 DEF n
    <2> QED BY <2>3 DEF Probed, i
  <1> QED BY <1>2, <1>3

(* So the search is defined.                                               *)
LEMMA SearchExists ==
  ASSUME NEW keys, Len(keys) \in Nat, NEW key, NEW dup
  PROVE  \E f : Searches(f, keys, key, dup)
  <1> DEFINE n == Len(keys)
             D == Ranges(n)
             Upto(f, m) == \A p \in D :
                             p[2] - p[1] < m => f[p] = Probed(keys, key, dup, f, p)
             Good == {m \in Nat : \E f : Upto(f, m)}
  <1>0. \A p \in D : p[1] \in Int /\ p[2] \in Int /\ p[1] >= 0 /\ p[2] < n
    BY DEF Ranges
  <1>1. 0 \in Good
    <2> DEFINE f == [p \in D |-> Probed(keys, key, dup, <<>>, p)]
    <2>1. ASSUME NEW p \in D, p[2] - p[1] < 0
          PROVE  f[p] = Probed(keys, key, dup, f, p)
      <3>1. p[1] > p[2]
        BY <1>0, <2>1
      <3> QED BY <3>1 DEF Probed
    <2> HIDE DEF f
    <2> QED BY <2>1
  <1>2. ASSUME NEW m \in Nat, m \in Good PROVE m + 1 \in Good
    <2>1. PICK f : Upto(f, m)
      BY <1>2
    <2> DEFINE g == [p \in D |-> Probed(keys, key, dup, f, p)]
    <2>2. ASSUME NEW p \in D, p[2] - p[1] < m + 1
          PROVE  g[p] = Probed(keys, key, dup, g, p)
      <3>1. ASSUME NEW q \in D, q[2] - q[1] < p[2] - p[1] PROVE f[q] = g[q]
        <4>1. q[2] - q[1] < m
          BY <1>0, <2>2, <3>1
        <4> QED BY <2>1, <4>1
      <3> HIDE DEF g
      <3>2. Probed(keys, key, dup, f, p) = Probed(keys, key, dup, g, p)
        BY <3>1, ProbesShrink
      <3> QED BY <3>2 DEF g
    <2> HIDE DEF g
    <2>3. Upto(g, m + 1)
      BY <2>2
    <2> QED BY <2>3
  <1>3. n + 1 \in Good
    <2> HIDE DEF Good
    <2> QED BY <1>1, <1>2, Induct
  <1>4. PICK f : Upto(f, n + 1)
    BY <1>3
  <1> DEFINE g == [p \in D |-> Probed(keys, key, dup, f, p)]
  <1>5. ASSUME NEW p \in D PROVE f[p] = Probed(keys, key, dup, f, p) /\ f[p] = g[p]
    <2>1. p[2] - p[1] < n + 1
      BY <1>0
    <2> QED BY <1>4, <2>1
  <1>6. ASSUME NEW p \in D PROVE g[p] = Probed(keys, key, dup, g, p)
    <2> HIDE DEF g
    <2>1. Probed(keys, key, dup, f, p) = Probed(keys, key, dup, g, p)
      BY <1>5, ProbesShrink
    <2> QED BY <1>5, <2>1
  <1>7. g = [p \in D |-> g[p]]
    OBVIOUS
  <1> HIDE DEF g
  <1>8. g = [p \in D |-> Probed(keys, key, dup, g, p)]
    BY <1>6, <1>7
  <1> QED BY <1>8 DEF Searches

(* and search is the value of such a function.                             *)
LEMMA SearchIs ==
  ASSUME NEW keys, Len(keys) \in Nat, NEW key, NEW dup
  PROVE  \E f : /\ Searches(f, keys, key, dup)
                /\ search(keys, key, dup) = f[<<0, Len(keys) - 1>>]
  <1>1. \E f : Searches(f, keys, key, dup)
    BY SearchExists
  <1> QED BY <1>1 DEF search, Searches, Probed, Ranges
-----------------------------------------------------------------------------
(* What a search in the range from l to h finds: whether the key is there; *)
(* if it is and no key is twice, where; otherwise the first place whose    *)
(* key is not smaller.                                                     *)
Found(keys, key, dup, l, h, r) ==
  /\ r \in [res : BOOLEAN, index : 0 .. Len(keys)]
  /\ r.res <=> \E j \in l + 1 .. h + 1 : keys[j] = key
  /\ dup \/ ~r.res => \A j \in 1 .. Len(keys) : keys[j] < key <=> j <= r.index
  /\ ~dup /\ r.res => r.index < Len(keys) /\ keys[r.index + 1] = key

(* and when it may be searched: what is before it is smaller, what is      *)
(* behind it is not.                                                       *)
Around(keys, key, l, h) ==
  /\ l <= h + 1
  /\ \A j \in 1 .. Len(keys) :
       (j <= l => keys[j] < key) /\ (j > h + 1 => keys[j] >= key)

Ordered(keys) == \A i, j \in 1 .. Len(keys) : i < j => keys[i] <= keys[j]

(* One probe finds the key when the searches of the halves do.             *)
LEMMA ProbeFinds ==
  ASSUME NEW keys \in Seq(Int), Ordered(keys), NEW key \in Int, NEW dup \in BOOLEAN,
         NEW f, NEW l \in 0 .. Len(keys), NEW h \in -1 .. Len(keys) - 1,
         Around(keys, key, l, h),
         \A q \in Ranges(Len(keys)) :
           q[2] - q[1] < h - l /\ Around(keys, key, q[1], q[2])
             => Found(keys, key, dup, q[1], q[2], f[q])
  PROVE  Found(keys, key, dup, l, h, Probed(keys, key, dup, f, <<l, h>>))
  <1> DEFINE n == Len(keys)
             i == (l + h) \div 2
             r == Probed(keys, key, dup, f, <<l, h>>)
  <1>0. n \in Nat /\ n = Len(keys) /\ \A j \in 1 .. n : keys[j] \in Int
    OBVIOUS
  <1>1. CASE l > h
    <2>1. r = [res |-> FALSE, index |-> l]
      BY <1>1 DEF Probed
    <2> HIDE DEF r, n
    <2>2. r \in [res : BOOLEAN, index : 0 .. n] /\ r.res = FALSE /\ r.index = l
      BY <1>0, <2>1
    <2>3. \A j \in 1 .. n : keys[j] < key <=> j <= l
      <3>1. l = h + 1
        BY <1>1 DEF Around
      <3>2. ASSUME NEW j \in 1 .. n PROVE keys[j] < key <=> j <= l
        <4>1. keys[j] \in Int /\ j \in Int
          BY <1>0
        <4>2. (j <= l => keys[j] < key) /\ (j > h + 1 => keys[j] >= key)
          BY <1>0 DEF Around
        <4> QED BY <3>1, <4>1, <4>2
      <3> QED BY <3>2
    <2>4. ~\E j \in l + 1 .. h + 1 : keys[j] = key
      BY <1>1
    <2> QED BY <1>0, <2>2, <2>3, <2>4 DEF Found, r
  <1>2. CASE l <= h
    <2> DEFINE m == i + 1
    <2>0. /\ i \in l .. h /\ i \in 0 .. n - 1
          /\ <<i + 1, h>> \in Ranges(n) /\ <<l, i - 1>> \in Ranges(n)
          /\ h - (i + 1) < h - l /\ (i - 1) - l < h - l
      BY <1>0, <1>2, Halves
    <2>1. /\ m \in l + 1 .. h + 1 /\ m \in 1 .. n /\ i = m - 1 /\ i \in 0 .. n
          /\ <<m, h>> \in Ranges(n) /\ <<l, m - 2>> \in Ranges(n)
          /\ h - m < h - l /\ (m - 2) - l < h - l
      <3> HIDE DEF i, n
      <3>1. i \in Int /\ i - 1 = m - 2
        BY <2>0
      <3> QED BY <1>0, <2>0, <3>1
    <2>2. r = IF keys[m] < key THEN f[<<m, h>>]
              ELSE IF keys[m] > key THEN f[<<l, m - 2>>]
              ELSE IF ~dup THEN [res |-> TRUE, index |-> i]
              ELSE [f[<<l, m - 2>>] EXCEPT !.res = TRUE]
      <3>1. i \in Int /\ i - 1 = m - 2
        BY <2>0
      <3>2. r = IF keys[m] < key THEN f[<<m, h>>]
                ELSE IF keys[m] > key THEN f[<<l, i - 1>>]
                ELSE IF ~dup THEN [res |-> TRUE, index |-> i]
                ELSE [f[<<l, i - 1>>] EXCEPT !.res = TRUE]
        BY <1>2 DEF Probed
      <3> HIDE DEF i, m, r
      <3> QED BY <3>1, <3>2
    <2> HIDE DEF i, r, n, m
    <2>3. \A j \in 1 .. n : (j < m => keys[j] <= keys[m]) /\ (m < j => keys[m] <= keys[j])
      BY <1>0, <2>1 DEF Ordered
    <2>4. keys[m] \in Int /\ l \in Int /\ h \in Int /\ m \in Int /\ 0 <= l /\ h < n
      BY <1>0, <2>1
    <2>9. \A p \in Ranges(n) : \A x, y : p = <<x, y>> => p[1] = x /\ p[2] = y
      OBVIOUS
    <2>5. CASE keys[m] < key
      <3>1. Around(keys, key, m, h)
        <4>1. \A j \in 1 .. n : j <= m => keys[j] < key
          BY <1>0, <2>1, <2>3, <2>4, <2>5
        <4>2. m <= h + 1 /\ \A j \in 1 .. n : j > h + 1 => keys[j] >= key
          BY <1>0, <2>1, <2>4 DEF Around
        <4> QED BY <1>0, <4>1, <4>2 DEF Around
      <3>2. Found(keys, key, dup, m, h, r)
        BY <1>0, <2>1, <2>2, <2>5, <3>1
      <3>3. (\E j \in m + 1 .. h + 1 : keys[j] = key)
              <=> \E j \in l + 1 .. h + 1 : keys[j] = key
        <4>1. ASSUME NEW j \in l + 1 .. h + 1, keys[j] = key PROVE j \in m + 1 .. h + 1
          <5>1. j \in 1 .. n /\ j \in Int
            BY <1>0, <2>4
          <5>2. ~(j <= m)
            BY <1>0, <2>3, <2>4, <2>5, <4>1, <5>1
          <5> QED BY <2>4, <5>1, <5>2
        <4>2. ASSUME NEW j \in m + 1 .. h + 1 PROVE j \in l + 1 .. h + 1
          BY <2>1, <2>4
        <4> QED BY <4>1, <4>2
      <3> QED BY <3>2, <3>3 DEF Found, r
    <2>10. (\A j \in 1 .. n : j >= m => keys[j] >= key) => Around(keys, key, l, m - 2)
      <3>1. l <= (m - 2) + 1
        BY <2>1, <2>4
      <3> QED BY <1>0, <2>4, <3>1 DEF Around
    <2>11. Around(keys, key, l, m - 2) => Found(keys, key, dup, l, m - 2, f[<<l, m - 2>>])
      BY <1>0, <2>1
    <2>6. CASE keys[m] > key
      <3>1. \A j \in 1 .. n : j >= m => keys[j] >= key /\ keys[j] # key
        <4>1. ASSUME NEW j \in 1 .. n, j >= m PROVE keys[j] >= key /\ keys[j] # key
          <5>1. keys[j] \in Int /\ j \in Int /\ (m < j => keys[m] <= keys[j])
            BY <1>0, <2>3
          <5> QED BY <2>4, <2>6, <4>1, <5>1
        <4> QED BY <4>1
      <3>2. Found(keys, key, dup, l, m - 2, r)
        BY <2>2, <2>4, <2>6, <2>10, <2>11, <3>1
      <3>3. (\E j \in l + 1 .. (m - 2) + 1 : keys[j] = key)
              <=> \E j \in l + 1 .. h + 1 : keys[j] = key
        <4>1. ASSUME NEW j \in l + 1 .. h + 1, keys[j] = key
              PROVE  j \in l + 1 .. (m - 2) + 1
          <5>1. j \in 1 .. n /\ j \in Int
            BY <1>0, <2>4
          <5>2. ~(j >= m)
            BY <3>1, <4>1, <5>1
          <5> QED BY <2>4, <5>1, <5>2
        <4>2. ASSUME NEW j \in l + 1 .. (m - 2) + 1 PROVE j \in l + 1 .. h + 1
          BY <2>1, <2>4
        <4> QED BY <4>1, <4>2
      <3> QED BY <3>2, <3>3 DEF Found, r
    <2>7. CASE keys[m] = key /\ ~dup
      <3>1. r = [res |-> TRUE, index |-> i]
        BY <2>2, <2>4, <2>7
      <3>2. /\ r \in [res : BOOLEAN, index : 0 .. n] /\ r.res = TRUE
            /\ r.index < n /\ r.index + 1 = m
        BY <1>0, <2>1, <3>1
      <3>3. \E j \in l + 1 .. h + 1 : keys[j] = key
        BY <2>1, <2>7
      <3> QED BY <1>0, <2>7, <3>2, <3>3 DEF Found, r
    <2>8. CASE keys[m] = key /\ dup
      <3> DEFINE b == f[<<l, m - 2>>]
      <3>1. \A j \in 1 .. n : j >= m => keys[j] >= key
        <4>1. ASSUME NEW j \in 1 .. n, j >= m PROVE keys[j] >= key
          <5>1. keys[j] \in Int /\ j \in Int /\ (m < j => keys[m] <= keys[j])
            BY <1>0, <2>3
          <5> QED BY <2>4, <2>8, <4>1, <5>1
        <4> QED BY <4>1
      <3>2. Found(keys, key, dup, l, m - 2, b)
        BY <2>10, <2>11, <3>1
      <3>3. r = [b EXCEPT !.res = TRUE]
        BY <2>2, <2>4, <2>8
      <3> HIDE DEF b
      <3>4. b \in [res : BOOLEAN, index : 0 .. Len(keys)]
        BY <3>2 DEF Found
      <3>5. r \in [res : BOOLEAN, index : 0 .. Len(keys)] /\ r.res = TRUE /\ r.index = b.index
        BY <3>3, <3>4
      <3>6. \E j \in l + 1 .. h + 1 : keys[j] = key
        BY <2>1, <2>8
      <3> QED BY <2>8, <3>2, <3>5, <3>6 DEF Found, r
    <2> QED BY <2>4, <2>5, <2>6, <2>7, <2>8
  <1> QED BY <1>1, <1>2

(* So the search finds what it looks for among keys in order.              *)
LEMMA SearchFinds ==
  ASSUME NEW keys \in Seq(Int), Ordered(keys), NEW key \in Int, NEW dup \in BOOLEAN
  PROVE  Found(keys, key, dup, 0, Len(keys) - 1, search(keys, key, dup))
  <1> DEFINE n == Len(keys)
  <1>0. n \in Nat
    OBVIOUS
  <1>1. PICK f : /\ Searches(f, keys, key, dup)
                 /\ search(keys, key, dup) = f[<<0, n - 1>>]
    BY SearchIs
  <1> DEFINE S == {m \in Nat : \A q \in Ranges(n) :
                     q[2] - q[1] < m /\ Around(keys, key, q[1], q[2])
                       => Found(keys, key, dup, q[1], q[2], f[q])}
  <1>2. \A q \in Ranges(n) :
          q[1] \in 0 .. n /\ q[2] \in -1 .. n - 1 /\ q = <<q[1], q[2]>>
    BY DEF Ranges
  <1>3. ASSUME NEW m \in Nat,
               \A q \in Ranges(n) :
                 q[2] - q[1] < m /\ Around(keys, key, q[1], q[2])
                   => Found(keys, key, dup, q[1], q[2], f[q])
        PROVE  \A q \in Ranges(n) :
                 q[2] - q[1] < m + 1 /\ Around(keys, key, q[1], q[2])
                   => Found(keys, key, dup, q[1], q[2], f[q])
    <2> SUFFICES ASSUME NEW p \in Ranges(n), p[2] - p[1] < m + 1,
                        Around(keys, key, p[1], p[2])
                 PROVE  Found(keys, key, dup, p[1], p[2], f[p])
      OBVIOUS
    <2> DEFINE l == p[1]
               h == p[2]
    <2>1. l \in 0 .. n /\ h \in -1 .. n - 1 /\ p = <<l, h>>
      BY <1>2
    <2>2. f[p] = Probed(keys, key, dup, f, <<l, h>>)
      BY <1>1, <2>1 DEF Searches
    <2>3. ASSUME NEW q \in Ranges(n), q[2] - q[1] < h - l,
                 Around(keys, key, q[1], q[2])
          PROVE  Found(keys, key, dup, q[1], q[2], f[q])
      <3>1. q[2] - q[1] < m
        BY <1>2, <2>1, <2>3
      <3> QED BY <1>3, <2>3, <3>1
    <2> HIDE DEF l, h
    <2>4. Around(keys, key, l, h)
      BY DEF l, h
    <2>5. Found(keys, key, dup, l, h, Probed(keys, key, dup, f, <<l, h>>))
      BY <2>1, <2>3, <2>4, ProbeFinds
    <2> QED BY <2>2, <2>5 DEF l, h
  <1>4. 0 \in S
    <2>1. ASSUME NEW q \in Ranges(n), q[2] - q[1] < 0, Around(keys, key, q[1], q[2])
          PROVE  Found(keys, key, dup, q[1], q[2], f[q])
      <3> DEFINE l == q[1]
                 h == q[2]
      <3>1. l \in 0 .. n /\ h \in -1 .. n - 1 /\ q = <<l, h>> /\ l > h
        BY <1>2, <2>1
      <3>2. f[q] = Probed(keys, key, dup, f, <<l, h>>)
        BY <1>1, <3>1 DEF Searches
      <3> HIDE DEF l, h
      <3>3. ASSUME NEW p \in Ranges(n), p[2] - p[1] < h - l,
                   Around(keys, key, p[1], p[2])
            PROVE  FALSE
        <4>1. p[1] <= p[2] + 1 /\ h - l <= -1
          BY <3>1, <3>3 DEF Around
        <4> QED BY <1>2, <3>1, <3>3, <4>1
      <3>4. Around(keys, key, l, h)
        BY <2>1 DEF l, h
      <3>5. Found(keys, key, dup, l, h, Probed(keys, key, dup, f, <<l, h>>))
        BY <3>1, <3>3, <3>4, ProbeFinds
      <3> QED BY <3>2, <3>5 DEF l, h
    <2> QED BY <2>1
  <1>5. ASSUME NEW m \in Nat, m \in S PROVE m + 1 \in S
    BY <1>3, <1>5
  <1>6. n + 1 \in S
    <2> HIDE DEF S
    <2> QED BY <1>0, <1>4, <1>5, Induct
  <1>7. <<0, n - 1>> \in Ranges(n)
    BY <1>0 DEF Ranges
  <1>8. Around(keys, key, 0, n - 1)
    BY <1>0 DEF Around
  <1>9. Found(keys, key, dup, 0, n - 1, f[<<0, n - 1>>])
    <2> DEFINE p == <<0, n - 1>>
    <2>1. p \in Ranges(n) /\ p[1] = 0 /\ p[2] = n - 1
      BY <1>7
    <2>2. p[2] - p[1] < n + 1
      BY <1>0, <2>1
    <2> HIDE DEF p
    <2> QED BY <1>6, <1>8, <2>1, <2>2 DEF p
  <1> QED BY <1>1, <1>9
-----------------------------------------------------------------------------
(* The list: its items are apart, in order if it is sorted, and within the *)
(* array until it holds max_list_size items.                               *)
ItemType == [key : Int, u : ListNames]

ListType ==
  [items : Seq(ItemType), Limit : Nat, sorted : BOOLEAN, Duplicates : BOOLEAN,
   over : BOOLEAN]

NamesApart(sq) == \A i, j \in 1 .. Len(sq) : sq[i].u = sq[j].u => i = j

\* at least, and at most in a list without duplicates
Before(dup, a, b) == a <= b /\ (~dup => a # b)

InOrder(sq, dup) ==
  \A i, j \in 1 .. Len(sq) : i < j => Before(dup, sq[i].key, sq[j].key)

Fits(l) ==
  /\ l.Limit <= MaxList
  /\ IF l.over THEN Len(l.items) > MaxList ELSE Len(l.items) <= l.Limit

ListInv(l) ==
  /\ l \in ListType /\ NamesApart(l.items) /\ Fits(l)
  /\ l.sorted => InOrder(l.items, l.Duplicates)

(* What inserting and removing an item does to a sequence.                 *)
Inserted(t, sq, i, x) ==
  /\ Len(t) = Len(sq) + 1
  /\ \A j \in 1 .. Len(sq) + 1 :
       t[j] = IF j <= i THEN sq[j] ELSE IF j = i + 1 THEN x ELSE sq[j - 1]

Removed(t, sq, i) ==
  /\ Len(t) = Len(sq) - 1
  /\ \A j \in 1 .. Len(sq) - 1 : t[j] = IF j < i THEN sq[j] ELSE sq[j + 1]

(* Where each element is after an insertion.                               *)
LEMMA InsertIs ==
  ASSUME NEW T, NEW sq \in Seq(T), NEW i \in 0 .. Len(sq), NEW x \in T
  PROVE  /\ Seqs!InsertAt(sq, i + 1, x) \in Seq(T)
         /\ Inserted(Seqs!InsertAt(sq, i + 1, x), sq, i, x)
  <1> DEFINE n == Len(sq)
             a == SubSeq(sq, 1, (i + 1) - 1)
             b == SubSeq(sq, i + 1, n)
             c == a \o <<x>>
  <1>1. n \in Nat /\ i \in Int /\ 0 <= i /\ i <= n /\ (i + 1) - 1 = i
    OBVIOUS
  <1>2. a \in Seq(T) /\ Len(a) = i /\ \A j \in 1 .. i : a[j] = sq[j]
    BY <1>1
  <1>3. b \in Seq(T) /\ Len(b) = n - i /\ \A j \in 1 .. n - i : b[j] = sq[i + j]
    BY <1>1, SubSeqProperties
  <1>4. Seqs!InsertAt(sq, i + 1, x) = c \o b
    BY DEF Seqs!InsertAt
  <1> HIDE DEF a, b, n
  <1>5. /\ c \in Seq(T) /\ Len(c) = i + 1 /\ c[i + 1] = x
        /\ \A j \in 1 .. i : c[j] = sq[j]
    BY <1>1, <1>2
  <1> HIDE DEF c
  <1>6. c \o b \in Seq(T) /\ Len(c \o b) = n + 1
    <2>1. c \o b \in Seq(T) /\ Len(c \o b) = Len(c) + Len(b)
      BY <1>3, <1>5, ConcatProperties
    <2> QED BY <1>1, <1>3, <1>5, <2>1
  <1>7. ASSUME NEW j \in 1 .. n + 1
        PROVE  (c \o b)[j] = IF j <= i THEN sq[j] ELSE IF j = i + 1 THEN x ELSE sq[j - 1]
    <2>1. CASE j <= i + 1
      <3>1. (c \o b)[j] = c[j]
        BY <1>1, <1>3, <1>5, <2>1
      <3> QED BY <1>1, <1>5, <2>1, <3>1
    <2>2. CASE j > i + 1
      <3>1. (c \o b)[j] = b[j - (i + 1)]
        <4>1. j \in 1 .. Len(c) + Len(b) /\ ~(j <= Len(c))
          BY <1>1, <1>3, <1>5, <2>2
        <4>2. (c \o b)[j] = b[j - Len(c)]
          BY <1>3, <1>5, <4>1, ConcatProperties
        <4> QED BY <1>5, <4>2
      <3>2. j - (i + 1) \in 1 .. n - i /\ i + (j - (i + 1)) = j - 1
        BY <1>1, <2>2
      <3>3. b[j - (i + 1)] = sq[j - 1]
        BY <1>3, <3>2
      <3> QED BY <1>1, <2>2, <3>1, <3>3
    <2>3. j <= i + 1 \/ j > i + 1
      BY <1>1
    <2> QED BY <2>1, <2>2, <2>3, Zenon
  <1>8. Inserted(c \o b, sq, i, x)
    BY <1>6, <1>7, Zenon DEF n, Inserted
  <1> QED BY <1>4, <1>6, <1>8, Zenon

(* Where each element is after a removal.                                  *)
LEMMA RemoveIs ==
  ASSUME NEW T, NEW sq \in Seq(T), NEW i \in 1 .. Len(sq)
  PROVE  Seqs!RemoveAt(sq, i) \in Seq(T) /\ Removed(Seqs!RemoveAt(sq, i), sq, i)
  <1> DEFINE n == Len(sq)
             a == SubSeq(sq, 1, i - 1)
             b == SubSeq(sq, i + 1, n)
  <1>1. n \in Nat /\ i \in Int /\ 1 <= i /\ i <= n
    OBVIOUS
  <1>2. a \in Seq(T) /\ Len(a) = i - 1 /\ \A j \in 1 .. i - 1 : a[j] = sq[j]
    BY <1>1
  <1>3. b \in Seq(T) /\ Len(b) = n - i /\ \A j \in 1 .. n - i : b[j] = sq[i + j]
    BY <1>1, SubSeqProperties
  <1>4. Seqs!RemoveAt(sq, i) = a \o b
    BY DEF Seqs!RemoveAt
  <1> HIDE DEF a, b, n
  <1>5. a \o b \in Seq(T) /\ Len(a \o b) = n - 1
    <2>1. a \o b \in Seq(T) /\ Len(a \o b) = Len(a) + Len(b)
      BY <1>2, <1>3, ConcatProperties
    <2> QED BY <1>1, <1>2, <1>3, <2>1
  <1>6. ASSUME NEW j \in 1 .. n - 1
        PROVE  (a \o b)[j] = IF j < i THEN sq[j] ELSE sq[j + 1]
    <2>1. CASE j < i
      BY <1>1, <1>2, <1>3, <2>1
    <2>2. CASE j >= i
      <3>1. (a \o b)[j] = b[j - (i - 1)]
        BY <1>1, <1>2, <1>3, <2>2
      <3>2. j - (i - 1) \in 1 .. n - i /\ i + (j - (i - 1)) = j + 1
        BY <1>1, <2>2
      <3>3. b[j - (i - 1)] = sq[j + 1]
        BY <1>3, <3>2
      <3> QED BY <1>1, <2>2, <3>1, <3>3
    <2>3. j < i \/ j >= i
      BY <1>1
    <2> QED BY <2>1, <2>2, <2>3, Zenon
  <1> QED BY <1>4, <1>5, <1>6 DEF n, Removed

(* add_at keeps a list, if the item is new and put where it belongs.       *)
LEMMA AddKeeps ==
  ASSUME NEW l, ListInv(l), ~l.over, NEW i \in 0 .. Len(l.items), NEW x \in ItemType,
         \A j \in 1 .. Len(l.items) : l.items[j].u # x.u,
         l.sorted => \A j \in 1 .. Len(l.items) :
                       /\ j <= i => Before(l.Duplicates, l.items[j].key, x.key)
                       /\ j > i => Before(l.Duplicates, x.key, l.items[j].key)
  PROVE  ListInv(add_at(l, i, x))
  <1> DEFINE sq == l.items
             n == Len(sq)
             t == Seqs!InsertAt(sq, i + 1, x)
             g == IF n = l.Limit THEN set_limit(l, n + ListDelta) ELSE l
             o == l.over \/ n = g.Limit
  <1> USE ListAssumption
  <1>1. sq \in Seq(ItemType) /\ n \in Nat /\ l.Limit \in Nat /\ n <= l.Limit /\ l.Limit <= MaxList
    BY DEF ListInv, ListType, Fits
  <1>2. /\ t \in Seq(ItemType) /\ Len(t) = n + 1
        /\ \A j \in 1 .. n + 1 :
             t[j] = IF j <= i THEN sq[j] ELSE IF j = i + 1 THEN x ELSE sq[j - 1]
    <2>1. i \in 0 .. Len(sq)
      OBVIOUS
    <2> HIDE DEF sq
    <2>2. t \in Seq(ItemType) /\ Inserted(t, sq, i, x)
      BY <1>1, <2>1, InsertIs, Zenon
    <2> QED BY <2>2 DEF Inserted
  <1>3. add_at(l, i, x) = [g EXCEPT !.items = Seqs!InsertAt(@, i + 1, x), !.over = @ \/ n = g.Limit]
    BY DEF add_at, Count
  <1>4. /\ g \in ListType /\ g.items = sq /\ g.over = FALSE /\ g.sorted = l.sorted
        /\ g.Duplicates = l.Duplicates /\ n <= g.Limit /\ g.Limit <= MaxList
        /\ n = g.Limit => n = MaxList
    <2>1. CASE n # l.Limit
      BY <1>1, <2>1 DEF ListInv, ListType
    <2>2. CASE n = l.Limit
      <3> DEFINE w == IF n + ListDelta > MaxList THEN MaxList ELSE n + ListDelta
      <3>1. g = [l EXCEPT !.Limit = w]
        BY <1>1, <2>2 DEF set_limit, Count
      <3>2. w \in Nat /\ n <= w /\ w <= MaxList /\ (n = w => n = MaxList)
        BY <1>1, <2>2
      <3> HIDE DEF w, g
      <3> QED BY <3>1, <3>2 DEF ListInv, ListType
    <2> QED BY <2>1, <2>2
  <1>5. t = Seqs!InsertAt(g.items, i + 1, x) /\ o = (g.over \/ n = g.Limit) /\ o \in BOOLEAN
    BY <1>4
  <1> DEFINE r == add_at(l, i, x)
  <1>6. r = [g EXCEPT !.items = t, !.over = o]
    BY <1>3, <1>5
  <1> HIDE DEF g, t, sq, n, r, o
  <1>7. /\ r \in ListType /\ r.items = t /\ r.over = o /\ r.Limit = g.Limit
        /\ r.sorted = l.sorted /\ r.Duplicates = l.Duplicates
    BY <1>2, <1>4, <1>5, <1>6 DEF ListType
  <1>8. Fits(r)
    <2>1. Len(r.items) = n + 1 /\ r.Limit = g.Limit /\ r.over = o
      BY <1>2, <1>7
    <2>2. g.Limit \in Nat /\ (o <=> n = g.Limit)
      BY <1>4, <1>5 DEF ListType
    <2>3. CASE n = g.Limit
      BY <1>1, <1>4, <2>1, <2>2, <2>3 DEF Fits
    <2>4. CASE n # g.Limit
      BY <1>1, <1>4, <2>1, <2>2, <2>4 DEF Fits
    <2> QED BY <2>3, <2>4
  <1>9. NamesApart(t)
    <2>1. \A j, k \in 1 .. n : sq[j].u = sq[k].u => j = k
      BY DEF ListInv, NamesApart, sq, n
    <2>2. \A j \in 1 .. n : sq[j].u # x.u
      BY DEF sq, n
    <2>3. \A j \in 1 .. n + 1 : (j <= i => j \in 1 .. n) /\ (j > i + 1 => j - 1 \in 1 .. n)
      BY <1>1 DEF n, sq
    <2>4. SUFFICES ASSUME NEW j \in 1 .. n + 1, NEW k \in 1 .. n + 1, t[j].u = t[k].u
                   PROVE  j = k
      BY <1>2 DEF NamesApart
    <2>5. i \in Int /\ j \in Int /\ k \in Int
      BY <1>1
    <2> QED BY <1>2, <2>1, <2>2, <2>3, <2>4, <2>5
  <1>10. ASSUME l.sorted PROVE InOrder(t, l.Duplicates)
    <2>1. \A j, k \in 1 .. n : j < k => Before(l.Duplicates, sq[j].key, sq[k].key)
      BY <1>10 DEF ListInv, InOrder, sq, n
    <2>2. \A j \in 1 .. n : /\ j <= i => Before(l.Duplicates, sq[j].key, x.key)
                            /\ j > i => Before(l.Duplicates, x.key, sq[j].key)
      BY <1>10 DEF sq, n
    <2>3. \A j \in 1 .. n + 1 : (j <= i => j \in 1 .. n) /\ (j > i + 1 => j - 1 \in 1 .. n /\ j - 1 > i)
      BY <1>1 DEF n, sq
    <2>4. SUFFICES ASSUME NEW j \in 1 .. n + 1, NEW k \in 1 .. n + 1, j < k
                   PROVE  Before(l.Duplicates, t[j].key, t[k].key)
      BY <1>2 DEF InOrder
    <2>5. i \in Int /\ j \in Int /\ k \in Int
      BY <1>1
    <2>6. CASE k <= i
      BY <1>2, <2>1, <2>3, <2>4, <2>5, <2>6
    <2>7. CASE k = i + 1
      BY <1>2, <2>2, <2>3, <2>4, <2>5, <2>7
    <2>8. CASE k > i + 1
      <3>1. t[k] = sq[k - 1] /\ k - 1 \in 1 .. n /\ k - 1 > i
        BY <1>2, <2>3, <2>5, <2>8
      <3>2. CASE j <= i
        BY <1>2, <2>1, <2>3, <2>5, <3>1, <3>2
      <3>3. CASE j = i + 1
        BY <1>2, <2>2, <2>5, <3>1, <3>3
      <3>4. CASE j > i + 1
        <4>1. t[j] = sq[j - 1] /\ j - 1 \in 1 .. n /\ j - 1 < k - 1
          BY <1>2, <2>3, <2>4, <2>5, <3>4
        <4> QED BY <2>1, <3>1, <4>1
      <3> QED BY <2>5, <3>2, <3>3, <3>4
    <2> QED BY <2>5, <2>6, <2>7, <2>8
  <1> QED BY <1>7, <1>8, <1>9, <1>10 DEF ListInv, r

(* disconn_at keeps a list.                                                *)
LEMMA RemoveKeeps ==
  ASSUME NEW l, ListInv(l), ~l.over, NEW i \in 1 .. Len(l.items)
  PROVE  ListInv(disconn_at(l, i - 1))
  <1> DEFINE sq == l.items
             n == Len(sq)
             t == Seqs!RemoveAt(sq, i)
             r == disconn_at(l, i - 1)
  <1>1. sq \in Seq(ItemType) /\ n \in Nat /\ l.Limit \in Nat /\ n <= l.Limit /\ l.Limit <= MaxList
    BY DEF ListInv, ListType, Fits
  <1>2. /\ t \in Seq(ItemType) /\ Len(t) = n - 1
        /\ \A j \in 1 .. n - 1 : t[j] = IF j < i THEN sq[j] ELSE sq[j + 1]
    BY <1>1, RemoveIs DEF Removed
  <1>3. r = [l EXCEPT !.items = t]
    <2>1. (i - 1) + 1 = i
      OBVIOUS
    <2> HIDE DEF t
    <2> QED BY <2>1 DEF disconn_at, t, ListInv, ListType
  <1>4. n > 0 /\ i \in Int
    BY <1>1
  <1> HIDE DEF sq, n, t, r
  <1>5. /\ r \in ListType /\ r.items = t /\ r.over = FALSE /\ r.Limit = l.Limit
        /\ r.sorted = l.sorted /\ r.Duplicates = l.Duplicates
    BY <1>2, <1>3 DEF ListType, ListInv
  <1>6. Fits(r)
    BY <1>1, <1>2, <1>5 DEF Fits
  <1>7. \A j \in 1 .. n - 1 : j \in 1 .. n /\ j + 1 \in 1 .. n /\ j \in Int
    BY <1>1
  <1>8. NamesApart(t)
    <2>1. \A j, k \in 1 .. n : sq[j].u = sq[k].u => j = k
      BY DEF ListInv, NamesApart, sq, n
    <2>2. SUFFICES ASSUME NEW j \in 1 .. n - 1, NEW k \in 1 .. n - 1, t[j].u = t[k].u
                   PROVE  j = k
      BY <1>2 DEF NamesApart
    <2> QED BY <1>2, <1>4, <1>7, <2>1, <2>2
  <1>9. ASSUME l.sorted PROVE InOrder(t, l.Duplicates)
    <2>1. \A j, k \in 1 .. n : j < k => Before(l.Duplicates, sq[j].key, sq[k].key)
      BY <1>9 DEF ListInv, InOrder, sq, n
    <2>2. SUFFICES ASSUME NEW j \in 1 .. n - 1, NEW k \in 1 .. n - 1, j < k
                   PROVE  Before(l.Duplicates, t[j].key, t[k].key)
      BY <1>2 DEF InOrder
    <2> QED BY <1>2, <1>4, <1>7, <2>1, <2>2
  <1> QED BY <1>5, <1>6, <1>8, <1>9 DEF ListInv, r

(* The items of a list and their keys.                                     *)
LEMMA KeysAre ==
  ASSUME NEW l, ListInv(l)
  PROVE  /\ l.items \in Seq(ItemType) /\ Len(l.items) \in Nat /\ l.Duplicates \in BOOLEAN
         /\ \A j \in 1 .. Len(l.items) : l.items[j] \in ItemType /\ l.items[j].key \in Int
         /\ KeysOf(l) \in Seq(Int) /\ Len(KeysOf(l)) = Len(l.items)
         /\ \A j \in 1 .. Len(l.items) : KeysOf(l)[j] = l.items[j].key
  <1> DEFINE sq == l.items
             n == Len(sq)
             ks == KeysOf(l)
  <1>1. sq \in Seq(ItemType) /\ l.Duplicates \in BOOLEAN
    BY DEF ListInv, ListType
  <1>2. ks = [j \in 1 .. n |-> sq[j].key]
    BY DEF KeysOf, Count
  <1> HIDE DEF sq, ks
  <1>3. n \in Nat
    BY <1>1
  <1>4. \A j \in 1 .. n : sq[j] \in ItemType
    BY <1>1, ElementOfSeq
  <1>5. \A j \in 1 .. n : sq[j].key \in Int
    BY <1>4 DEF ItemType
  <1> HIDE DEF n
  <1>6. ks \in [1 .. n -> Int]
    BY <1>2, <1>5
  <1>7. ks \in Seq(Int) /\ Len(ks) = n
    BY <1>3, <1>6
  <1>8. \A j \in 1 .. n : ks[j] = sq[j].key
    BY <1>2
  <1> QED BY <1>1, <1>3, <1>4, <1>5, <1>7, <1>8 DEF n, sq, ks

(* What the search finds in a sorted list.                                 *)
LEMMA KeysFound ==
  ASSUME NEW l, ListInv(l), l.sorted, NEW key \in Int
  PROVE  Found(KeysOf(l), key, l.Duplicates, 0, Len(l.items) - 1,
               search(KeysOf(l), key, l.Duplicates))
  <1> DEFINE n == Len(l.items)
             ks == KeysOf(l)
  <1>1. n \in Nat /\ l.Duplicates \in BOOLEAN
    BY KeysAre
  <1>3. ks \in Seq(Int) /\ Len(ks) = n /\ \A j \in 1 .. n : ks[j] = l.items[j].key
    BY KeysAre
  <1> HIDE DEF ks
  <1>4. Ordered(ks)
    BY <1>3 DEF ListInv, InOrder, Before, Ordered
  <1>5. Found(ks, key, l.Duplicates, 0, Len(ks) - 1, search(ks, key, l.Duplicates))
    BY <1>1, <1>3, <1>4, SearchFinds
  <1> QED BY <1>3, <1>5 DEF ks

(* cl_list::add and cl_sorted_list::add keep a list.                       *)
LEMMA ListAddKeeps ==
  ASSUME NEW l, ListInv(l), ~l.over, NEW x \in ItemType,
         \A j \in 1 .. Len(l.items) : l.items[j].u # x.u
  PROVE  ListInv(list_add(l, x))
  <1> DEFINE n == Len(l.items)
             f == search(KeysOf(l), x.key, l.Duplicates)
  <1>1. n \in Nat /\ l.items \in Seq(ItemType) /\ l.Duplicates \in BOOLEAN /\ x.key \in Int
    BY DEF ListInv, ListType, ItemType
  <1>2. CASE ~l.sorted
    <2>1. n \in 0 .. Len(l.items)
      BY <1>1
    <2>2. list_add(l, x) = add_at(l, n, x)
      BY <1>2 DEF list_add, Count
    <2> HIDE DEF n
    <2>3. ListInv(add_at(l, n, x))
      BY <1>2, <2>1, AddKeeps
    <2> QED BY <2>2, <2>3
  <1>3. CASE l.sorted
    <2>1. Found(KeysOf(l), x.key, l.Duplicates, 0, n - 1, f)
      BY <1>1, <1>3, KeysFound
    <2>2. /\ Len(KeysOf(l)) = n
          /\ \A j \in 1 .. n : KeysOf(l)[j] = l.items[j].key /\ l.items[j].key \in Int
      BY KeysAre
    <2> HIDE DEF f, n
    <2>3. f.res \in BOOLEAN /\ f.index \in 0 .. n
      BY <2>1, <2>2 DEF Found
    <2>4. CASE f.res /\ ~l.Duplicates
      BY <1>3, <2>4 DEF list_add, f
    <2>5. CASE ~f.res \/ l.Duplicates
      <3>1. list_add(l, x) = add_at(l, f.index, x)
        BY <1>3, <2>5 DEF list_add, f
      <3>2. \A j \in 1 .. n : l.items[j].key < x.key <=> j <= f.index
        BY <2>1, <2>2, <2>5 DEF Found
      <3>3. ~l.Duplicates => \A j \in 1 .. n : l.items[j].key # x.key
        <4>1. \A j \in 1 .. n : j \in 0 + 1 .. (n - 1) + 1
          BY <1>1 DEF n
        <4> QED BY <2>1, <2>2, <2>5, <4>1 DEF Found
      <3>4. \A j \in 1 .. n : /\ j <= f.index => Before(l.Duplicates, l.items[j].key, x.key)
                              /\ j > f.index => Before(l.Duplicates, x.key, l.items[j].key)
        BY <1>1, <2>2, <2>3, <3>2, <3>3 DEF Before, n
      <3>5. ListInv(add_at(l, f.index, x))
        BY <2>3, <3>4, AddKeeps DEF n
      <3> QED BY <3>1, <3>5
    <2> QED BY <2>3, <2>4, <2>5
  <1> QED BY <1>2, <1>3

(* index_of finds every item of a sorted list.                             *)
LEMMA IndexFinds ==
  ASSUME NEW l, ListInv(l), l.sorted, NEW i \in 1 .. Len(l.items)
  PROVE  index_of(l, l.items[i]) = i - 1
  <1> DEFINE n == Len(l.items)
             x == l.items[i]
             f == search(KeysOf(l), x.key, l.Duplicates)
             at == {j \in f.index .. n - 1 : ~l.Duplicates \/ l.items[j + 1] = x}
  <1>1. n \in Nat /\ l.Duplicates \in BOOLEAN /\ x \in ItemType /\ x.key \in Int
    BY KeysAre
  <1>2. index_of(l, x) = IF ~f.res \/ at = {} THEN NotFound
                         ELSE CHOOSE j \in at : \A k \in at : j <= k
    BY DEF index_of, Count
  <1>3. Found(KeysOf(l), x.key, l.Duplicates, 0, n - 1, f)
    BY <1>1, KeysFound
  <1>4. /\ Len(KeysOf(l)) = n
        /\ \A j \in 1 .. n : KeysOf(l)[j] = l.items[j].key /\ l.items[j].key \in Int
    BY KeysAre
  <1>5. i \in Int /\ 1 <= i /\ i <= n
    BY <1>1
  <1>0. x = l.items[i]
    OBVIOUS
  <1> HIDE DEF f, n, x
  <1>6. f.res /\ f.index \in 0 .. n
    <2>1. i \in 0 + 1 .. (n - 1) + 1 /\ KeysOf(l)[i] = x.key
      BY <1>0, <1>1, <1>4, <1>5
    <2> QED BY <1>3, <1>4, <2>1 DEF Found
  <1>7. i - 1 \in at /\ \A k \in at : i - 1 <= k
    <2>1. CASE l.Duplicates
      <3>1. ~(x.key < x.key)
        BY <1>1
      <3>2. f.index <= i - 1
        BY <1>0, <1>3, <1>4, <1>5, <1>6, <2>1, <3>1 DEF Found
      <3>3. i - 1 \in f.index .. n - 1 /\ (i - 1) + 1 = i
        BY <1>1, <1>5, <1>6, <3>2
      <3>4. i - 1 \in at
        BY <1>0, <3>3
      <3>5. ASSUME NEW k \in at PROVE k = i - 1
        <4>1. k \in Int /\ k + 1 \in 1 .. n /\ l.items[k + 1] = x
          BY <1>1, <1>6, <2>1
        <4>2. k + 1 = i
          BY <1>0, <1>5, <4>1 DEF ListInv, NamesApart, n
        <4> QED BY <1>5, <4>1, <4>2
      <3> QED BY <1>5, <3>4, <3>5
    <2>2. CASE ~l.Duplicates
      <3>1. f.index < n /\ KeysOf(l)[f.index + 1] = x.key
        BY <1>3, <1>4, <1>6, <2>2 DEF Found
      <3>2. f.index + 1 \in 1 .. n /\ f.index \in Int
        BY <1>1, <1>6, <3>1
      <3>3. l.items[f.index + 1].key = l.items[i].key
        BY <1>0, <1>4, <3>1, <3>2
      <3>4. \A j, k \in 1 .. n : j < k => l.items[j].key # l.items[k].key
        BY <2>2 DEF ListInv, InOrder, Before, n
      <3>5. f.index + 1 = i
        BY <1>5, <3>2, <3>3, <3>4
      <3>6. f.index = i - 1
        BY <1>5, <3>2, <3>5
      <3> QED BY <1>1, <1>5, <2>2, <3>6
    <2> QED BY <1>1, <2>1, <2>2
  <1>8. \A j \in at : j \in Int
    BY <1>6
  <1> HIDE DEF at
  <1>9. (CHOOSE j \in at : \A k \in at : j <= k) = i - 1
    <2> DEFINE c == CHOOSE j \in at : \A k \in at : j <= k
    <2>1. c \in at /\ \A k \in at : c <= k
      BY <1>7
    <2> HIDE DEF c
    <2>2. c <= i - 1 /\ i - 1 <= c /\ c \in Int
      BY <1>7, <1>8, <2>1
    <2>3. c = i - 1
      BY <1>5, <2>2
    <2> QED BY <2>3 DEF c
  <1> QED BY <1>2, <1>6, <1>7, <1>9 DEF x

(* Every operation keeps the list.                                         *)
LEMMA ListStep ==
  ASSUME ListInv(li), [ListNext]_li
  PROVE  ListInv(li')
  <1>1. li \in ListType /\ li.items \in Seq(ItemType) /\ Len(li.items) \in Nat
    BY DEF ListInv, ListType
  <1>2. ASSUME NEW k \in Int, NEW u \in ListNames, u \notin {x.u : x \in Stored}
        PROVE  /\ [key |-> k, u |-> u] \in ItemType
               /\ \A j \in 1 .. Len(li.items) : li.items[j].u # [key |-> k, u |-> u].u
    BY <1>2 DEF ItemType, Stored, Count
  <1>3. CASE ListAdd
    <2>1. PICK k \in ListKeys, u \in ListNames :
            /\ ~li.over /\ u \notin {x.u : x \in Stored}
            /\ li' = list_add(li, [key |-> k, u |-> u])
      BY <1>3 DEF ListAdd
    <2>2. k \in Int
      BY ListAssumption
    <2> DEFINE x == [key |-> k, u |-> u]
    <2>3. x \in ItemType /\ \A j \in 1 .. Len(li.items) : li.items[j].u # x.u
      BY <1>2, <2>1, <2>2
    <2> HIDE DEF x
    <2>4. ListInv(list_add(li, x))
      BY <2>1, <2>3, ListAddKeeps
    <2> QED BY <2>1, <2>4 DEF x
  <1>4. CASE ListRemove
    <2>1. PICK x \in Stored : ~li.over /\ li' = disconn(li, x)
      BY <1>4 DEF ListRemove
    <2> DEFINE at == {i \in 1 .. Count(li) : li.items[i] = x}
               m  == CHOOSE i \in at : \A j \in at : i <= j
    <2>2. PICK z \in at : TRUE
      BY DEF Stored
    <2>3. at \in SUBSET Nat /\ at \subseteq 1 .. Len(li.items)
      BY DEF Count
    <2>4. li' = disconn_at(li, m - 1)
      BY <2>1, <2>2 DEF disconn
    <2> HIDE DEF at
    <2>5. \E i \in at : \A j \in at : i <= j
      BY <2>2, <2>3, Least
    <2>6. m \in 1 .. Len(li.items)
      BY <2>3, <2>5
    <2> HIDE DEF m
    <2>7. ListInv(disconn_at(li, m - 1))
      BY <2>1, <2>6, RemoveKeeps
    <2> QED BY <2>4, <2>7
  <1>5. CASE ListClear
    <2>1. ~li.over /\ li' = [li EXCEPT !.items = <<>>]
      BY <1>5 DEF ListClear, free_all
    <2> DEFINE e == <<>>
    <2>2. e \in Seq(ItemType)
      OBVIOUS
    <2> HIDE DEF e
    <2>3. li' = [li EXCEPT !.items = e]
      BY <2>1 DEF e
    <2>4. /\ li' \in ListType /\ li'.items = e /\ li'.over = FALSE
          /\ li'.Limit = li.Limit /\ li.Limit \in Nat
      BY <1>1, <2>2, <2>1, <2>3 DEF ListType
    <2>5. /\ li' \in ListType /\ li'.items = <<>> /\ li'.over = FALSE
          /\ li'.Limit = li.Limit /\ li.Limit \in Nat
      BY <2>4 DEF e
    <2>6. Len(li'.items) = 0
      BY <2>5
    <2>7. Fits(li')
      BY <2>5, <2>6 DEF ListInv, Fits
    <2>8. \A j : j \notin 1 .. 0
      OBVIOUS
    <2>9. NamesApart(li'.items) /\ InOrder(li'.items, li'.Duplicates)
      BY <2>6, <2>8 DEF NamesApart, InOrder
    <2> QED BY <2>5, <2>7, <2>9 DEF ListInv
  <1>6. CASE ListStack
    <2>1. ~li.sorted /\ ~li.over
      BY <1>6 DEF ListStack
    <2>2. ASSUME NEW u \in ListNames, u \notin {x.u : x \in Stored},
                 li' = push(li, [key |-> 0, u |-> u])
          PROVE  ListInv(li')
      <3> DEFINE x == [key |-> 0, u |-> u]
      <3>1. x \in ItemType /\ \A j \in 1 .. Len(li.items) : li.items[j].u # x.u
        <4>1. 0 \in Int
          OBVIOUS
        <4> QED BY <1>2, <2>2, <4>1, Zenon
      <3>2. 0 \in 0 .. Len(li.items)
        BY <1>1
      <3>3. li' = add_at(li, 0, x)
        BY <2>2 DEF push
      <3> HIDE DEF x
      <3>4. ListInv(add_at(li, 0, x))
        BY <2>1, <3>1, <3>2, AddKeeps
      <3> QED BY <3>3, <3>4
    <2>3. ASSUME li.items # <<>>, li' = pop(li) PROVE ListInv(li')
      <3>1. 1 \in 1 .. Len(li.items) /\ 1 - 1 = 0
        BY <1>1, <2>3
      <3>2. li' = disconn_at(li, 1 - 1)
        BY <2>3, <3>1 DEF pop
      <3>3. ListInv(disconn_at(li, 1 - 1))
        BY <2>1, <3>1, RemoveKeeps
      <3> QED BY <3>2, <3>3
    <2> QED BY <1>6, <2>2, <2>3 DEF ListStack
  <1>7. CASE UNCHANGED li
    BY <1>7
  <1> QED BY <1>3, <1>4, <1>5, <1>6, <1>7 DEF ListNext

(* A sorted list stays in order under every sequence of operations, holds  *)
(* no key twice unless it may, index_of finds each of its items also among *)
(* equal keys, and no list stores behind its array before it holds         *)
(* max_list_size items; for every set of keys, growth and largest size.    *)
THEOREM ListsFindAlways == ListInit /\ [][ListNext]_li => []ListsFind
  <1>1. ListInit => ListInv(li)
    <2> SUFFICES ASSUME ListInit PROVE ListInv(li)
      OBVIOUS
    <2>1. PICK sorted \in BOOLEAN, dup \in BOOLEAN : li = list_init(sorted, dup)
      BY DEF ListInit
    <2>2. /\ li \in ListType /\ li.items = <<>> /\ li.Limit = 1 /\ li.over = FALSE
      BY <2>1 DEF list_init, ListType
    <2>3. Len(li.items) = 0
      BY <2>2
    <2>4. Fits(li)
      BY <2>2, <2>3, ListAssumption DEF Fits
    <2>5. \A j : j \notin 1 .. 0
      OBVIOUS
    <2>6. NamesApart(li.items) /\ InOrder(li.items, li.Duplicates)
      BY <2>3, <2>5 DEF NamesApart, InOrder
    <2> QED BY <2>2, <2>4, <2>6 DEF ListInv
  <1>2. ListInv(li) /\ [ListNext]_li => ListInv(li)'
    BY ListStep
  <1>3. ListInv(li) => ListsFind
    <2> SUFFICES ASSUME ListInv(li) PROVE ListsFind
      OBVIOUS
    <2>1. IF li.over THEN Len(li.items) > MaxList ELSE Len(li.items) <= li.Limit
      BY DEF ListInv, Fits
    <2>2. ASSUME li.sorted
          PROVE  \A i, j \in 1 .. Len(li.items) : i < j =>
                   /\ li.items[i].key <= li.items[j].key
                   /\ ~li.Duplicates => li.items[i].key # li.items[j].key
      BY <2>2 DEF ListInv, InOrder, Before
    <2>3. ASSUME li.sorted
          PROVE  \A i \in 1 .. Len(li.items) : index_of(li, li.items[i]) = i - 1
      BY <2>3, IndexFinds
    <2> QED BY <2>1, <2>2, <2>3 DEF ListsFind, Count
  <1> QED BY <1>1, <1>2, <1>3, PTL
-----------------------------------------------------------------------------
(* The address space: its decoders, one behind the other.                  *)
DecType ==
  [u : Nat, key : Nat, e : Nat, chip : DOMAIN ChipSize, cb : Nat, activated : BOOLEAN]

(* Two decoders have no address in common.                                 *)
Beside(dc, f) == dc.e < f.key \/ f.e < dc.key

(* Decoders with names of their own, none of them empty.                   *)
Row(sq) ==
  /\ sq \in Seq(DecType) /\ NamesApart(sq)
  /\ \A j \in 1 .. Len(sq) : sq[j].key <= sq[j].e

(* They lie one behind the other.                                          *)
InRow(sq) == \A i, j \in 1 .. Len(sq) : i < j => sq[i].e < sq[j].key

(* All but the p-th do, which is new among them: it is in order with their *)
(* starts, and beside the first n - 1.                                     *)
NewAmong(sq, p, n, new) ==
  /\ p \in 1 .. Len(sq) /\ sq[p] = new
  /\ \A i, j \in 1 .. Len(sq) : i < j /\ i # p /\ j # p => sq[i].e < sq[j].key
  /\ \A j \in 1 .. Len(sq) :
       (j < p => sq[j].key < new.key) /\ (j > p => new.key <= sq[j].key)
  /\ \A j \in 1 .. Len(sq) : j < n /\ j # p => Beside(sq[j], new)

(* No decoder has to be split.                                             *)
NoneCovers(sq, new) == \A j \in 1 .. Len(sq) : ~covers(sq[j], new.key, new.e)

(* What a row knows of its decoders.                                       *)
LEMMA RowFacts ==
  ASSUME NEW sq, Row(sq), NEW j \in 1 .. Len(sq)
  PROVE  /\ sq[j] \in DecType /\ sq[j].key \in Nat /\ sq[j].e \in Nat /\ sq[j].u \in Nat
         /\ sq[j].cb \in Nat /\ sq[j].activated \in BOOLEAN /\ sq[j].chip \in DOMAIN ChipSize
         /\ sq[j].key <= sq[j].e
  <1>1. sq[j] \in DecType /\ sq[j].key <= sq[j].e
    BY DEF Row
  <1> QED BY <1>1 DEF DecType

(* When the new one is beside all others, all lie in a row.                *)
LEMMA AllBeside ==
  ASSUME NEW sq, Row(sq), NEW p, NEW new, NewAmong(sq, p, Len(sq) + 1, new)
  PROVE  InRow(sq)
  <1> SUFFICES ASSUME NEW i \in 1 .. Len(sq), NEW j \in 1 .. Len(sq), i < j
               PROVE  sq[i].e < sq[j].key
    BY DEF InRow
  <1>1. /\ sq[i].key \in Nat /\ sq[i].e \in Nat /\ sq[i].key <= sq[i].e
        /\ sq[j].key \in Nat /\ sq[j].e \in Nat /\ sq[j].key <= sq[j].e
        /\ Len(sq) \in Nat
    BY RowFacts DEF Row
  <1>2. p \in 1 .. Len(sq) /\ sq[p] = new
    BY DEF NewAmong
  <1>3. CASE i = p
    <2>1. new.key <= sq[j].key /\ Beside(sq[j], new)
      BY <1>1, <1>2, <1>3 DEF NewAmong
    <2> QED BY <1>1, <1>2, <1>3, <2>1 DEF Beside
  <1>4. CASE j = p
    <2>1. sq[i].key < new.key /\ Beside(sq[i], new)
      BY <1>1, <1>2, <1>4 DEF NewAmong
    <2> QED BY <1>1, <1>2, <1>4, <2>1 DEF Beside
  <1>5. CASE i # p /\ j # p
    BY <1>5 DEF NewAmong
  <1> QED BY <1>3, <1>4, <1>5

(* In a row each decoder is beside the others.                             *)
LEMMA RowBeside ==
  ASSUME NEW sq, Row(sq), InRow(sq), NEW p \in 1 .. Len(sq), NEW n
  PROVE  NewAmong(sq, p, n, sq[p]) /\ NoneCovers(sq, sq[p])
  <1>1. \A j \in 1 .. Len(sq) : sq[j].key \in Nat /\ sq[j].e \in Nat /\ sq[j].key <= sq[j].e
    BY RowFacts
  <1>2. Len(sq) \in Nat
    BY DEF Row
  <1>3. \A j \in 1 .. Len(sq) : j < p => sq[j].e < sq[p].key /\ sq[j].key < sq[p].key
    BY <1>1, <1>2 DEF InRow
  <1>4. \A j \in 1 .. Len(sq) : j > p => sq[p].e < sq[j].key /\ sq[p].key <= sq[j].key
    BY <1>1, <1>2 DEF InRow
  <1>5. \A j \in 1 .. Len(sq) : j < p \/ j > p \/ j = p
    BY <1>2
  <1>6. NoneCovers(sq, sq[p])
    BY <1>1, <1>3, <1>4, <1>5 DEF NoneCovers, covers
  <1> QED BY <1>3, <1>4, <1>5, <1>6 DEF NewAmong, Beside, InRow

(* The new decoder itself is passed.                                       *)
LEMMA PassNew ==
  ASSUME NEW sq, Row(sq), NEW p, NEW i \in 1 .. Len(sq), NEW new, NewAmong(sq, p, i, new),
         sq[i].u = new.u \/ Beside(sq[i], new)
  PROVE  NewAmong(sq, p, i + 1, new)
  <1>1. Len(sq) \in Nat
    BY DEF Row
  <1>2. sq[i].u = new.u => i = p
    BY DEF Row, NamesApart, NewAmong
  <1>3. \A j \in 1 .. Len(sq) : j < i + 1 => j < i \/ j = i
    BY <1>1
  <1> QED BY <1>2, <1>3 DEF NewAmong

(* A decoder that is removed leaves the others where they were.            *)
LEMMA RemoveRow ==
  ASSUME NEW sq, Row(sq), NEW p, NEW i \in 1 .. Len(sq), NEW new, NewAmong(sq, p, i, new),
         i # p, NEW t \in Seq(DecType), Removed(t, sq, i)
  PROVE  /\ Row(t) /\ \E q : NewAmong(t, q, i, new)
         /\ NoneCovers(sq, new) => NoneCovers(t, new)
  <1> DEFINE old(j) == IF j < i THEN j ELSE j + 1
             q == IF p < i THEN p ELSE p - 1
  <1>1. Len(sq) \in Nat /\ Len(t) = Len(sq) - 1 /\ p \in 1 .. Len(sq) /\ sq[p] = new
    BY DEF Row, NewAmong, Removed
  <1>2. \A j \in 1 .. Len(t) : old(j) \in 1 .. Len(sq) /\ t[j] = sq[old(j)]
    BY <1>1 DEF Removed
  <1>3. \A j, k \in 1 .. Len(t) : (j < k <=> old(j) < old(k)) /\ (old(j) = old(k) => j = k)
    BY <1>1
  <1>4. q \in 1 .. Len(t) /\ \A j \in 1 .. Len(t) : (j = q <=> old(j) = p)
                                                 /\ (j < q <=> old(j) < p) /\ (j > q <=> old(j) > p)
    BY <1>1
  <1>5. \A j \in 1 .. Len(t) : j < i => old(j) < i
    BY <1>1
  <1> HIDE DEF old, q
  <1>6. Row(t)
    <2>1. ASSUME NEW j \in 1 .. Len(t), NEW k \in 1 .. Len(t), t[j].u = t[k].u PROVE j = k
      <3>1. old(j) = old(k)
        BY <1>2, <2>1 DEF Row, NamesApart
      <3> QED BY <1>3, <3>1
    <2>2. \A j \in 1 .. Len(t) : t[j].key <= t[j].e
      BY <1>2 DEF Row
    <2> QED BY <2>1, <2>2 DEF Row, NamesApart
  <1>7. NewAmong(t, q, i, new)
    <2>1. q \in 1 .. Len(t) /\ t[q] = new
      BY <1>1, <1>2, <1>4
    <2>2. ASSUME NEW j \in 1 .. Len(t), NEW k \in 1 .. Len(t), j < k, j # q, k # q
          PROVE  t[j].e < t[k].key
      <3>1. old(j) < old(k) /\ old(j) # p /\ old(k) # p
        BY <1>3, <1>4, <2>2
      <3> QED BY <1>2, <3>1 DEF NewAmong
    <2>3. ASSUME NEW j \in 1 .. Len(t)
          PROVE  /\ (j < q => t[j].key < new.key) /\ (j > q => new.key <= t[j].key)
                 /\ j < i /\ j # q => Beside(t[j], new)
      <3>1. old(j) \in 1 .. Len(sq) /\ t[j] = sq[old(j)]
        BY <1>2
      <3>2. /\ (j = q <=> old(j) = p) /\ (j < q <=> old(j) < p) /\ (j > q <=> old(j) > p)
            /\ (j < i => old(j) < i)
        BY <1>4, <1>5
      <3> QED BY <3>1, <3>2 DEF NewAmong
    <2> QED BY <2>1, <2>2, <2>3 DEF NewAmong
  <1>8. NoneCovers(sq, new) => NoneCovers(t, new)
    BY <1>2 DEF NoneCovers
  <1> QED BY <1>6, <1>7, <1>8

(* A decoder that is shrunk out of the area of the new one.                *)
LEMMA ShrinkRow ==
  ASSUME NEW sq, Row(sq), NEW p, NEW i \in 1 .. Len(sq), NEW new, NewAmong(sq, p, i, new),
         i # p, NEW dc \in DecType, dc.u = sq[i].u, dc.key <= dc.e,
         sq[i].key <= dc.key, dc.e <= sq[i].e, Beside(dc, new),
         dc.key = sq[i].key \/ new.key <= sq[i].key
  PROVE  LET t == [sq EXCEPT ![i] = dc] IN
         Row(t) /\ NewAmong(t, p, i + 1, new) /\ (NoneCovers(sq, new) => NoneCovers(t, new))
  <1> DEFINE t == [sq EXCEPT ![i] = dc]
  <1>1. /\ Len(sq) \in Nat /\ p \in 1 .. Len(sq) /\ sq[p] = new /\ sq \in Seq(DecType)
        /\ dc.key \in Nat /\ dc.e \in Nat /\ new.key \in Nat /\ new.e \in Nat /\ new.key <= new.e
    <2>1. Len(sq) \in Nat /\ p \in 1 .. Len(sq) /\ sq[p] = new /\ sq \in Seq(DecType)
      BY DEF Row, NewAmong
    <2>2. dc.key \in Nat /\ dc.e \in Nat
      BY DEF DecType
    <2> QED BY <2>1, <2>2, RowFacts
  <1>2. /\ t \in Seq(DecType) /\ Len(t) = Len(sq) /\ t[i] = dc
        /\ \A j \in 1 .. Len(sq) : j # i => t[j] = sq[j]
    BY <1>1
  <1>3. /\ \A j \in 1 .. Len(sq) : sq[j].key \in Nat /\ sq[j].e \in Nat /\ sq[j].key <= sq[j].e
        /\ \A j \in 1 .. Len(sq) : t[j].key \in Nat /\ t[j].e \in Nat /\ t[j].key <= t[j].e
    BY <1>1, <1>2, RowFacts
  <1>4. \A j \in 1 .. Len(sq) : t[j].u = sq[j].u /\ sq[j].key <= t[j].key /\ t[j].e <= sq[j].e
    BY <1>1, <1>2, <1>3
  <1> HIDE DEF t
  <1>5. Row(t)
    BY <1>2, <1>3, <1>4 DEF Row, NamesApart
  <1>6. ASSUME NEW j \in 1 .. Len(t), NEW k \in 1 .. Len(t), j < k, j # p, k # p
        PROVE  t[j].e < t[k].key
    <2>1. sq[j].e < sq[k].key
      BY <1>2, <1>6 DEF NewAmong
    <2> QED BY <1>2, <1>3, <1>4, <2>1
  <1>7. ASSUME NEW j \in 1 .. Len(t)
        PROVE  (j < p => t[j].key < new.key) /\ (j > p => new.key <= t[j].key)
    <2>1. (j < p => sq[j].key < new.key) /\ (j > p => new.key <= sq[j].key)
      BY <1>2, <1>7 DEF NewAmong
    <2>2. CASE j = i
      BY <1>1, <1>2, <1>3, <2>1, <2>2
    <2>3. CASE j # i
      BY <1>2, <2>1, <2>3
    <2> QED BY <2>2, <2>3
  <1>8. ASSUME NEW j \in 1 .. Len(t), j < i + 1, j # p
        PROVE  Beside(t[j], new)
    <2>1. CASE j = i
      BY <1>2, <2>1
    <2>2. CASE j < i
      BY <1>2, <2>2, <1>8 DEF NewAmong
    <2> QED BY <1>1, <1>8, <2>1, <2>2
  <1>9. NewAmong(t, p, i + 1, new)
    BY <1>1, <1>2, <1>6, <1>7, <1>8 DEF NewAmong
  <1>10. NoneCovers(sq, new) => NoneCovers(t, new)
    <2> SUFFICES ASSUME NoneCovers(sq, new), NEW j \in 1 .. Len(t)
                 PROVE  ~covers(t[j], new.key, new.e)
      BY DEF NoneCovers
    <2>1. ~covers(sq[j], new.key, new.e)
      BY <1>2 DEF NoneCovers
    <2>2. /\ sq[j].key \in Nat /\ sq[j].e \in Nat /\ t[j].key \in Nat /\ t[j].e \in Nat
          /\ sq[j].key <= t[j].key /\ t[j].e <= sq[j].e
      BY <1>2, <1>3, <1>4
    <2> QED BY <1>1, <2>1, <2>2 DEF covers
  <1> QED BY <1>5, <1>9, <1>10 DEF t


(* Where a decoder that is added goes: behind all that start before it.    *)
Placed(sq, k, x) ==
  /\ k \in 0 .. Len(sq) /\ x \in DecType /\ x.key <= x.e
  /\ \A j \in 1 .. Len(sq) : sq[j].u # x.u /\ (sq[j].key < x.key <=> j <= k)

(* The items of a list before and after one is added.                      *)
LEMMA InsertedAt ==
  ASSUME NEW sq, Len(sq) \in Nat, NEW k \in 0 .. Len(sq), NEW x, NEW t, Inserted(t, sq, k, x)
  PROVE  /\ Len(t) = Len(sq) + 1 /\ k + 1 \in 1 .. Len(t) /\ t[k + 1] = x
         /\ \A j \in 1 .. Len(t) : j <= k => j \in 1 .. Len(sq) /\ t[j] = sq[j]
         /\ \A j \in 1 .. Len(t) : j > k + 1 => j - 1 \in 1 .. Len(sq) /\ t[j] = sq[j - 1]
         /\ \A j \in 1 .. Len(t) : j <= k \/ j > k + 1 \/ j = k + 1
  BY DEF Inserted

(* The row with a decoder added.                                           *)
LEMMA InsertRow ==
  ASSUME NEW sq, Row(sq), NEW k, NEW x, Placed(sq, k, x),
         NEW t \in Seq(DecType), Inserted(t, sq, k, x)
  PROVE  Row(t)
  <1>1. Len(sq) \in Nat /\ k \in 0 .. Len(sq) /\ x.key <= x.e
    BY DEF Row, Placed
  <1>2. /\ Len(t) = Len(sq) + 1 /\ k + 1 \in 1 .. Len(t) /\ t[k + 1] = x
        /\ \A j \in 1 .. Len(t) : j <= k => j \in 1 .. Len(sq) /\ t[j] = sq[j]
        /\ \A j \in 1 .. Len(t) : j > k + 1 => j - 1 \in 1 .. Len(sq) /\ t[j] = sq[j - 1]
        /\ \A j \in 1 .. Len(t) : j <= k \/ j > k + 1 \/ j = k + 1
    BY <1>1, InsertedAt
  <1>3. ASSUME NEW j \in 1 .. Len(t) PROVE t[j].key <= t[j].e
    BY <1>1, <1>2, RowFacts
  <1>4. ASSUME NEW j \in 1 .. Len(t), NEW l \in 1 .. Len(t), t[j].u = t[l].u, j < l
        PROVE  FALSE
    <2>1. CASE l = k + 1
      <3>1. j \in 1 .. Len(sq) /\ t[j] = sq[j]
        BY <1>1, <1>2, <1>4, <2>1
      <3> QED BY <1>2, <1>4, <2>1, <3>1 DEF Placed
    <2>2. CASE j = k + 1
      <3>1. l - 1 \in 1 .. Len(sq) /\ t[l] = sq[l - 1]
        BY <1>1, <1>2, <1>4, <2>2
      <3> QED BY <1>2, <1>4, <2>2, <3>1 DEF Placed
    <2>3. CASE j # k + 1 /\ l # k + 1
      <3> DEFINE a == IF j <= k THEN j ELSE j - 1
                 b == IF l <= k THEN l ELSE l - 1
      <3>1. a \in 1 .. Len(sq) /\ t[j] = sq[a] /\ b \in 1 .. Len(sq) /\ t[l] = sq[b]
        BY <1>2, <2>3
      <3>2. a < b
        BY <1>1, <1>2, <1>4, <2>3
      <3>3. a = b
        BY <1>4, <3>1 DEF Row, NamesApart
      <3> QED BY <3>1, <3>2, <3>3
    <2> QED BY <2>1, <2>2, <2>3
  <1>5. \A j, l \in 1 .. Len(t) : j < l \/ l < j \/ j = l
    BY <1>1, <1>2
  <1>6. NamesApart(t)
    BY <1>4, <1>5 DEF NamesApart
  <1> QED BY <1>3, <1>6 DEF Row

(* A decoder that is added to a row is new among the others.               *)
LEMMA StartRow ==
  ASSUME NEW sq, Row(sq), InRow(sq), NEW k, NEW x, Placed(sq, k, x),
         NEW t \in Seq(DecType), Inserted(t, sq, k, x)
  PROVE  NewAmong(t, k + 1, 1, x)
  <1>1. Len(sq) \in Nat /\ k \in 0 .. Len(sq) /\ x.key \in Nat
    BY DEF Row, Placed, DecType
  <1>2. /\ Len(t) = Len(sq) + 1 /\ k + 1 \in 1 .. Len(t) /\ t[k + 1] = x
        /\ \A j \in 1 .. Len(t) : j <= k => j \in 1 .. Len(sq) /\ t[j] = sq[j]
        /\ \A j \in 1 .. Len(t) : j > k + 1 => j - 1 \in 1 .. Len(sq) /\ t[j] = sq[j - 1]
        /\ \A j \in 1 .. Len(t) : j <= k \/ j > k + 1 \/ j = k + 1
    BY <1>1, InsertedAt
  <1>3. ASSUME NEW j \in 1 .. Len(t), NEW l \in 1 .. Len(t), j < l, j # k + 1, l # k + 1
        PROVE  t[j].e < t[l].key
    <2> DEFINE a == IF j <= k THEN j ELSE j - 1
               b == IF l <= k THEN l ELSE l - 1
    <2>1. a \in 1 .. Len(sq) /\ t[j] = sq[a] /\ b \in 1 .. Len(sq) /\ t[l] = sq[b]
      BY <1>2, <1>3
    <2>2. a < b
      BY <1>1, <1>2, <1>3
    <2> HIDE DEF a, b
    <2> QED BY <2>1, <2>2 DEF InRow
  <1>4. ASSUME NEW j \in 1 .. Len(t)
        PROVE  (j < k + 1 => t[j].key < x.key) /\ (j > k + 1 => x.key <= t[j].key)
    <2>1. CASE j < k + 1
      <3>1. j <= k /\ j \in 1 .. Len(sq) /\ t[j] = sq[j]
        BY <1>1, <1>2, <2>1
      <3> QED BY <1>1, <2>1, <3>1 DEF Placed
    <2>2. CASE j > k + 1
      <3>1. j - 1 \in 1 .. Len(sq) /\ t[j] = sq[j - 1] /\ ~(j - 1 <= k)
        BY <1>1, <1>2, <2>2
      <3>2. sq[j - 1].key \in Nat
        BY <3>1, RowFacts
      <3>3. ~(sq[j - 1].key < x.key)
        BY <3>1 DEF Placed
      <3> QED BY <1>1, <2>2, <3>1, <3>2, <3>3
    <2> QED BY <2>1, <2>2
  <1>5. \A j \in 1 .. Len(t) : ~(j < 1)
    BY <1>1, <1>2
  <1> QED BY <1>2, <1>3, <1>4, <1>5 DEF NewAmong

(* A decoder that goes into a gap of a row.                                *)
LEMMA GapRow ==
  ASSUME NEW sq, Row(sq), InRow(sq), NEW k, NEW x, Placed(sq, k, x),
         \A j \in 1 .. Len(sq) : Beside(sq[j], x),
         NEW t \in Seq(DecType), Inserted(t, sq, k, x)
  PROVE  InRow(t)
  <1>1. Len(sq) \in Nat /\ k \in 0 .. Len(sq)
    BY DEF Row, Placed
  <1>2. /\ Len(t) = Len(sq) + 1 /\ k + 1 \in 1 .. Len(t) /\ t[k + 1] = x
        /\ \A j \in 1 .. Len(t) : j <= k => j \in 1 .. Len(sq) /\ t[j] = sq[j]
        /\ \A j \in 1 .. Len(t) : j > k + 1 => j - 1 \in 1 .. Len(sq) /\ t[j] = sq[j - 1]
        /\ \A j \in 1 .. Len(t) : j <= k \/ j > k + 1 \/ j = k + 1
    BY <1>1, InsertedAt
  <1>3. ASSUME NEW j \in 1 .. Len(t), j # k + 1 PROVE Beside(t[j], x)
    BY <1>2, <1>3
  <1>4. NewAmong(t, k + 1, 1, x) /\ Row(t)
    BY StartRow, InsertRow
  <1>5. NewAmong(t, k + 1, Len(t) + 1, x)
    BY <1>3, <1>4 DEF NewAmong
  <1> QED BY <1>4, <1>5, AllBeside

(* The decoder that covers the new one, without its end: now all lie in a  *)
(* row, and there is a gap where the end was.                              *)
LEMMA CutRow ==
  ASSUME NEW sq, Row(sq), NEW p, NEW i \in 1 .. Len(sq), NEW new, NewAmong(sq, p, i, new),
         covers(sq[i], new.key, new.e), NEW dc \in DecType, dc.u = sq[i].u,
         dc.key = sq[i].key, dc.e = new.key - 1
  PROVE  LET t == [sq EXCEPT ![i] = dc] IN
         /\ Row(t) /\ InRow(t) /\ i # p /\ t[p] = new
         /\ \A j \in 1 .. Len(t) : t[j].e <= new.e \/ sq[i].e < t[j].key
  <1> DEFINE t == [sq EXCEPT ![i] = dc]
             c == sq[i]
  <1>1. /\ Len(sq) \in Nat /\ p \in 1 .. Len(sq) /\ sq[p] = new /\ sq \in Seq(DecType)
    BY DEF Row, NewAmong
  <1>2. \A j \in 1 .. Len(sq) : sq[j].key \in Nat /\ sq[j].e \in Nat /\ sq[j].key <= sq[j].e
    BY RowFacts
  <1>3. /\ new.key \in Nat /\ new.e \in Nat /\ new.key <= new.e /\ c.key < new.key
        /\ new.e < c.e /\ c.key \in Nat /\ c.e \in Nat
    BY <1>1, <1>2 DEF covers
  <1>4. i # p
    BY <1>1, <1>3
  <1>5. i < p
    BY <1>1, <1>3, <1>4 DEF NewAmong
  <1>6. ASSUME NEW j \in 1 .. Len(sq), j # i, j # p
        PROVE  /\ j < i => sq[j].e < c.key
               /\ j > i => c.e < sq[j].key
    BY <1>1, <1>4, <1>6 DEF NewAmong
  <1>7. ASSUME NEW j \in 1 .. Len(sq), j # i, j # p
        PROVE  j > i => j > p
    <2>1. SUFFICES ASSUME j > i, j < p PROVE FALSE
      BY <1>1, <1>7
    <2>2. sq[j].key < new.key
      BY <2>1 DEF NewAmong
    <2> QED BY <1>2, <1>3, <1>6, <1>7, <2>1, <2>2
  <1>8. /\ t \in Seq(DecType) /\ Len(t) = Len(sq) /\ t[i] = dc
        /\ \A j \in 1 .. Len(sq) : j # i => t[j] = sq[j]
    BY <1>1
  <1>9. dc.key \in Nat /\ dc.e \in Nat /\ dc.key <= dc.e /\ dc.e < new.key
    BY <1>3 DEF DecType
  <1>10. Row(t)
    <2>1. \A j \in 1 .. Len(sq) : t[j].u = sq[j].u /\ t[j].key <= t[j].e
      BY <1>2, <1>8, <1>9
    <2> HIDE DEF t
    <2> QED BY <1>8, <2>1 DEF Row, NamesApart
  <1> HIDE DEF t
  <1>11. ASSUME NEW j \in 1 .. Len(sq), NEW l \in 1 .. Len(sq), j < l
         PROVE  t[j].e < t[l].key
    <2>1. CASE j = i /\ l = p
      BY <1>1, <1>4, <1>8, <1>9, <2>1
    <2>2. CASE j = i /\ l # p
      <3>1. c.e < sq[l].key /\ t[l] = sq[l] /\ t[j] = dc
        BY <1>1, <1>6, <1>8, <1>11, <2>2
      <3> QED BY <1>2, <1>3, <1>9, <3>1
    <2>3. CASE l = i
      <3>1. j # p /\ j # i
        BY <1>1, <1>5, <1>11, <2>3
      <3>2. sq[j].e < c.key /\ t[j] = sq[j] /\ t[l] = dc
        BY <1>6, <1>8, <1>11, <2>3, <3>1
      <3> QED BY <3>2
    <2>4. CASE j # i /\ l # i /\ j = p
      <3>1. l > i /\ l # p
        BY <1>1, <1>5, <1>11, <2>4
      <3>2. c.e < sq[l].key /\ t[l] = sq[l] /\ t[j] = new
        BY <1>1, <1>6, <1>8, <2>4, <3>1
      <3> QED BY <1>2, <1>3, <3>2
    <2>5. CASE j # i /\ l # i /\ l = p
      <3>1. j < i
        BY <1>1, <1>7, <1>11, <2>5
      <3>2. sq[j].e < c.key /\ t[j] = sq[j] /\ t[l] = new
        BY <1>1, <1>6, <1>8, <1>11, <2>5, <3>1
      <3> QED BY <1>2, <1>3, <3>2
    <2>6. CASE j # i /\ l # i /\ j # p /\ l # p
      BY <1>8, <1>11, <2>6 DEF NewAmong
    <2> QED BY <2>1, <2>2, <2>3, <2>4, <2>5, <2>6
  <1>12. InRow(t)
    BY <1>8, <1>11 DEF InRow
  <1>13. ASSUME NEW j \in 1 .. Len(t)
         PROVE  t[j].e <= new.e \/ c.e < t[j].key
    <2>1. CASE j = i
      BY <1>3, <1>8, <1>9, <2>1
    <2>2. CASE j = p
      BY <1>1, <1>3, <1>4, <1>8, <2>2
    <2>3. CASE j # i /\ j # p
      <3>1. t[j] = sq[j] /\ (j < i \/ j > i)
        BY <1>1, <1>8, <2>3
      <3>2. sq[j].e < c.key \/ c.e < sq[j].key
        BY <1>6, <1>8, <2>3, <3>1
      <3> QED BY <1>2, <1>3, <1>8, <3>1, <3>2
    <2> QED BY <2>1, <2>2, <2>3
  <1>14. t[p] = new
    BY <1>1, <1>4, <1>8
  <1> QED BY <1>4, <1>10, <1>12, <1>13, <1>14 DEF t

-----------------------------------------------------------------------------
(* The cells: where they are, as the active decoders say.                  *)
Over(dc, a) == dc.activated /\ a \in dc.key .. dc.e

PlaceOf(dc, a) == get_slot(dc.chip, dc.cb + (a - dc.key))

CellsMapped(sq, cell) ==
  \A a \in Space :
    /\ \A j \in 1 .. Len(sq) : Over(sq[j], a) => cell[a] = PlaceOf(sq[j], a)
    /\ (\A j \in 1 .. Len(sq) : ~Over(sq[j], a)) => cell[a] = Own

(* The cells of an area are given back.                                    *)
Freed(cell, area) == [a \in Space |-> IF a \in area THEN Own ELSE cell[a]]

(* Decoders that are beside each other are not over the same address.      *)
LEMMA BesideApart ==
  ASSUME NEW dc \in DecType, NEW f \in DecType, Beside(dc, f), NEW a \in Int
  PROVE  ~(a \in dc.key .. dc.e /\ a \in f.key .. f.e)
  <1>1. dc.key \in Nat /\ dc.e \in Nat /\ f.key \in Nat /\ f.e \in Nat
    BY DEF DecType
  <1> QED BY <1>1 DEF Beside

(* A decoder that is removed with its cells.                               *)
LEMMA RemoveMapped ==
  ASSUME NEW sq, Row(sq), NEW cell, CellsMapped(sq, cell), NEW i \in 1 .. Len(sq),
         \A j \in 1 .. Len(sq) : j # i => ~sq[j].activated \/ Beside(sq[j], sq[i]),
         NEW t, Removed(t, sq, i)
  PROVE  CellsMapped(t, Freed(cell, sq[i].key .. sq[i].e))
  <1> DEFINE free == Freed(cell, sq[i].key .. sq[i].e)
             old(j) == IF j < i THEN j ELSE j + 1
  <1>1. Len(sq) \in Nat /\ Len(t) = Len(sq) - 1
    BY DEF Row, Removed
  <1>2. \A j \in 1 .. Len(t) : old(j) \in 1 .. Len(sq) /\ old(j) # i /\ t[j] = sq[old(j)]
    BY <1>1 DEF Removed
  <1>3. \A k \in 1 .. Len(sq) : k # i => \E j \in 1 .. Len(t) : old(j) = k
    <2> SUFFICES ASSUME NEW k \in 1 .. Len(sq), k # i
                 PROVE  \E j \in 1 .. Len(t) : old(j) = k
      OBVIOUS
    <2> DEFINE j == IF k < i THEN k ELSE k - 1
    <2>1. j \in 1 .. Len(t) /\ old(j) = k
      BY <1>1
    <2> QED BY <2>1
  <1> HIDE DEF old
  <1> SUFFICES ASSUME NEW a \in Space
               PROVE  /\ \A j \in 1 .. Len(t) : Over(t[j], a) => free[a] = PlaceOf(t[j], a)
                      /\ (\A j \in 1 .. Len(t) : ~Over(t[j], a)) => free[a] = Own
    BY DEF CellsMapped
  <1>4. a \in Int
    BY MemoryAssumption DEF Space
  <1>5. free[a] = IF a \in sq[i].key .. sq[i].e THEN Own ELSE cell[a]
    BY DEF Freed
  <1> HIDE DEF free
  <1>6. ASSUME NEW j \in 1 .. Len(t), Over(t[j], a)
        PROVE  free[a] = PlaceOf(t[j], a)
    <2>1. old(j) \in 1 .. Len(sq) /\ old(j) # i /\ t[j] = sq[old(j)]
      BY <1>2
    <2>2. Over(sq[old(j)], a)
      BY <1>6, <2>1
    <2>3. Beside(sq[old(j)], sq[i])
      BY <2>1, <2>2 DEF Over
    <2>4. a \notin sq[i].key .. sq[i].e
      BY <1>4, <2>1, <2>2, <2>3, RowFacts, BesideApart DEF Over
    <2> QED BY <1>5, <2>1, <2>2, <2>4 DEF CellsMapped
  <1>7. ASSUME \A j \in 1 .. Len(t) : ~Over(t[j], a), a \notin sq[i].key .. sq[i].e
        PROVE  free[a] = Own
    <2>1. ~Over(sq[i], a)
      BY <1>7 DEF Over
    <2>2. \A k \in 1 .. Len(sq) : k # i => ~Over(sq[k], a)
      BY <1>2, <1>3, <1>7
    <2> QED BY <1>5, <1>7, <2>1, <2>2 DEF CellsMapped
  <1> QED BY <1>5, <1>6, <1>7

(* A decoder that gives up a part of its area.                             *)
LEMMA ShrinkMapped ==
  ASSUME NEW sq, Row(sq), NEW cell, CellsMapped(sq, cell), NEW i \in 1 .. Len(sq),
         \A j \in 1 .. Len(sq) : j # i => ~sq[j].activated \/ Beside(sq[j], sq[i]),
         NEW dc \in DecType, dc.activated = sq[i].activated, NEW area,
         \A a \in Int : a \in sq[i].key .. sq[i].e => (a \in dc.key .. dc.e <=> a \notin area),
         \A a \in Int : a \in dc.key .. dc.e => a \in sq[i].key .. sq[i].e,
         \A a \in Int : a \in area => a \in sq[i].key .. sq[i].e,
         \A a \in Int : a \in dc.key .. dc.e => PlaceOf(dc, a) = PlaceOf(sq[i], a)
  PROVE  CellsMapped([sq EXCEPT ![i] = dc], Freed(cell, area))
  <1> DEFINE free == Freed(cell, area)
             t == [sq EXCEPT ![i] = dc]
  <1>1. /\ Len(sq) \in Nat /\ Len(t) = Len(sq) /\ t[i] = dc
        /\ \A j \in 1 .. Len(sq) : j # i => t[j] = sq[j]
    BY DEF Row
  <1> HIDE DEF t
  <1> SUFFICES ASSUME NEW a \in Space
               PROVE  /\ \A j \in 1 .. Len(t) : Over(t[j], a) => free[a] = PlaceOf(t[j], a)
                      /\ (\A j \in 1 .. Len(t) : ~Over(t[j], a)) => free[a] = Own
    BY DEF CellsMapped, t
  <1>2. a \in Int
    BY MemoryAssumption DEF Space
  <1>3. free[a] = IF a \in area THEN Own ELSE cell[a]
    BY DEF Freed
  <1> HIDE DEF free
  <1>4. ASSUME NEW j \in 1 .. Len(t), Over(t[j], a), j # i
        PROVE  free[a] = PlaceOf(t[j], a)
    <2>1. j \in 1 .. Len(sq) /\ t[j] = sq[j] /\ Over(sq[j], a)
      BY <1>1, <1>4
    <2>2. Beside(sq[j], sq[i])
      BY <1>4, <2>1 DEF Over
    <2>3. a \notin sq[i].key .. sq[i].e
      BY <1>2, <2>1, <2>2, RowFacts, BesideApart DEF Over
    <2> QED BY <1>2, <1>3, <2>1, <2>3 DEF CellsMapped
  <1>5. ASSUME Over(dc, a)
        PROVE  free[a] = PlaceOf(dc, a)
    <2>1. a \in dc.key .. dc.e /\ a \in sq[i].key .. sq[i].e /\ a \notin area /\ Over(sq[i], a)
      BY <1>2, <1>5 DEF Over
    <2>2. cell[a] = PlaceOf(sq[i], a)
      BY <2>1 DEF CellsMapped
    <2> QED BY <1>2, <1>3, <2>1, <2>2
  <1>6. ASSUME \A j \in 1 .. Len(t) : ~Over(t[j], a), a \notin area
        PROVE  free[a] = Own
    <2>1. \A j \in 1 .. Len(sq) : j # i => ~Over(sq[j], a)
      BY <1>1, <1>6
    <2>2. ~Over(dc, a)
      BY <1>1, <1>6
    <2>3. ~Over(sq[i], a)
      BY <1>2, <1>6, <2>2 DEF Over
    <2> QED BY <1>3, <1>6, <2>1, <2>3 DEF CellsMapped
  <1> QED BY <1>1, <1>3, <1>4, <1>5, <1>6

(* A decoder that is not active yet changes nothing.                       *)
LEMMA InsertMapped ==
  ASSUME NEW sq, Len(sq) \in Nat, NEW cell, CellsMapped(sq, cell), NEW k \in 0 .. Len(sq), NEW x,
         ~x.activated, NEW t, Inserted(t, sq, k, x)
  PROVE  CellsMapped(t, cell)
  <1>1. /\ Len(t) = Len(sq) + 1 /\ k + 1 \in 1 .. Len(t) /\ t[k + 1] = x
        /\ \A j \in 1 .. Len(t) : j <= k => j \in 1 .. Len(sq) /\ t[j] = sq[j]
        /\ \A j \in 1 .. Len(t) : j > k + 1 => j - 1 \in 1 .. Len(sq) /\ t[j] = sq[j - 1]
        /\ \A j \in 1 .. Len(t) : j <= k \/ j > k + 1 \/ j = k + 1
    BY InsertedAt
  <1> SUFFICES ASSUME NEW a \in Space
               PROVE  /\ \A j \in 1 .. Len(t) : Over(t[j], a) => cell[a] = PlaceOf(t[j], a)
                      /\ (\A j \in 1 .. Len(t) : ~Over(t[j], a)) => cell[a] = Own
    BY DEF CellsMapped
  <1>2. ~Over(x, a)
    BY DEF Over
  <1>3. ASSUME NEW j \in 1 .. Len(t), Over(t[j], a)
        PROVE  cell[a] = PlaceOf(t[j], a)
    <2>1. CASE j <= k
      BY <1>1, <1>3, <2>1 DEF CellsMapped
    <2>2. CASE j > k + 1
      BY <1>1, <1>3, <2>2 DEF CellsMapped
    <2>3. j # k + 1
      BY <1>1, <1>2, <1>3
    <2> QED BY <1>1, <2>1, <2>2, <2>3
  <1>4. ASSUME \A j \in 1 .. Len(t) : ~Over(t[j], a)
        PROVE  cell[a] = Own
    <2>1. ASSUME NEW j \in 1 .. Len(sq) PROVE ~Over(sq[j], a)
      <3>1. CASE j <= k
        <4>1. j \in 1 .. Len(t)
          BY <1>1
        <4> QED BY <1>1, <1>4, <3>1, <4>1
      <3>2. CASE j > k
        <4>1. j + 1 \in 1 .. Len(t) /\ j + 1 > k + 1 /\ (j + 1) - 1 = j
          BY <1>1, <3>2
        <4>2. t[j + 1] = sq[(j + 1) - 1]
          BY <1>1, <4>1
        <4> QED BY <1>4, <4>1, <4>2
      <3> QED BY <3>1, <3>2
    <2> QED BY <2>1 DEF CellsMapped
  <1> QED BY <1>3, <1>4

(* A decoder that becomes active takes its cells.                          *)
LEMMA ActivateMapped ==
  ASSUME NEW sq, Row(sq), InRow(sq), NEW cell, CellsMapped(sq, cell), NEW q \in 1 .. Len(sq),
         NEW dc \in DecType, dc.activated, dc.key = sq[q].key, dc.e = sq[q].e,
         dc.chip = sq[q].chip, dc.cb = sq[q].cb, NEW new,
         \A a \in Space : new[a] = IF a \in sq[q].key .. sq[q].e THEN PlaceOf(sq[q], a) ELSE cell[a]
  PROVE  CellsMapped([sq EXCEPT ![q] = dc], new)
  <1> DEFINE t == [sq EXCEPT ![q] = dc]
  <1>1. /\ Len(sq) \in Nat /\ Len(t) = Len(sq) /\ t[q] = dc
        /\ \A j \in 1 .. Len(sq) : j # q => t[j] = sq[j]
    BY DEF Row
  <1> HIDE DEF t
  <1> SUFFICES ASSUME NEW a \in Space
               PROVE  /\ \A j \in 1 .. Len(t) : Over(t[j], a) => new[a] = PlaceOf(t[j], a)
                      /\ (\A j \in 1 .. Len(t) : ~Over(t[j], a)) => new[a] = Own
    BY DEF CellsMapped, t
  <1>2. a \in Int
    BY MemoryAssumption DEF Space
  <1>3. new[a] = IF a \in sq[q].key .. sq[q].e THEN PlaceOf(sq[q], a) ELSE cell[a]
    OBVIOUS
  <1>4. PlaceOf(dc, a) = PlaceOf(sq[q], a) /\ (Over(dc, a) <=> a \in sq[q].key .. sq[q].e)
    BY DEF PlaceOf, Over
  <1>5. ASSUME NEW j \in 1 .. Len(t), Over(t[j], a), j # q
        PROVE  new[a] = PlaceOf(t[j], a)
    <2>1. j \in 1 .. Len(sq) /\ t[j] = sq[j] /\ Over(sq[j], a)
      BY <1>1, <1>5
    <2>2. Beside(sq[j], sq[q])
      BY <1>1, <1>5, <2>1 DEF InRow, Beside
    <2>3. a \notin sq[q].key .. sq[q].e
      BY <1>2, <2>1, <2>2, RowFacts, BesideApart DEF Over
    <2> QED BY <1>3, <2>1, <2>3 DEF CellsMapped
  <1>6. ASSUME \A j \in 1 .. Len(t) : ~Over(t[j], a)
        PROVE  new[a] = Own
    <2>1. ~Over(dc, a) /\ \A j \in 1 .. Len(sq) : j # q => ~Over(sq[j], a)
      BY <1>1, <1>6
    <2>2. a \notin sq[q].key .. sq[q].e /\ ~Over(sq[q], a)
      BY <1>4, <2>1 DEF Over
    <2> QED BY <1>3, <2>1, <2>2 DEF CellsMapped
  <1> QED BY <1>1, <1>3, <1>4, <1>5, <1>6

-----------------------------------------------------------------------------
(* The record of the space.                                                *)
SpaceFields == {"decs", "cell", "ops", "brks", "stale", "calls"}

ListOK(l) ==
  DOMAIN l = {"items", "Limit", "sorted", "Duplicates", "over"} /\ l.sorted /\ l.Duplicates

SpaceOK(m) ==
  /\ DOMAIN m = SpaceFields /\ ListOK(m.decs) /\ Row(m.decs.items)
  /\ CellsMapped(m.decs.items, m.cell)

(* What a step of an activation does to the operators: it leaves them, and *)
(* marks the cells that have them and go to another place.                 *)
Marked(m, r) ==
  /\ r.ops = m.ops /\ r.brks = m.brks /\ m.stale \subseteq r.stale
  /\ \A a \in Space : m.ops[a] # <<>> /\ r.cell[a] # m.cell[a] => a \in r.stale

(* Two steps in turn.                                                      *)
LEMMA MarkedTwice ==
  ASSUME NEW m, NEW r, NEW sh, Marked(m, r), Marked(r, sh)
  PROVE  Marked(m, sh)
  BY DEF Marked

(* undecode_cells gives the cells of the area back.                        *)
LEMMA FreeIs ==
  ASSUME NEW m, DOMAIN m = SpaceFields, NEW area
  PROVE  LET r == undecode_cells(m, area) IN
         /\ DOMAIN r = SpaceFields /\ r.decs = m.decs /\ r.calls = m.calls
         /\ r.cell = Freed(m.cell, area) /\ Marked(m, r)
  <1> DEFINE cells == {a \in area \cap Space : m.cell[a] # Own}
             new == [a \in Space |-> IF a \in cells THEN Own ELSE m.cell[a]]
             old == m.stale \cup UNION {Moved(m, a, Own) : a \in cells}
             r == undecode_cells(m, area)
  <1>1. r = [m EXCEPT !.cell = new, !.stale = old]
    BY DEF undecode_cells
  <1> HIDE DEF new, old, r
  <1>2. /\ DOMAIN r = SpaceFields /\ r.decs = m.decs /\ r.calls = m.calls
        /\ r.ops = m.ops /\ r.brks = m.brks /\ r.cell = new /\ r.stale = old
    BY <1>1 DEF SpaceFields
  <1>3. new = Freed(m.cell, area)
    BY DEF new, Freed
  <1>4. ASSUME NEW a \in Space, m.ops[a] # <<>>, new[a] # m.cell[a]
        PROVE  a \in old
    <2>1. a \in cells
      BY <1>4 DEF new
    <2>2. a \in Moved(m, a, Own)
      BY <1>4 DEF Moved
    <2> QED BY <2>1, <2>2 DEF old
  <1>5. Marked(m, r)
    BY <1>2, <1>4 DEF Marked, old
  <1> QED BY <1>2, <1>3, <1>5 DEF r

(* decode_cells gives the cells of a decoder their places.                 *)
LEMMA DecodeIs ==
  ASSUME NEW m, DOMAIN m = SpaceFields, NEW dc
  PROVE  LET r == decode_cells(m, dc) IN
         /\ DOMAIN r = SpaceFields /\ r.decs = m.decs /\ r.calls = m.calls /\ Marked(m, r)
         /\ \A a \in Space :
              r.cell[a] = IF a \in dc.key .. dc.e THEN PlaceOf(dc, a) ELSE m.cell[a]
  <1> DEFINE new == [a \in Space |-> IF a \in dc.key .. dc.e THEN PlaceOf(dc, a) ELSE m.cell[a]]
             old == m.stale \cup UNION {Moved(m, a, PlaceOf(dc, a)) : a \in dc.key .. dc.e}
             r == decode_cells(m, dc)
  <1>1. r = [m EXCEPT !.cell = new, !.stale = old]
    BY DEF decode_cells, PlaceOf
  <1> HIDE DEF new, old, r
  <1>2. /\ DOMAIN r = SpaceFields /\ r.decs = m.decs /\ r.calls = m.calls
        /\ r.ops = m.ops /\ r.brks = m.brks /\ r.cell = new /\ r.stale = old
    BY <1>1 DEF SpaceFields
  <1>3. ASSUME NEW a \in Space, m.ops[a] # <<>>, new[a] # m.cell[a]
        PROVE  a \in old
    <2>1. a \in dc.key .. dc.e /\ m.cell[a] # PlaceOf(dc, a)
      BY <1>3 DEF new
    <2>2. a \in Moved(m, a, PlaceOf(dc, a))
      BY <1>3, <2>1 DEF Moved
    <2> QED BY <2>1, <2>2 DEF old
  <1>4. Marked(m, r)
    BY <1>2, <1>3 DEF Marked, old
  <1>5. \A a \in Space : new[a] = IF a \in dc.key .. dc.e THEN PlaceOf(dc, a) ELSE m.cell[a]
    BY DEF new
  <1> QED BY <1>2, <1>4, <1>5 DEF r

(* A name that no decoder has: there are more names than decoders.         *)
LEMMA UnusedIs ==
  ASSUME NEW m, Row(m.decs.items)
  PROVE  /\ Unused(m) \in Nat
         /\ \A j \in 1 .. Len(m.decs.items) : m.decs.items[j].u # Unused(m)
  <1> DEFINE sq == m.decs.items
             n == Len(sq)
             Free(u) == \A j \in 1 .. n : sq[j].u # u
  <1>1. n \in Nat
    BY DEF Row
  <1>2. Unused(m) = CHOOSE u \in 1 .. n + 1 : Free(u)
    BY DEF Unused, Count
  <1> HIDE DEF sq, n
  <1>3. \E u \in 1 .. n + 1 : Free(u)
    <2> SUFFICES ASSUME \A u \in 1 .. n + 1 : \E j \in 1 .. n : sq[j].u = u
                 PROVE  FALSE
      OBVIOUS
    <2> DEFINE used == [u \in 1 .. n + 1 |-> CHOOSE j \in 1 .. n : sq[j].u = u]
    <2>1. \A u \in 1 .. n + 1 : used[u] \in 1 .. n /\ sq[used[u]].u = u
      OBVIOUS
    <2>2. used \in [1 .. n + 1 -> 1 .. n]
      BY <2>1
    <2>3. /\ IsFiniteSet(1 .. n + 1) /\ Cardinality(1 .. n + 1) = n + 1
          /\ IsFiniteSet(1 .. n) /\ Cardinality(1 .. n) = n
      <3>1. n + 1 \in Int /\ n \in Int /\ 1 \in Int
        BY <1>1
      <3>2. IsFiniteSet(1 .. n + 1) /\ IsFiniteSet(1 .. n)
        BY <3>1, FS_Interval
      <3>3. Cardinality(1 .. n + 1) = IF 1 > n + 1 THEN 0 ELSE (n + 1) - 1 + 1
        BY <3>1, FS_Interval
      <3>4. Cardinality(1 .. n) = IF 1 > n THEN 0 ELSE n - 1 + 1
        BY <3>1, FS_Interval
      <3> QED BY <1>1, <3>2, <3>3, <3>4
    <2> HIDE DEF used
    <2>4. Cardinality(1 .. n) < Cardinality(1 .. n + 1)
      BY <1>1, <2>3
    <2>5. \E x, y \in 1 .. n + 1 : x # y /\ used[x] = used[y]
      <3> DEFINE A == 1 .. n + 1
                 C == 1 .. n
      <3>1. IsFiniteSet(A) /\ IsFiniteSet(C) /\ Cardinality(C) < Cardinality(A) /\ used \in [A -> C]
        BY <2>2, <2>3, <2>4
      <3> HIDE DEF A, C
      <3>2. \E x, y \in A : x # y /\ used[x] = used[y]
        BY <3>1, FS_PigeonHole
      <3> QED BY <3>2 DEF A
    <2> QED BY <2>1, <2>5
  <1>4. Unused(m) \in 1 .. n + 1 /\ Free(Unused(m))
    <2> HIDE DEF Free
    <2> QED BY <1>2, <1>3
  <1> QED BY <1>1, <1>4 DEF sq, n

(* A decoder is found by its name.                                         *)
LEMMA IndexIs ==
  ASSUME NEW m, Row(m.decs.items), NEW j \in 1 .. Len(m.decs.items)
  PROVE  IndexOf(m, m.decs.items[j].u) = j
  <1>1. \A i \in 1 .. Len(m.decs.items) : m.decs.items[i].u = m.decs.items[j].u => i = j
    BY DEF Row, NamesApart
  <1> QED BY <1>1 DEF IndexOf, Count

(* The list puts a decoder behind those that start before it.              *)
LEMMA AddIs ==
  ASSUME NEW l, ListOK(l), Row(l.items), InRow(l.items), NEW x \in DecType, x.key <= x.e,
         \A j \in 1 .. Len(l.items) : l.items[j].u # x.u
  PROVE  /\ ListOK(list_add(l, x)) /\ list_add(l, x).items \in Seq(DecType)
         /\ \E k : Placed(l.items, k, x) /\ Inserted(list_add(l, x).items, l.items, k, x)
  <1> DEFINE sq == l.items
             keys == KeysOf(l)
             f == search(keys, x.key, l.Duplicates)
             k == f.index
             g == IF Count(l) = l.Limit THEN set_limit(l, Count(l) + ListDelta) ELSE l
  <1>1. sq \in Seq(DecType) /\ Len(sq) \in Nat /\ l.Duplicates = TRUE /\ x.key \in Int
    BY DEF Row, ListOK, DecType
  <1>2. \A j \in 1 .. Len(sq) : sq[j].key \in Nat /\ sq[j].e \in Nat /\ sq[j].key <= sq[j].e
    BY RowFacts
  <1>3. keys \in Seq(Int) /\ Len(keys) = Len(sq) /\ \A j \in 1 .. Len(sq) : keys[j] = sq[j].key
    BY <1>1, <1>2 DEF KeysOf, Count
  <1>4. Ordered(keys)
    BY <1>2, <1>3 DEF Ordered, InRow
  <1>5. Found(keys, x.key, l.Duplicates, 0, Len(keys) - 1, f)
    <2> HIDE DEF keys
    <2> QED BY <1>1, <1>3, <1>4, SearchFinds
  <1> HIDE DEF keys, f
  <1>6. k \in 0 .. Len(sq) /\ \A j \in 1 .. Len(sq) : sq[j].key < x.key <=> j <= k
    BY <1>1, <1>3, <1>5 DEF Found
  <1>7. list_add(l, x) = add_at(l, k, x)
    BY <1>1 DEF list_add, ListOK, f, keys
  <1>8. DOMAIN g = DOMAIN l /\ g.items = sq /\ g.sorted = l.sorted /\ g.Duplicates = l.Duplicates
    BY DEF set_limit, ListOK
  <1>9. add_at(l, k, x) = [g EXCEPT !.items = Seqs!InsertAt(sq, k + 1, x),
                                    !.over = g.over \/ Count(l) = g.Limit]
    BY <1>8 DEF add_at
  <1> HIDE DEF k, g
  <1>10. /\ DOMAIN add_at(l, k, x) = DOMAIN l /\ add_at(l, k, x).items = Seqs!InsertAt(sq, k + 1, x)
         /\ add_at(l, k, x).sorted = l.sorted /\ add_at(l, k, x).Duplicates = l.Duplicates
    BY <1>8, <1>9 DEF ListOK
  <1>11. /\ Seqs!InsertAt(sq, k + 1, x) \in Seq(DecType)
         /\ Inserted(Seqs!InsertAt(sq, k + 1, x), sq, k, x)
    BY <1>1, <1>6, InsertIs
  <1>12. Placed(sq, k, x)
    BY <1>6 DEF Placed
  <1> QED BY <1>7, <1>10, <1>11, <1>12 DEF ListOK

-----------------------------------------------------------------------------
(* The calls under way: one, of a decoder that is new among the others; or *)
(* two, the second one for the second half of a split, when all lie in a   *)
(* row already.  n is the number of turns that are left.                   *)
CallType == [d : DecType, i : Nat]

OneAt(m, c, p) ==
  /\ SpaceOK(m) /\ c \in CallType /\ m.calls = <<c>> /\ ~c.d.activated
  /\ c.i \in 1 .. Len(m.decs.items) + 1 /\ NewAmong(m.decs.items, p, c.i, c.d)

OneCall(m, n) ==
  \E c, p :
    /\ OneAt(m, c, p) /\ n >= Len(m.decs.items) - c.i + 2
    /\ n >= 2 * Len(m.decs.items) - c.i + 5 \/ NoneCovers(m.decs.items, c.d)

TwoAt(m, c, f, p, q) ==
  /\ SpaceOK(m) /\ InRow(m.decs.items)
  /\ c \in CallType /\ f \in CallType /\ m.calls = <<c, f>> /\ ~c.d.activated
  /\ c.i \in 1 .. Len(m.decs.items) + 1 /\ f.i \in 1 .. Len(m.decs.items) + 1
  /\ p \in 1 .. Len(m.decs.items) /\ q \in 1 .. Len(m.decs.items) /\ p # q
  /\ m.decs.items[p] = c.d /\ m.decs.items[q] = f.d

TwoCalls(m, n) ==
  \E c, f, p, q :
    /\ TwoAt(m, c, f, p, q)
    /\ n >= (Len(m.decs.items) - f.i + 2) + (Len(m.decs.items) - c.i + 2)

Calm(m) == SpaceOK(m) /\ m.calls = <<>> /\ InRow(m.decs.items)

LoopInv(m, n) == Calm(m) \/ OneCall(m, n) \/ TwoCalls(m, n)

(* The parts of a state with one call.                                     *)
LEMMA OneFacts ==
  ASSUME NEW m, NEW c, NEW p, OneAt(m, c, p)
  PROVE  /\ DOMAIN m = SpaceFields /\ ListOK(m.decs) /\ Row(m.decs.items)
         /\ CellsMapped(m.decs.items, m.cell) /\ Len(m.decs.items) \in Nat
         /\ c.d \in DecType /\ c.i \in Nat /\ c.i \in 1 .. Len(m.decs.items) + 1
         /\ m.calls = <<c>> /\ Len(m.calls) = 1 /\ m.calls[1] = c
         /\ p \in 1 .. Len(m.decs.items) /\ m.decs.items[p] = c.d
         /\ c.d.key \in Nat /\ c.d.e \in Nat /\ c.d.key <= c.d.e
  <1>1. /\ DOMAIN m = SpaceFields /\ ListOK(m.decs) /\ Row(m.decs.items)
        /\ CellsMapped(m.decs.items, m.cell) /\ c \in CallType /\ m.calls = <<c>>
        /\ c.i \in 1 .. Len(m.decs.items) + 1 /\ p \in 1 .. Len(m.decs.items)
        /\ m.decs.items[p] = c.d
    BY DEF OneAt, SpaceOK, NewAmong
  <1>2. Len(m.calls) = 1 /\ m.calls[1] = c
    BY <1>1
  <1>3. c.d \in DecType /\ c.i \in Nat
    BY <1>1 DEF CallType
  <1>4. Len(m.decs.items) \in Nat
    BY <1>1 DEF Row
  <1>5. c.d.key \in Nat /\ c.d.e \in Nat /\ c.d.key <= c.d.e
    BY <1>1, RowFacts
  <1> QED BY <1>1, <1>2, <1>3, <1>4, <1>5

(* The others are beside each other, and the new one has no cells yet.     *)
LEMMA OthersBeside ==
  ASSUME NEW m, NEW c, NEW p, OneAt(m, c, p), NEW i \in 1 .. Len(m.decs.items), i # p,
         NEW j \in 1 .. Len(m.decs.items), j # i
  PROVE  ~m.decs.items[j].activated \/ Beside(m.decs.items[j], m.decs.items[i])
  <1>1. Len(m.decs.items) \in Nat /\ m.decs.items[p] = c.d /\ ~c.d.activated
    BY OneFacts DEF OneAt
  <1>2. NewAmong(m.decs.items, p, c.i, c.d)
    BY DEF OneAt
  <1>3. CASE j = p
    BY <1>1, <1>3
  <1>4. CASE j # p /\ j < i
    BY <1>2, <1>4 DEF NewAmong, Beside
  <1>5. CASE j # p /\ i < j
    BY <1>2, <1>5 DEF NewAmong, Beside
  <1> QED BY <1>1, <1>3, <1>4, <1>5

(* The next decoder of the list.                                           *)
LEMMA NextOne ==
  ASSUME NEW m, NEW c, NEW p, OneAt(m, c, p), c.i <= Len(m.decs.items)
  PROVE  LET r == [m EXCEPT !.calls[Len(m.calls)].i = c.i + 1]
             g == [c EXCEPT !.i = c.i + 1] IN
         /\ DOMAIN r = SpaceFields /\ r.decs = m.decs /\ r.cell = m.cell /\ r.calls = <<g>>
         /\ g \in CallType /\ g.d = c.d /\ g.i = c.i + 1 /\ Marked(m, r)
  <1> DEFINE g == [c EXCEPT !.i = c.i + 1]
             r == [m EXCEPT !.calls[Len(m.calls)].i = c.i + 1]
  <1>1. DOMAIN m = SpaceFields /\ m.calls = <<c>> /\ Len(m.calls) = 1 /\ c.i \in Nat
    BY OneFacts
  <1>2. c \in CallType
    BY DEF OneAt
  <1>3. g \in CallType /\ g.d = c.d /\ g.i = c.i + 1
    BY <1>1, <1>2 DEF CallType
  <1>4. r = [m EXCEPT !.calls = <<g>>]
    BY <1>1
  <1> HIDE DEF g, r
  <1>5. /\ DOMAIN r = SpaceFields /\ r.decs = m.decs /\ r.cell = m.cell /\ r.calls = <<g>>
        /\ r.ops = m.ops /\ r.brks = m.brks /\ r.stale = m.stale
    BY <1>1, <1>4 DEF SpaceFields
  <1>6. Marked(m, r)
    BY <1>5 DEF Marked
  <1> QED BY <1>3, <1>5, <1>6 DEF g, r

(* A decoder that is the new one, or beside it, is passed.                 *)
LEMMA StepOn ==
  ASSUME NEW m, NEW c, NEW p, OneAt(m, c, p), c.i <= Len(m.decs.items),
         \/ m.decs.items[c.i].u = c.d.u
         \/ Beside(m.decs.items[c.i], c.d)
  PROVE  LET r == [m EXCEPT !.calls[Len(m.calls)].i = c.i + 1]
             g == [c EXCEPT !.i = c.i + 1] IN
         OneAt(r, g, p) /\ r.decs = m.decs /\ g.d = c.d /\ g.i = c.i + 1 /\ Marked(m, r)
  <1> DEFINE g == [c EXCEPT !.i = c.i + 1]
             r == [m EXCEPT !.calls[Len(m.calls)].i = c.i + 1]
  <1>1. /\ DOMAIN r = SpaceFields /\ r.decs = m.decs /\ r.cell = m.cell /\ r.calls = <<g>>
        /\ g \in CallType /\ g.d = c.d /\ g.i = c.i + 1 /\ Marked(m, r)
    BY NextOne
  <1> HIDE DEF g, r
  <1>2. /\ Len(m.decs.items) \in Nat /\ c.i \in 1 .. Len(m.decs.items) /\ Row(m.decs.items)
        /\ g.i \in 1 .. Len(m.decs.items) + 1
    BY <1>1, OneFacts
  <1>3. NewAmong(m.decs.items, p, c.i + 1, c.d)
    BY <1>2, PassNew DEF OneAt
  <1>4. SpaceOK(r)
    BY <1>1 DEF OneAt, SpaceOK
  <1>5. OneAt(r, g, p)
    BY <1>1, <1>2, <1>3, <1>4 DEF OneAt
  <1> QED BY <1>1, <1>5 DEF g, r

(* A decoder that is fully covered is removed.                             *)
LEMMA StepGone ==
  ASSUME NEW m, NEW c, NEW p, OneAt(m, c, p), c.i <= Len(m.decs.items), c.i # p, NEW dc,
         dc = m.decs.items[c.i]
  PROVE  LET r == undecode_cells([m EXCEPT !.decs = disconn_at(m.decs, c.i - 1)], dc.key .. dc.e) IN
         /\ \E q : OneAt(r, c, q)
         /\ Len(r.decs.items) = Len(m.decs.items) - 1 /\ Marked(m, r)
         /\ NoneCovers(m.decs.items, c.d) => NoneCovers(r.decs.items, c.d)
  <1> DEFINE i == c.i
             sq == m.decs.items
             l == disconn_at(m.decs, i - 1)
             k == [m EXCEPT !.decs = l]
             r == undecode_cells(k, dc.key .. dc.e)
  <1>1. /\ DOMAIN m = SpaceFields /\ ListOK(m.decs) /\ Row(sq) /\ CellsMapped(sq, m.cell)
        /\ Len(sq) \in Nat /\ i \in 1 .. Len(sq) /\ i \in Nat /\ m.calls = <<c>>
        /\ c \in CallType /\ ~c.d.activated
    <2>1. c \in CallType /\ ~c.d.activated
      BY DEF OneAt
    <2> QED BY <2>1, OneFacts
  <1>2. l = [m.decs EXCEPT !.items = Seqs!RemoveAt(sq, i)]
    BY <1>1 DEF disconn_at
  <1>3. Seqs!RemoveAt(sq, i) \in Seq(DecType) /\ Removed(Seqs!RemoveAt(sq, i), sq, i)
    BY <1>1, RemoveIs DEF Row
  <1>4. ListOK(l) /\ l.items \in Seq(DecType) /\ Removed(l.items, sq, i)
    BY <1>1, <1>2, <1>3 DEF ListOK
  <1> HIDE DEF l
  <1>5. /\ DOMAIN k = SpaceFields /\ k.decs = l /\ k.cell = m.cell /\ k.calls = m.calls
        /\ k.ops = m.ops /\ k.brks = m.brks /\ k.stale = m.stale
    BY <1>1 DEF SpaceFields
  <1> HIDE DEF k
  <1>6. /\ DOMAIN r = SpaceFields /\ r.decs = l /\ r.calls = m.calls
        /\ r.cell = Freed(m.cell, dc.key .. dc.e) /\ Marked(k, r)
    BY <1>5, FreeIs
  <1> HIDE DEF r
  <1>7. Marked(m, r)
    BY <1>5, <1>6 DEF Marked
  <1>8. NewAmong(sq, p, i, c.d)
    BY DEF OneAt
  <1>9. /\ Row(l.items) /\ \E q : NewAmong(l.items, q, i, c.d)
        /\ NoneCovers(sq, c.d) => NoneCovers(l.items, c.d)
    BY <1>1, <1>4, <1>8, RemoveRow
  <1>10. CellsMapped(l.items, r.cell)
    <2>1. \A j \in 1 .. Len(sq) : j # i => ~sq[j].activated \/ Beside(sq[j], sq[i])
      BY <1>1, OthersBeside
    <2> QED BY <1>1, <1>4, <1>6, <2>1, RemoveMapped
  <1>11. Len(l.items) = Len(sq) - 1
    BY <1>4 DEF Removed
  <1>12. PICK q : NewAmong(l.items, q, i, c.d)
    BY <1>9
  <1>13. i \in 1 .. Len(l.items) + 1
    BY <1>1, <1>11
  <1>14. OneAt(r, c, q)
    BY <1>1, <1>4, <1>6, <1>9, <1>10, <1>12, <1>13 DEF OneAt, SpaceOK
  <1> QED BY <1>6, <1>7, <1>9, <1>11, <1>14 DEF r, k, l

(* What shrink_out_of leaves of a decoder.                                 *)
Shrunk(dc, begin, end) ==
  LET e == IF begin > dc.key THEN begin - 1 ELSE dc.e
      front == e > end
  IN  [dc EXCEPT !.e = e, !.key = IF front THEN end + 1 ELSE @,
                !.cb = IF front THEN @ + (end - dc.key + 1) ELSE @]

(* The row with the i-th decoder replaced.                                 *)
Put(sq, i, dc) == [sq EXCEPT ![i] = dc]

(* The cells that it gives back.                                           *)
CutArea(dc, begin, end) == {a \in dc.key .. dc.e : a \in begin .. end}

(* shrink_out_of replaces the decoder and gives the cells back.            *)
LEMMA ShrinkIs ==
  ASSUME NEW m, DOMAIN m = SpaceFields, ListOK(m.decs), NEW i, NEW begin, NEW end
  PROVE  LET r == shrink_out_of(m, i, begin, end)
             dc == m.decs.items[i] IN
         /\ DOMAIN r = SpaceFields /\ ListOK(r.decs) /\ r.calls = m.calls /\ Marked(m, r)
         /\ r.decs.items = Put(m.decs.items, i, Shrunk(dc, begin, end))
         /\ r.cell = Freed(m.cell, CutArea(dc, begin, end))
  <1> DEFINE dc == m.decs.items[i]
             area == CutArea(dc, begin, end)
             k == undecode_cells(m, area)
             t == Put(m.decs.items, i, Shrunk(dc, begin, end))
             l == [m.decs EXCEPT !.items = t]
             r == shrink_out_of(m, i, begin, end)
  <1>1. /\ DOMAIN k = SpaceFields /\ k.decs = m.decs /\ k.calls = m.calls
        /\ k.cell = Freed(m.cell, area) /\ Marked(m, k)
    BY FreeIs
  <1>2. r = [k EXCEPT !.decs.items[i] = Shrunk(dc, begin, end)]
    BY DEF shrink_out_of, Shrunk, CutArea
  <1> HIDE DEF k, r
  <1>3. r = [k EXCEPT !.decs = l]
    BY <1>1, <1>2 DEF Put
  <1> HIDE DEF l
  <1>4. /\ DOMAIN r = SpaceFields /\ r.decs = l /\ r.calls = k.calls /\ r.cell = k.cell
        /\ r.ops = k.ops /\ r.brks = k.brks /\ r.stale = k.stale
    BY <1>1, <1>3 DEF SpaceFields
  <1>5. ListOK(l) /\ l.items = t
    BY DEF ListOK, l
  <1>6. Marked(m, r)
    BY <1>1, <1>4 DEF Marked
  <1> HIDE DEF t
  <1> QED BY <1>1, <1>4, <1>5, <1>6 DEF r, t

(* The end of its area is given up.                                        *)
LEMMA ShrunkBack ==
  ASSUME NEW dc \in DecType, NEW begin \in Nat, NEW end \in Nat,
         dc.key < begin, begin <= dc.e, dc.e <= end
  PROVE  LET sh == Shrunk(dc, begin, end) IN
         /\ sh \in DecType /\ sh.u = dc.u /\ sh.activated = dc.activated /\ sh.chip = dc.chip
         /\ sh.key = dc.key /\ sh.e = begin - 1 /\ sh.cb = dc.cb
  <1>1. dc.key \in Nat /\ dc.e \in Nat
    BY DEF DecType
  <1>2. begin - 1 \in Nat /\ ~(begin - 1 > end) /\ begin > dc.key
    BY <1>1
  <1>3. Shrunk(dc, begin, end) = [dc EXCEPT !.e = begin - 1, !.key = dc.key, !.cb = dc.cb]
    BY <1>2 DEF Shrunk, DecType
  <1> QED BY <1>2, <1>3 DEF DecType

(* The start of its area is given up.                                      *)
LEMMA ShrunkFront ==
  ASSUME NEW dc \in DecType, NEW begin \in Nat, NEW end \in Nat,
         begin <= dc.key, dc.key <= end, end < dc.e
  PROVE  LET sh == Shrunk(dc, begin, end) IN
         /\ sh \in DecType /\ sh.u = dc.u /\ sh.activated = dc.activated /\ sh.chip = dc.chip
         /\ sh.key = end + 1 /\ sh.e = dc.e /\ sh.cb = dc.cb + (end - dc.key + 1)
  <1>1. dc.key \in Nat /\ dc.e \in Nat /\ dc.cb \in Nat
    BY DEF DecType
  <1>2. end + 1 \in Nat /\ dc.cb + (end - dc.key + 1) \in Nat /\ ~(begin > dc.key) /\ dc.e > end
    BY <1>1
  <1>3. Shrunk(dc, begin, end) =
          [dc EXCEPT !.e = dc.e, !.key = end + 1, !.cb = dc.cb + (end - dc.key + 1)]
    BY <1>2 DEF Shrunk, DecType
  <1> QED BY <1>1, <1>2, <1>3 DEF DecType

(* A decoder that the area from b to e covers in part: what is left of it  *)
(* is outside of the area, and its cells stay where they are.              *)
LEMMA ShrunkFacts ==
  ASSUME NEW dc \in DecType, dc.key <= dc.e, NEW b \in Nat, NEW e \in Nat, b <= e,
         ~fully_covered_by(dc, b, e), ~covers(dc, b, e), is_in(dc, b, e)
  PROVE  LET sh == Shrunk(dc, b, e)
             area == CutArea(dc, b, e) IN
         /\ sh \in DecType /\ sh.u = dc.u /\ sh.activated = dc.activated
         /\ sh.key <= sh.e /\ dc.key <= sh.key /\ sh.e <= dc.e
         /\ sh.e < b \/ e < sh.key
         /\ sh.key = dc.key \/ b <= dc.key
         /\ \A a \in Int : a \in dc.key .. dc.e => (a \in sh.key .. sh.e <=> a \notin area)
         /\ \A a \in Int : a \in sh.key .. sh.e => a \in dc.key .. dc.e
         /\ \A a \in Int : a \in area => a \in dc.key .. dc.e
         /\ \A a \in Int : a \in sh.key .. sh.e => PlaceOf(sh, a) = PlaceOf(dc, a)
  <1> DEFINE sh == Shrunk(dc, b, e)
             area == CutArea(dc, b, e)
  <1>1. dc.key \in Nat /\ dc.e \in Nat /\ dc.cb \in Nat
    BY DEF DecType
  <1>2. \/ dc.key < b /\ b <= dc.e /\ dc.e <= e
        \/ b <= dc.key /\ dc.key <= e /\ e < dc.e
    BY <1>1 DEF fully_covered_by, covers, is_in
  <1>3. CASE dc.key < b /\ b <= dc.e /\ dc.e <= e
    <2>1. /\ sh \in DecType /\ sh.u = dc.u /\ sh.activated = dc.activated /\ sh.chip = dc.chip
          /\ sh.key = dc.key /\ sh.e = b - 1 /\ sh.cb = dc.cb
      BY <1>3, ShrunkBack
    <2> HIDE DEF sh
    <2>2. /\ sh.key <= sh.e /\ dc.key <= sh.key /\ sh.e <= dc.e /\ sh.e < b
      BY <1>1, <1>3, <2>1
    <2>3. ASSUME NEW a \in Int
          PROVE  /\ a \in dc.key .. dc.e => (a \in sh.key .. sh.e <=> a \notin area)
                 /\ a \in sh.key .. sh.e => a \in dc.key .. dc.e
                 /\ a \in area => a \in dc.key .. dc.e
                 /\ a \in sh.key .. sh.e => PlaceOf(sh, a) = PlaceOf(dc, a)
      BY <1>1, <1>3, <2>1 DEF PlaceOf, CutArea
    <2> HIDE DEF area
    <2> QED BY <2>1, <2>2, <2>3 DEF sh, area
  <1>4. CASE b <= dc.key /\ dc.key <= e /\ e < dc.e
    <2>1. /\ sh \in DecType /\ sh.u = dc.u /\ sh.activated = dc.activated /\ sh.chip = dc.chip
          /\ sh.key = e + 1 /\ sh.e = dc.e /\ sh.cb = dc.cb + (e - dc.key + 1)
      BY <1>4, ShrunkFront
    <2> HIDE DEF sh
    <2>2. /\ sh.key <= sh.e /\ dc.key <= sh.key /\ sh.e <= dc.e /\ e < sh.key
      BY <1>1, <1>4, <2>1
    <2>3. ASSUME NEW a \in Int
          PROVE  /\ a \in dc.key .. dc.e => (a \in sh.key .. sh.e <=> a \notin area)
                 /\ a \in sh.key .. sh.e => a \in dc.key .. dc.e
                 /\ a \in area => a \in dc.key .. dc.e
      BY <1>1, <1>4, <2>1 DEF CutArea
    <2>4. ASSUME NEW a \in Int
          PROVE  PlaceOf(sh, a) = PlaceOf(dc, a)
      <3>1. sh.cb + (a - sh.key) = dc.cb + (a - dc.key)
        BY <1>1, <1>4, <2>1
      <3> QED BY <2>1, <3>1 DEF PlaceOf
    <2> HIDE DEF area
    <2> QED BY <1>4, <2>1, <2>2, <2>3, <2>4 DEF sh, area
  <1> QED BY <1>2, <1>3, <1>4

(* A decoder that the new one covers in part is shrunk.                    *)
LEMMA StepShrink ==
  ASSUME NEW m, NEW c, NEW p, OneAt(m, c, p), c.i <= Len(m.decs.items), c.i # p, NEW dc,
         dc = m.decs.items[c.i],
         ~fully_covered_by(dc, c.d.key, c.d.e), ~covers(dc, c.d.key, c.d.e),
         is_in(dc, c.d.key, c.d.e)
  PROVE  LET on == [m EXCEPT !.calls[Len(m.calls)].i = c.i + 1]
             r == shrink_out_of(on, c.i, c.d.key, c.d.e)
             g == [c EXCEPT !.i = c.i + 1] IN
         /\ OneAt(r, g, p) /\ g.d = c.d /\ g.i = c.i + 1 /\ Marked(m, r)
         /\ Len(r.decs.items) = Len(m.decs.items)
         /\ NoneCovers(m.decs.items, c.d) => NoneCovers(r.decs.items, c.d)
  <1> DEFINE i == c.i
             sq == m.decs.items
             b == c.d.key
             e == c.d.e
             on == [m EXCEPT !.calls[Len(m.calls)].i = i + 1]
             r == shrink_out_of(on, i, b, e)
             g == [c EXCEPT !.i = i + 1]
             sh == Shrunk(dc, b, e)
             area == CutArea(dc, b, e)
  <1>1. /\ DOMAIN on = SpaceFields /\ on.decs = m.decs /\ on.cell = m.cell /\ on.calls = <<g>>
        /\ g \in CallType /\ g.d = c.d /\ g.i = i + 1 /\ Marked(m, on)
    BY NextOne
  <1>2. /\ DOMAIN m = SpaceFields /\ ListOK(m.decs) /\ Row(sq) /\ CellsMapped(sq, m.cell)
        /\ Len(sq) \in Nat /\ i \in 1 .. Len(sq) /\ ~c.d.activated
        /\ b \in Nat /\ e \in Nat /\ b <= e /\ NewAmong(sq, p, i, c.d)
    <2>1. NewAmong(sq, p, i, c.d) /\ ~c.d.activated
      BY DEF OneAt
    <2> QED BY <2>1, OneFacts
  <1> HIDE DEF on, g
  <1>3. /\ DOMAIN r = SpaceFields /\ ListOK(r.decs) /\ r.calls = <<g>> /\ Marked(on, r)
        /\ r.decs.items = [sq EXCEPT ![i] = sh] /\ r.cell = Freed(m.cell, area)
    <2>1. DOMAIN on = SpaceFields /\ ListOK(on.decs)
      BY <1>1, <1>2
    <2> HIDE DEF b, e, i
    <2> DEFINE x == on.decs.items[i]
               cut == CutArea(x, b, e)
    <2>2. /\ DOMAIN r = SpaceFields /\ ListOK(r.decs) /\ r.calls = on.calls /\ Marked(on, r)
          /\ r.decs.items = Put(on.decs.items, i, Shrunk(x, b, e))
          /\ r.cell = Freed(on.cell, cut)
      BY <2>1, ShrinkIs
    <2>3. x = dc
      BY <1>1 DEF i
    <2> HIDE DEF r, x
    <2> QED BY <1>1, <2>2, <2>3 DEF Put
  <1>4. Marked(m, r)
    BY <1>1, <1>3, MarkedTwice
  <1> HIDE DEF r
  <1>5. dc \in DecType /\ dc.key <= dc.e /\ dc = sq[i]
    BY <1>2, RowFacts
  <1>6. /\ sh \in DecType /\ sh.u = dc.u /\ sh.activated = dc.activated
        /\ sh.key <= sh.e /\ dc.key <= sh.key /\ sh.e <= dc.e
        /\ sh.e < b \/ e < sh.key
        /\ sh.key = dc.key \/ b <= dc.key
        /\ \A a \in Int : a \in dc.key .. dc.e => (a \in sh.key .. sh.e <=> a \notin area)
        /\ \A a \in Int : a \in sh.key .. sh.e => a \in dc.key .. dc.e
        /\ \A a \in Int : a \in area => a \in dc.key .. dc.e
        /\ \A a \in Int : a \in sh.key .. sh.e => PlaceOf(sh, a) = PlaceOf(dc, a)
    <2>1. ~fully_covered_by(dc, b, e) /\ ~covers(dc, b, e) /\ is_in(dc, b, e)
      OBVIOUS
    <2> HIDE DEF b, e
    <2> QED BY <1>2, <1>5, <2>1, ShrunkFacts
  <1> HIDE DEF sh, area
  <1>7. Beside(sh, c.d)
    BY <1>6 DEF Beside
  <1>8. /\ Row([sq EXCEPT ![i] = sh]) /\ NewAmong([sq EXCEPT ![i] = sh], p, i + 1, c.d)
        /\ NoneCovers(sq, c.d) => NoneCovers([sq EXCEPT ![i] = sh], c.d)
    BY <1>2, <1>5, <1>6, <1>7, ShrinkRow
  <1>9. CellsMapped([sq EXCEPT ![i] = sh], Freed(m.cell, area))
    <2>1. \A j \in 1 .. Len(sq) : j # i => ~sq[j].activated \/ Beside(sq[j], sq[i])
      BY <1>2, OthersBeside
    <2> QED BY <1>2, <1>5, <1>6, <2>1, ShrinkMapped
  <1>10. Len(r.decs.items) = Len(sq) /\ i + 1 \in 1 .. Len(sq) + 1
    BY <1>2, <1>3 DEF Row
  <1>11. OneAt(r, g, p)
    BY <1>1, <1>2, <1>3, <1>8, <1>9, <1>10 DEF OneAt, SpaceOK
  <1> QED BY <1>1, <1>3, <1>4, <1>8, <1>10, <1>11 DEF r, g, on

(* A decoder that covers the area from b to e: its front part is left.     *)
LEMMA CutFacts ==
  ASSUME NEW dc \in DecType, NEW b \in Nat, NEW e \in Nat, b <= e, covers(dc, b, e)
  PROVE  LET sh == Shrunk(dc, b, dc.e)
             area == CutArea(dc, b, dc.e) IN
         /\ sh \in DecType /\ sh.u = dc.u /\ sh.activated = dc.activated
         /\ sh.key = dc.key /\ sh.e = b - 1
         /\ \A a \in Int : a \in dc.key .. dc.e => (a \in sh.key .. sh.e <=> a \notin area)
         /\ \A a \in Int : a \in sh.key .. sh.e => a \in dc.key .. dc.e
         /\ \A a \in Int : a \in area => a \in dc.key .. dc.e
         /\ \A a \in Int : a \in sh.key .. sh.e => PlaceOf(sh, a) = PlaceOf(dc, a)
  <1> DEFINE sh == Shrunk(dc, b, dc.e)
             area == CutArea(dc, b, dc.e)
  <1>1. dc.key \in Nat /\ dc.e \in Nat /\ dc.cb \in Nat
    BY DEF DecType
  <1>2. dc.key < b /\ b <= dc.e
    BY <1>1 DEF covers
  <1>3. /\ sh \in DecType /\ sh.u = dc.u /\ sh.activated = dc.activated /\ sh.chip = dc.chip
        /\ sh.key = dc.key /\ sh.e = b - 1 /\ sh.cb = dc.cb
    BY <1>1, <1>2, ShrunkBack
  <1> HIDE DEF sh
  <1>4. ASSUME NEW a \in Int
        PROVE  /\ a \in dc.key .. dc.e => (a \in sh.key .. sh.e <=> a \notin area)
               /\ a \in sh.key .. sh.e => a \in dc.key .. dc.e
               /\ a \in area => a \in dc.key .. dc.e
               /\ a \in sh.key .. sh.e => PlaceOf(sh, a) = PlaceOf(dc, a)
    BY <1>1, <1>2, <1>3 DEF PlaceOf, CutArea
  <1> HIDE DEF area
  <1> QED BY <1>3, <1>4 DEF sh, area

(* A decoder is added to the list of a space.                              *)
Added(m, x) == [m EXCEPT !.decs = list_add(@, x)]

(* It is new among the others, or in a gap; the others are still there.    *)
LEMMA AddedIs ==
  ASSUME NEW m, SpaceOK(m), InRow(m.decs.items), NEW x \in DecType, x.key <= x.e, ~x.activated,
         \A j \in 1 .. Len(m.decs.items) : m.decs.items[j].u # x.u
  PROVE  LET k == Added(m, x)
             sq == m.decs.items
             t == k.decs.items IN
         /\ SpaceOK(k) /\ k.calls = m.calls /\ Marked(m, k) /\ Len(t) = Len(sq) + 1
         /\ \E q : q \in 1 .. Len(t) /\ t[q] = x /\ NewAmong(t, q, 1, x)
         /\ (\A j \in 1 .. Len(sq) : Beside(sq[j], x)) => InRow(t)
         /\ \A j \in 1 .. Len(sq) : \E l \in 1 .. Len(t) : t[l] = sq[j]
  <1> DEFINE sq == m.decs.items
             l == list_add(m.decs, x)
             t == l.items
             k == Added(m, x)
  <1>1. /\ DOMAIN m = SpaceFields /\ ListOK(m.decs) /\ Row(sq) /\ CellsMapped(sq, m.cell)
        /\ Len(sq) \in Nat
    BY DEF SpaceOK, Row
  <1>2. /\ ListOK(l) /\ t \in Seq(DecType)
        /\ \E y : Placed(sq, y, x) /\ Inserted(t, sq, y, x)
    BY <1>1, AddIs
  <1> HIDE DEF l
  <1>3. /\ DOMAIN k = SpaceFields /\ k.decs = l /\ k.cell = m.cell /\ k.calls = m.calls
        /\ k.ops = m.ops /\ k.brks = m.brks /\ k.stale = m.stale
    BY <1>1 DEF SpaceFields, Added, l
  <1> HIDE DEF k
  <1>4. PICK y : Placed(sq, y, x) /\ Inserted(t, sq, y, x)
    BY <1>2
  <1>5. y \in 0 .. Len(sq)
    BY <1>4 DEF Placed
  <1>6. /\ Len(t) = Len(sq) + 1 /\ y + 1 \in 1 .. Len(t) /\ t[y + 1] = x
        /\ \A j \in 1 .. Len(t) : j <= y => j \in 1 .. Len(sq) /\ t[j] = sq[j]
        /\ \A j \in 1 .. Len(t) : j > y + 1 => j - 1 \in 1 .. Len(sq) /\ t[j] = sq[j - 1]
    <2> HIDE DEF t, sq
    <2> QED BY <1>1, <1>4, <1>5, InsertedAt
  <1>7. Row(t) /\ NewAmong(t, y + 1, 1, x)
    BY <1>1, <1>2, <1>4, InsertRow, StartRow
  <1>8. CellsMapped(t, m.cell)
    BY <1>1, <1>4, <1>5, InsertMapped
  <1>9. (\A j \in 1 .. Len(sq) : Beside(sq[j], x)) => InRow(t)
    BY <1>1, <1>2, <1>4, GapRow
  <1>10. ASSUME NEW j \in 1 .. Len(sq) PROVE \E f \in 1 .. Len(t) : t[f] = sq[j]
    <2>1. CASE j <= y
      <3>1. j \in 1 .. Len(t)
        BY <1>1, <1>6
      <3> QED BY <1>6, <2>1, <3>1
    <2>2. CASE j > y
      <3>1. j + 1 \in 1 .. Len(t) /\ j + 1 > y + 1 /\ (j + 1) - 1 = j
        BY <1>1, <1>5, <1>6, <2>2
      <3>2. t[j + 1] = sq[(j + 1) - 1]
        BY <1>6, <3>1
      <3> QED BY <3>1, <3>2
    <2> QED BY <1>5, <2>1, <2>2
  <1>11. SpaceOK(k) /\ Marked(m, k)
    BY <1>2, <1>3, <1>7, <1>8 DEF SpaceOK, Marked
  <1> HIDE DEF t
  <1>12. k.decs.items = t
    BY <1>3 DEF t
  <1> QED BY <1>3, <1>6, <1>7, <1>9, <1>10, <1>11, <1>12 DEF k

(* A call of undecode_area at its start.                                   *)
CallOf(x) == [d |-> x, i |-> 1]

(* A call inside of another one.                                           *)
LEMMA AppendTwo ==
  ASSUME NEW x, NEW y
  PROVE  Append(<<x>>, y) = <<x, y>>
  <1> DEFINE one == <<x>>
             two == <<x, y>>
             new == Append(one, y)
             S == {x, y}
  <1>1. one \in Seq(S) /\ two \in Seq(S) /\ y \in S
    OBVIOUS
  <1>2. Len(one) = 1 /\ Len(two) = 2 /\ one[1] = x /\ two[1] = x /\ two[2] = y
    OBVIOUS
  <1> HIDE DEF one, two, S
  <1>3. /\ new \in Seq(S) /\ Len(new) = Len(one) + 1 /\ new[Len(one) + 1] = y
        /\ \A i \in 1 .. Len(one) : new[i] = one[i]
    BY <1>1, AppendProperties
  <1> HIDE DEF new
  <1>4. Len(new) = Len(two) /\ \A i \in 1 .. Len(new) : new[i] = two[i]
    BY <1>2, <1>3
  <1>5. new = two
    BY <1>1, <1>3, <1>4, SeqEqual
  <1> QED BY <1>5 DEF new, one, two

(* It is refused and changes nothing, or undecode_area starts.             *)
LEMMA ActivateIs ==
  ASSUME NEW m, SpaceOK(m), NEW q \in 1 .. Len(m.decs.items), NEW x, m.decs.items[q] = x,
         ~x.activated
  PROVE  LET r == activate(m, x.u) IN
         \/ ~Accepted(x) /\ r = m
         \/ /\ DOMAIN r = SpaceFields /\ r.decs = m.decs /\ r.cell = m.cell /\ Marked(m, r)
            /\ r.calls = Append(m.calls, CallOf(x))
  <1> DEFINE r == activate(m, x.u)
  <1>1. Row(m.decs.items) /\ DOMAIN m = SpaceFields
    BY DEF SpaceOK
  <1>2. IndexOf(m, x.u) = q
    BY <1>1, IndexIs
  <1>3. r = IF ~Accepted(x) THEN m ELSE [m EXCEPT !.calls = Append(m.calls, CallOf(x))]
    BY <1>2 DEF activate, CallOf
  <1>4. CASE Accepted(x)
    <2> DEFINE new == Append(m.calls, CallOf(x))
    <2>1. r = [m EXCEPT !.calls = new]
      BY <1>3, <1>4
    <2> HIDE DEF r, new
    <2>2. /\ DOMAIN r = SpaceFields /\ r.decs = m.decs /\ r.cell = m.cell
          /\ r.ops = m.ops /\ r.brks = m.brks /\ r.stale = m.stale /\ r.calls = new
      BY <1>1, <2>1 DEF SpaceFields
    <2>3. Marked(m, r)
      BY <2>2 DEF Marked
    <2> QED BY <2>2, <2>3 DEF r, new
  <1> QED BY <1>3, <1>4

(* The part of a decoder behind the new one, as split makes it.            *)
LEMMA BehindIs ==
  ASSUME NEW m, Row(m.decs.items), NEW i \in 1 .. Len(m.decs.items), NEW dc, dc = m.decs.items[i],
         NEW b \in Nat, NEW e \in Nat, b <= e, covers(dc, b, e)
  PROVE  LET nd == Behind(m, i, e) IN
         /\ nd \in DecType /\ nd.key = e + 1 /\ nd.e = dc.e /\ nd.key <= nd.e /\ ~nd.activated
         /\ \A j \in 1 .. Len(m.decs.items) : m.decs.items[j].u # nd.u
  <1> DEFINE nd == Behind(m, i, e)
             u == Unused(m)
             at == dc.cb + (e - dc.key) + 1
  <1>1. dc \in DecType /\ dc.key \in Nat /\ dc.e \in Nat /\ dc.cb \in Nat /\ dc.chip \in DOMAIN ChipSize
    BY RowFacts
  <1>2. u \in Nat /\ \A j \in 1 .. Len(m.decs.items) : m.decs.items[j].u # u
    BY UnusedIs
  <1>3. at \in Nat /\ e + 1 \in Nat /\ e + 1 <= dc.e
    <2>1. dc.key < b /\ e < dc.e
      BY <1>1 DEF covers
    <2> DEFINE x == dc.key
               y == dc.e
               z == dc.cb
    <2>2. x \in Nat /\ y \in Nat /\ z \in Nat /\ x < b /\ e < y
      BY <1>1, <2>1
    <2> HIDE DEF x, y, z
    <2>3. z + (e - x) + 1 \in Nat /\ e + 1 \in Nat /\ e + 1 <= y
      BY <2>2
    <2> QED BY <2>3 DEF x, y, z
  <1>4. nd = [u |-> u, key |-> e + 1, e |-> dc.e, chip |-> dc.chip, cb |-> at, activated |-> FALSE]
    BY DEF Behind, Decoder
  <1> HIDE DEF u, at, nd
  <1> QED BY <1>1, <1>2, <1>3, <1>4 DEF DecType, nd

(* A decoder that covers the new one is split: its front part stays, the   *)
(* part behind is added and, if it is accepted, activated first.           *)
Split(m, c, dc) ==
  LET on == [m EXCEPT !.calls[Len(m.calls)].i = c.i + 1]
      nd == Behind(m, c.i, c.d.e)
      cut == shrink_out_of(on, c.i, c.d.key, dc.e)
  IN  activate(Added(cut, nd), nd.u)

(* One or two calls are under way then, and all decoders lie in a row.     *)
LEMMA StepCut ==
  ASSUME NEW m, NEW c, NEW p, OneAt(m, c, p), c.i <= Len(m.decs.items), NEW dc,
         dc = m.decs.items[c.i], covers(dc, c.d.key, c.d.e)
  PROVE  LET r == Split(m, c, dc) IN
         /\ Marked(m, r) /\ Len(r.decs.items) = Len(m.decs.items) + 1
         /\ \E g : /\ g.i = c.i + 1
                   /\ \/ \E q : OneAt(r, g, q) /\ NoneCovers(r.decs.items, g.d)
                      \/ \E f, p2, q : TwoAt(r, g, f, p2, q) /\ f.i = 1
  <1> DEFINE i == c.i
             sq == m.decs.items
             b == c.d.key
             e == c.d.e
             on == [m EXCEPT !.calls[Len(m.calls)].i = i + 1]
             cut == shrink_out_of(on, i, b, dc.e)
             g == [c EXCEPT !.i = i + 1]
             sh == Shrunk(dc, b, dc.e)
             t == Put(sq, i, sh)
             area == CutArea(dc, b, dc.e)
             nd == Behind(m, i, e)
             k == Added(cut, nd)
             w == k.decs.items
             r == activate(k, nd.u)
  <1>1. /\ DOMAIN on = SpaceFields /\ on.decs = m.decs /\ on.cell = m.cell /\ on.calls = <<g>>
        /\ g \in CallType /\ g.d = c.d /\ g.i = i + 1 /\ Marked(m, on)
    BY NextOne
  <1>2. /\ DOMAIN m = SpaceFields /\ ListOK(m.decs) /\ Row(sq) /\ CellsMapped(sq, m.cell)
        /\ Len(sq) \in Nat /\ i \in 1 .. Len(sq) /\ ~c.d.activated
        /\ b \in Nat /\ e \in Nat /\ b <= e /\ NewAmong(sq, p, i, c.d) /\ p \in 1 .. Len(sq)
    <2>1. NewAmong(sq, p, i, c.d) /\ ~c.d.activated
      BY DEF OneAt
    <2> QED BY <2>1, OneFacts
  <1> HIDE DEF on, g
  <1>3. /\ DOMAIN cut = SpaceFields /\ ListOK(cut.decs) /\ cut.calls = <<g>> /\ Marked(on, cut)
        /\ cut.decs.items = t /\ cut.cell = Freed(m.cell, area)
    <2>1. DOMAIN on = SpaceFields /\ ListOK(on.decs)
      BY <1>1, <1>2
    <2> HIDE DEF b, e, i
    <2> DEFINE x == on.decs.items[i]
    <2>2. /\ DOMAIN cut = SpaceFields /\ ListOK(cut.decs) /\ cut.calls = on.calls
          /\ Marked(on, cut) /\ cut.decs.items = Put(on.decs.items, i, Shrunk(x, b, dc.e))
          /\ cut.cell = Freed(on.cell, CutArea(x, b, dc.e))
      BY <2>1, ShrinkIs
    <2>3. x = dc
      BY <1>1 DEF i
    <2> HIDE DEF cut, x
    <2> QED BY <1>1, <2>2, <2>3
  <1>4. Marked(m, cut)
    BY <1>1, <1>3, MarkedTwice
  <1> HIDE DEF cut
  <1>5. dc \in DecType /\ dc.key <= dc.e /\ dc = sq[i]
    BY <1>2, RowFacts
  <1>6. /\ sh \in DecType /\ sh.u = dc.u /\ sh.activated = dc.activated
        /\ sh.key = dc.key /\ sh.e = b - 1
        /\ \A a \in Int : a \in dc.key .. dc.e => (a \in sh.key .. sh.e <=> a \notin area)
        /\ \A a \in Int : a \in sh.key .. sh.e => a \in dc.key .. dc.e
        /\ \A a \in Int : a \in area => a \in dc.key .. dc.e
        /\ \A a \in Int : a \in sh.key .. sh.e => PlaceOf(sh, a) = PlaceOf(dc, a)
    <2>1. covers(dc, b, e)
      OBVIOUS
    <2> HIDE DEF b, e
    <2> QED BY <1>2, <1>5, <2>1, CutFacts
  <1> HIDE DEF sh, area
  <1>7. /\ Row(t) /\ InRow(t) /\ i # p /\ t[p] = c.d
        /\ \A j \in 1 .. Len(t) : t[j].e <= e \/ sq[i].e < t[j].key
    <2> DEFINE v == [sq EXCEPT ![i] = sh]
    <2>1. /\ Row(v) /\ InRow(v) /\ i # p /\ v[p] = c.d
          /\ \A j \in 1 .. Len(v) : v[j].e <= c.d.e \/ sq[i].e < v[j].key
      <3>1. covers(sq[i], c.d.key, c.d.e) /\ sh.u = sq[i].u /\ sh.key = sq[i].key
            /\ sh.e = c.d.key - 1
        BY <1>5, <1>6
      <3> HIDE DEF b, e
      <3> QED BY <1>2, <1>6, <3>1, CutRow
    <2> QED BY <2>1 DEF Put
  <1>8. CellsMapped(t, cut.cell)
    <2>1. \A j \in 1 .. Len(sq) : j # i => ~sq[j].activated \/ Beside(sq[j], sq[i])
      BY <1>2, <1>7, OthersBeside
    <2>2. CellsMapped([sq EXCEPT ![i] = sh], Freed(m.cell, area))
      BY <1>2, <1>5, <1>6, <2>1, ShrinkMapped
    <2> QED BY <1>3, <2>2 DEF Put
  <1>9. SpaceOK(cut) /\ InRow(cut.decs.items)
    BY <1>3, <1>7, <1>8 DEF SpaceOK
  <1>10. Len(t) = Len(sq) /\ \A j \in 1 .. Len(sq) : t[j].u = sq[j].u
    BY <1>2, <1>5, <1>6 DEF Put, Row
  <1> HIDE DEF t
  <1>11. /\ nd \in DecType /\ nd.key = e + 1 /\ nd.e = dc.e /\ nd.key <= nd.e /\ ~nd.activated
         /\ \A j \in 1 .. Len(sq) : sq[j].u # nd.u
    <2>1. covers(dc, b, e)
      OBVIOUS
    <2> HIDE DEF b, e, i
    <2> QED BY <1>2, <1>5, <2>1, BehindIs
  <1> HIDE DEF nd
  <1>12. ASSUME NEW j \in 1 .. Len(t) PROVE Beside(t[j], nd) /\ t[j].u # nd.u
    <2>1. t[j].u # nd.u
      BY <1>10, <1>11
    <2>2. t[j].e \in Nat /\ t[j].key \in Nat /\ dc.e \in Nat
      BY <1>5, <1>7, RowFacts DEF DecType
    <2>3. t[j].e <= e \/ dc.e < t[j].key
      BY <1>5, <1>7
    <2>4. t[j].e < nd.key \/ nd.e < t[j].key
      <3> HIDE DEF e
      <3> QED BY <1>2, <1>11, <2>2, <2>3
    <2> QED BY <2>1, <2>4 DEF Beside
  <1>13. /\ SpaceOK(k) /\ k.calls = cut.calls /\ Marked(cut, k) /\ Len(w) = Len(t) + 1
         /\ \E q : q \in 1 .. Len(w) /\ w[q] = nd /\ NewAmong(w, q, 1, nd)
         /\ InRow(w) /\ \A j \in 1 .. Len(t) : \E l \in 1 .. Len(w) : w[l] = t[j]
    <2> DEFINE v == cut.decs.items
    <2>1. v = t
      BY <1>3
    <2>2. \A j \in 1 .. Len(v) : Beside(v[j], nd) /\ v[j].u # nd.u
      BY <1>12, <2>1
    <2>3. /\ SpaceOK(k) /\ k.calls = cut.calls /\ Marked(cut, k) /\ Len(w) = Len(v) + 1
          /\ \E q : q \in 1 .. Len(w) /\ w[q] = nd /\ NewAmong(w, q, 1, nd)
          /\ InRow(w) /\ \A j \in 1 .. Len(v) : \E l \in 1 .. Len(w) : w[l] = v[j]
      BY <1>9, <1>11, <2>2, AddedIs
    <2> HIDE DEF k, w, v
    <2> QED BY <2>1, <2>3
  <1> HIDE DEF k
  <1>14. PICK q : q \in 1 .. Len(w) /\ w[q] = nd
    BY <1>13
  <1>15. PICK p2 \in 1 .. Len(w) : w[p2] = c.d
    BY <1>2, <1>7, <1>10, <1>13
  <1>16. p2 # q
    BY <1>2, <1>7, <1>10, <1>12, <1>14, <1>15
  <1>17. Marked(m, k)
    BY <1>4, <1>13, MarkedTwice
  <1>18. i + 1 \in 1 .. Len(w) + 1 /\ Len(w) = Len(sq) + 1
    BY <1>2, <1>10, <1>13
  <1>19. Row(w)
    BY <1>13 DEF SpaceOK
  <1>20. \/ r = k
         \/ /\ DOMAIN r = SpaceFields /\ r.decs = k.decs /\ r.cell = k.cell /\ Marked(k, r)
            /\ r.calls = Append(k.calls, CallOf(nd))
    <2>1. /\ SpaceOK(k) /\ q \in 1 .. Len(k.decs.items) /\ k.decs.items[q] = nd
          /\ ~nd.activated
      BY <1>11, <1>13, <1>14
    <2> QED BY <2>1, ActivateIs
  <1> HIDE DEF r, w
  <1>21. CASE r = k
    <2>1. NewAmong(w, p2, i + 1, c.d) /\ NoneCovers(w, c.d)
      BY <1>13, <1>15, <1>19, RowBeside
    <2>2. OneAt(r, g, p2)
      BY <1>1, <1>2, <1>3, <1>13, <1>18, <1>21, <2>1 DEF OneAt, w
    <2> QED BY <1>1, <1>17, <1>18, <1>21, <2>1, <2>2 DEF r, k, cut, on, nd, g, w, Split
  <1>22. CASE /\ DOMAIN r = SpaceFields /\ r.decs = k.decs /\ r.cell = k.cell /\ Marked(k, r)
              /\ r.calls = Append(k.calls, CallOf(nd))
    <2> DEFINE f == CallOf(nd)
    <2>1. f \in CallType /\ f.d = nd /\ f.i = 1 /\ f.i \in 1 .. Len(w) + 1
      BY <1>2, <1>11, <1>18 DEF CallType, CallOf
    <2> HIDE DEF f
    <2>2. r.calls = <<g, f>>
      BY <1>3, <1>13, <1>22, AppendTwo DEF f
    <2>3. SpaceOK(r) /\ r.decs.items = w
      BY <1>13, <1>22 DEF SpaceOK, w
    <2>4. TwoAt(r, g, f, p2, q)
      BY <1>1, <1>2, <1>13, <1>14, <1>15, <1>16, <1>18, <2>1, <2>2, <2>3 DEF TwoAt
    <2>5. Marked(m, r)
      BY <1>17, <1>22, MarkedTwice
    <2> QED BY <1>1, <1>18, <2>1, <2>3, <2>4, <2>5 DEF r, k, cut, on, nd, g, Split
  <1> QED BY <1>20, <1>21, <1>22

(* The tests of undecode_area tell whether two areas meet.                 *)
LEMMA Touch ==
  ASSUME NEW dc \in DecType, NEW f \in DecType, dc.key <= dc.e, f.key <= f.e
  PROVE  Beside(dc, f) <=> /\ ~fully_covered_by(dc, f.key, f.e) /\ ~covers(dc, f.key, f.e)
                           /\ ~is_in(dc, f.key, f.e)
  <1>1. dc.key \in Nat /\ dc.e \in Nat /\ f.key \in Nat /\ f.e \in Nat
    BY DEF DecType
  <1> QED BY <1>1 DEF Beside, fully_covered_by, covers, is_in

(* A turn of the loop, by the call that is under way.                      *)
LEMMA AreaIs ==
  ASSUME NEW m, NEW c, c = m.calls[Len(m.calls)], NEW dc, dc = m.decs.items[c.i]
  PROVE  LET on == [m EXCEPT !.calls[Len(m.calls)].i = c.i + 1]
             gone == [m EXCEPT !.decs = disconn_at(m.decs, c.i - 1)] IN
         undecode_area(m) =
           IF dc.u = c.d.u THEN on
           ELSE IF fully_covered_by(dc, c.d.key, c.d.e) THEN undecode_cells(gone, dc.key .. dc.e)
           ELSE IF covers(dc, c.d.key, c.d.e) THEN Split(m, c, dc)
           ELSE IF is_in(dc, c.d.key, c.d.e) THEN shrink_out_of(on, c.i, c.d.key, c.d.e)
           ELSE on
  BY DEF undecode_area, Added, Split

(* The turns that are left suffice.                                        *)
LEMMA Fuel ==
  ASSUME NEW n \in Nat, NEW L \in Nat, NEW i \in 1 .. L, n + 1 >= L - i + 2
  PROVE  /\ n >= L - (i + 1) + 2 /\ n >= (L - 1) - i + 2
         /\ n + 1 >= 2 * L - i + 5 =>
              /\ n >= 2 * L - (i + 1) + 5 /\ n >= 2 * (L - 1) - i + 5
              /\ n >= (L + 1) - (i + 1) + 2
              /\ n >= ((L + 1) - 1 + 2) + ((L + 1) - (i + 1) + 2)
  OBVIOUS

(* A turn with one call under way.                                         *)
LEMMA TurnOne ==
  ASSUME NEW m, NEW c, NEW p, OneAt(m, c, p), c.i <= Len(m.decs.items), NEW n \in Nat,
         n + 1 >= Len(m.decs.items) - c.i + 2,
         n + 1 >= 2 * Len(m.decs.items) - c.i + 5 \/ NoneCovers(m.decs.items, c.d)
  PROVE  LET r == undecode_area(m) IN Marked(m, r) /\ (OneCall(r, n) \/ TwoCalls(r, n))
  <1> DEFINE sq == m.decs.items
             dc == sq[c.i]
             g == [c EXCEPT !.i = c.i + 1]
             on == [m EXCEPT !.calls[Len(m.calls)].i = c.i + 1]
             gone == [m EXCEPT !.decs = disconn_at(m.decs, c.i - 1)]
             b == c.d.key
             e == c.d.e
             r == undecode_area(m)
  <1>1. /\ Row(sq) /\ Len(sq) \in Nat /\ c.i \in Nat /\ c.i \in 1 .. Len(sq)
        /\ c = m.calls[Len(m.calls)] /\ p \in 1 .. Len(sq) /\ sq[p] = c.d
        /\ c.d \in DecType /\ c.d.key <= c.d.e
    BY OneFacts
  <1>2. dc \in DecType /\ dc.key <= dc.e
    BY <1>1, RowFacts
  <1>3. r = IF dc.u = c.d.u THEN on
            ELSE IF fully_covered_by(dc, b, e) THEN undecode_cells(gone, dc.key .. dc.e)
            ELSE IF covers(dc, b, e) THEN Split(m, c, dc)
            ELSE IF is_in(dc, b, e) THEN shrink_out_of(on, c.i, b, e)
            ELSE on
    BY <1>1, AreaIs
  <1>4. c.i = p => dc.u = c.d.u
    BY <1>1
  <1>5. /\ n >= Len(sq) - (c.i + 1) + 2 /\ n >= (Len(sq) - 1) - c.i + 2
        /\ n + 1 >= 2 * Len(sq) - c.i + 5 =>
             /\ n >= 2 * Len(sq) - (c.i + 1) + 5 /\ n >= 2 * (Len(sq) - 1) - c.i + 5
             /\ n >= (Len(sq) + 1) - (c.i + 1) + 2
             /\ n >= ((Len(sq) + 1) - 1 + 2) + ((Len(sq) + 1) - (c.i + 1) + 2)
    BY <1>1, Fuel
  <1> HIDE DEF r
  <1>6. CASE \/ dc.u = c.d.u
             \/ ~fully_covered_by(dc, b, e) /\ ~covers(dc, b, e) /\ ~is_in(dc, b, e)
    <2>1. dc.u = c.d.u \/ Beside(dc, c.d)
      BY <1>1, <1>2, <1>6, Touch
    <2>2. r = on
      BY <1>3, <1>6
    <2>3. OneAt(r, g, p) /\ r.decs = m.decs /\ g.d = c.d /\ g.i = c.i + 1 /\ Marked(m, r)
      BY <2>1, <2>2, StepOn
    <2> HIDE DEF g
    <2>4. n >= Len(r.decs.items) - g.i + 2
      BY <1>5, <2>3
    <2>5. n >= 2 * Len(r.decs.items) - g.i + 5 \/ NoneCovers(r.decs.items, g.d)
      BY <1>5, <2>3
    <2> QED BY <2>3, <2>4, <2>5 DEF OneCall, r
  <1>7. CASE dc.u # c.d.u /\ fully_covered_by(dc, b, e)
    <2>1. r = undecode_cells(gone, dc.key .. dc.e)
      BY <1>3, <1>7
    <2>2. /\ \E q : OneAt(r, c, q)
          /\ Len(r.decs.items) = Len(sq) - 1 /\ Marked(m, r)
          /\ NoneCovers(sq, c.d) => NoneCovers(r.decs.items, c.d)
      BY <1>4, <1>7, <2>1, StepGone
    <2>3. n >= Len(r.decs.items) - c.i + 2
      BY <1>5, <2>2
    <2>4. n >= 2 * Len(r.decs.items) - c.i + 5 \/ NoneCovers(r.decs.items, c.d)
      BY <1>5, <2>2
    <2> QED BY <2>2, <2>3, <2>4 DEF OneCall, r
  <1>8. CASE dc.u # c.d.u /\ ~fully_covered_by(dc, b, e) /\ covers(dc, b, e)
    <2>1. r = Split(m, c, dc)
      BY <1>3, <1>8
    <2>2. /\ Marked(m, r) /\ Len(r.decs.items) = Len(sq) + 1
          /\ \E h : /\ h.i = c.i + 1
                    /\ \/ \E q : OneAt(r, h, q) /\ NoneCovers(r.decs.items, h.d)
                       \/ \E f, p2, q : TwoAt(r, h, f, p2, q) /\ f.i = 1
      BY <1>8, <2>1, StepCut
    <2> HIDE DEF g
    <2>3. PICK h : /\ h.i = c.i + 1
                   /\ \/ \E q : OneAt(r, h, q) /\ NoneCovers(r.decs.items, h.d)
                      \/ \E f, p2, q : TwoAt(r, h, f, p2, q) /\ f.i = 1
      BY <2>2
    <2>4. n + 1 >= 2 * Len(sq) - c.i + 5
      BY <1>1, <1>8 DEF NoneCovers
    <2>5. CASE \E q : OneAt(r, h, q) /\ NoneCovers(r.decs.items, h.d)
      <3>1. n >= Len(r.decs.items) - h.i + 2
        BY <1>5, <2>3, <2>2, <2>4
      <3> QED BY <2>3, <2>2, <2>5, <3>1 DEF OneCall, r
    <2>6. CASE \E f, p2, q : TwoAt(r, h, f, p2, q) /\ f.i = 1
      <3>1. PICK f, p2, q : TwoAt(r, h, f, p2, q) /\ f.i = 1
        BY <2>6
      <3>2. n >= (Len(r.decs.items) - f.i + 2) + (Len(r.decs.items) - h.i + 2)
        BY <1>5, <2>3, <2>2, <2>4, <3>1
      <3> QED BY <2>3, <2>2, <3>1, <3>2 DEF TwoCalls, r
    <2> QED BY <2>3, <2>2, <2>5, <2>6
  <1>9. CASE dc.u # c.d.u /\ ~fully_covered_by(dc, b, e) /\ ~covers(dc, b, e) /\ is_in(dc, b, e)
    <2>1. r = shrink_out_of(on, c.i, b, e)
      BY <1>3, <1>9
    <2>2. /\ OneAt(r, g, p) /\ g.d = c.d /\ g.i = c.i + 1 /\ Marked(m, r)
          /\ Len(r.decs.items) = Len(sq)
          /\ NoneCovers(sq, c.d) => NoneCovers(r.decs.items, c.d)
      BY <1>4, <1>9, <2>1, StepShrink
    <2> HIDE DEF g
    <2>3. n >= Len(r.decs.items) - g.i + 2
      BY <1>5, <2>2
    <2>4. n >= 2 * Len(r.decs.items) - g.i + 5 \/ NoneCovers(r.decs.items, g.d)
      BY <1>5, <2>2
    <2> QED BY <2>2, <2>3, <2>4 DEF OneCall, r
  <1> QED BY <1>6, <1>7, <1>8, <1>9

(* A call ends: its decoder becomes active and takes its cells.            *)
LEMMA EndIs ==
  ASSUME NEW m, SpaceOK(m), InRow(m.decs.items), NEW q \in 1 .. Len(m.decs.items), NEW c,
         c = m.calls[Len(m.calls)], c.d = m.decs.items[q]
  PROVE  LET r == Decoded(m)
             sq == m.decs.items IN
         /\ SpaceOK(r) /\ InRow(r.decs.items) /\ Marked(m, r)
         /\ r.calls = SubSeq(m.calls, 1, Len(m.calls) - 1) /\ Len(r.decs.items) = Len(sq)
         /\ \A j \in 1 .. Len(sq) : j # q => r.decs.items[j] = sq[j]
  <1> DEFINE sq == m.decs.items
             x == c.d
             y == [x EXCEPT !.activated = TRUE]
             t == [sq EXCEPT ![q] = y]
             k == decode_cells(m, x)
             l == [m.decs EXCEPT !.items = t]
             rest == SubSeq(m.calls, 1, Len(m.calls) - 1)
             r == Decoded(m)
  <1>1. /\ DOMAIN m = SpaceFields /\ ListOK(m.decs) /\ Row(sq) /\ CellsMapped(sq, m.cell)
        /\ Len(sq) \in Nat /\ x = sq[q] /\ sq \in Seq(DecType)
    BY DEF SpaceOK, Row
  <1>2. x \in DecType
    BY <1>1
  <1>3. /\ y \in DecType /\ y.activated /\ y.key = x.key /\ y.e = x.e /\ y.chip = x.chip
        /\ y.cb = x.cb /\ y.u = x.u
    BY <1>2 DEF DecType
  <1>4. /\ DOMAIN k = SpaceFields /\ k.decs = m.decs /\ k.calls = m.calls /\ Marked(m, k)
        /\ \A a \in Space : k.cell[a] = IF a \in x.key .. x.e THEN PlaceOf(x, a) ELSE m.cell[a]
    BY <1>1, DecodeIs
  <1>5. IndexOf(m, x.u) = q
    BY <1>1, IndexIs
  <1>6. r = [k EXCEPT !.decs.items[q].activated = TRUE, !.calls = rest]
    BY <1>4, <1>5 DEF Decoded
  <1> HIDE DEF k, r, rest
  <1>7. r = [k EXCEPT !.decs = l, !.calls = rest]
    BY <1>1, <1>4, <1>6
  <1> HIDE DEF y
  <1>8. ListOK(l) /\ l.items = t
    BY <1>1 DEF ListOK
  <1>9. /\ t \in Seq(DecType) /\ Len(t) = Len(sq) /\ t[q] = y
        /\ \A j \in 1 .. Len(sq) : j # q => t[j] = sq[j]
    BY <1>1, <1>3
  <1> HIDE DEF l
  <1>10. /\ DOMAIN r = SpaceFields /\ r.decs = l /\ r.calls = rest /\ r.cell = k.cell
         /\ r.ops = k.ops /\ r.brks = k.brks /\ r.stale = k.stale
    BY <1>4, <1>7 DEF SpaceFields
  <1>11. Marked(m, r)
    BY <1>4, <1>10 DEF Marked
  <1>12. CellsMapped(t, k.cell)
    BY <1>1, <1>3, <1>4, ActivateMapped
  <1> HIDE DEF t
  <1>13. \A j \in 1 .. Len(sq) : t[j].u = sq[j].u /\ t[j].key = sq[j].key /\ t[j].e = sq[j].e
    BY <1>1, <1>3, <1>9
  <1>14. Row(t) /\ InRow(t)
    BY <1>1, <1>9, <1>13 DEF Row, NamesApart, InRow
  <1>15. SpaceOK(r)
    BY <1>8, <1>10, <1>12, <1>14 DEF SpaceOK
  <1> QED BY <1>8, <1>9, <1>10, <1>11, <1>14, <1>15 DEF r, rest

(* The calls that are left when the last one has ended.                    *)
LEMMA CallsLeft ==
  ASSUME NEW x, NEW y
  PROVE  SubSeq(<<x>>, 1, Len(<<x>>) - 1) = <<>> /\ SubSeq(<<x, y>>, 1, Len(<<x, y>>) - 1) = <<x>>
  <1>1. SubSeq(<<x>>, 1, Len(<<x>>) - 1) = <<>>
    OBVIOUS
  <1>2. SubSeq(<<x, y>>, 1, Len(<<x, y>>) - 1) = <<x>>
    <2> DEFINE one == <<x>>
               two == <<x, y>>
               new == SubSeq(two, 1, 1)
               S == {x}
    <2>1. one \in Seq(S) /\ Len(one) = 1 /\ one[1] = x /\ two[1] = x /\ Len(two) - 1 = 1 /\ x \in S
      OBVIOUS
    <2> HIDE DEF one, two, S
    <2>2. \A i \in 1 .. 1 : two[i] \in S
      BY <2>1
    <2>3. /\ new \in Seq(S) /\ Len(new) = IF 1 <= 1 THEN 1 - 1 + 1 ELSE 0
          /\ \A i \in 1 .. 1 - 1 + 1 : new[i] = two[1 + i - 1]
      BY <2>2, SubSeqProperties
    <2> HIDE DEF new
    <2>4. Len(new) = Len(one) /\ \A i \in 1 .. Len(new) : new[i] = one[i]
      BY <2>1, <2>3
    <2>5. new = one
      BY <2>1, <2>3, <2>4, SeqEqual
    <2> QED BY <2>1, <2>5 DEF new, one, two
  <1> QED BY <1>1, <1>2

(* The second of two calls goes on.                                        *)
LEMMA SecondOn ==
  ASSUME NEW x, NEW y, NEW z
  PROVE  [<<x, y>> EXCEPT ![2] = z] = <<x, z>>
  OBVIOUS

(* The turns that are left suffice for two calls, too.                     *)
LEMMA FuelTwo ==
  ASSUME NEW n \in Nat, NEW L \in Nat, NEW i \in 1 .. L + 1, NEW j \in 1 .. L + 1,
         n + 1 >= (L - i + 2) + (L - j + 2)
  PROVE  /\ n >= (L - (i + 1) + 2) + (L - j + 2)
         /\ ~(i <= L) => i = L + 1 /\ n >= L - j + 2
         /\ i <= L => i \in 1 .. L /\ i + 1 \in 1 .. L + 1
  OBVIOUS

(* The parts of a state with two calls.                                    *)
LEMMA TwoFacts ==
  ASSUME NEW m, NEW c, NEW f, NEW p, NEW q, TwoAt(m, c, f, p, q)
  PROVE  /\ DOMAIN m = SpaceFields /\ Row(m.decs.items) /\ Len(m.decs.items) \in Nat
         /\ c \in CallType /\ f \in CallType /\ c.i \in Nat /\ f.i \in Nat
         /\ m.calls = <<c, f>> /\ Len(m.calls) = 2 /\ m.calls[2] = f
         /\ m.calls[Len(m.calls)] = f
         /\ f.d \in DecType /\ f.d.key <= f.d.e
         /\ q \in 1 .. Len(m.decs.items) /\ m.decs.items[q] = f.d
         /\ f.i \in 1 .. Len(m.decs.items) + 1 /\ c.i \in 1 .. Len(m.decs.items) + 1
  <1>1. /\ DOMAIN m = SpaceFields /\ Row(m.decs.items) /\ m.calls = <<c, f>>
        /\ c \in CallType /\ f \in CallType
        /\ q \in 1 .. Len(m.decs.items) /\ m.decs.items[q] = f.d
        /\ f.i \in 1 .. Len(m.decs.items) + 1 /\ c.i \in 1 .. Len(m.decs.items) + 1
    BY DEF TwoAt, SpaceOK
  <1>2. Len(m.decs.items) \in Nat
    BY <1>1 DEF Row
  <1>3. c.i \in Nat /\ f.i \in Nat
    BY <1>1 DEF CallType
  <1>4. Len(m.calls) = 2 /\ m.calls[2] = f
    BY <1>1
  <1>5. f.d \in DecType /\ f.d.key <= f.d.e
    BY <1>1, RowFacts
  <1> QED BY <1>1, <1>2, <1>3, <1>4, <1>5

(* A turn with two calls under way: all lie in a row already.              *)
LEMMA TurnTwo ==
  ASSUME NEW m, NEW c, NEW f, NEW p, NEW q, TwoAt(m, c, f, p, q), f.i <= Len(m.decs.items),
         NEW n \in Nat, n + 1 >= (Len(m.decs.items) - f.i + 2) + (Len(m.decs.items) - c.i + 2)
  PROVE  Marked(m, undecode_area(m)) /\ TwoCalls(undecode_area(m), n)
  <1> DEFINE sq == m.decs.items
             dc == sq[f.i]
             on == [m EXCEPT !.calls[Len(m.calls)].i = f.i + 1]
             gone == [m EXCEPT !.decs = disconn_at(m.decs, f.i - 1)]
             h == [f EXCEPT !.i = f.i + 1]
             r == undecode_area(m)
  <1>1. /\ DOMAIN m = SpaceFields /\ Row(sq) /\ Len(sq) \in Nat
        /\ c \in CallType /\ f \in CallType /\ c.i \in Nat /\ f.i \in Nat
        /\ m.calls = <<c, f>> /\ Len(m.calls) = 2 /\ f = m.calls[Len(m.calls)]
        /\ f.d \in DecType /\ f.d.key <= f.d.e /\ q \in 1 .. Len(sq) /\ sq[q] = f.d
        /\ f.i \in 1 .. Len(sq) + 1 /\ c.i \in 1 .. Len(sq) + 1
    BY TwoFacts
  <1>2. /\ n >= (Len(sq) - (f.i + 1) + 2) + (Len(sq) - c.i + 2)
        /\ f.i \in 1 .. Len(sq) /\ f.i + 1 \in 1 .. Len(sq) + 1
    BY <1>1, FuelTwo
  <1>3. dc \in DecType /\ dc.key <= dc.e
    BY <1>1, <1>2, RowFacts
  <1>4. InRow(sq)
    BY DEF TwoAt
  <1>5. dc.u = f.d.u \/ Beside(dc, f.d)
    <2>1. f.i = q \/ f.i < q \/ q < f.i
      BY <1>1
    <2> QED BY <1>1, <1>4, <1>2, <2>1 DEF InRow, Beside
  <1>6. r = on
    <2>1. r = IF dc.u = f.d.u THEN on
              ELSE IF fully_covered_by(dc, f.d.key, f.d.e) THEN undecode_cells(gone, dc.key .. dc.e)
              ELSE IF covers(dc, f.d.key, f.d.e) THEN Split(m, f, dc)
              ELSE IF is_in(dc, f.d.key, f.d.e) THEN shrink_out_of(on, f.i, f.d.key, f.d.e)
              ELSE on
      <3>1. f = m.calls[Len(m.calls)]
        BY <1>1
      <3> QED BY <3>1, AreaIs
    <2>2. dc.u = f.d.u \/ (/\ ~fully_covered_by(dc, f.d.key, f.d.e) /\ ~covers(dc, f.d.key, f.d.e)
                           /\ ~is_in(dc, f.d.key, f.d.e))
      BY <1>1, <1>3, <1>5, Touch
    <2> HIDE DEF r
    <2> QED BY <2>1, <2>2
  <1>7. h \in CallType /\ h.d = f.d /\ h.i = f.i + 1
    <2>1. f \in CallType /\ f.i \in Nat
      BY <1>1
    <2> QED BY <2>1 DEF CallType
  <1>8. on = [m EXCEPT !.calls = <<c, h>>]
    <2>1. on = [m EXCEPT !.calls = [m.calls EXCEPT ![2] = [m.calls[2] EXCEPT !.i = f.i + 1]]]
      BY <1>1
    <2>2. m.calls[2] = f
      BY <1>1
    <2>3. [m.calls EXCEPT ![2] = h] = <<c, h>>
      <3> HIDE DEF h
      <3> QED BY <1>1, SecondOn
    <2> QED BY <2>1, <2>2, <2>3
  <1> HIDE DEF h, r, on
  <1>9. /\ DOMAIN r = SpaceFields /\ r.decs = m.decs /\ r.cell = m.cell /\ r.calls = <<c, h>>
        /\ r.ops = m.ops /\ r.brks = m.brks /\ r.stale = m.stale
    BY <1>1, <1>6, <1>8 DEF SpaceFields
  <1>10. Marked(m, r)
    BY <1>9 DEF Marked
  <1>11. SpaceOK(r)
    BY <1>9 DEF TwoAt, SpaceOK
  <1>12. h.i \in 1 .. Len(sq) + 1
    BY <1>7, <1>2
  <1>13. TwoAt(r, c, h, p, q)
    BY <1>7, <1>9, <1>11, <1>12 DEF TwoAt
  <1>14. n >= (Len(r.decs.items) - h.i + 2) + (Len(r.decs.items) - c.i + 2)
    BY <1>7, <1>9, <1>2
  <1> QED BY <1>10, <1>13, <1>14 DEF TwoCalls, r

(* The end of the only call.                                               *)
LEMMA EndOne ==
  ASSUME NEW m, NEW c, NEW p, OneAt(m, c, p), ~(c.i <= Len(m.decs.items))
  PROVE  Marked(m, Decoded(m)) /\ Calm(Decoded(m))
  <1> DEFINE sq == m.decs.items
             r == Decoded(m)
  <1>1. /\ Row(sq) /\ Len(sq) \in Nat /\ c.i \in 1 .. Len(sq) + 1 /\ m.calls = <<c>>
        /\ c = m.calls[Len(m.calls)] /\ p \in 1 .. Len(sq) /\ sq[p] = c.d
    BY OneFacts
  <1>2. NewAmong(sq, p, Len(sq) + 1, c.d) /\ SpaceOK(m)
    <2>1. c.i = Len(sq) + 1
      BY <1>1
    <2> QED BY <2>1 DEF OneAt
  <1>3. InRow(sq)
    BY <1>1, <1>2, AllBeside
  <1>4. /\ SpaceOK(r) /\ InRow(r.decs.items) /\ Marked(m, r)
        /\ r.calls = SubSeq(m.calls, 1, Len(m.calls) - 1)
    BY <1>1, <1>2, <1>3, EndIs
  <1>5. r.calls = <<>>
    BY <1>1, <1>4, CallsLeft
  <1> QED BY <1>4, <1>5 DEF Calm

(* The end of the inner call: the outer one goes on, and nothing has to be *)
(* split any more.                                                         *)
LEMMA EndTwo ==
  ASSUME NEW m, NEW c, NEW f, NEW p, NEW q, TwoAt(m, c, f, p, q), ~(f.i <= Len(m.decs.items)),
         NEW n \in Nat, n + 1 >= (Len(m.decs.items) - f.i + 2) + (Len(m.decs.items) - c.i + 2)
  PROVE  Marked(m, Decoded(m)) /\ OneCall(Decoded(m), n)
  <1> DEFINE sq == m.decs.items
             r == Decoded(m)
             t == r.decs.items
  <1>1. /\ Row(sq) /\ Len(sq) \in Nat /\ f.i \in Nat /\ c.i \in Nat /\ m.calls = <<c, f>>
        /\ f = m.calls[Len(m.calls)] /\ q \in 1 .. Len(sq) /\ sq[q] = f.d /\ c \in CallType
        /\ f.i \in 1 .. Len(sq) + 1 /\ c.i \in 1 .. Len(sq) + 1
    BY TwoFacts
  <1>2. SpaceOK(m) /\ InRow(sq) /\ p \in 1 .. Len(sq) /\ p # q /\ sq[p] = c.d /\ ~c.d.activated
    BY DEF TwoAt
  <1>3. /\ SpaceOK(r) /\ InRow(t) /\ Marked(m, r)
        /\ r.calls = SubSeq(m.calls, 1, Len(m.calls) - 1) /\ Len(t) = Len(sq)
        /\ \A j \in 1 .. Len(sq) : j # q => t[j] = sq[j]
    BY <1>1, <1>2, EndIs
  <1> HIDE DEF r
  <1>4. r.calls = <<c>>
    BY <1>1, <1>3, CallsLeft
  <1>5. Row(t) /\ p \in 1 .. Len(t) /\ t[p] = c.d
    BY <1>2, <1>3 DEF SpaceOK
  <1>6. NewAmong(t, p, c.i, c.d) /\ NoneCovers(t, c.d)
    BY <1>3, <1>5, RowBeside
  <1>7. OneAt(r, c, p)
    BY <1>1, <1>2, <1>3, <1>4, <1>6 DEF OneAt
  <1>8. n >= Len(sq) - c.i + 2
    BY <1>1, FuelTwo
  <1> QED BY <1>3, <1>6, <1>7, <1>8 DEF OneCall, r

(* Every turn keeps the invariant of the loop, with one turn less left.    *)
LEMMA TurnKeeps ==
  ASSUME NEW m, NEW n \in Nat, LoopInv(m, n + 1)
  PROVE  LoopInv(Turn(m), n) /\ Marked(m, Turn(m))
  <1>1. CASE Calm(m)
    <2>1. Turn(m) = m
      BY <1>1 DEF Calm, Turn
    <2>2. Marked(m, m)
      BY DEF Marked
    <2> QED BY <1>1, <2>1, <2>2 DEF LoopInv
  <1>2. CASE OneCall(m, n + 1)
    <2>1. PICK c, p : /\ OneAt(m, c, p) /\ n + 1 >= Len(m.decs.items) - c.i + 2
                      /\ \/ n + 1 >= 2 * Len(m.decs.items) - c.i + 5
                         \/ NoneCovers(m.decs.items, c.d)
      BY <1>2 DEF OneCall
    <2>2. m.calls = <<c>> /\ m.calls[Len(m.calls)] = c /\ c.i \in Nat /\ Len(m.decs.items) \in Nat
      BY <2>1, OneFacts
    <2>3. Turn(m) = IF c.i <= Len(m.decs.items) THEN undecode_area(m) ELSE Decoded(m)
      BY <2>2 DEF Turn, Count
    <2>4. CASE c.i <= Len(m.decs.items)
      BY <2>1, <2>3, <2>4, TurnOne DEF LoopInv
    <2>5. CASE ~(c.i <= Len(m.decs.items))
      BY <2>1, <2>3, <2>5, EndOne DEF LoopInv
    <2> QED BY <2>4, <2>5
  <1>3. CASE TwoCalls(m, n + 1)
    <2>1. PICK c, f, p, q :
            /\ TwoAt(m, c, f, p, q)
            /\ n + 1 >= (Len(m.decs.items) - f.i + 2) + (Len(m.decs.items) - c.i + 2)
      BY <1>3 DEF TwoCalls
    <2>2. m.calls = <<c, f>> /\ m.calls[Len(m.calls)] = f /\ f.i \in Nat /\ Len(m.decs.items) \in Nat
      BY <2>1, TwoFacts
    <2>3. Turn(m) = IF f.i <= Len(m.decs.items) THEN undecode_area(m) ELSE Decoded(m)
      BY <2>2 DEF Turn, Count
    <2>4. CASE f.i <= Len(m.decs.items)
      BY <2>1, <2>3, <2>4, TurnTwo DEF LoopInv
    <2>5. CASE ~(f.i <= Len(m.decs.items))
      BY <2>1, <2>3, <2>5, EndTwo DEF LoopInv
    <2> QED BY <2>4, <2>5
  <1> QED BY <1>1, <1>2, <1>3 DEF LoopInv

(* The turns of a loop, from its start.                                    *)
Turns(f, m, n) == f = [i \in 0 .. n |-> IF i = 0 THEN m ELSE Turn(f[i - 1])]

(* What the recursive definition of Connected defines exists.              *)
LEMMA TurnsExist ==
  ASSUME NEW m, NEW n \in Nat
  PROVE  \E f : Turns(f, m, n)
  <1> DEFINE Good == {k \in Nat : \E f : Turns(f, m, k)}
  <1>1. 0 \in Good
    <2> DEFINE f == [i \in 0 .. 0 |-> m]
    <2>1. f = [i \in 0 .. 0 |-> IF i = 0 THEN m ELSE Turn(f[i - 1])]
      OBVIOUS
    <2> HIDE DEF f
    <2> QED BY <2>1 DEF Turns
  <1>2. ASSUME NEW k \in Nat, k \in Good PROVE k + 1 \in Good
    <2>1. PICK f : Turns(f, m, k)
      BY <1>2
    <2> DEFINE h == [i \in 0 .. k + 1 |-> IF i = k + 1 THEN Turn(f[k]) ELSE f[i]]
    <2>2. ASSUME NEW i \in 0 .. k + 1
          PROVE  h[i] = IF i = 0 THEN m ELSE Turn(h[i - 1])
      <3>1. CASE i = k + 1
        <4>1. h[i] = Turn(f[k]) /\ h[i - 1] = f[k] /\ i # 0
          BY <3>1
        <4> HIDE DEF h
        <4> QED BY <4>1
      <3>2. CASE i # k + 1
        <4>1. i \in 0 .. k
          BY <3>2
        <4>2. h[i] = f[i] /\ (i # 0 => h[i - 1] = f[i - 1])
          BY <4>1
        <4>3. f[i] = IF i = 0 THEN m ELSE Turn(f[i - 1])
          BY <2>1, <4>1 DEF Turns
        <4> HIDE DEF h
        <4> QED BY <4>2, <4>3
      <3> QED BY <3>1, <3>2
    <2>3. h = [i \in 0 .. k + 1 |-> h[i]]
      OBVIOUS
    <2> HIDE DEF h
    <2>4. Turns(h, m, k + 1)
      BY <2>2, <2>3 DEF Turns
    <2> QED BY <2>4
  <1> HIDE DEF Good
  <1>3. n \in Good
    BY <1>1, <1>2, Induct
  <1> QED BY <1>3 DEF Good

(* A loop with turns enough comes to its end.                              *)
LEMMA TurnsEnd ==
  ASSUME NEW m, NEW n \in Nat, LoopInv(m, n), NEW f, Turns(f, m, n)
  PROVE  Calm(f[n]) /\ Marked(m, f[n])
  <1> DEFINE Good == {k \in Nat : k <= n => LoopInv(f[k], n - k) /\ Marked(m, f[k])}
  <1>1. 0 \in Good
    <2>1. f[0] = m /\ n - 0 = n
      BY DEF Turns
    <2>2. Marked(m, m)
      BY DEF Marked
    <2> QED BY <2>1, <2>2
  <1>2. ASSUME NEW k \in Nat, k \in Good PROVE k + 1 \in Good
    <2> SUFFICES ASSUME k + 1 <= n
                 PROVE  LoopInv(f[k + 1], n - (k + 1)) /\ Marked(m, f[k + 1])
      OBVIOUS
    <2>1. k <= n /\ n - (k + 1) \in Nat /\ n - k = (n - (k + 1)) + 1 /\ k + 1 \in 0 .. n
          /\ k + 1 # 0 /\ (k + 1) - 1 = k
      OBVIOUS
    <2>2. LoopInv(f[k], (n - (k + 1)) + 1) /\ Marked(m, f[k])
      BY <1>2, <2>1
    <2>3. f[k + 1] = Turn(f[k])
      BY <2>1 DEF Turns
    <2>4. LoopInv(Turn(f[k]), n - (k + 1)) /\ Marked(f[k], Turn(f[k]))
      <3> DEFINE x == n - (k + 1)
      <3>1. x \in Nat
        BY <2>1
      <3> HIDE DEF x
      <3> QED BY <2>2, <3>1, TurnKeeps DEF x
    <2> QED BY <2>2, <2>3, <2>4, MarkedTwice
  <1> HIDE DEF Good
  <1>3. n \in Good
    BY <1>1, <1>2, Induct
  <1>4. LoopInv(f[n], 0) /\ Marked(m, f[n])
    BY <1>3 DEF Good
  <1> DEFINE r == f[n]
  <1> HIDE DEF r
  <1>5. LoopInv(r, 0) /\ Marked(m, r)
    BY <1>4 DEF r
  <1>6. ~OneCall(r, 0)
    <2> SUFFICES ASSUME NEW c, NEW p, OneAt(r, c, p), 0 >= Len(r.decs.items) - c.i + 2
                 PROVE  FALSE
      BY DEF OneCall
    <2>1. Len(r.decs.items) \in Nat /\ c.i \in 1 .. Len(r.decs.items) + 1
      BY OneFacts
    <2> DEFINE l == Len(r.decs.items)
               y == c.i
    <2>2. l \in Nat /\ y \in 1 .. l + 1 /\ 0 >= l - y + 2
      BY <2>1
    <2> HIDE DEF l, y
    <2> QED BY <2>2
  <1>7. ~TwoCalls(r, 0)
    <2> SUFFICES ASSUME NEW c, NEW g, NEW p, NEW q, TwoAt(r, c, g, p, q),
                        0 >= (Len(r.decs.items) - g.i + 2) + (Len(r.decs.items) - c.i + 2)
                 PROVE  FALSE
      BY DEF TwoCalls
    <2>1. /\ Len(r.decs.items) \in Nat /\ c.i \in 1 .. Len(r.decs.items) + 1
          /\ g.i \in 1 .. Len(r.decs.items) + 1
      BY TwoFacts
    <2> DEFINE l == Len(r.decs.items)
               x == g.i
               y == c.i
    <2>2. l \in Nat /\ x \in 1 .. l + 1 /\ y \in 1 .. l + 1 /\ 0 >= (l - x + 2) + (l - y + 2)
      BY <2>1
    <2> HIDE DEF l, x, y
    <2> QED BY <2>2
  <1> QED BY <1>5, <1>6, <1>7 DEF LoopInv, r

(* A decoder is added and activated: the space is in order again, and the  *)
(* cells that have moved under an operator are marked.                     *)
LEMMA ConnectedKeeps ==
  ASSUME NEW m, Calm(m), NEW b \in Nat, NEW e \in Nat, b <= e, NEW chip \in DOMAIN ChipSize,
         NEW cb \in Nat,
         \/ m.decs.items = <<>>
         \/ cb < ChipSize[chip] /\ e < SpaceSize /\ e - b <= ChipSize[chip] - cb
  PROVE  Calm(Connected(m, b, e, chip, cb)) /\ Marked(m, Connected(m, b, e, chip, cb))
  <1> DEFINE x == Decoder(Unused(m), b, e, chip, cb)
             k == Added(m, x)
             t == k.decs.items
             start == activate(k, x.u)
             z == MaxTurns(start)
             sq == m.decs.items
             r == Connected(m, b, e, chip, cb)
  <1>1. SpaceOK(m) /\ InRow(sq) /\ m.calls = <<>> /\ Row(sq) /\ Len(sq) \in Nat
    BY DEF Calm, SpaceOK, Row
  <1>2. /\ x \in DecType /\ x.key = b /\ x.e = e /\ x.chip = chip /\ x.cb = cb /\ ~x.activated
        /\ \A j \in 1 .. Len(sq) : sq[j].u # x.u
    <2>1. Unused(m) \in Nat /\ \A j \in 1 .. Len(sq) : sq[j].u # Unused(m)
      BY <1>1, UnusedIs
    <2> QED BY <2>1 DEF Decoder, DecType
  <1>3. r = (LET run[n \in 0 .. z] == IF n = 0 THEN start ELSE Turn(run[n - 1]) IN run[z])
    BY DEF Connected, Added
  <1> HIDE DEF x, r
  <1>4. /\ SpaceOK(k) /\ k.calls = m.calls /\ Marked(m, k) /\ Len(t) = Len(sq) + 1
        /\ \E q : q \in 1 .. Len(t) /\ t[q] = x /\ NewAmong(t, q, 1, x)
        /\ (\A j \in 1 .. Len(sq) : Beside(sq[j], x)) => InRow(t)
    BY <1>1, <1>2, AddedIs
  <1> HIDE DEF k
  <1>5. PICK q : q \in 1 .. Len(t) /\ t[q] = x /\ NewAmong(t, q, 1, x)
    BY <1>4
  <1>6. \/ ~Accepted(x) /\ start = k
        \/ /\ DOMAIN start = SpaceFields /\ start.decs = k.decs /\ start.cell = k.cell
           /\ Marked(k, start) /\ start.calls = Append(k.calls, CallOf(x))
    <2>1. /\ SpaceOK(k) /\ q \in 1 .. Len(k.decs.items) /\ k.decs.items[q] = x
          /\ ~x.activated
      BY <1>2, <1>4, <1>5
    <2> QED BY <2>1, ActivateIs
  <1> HIDE DEF start
  <1>7. start.decs = k.decs
    BY <1>6
  <1>8. z = 2 * (Len(t) + 2) /\ z \in Nat
    <2>1. z = 2 * (Len(start.decs.items) + 2)
      BY DEF MaxTurns, Count
    <2>2. z = 2 * (Len(t) + 2)
      BY <1>7, <2>1
    <2>3. Len(t) \in Nat
      BY <1>1, <1>4
    <2> HIDE DEF z, t
    <2> QED BY <2>2, <2>3
  <1>9. LoopInv(start, z) /\ Marked(m, start)
    <2>1. CASE ~Accepted(x) /\ start = k
      <3>1. ~(cb < ChipSize[chip] /\ e < SpaceSize /\ e - b <= ChipSize[chip] - cb)
        BY <1>2, <2>1 DEF Accepted
      <3>2. Len(sq) = 0
        BY <3>1
      <3>3. InRow(t)
        BY <1>4, <3>2
      <3> QED BY <1>1, <1>4, <2>1, <3>3 DEF LoopInv, Calm
    <2>2. CASE /\ DOMAIN start = SpaceFields /\ start.decs = k.decs /\ start.cell = k.cell
               /\ Marked(k, start) /\ start.calls = Append(k.calls, CallOf(x))
      <3> DEFINE c == CallOf(x)
      <3>1. c \in CallType /\ c.d = x /\ c.i = 1
        BY <1>2 DEF CallOf, CallType
      <3> HIDE DEF c
      <3>2. start.calls = <<c>>
        BY <1>1, <1>4, <2>2 DEF c
      <3>3. SpaceOK(start) /\ start.decs.items = t
        BY <1>4, <2>2 DEF SpaceOK
      <3>4. 1 \in 1 .. Len(t) + 1
        BY <1>1, <1>4
      <3>5. OneAt(start, c, q)
        BY <1>2, <1>5, <3>1, <3>2, <3>3, <3>4 DEF OneAt
      <3>6. z >= Len(t) - 1 + 2 /\ z >= 2 * Len(t) - 1 + 5
        BY <1>1, <1>4, <1>8
      <3>7. OneCall(start, z)
        BY <3>1, <3>3, <3>5, <3>6 DEF OneCall
      <3> QED BY <1>4, <2>2, <3>7, MarkedTwice DEF LoopInv
    <2> QED BY <1>6, <2>1, <2>2
  <1> HIDE DEF z
  <1>10. \E f : Turns(f, start, z) /\ r = f[z]
    <2>1. \E f : Turns(f, start, z)
      BY <1>8, TurnsExist
    <2> QED BY <1>3, <2>1 DEF Turns
  <1>11. PICK f : Turns(f, start, z) /\ r = f[z]
    BY <1>10
  <1>12. Calm(r) /\ Marked(start, r)
    BY <1>8, <1>9, <1>11, TurnsEnd
  <1> QED BY <1>9, <1>12, MarkedTwice DEF r

-----------------------------------------------------------------------------
(* The operators of a cell: n of them are hardware, the others are those   *)
(* of the breakpoints bs, one for each.                                    *)
ChainOK(sq, bs, n) ==
  /\ \E T : sq \in Seq(T)
  /\ bs \subseteq Brks /\ IsFiniteSet(bs) /\ n \in Nat /\ Len(sq) = n + Cardinality(bs)
  /\ \A i \in 1 .. Len(sq) : \/ sq[i].kind = "hw" /\ sq[i].brk = 0
                             \/ sq[i].kind \in {"write", "read"} /\ sq[i].brk \in bs
  /\ \A b \in bs : \E i \in 1 .. Len(sq) : sq[i].brk = b
  /\ \A i, j \in 1 .. Len(sq) : sq[i].brk = sq[j].brk /\ sq[i].brk # 0 => i = j

(* They have the place of the cell.                                        *)
AllAt(sq, place) == \A i \in 1 .. Len(sq) : sq[i].place = place

(* What a chain is after an operator is appended.                          *)
LEMMA AppendIs ==
  ASSUME NEW T, NEW sq \in Seq(T), NEW x
  PROVE  LET t == Append(sq, x) IN
         /\ t \in Seq(T \cup {x}) /\ Len(sq) \in Nat /\ Len(t) = Len(sq) + 1
         /\ t[Len(sq) + 1] = x /\ \A i \in 1 .. Len(sq) : t[i] = sq[i]
  <1>1. sq \in Seq(T \cup {x}) /\ Len(sq) \in Nat
    OBVIOUS
  <1> QED BY <1>1, AppendProperties

(* A breakpoint that is set is appended.                                   *)
LEMMA ChainAppend ==
  ASSUME NEW sq, NEW bs, NEW n, ChainOK(sq, bs, n), NEW b \in Brks, b \notin bs, NEW op,
         op.kind \in {"write", "read"}, op.brk = b, NEW place, op.place = place
  PROVE  /\ ChainOK(Append(sq, op), bs \cup {b}, n)
         /\ AllAt(sq, place) => AllAt(Append(sq, op), place)
  <1> DEFINE t == Append(sq, op)
             l == Len(sq)
             cs == bs \cup {b}
  <1>1. PICK T : sq \in Seq(T)
    BY DEF ChainOK
  <1>2. /\ t \in Seq(T \cup {op}) /\ l \in Nat /\ Len(t) = l + 1 /\ t[l + 1] = op
        /\ \A i \in 1 .. l : t[i] = sq[i]
    BY <1>1, AppendIs
  <1> HIDE DEF t, l
  <1>3. b # 0
    BY MemoryAssumption
  <1>4. /\ bs \subseteq Brks /\ IsFiniteSet(bs) /\ n \in Nat /\ l = n + Cardinality(bs)
        /\ \A i \in 1 .. l : \/ sq[i].kind = "hw" /\ sq[i].brk = 0
                             \/ sq[i].kind \in {"write", "read"} /\ sq[i].brk \in bs
        /\ \A dc \in bs : \E i \in 1 .. l : sq[i].brk = dc
        /\ \A i, j \in 1 .. l : sq[i].brk = sq[j].brk /\ sq[i].brk # 0 => i = j
    BY DEF ChainOK, l
  <1>5. \A i \in 1 .. l + 1 : i \in 1 .. l \/ i = l + 1
    BY <1>2
  <1>6. \A i \in 1 .. l : i \in 1 .. l + 1
    BY <1>2
  <1>7. cs \subseteq Brks /\ IsFiniteSet(cs) /\ l + 1 = n + Cardinality(cs)
    <2>1. IsFiniteSet(cs) /\ Cardinality(cs) = Cardinality(bs) + 1
      BY <1>4, FS_AddElement
    <2>2. Cardinality(bs) \in Nat
      BY <1>4, FS_CardinalityType
    <2> QED BY <1>2, <1>4, <2>1, <2>2
  <1>8. \A i \in 1 .. l + 1 : \/ t[i].kind = "hw" /\ t[i].brk = 0
                              \/ t[i].kind \in {"write", "read"} /\ t[i].brk \in cs
    BY <1>2, <1>4, <1>5
  <1>9. l + 1 \in 1 .. l + 1
    BY <1>2
  <1>10. \A dc \in cs : \E i \in 1 .. l + 1 : t[i].brk = dc
    BY <1>2, <1>4, <1>6, <1>9
  <1>11. ASSUME NEW i \in 1 .. l + 1, NEW j \in 1 .. l + 1, t[i].brk = t[j].brk, t[i].brk # 0
         PROVE  i = j
    <2>1. \A k \in 1 .. l : sq[k].brk # b
      BY <1>3, <1>4
    <2>2. CASE i \in 1 .. l /\ j \in 1 .. l
      BY <1>2, <1>4, <1>11, <2>2
    <2>3. CASE i = l + 1 /\ j \in 1 .. l
      BY <1>2, <1>11, <2>1, <2>3
    <2>4. CASE j = l + 1 /\ i \in 1 .. l
      BY <1>2, <1>11, <2>1, <2>4
    <2> QED BY <1>5, <2>2, <2>3, <2>4
  <1>12. ChainOK(t, cs, n)
    BY <1>2, <1>4, <1>7, <1>8, <1>10, <1>11 DEF ChainOK
  <1>13. AllAt(sq, place) => AllAt(t, place)
    BY <1>2, <1>5 DEF AllAt, l
  <1> QED BY <1>12, <1>13 DEF t

(* The operator of a breakpoint is taken out of the chain.                 *)
LEMMA ChainRemove ==
  ASSUME NEW sq, NEW bs, NEW n, ChainOK(sq, bs, n), NEW b \in bs, NEW f \in 1 .. Len(sq),
         sq[f].brk = b, NEW t, \E T : t \in Seq(T), Removed(t, sq, f), NEW cs, cs = bs \ {b}
  PROVE  ChainOK(t, cs, n) /\ \A place : AllAt(sq, place) => AllAt(t, place)
  <1> DEFINE l == Len(sq)
             old(j) == IF j < f THEN j ELSE j + 1
  <1>1. /\ bs \subseteq Brks /\ IsFiniteSet(bs) /\ n \in Nat /\ l = n + Cardinality(bs)
        /\ \A i \in 1 .. l : \/ sq[i].kind = "hw" /\ sq[i].brk = 0
                             \/ sq[i].kind \in {"write", "read"} /\ sq[i].brk \in bs
        /\ \A dc \in bs : \E i \in 1 .. l : sq[i].brk = dc
        /\ \A i, j \in 1 .. l : sq[i].brk = sq[j].brk /\ sq[i].brk # 0 => i = j
    BY DEF ChainOK
  <1>2. Cardinality(bs) \in Nat /\ l \in Nat
    BY <1>1, FS_CardinalityType
  <1>3. b # 0
    BY <1>1, MemoryAssumption
  <1>4. Len(t) = l - 1 /\ \A j \in 1 .. l - 1 : t[j] = sq[old(j)]
    BY DEF Removed
  <1> HIDE DEF l
  <1>5. f \in 1 .. l
    BY DEF l
  <1>6. /\ \A j \in 1 .. l - 1 : old(j) \in 1 .. l /\ old(j) # f
        /\ \A i, j \in 1 .. l - 1 : old(i) = old(j) => i = j
    BY <1>2, <1>5
  <1>7. \A i \in 1 .. l : i # f => \E j \in 1 .. l - 1 : old(j) = i
    <2> SUFFICES ASSUME NEW i \in 1 .. l, i # f PROVE \E j \in 1 .. l - 1 : old(j) = i
      OBVIOUS
    <2> DEFINE j == IF i < f THEN i ELSE i - 1
    <2>1. j \in 1 .. l - 1 /\ old(j) = i
      BY <1>2, <1>5
    <2> QED BY <2>1
  <1> HIDE DEF old
  <1>8. cs \subseteq Brks /\ IsFiniteSet(cs) /\ l - 1 = n + Cardinality(cs)
    <2>1. IsFiniteSet(cs) /\ Cardinality(cs) = Cardinality(bs) - 1
      BY <1>1, FS_RemoveElement
    <2> QED BY <1>1, <1>2, <2>1
  <1>9. ASSUME NEW j \in 1 .. l - 1
        PROVE  \/ t[j].kind = "hw" /\ t[j].brk = 0
               \/ t[j].kind \in {"write", "read"} /\ t[j].brk \in cs
    <2>1. old(j) \in 1 .. l /\ old(j) # f /\ t[j] = sq[old(j)]
      BY <1>4, <1>6
    <2>2. sq[old(j)].brk # b
      BY <1>1, <1>3, <1>5, <2>1
    <2> QED BY <1>1, <2>1, <2>2
  <1>10. ASSUME NEW dc \in cs PROVE \E j \in 1 .. l - 1 : t[j].brk = dc
    <2>1. PICK i \in 1 .. l : sq[i].brk = dc
      BY <1>1
    <2>2. i # f
      BY <2>1
    <2>3. PICK j \in 1 .. l - 1 : old(j) = i
      BY <1>7, <2>2
    <2> QED BY <1>4, <2>1, <2>3
  <1>11. ASSUME NEW i \in 1 .. l - 1, NEW j \in 1 .. l - 1, t[i].brk = t[j].brk, t[i].brk # 0
         PROVE  i = j
    <2>1. sq[old(i)].brk = sq[old(j)].brk /\ sq[old(i)].brk # 0
      BY <1>4, <1>11
    <2>2. old(i) = old(j)
      BY <1>1, <1>6, <2>1
    <2> QED BY <1>6, <2>2
  <1>12. ChainOK(t, cs, n)
    BY <1>1, <1>4, <1>8, <1>9, <1>10, <1>11 DEF ChainOK
  <1>13. \A place : AllAt(sq, place) => AllAt(t, place)
    BY <1>4, <1>6 DEF AllAt, l
  <1> QED BY <1>12, <1>13

(* del_operator finds the one of the breakpoint.                           *)
LEMMA FirstIs ==
  ASSUME NEW sq, NEW bs, NEW n, ChainOK(sq, bs, n), NEW b \in bs
  PROVE  LET at == {i \in 1 .. Len(sq) : sq[i].brk = b}
             first == CHOOSE i \in at : \A j \in at : i <= j
         IN  at # {} /\ first \in 1 .. Len(sq) /\ sq[first].brk = b
  <1> DEFINE at == {i \in 1 .. Len(sq) : sq[i].brk = b}
             first == CHOOSE i \in at : \A j \in at : i <= j
  <1>1. b # 0
    BY MemoryAssumption DEF ChainOK
  <1>2. PICK f \in 1 .. Len(sq) : sq[f].brk = b
    BY DEF ChainOK
  <1>3. \A j \in at : j = f
    BY <1>1, <1>2 DEF ChainOK
  <1>4. f \in at /\ \A j \in at : f <= j
    <2>1. f \in Int
      BY <1>2 
    <2> QED BY <1>2, <1>3, <2>1
  <1>5. first \in at
    <2> HIDE DEF at
    <2> QED BY <1>4
  <1> QED BY <1>4, <1>5

(* The operators of the space: the first cell has hardware.                *)
Hw(a) == IF a = 0 THEN 1 ELSE 0

OpsOK(m) ==
  /\ DOMAIN m.ops = Space /\ DOMAIN m.brks = Space
  /\ \A a \in Space :
       /\ ChainOK(m.ops[a], m.brks[a], Hw(a))
       /\ a \notin m.stale => AllAt(m.ops[a], m.cell[a])

(* The inductive invariant of the space.                                   *)
SpaceInv(m) == Calm(m) /\ OpsOK(m)

(* An activation keeps the operators, stale where their cell has moved.    *)
LEMMA MarkedOps ==
  ASSUME NEW m, NEW r, OpsOK(m), Marked(m, r)
  PROVE  OpsOK(r)
  <1>1. r.ops = m.ops /\ r.brks = m.brks
    BY DEF Marked
  <1>2. ASSUME NEW a \in Space, a \notin r.stale
        PROVE  AllAt(r.ops[a], r.cell[a])
    <2>1. a \notin m.stale /\ AllAt(m.ops[a], m.cell[a])
      BY <1>2 DEF Marked, OpsOK
    <2>2. CASE m.ops[a] = <<>>
      BY <1>1, <2>2 DEF AllAt
    <2>3. CASE m.ops[a] # <<>>
      BY <1>1, <1>2, <2>1, <2>3 DEF Marked
    <2> QED BY <2>2, <2>3
  <1> QED BY <1>1, <1>2 DEF OpsOK

(* The addresses.                                                          *)
LEMMA Sizes ==
  /\ SpaceSize \in Nat /\ SpaceSize - 1 \in Nat /\ 0 \in Space /\ AuxrTop \in Nat
  /\ AuxrTop < SpaceSize /\ 1 \in DOMAIN ChipSize
  /\ \A a \in Space : a \in Nat
  /\ \A chip \in DOMAIN ChipSize : /\ ChipSize[chip] \in Nat /\ 0 < ChipSize[chip]
                                   /\ AuxrTop <= ChipSize[chip]
  <1>1. /\ SpaceSize \in Nat /\ SpaceSize - 1 \in Nat /\ AuxrTop \in Nat /\ AuxrTop < SpaceSize
        /\ AuxrTop \in 0 .. SpaceSize - 1
    BY MemoryAssumption
  <1>2. 0 \in Space /\ \A a \in Space : a \in Nat
    BY <1>1 DEF Space
  <1>3. /\ 1 \in DOMAIN ChipSize
        /\ \A chip \in DOMAIN ChipSize : ChipSize[chip] \in Nat \ {0}
    BY MemoryAssumption
  <1> QED BY <1>1, <1>2, <1>3, MemoryAssumption

(* A space without decoders.                                               *)
LEMMA BlankedIs ==
  /\ Calm(Blanked) /\ Blanked.decs.items = <<>>
  /\ Blanked.ops = [a \in Space |-> <<>>] /\ Blanked.brks = [a \in Space |-> {}]
  <1>1. /\ DOMAIN Blanked = SpaceFields /\ Blanked.decs = list_init(TRUE, TRUE)
        /\ Blanked.calls = <<>> /\ Blanked.cell = [a \in Space |-> Own]
        /\ Blanked.ops = [a \in Space |-> <<>>] /\ Blanked.brks = [a \in Space |-> {}]
    BY DEF Blanked, SpaceFields
  <1>2. ListOK(Blanked.decs) /\ Blanked.decs.items = <<>>
    BY <1>1 DEF ListOK, list_init
  <1>3. <<>> \in Seq(DecType) /\ Len(<<>>) = 0
    OBVIOUS
  <1>4. Row(<<>>) /\ InRow(<<>>)
    BY <1>3 DEF Row, InRow, NamesApart
  <1>5. CellsMapped(<<>>, Blanked.cell)
    BY <1>1, <1>3 DEF CellsMapped
  <1> QED BY <1>1, <1>2, <1>4, <1>5 DEF Calm, SpaceOK

(* The operators of one cell change.                                       *)
WithOps(m, a, sq, bs) == [m EXCEPT !.ops[a] = sq, !.brks[a] = bs]

(* What keeps the chain of the cell keeps the invariant.                   *)
LEMMA OneCell ==
  ASSUME NEW m, SpaceInv(m), NEW a \in Space, NEW sq, NEW bs,
         ChainOK(sq, bs, Hw(a)), a \notin m.stale => AllAt(sq, m.cell[a])
  PROVE  SpaceInv(WithOps(m, a, sq, bs))
  <1> DEFINE ops == [m.ops EXCEPT ![a] = sq]
             brks == [m.brks EXCEPT ![a] = bs]
             r == WithOps(m, a, sq, bs)
  <1>1. DOMAIN m = SpaceFields /\ DOMAIN m.ops = Space /\ DOMAIN m.brks = Space
    BY DEF SpaceInv, Calm, SpaceOK, OpsOK
  <1>2. r = [m EXCEPT !.ops = ops, !.brks = brks]
    BY DEF WithOps
  <1>3. /\ DOMAIN ops = Space /\ ops[a] = sq /\ \A c \in Space : c # a => ops[c] = m.ops[c]
        /\ DOMAIN brks = Space /\ brks[a] = bs /\ \A c \in Space : c # a => brks[c] = m.brks[c]
    BY <1>1
  <1> HIDE DEF ops, brks, r
  <1>4. /\ DOMAIN r = SpaceFields /\ r.decs = m.decs /\ r.cell = m.cell /\ r.calls = m.calls
        /\ r.ops = ops /\ r.brks = brks /\ r.stale = m.stale
    BY <1>1, <1>2 DEF SpaceFields
  <1>5. Calm(r)
    BY <1>4 DEF SpaceInv, Calm, SpaceOK
  <1>6. ASSUME NEW c \in Space
        PROVE  ChainOK(ops[c], brks[c], Hw(c)) /\ (c \notin m.stale => AllAt(ops[c], m.cell[c]))
    <2>1. CASE c = a
      BY <1>3, <2>1
    <2>2. CASE c # a
      BY <1>3, <2>2 DEF SpaceInv, OpsOK
    <2> QED BY <2>1, <2>2
  <1>7. OpsOK(r)
    BY <1>3, <1>4, <1>6 DEF OpsOK
  <1> QED BY <1>5, <1>7 DEF SpaceInv, r

(* A decoder that the commands or AUXR connect.                            *)
LEMMA ConnectedInv ==
  ASSUME NEW m, SpaceInv(m), NEW b \in Nat, NEW e \in Nat, b <= e, NEW chip \in DOMAIN ChipSize,
         NEW cb \in Nat, cb < ChipSize[chip], e < SpaceSize, e - b <= ChipSize[chip] - cb
  PROVE  SpaceInv(Connected(m, b, e, chip, cb))
  <1>1. Calm(m) /\ OpsOK(m)
    BY DEF SpaceInv
  <1>2. Calm(Connected(m, b, e, chip, cb)) /\ Marked(m, Connected(m, b, e, chip, cb))
    BY <1>1, ConnectedKeeps
  <1> QED BY <1>1, <1>2, MarkedOps DEF SpaceInv

(* The space as it is made, with hardware at its first cell.               *)
LEMMA SpaceStart ==
  ASSUME MemoryInit
  PROVE  SpaceInv(me)
  <1>1. PICK e \in {SpaceSize - 1, SpaceSize} : me = register_hw(Connected(Blanked, 0, e, 1, 0), 0)
    BY DEF MemoryInit
  <1> DEFINE m == Connected(Blanked, 0, e, 1, 0)
             op == Operator(m, 0, "hw", 0)
  <1>2. e \in Nat /\ 0 <= e /\ 0 \in Nat
    BY Sizes
  <1>3. Calm(m) /\ Marked(Blanked, m)
    BY <1>2, Sizes, BlankedIs, ConnectedKeeps
  <1> HIDE DEF m
  <1>4. m.ops = [a \in Space |-> <<>>] /\ m.brks = [a \in Space |-> {}] /\ DOMAIN m = SpaceFields
    BY <1>3, BlankedIs DEF Marked, Calm, SpaceOK
  <1>5. op.kind = "hw" /\ op.brk = 0 /\ op.place = m.cell[0]
    BY DEF Operator
  <1> HIDE DEF op
  <1> DEFINE ops == [a \in Space |-> IF a = 0 THEN <<op>> ELSE <<>>]
  <1>6. me = [m EXCEPT !.ops = ops]
    <2>1. Append(<<>>, op) = <<op>>
      OBVIOUS
    <2>2. [m.ops EXCEPT ![0] = Append(m.ops[0], op)] = ops
      BY <1>4, <2>1, Sizes
    <2>3. me = [m EXCEPT !.ops = [m.ops EXCEPT ![0] = Append(m.ops[0], op)]]
      BY <1>1 DEF register_hw, append_operator, m, op
    <2> QED BY <2>2, <2>3
  <1>7. /\ DOMAIN ops = Space /\ ops[0] = <<op>> /\ \A a \in Space : a # 0 => ops[a] = <<>>
    BY Sizes
  <1> HIDE DEF ops
  <1>8. /\ DOMAIN me = SpaceFields /\ me.decs = m.decs /\ me.cell = m.cell /\ me.calls = m.calls
        /\ me.ops = ops /\ me.brks = m.brks /\ me.stale = m.stale
    BY <1>4, <1>6 DEF SpaceFields
  <1>9. Calm(me)
    BY <1>3, <1>8 DEF Calm, SpaceOK
  <1>10. IsFiniteSet({}) /\ Cardinality({}) = 0
    BY FS_EmptySet
  <1>11. ChainOK(<<op>>, {}, 1) /\ AllAt(<<op>>, me.cell[0])
    <2>1. <<op>> \in Seq({op}) /\ Len(<<op>>) = 1 /\ <<op>>[1] = op /\ 1 .. 1 = {1}
      OBVIOUS
    <2> DEFINE one == <<op>>
    <2> HIDE DEF one
    <2>2. one \in Seq({op}) /\ Len(one) = 1 /\ one[1] = op /\ \A i \in 1 .. Len(one) : i = 1
      BY <2>1 DEF one
    <2>3. ChainOK(one, {}, 1)
      BY <1>5, <1>10, <2>2 DEF ChainOK
    <2>4. AllAt(one, me.cell[0])
      BY <1>5, <1>8, <2>2 DEF AllAt
    <2> QED BY <2>3, <2>4 DEF one
  <1>12. ChainOK(<<>>, {}, 0) /\ \A p : AllAt(<<>>, p)
    <2>1. <<>> \in Seq({}) /\ Len(<<>>) = 0 /\ 1 .. 0 = {}
      OBVIOUS
    <2> QED BY <1>10, <2>1 DEF ChainOK, AllAt
  <1>13. ASSUME NEW a \in Space
         PROVE  /\ ChainOK(me.ops[a], me.brks[a], Hw(a))
                /\ a \notin me.stale => AllAt(me.ops[a], me.cell[a])
    <2>1. me.brks[a] = {}
      BY <1>4, <1>8
    <2>2. CASE a = 0
      BY <1>7, <1>8, <1>11, <2>1, <2>2 DEF Hw
    <2>3. CASE a # 0
      BY <1>7, <1>8, <1>12, <2>1, <2>3 DEF Hw
    <2> QED BY <2>2, <2>3
  <1>14. DOMAIN me.ops = Space /\ DOMAIN me.brks = Space
    BY <1>4, <1>7, <1>8
  <1>15. OpsOK(me)
    BY <1>13, <1>14 DEF OpsOK
  <1> QED BY <1>9, <1>15 DEF SpaceInv

(* An event breakpoint is set.                                             *)
LEMMA SetKeeps ==
  ASSUME NEW m, SpaceInv(m), NEW a \in Space, NEW brk \in Brks, brk \notin m.brks[a],
         NEW kind \in {"write", "read"}
  PROVE  SpaceInv(set_brk(m, a, brk, kind))
  <1> DEFINE op == Operator(m, a, kind, brk)
             sq == Append(m.ops[a], op)
             bs == m.brks[a] \cup {brk}
  <1>1. op.kind = kind /\ op.brk = brk /\ op.place = m.cell[a]
    BY DEF Operator
  <1>2. /\ DOMAIN m = SpaceFields /\ ChainOK(m.ops[a], m.brks[a], Hw(a))
        /\ a \notin m.stale => AllAt(m.ops[a], m.cell[a])
    BY DEF SpaceInv, Calm, SpaceOK, OpsOK
  <1>3. set_brk(m, a, brk, kind) = WithOps(m, a, sq, bs)
    BY <1>2 DEF set_brk, append_operator, SpaceFields, WithOps
  <1> HIDE DEF op
  <1>4. ChainOK(sq, bs, Hw(a)) /\ (AllAt(m.ops[a], m.cell[a]) => AllAt(sq, m.cell[a]))
    BY <1>1, <1>2, ChainAppend
  <1> HIDE DEF sq, bs
  <1> QED BY <1>2, <1>3, <1>4, OneCell

(* One is deleted.                                                         *)
LEMMA DelKeeps ==
  ASSUME NEW m, SpaceInv(m), NEW a \in Space, NEW brk \in m.brks[a]
  PROVE  SpaceInv(del_brk(m, a, brk))
  <1> DEFINE sq == m.ops[a]
             at == {i \in 1 .. Len(sq) : sq[i].brk = brk}
             first == CHOOSE i \in at : \A j \in at : i <= j
             t == SubSeq(sq, 1, first - 1) \o SubSeq(sq, first + 1, Len(sq))
             bs == m.brks[a] \ {brk}
  <1>1. /\ DOMAIN m = SpaceFields /\ ChainOK(sq, m.brks[a], Hw(a))
        /\ a \notin m.stale => AllAt(sq, m.cell[a])
    BY DEF SpaceInv, Calm, SpaceOK, OpsOK
  <1>2. at # {} /\ first \in 1 .. Len(sq) /\ sq[first].brk = brk
    <2> HIDE DEF sq
    <2> QED BY <1>1, FirstIs
  <1>3. del_brk(m, a, brk) = WithOps(m, a, t, bs)
    BY <1>1, <1>2 DEF del_brk, del_operator, SpaceFields, WithOps
  <1> HIDE DEF sq, at, first
  <1>4. PICK T : sq \in Seq(T)
    BY <1>1 DEF ChainOK
  <1>5. t \in Seq(T) /\ Removed(t, sq, first)
    <2>1. t = Seqs!RemoveAt(sq, first)
      BY DEF Seqs!RemoveAt
    <2> HIDE DEF t
    <2> QED BY <1>2, <1>4, <2>1, RemoveIs
  <1> HIDE DEF t
  <1>6. ChainOK(t, bs, Hw(a)) /\ (AllAt(sq, m.cell[a]) => AllAt(t, m.cell[a]))
    <2> DEFINE all == m.brks[a]
    <2>1. ChainOK(sq, all, Hw(a)) /\ brk \in all /\ bs = all \ {brk}
      BY <1>1
    <2> HIDE DEF all, bs
    <2>2. (\E S : t \in Seq(S)) /\ Removed(t, sq, first)
      BY <1>5
    <2>3. ChainOK(t, bs, Hw(a)) /\ \A place : AllAt(sq, place) => AllAt(t, place)
      BY <1>2, <2>1, <2>2, ChainRemove
    <2> QED BY <2>3
  <1> HIDE DEF bs
  <1> QED BY <1>1, <1>3, <1>6, OneCell

(* Every step of the space keeps the invariant.                            *)
LEMMA SpaceStep ==
  ASSUME SpaceInv(me), MemoryNext
  PROVE  SpaceInv(me')
  <1>1. CASE createaddressdecoder
    <2>1. PICK b \in Space, e \in Space, chip \in DOMAIN ChipSize :
            \E cb \in 0 .. ChipSize[chip] - 1 :
              /\ b <= e /\ e < SpaceSize - 1 /\ e - b <= ChipSize[chip] - cb
              /\ me' = Connected(me, b, e, chip, cb)
      BY <1>1 DEF createaddressdecoder
    <2>2. PICK cb \in 0 .. ChipSize[chip] - 1 :
            /\ b <= e /\ e < SpaceSize - 1 /\ e - b <= ChipSize[chip] - cb
            /\ me' = Connected(me, b, e, chip, cb)
      BY <2>1
    <2>3. b \in Nat /\ e \in Nat /\ cb \in Nat /\ cb < ChipSize[chip] /\ e < SpaceSize
      BY <2>2, Sizes
    <2> QED BY <2>2, <2>3, ConnectedInv
  <1>2. CASE write_auxr
    <2>1. PICK chip \in DOMAIN ChipSize : me' = Connected(me, 0, AuxrTop, chip, 0)
      BY <1>2 DEF write_auxr
    <2>2. /\ 0 \in Nat /\ AuxrTop \in Nat /\ 0 <= AuxrTop /\ 0 < ChipSize[chip]
          /\ AuxrTop < SpaceSize /\ AuxrTop - 0 <= ChipSize[chip] - 0
      BY Sizes
    <2> QED BY <2>1, <2>2, ConnectedInv
  <1>3. CASE BrkSet
    BY <1>3, SetKeeps DEF BrkSet
  <1>4. CASE BrkDeleted
    BY <1>4, DelKeeps DEF BrkDeleted
  <1> QED BY <1>1, <1>2, <1>3, <1>4 DEF MemoryNext

(* The invariant has the property.                                         *)
LEMMA SpaceHolds ==
  ASSUME SpaceInv(me)
  PROVE  SpaceConsistent
  <1> DEFINE sq == me.decs.items
  <1>1. Row(sq) /\ InRow(sq) /\ CellsMapped(sq, me.cell) /\ me.calls = <<>>
    BY DEF SpaceInv, Calm, SpaceOK
  <1>2. Count(me.decs) = Len(sq)
    BY DEF Count
  <1>3. MemoryMapped
    <2>1. ASSUME NEW a \in Space
          PROVE  LET over == {dc \in DecoderSet : dc.activated /\ a \in dc.key .. dc.e}
                 IN  me.cell[a] = IF over = {} THEN Own
                                  ELSE LET dc == CHOOSE dc \in over : TRUE
                                       IN  get_slot(dc.chip, dc.cb + (a - dc.key))
      <3> DEFINE over == {dc \in DecoderSet : dc.activated /\ a \in dc.key .. dc.e}
                 dc == CHOOSE dc \in over : TRUE
      <3>1. \A x : x \in over <=> \E j \in 1 .. Len(sq) : x = sq[j] /\ Over(x, a)
        BY <1>2 DEF DecoderSet, Over
      <3> HIDE DEF over
      <3>2. CASE over = {}
        <4>1. \A j \in 1 .. Len(sq) : ~Over(sq[j], a)
          BY <3>1, <3>2
        <4>2. me.cell[a] = Own
          BY <1>1, <4>1 DEF CellsMapped
        <4> QED BY <3>2, <4>2 DEF over
      <3>3. CASE over # {}
        <4>1. dc \in over
          BY <3>3
        <4> HIDE DEF dc
        <4>2. PICK j \in 1 .. Len(sq) : dc = sq[j] /\ Over(dc, a)
          BY <3>1, <4>1
        <4>3. me.cell[a] = PlaceOf(dc, a)
          BY <1>1, <4>2 DEF CellsMapped
        <4> QED BY <3>3, <4>3 DEF over, dc, PlaceOf
      <3> QED BY <3>2, <3>3
    <2>2. \A i, j \in 1 .. Count(me.decs) : i < j => me.decs.items[i].e < me.decs.items[j].key
      BY <1>1, <1>2 DEF InRow
    <2> QED BY <2>1, <2>2 DEF MemoryMapped
  <1>4. OperatorsHold
    <2> SUFFICES ASSUME NEW a \in Space
                 PROVE  /\ Reported(me, a, "write") \cup Reported(me, a, "read") = me.brks[a]
                        /\ Len(me.ops[a]) = (IF a = 0 THEN 1 ELSE 0) + Cardinality(me.brks[a])
                        /\ a \notin me.stale =>
                             \A i \in DOMAIN me.ops[a] : me.ops[a][i].place = me.cell[a]
      BY DEF OperatorsHold
    <2> DEFINE ops == me.ops[a]
               bs == me.brks[a]
    <2>1. ChainOK(ops, bs, Hw(a)) /\ (a \notin me.stale => AllAt(ops, me.cell[a]))
      BY DEF SpaceInv, OpsOK
    <2>2. \A kind : Reported(me, a, kind) = {ops[i].brk : i \in {j \in DOMAIN ops : ops[j].kind = kind}}
      BY DEF Reported
    <2> HIDE DEF ops, bs
    <2>3. DOMAIN ops = 1 .. Len(ops)
      <3>1. PICK T : ops \in Seq(T)
        BY <2>1 DEF ChainOK
      <3> QED BY <3>1
    <2>4. /\ \A i \in 1 .. Len(ops) : \/ ops[i].kind = "hw" /\ ops[i].brk = 0
                                      \/ ops[i].kind \in {"write", "read"} /\ ops[i].brk \in bs
          /\ \A b \in bs : \E i \in 1 .. Len(ops) : ops[i].brk = b
          /\ bs \subseteq Brks /\ Len(ops) = Hw(a) + Cardinality(bs)
      BY <2>1 DEF ChainOK
    <2>5. 0 \notin bs
      BY <2>4, MemoryAssumption
    <2>6. Reported(me, a, "write") \cup Reported(me, a, "read") = bs
      <3>1. ASSUME NEW b \in bs PROVE b \in Reported(me, a, "write") \cup Reported(me, a, "read")
        <4>1. PICK i \in 1 .. Len(ops) : ops[i].brk = b
          BY <2>4
        <4>2. ops[i].kind \in {"write", "read"}
          BY <2>4, <2>5, <4>1
        <4> QED BY <2>2, <2>3, <4>1, <4>2
      <3>2. ASSUME NEW b \in Reported(me, a, "write") \cup Reported(me, a, "read") PROVE b \in bs
        <4>1. PICK i \in 1 .. Len(ops) : ops[i].brk = b /\ ops[i].kind \in {"write", "read"}
          BY <2>2, <2>3
        <4>2. ops[i].kind # "hw"
          BY <4>1
        <4> QED BY <2>4, <4>1, <4>2
      <3> QED BY <3>1, <3>2
    <2> QED BY <2>1, <2>3, <2>4, <2>6 DEF AllAt, Hw, ops, bs
  <1> QED BY <1>1, <1>3, <1>4 DEF SpaceConsistent

(* The space stays consistent when decoders are connected over each other, *)
(* AUXR is written and event breakpoints are set and deleted, in any order *)
(* and for spaces, chips and numbers of decoders and breakpoints of every  *)
(* size: the decoders are disjoint and in order, every cell is where the   *)
(* one active decoder over it says, the operators of a cell are its        *)
(* hardware and its breakpoints, and activate always comes to its end.     *)
THEOREM SpaceConsistentAlways == MemoryInit /\ [][MemoryNext]_me => []SpaceConsistent
  <1>1. MemoryInit => SpaceInv(me)
    BY SpaceStart
  <1>2. SpaceInv(me) /\ [MemoryNext]_me => SpaceInv(me)'
    <2>1. SpaceInv(me) /\ MemoryNext => SpaceInv(me')
      BY SpaceStep
    <2>2. SpaceInv(me) /\ UNCHANGED me => SpaceInv(me')
      OBVIOUS
    <2> QED BY <2>1, <2>2
  <1>3. SpaceInv(me) => SpaceConsistent
    BY SpaceHolds
  <1> QED BY <1>1, <1>2, <1>3, PTL
=============================================================================

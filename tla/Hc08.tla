-------------------------------- MODULE Hc08 -------------------------------
(***************************************************************************)
(* The instructions of the HC08 simulator (cl_hc08, hc08.src).  The        *)
(* processor is one record: bytes A, X and H, words SP and PC, the set P   *)
(* of flag bits, m with the cells written so far, vec for regs.VECTOR.     *)
(* The actions choose opcode and operand, so that the program is any       *)
(* sequence of instructions whose operands lie in memory.  resHALT stops   *)
(* nothing: no caller looks at it, so that such a code is a fetch only.    *)
(***************************************************************************)
EXTENDS Integers, Sequences, TLC, Bitwise

CONSTANTS
  HBytes,   \* the operand bytes tried
  HWords,   \* the operand words tried
  HBits,    \* the bit numbers tried
  Hc08Steps \* bound: instructions executed

ASSUME Hc08Assumption ==
  /\ HBytes \subseteq 0 .. 255 /\ HWords \subseteq 0 .. 65535
  /\ HBits \subseteq 0 .. 7 /\ Hc08Steps \in Nat

VARIABLES
  hc08,     \* the processor
  hc08op    \* history: the last instruction and the frame last pushed

hc08Vars == <<hc08, hc08op>>

HC == 0   \* carry
HZ == 1   \* zero
HN == 2   \* sign
HI == 3   \* interrupt mask
HH == 4   \* half carry
HV == 7   \* overflow

NoFrame == [kind |-> "none"]

\* A processor after reset (the vector is still to be taken), or later on.
Hc08Init ==
  /\ \E v \in {0, 1} :
       hc08 = [A |-> 144, X |-> 3, H |-> 1, SP |-> 250, P |-> {HC, 5, 6}, PC |-> 300,
               m |-> (6 :> 128) @@ (7 :> 1) @@ (259 :> 6) @@ (251 :> 255)
                      @@ (65533 :> 64) @@ (65534 :> 1), vec |-> v, n |-> 0]
  /\ hc08op = [name |-> "reset", frame |-> NoFrame]
-----------------------------------------------------------------------------
HPeek(s, a) == IF a \in DOMAIN s.m THEN s.m[a] ELSE 0
store1(s, a, v) == [s EXCEPT !.m = (a :> v) @@ @]
HGet2(s, a) == 256 * HPeek(s, a) + HPeek(s, a + 1)
HStore2(s, a, v) == store1(store1(s, a, v \div 256), a + 1, v % 256)
HPush2(s, v) == [HStore2(s, s.SP - 1, v) EXCEPT !.SP = @ - 2]
push1(s, v) == [store1(s, s.SP, v) EXCEPT !.SP = @ - 1]
HX(s) == 256 * s.H + s.X
SetHX(s, w) == [s EXCEPT !.H = (w \div 256) % 256, !.X = w % 256]
SChar(b) == IF b > 127 THEN b - 256 ELSE b
HBit(n, i) == (n \div 2^i) % 2

Assign(P, f, c) == IF c THEN P \cup {f} ELSE P \ {f}
FLAG_ASSIGN(s, f, c) == [s EXCEPT !.P = Assign(@, f, c)]
FLAG_NZ(s, v) ==
  [s EXCEPT !.P = Assign(Assign(@, HZ, v % 256 = 0), HN, HBit(v, 7) = 1)]
ClearV(s) == FLAG_ASSIGN(s, HV, FALSE)

\* The addressing modes of fetchea and of OPERAND: the bytes of the operand
\* and the address.  sp1 and sp2 are ix1 and ix2 after the prefix 9E.
Modes == [imm |-> 1, dir |-> 1, ext |-> 2, ix |-> 0, ix1 |-> 1, ix2 |-> 2,
          sp1 |-> 2, sp2 |-> 3]
fetchea(s, mode, v) ==
  CASE mode \in {"dir", "ext"} -> v
    [] mode = "ix" -> HX(s)
    [] mode \in {"ix1", "ix2"} -> HX(s) + v
    [] mode \in {"sp1", "sp2"} -> s.SP + v
Values(mode) == IF mode = "ix" THEN {0} ELSE IF mode \in {"ext", "ix2", "sp2"} THEN HWords ELSE HBytes
OPERAND(s, mode, v) == IF mode = "imm" THEN v ELSE HPeek(s, fetchea(s, mode, v))
InMemory(s, mode, v) == IF mode = "imm" THEN TRUE ELSE fetchea(s, mode, v) < 65536

\* C rem keeps the sign, so a branch below zero leaves PC there.
HFetched(s, n) == [s EXCEPT !.PC = IF @ + n < 0 THEN @ + n ELSE (@ + n) % 65536, !.n = @ + 1]

HStep(s, name) ==
  /\ hc08.n < Hc08Steps /\ hc08.vec = 0
  /\ hc08' = s
  /\ hc08op' = [hc08op EXCEPT !.name = name]

\* The first step after a reset only loads the vector.
reset_vector ==
  /\ hc08.vec = 1 /\ hc08.n < Hc08Steps
  /\ hc08' = [hc08 EXCEPT !.PC = HGet2(hc08, 65534), !.vec = 0, !.n = @ + 1]
  /\ hc08op' = [hc08op EXCEPT !.name = "vector"]
-----------------------------------------------------------------------------
(* Operations of A or X with an operand.                                   *)
Overflow(a, b, t) == (HBit(a, 7) + HBit(b, 7) + HBit(t, 7) + HBit(t, 8)) % 2 = 1
HalfCarry(a, b, t) == (HBit(a, 4) + HBit(b, 4) + HBit(t, 4)) % 2 = 1
Flags(s, a, b, t) ==
  FLAG_ASSIGN(FLAG_ASSIGN(FLAG_NZ(s, t), HV, Overflow(a, b, t)), HC, HBit(t, 8) = 1)
HCarry(s) == IF HC \in s.P THEN 1 ELSE 0

inst_add_(s, b, c) ==
  LET t == s.A + b + c
  IN [FLAG_ASSIGN(Flags(s, s.A, b, t), HH, HalfCarry(s.A, b, t)) EXCEPT !.A = t % 256]

inst_sub_(s, b, c) ==
  LET t == s.A - b - c IN [Flags(s, s.A, b, t) EXCEPT !.A = t % 256]
inst_cmp_(s, r, b) == Flags(s, r, b, r - b)
Logic(s, v) == ClearV(FLAG_NZ(s, v))

Accumulate(s, op, b) ==
  CASE op = "add" -> inst_add_(s, b, 0)   [] op = "adc" -> inst_add_(s, b, HCarry(s))
    [] op = "sub" -> inst_sub_(s, b, 0)   [] op = "sbc" -> inst_sub_(s, b, HCarry(s))
    [] op = "cmp" -> inst_cmp_(s, s.A, b) [] op = "cpx" -> inst_cmp_(s, s.X, b)
    [] op = "and" -> Logic([s EXCEPT !.A = @ & b], s.A & b)
    [] op = "ora" -> Logic([s EXCEPT !.A = @ | b], s.A | b)
    [] op = "eor" -> Logic([s EXCEPT !.A = @ ^^ b], s.A ^^ b)
    [] op = "bit" -> Logic(s, s.A & b)
    [] op = "lda" -> Logic([s EXCEPT !.A = b], b)
    [] op = "ldx" -> Logic([s EXCEPT !.X = b], b)

InstOperand(ops) ==
  \E op \in ops, mode \in DOMAIN Modes : \E v \in Values(mode) :
    /\ InMemory(hc08, mode, v)
    /\ HStep(Accumulate(HFetched(hc08, 1 + Modes[mode]), op, OPERAND(hc08, mode, v)), op)
hc_add == InstOperand({"add", "adc"})
hc_sub == InstOperand({"sub", "sbc"})
hc_cmp == InstOperand({"cmp", "cpx"})
hc_logic == InstOperand({"and", "ora", "eor", "bit"})
hc_load == InstOperand({"lda", "ldx"})
\* Code 96 has no case of its own and falls into LDA with no mode: it reads
\* the cell with the number of resHALT.
hc_code96 == HStep(Accumulate(HFetched(hc08, 1), "lda", HPeek(hc08, 101)), "lda")

hc_store ==
  \E mode \in DOMAIN Modes \ {"imm"}, r \in {"A", "X"} : \E v \in Values(mode) :
    /\ InMemory(hc08, mode, v)
    /\ HStep(store1(Logic(HFetched(hc08, 1 + Modes[mode]), hc08[r]),
                    fetchea(hc08, mode, v), hc08[r]), "st")
-----------------------------------------------------------------------------
(* Read, modify, write: on A, X, or a cell.                                *)
CarryFlags(s, v, c) ==
  LET t == FLAG_NZ(FLAG_ASSIGN(s, HC, c = 1), v)
  IN FLAG_ASSIGN(t, HV, (HC \in t.P) # (HN \in t.P))
Modified(s, op, b) ==
  LET v == CASE op = "asr" -> (b \div 2) + 128 * HBit(b, 7)
             [] op = "lsr" -> b \div 2
             [] op = "lsl" -> (2 * b) % 256
             [] op = "rol" -> ((2 * b) % 256) + HCarry(s)
             [] op = "ror" -> (b \div 2) + 128 * HCarry(s)
             [] op = "inc" -> (b + 1) % 256
             [] op \in {"dec", "dbnz"} -> (b - 1) % 256
             [] op = "com" -> 255 - b
             [] op = "neg" -> (256 - b) % 256
             [] op = "clr" -> 0
             [] op = "tst" -> b
  IN <<v, CASE op \in {"asr", "lsr", "ror"} -> CarryFlags(s, v, HBit(b, 0))
            [] op \in {"lsl", "rol"} -> CarryFlags(s, v, HBit(b, 7))
            [] op = "inc" -> FLAG_ASSIGN(FLAG_NZ(s, v), HV, v = 128)
            [] op \in {"dec", "dbnz"} -> FLAG_ASSIGN(FLAG_NZ(s, v), HV, v = 127)
            [] op = "com" -> Logic(FLAG_ASSIGN(s, HC, TRUE), v)
            [] op = "neg" -> FLAG_NZ(FLAG_ASSIGN(FLAG_ASSIGN(s, HV, b = 128), HC, b # 0), v)
            [] op \in {"clr", "tst"} -> Logic(s, v)>>

\* The operand: A, X, or a cell in one of the modes; the new processor.
Modify(s, op, mode, v) ==
  LET b == IF mode \in {"A", "X"} THEN s[mode] ELSE HPeek(s, fetchea(s, mode, v))
      q == Modified(s, op, b)
  IN CASE mode = "A" -> [q[2] EXCEPT !.A = q[1]]
       [] mode = "X" -> [q[2] EXCEPT !.X = q[1]]
       [] OTHER      -> IF op = "tst" THEN q[2] ELSE store1(q[2], fetchea(s, mode, v), q[1])
RmwModes == {"A", "X", "dir", "ix", "ix1", "sp1"}
RmwValues(mode) == IF mode \in {"A", "X", "ix"} THEN {0} ELSE HBytes
RmwBytes(mode) == IF mode \in {"A", "X"} THEN 1 ELSE 1 + Modes[mode]
InstModify(ops) ==
  \E op \in ops, mode \in RmwModes : \E v \in RmwValues(mode) :
    HStep(Modify(HFetched(hc08, RmwBytes(mode)), op, mode, v), op)
hc_shift == InstModify({"asr", "lsr", "lsl", "rol", "ror"})
hc_step == InstModify({"inc", "dec"})
hc_unary == InstModify({"com", "neg", "clr", "tst"})
hc_dbnz ==
  \E mode \in RmwModes, ofs \in HBytes : \E v \in RmwValues(mode) :
    LET s == Modify(HFetched(hc08, RmwBytes(mode) + 1), "dbnz", mode, v)
    IN HStep(IF HZ \in s.P THEN s ELSE [s EXCEPT !.PC = @ + SChar(ofs)], "dbnz")
-----------------------------------------------------------------------------
(* Transfers, flags and the stack.                                         *)
hc_transfer ==
  \/ HStep([HFetched(hc08, 1) EXCEPT !.P = {i \in 0 .. 7 : HBit(hc08.A, i) = 1} \cup {5, 6}], "tap")
  \/ HStep([HFetched(hc08, 1) EXCEPT
              !.A = LET w(i) == IF i \in hc08.P \cup {5, 6} THEN 2^i ELSE 0
                    IN w(0) + w(1) + w(2) + w(3) + w(4) + w(5) + w(6) + w(7)], "tpa")
  \/ HStep([HFetched(hc08, 1) EXCEPT !.X = hc08.A], "tax")
  \/ HStep([HFetched(hc08, 1) EXCEPT !.A = hc08.X], "txa")
  \/ HStep([HFetched(hc08, 1) EXCEPT !.SP = (HX(hc08) - 1) % 65536], "txs")
  \/ HStep(SetHX(HFetched(hc08, 1), hc08.SP + 1), "tsx")
hc_flags ==
  \E f \in {HC, HI}, c \in BOOLEAN : HStep(FLAG_ASSIGN(HFetched(hc08, 1), f, c), "flag")
hc_stop == HStep(FLAG_ASSIGN(HFetched(hc08, 1), HI, FALSE), "stop")   \* STOP and WAIT
hc_misc ==
  \/ HStep([HFetched(hc08, 1) EXCEPT !.SP = 255], "rsp")
  \/ HStep([HFetched(hc08, 1) EXCEPT !.A = 16 * (@ % 16) + (@ \div 16)], "nsa")
  \/ HStep([Logic(HFetched(hc08, 1), 0) EXCEPT !.H = 0], "clrh")
  \/ \E v \in HBytes : HStep([HFetched(hc08, 2) EXCEPT !.SP = (@ + SChar(v)) % 65536], "ais")
  \/ \E v \in HBytes : HStep(SetHX(HFetched(hc08, 2), HX(hc08) + SChar(v)), "aix")
  \/ HStep(HFetched(hc08, 1), "nop")            \* also the codes that return resHALT
hc_mul ==
  HStep([HFetched(hc08, 1) EXCEPT !.A = (hc08.A * hc08.X) % 256, !.X = (hc08.A * hc08.X) \div 256,
                                  !.P = @ \ {HC, HH}], "mul")
hc_div ==
  LET n == 256 * hc08.H + hc08.A
      s == HFetched(hc08, 1)
  IN HStep(IF hc08.X # 0 /\ n \div hc08.X <= 255
           THEN [s EXCEPT !.A = n \div hc08.X, !.H = n % hc08.X,
                          !.P = Assign(@ \ {HC}, HZ, n \div hc08.X = 0)]
           ELSE FLAG_ASSIGN(s, HC, TRUE), "div")
\* DAA computes the digits and keeps only the carry.
hc_daa ==
  LET h == HH \in hc08.P
      lsn == (hc08.A % 16) + (IF h THEN 16 ELSE 0)
      m0  == hc08.A \div 16
      msn == (IF h THEN (m0 - 1) % 16 ELSE m0) + (IF HC \in hc08.P THEN 16 ELSE 0) + (lsn \div 10)
  IN HStep(FLAG_ASSIGN(HFetched(hc08, 1), HC, msn > 9), "daa")

StackFits == hc08.SP \in 8 .. 65528     \* the stack stays in memory
hc_pushpull ==
  /\ StackFits
  /\ \E r \in {"A", "X", "H"} :
       \/ HStep(push1(HFetched(hc08, 1), hc08[r]), "psh")
       \/ HStep([HFetched(hc08, 1) EXCEPT ![r] = HPeek(hc08, hc08.SP + 1), !.SP = @ + 1], "pul")
-----------------------------------------------------------------------------
(* Moves, and the 16-bit register H:X.                                     *)
hc_mov ==
  \E a, b \in HBytes :
    LET mov(s, ea, v) == Logic(store1(s, ea, v), v)
    IN \/ HStep(mov(HFetched(hc08, 3), b, HPeek(hc08, a)), "mov")
       \/ HStep(SetHX(mov(HFetched(hc08, 2), HX(hc08), HPeek(hc08, a)), HX(hc08) + 1), "mov")
       \/ HStep(mov(HFetched(hc08, 3), b, a), "mov")
       \/ HStep(SetHX(mov(HFetched(hc08, 2), b, HPeek(hc08, HX(hc08))), HX(hc08) + 1), "mov")
WordFlags(s, w) ==
  ClearV(FLAG_ASSIGN(FLAG_ASSIGN(s, HN, w > 32767), HZ, w = 0))
hc_hx ==
  \/ \E a \in HBytes : HStep(WordFlags(HStore2(HFetched(hc08, 2), a, HX(hc08)), HX(hc08)), "sthx")
  \/ \E w \in HWords : HStep(WordFlags(SetHX(HFetched(hc08, 3), w), w), "ldhx")
  \/ \E a \in HBytes : LET w == HGet2(hc08, a)
                       IN HStep(WordFlags(SetHX(HFetched(hc08, 2), w), w), "ldhx")
CompareHX(s, w) ==
  LET t == HX(s) - w
  IN [s EXCEPT !.P = Assign(Assign(Assign(Assign(@,
        HV, (HBit(HX(s), 15) + HBit(w, 15) + HBit(t, 15) + HBit(t, 16)) % 2 = 1),
        HC, HBit(t, 16) = 1), HN, HBit(t, 15) = 1), HZ, t % 65536 = 0)]
hc_cphx ==
  \/ \E w \in HWords : HStep(CompareHX(HFetched(hc08, 3), w), "cphx")
  \/ \E a \in HBytes : HStep(CompareHX(HFetched(hc08, 2), HGet2(hc08, a)), "cphx")
-----------------------------------------------------------------------------
(* Branches.  PC takes the offset without a wrap.                          *)
Branch(s, taken, ofs) == IF taken THEN [s EXCEPT !.PC = @ + SChar(ofs)] ELSE s
\* The even code of every pair; the odd one is its negation.  BHI and BLT are
\* as the code has them: BHI is taken with a carry, BLT when not less.
Cases(s) == [BRA |-> TRUE, BHI |-> HC \in s.P \/ HZ \notin s.P, BCC |-> HC \notin s.P,
             BNE |-> HZ \notin s.P, BHCC |-> HH \notin s.P, BPL |-> HN \notin s.P,
             BMC |-> HI \notin s.P, BGE |-> (HN \in s.P) = (HV \in s.P),
             BLT |-> (HN \in s.P) = (HV \in s.P) \/ HZ \in s.P]
hc_condbranch ==
  \/ \E c \in DOMAIN Cases(hc08), neg \in BOOLEAN, ofs \in HBytes :
       HStep(Branch(HFetched(hc08, 2), Cases(hc08)[c] # neg, ofs), "bra")
  \/ HStep(HFetched(hc08, 1), "bil")           \* BIL and BIH fall into the default
hc_bitsetclear ==
  \E b \in HBits, a \in HBytes, set \in BOOLEAN :
    LET v == HPeek(hc08, a)
    IN HStep(store1(HFetched(hc08, 2), a,
               IF set = (HBit(v, b) = 1) THEN v ELSE IF set THEN v + 2^b ELSE v - 2^b), "bset")
\* BRSET is taken when the bit is clear and BRCLR when it is set.
hc_bittest ==
  \E b \in HBits, a, ofs \in HBytes, clr \in BOOLEAN :
    LET on == HBit(HPeek(hc08, a), b) = 1
    IN HStep(FLAG_ASSIGN(Branch(HFetched(hc08, 3), on = clr, ofs), HC, on), "brset")
hc_cbeq ==
  \E ofs \in HBytes :
    \/ \E r \in {"A", "X"}, v \in HBytes :
         HStep(Branch(HFetched(hc08, 3), hc08[r] = v, ofs), "cbeq")
    \/ \E mode \in {"dir", "ix", "ix1", "sp1"} : \E v \in RmwValues(mode) :
         LET s == Branch(HFetched(hc08, 2 + Modes[mode]),
                         HPeek(hc08, fetchea(hc08, mode, v)) = hc08.A, ofs)
         IN HStep(IF mode = "ix" THEN SetHX(s, HX(s) + 1) ELSE s, "cbeq")
hc_jmp ==
  \E mode \in {"dir", "ext", "ix", "ix1", "ix2"} : \E v \in Values(mode) :
    /\ InMemory(hc08, mode, v)
    /\ HStep([HFetched(hc08, 1 + Modes[mode]) EXCEPT !.PC = fetchea(hc08, mode, v)], "jmp")
-----------------------------------------------------------------------------
(* Calls and returns.  The frame remembers what a return must bring back   *)
(* and the cells that hold it.                                             *)
Frame(kind, s, cells) ==
  [kind |-> kind, sp |-> s.SP, cells |-> [i \in 1 .. cells |-> HPeek(s, s.SP + i)]]
Pushed(kind, s, cells, back) ==
  /\ hc08.n < Hc08Steps /\ hc08.vec = 0 /\ StackFits
  /\ hc08' = s
  /\ hc08op' = [name |-> kind,
                frame |-> Frame(kind, s, cells) @@ ("back" :> back)]
hc_jsr ==
  \/ \E mode \in {"dir", "ext", "ix", "ix1", "ix2"} : \E v \in Values(mode) :
       LET s == HFetched(hc08, 1 + Modes[mode])
       IN /\ InMemory(hc08, mode, v)
          /\ Pushed("jsr", [HPush2(s, s.PC) EXCEPT !.PC = fetchea(hc08, mode, v)], 2, <<s.PC>>)
  \/ \E ofs \in HBytes :
       LET s == HFetched(hc08, 2)
       IN Pushed("jsr", [HPush2(s, s.PC) EXCEPT !.PC = @ + SChar(ofs)], 2, <<s.PC>>)
PByte(P) == LET w(i) == IF i \in P THEN 2^i ELSE 0
            IN w(0) + w(1) + w(2) + w(3) + w(4) + w(5) + w(6) + w(7)
\* SWI clears the interrupt mask.
hc_swi ==
  LET s == HFetched(hc08, 1)
      t == push1(push1(push1(HPush2(s, s.PC), s.X), s.A), PByte(s.P))
  IN Pushed("swi", [t EXCEPT !.P = @ \ {HI}, !.PC = HGet2(t, 65532)], 5, <<s.PC, s.X, s.A, s.P>>)
\* Seeded fault: the registers come back in the order they were pushed.
Fault_rti(s) ==
  [s EXCEPT !.P = {i \in 0 .. 7 : HBit(HPeek(s, s.SP + 1), i) = 1} \cup {5, 6},
            !.X = HPeek(s, s.SP + 2), !.A = HPeek(s, s.SP + 3),
            !.PC = HGet2(s, s.SP + 4), !.SP = @ + 5]

inst_rti(s) ==
  [s EXCEPT !.P = {i \in 0 .. 7 : HBit(HPeek(s, s.SP + 1), i) = 1} \cup {5, 6},
            !.A = HPeek(s, s.SP + 2), !.X = HPeek(s, s.SP + 3),
            !.PC = HGet2(s, s.SP + 4), !.SP = @ + 5]
hc_rti == StackFits /\ HStep(inst_rti(HFetched(hc08, 1)), "rti")
hc_rts ==
  /\ StackFits
  /\ HStep([HFetched(hc08, 1) EXCEPT !.PC = HGet2(hc08, hc08.SP + 1), !.SP = @ + 2], "rts")

\* exec_inst
Hc08Next ==
  \/ reset_vector \/ hc_add \/ hc_sub \/ hc_cmp \/ hc_logic \/ hc_load \/ hc_code96
  \/ hc_store \/ hc_shift \/ hc_step \/ hc_unary \/ hc_dbnz \/ hc_transfer \/ hc_flags
  \/ hc_stop \/ hc_misc \/ hc_mul \/ hc_div \/ hc_daa \/ hc_pushpull \/ hc_mov \/ hc_hx
  \/ hc_cphx \/ hc_condbranch \/ hc_bitsetclear \/ hc_bittest \/ hc_cbeq \/ hc_jmp
  \/ hc_jsr \/ hc_swi \/ hc_rti \/ hc_rts
Hc08Spec == Hc08Init /\ [][Hc08Next]_hc08Vars
-----------------------------------------------------------------------------
(* A difference of words done with SUB and SBC has the carry, sign and     *)
(* overflow that CPHX computes at once, in every state a program reaches;  *)
(* they order the words unsigned (C) and signed (N and V).  Registers keep *)
(* their widths and bits 5 and 6 of P stay set.                            *)
Hc08Compares ==
  hc08op.name # "reset" =>
  /\ {hc08.A, hc08.X, hc08.H} \subseteq 0 .. 255 /\ hc08.SP \in 0 .. 65535
  /\ {5, 6} \subseteq hc08.P /\ hc08.P \subseteq 0 .. 7
  /\ \A x, y \in HWords :
       LET lo == inst_sub_([hc08 EXCEPT !.A = x % 256], y % 256, 0)
           hi == inst_sub_([lo EXCEPT !.A = x \div 256], y \div 256, HCarry(lo))
           at == CompareHX(SetHX(hc08, x), y)
           sgn(w) == IF w > 32767 THEN w - 65536 ELSE w
       IN /\ hi.P \cap {HC, HN, HV} = at.P \cap {HC, HN, HV}
          /\ 256 * hi.A + lo.A = (x - y) % 65536
          /\ (HC \in at.P) = (x < y) /\ ((HN \in at.P) # (HV \in at.P)) = (sgn(x) < sgn(y))

(* RTI and RTS that find the stack pointer and the frame where SWI or JSR  *)
(* left them resume after it, and RTI brings back A, X and all of P.       *)
Hc08Frames ==
  [][/\ hc08op'.name \in {"rti", "rts"} /\ hc08op.frame.kind # "none"
     /\ hc08op.frame.sp = hc08.SP
     /\ \A i \in DOMAIN hc08op.frame.cells : HPeek(hc08, hc08.SP + i) = hc08op.frame.cells[i]
     => LET b == hc08op.frame.back
        IN /\ hc08op'.name = "rts" /\ hc08op.frame.kind = "jsr" => hc08'.PC = b[1]
           /\ hc08op'.name = "rti" /\ hc08op.frame.kind = "swi" =>
                /\ hc08'.PC = b[1] /\ hc08'.X = b[2] /\ hc08'.A = b[3] /\ hc08'.P = b[4]
                /\ hc08'.SP = hc08.SP + 5]_hc08Vars

(* Comparisons by bytes and by words agree and the frames of SWI and JSR   *)
(* come back whole, in any order of instructions: the two properties above.*)
Hc08Exact == []Hc08Compares /\ Hc08Frames
=============================================================================

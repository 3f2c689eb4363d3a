-------------------------------- MODULE Z80 --------------------------------
(***************************************************************************)
(* The instructions of the Z80 simulator (cl_z80, z80.src).  The processor *)
(* is one record: r maps the byte registers to bytes, F and aF are sets of *)
(* bit numbers, SP, PC and the word registers of the second bank are       *)
(* words, m maps the cells written so far to bytes.  Instructions are      *)
(* operators from a processor to a processor; the actions choose the       *)
(* operands, so that the program is any sequence of instructions.          *)
(* fetch2 reads the low byte first.  RST 8 and HALT end or print.          *)
(***************************************************************************)
EXTENDS Integers, Sequences, TLC, Bitwise

CONSTANTS
  Data,      \* the immediate bytes tried
  Cells,     \* the immediate words tried
  Regs,      \* the octal codes, plus one, of the byte operands tried
  BitNos,    \* the bit numbers tried
  Z80Steps,  \* bound: instructions executed after reset
  MaxBlock   \* bound: bytes of a block instruction

ASSUME Z80Assumption ==
  /\ Data \subseteq 0 .. 255 /\ Cells \subseteq 0 .. 65534 /\ Z80Steps \in Nat
  /\ MaxBlock \in Nat \ {0} /\ Regs \subseteq 1 .. 8 /\ BitNos \subseteq 0 .. 7

VARIABLES
  z80,       \* the processor
  z80op      \* history: the last instruction, its operand, the call it answers

z80Vars == <<z80, z80op>>

CF == 0
NF == 1
PF == 2
AF == 4
ZF == 6
SF == 7
BIT_ALL == {CF, NF, PF, AF, ZF, SF}

R8  == <<"B", "C", "D", "E", "H", "L", "(HL)", "A">>
HalfOf == [BC |-> <<"B", "C">>, DE |-> <<"D", "E">>, HL |-> <<"H", "L">>,
           IX |-> <<"HX", "LX">>, IY |-> <<"HY", "LY">>]
Index == {"IX", "IY"}

\* The start: registers and cells that tell the operands apart.
Z80Init ==
  \E sp \in {0, 32770} :
  /\ z80 = [r  |-> [A |-> 144, B |-> 0, C |-> 2, D |-> 128, E |-> 5, H |-> 127,
                    L |-> 255, HX |-> 128, LX |-> 2, HY |-> 127, LY |-> 250,
                    aA |-> 7, iv |-> 9],
            F |-> {CF}, aF |-> {ZF}, aBC |-> 513, aDE |-> 33, SP |-> sp, PC |-> 300,
            m |-> (32767 :> 129) @@ (32768 :> 16) @@ (32773 :> 255), n |-> 0]
  /\ z80op = [name |-> "reset", at |-> 0, ret |-> <<0, 0, 0>>]
-----------------------------------------------------------------------------
Peek(s, a) == IF a \in DOMAIN s.m THEN s.m[a] ELSE 0
Poke(s, a, v) == [s EXCEPT !.m = (a :> v) @@ @]
get2(s, a) == Peek(s, a) + 256 * Peek(s, a + 1)
store2(s, a, v) == Poke(Poke(s, a, v % 256), a + 1, v \div 256)

Pair(s, p) == IF p = "SP" THEN s.SP
              ELSE 256 * s.r[HalfOf[p][1]] + s.r[HalfOf[p][2]]
SetPair(s, p, v) ==
  IF p = "SP" THEN [s EXCEPT !.SP = v % 65536]
  ELSE [s EXCEPT !.r[HalfOf[p][1]] = (v \div 256) % 256, !.r[HalfOf[p][2]] = v % 256]

ZSigned(d) == IF d > 127 THEN d - 256 ELSE d

\* The address of (HL), or of (IX+d) and (IY+d).
Disp(s, p, d) == IF p = "HL" THEN Pair(s, p) ELSE (Pair(s, p) + ZSigned(d)) % 65536

\* Octal code o as an operand: with a prefix, (HL) is (IX+d) and H and L are
\* the halves of IX where `half' says so.
Named(o, p, half) ==
  IF half /\ p # "HL" /\ o \in {"H", "L"} THEN HalfOf[p][IF o = "H" THEN 1 ELSE 2] ELSE o
Get8(s, o, p, d) == IF o = "(HL)" THEN Peek(s, Disp(s, p, d)) ELSE s.r[o]
Set8(s, o, p, d, v) ==
  IF o = "(HL)" THEN Poke(s, Disp(s, p, d), v) ELSE [s EXCEPT !.r[o] = v]

\* C rem keeps the sign: a jump below zero leaves PC there.
inc_address(a, n) == IF a + n < 0 THEN a + n ELSE (a + n) % 65536
Fetched(s, n) == [s EXCEPT !.PC = inc_address(@, n), !.n = @ + 1]
-----------------------------------------------------------------------------
ZS(v)  == (IF v = 0 THEN {ZF} ELSE {}) \cup (IF v > 127 THEN {SF} ELSE {})
ZSw(v) == (IF v = 0 THEN {ZF} ELSE {}) \cup (IF v > 32767 THEN {SF} ELSE {})
Carry(s) == IF CF \in s.F THEN 1 ELSE 0
SetF(s, fl) == [s EXCEPT !.F = (@ \ BIT_ALL) \cup fl]

\* The sum or difference t as A and flags; what is out of range carries.
ToA(s, t, fl) ==
  SetF([s EXCEPT !.r.A = t % 256],
       ZS(t % 256) \cup fl \cup (IF t \in 0 .. 255 THEN {} ELSE {CF, PF}))

add_A_bytereg(s, b) == ToA(s, s.r.A + b, {})
adc_A_bytereg(s, b) == ToA(s, s.r.A + b + Carry(s), {})
sub_A_bytereg(s, b) == ToA(s, s.r.A - b, {NF})

sbc_A_bytereg(s, b) == ToA(s, s.r.A - b - Carry(s), {NF})

logic_A(s, v) == SetF([s EXCEPT !.r.A = v], ZS(v))
and_A_bytereg(s, b) == logic_A(s, s.r.A & b)
xor_A_bytereg(s, b) == logic_A(s, s.r.A ^^ b)
or_A_bytereg(s, b)  == logic_A(s, s.r.A | b)

cp_bytereg(s, b) ==
  SetF(s, ZS((s.r.A - b) % 256) \cup {NF} \cup (IF s.r.A < b THEN {CF} ELSE {}))

ToHL(s, t, fl) ==
  SetF(SetPair(s, "HL", t % 65536),
       ZSw(t % 65536) \cup fl \cup (IF t \in 0 .. 65535 THEN {} ELSE {CF, PF}))
adc_HL_wordreg(s, w) == ToHL(s, Pair(s, "HL") + w + Carry(s), {})
sbc_HL_wordreg(s, w) == ToHL(s, Pair(s, "HL") - w - Carry(s), {NF})

\* ADD HL clears all flags, ADD IX and ADD IY only A, N and C.
add_Word(s, p, w) ==
  LET t == Pair(s, p) + w
      out == IF t > 65535 THEN {CF} ELSE {}
      cleared == IF p = "HL" THEN BIT_ALL ELSE {AF, NF, CF}
  IN [SetPair(s, p, t % 65536) EXCEPT !.F = (@ \ cleared) \cup out]

IncFlags(s, v, fl) ==
  [s EXCEPT !.F = (@ \ {NF, PF, AF, ZF, SF}) \cup ZS(v) \cup fl
                    \cup (IF v % 16 = 0 THEN {AF} ELSE {})]

Twice(b) == (2 * b) % 256

\* A rotation or shift: the new byte and the bit that goes to carry.
Rot(s, op, b) ==
  LET top == b \div 128
      low == b % 2
  IN CASE op = "rlc" -> <<Twice(b) + top, top>>
       [] op = "rrc" -> <<b \div 2 + 128 * low, low>>
       [] op = "rl"  -> <<Twice(b) + Carry(s), top>>
       [] op = "rr"  -> <<b \div 2 + 128 * Carry(s), low>>
       [] op = "sla" -> <<Twice(b), top>>
       [] op = "sra" -> <<b \div 2 + 128 * top, low>>
       [] op = "slia" -> <<Twice(b) + 1, top>>
       [] op = "srl" -> <<b \div 2, low>>
RotFlags(s, q) == SetF(s, ZS(q[1]) \cup (IF q[2] = 1 THEN {CF} ELSE {}))

bit_byte(s, b, i) ==
  SetF(s, {AF} \cup (IF (b \div 2^i) % 2 = 0 THEN {ZF} ELSE {}))
SetBit(b, i) == IF (b \div 2^i) % 2 = 1 THEN b ELSE b + 2^i
ResBit(b, i) == IF (b \div 2^i) % 2 = 1 THEN b - 2^i ELSE b
-----------------------------------------------------------------------------
(* Every step executes one instruction; `at' is where its opcode was.      *)
Step(s, name) ==
  /\ z80.n < Z80Steps
  /\ z80' = s
  /\ z80op' = [z80op EXCEPT !.name = name, !.at = z80.PC]

inst_nop == Step(Fetched(z80, 1), "nop")   \* also DI, EI, IN and OUT

\* LD r,r'; HALT has the code of LD (HL),(HL).
inst_ld_rr ==
  \E i, j \in Regs :
    /\ <<i, j>> # <<7, 7>>
    /\ Step(Set8(Fetched(z80, 1), R8[i], "HL", 0, Get8(z80, R8[j], "HL", 0)), "ld")

\* LD r,n and LD rr,nn.
inst_ld_imm ==
  \/ \E i \in Regs, v \in Data : Step(Set8(Fetched(z80, 2), R8[i], "HL", 0, v), "ld")
  \/ \E p \in {"BC", "DE", "HL", "SP"}, w \in Cells :
       Step(SetPair(Fetched(z80, 3), p, w), "ld")

inst_ld_mem ==
  \/ \E p \in {"BC", "DE"} :
       \/ Step(Poke(Fetched(z80, 1), Pair(z80, p), z80.r.A), "ld")
       \/ Step([Fetched(z80, 1) EXCEPT !.r.A = Peek(z80, Pair(z80, p))], "ld")
  \/ \E w \in Cells :
       \/ Step(store2(Fetched(z80, 3), w, Pair(z80, "HL")), "ld")
       \/ Step(SetPair(Fetched(z80, 3), "HL", get2(z80, w)), "ld")
       \/ Step(Poke(Fetched(z80, 3), w, z80.r.A), "ld")
       \/ Step([Fetched(z80, 3) EXCEPT !.r.A = Peek(z80, w)], "ld")
  \/ Step([Fetched(z80, 1) EXCEPT !.SP = Pair(z80, "HL")], "ld")

\* 8-bit and 16-bit INC and DEC.
inst_inc ==
  \/ \E p \in {"BC", "DE", "HL", "SP"} :
       Step(SetPair(Fetched(z80, 1), p, Pair(z80, p) + 1), "inc16")
  \/ \E i \in Regs :
       LET v == (Get8(z80, R8[i], "HL", 0) + 1) % 256
       IN Step(IncFlags(Set8(Fetched(z80, 1), R8[i], "HL", 0, v), v, {}), "inc")
inst_dec ==
  \/ \E p \in {"BC", "DE", "HL", "SP"} :
       Step(SetPair(Fetched(z80, 1), p, Pair(z80, p) - 1), "dec16")
  \/ \E i \in Regs :
       LET v == (Get8(z80, R8[i], "HL", 0) - 1) % 256
       IN Step(IncFlags(Set8(Fetched(z80, 1), R8[i], "HL", 0, v), v, {NF}), "dec")

\* RLCA, RRCA, RLA and RRA are the rotations of the CB page on A.
inst_rot_a ==
  \E op \in {"rlc", "rrc", "rl", "rr"} :
    LET q == Rot(z80, op, z80.r.A)
    IN Step(RotFlags([Fetched(z80, 1) EXCEPT !.r.A = q[1]], q), "rot")

inst_ex ==
  \/ Step([Fetched(z80, 1) EXCEPT !.r.aA = z80.r.A, !.r.A = z80.r.aA,
                                  !.aF = z80.F, !.F = z80.aF], "ex")
  \/ /\ z80.SP < 65535
     /\ Step(SetPair(store2(Fetched(z80, 1), z80.SP, Pair(z80, "HL")),
                     "HL", get2(z80, z80.SP)), "ex")
  \/ Step(SetPair(SetPair(Fetched(z80, 1), "DE", Pair(z80, "HL")), "HL", Pair(z80, "DE")), "ex")

\* EXX copies the second bank and saves nothing; HL is not touched.
inst_exx ==
  Step(SetPair(SetPair(Fetched(z80, 1), "BC", z80.aBC), "DE", z80.aDE), "exx")

inst_add16 ==
  \E p \in {"BC", "DE", "HL", "SP"} :
    Step(add_Word(Fetched(z80, 1), "HL", Pair(z80, p)), "add16")

(* An 8-bit operation on A.  SUB A only clears A.                          *)
Alu(s, op, b) ==
  CASE op = "add" -> add_A_bytereg(s, b) [] op = "adc" -> adc_A_bytereg(s, b)
    [] op = "sub" -> sub_A_bytereg(s, b) [] op = "sbc" -> sbc_A_bytereg(s, b)
    [] op = "and" -> and_A_bytereg(s, b) [] op = "xor" -> xor_A_bytereg(s, b)
    [] op = "or"  -> or_A_bytereg(s, b)  [] op = "cp"  -> cp_bytereg(s, b)
AluReg(op) ==
  \/ \E i \in Regs :
       /\ <<op, i>> # <<"sub", 8>>
       /\ Step(Alu(Fetched(z80, 1), op, Get8(z80, R8[i], "HL", 0)), op)
  \/ \E v \in Data : Step(Alu(Fetched(z80, 2), op, v), op)
inst_add == AluReg("add")
inst_adc == AluReg("adc")
inst_sub == AluReg("sub") \/ Step([Fetched(z80, 1) EXCEPT !.r.A = 0], "sub_A")
inst_sbc == AluReg("sbc")
inst_and == AluReg("and")
inst_xor == AluReg("xor")
inst_or  == AluReg("or")
inst_cp  == AluReg("cp")

inst_daa ==
  LET a   == z80.r.A
      lo  == IF AF \in z80.F \/ a % 16 > 9 THEN 6 ELSE 0
      hi  == IF CF \in z80.F \/ a \div 16 > 9 THEN 96 ELSE 0
      more == IF a > 144 /\ a % 16 > 9 THEN 96 ELSE hi
      s   == Fetched(z80, 1)
  IN Step(IF NF \in z80.F THEN sub_A_bytereg(s, lo + hi)
                          ELSE add_A_bytereg(s, lo + more), "daa")

inst_cpl == Step([Fetched(z80, 1) EXCEPT !.r.A = 255 - @, !.F = @ \cup {AF, NF}], "cpl")
inst_scf == Step([Fetched(z80, 1) EXCEPT !.F = @ \cup {CF}], "scf")
inst_ccf == Step([Fetched(z80, 1) EXCEPT !.F = IF CF \in @ THEN @ \ {CF} ELSE @ \cup {CF}], "ccf")
-----------------------------------------------------------------------------
(* Conditions by their octal code; JP has PO and PE the other way round.   *)
Cond(s, y) ==
  LET f == <<ZF, CF, PF, SF>>[y \div 2 + 1] IN (f \in s.F) = (y % 2 = 1)
JpCond(s, y) == IF y \in {4, 5} THEN Cond(s, 9 - y) ELSE Cond(s, y)
Always == 8
Taken(s, y) == IF y = Always THEN TRUE ELSE Cond(s, y)
JpTaken(s, y) == IF y = Always THEN TRUE ELSE JpCond(s, y)

\* A relative jump adds to PC without a wrap.
Jump(s, j) == [s EXCEPT !.PC = @ + ZSigned(j)]
inst_jr ==
  \E j \in Data, y \in {0, 1, 2, 3, Always} :
    Step(IF Taken(z80, y) THEN Jump(Fetched(z80, 2), j) ELSE Fetched(z80, 2), "jr")
inst_djnz ==
  \E j \in Data :
    LET b == (z80.r.B - 1) % 256
        s == [Fetched(z80, 2) EXCEPT !.r.B = b]
    IN Step(IF b # 0 THEN Jump(s, j) ELSE s, "djnz")

inst_jp ==
  \/ \E w \in Cells, y \in 0 .. Always :
       Step(IF JpTaken(z80, y) THEN [Fetched(z80, 3) EXCEPT !.PC = w]
                                        ELSE Fetched(z80, 3), "jp")
  \/ Step([Fetched(z80, 1) EXCEPT !.PC = Pair(z80, "HL")], "jp")

push2(s, v) == LET sp == (s.SP - 2) % 65536 IN store2([s EXCEPT !.SP = sp], sp, v)

\* CALL: PC+2 skips the operand, which is fetched after the push.
Call(w) ==
  /\ z80.n < Z80Steps /\ (z80.SP - 2) % 65536 < 65535
  /\ z80' = [push2(Fetched(z80, 1), (inc_address(z80.PC, 1) + 2) % 65536) EXCEPT !.PC = w]
  /\ z80op' = [name |-> "call", at |-> z80.PC, ret |-> <<inc_address(z80.PC, 3), z80'.SP,
                                                   get2(z80', z80'.SP)>>]
inst_call ==
  \/ \E w \in Cells, y \in 0 .. Always : Taken(z80, y) /\ Call(w)
  \/ \E y \in 0 .. 7 : ~Cond(z80, y) /\ Step(Fetched(z80, 3), "call_not")

\* RST pushes PC+2 too, although it has no operand.
inst_rst ==
  \E y \in {0} \cup 2 .. 7 :
    /\ (z80.SP - 2) % 65536 < 65535
    /\ Step([push2(Fetched(z80, 1), (inc_address(z80.PC, 1) + 2) % 65536) EXCEPT !.PC = 8 * y], "rst")

\* Seeded fault: SP is raised before the word is read.
Fault_pop2(s) ==
  LET sp == (s.SP + 2) % 65536 IN [s EXCEPT !.PC = get2(s, sp), !.SP = sp]

pop2(s) == [s EXCEPT !.PC = get2(s, s.SP), !.SP = (@ + 2) % 65536]
inst_ret ==
  \E y \in 0 .. Always :
    /\ z80.SP < 65535
    /\ IF Taken(z80, y) THEN Step(pop2(Fetched(z80, 1)), "ret")
                                 ELSE Step(Fetched(z80, 1), "ret_not")

FByte(f) == LET w(i) == IF i \in f THEN 2^i ELSE 0
            IN w(0) + w(1) + w(2) + w(3) + w(4) + w(5) + w(6) + w(7)
ZBits(b) == {i \in 0 .. 7 : (b \div 2^i) % 2 = 1}
inst_push ==
  /\ (z80.SP - 2) % 65536 < 65535
  /\ \/ \E p \in {"BC", "DE", "HL"} : Step(push2(Fetched(z80, 1), Pair(z80, p)), "push")
     \/ Step(push2(Fetched(z80, 1), 256 * z80.r.A + FByte(z80.F)), "push")
inst_pop ==
  /\ z80.SP < 65535
  /\ LET w == get2(z80, z80.SP)
         s == [Fetched(z80, 1) EXCEPT !.SP = (@ + 2) % 65536]
     IN \/ \E p \in {"BC", "DE", "HL"} : Step(SetPair(s, p, w), "pop")
        \/ Step([s EXCEPT !.r.A = w \div 256, !.F = ZBits(w % 256)], "pop")
-----------------------------------------------------------------------------
(* The CB page.  RES b,A masks A with the number of the bit; the switch of *)
(* SET looks at the whole code and never matches, so SET does nothing.     *)
CbRot(op) ==
  \E i \in Regs :
    LET q == Rot(z80, op, Get8(z80, R8[i], "HL", 0))
    IN Step(RotFlags(Set8(Fetched(z80, 2), R8[i], "HL", 0, q[1]), q), "rot")
inst_cb_rlc == CbRot("rlc")
inst_cb_rrc == CbRot("rrc")
inst_cb_rl == CbRot("rl")
inst_cb_rr == CbRot("rr")
inst_cb_sla == CbRot("sla")
inst_cb_sra == CbRot("sra")
inst_cb_slia == CbRot("slia")
inst_cb_srl == CbRot("srl")
inst_cb_bit ==
  \E b \in BitNos, i \in Regs :
    Step(bit_byte(Fetched(z80, 2), Get8(z80, R8[i], "HL", 0), b), "bit")
inst_cb_res ==
  \E b \in BitNos, i \in Regs :
    LET v == Get8(z80, R8[i], "HL", 0)
    IN Step(Set8(Fetched(z80, 2), R8[i], "HL", 0,
                 IF i = 8 THEN v & (255 - b) ELSE ResBit(v, b)), "res")
inst_cb_set == Step(Fetched(z80, 2), "set")
\* the lower and the upper half of the page
inst_cb ==
  \/ inst_cb_rlc \/ inst_cb_rrc \/ inst_cb_rl \/ inst_cb_rr \/ inst_cb_sla \/ inst_cb_sra
  \/ inst_cb_slia \/ inst_cb_srl \/ inst_cb_bit
inst_cb_80 == inst_cb_res \/ inst_cb_set

(* DD CB and FD CB: on (IX+d), with a copy of the result in a register.    *)
(* SET is invalid, for the same reason.                                    *)
Both(s, i, p, d, v) ==
  Poke(IF i = 7 THEN s ELSE [s EXCEPT !.r[R8[i]] = v], Disp(z80, p, d), v)
XXcbRot(op) ==
  \E i \in Regs, p \in Index, d \in Data :
    LET q == Rot(z80, op, Peek(z80, Disp(z80, p, d)))
    IN Step(RotFlags(Both(Fetched(z80, 4), i, p, d, q[1]), q), "rot")
inst_XXcb_rlc == XXcbRot("rlc")
inst_XXcb_rrc == XXcbRot("rrc")
inst_XXcb_rl == XXcbRot("rl")
inst_XXcb_rr == XXcbRot("rr")
inst_XXcb_sla == XXcbRot("sla")
inst_XXcb_sra == XXcbRot("sra")
inst_XXcb_slia == XXcbRot("slia")
inst_XXcb_srl == XXcbRot("srl")
inst_XXcb_bit ==
  \E b \in BitNos, p \in Index, d \in Data :
    Step(bit_byte(Fetched(z80, 4), Peek(z80, Disp(z80, p, d)), b), "bit")
inst_XXcb_res ==
  \E b \in BitNos, i \in Regs, p \in Index, d \in Data :
    Step(Both(Fetched(z80, 4), i, p, d, ResBit(Peek(z80, Disp(z80, p, d)), b)), "res")
inst_XXcb_set == Step(Fetched(z80, 4), "invalid")
inst_XXcb ==
  \/ inst_XXcb_rlc \/ inst_XXcb_rrc \/ inst_XXcb_rl \/ inst_XXcb_rr \/ inst_XXcb_sla
  \/ inst_XXcb_sra \/ inst_XXcb_slia \/ inst_XXcb_srl \/ inst_XXcb_bit
inst_XXcb_80 == inst_XXcb_res \/ inst_XXcb_set
-----------------------------------------------------------------------------
(* DD and FD, for IX and IY.                                               *)
\* LD with a half of IX: E, and LX from HX, take H and L instead, and
\* LD HX,LX is not dispatched.
inst_Xd_ld_half ==
  \E p \in Index, i, j \in {2, 4, 5, 6} :
    /\ {i, j} \cap {5, 6} # {} /\ <<i, j>> # <<5, 6>>
    /\ LET src == Named(R8[j], p, i # 4 /\ <<i, j>> # <<6, 5>>)
       IN Step([Fetched(z80, 2) EXCEPT !.r[Named(R8[i], p, TRUE)] = z80.r[src]], "ld")
inst_Xd_ld_imm ==
  \/ \E p \in Index, w \in Cells : Step(SetPair(Fetched(z80, 4), p, w), "ld")
  \/ \E p \in Index, v \in Data, h \in {1, 2} :
       Step([Fetched(z80, 3) EXCEPT !.r[HalfOf[p][h]] = v], "ld")
inst_Xd_ld_mem ==
  \E p \in Index :
    \/ \E w \in Cells :
         \/ Step(store2(Fetched(z80, 4), w, Pair(z80, p)), "ld")
         \/ Step(SetPair(Fetched(z80, 4), p, get2(z80, w)), "ld")
    \/ \E d \in Data, i \in Regs \ {7} :
         \/ Step([Fetched(z80, 3) EXCEPT !.r[R8[i]] = Peek(z80, Disp(z80, p, d))], "ld")
         \/ Step(Poke(Fetched(z80, 3), Disp(z80, p, d), z80.r[R8[i]]), "ld")
    \/ \E d, v \in Data : Step(Poke(Fetched(z80, 4), Disp(z80, p, d), v), "ld")
    \/ Step([Fetched(z80, 2) EXCEPT !.SP = Pair(z80, p)], "ld")
inst_Xd_add ==
  \E p \in Index :
    \E w \in {"BC", "DE", p, "SP"} : Step(add_Word(Fetched(z80, 2), p, Pair(z80, w)), "add16")
inst_Xd_misc ==
  \E p \in Index, op \in {"add", "adc", "sub", "sbc", "and", "xor", "or", "cp"} :
    \/ \E h \in {1, 2} : Step(Alu(Fetched(z80, 2), op, z80.r[HalfOf[p][h]]), op)
    \/ \E d \in Data : Step(Alu(Fetched(z80, 3), op, Peek(z80, Disp(z80, p, d))), op)
inst_Xd_inc ==
  \E p \in Index :
    \/ Step(SetPair(Fetched(z80, 2), p, Pair(z80, p) + 1), "inc16")
    \/ \E h \in {1, 2} :
         LET v == (z80.r[HalfOf[p][h]] + 1) % 256
         IN Step(IncFlags([Fetched(z80, 2) EXCEPT !.r[HalfOf[p][h]] = v], v, {}), "inc")
    \/ \E d \in Data :
         LET v == (Peek(z80, Disp(z80, p, d)) + 1) % 256
         IN Step(IncFlags(Poke(Fetched(z80, 3), Disp(z80, p, d), v), v, {}), "inc")
\* DEC IY decrements IX.
inst_Xd_dec ==
  \E p \in Index :
    \/ Step(SetPair(Fetched(z80, 2), "IX", Pair(z80, "IX") - 1), "dec16")
    \/ \E h \in {1, 2} :
         LET v == (z80.r[HalfOf[p][h]] - 1) % 256
         IN Step(IncFlags([Fetched(z80, 2) EXCEPT !.r[HalfOf[p][h]] = v], v, {NF}), "dec")
    \/ \E d \in Data :
         LET v == (Peek(z80, Disp(z80, p, d)) - 1) % 256
         IN Step(IncFlags(Poke(Fetched(z80, 3), Disp(z80, p, d), v), v, {NF}), "dec")
\* POP, EX (SP), PUSH and JP with IX.
inst_Xd ==
  \E p \in Index :
    \/ /\ z80.SP < 65535
       /\ \/ Step([SetPair(Fetched(z80, 2), p, get2(z80, z80.SP))
                     EXCEPT !.SP = (@ + 2) % 65536], "pop")
          \/ Step(SetPair(store2(Fetched(z80, 2), z80.SP, Pair(z80, p)), p,
                          get2(z80, z80.SP)), "ex")
    \/ /\ (z80.SP - 2) % 65536 < 65535
       /\ Step(push2(Fetched(z80, 2), Pair(z80, p)), "push")
    \/ Step([Fetched(z80, 2) EXCEPT !.PC = Pair(z80, p)], "jp")
-----------------------------------------------------------------------------
(* The ED page.  NEG subtracts A from itself.                              *)
inst_ed_word ==
  \E p \in {"BC", "DE", "HL", "SP"} :
    \/ Step(adc_HL_wordreg(Fetched(z80, 2), Pair(z80, p)), "adc16")
    \/ Step(sbc_HL_wordreg(Fetched(z80, 2), Pair(z80, p)), "sbc16")
    \/ \E w \in Cells :
         \/ Step(store2(Fetched(z80, 4), w, Pair(z80, p)), "ld")
         \/ Step(SetPair(Fetched(z80, 4), p, get2(z80, w)), "ld")
inst_ed_misc ==
  \/ Step(SetF([Fetched(z80, 2) EXCEPT !.r.A = 0], {NF, ZF}), "neg")
  \/ z80.SP < 65535 /\ Step(pop2(Fetched(z80, 2)), "ret")          \* RETN and RETI
  \/ Step([Fetched(z80, 2) EXCEPT !.r.iv = z80.r.A], "ld")
  \/ Step([Fetched(z80, 2) EXCEPT !.r.A = z80.r.iv], "ld")
  \/ Step(Fetched(z80, 2), "nop")                                  \* IN, OUT, LD R,A

\* One byte of a block: dir is 1 or -1.
Move(s, dir) ==
  SetPair(SetPair(SetPair(Poke(s, Pair(s, "DE"), Peek(s, Pair(s, "HL"))),
                          "HL", Pair(s, "HL") + dir),
                  "DE", Pair(s, "DE") + dir),
          "BC", Pair(s, "BC") - 1)
Counted(s, fl) ==
  [s EXCEPT !.F = fl \cup (IF Pair(s, "BC") # 0 THEN {PF} ELSE {})]
inst_ed_ld ==
  \E dir \in {1, -1} :
    LET s == Move(Fetched(z80, 2), dir)
    IN Step(Counted(s, s.F \ {PF, NF, AF}), "ldi")

\* The length of a block that is moved as a whole; a count of zero is 65536.
Block(s) == Pair(s, "BC")

MoveAll(s, dir) ==
  LET f[k \in 0 .. MaxBlock] == IF k = 0 THEN s ELSE Move(f[k - 1], dir) IN f[Block(s)]
inst_ed_ldr ==
  \E dir \in {1, -1} :
    /\ Block(z80) \in 1 .. MaxBlock
    /\ LET s == MoveAll(Fetched(z80, 2), dir)
       IN Step([s EXCEPT !.F = @ \ {PF, NF, AF}], IF dir = 1 THEN "ldir" ELSE "lddr")

Look(s, dir) == SetPair(SetPair(s, "HL", Pair(s, "HL") + dir), "BC", Pair(s, "BC") - 1)
Found(s) == s.r.A = Peek(s, Pair(s, "HL"))
\* CPI, and CPD, which increments HL and sets P when the byte is found.
inst_ed_cp ==
  \/ LET s == Look(cp_bytereg(Fetched(z80, 2), Peek(z80, Pair(z80, "HL"))), 1)
     IN Step(Counted(s, s.F), "cpi")
  \/ LET s == Look(SetF(Fetched(z80, 2), IF Found(z80) THEN {ZF, PF} ELSE {}), 1)
     IN Step(Counted(s, s.F), "cpd")
\* CPIR and CPDR stop on the byte, before HL moves.
LookAll(s, dir) ==
  LET f[k \in 0 .. MaxBlock] ==
        IF k = 0 \/ Found(f[k - 1]) THEN IF k = 0 THEN s ELSE f[k - 1]
                                    ELSE Look(f[k - 1], dir)
  IN f[Block(s)]
inst_ed_cpr ==
  \E dir \in {1, -1} :
    /\ Block(z80) \in 1 .. MaxBlock
    /\ LET s == LookAll(Fetched(z80, 2), dir)
           hit == IF Pair(s, "BC") # 0 THEN {ZF, PF} ELSE {}
       IN Step(SetF(s, hit \cup (IF dir = 1 THEN {NF, PF} ELSE {})),
               IF dir = 1 THEN "cpir" ELSE "cpdr")
-----------------------------------------------------------------------------
\* exec_inst
Z80Next ==
  \/ inst_nop \/ inst_ld_rr \/ inst_ld_imm \/ inst_ld_mem \/ inst_inc \/ inst_dec
  \/ inst_rot_a \/ inst_ex \/ inst_exx \/ inst_add16 \/ inst_daa \/ inst_cpl
  \/ inst_scf \/ inst_ccf \/ inst_add \/ inst_adc \/ inst_sub \/ inst_sbc \/ inst_and
  \/ inst_xor \/ inst_or \/ inst_cp \/ inst_jr \/ inst_djnz \/ inst_jp \/ inst_call
  \/ inst_rst \/ inst_ret \/ inst_push \/ inst_pop
  \/ inst_cb \/ inst_cb_80 \/ inst_XXcb \/ inst_XXcb_80
  \/ inst_Xd_ld_half \/ inst_Xd_ld_imm \/ inst_Xd_ld_mem \/ inst_Xd_add \/ inst_Xd_misc
  \/ inst_Xd_inc \/ inst_Xd_dec \/ inst_Xd
  \/ inst_ed_word \/ inst_ed_misc \/ inst_ed_ld \/ inst_ed_ldr \/ inst_ed_cp \/ inst_ed_cpr

Z80Spec == Z80Init /\ [][Z80Next]_z80Vars
-----------------------------------------------------------------------------
(* A sum or difference of words done byte by byte, with ADD and ADC or SUB *)
(* and SBC, has the value and the carry that ADD HL and SBC HL compute, in *)
(* every state the program reaches, and all registers keep their widths.   *)
Z80Chains ==
  z80op.name # "reset" =>
  /\ \A q \in DOMAIN z80.r : z80.r[q] \in 0 .. 255
  /\ z80.SP \in 0 .. 65535 /\ z80.F \subseteq 0 .. 7
  /\ \A x, y \in Cells :
       LET s    == SetPair(z80, "HL", x)
           A(t, v) == [t EXCEPT !.r.A = v]
           lo1  == add_A_bytereg(A(s, x % 256), y % 256)
           hi1  == adc_A_bytereg(A(lo1, x \div 256), y \div 256)
           lo2  == sub_A_bytereg(A(s, x % 256), y % 256)
           hi2  == sbc_A_bytereg(A(lo2, x \div 256), y \div 256)
           sum  == add_Word(s, "HL", y)
           dif  == sbc_HL_wordreg([s EXCEPT !.F = @ \ {CF}], y)
       IN /\ 256 * hi1.r.A + lo1.r.A = Pair(sum, "HL") /\ (CF \in hi1.F) = (CF \in sum.F)
          /\ 256 * hi2.r.A + lo2.r.A = Pair(dif, "HL") /\ (CF \in hi2.F) = (CF \in dif.F)
          /\ (CF \in dif.F) = (x < y)

(* A return that finds SP where the last CALL left it, and the word there  *)
(* as the CALL wrote it, goes to the instruction after the CALL (CALL,     *)
(* push2, pop2, RET, RETI), wherever the stack is.                         *)
Z80Returns ==
  [][z80op'.name = "ret" /\ z80op.ret # <<0, 0, 0>> /\ z80.SP = z80op.ret[2]
     /\ get2(z80, z80.SP) = z80op.ret[3]
       => z80'.PC = z80op.ret[1] % 65536 /\ z80'.SP = (z80.SP + 2) % 65536]_z80Vars

(* LDIR and LDDR copy the block that HL pointed to before, byte for byte;  *)
(* when the areas overlap, what was copied first is copied again.  CPIR    *)
(* and CPDR stop at the first byte that equals A, or after the block.      *)
Z80Blocks ==
  [][z80op'.name \in {"ldir", "lddr", "cpir", "cpdr"} =>
     LET n   == Block(z80)
         hl  == Pair(z80, "HL")
         de  == Pair(z80, "DE")
         dir == IF z80op'.name \in {"ldir", "cpir"} THEN 1 ELSE -1
         gap == dir * (de - hl)
         at(i) == Peek(z80, (hl + dir * (IF gap \in 1 .. n - 1 THEN i % gap ELSE i)) % 65536)
         same == {i \in 0 .. n - 1 : Peek(z80, (hl + dir * i) % 65536) = z80.r.A}
     IN /\ z80op'.name \in {"ldir", "lddr"} =>
             /\ \A i \in 0 .. n - 1 : Peek(z80', (de + dir * i) % 65536) = at(i)
             /\ Pair(z80', "HL") = (hl + dir * n) % 65536 /\ Pair(z80', "BC") = 0
        /\ z80op'.name \in {"cpir", "cpdr"} =>
             /\ (ZF \in z80'.F) = (same # {})
             /\ LET k == IF same = {} THEN n ELSE CHOOSE i \in same : \A j \in same : i <= j
                IN Pair(z80', "HL") = (hl + dir * k) % 65536]_z80Vars

(* Arithmetic by bytes and by words agree, returns go back behind the CALL *)
(* and the block instructions move and find what they should, in any order *)
(* of instructions: the three properties above.                            *)
Z80Exact == []Z80Chains /\ Z80Returns /\ Z80Blocks
=============================================================================

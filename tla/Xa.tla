--------------------------------- MODULE Xa --------------------------------
(***************************************************************************)
(* The instructions of the XA simulator (cl_xa, xa.src).  The registers,   *)
(* the stack pointer (R7), PSW and SCR are cells of the sfr space; data    *)
(* below 0x2000 is in iram and above in xram, so that one function `mem'   *)
(* holds both.  The actions choose mnemonic and operands among those that  *)
(* the table disass_xa can give; the instructions marked as not done, and  *)
(* the operand forms without a case, only fetch.                           *)
(***************************************************************************)
EXTENDS Integers, TLC, Bitwise

CONSTANTS
  XaRegs,    \* the data registers tried
  XaPtrs,    \* the address registers tried
  XaFuncs,   \* the two-operand mnemonics tried
  XaWords,   \* the operand words tried
  XaOffsets, \* the branch and index offsets tried
  XaSteps    \* bound: instructions executed

ASSUME XaAssumption ==
  /\ XaRegs \cup XaPtrs \subseteq 0 .. 7 /\ XaWords \subseteq 0 .. 65535
  /\ XaFuncs \subseteq {"ADD", "ADDC", "SUB", "SUBB", "CMP", "AND", "OR", "XOR", "MOV"}
  /\ XaOffsets \subseteq -32768 .. 32767 /\ XaSteps \in Nat

VARIABLES
  xa,       \* the processor
  xaop      \* history: the last instruction and what it pushed or popped last

xaVars == <<xa, xaop>>

REGS_OFFSET == 2048
PSW == 1024
SCR == 1088
NoPush == [kind |-> "none"]

\* set_scr(0), SP = 0x100 and PC from the vector; SCR has page zero mode too,
\* and some cells have been written.
XaInit ==
  /\ \E p \in {0, 1} :
       xa = [sfr |-> (2049 :> 2) @@ (2050 :> 64) @@ (2051 :> 1) @@ (2060 :> 255)
                      @@ (16 :> 255) @@ (17 :> 1) @@ (1536 :> 255) @@ (1537 :> 1) @@ (1538 :> 7)
                      @@ (2063 :> 1) @@ (SCR :> p) @@ (PSW :> 128) @@ (1025 :> 143),
             mem |-> (320 :> 255) @@ (321 :> 127), PC |-> 300, n |-> 0]
  /\ xaop = [name |-> "reset", push |-> NoPush]
-----------------------------------------------------------------------------
XCell(f, a) == IF a \in DOMAIN f THEN f[a] ELSE 0
get_byte_direct(s, a) == XCell(s.sfr, a)
get_word_direct(s, a) == XCell(s.sfr, a) + 256 * XCell(s.sfr, a + 1)
set_byte_direct(s, a, v) == [s EXCEPT !.sfr = (a :> v % 256) @@ @]
set_word_direct(s, a, v) ==
  [s EXCEPT !.sfr = (a :> v % 256) @@ (a + 1 :> (v \div 256) % 256) @@ @]
get1x(s, a) == XCell(s.mem, a)
get2x(s, a) == XCell(s.mem, a) + 256 * XCell(s.mem, a + 1)
store1x(s, a, v) == [s EXCEPT !.mem = (a :> v % 256) @@ @]
store2x(s, a, v) == [s EXCEPT !.mem = (a :> v % 256) @@ (a + 1 :> (v \div 256) % 256) @@ @]
reg1(s, i) == get_byte_direct(s, REGS_OFFSET + i)
reg2(s, i) == get_word_direct(s, REGS_OFFSET + 2 * i)
set_reg1(s, i, v) == set_byte_direct(s, REGS_OFFSET + i, v)
set_reg2(s, i, v) == set_word_direct(s, REGS_OFFSET + 2 * i, v)
get_sp(s) == reg2(s, 7)
set_sp(s, v) == set_reg2(s, 7, v)
pageZero(s) == get_byte_direct(s, SCR) % 2 = 1
\* The same by width: w is TRUE for words.
XReg(s, w, i) == IF w THEN reg2(s, i) ELSE reg1(s, i)
XSetReg(s, w, i, v) == IF w THEN set_reg2(s, i, v) ELSE set_reg1(s, i, v)
XDirect(s, w, a) == IF w THEN get_word_direct(s, a) ELSE get_byte_direct(s, a)
XSetDirect(s, w, a, v) == IF w THEN set_word_direct(s, a, v) ELSE set_byte_direct(s, a, v)
XGet(s, w, a) == IF w THEN get2x(s, a) ELSE get1x(s, a)
XStore(s, w, a, v) == IF w THEN store2x(s, a, v) ELSE store1x(s, a, v)
XModulus(w) == IF w THEN 65536 ELSE 256

XBit(v, i) == (v \div 2^i) % 2 = 1
xC(s) == XBit(get_byte_direct(s, PSW), 7)
xV(s) == XBit(get_byte_direct(s, PSW), 2)
xN(s) == XBit(get_byte_direct(s, PSW), 1)
xZ(s) == XBit(get_byte_direct(s, PSW), 0)
XOne(c, v) == IF c THEN v ELSE 0
\* set_psw with an unsigned char clears the high byte.  BIT_ALL away: C, AC,
\* V, N, Z; or only N and Z.
XFlagsAll(s, c, n, z) ==
  set_word_direct(s, PSW, 8 * ((get_byte_direct(s, PSW) \div 8) % 8)
                           + XOne(c, 128) + XOne(n, 2) + XOne(z, 1))
XFlagsNZ(s, n, z) ==
  set_word_direct(s, PSW, 4 * (get_byte_direct(s, PSW) \div 4) + XOne(n, 2) + XOne(z, 1))

\* The functions that FUNC1 and FUNC2 stand for: the new state and the
\* result.  The word forms test the limits of a byte, and ADDC and SUBB of
\* words clear the carry before they look at it.
XSum(s, w, c, dst, src) ==
  LET t == dst + src + c
  IN <<XFlagsAll(s, t > 255, XBit(t, 7), t = 0), t % XModulus(w)>>

XDifference(s, w, c, dst, src) ==
  LET t == dst - src - c
  IN <<XFlagsAll(s, t < 0 \/ t > 255, dst < src, t = 0), t % XModulus(w)>>

XNZ(s, v, top) == <<XFlagsNZ(s, XBit(v, top), v = 0), v>>
XCarry(s, w) == XOne(xC(s) /\ ~w, 1)

FUNC(s, f, w, dst, src) ==
  CASE f = "ADD"  -> XSum(s, w, 0, dst, src)
    [] f = "ADDC" -> XSum(s, w, XCarry(s, w), dst, src)
    [] f = "SUB"  -> XDifference(s, w, 0, dst, src)
    [] f = "SUBB" -> XDifference(s, w, XCarry(s, w), dst, src)
    [] f = "CMP"  -> <<XDifference(s, w, 0, dst, src)[1], dst>>
    [] f = "AND"  -> XNZ(s, dst & src, 7)
    [] f = "OR"   -> XNZ(s, dst | src, 7)
    [] f = "XOR"  -> XNZ(s, dst ^^ src, IF w THEN 15 ELSE 7)
    [] f = "MOV"  -> XNZ(s, src, IF w THEN 15 ELSE 7)

XFetched(k) == [xa EXCEPT !.PC = (@ + k) % 65536, !.n = @ + 1]
XStepP(s, name, push) == xa.n < XaSteps /\ xa' = s /\ xaop' = [name |-> name, push |-> push]
XStep(s, name) == XStepP(s, name, xaop.push)
\* An address register of a form that keeps it in a short: above 0x7fff the
\* cell would lie outside of iram.
XIndirect(a) == a \in 0 .. 32767
-----------------------------------------------------------------------------
(* The operand forms of inst_gen.cc.  The flags are set before the result  *)
(* is stored, and a post-increment comes last and adds 1 to words too.     *)
XToReg(s, f, w, d, src) == LET r == FUNC(s, f, w, XReg(s, w, d), src) IN XSetReg(r[1], w, d, r[2])
XToMem(s, f, w, a, src) == LET r == FUNC(s, f, w, XGet(s, w, a), src) IN XStore(r[1], w, a, r[2])
XPostInc(s, i, a, inc) == IF inc THEN set_reg2(s, i, a + 1) ELSE s

REG_REG ==
  \E f \in XaFuncs, w \in BOOLEAN, d, r \in XaRegs :
    XStep(XToReg(XFetched(2), f, w, d, XReg(xa, w, r)), f)
REG_IREG ==
  \E f \in XaFuncs, w, inc \in BOOLEAN, d \in XaRegs, r \in XaPtrs :
    LET a == reg2(xa, r)
    IN XIndirect(a)
       /\ XStep(XPostInc(XToReg(XFetched(2), f, w, d, XGet(xa, w, a)), r, a, inc), f)
IREG_REG ==
  \E f \in XaFuncs, w, inc \in BOOLEAN, d \in XaRegs, r \in XaPtrs :
    LET a == reg2(xa, r)
    IN XIndirect(a)
       /\ XStep(XPostInc(XToMem(XFetched(2), f, w, a, XReg(xa, w, d)), r, a, inc), f)
\* offsets of one or two bytes
XOff(o) == IF o \in -128 .. 127 THEN 3 ELSE 4
IREGOFF_REG ==
  \E f \in XaFuncs, w \in BOOLEAN, d \in XaRegs, r \in XaPtrs, o \in XaOffsets :
    LET a == reg2(xa, r) + o
    IN a \in 0 .. 65534 /\ XStep(XToMem(XFetched(XOff(o)), f, w, a, XReg(xa, w, d)), f)
REG_IREGOFF ==
  \E f \in XaFuncs, w \in BOOLEAN, d \in XaRegs, r \in XaPtrs, o \in XaOffsets :
    LET a == reg2(xa, r) + o
    IN a \in 0 .. 65534 /\ XStep(XToReg(XFetched(XOff(o)), f, w, d, XGet(xa, w, a)), f)
XDirects == {PSW, 1536}
DIRECT_REG ==
  \E f \in XaFuncs, w \in BOOLEAN, d \in XaRegs, a \in XDirects :
    LET r == FUNC(XFetched(3), f, w, XDirect(xa, w, a), XReg(xa, w, d))
    IN XStep(XSetDirect(r[1], w, a, r[2]), f)
REG_DIRECT ==
  \E f \in XaFuncs, w \in BOOLEAN, d \in XaRegs, a \in XDirects :
    XStep(XToReg(XFetched(3), f, w, d, XDirect(xa, w, a)), f)
XData(w) == {v % XModulus(w) : v \in XaWords}
XLen(w) == IF w THEN 2 ELSE 1
REG_DATA ==
  \E f \in XaFuncs, w \in BOOLEAN, d \in XaRegs : \E v \in XData(w) :
    XStep(XToReg(XFetched(2 + XLen(w)), f, w, d, v), f)
IREG_DATA ==
  \E f \in XaFuncs, w, inc \in BOOLEAN, r \in XaPtrs : \E v \in XData(w) :
    LET a == reg2(xa, r)
    IN a < 65535
       /\ XStep(XPostInc(XToMem(XFetched(2 + XLen(w)), f, w, a, v), r, a, inc), f)
\* here the data is the destination operand
IREGOFF_DATA ==
  \E f \in XaFuncs, w \in BOOLEAN, r \in XaPtrs, o \in XaOffsets :
    \E v \in XData(w) :
      LET a == reg2(xa, r) + o
          q == FUNC(XFetched(XOff(o) + XLen(w)), f, w, v, XGet(xa, w, a))
      IN a \in 0 .. 65534 /\ XStep(XStore(q[1], w, a, q[2]), f)
DIRECT_DATA ==
  \E f \in XaFuncs, w \in BOOLEAN, a \in XDirects : \E v \in XData(w) :
    LET r == FUNC(XFetched(3 + XLen(w)), f, w, XDirect(xa, w, a), v)
    IN XStep(XSetDirect(r[1], w, a, r[2]), f)
-----------------------------------------------------------------------------
(* Bits.  `code&0x03 << 8' is code & 0x300, which is 0 for ANL, CLR and    *)
(* SETB: they reach the first 256 bits only.                               *)
XBitCell(b) == IF b >= 512 THEN 1024 + ((b - 512) \div 8) ELSE b \div 8
XGetBit(s, b) == XBit(get_byte_direct(s, XBitCell(b)), b % 8)
XSetBit(s, b, on) ==
  LET c == get_byte_direct(s, XBitCell(b))
      p == 2^(b % 8)
  IN set_byte_direct(s, XBitCell(b), c + (IF on = XGetBit(s, b) THEN 0 ELSE IF on THEN p ELSE -p))
XLowBits == {0, 255}
inst_ANL ==
  \E b \in XLowBits, not \in BOOLEAN :
    XStep(IF xC(xa) /\ XGetBit(xa, b) = not
          THEN set_word_direct(XFetched(3), PSW, get_byte_direct(xa, PSW) - 128)
          ELSE XFetched(3), "ANL")
inst_CLR == \E b \in XLowBits : XStep(XSetBit(XFetched(3), b, FALSE), "CLR")
inst_SETB == \E b \in XLowBits : XStep(XSetBit(XFetched(3), b, TRUE), "SETB")
inst_SEXT ==
  \E w \in BOOLEAN, d \in XaRegs :
    XStep(XSetReg(XFetched(2), w, d, XOne(xN(xa), XModulus(w) - 1)), "SEXT")
\* Only the byte forms with the code's size bits 0 have a case, and their
\* count is the number of the operand form (12 in the low bits): the register
\* becomes 0.  The other sizes change the flags only.
XShift ==
  \E w \in BOOLEAN, d \in XaRegs :
    XStep(IF w THEN XFlagsAll(XFetched(2), FALSE, FALSE, FALSE)
          ELSE XFlagsAll(set_reg1(XFetched(2), d, 0), FALSE, FALSE, TRUE), "shift")
inst_ASL == XShift
inst_ASR == XShift
inst_LEA ==
  \E d \in XaRegs, r \in XaPtrs, o \in XaOffsets :
    XStep(set_reg2(XFetched(XOff(o)), d, reg2(xa, r) + o), "LEA")
\* MOVC: bytes of code are any value.  A is register byte 4.
inst_MOVC ==
  \/ \E w \in BOOLEAN, d \in XaRegs, r \in XaPtrs : \E v \in XData(w) :
       LET s == XToReg(XFetched(2), "MOV", w, d, v)
       IN XStep(set_reg2(s, r, reg2(xa, r) + 1), "MOVC")
  \/ \E v \in XData(FALSE) :
       XStep(XFlagsNZ(set_reg1(XFetched(2), 4, v), XBit(v, 7), v = 0), "MOVC")
-----------------------------------------------------------------------------
(* Jumps.  The offset of the branches is an unsigned byte times two, so    *)
(* that they never go back; CJNE, JZ and DJNZ of a direct cell leave odd   *)
(* targets odd.                                                            *)
XEven(a) == 2 * ((a % 16777216) \div 2)
XJump(s, o) == [s EXCEPT !.PC = XEven(@ + o)]
XAhead == {2 * (o % 256) : o \in XaOffsets}
XBranch(c, name) ==
  \E o \in XAhead : XStep(IF c THEN XJump(XFetched(2), o) ELSE XFetched(2), name)
inst_BCC == XBranch(~xC(xa), "BCC")
inst_BCS == XBranch(xC(xa), "BCS")
inst_BEQ == XBranch(xZ(xa), "BEQ")
inst_BG == XBranch(~(xZ(xa) \/ xC(xa)), "BG")
inst_BGE == XBranch(xN(xa) = xV(xa), "BGE")
inst_BGT == XBranch((xZ(xa) \/ xN(xa)) = xV(xa), "BGT")
inst_BL == XBranch(xZ(xa) \/ xC(xa), "BL")
inst_BLE == XBranch((xZ(xa) \/ xN(xa)) # xV(xa), "BLE")
inst_BLT == XBranch(xN(xa) # xV(xa), "BLT")
inst_BMI == XBranch(xN(xa), "BMI")
inst_BNE == XBranch(~xZ(xa), "BNE")
inst_BNV == XBranch(~xV(xa), "BNV")
inst_BOV == XBranch(xV(xa), "BOV")
inst_BPL == XBranch(~xN(xa), "BPL")
inst_BR == XBranch(TRUE, "BR")
inst_JNZ == XBranch(reg1(xa, 8) # 0, "JNZ")
inst_JZ ==
  \E o \in XAhead :
    XStep(IF reg1(xa, 8) = 0 THEN [XFetched(2) EXCEPT !.PC = @ + o] ELSE XFetched(2), "JZ")
\* JB, JBC and JNB
XHighBits == {7, 512}
inst_JB ==
  \E b \in XHighBits, on \in BOOLEAN, o \in XAhead :
    XStep(IF XGetBit(xa, b) = on THEN XJump(XFetched(4), o) ELSE XFetched(4), "JB")
inst_JBC ==
  \E b \in XHighBits, o \in XAhead :
    XStep(XSetBit(IF XGetBit(xa, b) THEN XJump(XFetched(4), o) ELSE XFetched(4), b, FALSE),
          "JBC")
\* CJNE jumps when the operands are equal; C is never set for words.  The
\* macro get_word_direct evaluates the fetch of the address twice, so that a
\* word has its bytes from two addresses and the offset from the next code.
inst_CJNE ==
  \E w \in BOOLEAN, d \in XaRegs, a, b \in {0, 16}, o \in XAhead :
    LET src == get_byte_direct(xa, a) + (IF w THEN 256 * get_byte_direct(xa, b + 1) ELSE 0)
        t == XReg(xa, w, d) - src
        s == XFlagsAll(XFetched(IF w THEN 5 ELSE 4), FALSE, t < 0, t = 0)
    IN XStep(IF t = 0 THEN [s EXCEPT !.PC = @ + o] ELSE s, "CJNE")
inst_DJNZ ==
  \/ \E w \in BOOLEAN, d \in XaRegs, o \in XaOffsets :
       LET v == (XReg(xa, w, d) - 1) % XModulus(w)
           s == XSetReg(XNZ(XFetched(3), v, IF w THEN 15 ELSE 7)[1], w, d, v)
       IN o \in -128 .. 127 /\ XStep(IF v # 0 THEN XJump(s, 2 * o) ELSE s, "DJNZ")
  \/ \E w \in BOOLEAN, a \in XDirects, o \in XAhead :
       LET v == (XDirect(xa, w, a) - 1) % XModulus(w)
           s == XSetDirect(XFetched(4), w, a, v)
       IN XStep(IF v # 0 THEN [s EXCEPT !.PC = @ + o] ELSE s, "DJNZ")
inst_JMP ==
  \/ \E o \in XaOffsets : XStep(XJump(XFetched(3), 2 * o), "JMP")
  \/ \E r \in XaPtrs :
       XStep([XFetched(2) EXCEPT !.PC = 65536 * (@ \div 65536) + 2 * (reg2(xa, r) \div 2)], "JMP")
-----------------------------------------------------------------------------
(* The stack.                                                              *)
XStackFits == get_sp(xa) \in 16 .. 512
XPushPC(s) ==
  LET sp == get_sp(s) - (IF pageZero(s) THEN 2 ELSE 4)
      t  == store2x(set_sp(s, sp), sp, s.PC % 65536)
  IN IF pageZero(s) THEN t ELSE store2x(t, sp + 2, (s.PC \div 65536) % 256)
XPopPC(s, sp) ==
  get2x(s, sp) + (IF pageZero(s) THEN 0 ELSE 65536 * get2x(s, sp + 2))
XFrame(s, back, old) ==
  [kind |-> "call", sp |-> get_sp(s), pc |-> XPopPC(s, get_sp(s)), back |-> back,
   old |-> old, page |-> pageZero(s)]
XCall(s, o) ==
  LET t == XPushPC(s)
  IN XStepP(XJump(t, o), "CALL", XFrame(t, s.PC, get_sp(s)))
inst_CALL ==
  XStackFits /\ (\/ \E o \in XaOffsets : XCall(XFetched(3), 2 * o)
                 \/ \E r \in XaPtrs : XCall(XFetched(2), 2 * reg2(xa, r)))

\* Seeded fault: the stack is popped as in page zero mode.
Fault_XRet(s, sp) == [set_sp(s, sp + 2) EXCEPT !.PC = XPopPC(s, sp)]

XRet(s, sp) ==
  [set_sp(s, sp + (IF pageZero(s) THEN 2 ELSE 4)) EXCEPT !.PC = XPopPC(s, sp)]
inst_RET == XStackFits /\ XStep(XRet(XFetched(2), get_sp(xa)), "RET")
inst_RETI ==
  /\ XStackFits
  /\ XStep(XRet(set_word_direct(XFetched(2), PSW, get2x(xa, get_sp(xa))), get_sp(xa) + 2),
           "RETI")
\* PUSH and POP of a direct cell: its number has bits 8 to 10 of the operand
\* form, 0x600.
inst_PUSH_DIRECT ==
  /\ XStackFits
  /\ \E w \in BOOLEAN, a \in {1536, 1538} :
       LET sp == get_sp(xa) - 2
           v  == XDirect(xa, w, a)
       IN XStepP(store2x(set_sp(XFetched(3), sp), sp, v), "PUSH",
                 [kind |-> "push", sp |-> sp, v |-> v])
inst_POP_DIRECT ==
  /\ XStackFits
  /\ \E w \in BOOLEAN, a \in {1536, 1538} :
       LET sp == get_sp(xa)
       IN XStepP(set_sp(XSetDirect(XFetched(3), w, a, get2x(xa, sp)), sp + 2), "POP",
                 [kind |-> "pop", a |-> a, w |-> w])
\* Register lists, from the highest register down and from the lowest up.
\* The code has one byte, the list is the second, and POP leaves SP alone.
XLists == {{0, 6}, {1}}
XHas(l, b, i) == i - b \in l
inst_PUSH_RLIST ==
  /\ XStackFits
  /\ \E w \in BOOLEAN, b \in {0, 8}, l \in XLists :
       LET hi == CHOOSE i \in l : \A j \in l : j <= i
           lo == CHOOSE i \in l : \A j \in l : i <= j
           sp == get_sp(xa)
           one == store2x(XFetched(2), sp - 2, XReg(xa, w, b + hi))
           all == IF hi = lo THEN one ELSE store2x(one, sp - 4, XReg(xa, w, b + lo))
       IN XStepP(set_sp(all, IF hi = lo THEN sp - 2 ELSE sp - 4), "PUSH", NoPush)
inst_POP_RLIST ==
  /\ XStackFits
  /\ \E w \in BOOLEAN, b \in {0, 8}, l \in XLists :
       LET hi == CHOOSE i \in l : \A j \in l : j <= i
           lo == CHOOSE i \in l : \A j \in l : i <= j
           sp == get_sp(xa)
           one == XSetReg(XFetched(2), w, b + lo, XGet(xa, w, sp))
       IN XStep(IF hi = lo THEN one ELSE XSetReg(one, w, b + hi, XGet(xa, w, sp + 2)), "POP")

\* NOP, BKPT, TRAP, what is marked as not done, forms without a case, and a
\* code that is not in the table: PC is set back by one byte of two.
inst_NOP == \E k \in {1, 2} : XStep(XFetched(k), "NOP")

\* exec_inst
XaNext ==
  \/ REG_REG \/ REG_IREG \/ IREG_REG \/ IREGOFF_REG \/ REG_IREGOFF \/ DIRECT_REG
  \/ REG_DIRECT \/ REG_DATA \/ IREG_DATA \/ IREGOFF_DATA \/ DIRECT_DATA
  \/ inst_ANL \/ inst_CLR \/ inst_SETB \/ inst_SEXT \/ inst_ASL \/ inst_ASR \/ inst_LEA \/ inst_MOVC
  \/ inst_BCC \/ inst_BCS \/ inst_BEQ \/ inst_BG \/ inst_BGE \/ inst_BGT \/ inst_BL
  \/ inst_BLE \/ inst_BLT \/ inst_BMI \/ inst_BNE \/ inst_BNV \/ inst_BOV \/ inst_BPL
  \/ inst_BR \/ inst_JNZ \/ inst_JZ \/ inst_JB \/ inst_JBC \/ inst_CJNE \/ inst_DJNZ
  \/ inst_JMP \/ inst_CALL \/ inst_RET \/ inst_RETI \/ inst_PUSH_DIRECT \/ inst_POP_DIRECT
  \/ inst_PUSH_RLIST \/ inst_POP_RLIST \/ inst_NOP
XaSpec == XaInit /\ [][XaNext]_xaVars
-----------------------------------------------------------------------------
(* A difference or sum of words done byte by byte, with SUB and SUBB or    *)
(* ADD and ADDC, has the value and the carry of the exact one, whatever    *)
(* flags are set before; after CMP of bytes BL is taken exactly when the   *)
(* first is not above the second.  Cells keep their widths.                *)
XaChains ==
  xaop.name # "reset" =>
  /\ \A a \in DOMAIN xa.sfr : xa.sfr[a] \in 0 .. 255
  /\ \A a \in DOMAIN xa.mem : a \in 0 .. 65535 /\ xa.mem[a] \in 0 .. 255
  /\ \A x, y \in XaWords :
       LET two(f, g) ==
             LET lo == FUNC(xa, f, FALSE, x % 256, y % 256)
                 hi == FUNC(lo[1], g, FALSE, x \div 256, y \div 256)
             IN <<256 * hi[2] + lo[2], xC(hi[1])>>
           cmp == FUNC(xa, "CMP", FALSE, x % 256, y % 256)[1]
       IN /\ two("ADD", "ADDC") = <<(x + y) % 65536, x + y > 65535>>
          /\ two("SUB", "SUBB") = <<(x - y) % 65536, x < y>>
          /\ (xZ(cmp) \/ xC(cmp)) = (x % 256 <= y % 256)

(* RET that finds the frame of a CALL at SP resumes after the CALL with SP *)
(* as it was, in page zero mode and without.  POP behind PUSH of a direct  *)
(* cell stores what that cell held, a pushed byte with a high byte of 0,   *)
(* in the cell it names, whatever that cell held, and SP is back.          *)
XaFrames ==
  [][/\ xaop'.name = "RET" /\ xaop.push.kind = "call" /\ xaop.push.sp = get_sp(xa)
        /\ pageZero(xa) = xaop.push.page /\ XPopPC(xa, get_sp(xa)) = xaop.push.pc
        => xa'.PC = xaop.push.back /\ get_sp(xa') = xaop.push.old
     /\ xaop.push.kind = "push" /\ xaop'.push.kind = "pop" /\ xaop.name = "PUSH" =>
          /\ XDirect(xa', xaop'.push.w, xaop'.push.a) = xaop.push.v % XModulus(xaop'.push.w)
          /\ get_sp(xa') = xaop.push.sp + 2]_xaVars

(* Arithmetic by bytes is that of words and the stack brings back what CALL*)
(* and PUSH stored, in any order of instructions: the two properties above.*)
XaExact == []XaChains /\ XaFrames
=============================================================================

------------------------------- MODULE Mcs51 -------------------------------
(***************************************************************************)
(* The moves, the logic, the bit instructions and the jumps of the MCS51   *)
(* core, on the memory map of the CC2530 (Alu51 has the arithmetic).  A    *)
(* cell is <<space, address>>; s.m holds the cells written so far.  The    *)
(* actions choose opcode and operands, so that the program is any sequence *)
(* of instructions.                                                        *)
(*                                                                         *)
(* Port 1 stands for the ports: reading it gives latch and pins together,  *)
(* and the instructions that read, change and write a cell read the latch  *)
(* (HW_PORT).                                                              *)
(***************************************************************************)
EXTENDS Integers, FiniteSets, TLC, Bitwise

CONSTANTS
  MDirects,   \* the direct addresses tried
  MBitAddrs,  \* the bit addresses tried
  MBytes,     \* the bytes of program and code memory tried
  MRels,      \* the relative jumps tried
  Mcs51Steps  \* bound: instructions executed

ASSUME Mcs51Assumption ==
  /\ MDirects \cup MBitAddrs \cup MBytes \subseteq 0 .. 255
  /\ MRels \subseteq -128 .. 127 /\ Mcs51Steps \in Nat

VARIABLES
  mcs51,    \* the processor
  mcsop     \* history: the last instruction and its bit address

mcs51Vars == <<mcs51, mcsop>>

mSP == <<"sfr", 129>>
mDPL == <<"sfr", 130>>
mDPH == <<"sfr", 131>>
mP1 == <<"sfr", 144>>
mMPAGE == <<"sfr", 147>>
mMCON == <<"sfr", 199>>
mPSW == <<"sfr", 208>>
mACC == <<"sfr", 224>>

\* Two states of a program: bank 0 and DPTR in sram, MCON selects a flash bank;
\* bank 1 and DPTR in the window of iram, MCON selects none.
Mcs51Init ==
  /\ \E b \in {0, 1} :
       mcs51 = [m |-> (mSP :> 127) @@ (mDPL :> 255) @@ (mDPH :> 30 + b) @@ (mP1 :> 255)
                       @@ (mACC :> 129) @@ (mPSW :> 136 * b) @@ (mMCON :> 4 * b)
                       @@ (mMPAGE :> 31) @@ (<<"iram", 0>> :> 9) @@ (<<"iram", 1>> :> 32)
                       @@ (<<"iram", 8>> :> 33) @@ (<<"iram", 9>> :> 208)
                       @@ (<<"iram", 32>> :> 85) @@ (<<"iram", 127>> :> 1),
                pins |-> 254, PC |-> 2046, dead |-> FALSE, n |-> 0]
  /\ mcsop = [name |-> "reset", bit |-> -1]
-----------------------------------------------------------------------------
MGet(s, c) == IF c \in DOMAIN s.m THEN s.m[c] ELSE 0
MBit(v, i) == (v \div 2^i) % 2
MOdd(v) == Cardinality({i \in 0 .. 7 : MBit(v, i) = 1}) % 2

\* cl_port::read, and the read that skips the port
MRead(s, c) == IF c = mP1 THEN MGet(s, c) & s.pins ELSE MGet(s, c)
MLatch(s, c) == MGet(s, c)

MPut(s, c, v) == [s EXCEPT !.m = (c :> v % 256) @@ @]
\* A write of ACC sets the parity bit of PSW first.
MWrite(s, c, v) ==
  LET psw == MGet(s, mPSW)
  IN MPut(IF c = mACC THEN MPut(s, mPSW, psw - (psw % 2) + MOdd(v % 256)) ELSE s, c, v)
wadd(s, c, k) == MWrite(s, c, MGet(s, c) + k)

get_direct(a) == IF a < 128 THEN <<"iram", a>> ELSE <<"sfr", a>>
get_reg(s, n) == <<"iram", (MGet(s, mPSW) & 24) + n>>
MSri(s, i) == <<"iram", MGet(s, get_reg(s, i))>>
MRn == {0, 1}
\* bit2mem
MBitCell(b) == IF b < 128 THEN <<"iram", 32 + (b \div 8)>> ELSE <<"sfr", 8 * (b \div 8)>>

\* cl_address_space::read and write of xram: its windows
xram_cell(s, a) ==
  CASE a < 7936 -> <<"sram", a>>
    [] a \in 7936 .. 8191 -> <<"iram", a - 7936>>
    [] a \in 28800 .. 28927 -> <<"sfr", a - 28672>>
    [] a >= 32768 -> IF MGet(s, mMCON) & 7 \in 0 .. 3
                     THEN <<"flash", (MGet(s, mMCON) & 7) * 32768 + (a - 32768)>>
                     ELSE <<"xram", a - 32768>>
    [] OTHER -> <<"xram", a>>

mA(s) == MGet(s, mACC)
mC(s) == MBit(MGet(s, mPSW), 7)
SFR_SET_C(s, c) == MPut(s, mPSW, (MGet(s, mPSW) % 128) + 128 * c)
dptr(s) == 256 * MGet(s, mDPH) + MGet(s, mDPL)
\* cl_memory::validate_address of the program memory
MValid(a) == IF a < 0 THEN a + 65536 ELSE IF a > 65536 THEN a % 65536 ELSE a

\* the processor after k bytes of program
MF(k) == [mcs51 EXCEPT !.PC = (@ + k) % 65536, !.n = @ + 1]
MStepB(s, name, b) ==
  /\ mcs51.n < Mcs51Steps /\ ~mcs51.dead
  /\ mcs51' = s /\ mcsop' = [name |-> name, bit |-> b]
MStep(s, name) == MStepB(s, name, -1)

\* What an instruction names: a direct address, @Ri or Rn, with the bytes of
\* opcode and operand.
MOperands(s) ==
  {<<get_direct(a), 2>> : a \in MDirects} \cup {<<MSri(s, i), 1>> : i \in MRn}
  \cup {<<get_reg(s, i), 1>> : i \in MRn}
MCells(s) == {o[1] : o \in MOperands(s)}
-----------------------------------------------------------------------------
(* mov.cc *)
inst_mov_Sdata ==
  \E o \in MOperands(mcs51) \cup {<<mACC, 1>>}, v \in MBytes :
    MStep(MWrite(MF(1 + o[2]), o[1], v), "mov")
\* movc: any byte of code
inst_movc_a_Sa_pc == \E v \in MBytes : MStep(MWrite(MF(1), mACC, v), "movc")
inst_mov_addr ==
  \E a \in MDirects, o \in MOperands(mcs51) :
    MStep(MWrite(MF(1 + o[2]), get_direct(a), MRead(mcs51, o[1])), "mov")
inst_mov_dptr_Sdata ==
  \E h, l \in MBytes : MStep(MWrite(MWrite(MF(3), mDPH, h), mDPL, l), "mov_dptr")
inst_movc_a_Sa_dptr == \E v \in MBytes : MStep(MWrite(MF(1), mACC, v), "movc")
inst_mov_from_addr ==
  \E a \in MDirects, i \in MRn : \E c \in {MSri(mcs51, i), get_reg(mcs51, i)} :
    MStep(MWrite(MF(2), c, MRead(mcs51, get_direct(a))), "mov")
MPush(s, a) ==
  LET t == wadd(s, mSP, 1)
  IN MWrite(t, <<"iram", MGet(t, mSP)>>, MRead(t, get_direct(a)))
inst_push51 == \E a \in MDirects : MStep(MPush(MF(2), a), "push")

MXch(s, c) == MWrite(MWrite(s, mACC, MRead(s, c)), c, mA(s))
inst_xch_a == \E o \in MOperands(mcs51) : MStep(MXch(MF(o[2]), o[1]), "xch")
MPop(s, a) ==
  wadd(MWrite(s, get_direct(a), MGet(s, <<"iram", MGet(s, mSP)>>)), mSP, -1)
inst_pop51 == \E a \in MDirects : MStep(MPop(MF(2), a), "pop")
inst_xchd_a_Sri ==
  \E i \in MRn :
    LET c == MSri(mcs51, i)
        d == MGet(mcs51, c)
        s == MWrite(MF(1), c, 16 * (d \div 16) + (mA(mcs51) % 16))
    IN MStep(MWrite(s, mACC, 16 * (mA(s) \div 16) + (d % 16)), "xchd")
inst_movx_a_Sdptr ==
  MStep(MWrite(MF(1), mACC, MRead(mcs51, xram_cell(mcs51, dptr(mcs51)))), "movx")
\* Below MPAGE 0x70 this is the window of the SFRs, read as an SFR number out
\* of range: any byte.
MPaged(i) == 256 * MGet(mcs51, mMPAGE) + MGet(mcs51, get_reg(mcs51, i))
inst_movx_a_Sri ==
  \E i \in MRn :
    IF MPaged(i) \in 28800 .. 28927
    THEN \E v \in MBytes : MStep(MWrite(MF(1), mACC, v), "movx")
    ELSE MStep(MWrite(MF(1), mACC, MRead(mcs51, xram_cell(mcs51, MPaged(i)))), "movx")
\* MOV A,ACC is not an instruction: an error is reported.
inst_mov_a ==
  \E o \in MOperands(mcs51) :
    MStep(IF o[1] = mACC THEN MF(2) ELSE MWrite(MF(o[2]), mACC, MRead(mcs51, o[1])), "mov_a")
\* The write of an SFR through its window is one of a number out of range,
\* which ends the program with an assertion.
MMovxWrite(a) ==
  MStep(IF a \in 28800 .. 28927 THEN [MF(1) EXCEPT !.dead = TRUE]
        ELSE MWrite(MF(1), xram_cell(mcs51, a), mA(mcs51)), "movx")
inst_movx_Sdptr_a == MMovxWrite(dptr(mcs51))
inst_movx_Sri_a == \E i \in MRn : MMovxWrite(MPaged(i))
inst_mov_to ==
  \E o \in MOperands(mcs51) : MStep(MWrite(MF(o[2]), o[1], mA(mcs51)), "mov")
-----------------------------------------------------------------------------
(* logic.cc and inc.cc.  The destination is read as latch, A is not.       *)
MLogic(f, x, y) == IF f = "orl" THEN x | y ELSE IF f = "anl" THEN x & y ELSE x ^^ y
MLogicTo(f) ==
  \/ \E a \in MDirects :
       LET c == get_direct(a)
       IN \/ MStep(MWrite(MF(2), c, MLogic(f, MLatch(mcs51, c), mA(mcs51))), f)
          \/ \E v \in MBytes : MStep(MWrite(MF(3), c, MLogic(f, MLatch(mcs51, c), v)), f)
  \/ \E v \in MBytes : MStep(MWrite(MF(2), mACC, MLogic(f, mA(mcs51), v)), f)
  \/ \E o \in MOperands(mcs51) :
       MStep(MWrite(MF(o[2]), mACC, MLogic(f, mA(mcs51), MRead(mcs51, o[1]))), f)
inst_orl == MLogicTo("orl")
inst_anl == MLogicTo("anl")
inst_xrl == MLogicTo("xrl")
inst_cpl_a == MStep(MWrite(MF(1), mACC, 255 - mA(mcs51)), "cpl_a")
\* INC and DEC read the latch of a direct address; DEC @Ri adds without a write.
inst_inc51 ==
  \E o \in MOperands(mcs51) \cup {<<mACC, 1>>} : MStep(wadd(MF(o[2]), o[1], 1), "inc")
inst_dec51 ==
  \E o \in MOperands(mcs51) \cup {<<mACC, 1>>} : MStep(wadd(MF(o[2]), o[1], -1), "dec")
inst_inc_dptr ==
  LET d == dptr(mcs51) + 1
  IN MStep(MWrite(MWrite(MF(1), mDPH, d \div 256), mDPL, d), "inc_dptr")
-----------------------------------------------------------------------------
(* bit.cc *)
MBitOf(s, b) == MBit(MRead(s, MBitCell(b)), b % 8)
\* Seeded fault: the cell is read from the pins, not from the latch.
Fault_MSetBit(s, b, v) ==
  LET d == MRead(s, MBitCell(b))
  IN MWrite(s, MBitCell(b), d + (v - MBit(d, b % 8)) * 2^(b % 8))

MSetBit(s, b, v) ==
  LET d == MLatch(s, MBitCell(b))
  IN MWrite(s, MBitCell(b), d + (v - MBit(d, b % 8)) * 2^(b % 8))
MLatchBit(s, b) == MBit(MLatch(s, MBitCell(b)), b % 8)
MToC(v, name) == MStep(SFR_SET_C(MF(2), v), name)
inst_orl_c_bit == \E b \in MBitAddrs : MToC(IF mC(mcs51) + MBitOf(mcs51, b) > 0 THEN 1 ELSE 0, "c")
inst_anl_c_bit == \E b \in MBitAddrs : MToC(mC(mcs51) * MBitOf(mcs51, b), "c")
inst_mov_bit_c == \E b \in MBitAddrs : MStepB(MSetBit(MF(2), b, mC(mcs51)), "bit", b)
inst_mov_c_bit == \E b \in MBitAddrs : MToC(MBitOf(mcs51, b), "c")
inst_orl_c_Sbit ==
  \E b \in MBitAddrs : MToC(IF mC(mcs51) = 1 \/ MBitOf(mcs51, b) = 0 THEN 1 ELSE 0, "c")
inst_anl_c_Sbit == \E b \in MBitAddrs : MToC(mC(mcs51) * (1 - MBitOf(mcs51, b)), "c")
inst_cpl_bit ==
  \E b \in MBitAddrs : MStepB(MSetBit(MF(2), b, 1 - MLatchBit(mcs51, b)), "bit", b)
inst_cpl_c == MStep(SFR_SET_C(MF(1), 1 - mC(mcs51)), "c")
inst_clr_bit == \E b \in MBitAddrs : MStepB(MSetBit(MF(2), b, 0), "bit", b)
inst_clr_c == MStep(SFR_SET_C(MF(1), 0), "c")
inst_setb_bit == \E b \in MBitAddrs : MStepB(MSetBit(MF(2), b, 1), "bit", b)
inst_setb_c == MStep(SFR_SET_C(MF(1), 1), "c")
-----------------------------------------------------------------------------
(* jmp.cc *)
MRel(s, c) == {IF c THEN [s EXCEPT !.PC = MValid(@ + k)] ELSE s : k \in MRels}
MGoto(s, a) == [s EXCEPT !.PC = a]
MCallTo(s, a) ==
  LET t == wadd(s, mSP, 1)
      u == wadd(MWrite(t, <<"iram", MGet(t, mSP)>>, s.PC % 256), mSP, 1)
  IN MGoto(MWrite(u, <<"iram", MGet(u, mSP)>>, s.PC \div 256), a)
MReturn(s) ==
  LET h == MGet(s, <<"iram", MGet(s, mSP)>>)
      t == wadd(s, mSP, -1)
      l == MGet(t, <<"iram", MGet(t, mSP)>>)
  IN MGoto(wadd(t, mSP, -1), 256 * h + l)
MPage(pc, h, l) == 2048 * (pc \div 2048) + 256 * h + l

inst_ajmp_addr == \E l \in MBytes : MStep(MGoto(MF(2), MPage(MF(2).PC, 7, l)), "jmp")
\* the bit is read from the latch, and written even if it is clear
inst_jbc_bit_addr ==
  \E b \in MBitAddrs :
    \E s \in MRel(MSetBit(MF(3), b, 0), MLatchBit(mcs51, b) = 1) : MStepB(s, "bit", b)
inst_ljmp == \E h, l \in MBytes : MStep(MGoto(MF(3), 256 * h + l), "jmp")
inst_acall_addr == \E l \in MBytes : MStep(MCallTo(MF(2), MPage(MF(2).PC, 0, l)), "call")
inst_lcall == \E h, l \in MBytes : MStep(MCallTo(MF(3), 256 * h + l), "call")
inst_jb_bit_addr ==
  \E b \in MBitAddrs : \E s \in MRel(MF(3), MBitOf(mcs51, b) = 1) : MStep(s, "jmp")
inst_ret51 == MStep(MReturn(MF(1)), "ret")
inst_jnb_bit_addr ==
  \E b \in MBitAddrs : \E s \in MRel(MF(3), MBitOf(mcs51, b) = 0) : MStep(s, "jmp")
inst_jc_addr == \E s \in MRel(MF(2), mC(mcs51) = 1) : MStep(s, "jmp")
inst_jnc_addr == \E s \in MRel(MF(2), mC(mcs51) = 0) : MStep(s, "jmp")
inst_jz_addr == \E s \in MRel(MF(2), mA(mcs51) = 0) : MStep(s, "jmp")
inst_jnz_addr == \E s \in MRel(MF(2), mA(mcs51) # 0) : MStep(s, "jmp")
inst_jmp_Sa_dptr == MStep(MGoto(MF(1), MValid(dptr(mcs51) + mA(mcs51))), "jmp")
inst_sjmp == \E s \in MRel(MF(2), TRUE) : MStep(s, "jmp")
\* A with a byte or a direct address, @Ri or Rn with a byte
MCompare(x, y) ==
  \E s \in MRel(SFR_SET_C(MF(3), IF x < y THEN 1 ELSE 0), x # y) : MStep(s, "cjne")
inst_cjne ==
  \/ \E v \in MBytes : MCompare(mA(mcs51), v)
  \/ \E a \in MDirects : MCompare(mA(mcs51), MRead(mcs51, get_direct(a)))
  \/ \E i \in MRn, v \in MBytes : \E c \in {MSri(mcs51, i), get_reg(mcs51, i)} :
       MCompare(MGet(mcs51, c), v)
inst_djnz51 ==
  \E o \in MOperands(mcs51) \ {<<MSri(mcs51, i), 1>> : i \in MRn} :
    LET s == wadd(MF(1 + o[2]), o[1], -1)
    IN \E t \in MRel(s, MGet(s, o[1]) # 0) : MStep(t, "djnz")
inst_nop51 == MStep(MF(1), "nop")

\* exec_inst without the arithmetic
Mcs51Next ==
  \/ inst_mov_Sdata \/ inst_movc_a_Sa_pc \/ inst_mov_addr \/ inst_mov_dptr_Sdata
  \/ inst_movc_a_Sa_dptr \/ inst_mov_from_addr \/ inst_push51 \/ inst_xch_a \/ inst_pop51
  \/ inst_xchd_a_Sri \/ inst_movx_a_Sdptr \/ inst_movx_a_Sri \/ inst_mov_a
  \/ inst_movx_Sdptr_a \/ inst_movx_Sri_a \/ inst_mov_to
  \/ inst_orl \/ inst_anl \/ inst_xrl \/ inst_cpl_a \/ inst_inc51 \/ inst_dec51 \/ inst_inc_dptr
  \/ inst_orl_c_bit \/ inst_anl_c_bit \/ inst_mov_bit_c \/ inst_mov_c_bit \/ inst_orl_c_Sbit
  \/ inst_anl_c_Sbit \/ inst_cpl_bit \/ inst_cpl_c \/ inst_clr_bit \/ inst_clr_c
  \/ inst_setb_bit \/ inst_setb_c
  \/ inst_ajmp_addr \/ inst_jbc_bit_addr \/ inst_ljmp \/ inst_acall_addr \/ inst_lcall
  \/ inst_jb_bit_addr \/ inst_ret51 \/ inst_jnb_bit_addr \/ inst_jc_addr \/ inst_jnc_addr
  \/ inst_jz_addr \/ inst_jnz_addr \/ inst_jmp_Sa_dptr \/ inst_sjmp \/ inst_cjne \/ inst_djnz51
  \/ inst_nop51
Mcs51Spec == Mcs51Init /\ [][Mcs51Next]_mcs51Vars
-----------------------------------------------------------------------------
(* Instructions that undo each other do so on every cell, in every state a *)
(* program reaches: XCH twice, PUSH and POP of the same address, a call    *)
(* and its return.  Excepted are SP as operand and, for XCH, the port,     *)
(* whose pins are read.  Cells stay bytes.                                 *)
Mcs51Undo ==
  mcsop.name # "reset" =>
  /\ \A c \in DOMAIN mcs51.m : mcs51.m[c] \in 0 .. 255
  /\ LET same(s, t, but) ==
           \A c \in (DOMAIN s.m \cup DOMAIN t.m) \ but : MGet(s, c) = MGet(t, c)
         sp == MGet(mcs51, mSP)
         top == {<<"iram", (sp + 1) % 256>>, <<"iram", (sp + 2) % 256>>}
     IN /\ \A c \in MCells(mcs51) \ {mP1} : same(MXch(MXch(mcs51, c), c), mcs51, {mPSW})
        /\ MGet(MXch(MXch(mcs51, mPSW), mPSW), mPSW) = MGet(mcs51, mPSW)
        /\ \A a \in MDirects \ {mSP[2], mP1[2]} :
             get_direct(a) \notin top =>
               same(MPop(MPush(mcs51, a), a), mcs51, top \cup {mPSW})
        /\ MReturn(MCallTo(mcs51, 0)).PC = mcs51.PC % 65536

(* An instruction on a bit changes that bit of its cell and no other bit   *)
(* of any cell, the parity bit after a bit of ACC excepted: the others are *)
(* written back as they were in the latch, whatever the pins of the port   *)
(* are.                                                                    *)
Mcs51BitOnly ==
  [][mcsop'.name = "bit" =>
       LET b == mcsop'.bit
           c == MBitCell(b)
           old(d, i) == MBit(MGet(mcs51, d), i)
           new(d, i) == MBit(MGet(mcs51', d), i)
       IN \A d \in DOMAIN mcs51.m \cup DOMAIN mcs51'.m, i \in 0 .. 7 :
            old(d, i) # new(d, i) => <<d, i>> = <<c, b % 8>> \/ (c = mACC /\ <<d, i>> = <<mPSW, 0>>)
    ]_mcs51Vars

(* The addressing modes of the MCS51 are consistent: inverse instructions  *)
(* undo each other and bit instructions touch one bit, as stated above.    *)
Mcs51Exact == []Mcs51Undo /\ Mcs51BitOnly
=============================================================================

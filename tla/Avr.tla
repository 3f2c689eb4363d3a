-------------------------------- MODULE Avr --------------------------------
(***************************************************************************)
(* The instructions of the AVR simulator (cl_avr, avr.src).  Registers,    *)
(* SREG and the stack pointer are cells of ram, which is the only state    *)
(* besides PC.  ram has a chip for 128 cells, so the operands are chosen   *)
(* below 128.  The program memory is not kept: a skip chooses the length   *)
(* of the next instruction.  validate_address leaves the size itself.      *)
(***************************************************************************)
EXTENDS Integers, TLC, Bitwise

CONSTANTS
  AvrRegs,   \* the registers tried
  AvrBytes,  \* the constants tried
  AvrPorts,  \* the I/O registers tried
  AvrSteps   \* bound: instructions executed

ASSUME AvrAssumption ==
  /\ AvrRegs \subseteq 0 .. 31 /\ AvrBytes \subseteq 0 .. 255
  /\ AvrPorts \subseteq 0 .. 31 /\ AvrSteps \in Nat

VARIABLES
  avr,       \* the processor: ram, PC
  avrop      \* history: the last instruction and the last call

avrVars == <<avr, avrop>>

XL == 26
YL == 28
ZL == 30
SPL == 93
SREG == 95

aC == 0
aZ == 1
aN == 2
aV == 3
aS == 4
aH == 5
aT == 6
aI == 7

AvrInit ==
  /\ avr = [ram |-> (0 :> 127) @@ (1 :> 128) @@ (16 :> 255) @@ (17 :> 5) @@ (24 :> 255)
                    @@ (25 :> 127) @@ (XL :> 96) @@ (YL :> 100) @@ (ZL :> 0)
                    @@ (99 :> 7) @@ (100 :> 129) @@ (SPL :> 120) @@ (SREG :> 1),
            PC |-> 300, n |-> 0]
  /\ avrop = [name |-> "reset", ret |-> <<0, 0, 0>>]
-----------------------------------------------------------------------------
rd(s, a) == IF a \in DOMAIN s.ram THEN s.ram[a] ELSE 0
wr(s, a, v) == [s EXCEPT !.ram = (a :> v % 256) @@ @]
Word(s, a) == 256 * rd(s, a + 1) + rd(s, a)
SetWord(s, a, w) == wr(wr(s, a, w % 256), a + 1, (w \div 256) % 256)
b7(v) == (v \div 128) % 2 = 1
BitOf(v, i) == (v \div 2^i) % 2 = 1
InChip(a) == a \in 0 .. 127

SregBits(s) == {i \in 0 .. 7 : BitOf(rd(s, SREG), i)}
SetSreg(s, f) ==
  LET w(i) == IF i \in f THEN 2^i ELSE 0
  IN wr(s, SREG, w(0) + w(1) + w(2) + w(3) + w(4) + w(5) + w(6) + w(7))
\* The flags in `mask' become those in f.
UpdateSreg(s, mask, f) == SetSreg(s, (SregBits(s) \ mask) \cup (f \cap mask))
If(c, f) == IF c THEN {f} ELSE {}
Sign(f) == f \cup If((aN \in f) # (aV \in f), aS)
AvrCarry(s) == IF aC \in SregBits(s) THEN 1 ELSE 0

validate_address(a) == IF a < 0 THEN a + 65536 ELSE IF a > 65536 THEN a % 65536 ELSE a
Next1(s) == [s EXCEPT !.PC = (@ + 1) % 65536, !.n = @ + 1]
Now == Next1(avr)

AvrStep(s, name) ==
  /\ avr.n < AvrSteps
  /\ avr' = s
  /\ avrop' = [avrop EXCEPT !.name = name]
-----------------------------------------------------------------------------
(* Additions.  H does not count the carry that comes in.                   *)
SumFlags(D, R, t) ==
  LET res == t % 256
  IN Sign(If(res = 0, aZ) \cup If(b7(res), aN) \cup If(t > 255, aC)
          \cup If((R % 16) + (D % 16) > 15, aH)
          \cup If(b7(D) = b7(R) /\ b7(res) # b7(D), aV))

Add(s, d, D, R, c) ==
  UpdateSreg(wr(s, d, D + R + c), 0 .. 5, SumFlags(D, R, D + R + c))
add_Rd_Rr ==
  \E d, r \in AvrRegs : AvrStep(Add(Now, d, rd(avr, d), rd(avr, r), 0), "add")
adc_Rd_Rr ==
  \E d, r \in AvrRegs : AvrStep(Add(Now, d, rd(avr, d), rd(avr, r), AvrCarry(avr)), "adc")

(* Subtractions and comparisons.  D and R count as signed bytes, which is  *)
(* the same in the low eight bits; the flags come from D, R and the        *)
(* result.                                                                 *)
AvrBorrow(D, R, res, i) ==
  LET d == BitOf(D, i)  r == BitOf(R, i)  q == BitOf(res, i)
  IN (~d /\ r) \/ (r /\ q) \/ (q /\ ~d)
DiffFlags(D, R, res) ==
  Sign(If(AvrBorrow(D, R, res, 3), aH) \cup If(AvrBorrow(D, R, res, 7), aC) \cup If(b7(res), aN)
       \cup If(b7(D) # b7(R) /\ b7(res) # b7(D), aV)) \cup If(res = 0, aZ)
Sub(s, D, R) == UpdateSreg(s, 0 .. 5, DiffFlags(D, R, (D - R) % 256))
\* With carry: `D-R-(C)?1:0' is 1, or 0 when the difference is 0; Z is only
\* ever cleared.
SbcResult(s, D, R) ==
  LET sg(b) == IF b > 127 THEN b - 256 ELSE b
  IN IF sg(D) - sg(R) - AvrCarry(s) = 0 THEN 0 ELSE 1
Sbc(s, D, R) ==
  LET res == SbcResult(s, D, R)
      f   == DiffFlags(D, R, res) \ {aZ}
  IN UpdateSreg(s, {aH, aS, aV, aN, aC} \cup If(res # 0, aZ), f)

cp_Rd_Rr == \E d, r \in AvrRegs : AvrStep(Sub(Now, rd(avr, d), rd(avr, r)), "cp")
cpc_Rd_Rr == \E d, r \in AvrRegs : AvrStep(Sbc(Now, rd(avr, d), rd(avr, r)), "cpc")
sub_Rd_Rr ==
  \E d, r \in AvrRegs :
    LET D == rd(avr, d)  R == rd(avr, r) IN AvrStep(Sub(wr(Now, d, D - R), D, R), "sub")
sbc_Rd_Rr ==
  \E d, r \in AvrRegs :
    LET D == rd(avr, d)  R == rd(avr, r)
    IN AvrStep(Sbc(wr(Now, d, SbcResult(avr, D, R)), D, R), "sbc")
\* Immediate: the precedence of `16+(code&0xf0)>>4' makes the register one
\* more than the field, and the two halves of K are laid over each other.
Field(k) == 1 + k
Over(K) == (K % 16) | (K \div 16)
cpi_Rd_K ==
  \E k \in {0, 15}, K \in AvrBytes : AvrStep(Sub(Now, rd(avr, Field(k)), Over(K)), "cp")
subi_Rd_K ==
  \E k \in {0, 15}, K \in AvrBytes :
    LET D == rd(avr, Field(k))
    IN AvrStep(Sub(wr(Now, Field(k), D - Over(K)), D, Over(K)), "sub")
sbci_Rd_K ==
  \E k \in {0, 15}, K \in AvrBytes :
    LET D == rd(avr, Field(k))
    IN AvrStep(Sbc(wr(Now, Field(k), SbcResult(avr, D, Over(K))), D, Over(K)), "sbc")

\* ADIW sets V when both words are negative; SBIW takes K as a signed number
\* of six bits.
Hi(w) == w > 32767
adiw_Rdl_K ==
  \E dl \in {24, 30}, K \in {x \in AvrBytes : x < 64} :
    LET D == Word(avr, dl)
        res == (D + K) % 65536
        f == Sign(If(Hi(D) /\ Hi(res), aV) \cup If(Hi(res), aN)) \cup If(res = 0, aZ)
             \cup If(Hi(D) /\ ~Hi(res), aC)
    IN AvrStep(UpdateSreg(SetWord(Now, dl, res), 0 .. 4, f), "adiw")
sbiw_Rdl_K ==
  \E dl \in {24, 30}, K \in {x \in AvrBytes : x < 64} :
    LET D == Word(avr, dl)
        res == (D - (IF K > 31 THEN K - 64 ELSE K)) % 65536
        f == Sign(If(Hi(D) /\ ~Hi(res), aV) \cup If(Hi(res), aN)) \cup If(res = 0, aZ)
             \cup If(Hi(res) /\ ~Hi(D), aC)
    IN AvrStep(UpdateSreg(SetWord(Now, dl, res), 0 .. 4, f), "sbiw")
mul_Rd_Rr ==
  \E d, r \in AvrRegs :
    LET w == rd(avr, d) * rd(avr, r)
    IN AvrStep(UpdateSreg(SetWord(Now, 0, w), {aC}, If(Hi(w), aC)), "mul")
-----------------------------------------------------------------------------
(* One register.                                                           *)
Unary(s, d, res, mask, f) == UpdateSreg(wr(s, d, res), mask, Sign(f))
NZ(res) == If(res = 0, aZ) \cup If(b7(res), aN)
com_Rd ==
  \E d \in AvrRegs :
    LET res == 255 - rd(avr, d) IN AvrStep(Unary(Now, d, res, 0 .. 4, NZ(res) \cup {aC}), "com")
\* H of NEG looks at the number of the register.
neg_Rd ==
  \E d \in AvrRegs :
    LET res == (256 - rd(avr, d)) % 256
    IN AvrStep(Unary(Now, d, res, 0 .. 5,
                     NZ(res) \cup If(res # 0, aC) \cup If(res = 128, aV)
                     \cup If(BitOf(res, 3) /\ ~BitOf(d, 3), aH)), "neg")
inc_Rd ==
  \E d \in AvrRegs :
    LET res == (rd(avr, d) + 1) % 256
    IN AvrStep(Unary(Now, d, res, {aS, aV, aN, aZ}, NZ(res) \cup If(res = 128, aV)), "inc")
dec_Rd ==
  \E d \in AvrRegs :
    LET res == (rd(avr, d) - 1) % 256
    IN AvrStep(Unary(Now, d, res, {aS, aV, aN, aZ}, NZ(res) \cup If(res = 127, aV)), "dec")
\* The bit shifted out is carry, and V tells it from N.
ShiftOut(s, d, res, low) ==
  Unary(s, d, res, 0 .. 4, NZ(res) \cup If(low, aC) \cup If(b7(res) # low, aV))
LowBit(d) == rd(avr, d) % 2 = 1
asr_Rd ==
  \E d \in AvrRegs :
    LET D == rd(avr, d)
    IN AvrStep(ShiftOut(Now, d, (D \div 2) + (IF b7(D) THEN 128 ELSE 0), LowBit(d)), "asr")
lsr_Rd == \E d \in AvrRegs : AvrStep(ShiftOut(Now, d, rd(avr, d) \div 2, LowBit(d)), "lsr")
\* `(D>>1)|oldc?0x80:0' is 80 unless both are zero.
ror_Rd ==
  \E d \in AvrRegs :
    LET res == IF rd(avr, d) < 2 /\ AvrCarry(avr) = 0 THEN 0 ELSE 128
    IN AvrStep(ShiftOut(Now, d, res, LowBit(d)), "ror")
swap_Rd ==
  \E d \in AvrRegs :
    LET D == rd(avr, d) IN AvrStep(wr(Now, d, 16 * (D % 16) + (D \div 16)), "swap")
-----------------------------------------------------------------------------
(* Logic.  ORI and ANDI read the register 16 below the one they write.     *)
set_zn0s(s, v) == UpdateSreg(s, {aZ, aN, aV, aS}, Sign(NZ(v)))
Logical(d, v) == AvrStep(set_zn0s(wr(Now, d, v), v), "logic")
and_Rd_Rr == \E d, r \in AvrRegs : Logical(d, rd(avr, d) & rd(avr, r))
eor_Rd_Rr == \E d, r \in AvrRegs : Logical(d, rd(avr, d) ^^ rd(avr, r))
or_Rd_Rr  == \E d, r \in AvrRegs : Logical(d, rd(avr, d) | rd(avr, r))
ori_Rd_K  == \E k \in {0, 15}, K \in AvrBytes : Logical(k + 16, rd(avr, k) | K)
andi_Rd_K == \E k \in {0, 15}, K \in AvrBytes : Logical(k + 16, rd(avr, k) & K)

\* SEC .. SEH and CLC .. CLH.
set_flag == \E f \in 0 .. 7 : AvrStep(UpdateSreg(Now, {f}, {f}), "flag")
clear_flag == \E f \in 0 .. 7 : AvrStep(UpdateSreg(Now, {f}, {}), "flag")
PutBit(v, i, on) == IF BitOf(v, i) = on THEN v ELSE IF on THEN v + 2^i ELSE v - 2^i
\* CBI and SBI.
change_io_bit ==
  \E p \in AvrPorts, i \in {0, 7}, on \in BOOLEAN :
    AvrStep(wr(Now, p + 32, PutBit(rd(avr, p + 32), i, on)), "io")
bld_Rd_b ==
  \E d \in AvrRegs, i \in {0, 7} :
    AvrStep(wr(Now, d, PutBit(rd(avr, d), i, aT \in SregBits(avr))), "bld")
bst_Rd_b ==
  \E d \in AvrRegs, i \in {0, 7} :
    AvrStep(UpdateSreg(Now, {aT}, If(BitOf(rd(avr, d), i), aT)), "bst")
-----------------------------------------------------------------------------
(* Moves.  The pointer is X, Y or Z, alone, with an offset, before a       *)
(* decrement or after an increment.  A pointer register that is loaded     *)
(* through itself is changed after the load.                               *)
ldi_Rd_K == \E k \in {0, 15}, K \in AvrBytes : AvrStep(wr(Now, k + 16, K), "ldi")
mov_Rd_Rr == \E d, r \in AvrRegs : AvrStep(wr(Now, d, rd(avr, r)), "mov")
lpm == \E K \in AvrBytes : AvrStep(wr(Now, 0, K), "lpm")
in_Rd_A == \E d \in AvrRegs, p \in AvrPorts : AvrStep(wr(Now, d, rd(avr, p + 32)), "in")
out_A_Rr == \E d \in AvrRegs, p \in AvrPorts : AvrStep(wr(Now, p + 32, rd(avr, d)), "out")
Pointers == {XL, YL, ZL}
\* ldd_Rd_Z_q, ldd_Rd_Y_q and ld_Rd_X.
ldd ==
  \E d \in AvrRegs, p \in Pointers, q \in {0, 3} :
    /\ p = XL => q = 0
    /\ InChip(Word(avr, p) + q)
    /\ AvrStep(wr(Now, d, rd(avr, Word(avr, p) + q)), "ld")
std ==
  \E d \in AvrRegs, p \in Pointers, q \in {0, 3} :
    /\ p = XL => q = 0
    /\ InChip(Word(avr, p) + q)
    /\ AvrStep(wr(Now, Word(avr, p) + q, rd(avr, d)), "st")
\* The pointer's low byte is stepped, and the high byte when it wraps.
StepWord(s, p, k) ==
  LET lo == (rd(s, p) + k) % 256
      t == wr(s, p, lo)
  IN IF lo = (IF k = 1 THEN 0 ELSE 255) THEN wr(t, p + 1, rd(t, p + 1) + k) ELSE t
LdInc(p) ==
  \E d \in AvrRegs :
    /\ InChip(Word(avr, p))
    /\ AvrStep(StepWord(wr(Now, d, rd(avr, Word(avr, p))), p, 1), "ld")
StInc(p) ==
  \E d \in AvrRegs :
    /\ InChip(Word(avr, p))
    /\ AvrStep(StepWord(wr(Now, Word(avr, p), rd(avr, d)), p, 1), "st")
LdDec(p) ==
  \E d \in AvrRegs :
    LET s == StepWord(Now, p, -1)
    IN InChip(Word(s, p)) /\ AvrStep(wr(s, d, rd(s, Word(s, p))), "ld")
StDec(p) ==
  \E d \in AvrRegs :
    LET s == StepWord(Now, p, -1)
    IN InChip(Word(s, p)) /\ AvrStep(wr(s, Word(s, p), rd(s, d)), "st")
ld_Rd_ZS == LdInc(ZL)
ld_Rd_SZ == LdDec(ZL)
st_ZS_Rr == StInc(ZL)
st_SZ_Rr == StDec(ZL)
ld_Rd_YS == LdInc(YL)
ld_Rd_SY == LdDec(YL)
st_YS_Rr == StInc(YL)
st_SY_Rr == StDec(YL)
ld_Rd_XS == LdInc(XL)
ld_Rd_SX == LdDec(XL)
st_XS_Rr == StInc(XL)
st_SX_Rr == StDec(XL)
lds_Rd_k == \E d \in AvrRegs, k \in {96, 100} : AvrStep(wr(Next1([Now EXCEPT !.n = @ - 1]), d, rd(avr, k)), "ld")
sts_k_Rr == \E d \in AvrRegs, k \in {96, 100} : AvrStep(wr(Next1([Now EXCEPT !.n = @ - 1]), k, rd(avr, d)), "st")

SetSP(s, w) == SetWord(s, SPL, w % 65536)
Room == Word(avr, SPL) \in 98 .. 125
push_Rr ==
  /\ Room
  /\ \E d \in AvrRegs :
       AvrStep(SetSP(wr(Now, Word(avr, SPL), rd(avr, d)), Word(avr, SPL) - 1), "push")
pop_Rd ==
  /\ Room
  /\ \E d \in AvrRegs :
       AvrStep(wr(SetSP(Now, Word(avr, SPL) + 1), d, rd(avr, Word(avr, SPL) + 1)), "pop")
-----------------------------------------------------------------------------
(* Jumps, calls and skips.                                                 *)
\* The high byte of the address is pushed first.
push_addr(s, a) ==
  LET sp == Word(s, SPL)
  IN SetSP(wr(wr(s, sp, (a \div 256) % 256), sp - 1, a % 256), sp - 2)

pop_addr(s) ==
  LET sp == Word(s, SPL) IN 256 * rd(s, sp + 2) + rd(s, sp + 1)

Jumps(k) == AvrStep([Now EXCEPT !.PC = validate_address(k)], "jmp")
rjmp_k == \E k \in {-2048, 5, 2047} : Jumps(Now.PC + k)
ijmp == Jumps(Word(avr, ZL))
jmp_k == \E k \in {2, 65535} : Jumps(k)
AvrCalls(s, k) ==
  /\ avr.n < AvrSteps /\ Room
  /\ avr' = [push_addr(s, s.PC) EXCEPT !.PC = k]
  /\ avrop' = [name |-> "call", ret |-> <<s.PC, Word(avr', SPL), pop_addr(push_addr(s, s.PC))>>]
rcall_k == \E k \in {-2048, 5} : AvrCalls(Now, validate_address(Now.PC + k))
icall == AvrCalls(Now, Word(avr, ZL))
call_k == \E k \in {2, 65535} : AvrCalls(Next1([Now EXCEPT !.n = @ - 1]), k)

\* Seeded fault: one of the two cells is given back.
Fault_Back(s) == [SetSP(s, Word(s, SPL) + 1) EXCEPT !.PC = validate_address(pop_addr(s))]

Back(s) == [SetSP(s, Word(s, SPL) + 2) EXCEPT !.PC = validate_address(pop_addr(s))]
ret == Room /\ AvrStep(Back(Now), "ret")
reti == Room /\ AvrStep(UpdateSreg(Back(Now), {aI}, {aI}), "ret")
\* BRBS and BRBC.
branch ==
  \E f \in 0 .. 7, on \in BOOLEAN, k \in {-64, 63} :
    AvrStep(IF (f \in SregBits(avr)) = on
            THEN [Now EXCEPT !.PC = validate_address(@ + k)] ELSE Now, "br")

\* CPSE, SBRC and SBRS: the next instruction has len words, or is not in the
\* table (0).
SkipNext(c, len) ==
  AvrStep(IF c THEN [Now EXCEPT !.PC = validate_address(@ + len)] ELSE Now, "skip")
cpse_Rd_Rr == \E d, r \in AvrRegs, len \in 0 .. 2 : SkipNext(rd(avr, d) = rd(avr, r), len)
skip_reg ==
  \E d \in AvrRegs, i \in {0, 7}, on \in BOOLEAN, len \in 0 .. 2 :
    SkipNext(BitOf(rd(avr, d), i) = on, len)
\* SBIC and SBIS pass the code of the next instruction as an address, so that
\* they skip as many words as the instruction at that address has.
skip_io ==
  \E p \in AvrPorts, i \in {0, 7}, on \in BOOLEAN, len \in {1, 2} :
    AvrStep(IF BitOf(rd(avr, p + 32), i) = on
            THEN [Now EXCEPT !.PC = (@ + len) % 65536] ELSE Now, "skip")
\* NOP, SLEEP, WDR, ELPM, SPM, MOVW, MULS, FMUL, EIJMP, EICALL and codes that
\* are not known.
nop == AvrStep(Now, "nop")

\* exec_inst
AvrNext ==
  \/ add_Rd_Rr \/ adc_Rd_Rr \/ cp_Rd_Rr \/ cpc_Rd_Rr \/ sub_Rd_Rr \/ sbc_Rd_Rr \/ cpi_Rd_K
  \/ subi_Rd_K \/ sbci_Rd_K \/ adiw_Rdl_K \/ sbiw_Rdl_K \/ mul_Rd_Rr \/ com_Rd \/ neg_Rd
  \/ inc_Rd \/ dec_Rd \/ asr_Rd \/ lsr_Rd \/ ror_Rd \/ swap_Rd \/ and_Rd_Rr \/ eor_Rd_Rr
  \/ or_Rd_Rr \/ ori_Rd_K \/ andi_Rd_K \/ set_flag \/ clear_flag \/ change_io_bit
  \/ bld_Rd_b \/ bst_Rd_b \/ ldi_Rd_K \/ mov_Rd_Rr \/ lpm \/ in_Rd_A \/ out_A_Rr \/ ldd
  \/ std \/ ld_Rd_ZS \/ ld_Rd_SZ \/ st_ZS_Rr \/ st_SZ_Rr \/ ld_Rd_YS
  \/ ld_Rd_SY \/ st_YS_Rr \/ st_SY_Rr \/ ld_Rd_XS \/ ld_Rd_SX \/ st_XS_Rr \/ st_SX_Rr
  \/ lds_Rd_k \/ sts_k_Rr \/ push_Rr
  \/ pop_Rd \/ rjmp_k \/ ijmp \/ jmp_k \/ rcall_k \/ icall \/ call_k \/ ret \/ reti
  \/ branch \/ cpse_Rd_Rr \/ skip_reg \/ skip_io \/ nop
AvrSpec == AvrInit /\ [][AvrNext]_avrVars
-----------------------------------------------------------------------------
(* A sum of words done with ADD and ADC has the value and the carry of the *)
(* word sum; after CP, CPI, SUB and SUBI of bytes C orders them unsigned   *)
(* and S signed (CPC, SBC and SBCI, which take the carry in, do not: they  *)
(* are left out), and S is N xor V after every operation that sets it, in  *)
(* every state a program reaches.  Cells stay bytes.                       *)
AvrFlags ==
  avrop.name # "reset" =>
  /\ \A a \in DOMAIN avr.ram : a \in 0 .. 127 /\ avr.ram[a] \in 0 .. 255
  /\ \A x, y \in AvrBytes :
       LET lo == Add(avr, 0, x, y, 0)
           hi == Add(lo, 1, y, x, AvrCarry(lo))
           df == SregBits(Sub(avr, x, y))
           sg(b) == IF b > 127 THEN b - 256 ELSE b
       IN /\ Word(hi, 0) = (257 * (x + y)) % 65536
          /\ (AvrCarry(hi) = 1) = (257 * (x + y) > 65535)
          /\ (aC \in df) = (x < y) /\ (aS \in df) = (sg(x) < sg(y)) /\ (aZ \in df) = (x = y)
  /\ avrop.name \in {"add", "adc", "sub", "cp", "adiw", "sbiw", "inc", "dec", "neg", "com",
                     "asr", "lsr", "ror", "logic"} =>
       LET f == SregBits(avr) IN (aS \in f) = ((aN \in f) # (aV \in f))

(* A return that finds the stack pointer and the word as a call left them  *)
(* goes to the instruction after the call, for one and for two words of    *)
(* code, and gives the two cells back.                                     *)
AvrReturns ==
  [][avrop'.name = "ret" /\ avrop.ret # <<0, 0, 0>> /\ Word(avr, SPL) = avrop.ret[2]
     /\ pop_addr(avr) = avrop.ret[3]
       => avr'.PC = avrop.ret[1] /\ Word(avr', SPL) = avrop.ret[2] + 2]_avrVars

(* The flags order what was compared and the stack brings a call back, in  *)
(* any order of instructions: the two properties above.                    *)
AvrExact == []AvrFlags /\ AvrReturns
=============================================================================

---------------------------- MODULE StackTracker ----------------------------
(***************************************************************************)
(* The stack of the MCS51 core and the stack tracker of cl_uc.             *)
(*                                                                         *)
(* ACALL/LCALL, interrupt acceptance, PUSH, RET, RETI and POP move bytes   *)
(* between PC and internal RAM and hand a cl_stack_op to stack_write or    *)
(* stack_read, which keep the stack_ops list that `info stack' prints and  *)
(* report an operation that does not fit.  Writes to SP update sp_max and  *)
(* sp_avg (cl_uc51_dummy_hw).  A byte is a number below Base, an address   *)
(* is two bytes, SP wraps at SpMod (256 both in the code).                 *)
(***************************************************************************)
EXTENDS Integers, Sequences

CONSTANTS
  Base,     \* number of values of a byte
  SpMod,    \* number of cells of the internal RAM, also the range of SP
  SpReset,  \* SP after reset (7)
  MaxOps    \* bound: operations in the tracker

ASSUME StackAssumption ==
  /\ Base \in Nat \ {0, 1}
  /\ SpMod \in Nat \ {0, 1, 2}
  /\ SpReset \in 0 .. SpMod - 1
  /\ MaxOps \in Nat

StackByte == 0 .. Base - 1
Addr == 0 .. Base * Base - 1
IramCell == 0 .. SpMod - 1

WriteOps == {"call", "intr", "push"}
ReadOps  == {"ret", "iret", "pop"}

VARIABLES
  pc, sp, iram,
  sp_max, sp_avg,
  stack_ops,  \* tracked writes, the last one on top
  errors,     \* history: kinds of stack errors reported since reset
  live,       \* history: bytes on the stack since reset
  tampered    \* history: since reset, SP was loaded, a stacked byte was
              \* overwritten, or the stack grew over its own bottom

vars == <<pc, sp, iram, sp_max, sp_avg, stack_ops, errors, live, tampered>>

OpType == [op : WriteOps, before : IramCell, after : IramCell, data : Addr]

TypeOK ==
  /\ pc \in Addr /\ sp \in IramCell /\ iram \in [IramCell -> StackByte]
  /\ sp_max \in IramCell /\ sp_avg \in IramCell
  /\ stack_ops \in Seq(OpType)
  /\ errors \subseteq {"empty", "unmatch", "inconsistent"}
  /\ live \in Nat /\ tampered \in BOOLEAN

\* After reset; internal RAM is not touched by it.
Init ==
  /\ pc = 0 /\ sp = SpReset /\ iram \in [IramCell -> StackByte]
  /\ sp_max = SpReset /\ sp_avg = SpReset \div 2
  /\ stack_ops = <<>> /\ errors = {} /\ live = 0 /\ tampered = FALSE
-----------------------------------------------------------------------------
Up(s, n)   == (s + n) % SpMod
Down(s, n) == (s + SpMod - n) % SpMod

(* cl_uc51_dummy_hw::write for one SP value; a call writes SP twice.       *)
MaxOf(m, s) == IF s > m THEN s ELSE m
AvgOf(a, s) == (a + s) \div 2

Sp1(s) == sp' = s /\ sp_max' = MaxOf(sp_max, s) /\ sp_avg' = AvgOf(sp_avg, s)
Sp2(s, t) ==
  /\ sp' = t
  /\ sp_max' = MaxOf(MaxOf(sp_max, s), t)
  /\ sp_avg' = AvgOf(AvgOf(sp_avg, s), t)

\* The cells a tracked operation wrote.
Size(op)    == IF op \in {"push", "pop"} THEN 1 ELSE 2
CellsOf(o)  == {Up(o.before, n) : n \in 1 .. Size(o.op)}
LiveCells   == UNION {CellsOf(stack_ops[i]) : i \in DOMAIN stack_ops}
-----------------------------------------------------------------------------
(* cl_uc::stack_write                                                      *)
stack_write(op, data, after) ==
  /\ Len(stack_ops) < MaxOps
  /\ stack_ops' = Append(stack_ops, [op |-> op, before |-> sp,
                                     after |-> after, data |-> data])
  /\ live' = live + Size(op)
  /\ tampered' = (tampered \/ live + Size(op) > SpMod)
  /\ UNCHANGED errors

(* The match methods of the cl_stack_op classes.                           *)
match(w, r) ==
  <<w, r>> \in {<<"call", "ret">>, <<"intr", "iret">>, <<"push", "pop">>}

sp_increased(o) ==
  IF o.op \in WriteOps THEN o.after > o.before ELSE o.after < o.before

can_removed(top, o) ==
  /\ sp_increased(top) = sp_increased(o)
  /\ IF sp_increased(top) THEN top.before >= o.after ELSE top.before <= o.after

\* What the while loop of stack_read leaves.
Kept(ops, o) ==
  LET stay == {i \in DOMAIN ops : ~can_removed(ops[i], o)} IN
  {k \in {0} \cup stay : \A i \in stay : i <= k}

(* cl_uc::stack_read                                                       *)
stack_read(op, after) ==
  LET o == [op |-> op, before |-> sp, after |-> after]
      n == Len(stack_ops)
  IN
  /\ IF n = 0
     THEN /\ errors' = errors \cup {"empty"}
          /\ UNCHANGED stack_ops
     ELSE \E k \in Kept(stack_ops, o) :
          /\ stack_ops' = SubSeq(stack_ops, 1, k)
          /\ errors' = errors
               \cup {e \in {"unmatch"} : ~match(stack_ops[n].op, op)}
               \cup {e \in {"inconsistent"} :
                       k > 0 /\ stack_ops[k].after # after}
  /\ live' = IF live >= Size(op) THEN live - Size(op) ELSE 0
  /\ UNCHANGED tampered
-----------------------------------------------------------------------------
(* inst_acall_addr, inst_lcall (an interrupt is inst_lcall with intr set): *)
(* low byte first.                                                         *)
PushPC(op) ==
  /\ Sp2(Up(sp, 1), Up(sp, 2))
  /\ iram' = [iram EXCEPT ![Up(sp, 1)] = pc % Base, ![Up(sp, 2)] = pc \div Base]
  /\ pc' \in Addr
  /\ stack_write(op, pc, Up(sp, 2))

Call      == PushPC("call")
Interrupt == PushPC("intr")

Push ==
  /\ Sp1(Up(sp, 1))
  /\ \E d \in StackByte :
       /\ iram' = [iram EXCEPT ![Up(sp, 1)] = d]
       /\ stack_write("push", d, Up(sp, 1))
  /\ UNCHANGED pc

(* inst_ret, inst_reti: high byte first.                                   *)
\* Seeded fault: the two bytes are read in the order they were pushed.
Fault_PopPC(op) ==
  /\ Sp2(Down(sp, 1), Down(sp, 2))
  /\ pc' = iram[Down(sp, 1)] * Base + iram[sp]
  /\ stack_read(op, Down(sp, 2))
  /\ UNCHANGED iram

PopPC(op) ==
  /\ Sp2(Down(sp, 1), Down(sp, 2))
  /\ pc' = iram[sp] * Base + iram[Down(sp, 1)]
  /\ stack_read(op, Down(sp, 2))
  /\ UNCHANGED iram

Ret  == PopPC("ret")
Reti == PopPC("iret")

\* POP into a register outside the stack.
Pop ==
  /\ Sp1(Down(sp, 1))
  /\ stack_read("pop", Down(sp, 1))
  /\ UNCHANGED <<pc, iram>>

(* Other instructions: a jump, a store to internal RAM, a load of SP.      *)
Jump == pc' \in Addr /\ UNCHANGED <<sp, iram, sp_max, sp_avg, stack_ops,
                                    errors, live, tampered>>

StoreByte ==
  /\ \E c \in IramCell, d \in StackByte :
       /\ iram' = [iram EXCEPT ![c] = d]
       /\ tampered' = (tampered \/ c \in LiveCells)
  /\ UNCHANGED <<pc, sp, sp_max, sp_avg, stack_ops, errors, live>>

LoadSP ==
  /\ \E s \in IramCell : Sp1(s)
  /\ tampered' = TRUE
  /\ UNCHANGED <<pc, iram, stack_ops, errors, live>>

(* cl_uc::reset, then clear_sfr writes SP.                                 *)
Reset ==
  /\ pc' = 0 /\ sp' = SpReset
  /\ sp_max' = SpReset /\ sp_avg' = SpReset \div 2
  /\ stack_ops' = <<>> /\ errors' = {} /\ live' = 0 /\ tampered' = FALSE
  /\ UNCHANGED iram

Next ==
  \/ Call \/ Interrupt \/ Push \/ Ret \/ Reti \/ Pop
  \/ Jump \/ StoreByte \/ LoadSP \/ Reset

Spec == Init /\ [][Next]_vars
-----------------------------------------------------------------------------
Trusted == errors = {} /\ ~tampered

(* As long as no stack error was reported and the program did not write    *)
(* over the stack, the tracker describes the RAM: its operations are       *)
(* contiguous up to SP, and the bytes of every one are still there         *)
(* (stack_write, stack_read and the instructions; SP may wrap).  With it,  *)
(* the types of all variables.                                             *)
TrackerMatchesRam ==
  /\ TypeOK
  /\ Trusted =>
    /\ \A i \in 1 .. Len(stack_ops) - 1 :
         stack_ops[i].after = stack_ops[i + 1].before
    /\ stack_ops # <<>> => stack_ops[Len(stack_ops)].after = sp
    /\ \A i \in DOMAIN stack_ops :
         LET o == stack_ops[i] IN
         /\ iram[Up(o.before, 1)] = o.data % Base
         /\ o.op # "push" => iram[Up(o.before, 2)] = o.data \div Base

(* A return the tracker does not complain about goes back to the address   *)
(* that the matching call or interrupt pushed (inst_ret, inst_reti).       *)
ReturnsHome ==
  [][(Ret \/ Reti) /\ errors' = {} /\ ~tampered
       => /\ stack_ops[Len(stack_ops)].op # "push"
          /\ pc' = stack_ops[Len(stack_ops)].data]_vars

(* The tracker can be believed: what it holds is on the stack, and a       *)
(* return it accepts is one to the caller.                                 *)
TrackerTrusted == []TrackerMatchesRam /\ ReturnsHome
=============================================================================

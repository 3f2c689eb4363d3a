------------------------------ MODULE MC_Cores ------------------------------
(***************************************************************************)
(* The instruction sets of the MCS51, Z80, AVR, HC08 and XA and the tables *)
(* of their instructions, each alone: `part' tells which one runs, the     *)
(* others stay in one initial state.                                       *)
(***************************************************************************)
EXTENDS Alu51, Mcs51, Z80, Avr, Hc08, Xa, Decode

VARIABLE part

coresVars == <<part, aluVars, mcs51Vars, z80Vars, avrVars, hc08Vars, xaVars, dec>>

MCOffsets == {-2}
MCRels == {-128}

CoresInit ==
  /\ part \in {"alu51", "mcs51", "z80", "avr", "hc08", "xa", "decode"}
  /\ AluInit /\ Mcs51Init /\ Z80Init /\ AvrInit /\ Hc08Init /\ XaInit /\ DecodeInit
  /\ part # "mcs51" => mC(mcs51) = 0
  /\ part # "z80" => z80.SP = 0
  /\ part # "hc08" => hc08.vec = 0
  /\ part # "xa" => pageZero(xa)

\* A processor at its bound of instructions tries none.
CoresNext ==
  /\ UNCHANGED part
  /\ \/ /\ part = "alu51" /\ AluNext
        /\ UNCHANGED <<mcs51Vars, z80Vars, avrVars, hc08Vars, xaVars, dec>>
     \/ /\ part = "mcs51" /\ mcs51.n < Mcs51Steps /\ Mcs51Next
        /\ UNCHANGED <<aluVars, z80Vars, avrVars, hc08Vars, xaVars, dec>>
     \/ /\ part = "z80" /\ z80.n < Z80Steps /\ Z80Next
        /\ UNCHANGED <<aluVars, mcs51Vars, avrVars, hc08Vars, xaVars, dec>>
     \/ /\ part = "avr" /\ avr.n < AvrSteps /\ AvrNext
        /\ UNCHANGED <<aluVars, mcs51Vars, z80Vars, hc08Vars, xaVars, dec>>
     \/ /\ part = "hc08" /\ hc08.n < Hc08Steps /\ Hc08Next
        /\ UNCHANGED <<aluVars, mcs51Vars, z80Vars, avrVars, xaVars, dec>>
     \/ /\ part = "xa" /\ xa.n < XaSteps /\ XaNext
        /\ UNCHANGED <<aluVars, mcs51Vars, z80Vars, avrVars, hc08Vars, dec>>
     \/ /\ part = "decode" /\ DecodeNext
        /\ UNCHANGED <<aluVars, mcs51Vars, z80Vars, avrVars, hc08Vars, xaVars>>

CoresSpec == CoresInit /\ [][CoresNext]_coresVars
=============================================================================

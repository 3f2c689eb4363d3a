------------------------------- MODULE MC_Soc -------------------------------
(***************************************************************************)
(* The peripherals of the CC2530, one at a time: part is the one that      *)
(* runs.  The radio runs with the MAC timer it shares CSPT with.  Ticks    *)
(* are not bounded, the writes between them are, by the Max constants.     *)
(***************************************************************************)
EXTENDS Timer2530, Radio2530, Flash2530, Usart2530

CONSTANTS
  MaxTimerWrites, MaxMacWrites, MaxRadioWrites, MaxFlashSteps, MaxUsartWrites

VARIABLES part, writes

socVars == <<tm, mt, rd, fl, us, part, writes>>

\* Channels that toggle their output, and that capture both edges.
MCCtls ==
  {[compare |-> TRUE, out |-> 2, edge |-> 0, im |-> FALSE],
   [compare |-> FALSE, out |-> 0, edge |-> 3, im |-> TRUE]}

MCCmpValues == {-2, 0, 3}

Code(op, a, c, neg) == [op |-> op, a |-> a, c |-> c, n |-> neg]

Plain(op) == Code(op, 0, 0, FALSE)

\* A skip past the end, a wait for overflows, and the strobes.
MCCodes ==
  {Code("skip", 3, 4, FALSE), Code("waitw", 2, 0, FALSE)}
    \cup {Plain(op) : op \in {"istxon", "rxon", "isstart"}}

SocInit ==
  /\ FlashInit /\ UsartInit /\ writes = 0
  /\ \/ /\ part = "timer" /\ MacInit /\ rd = Start(0, TRUE)
        /\ \E k \in {"t1", "t3", "t4"} : \E c \in [Chans(k) -> Ctls] :
             tm = [timer_init(k) EXCEPT !.RegCTL = c]
     \/ part = "radio" /\ RadioInit /\ tm = timer_init("t1")
     \/ part \in {"mac", "flash", "usart"} /\ MacInit /\ rd = Start(0, TRUE) /\ tm = timer_init("t1")

Counted(p, max, A) == part = p /\ writes < max /\ writes' = writes + 1 /\ A

TimerPart ==
  /\ UNCHANGED <<mt, rd, fl, us, part>>
  /\ \/ part = "timer" /\ Ticked /\ UNCHANGED writes
     \/ Counted("timer", MaxTimerWrites,
                WriteCtl \/ WriteCmp \/ WriteChannel \/ WriteOther \/ ResetTimer)

MacPart ==
  /\ UNCHANGED <<tm, rd, fl, us, part>>
  /\ \/ part = "mac" /\ MacTick /\ UNCHANGED writes
     \/ Counted("mac", MaxMacWrites, MacWrite \/ MacSync \/ MacReset)

RadioPart ==
  /\ UNCHANGED <<tm, fl, us, part>>
  /\ \/ part = "radio" /\ BothTick /\ UNCHANGED writes
     \/ Counted("radio", MaxRadioWrites,
                WriteRfst \/ WriteCspt \/ WriteMask \/ WritePeriod \/ ResetBoth)

FlashPart == UNCHANGED <<tm, mt, rd, us, part>> /\ Counted("flash", MaxFlashSteps, FlashNext)

UsartPart ==
  /\ UNCHANGED <<tm, mt, rd, fl, part>>
  /\ \/ part = "usart" /\ UsartTick /\ UNCHANGED writes
     \/ Counted("usart", MaxUsartWrites, UsartWrite)

SocNext == TimerPart \/ MacPart \/ RadioPart \/ FlashPart \/ UsartPart

SocSpec == SocInit /\ [][SocNext]_socVars
=============================================================================

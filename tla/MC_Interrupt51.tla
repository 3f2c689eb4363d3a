--------------------------- MODULE MC_Interrupt51 ---------------------------
(***************************************************************************)
(* Three sources: the external input 0, timer 0 and a CC2530 timer whose   *)
(* enable bit is in IEN1 and whose mask, hence its bit in IP, is the one   *)
(* of timer 0.                                                             *)
(***************************************************************************)
EXTENDS Interrupt51, TLC

CONSTANTS ex0, t0, t1

MCSources   == {ex0, t0, t1}
MCItSources == <<ex0, t0, t1>>
MCIeReg     == (ex0 :> "IEN0") @@ (t0 :> "IEN0") @@ (t1 :> "IEN1")
MCIeMask    == (ex0 :> 1) @@ (t0 :> 2) @@ (t1 :> 2)
MCSrcReg    == (ex0 :> "TCON") @@ (t0 :> "TCON") @@ (t1 :> "IRCON")
MCClrBit    == {ex0, t0}
MCExt       == {ex0}
=============================================================================

\* The interrupt system, safety and liveness.
SPECIFICATION FairSpec
CONSTANTS
  ex0 = ex0
  t0 = t0
  t1 = t1
  Sources <- MCSources
  ItSources <- MCItSources
  IeReg <- MCIeReg
  IeMask <- MCIeMask
  SrcReg <- MCSrcReg
  ClrBit <- MCClrBit
  Ext <- MCExt
  Cmos = TRUE
  MaxPokes = 1
INVARIANTS Nesting HighServed
PROPERTIES AcceptDelayed PowerDownHolds IdleWakes

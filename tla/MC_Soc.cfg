SPECIFICATION SocSpec
CONSTANTS
  Half = 8
  Part = 4
  Chan1 = {0, 3}
  Prescales = {1, 2}
  Ctls <- MCCtls
  CmpValues <- MCCmpValues
  Cycles = {1, 3}
  Bytes = 3
  MaxCount = 9
  ProgLen = 2
  Codes <- MCCodes
  MaxPC = 5
  Banks = 2
  BankPages = 2
  PageBytes = 4
  Data = {1, 2}
  UsartBytes = {178, 1}
  MaxBits = 13
  MaxTimerWrites = 2
  MaxMacWrites = 3
  MaxRadioWrites = 3
  MaxFlashSteps = 7
  MaxUsartWrites = 4
CHECK_DEADLOCK FALSE
INVARIANTS
  TimersKeepPace
  MacTimeKept
  StrobesStop
  FlashHolds
  FramesExact

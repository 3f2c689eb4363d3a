SPECIFICATION MCSpec
CONSTANTS
  Word = 3
  BaudFactor = 2
  MaxCycles = 2
  MaxEdges = 1
  Byte = 2
  Mods = {4}
  Watchdog = 4
  CcapmSet <- MCCcapm
  PcaCycles = 1
  PcaEdges = 1
  PcaSteps = 4
PROPERTIES
  T2CountsPulses
  PcaCounts
\* the counter array stops at its bound of steps
CHECK_DEADLOCK FALSE

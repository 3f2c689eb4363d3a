SPECIFICATION MCSpec
CONSTANTS
  Base = 2
  SpMod = 6
  SpReset = 3
  MaxOps = 4
  Channels = 1
  XramSize = 3
  MaxByte = 1
  Blocks <- MCBlocks
  Triggers = {2}
  ListKeys = {1, 2}
  ListNames = {1, 2, 3, 4}
  ListDelta = 2
  MaxList = 3
  SpaceSize = 5
  ChipSize <- MCChipSize
  AuxrTop = 1
  Brks = {1, 2}
  MaxMemorySteps = 3
  BankSize = 5
  SramSize = 2
  IramAt = 1
  SfrAt = 3
  SfrSize = 2
  PlaceValues = {1, 6, 10}
  MaxAccesses = 1
CHECK_DEADLOCK FALSE
INVARIANTS
  ListsFind
  SpaceConsistent
  AccessesAgree
PROPERTIES
  TrackerTrusted
  FlagWhenDone
  WritesInWindow
  BlockEnds

SPECIFICATION Spec
CONSTANTS
  Slots = 2
  Names <- MCNames
  Unset <- MCUnset
  Cpc = 2
  Width = 3
  MaxLevels = 2
  WdtReset = 4
  MaxCycles = 6
INVARIANTS SlotsSound HwLag

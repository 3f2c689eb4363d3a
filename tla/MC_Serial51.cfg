SPECIFICATION Spec
CONSTANTS
  Cpc = 1
  Div0 = 1
  Fast = 2
  Slow = 3
  BitsOf <- MCBitsOf
  MaxCycles = 2
  MaxClocks = 3
  MaxOverflows = 3
INVARIANTS
  BitsExact
PROPERTIES
  BytesOnTime

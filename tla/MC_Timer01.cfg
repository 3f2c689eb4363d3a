SPECIFICATION Spec
CONSTANTS
  Byte = 4
  Pre = 2
  MaxCycles = 4
  MaxEdges = 2
PROPERTIES
  CountsPulses

SPECIFICATION FairSpec
CONSTANTS
  Terminals <- MCTerminals
  Sockets <- MCSockets
  Scripts <- MCScripts
  Lines = 5
  FileLines = 2
INVARIANTS ReadSetFresh ParentsWait
PROPERTIES EnterStops
CHECK_DEADLOCK FALSE

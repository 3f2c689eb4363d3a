SPECIFICATION Spec
CONSTANTS
  Terminals <- MCTerminals
  Sockets <- MCSockets
  Scripts <- MCScripts
  Lines = 4
  FileLines = 2
INVARIANTS UnfrozenWhenStopped
CHECK_DEADLOCK FALSE

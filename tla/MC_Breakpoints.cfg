SPECIFICATION FairSpec
CONSTANTS
  RomSize = 2
  Addrs <- MCAddrs
  Cells <- MCCells
  CellAddrs <- MCCellAddrs
  Hits <- MCHits
  MaxNr = 3
INVARIANTS FlagsMatch NumbersUnique OperatorsMatch HitsHonoured DynamicFetchRemoved
PROPERTIES DeleteAllEnds

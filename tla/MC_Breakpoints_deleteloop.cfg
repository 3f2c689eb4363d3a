SPECIFICATION FairSpec
CONSTANTS
  RomSize = 2
  Addrs <- MCAddrs
  Cells <- MCCells
  CellAddrs <- MCCellAddrs
  Hits <- MCHits
  MaxNr = 2
PROPERTIES DeleteAllDeletes

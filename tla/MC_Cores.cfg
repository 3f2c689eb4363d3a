SPECIFICATION CoresSpec
CONSTANTS
  Nibble = 4
  Radix = 3
  Data = {6, 128}
  Cells = {32768, 511}
  Regs = {1, 6, 7, 8}
  BitNos = {0, 7}
  Z80Steps = 2
  MaxBlock = 3
  AvrRegs = {0, 17, 30}
  AvrBytes = {5, 255}
  AvrPorts = {4, 31}
  AvrSteps = 2
  HBytes = {6, 128}
  HWords = {32768, 511}
  HBits = {0, 7}
  Hc08Steps = 2
  XaRegs = {6}
  XaPtrs = {1}
  XaFuncs = {"ADD", "SUBB", "CMP", "XOR", "MOV"}
  XaWords = {511, 32640}
  XaOffsets <- MCOffsets
  XaSteps = 2
  MDirects = {129, 144, 208, 224}
  MBitAddrs = {145, 215, 231}
  MBytes = {0, 112}
  MRels <- MCRels
  Mcs51Steps = 2
INVARIANT DecodeInStep
PROPERTIES
  AluExact
  Mcs51Exact
  Z80Exact
  AvrExact
  Hc08Exact
  XaExact
\* every processor but the arithmetic stops at its bound of steps
CHECK_DEADLOCK FALSE

SPECIFICATION Spec
CONSTANTS
  WordLen = 2
  BufWords = 2
  ENET_ADDR_LENGTH = 3
  Words <- MCWords
  Zero <- MCZero
  Lengths = {3, 4}
  TsrValues <- MCTsrValues
  CtrlValues <- MCCtrlValues
  PhyAddrs = {0, 1}
  MiiRegs <- MCMiiRegs
  MdioAddrs <- MCMdioAddrs
  MdioWords <- MCMdioWords
INVARIANTS
  IInv
  PollsEnd
  PingMacKept
PROPERTIES
  ScanFindsPhy
  ImplementsMii
CHECK_DEADLOCK FALSE

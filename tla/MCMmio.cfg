SPECIFICATION Spec
CONSTANTS
  Addrs <- MCAddrs
  IO_SPACE = 16
  UNMAPPED_BASE = 64
  UNMAPPED_END = 96
  LowLimit = 2
  Lens = {1, 2}
  Bytes = {0, 1}
  Zero = 0
  DDR_BASE = 0
  DDR_SIZE = 4
  BRAM_BASE = 8
  BRAM_SIZE = 2
  VMEM_SIZE = 1
  mmap_table <- MCTable
  MaxSegment = 2
  BootStub <- MCStub
INVARIANT IInv
PROPERTIES
  FlatView
  MemoryAnswers
CHECK_DEADLOCK FALSE

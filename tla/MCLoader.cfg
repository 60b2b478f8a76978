SPECIFICATION Spec
CONSTANTS
  NULL = NULL
  Names = {"img", "link", "uimg", "app", "rom", "long", "none"}
  Content <- MCContent
  Links = {"link"}
  Segments <- MCSegments
  Entry <- MCEntry
  DefaultEntry = "reset"
  Zero = "0"
  Magic = "elf"
  Junk = "junk"
  Cells <- MCCells
  DDR_SIZE = 4
  BRAM_SIZE = 2
  uimage_base = 1
  BootStub <- MCBootStub
  Options <- MCOptions
  MaxArgs = 3
  MaxSize = 3
  LEN_SPACE = 8
INVARIANTS
  IInv
  LoadedAsAsked
PROPERTIES
  LoadAdvances
  LoadEnds
CHECK_DEADLOCK FALSE

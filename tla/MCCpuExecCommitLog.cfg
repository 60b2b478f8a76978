SPECIFICATION Spec
CONSTANTS
  NR_INSTR = 2
  PC_SPACE = 20
  CPU_INIT_PC = 4
  MemKind <- MCMemKind
  Targets <- MCTargets
  Budgets <- MCBudgets
  OptionSets <- MCOptionSets
  AsmCap = 3
  StartCursors <- MCStartCursors
  NINSTR_SPACE = 3
  MaxDepth = 2
INVARIANT CommitLogsAll
CHECK_DEADLOCK FALSE

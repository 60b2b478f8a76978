SPECIFICATION Spec
CONSTANTS
  NR_INSTR = 3
  Pcs = {p1, p2}
  Instrs = {i1, i2}
  ZeroPc = ZeroPc
  ZeroInstr = ZeroInstr
  Unknown = Unknown
INVARIANT IInv
PROPERTY ShowsLastInstrs

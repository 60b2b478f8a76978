SPECIFICATION Spec
CONSTANTS
  Width = 8
  ShBits = 3
  F7Bits = 3
  Registers = {0, 1, 2}
  Csrs = {5}
  Insts <- MCInsts
  StartWords = {0, 1, 7, 127, 128, 255}
  StartCsrs = {170}
  StartPcs = {4, 252}
PROPERTY BranchesAsRiscv
CHECK_DEADLOCK FALSE

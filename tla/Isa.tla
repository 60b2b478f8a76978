-------------------------------- MODULE Isa ---------------------------------
(***************************************************************************)
(* The instruction set: the decoding tables and the handlers of            *)
(* src/cpu/exec-handlers.h with the fields of include/cpu/reg.h, in one    *)
(* iteration of cpu_exec from the fetched instruction to cpu.pc += 4.      *)
(*                                                                         *)
(* The handlers compute in C: on unsigned words, with casts.  Riscv says   *)
(* what they should compute.  Every property is about one instruction, so  *)
(* one iteration is explored, from all states of the registers.            *)
(***************************************************************************)
EXTENDS Riscv

CONSTANTS Registers,  \* registers that may hold something else than 0
          Csrs,       \* CSR numbers in use
          Insts,      \* instructions
          StartWords, \* contents of the registers before the iteration, and
                      \* what a load may find
          StartCsrs,  \* contents of the CSRs before it
          StartPcs    \* values of cpu.pc before it

Inst == [op : 0 .. 127, func3 : 0 .. 7, func7 : 0 .. Pow2[F7Bits] - 1,
         rd : 0 .. Width - 1, rs1 : 0 .. Width - 1, rs2 : 0 .. Width - 1,
         u : 0 .. Pow2[Width - ImmBits] - 1]  \* U.imm_31_12, a field of its own

ASSUME IsaAssumption == /\ Registers \subseteq 0 .. Width - 1
                        /\ Csrs \subseteq 0 .. Pow2[ImmBits] - 1
                        /\ Insts \subseteq Inst
                        /\ StartWords \subseteq Word /\ StartCsrs \subseteq Word
                        /\ StartPcs \subseteq Word

VARIABLES gpr, csr, pc,
          inst,    \* the instruction
          access,  \* the access to memory, or NoAccess
          status   \* where the iteration is

vars == <<gpr, csr, pc, inst, access, status>>

NoAccess == [len |-> 0]
Access   == [write : BOOLEAN, addr : Word, len : {1, 2, 4}, data : Word]

-----------------------------------------------------------------------------
\* Decoding.
opcode_table ==
    [c \in 0 .. 31 |->
        CASE c = 0  -> "load"   [] c = 3  -> "fence" [] c = 4  -> "alui"
          [] c = 5  -> "auipc"  [] c = 8  -> "store" [] c = 12 -> "alu"
          [] c = 13 -> "lui"    [] c = 24 -> "branch" [] c = 27 -> "jalr"
          [] c = 28 -> "csr"    [] c = 29 -> "jal"   [] OTHER -> "inv"]

branch_table  == <<"beq", "bne", "inv", "inv", "blt", "bge", "bltu", "bgeu">>
load_table    == <<"lb", "lh", "lw", "inv", "lbu", "lhu", "inv", "inv">>
store_table   == <<"sb", "sh", "sw", "inv", "inv", "inv", "inv", "inv">>
alui_table_0  == <<"addi", "slli", "slti", "sltiu", "xori", "srli", "ori", "andi">>
alui_table_32 == <<"inv", "inv", "inv", "inv", "inv", "srai", "inv", "inv">>
alu_table_0   == <<"add", "sll", "slt", "sltu", "xor", "srl", "or", "and">>
alu_table_1   == <<"mul", "mulh", "mulhsu", "mulhu", "div", "divu", "rem", "remu">>
alu_table_32  == <<"sub", "inv", "inv", "inv", "inv", "sra", "inv", "inv">>
csr_table     == <<"ecall_ebreak", "csrrw", "csrrs", "csrrc",
                   "inv", "csrrwi", "csrrsi", "csrrci">>

Bit30 == Pow2[F7Bits - 2]   \* 32, the func7 of sub and sra

\* Mutant of exec_alui: the immediate may have any upper bits.
exec_alui_any(i) ==
    IF i.func7 = 1 THEN alui_table_32[i.func3 + 1] ELSE alui_table_0[i.func3 + 1]

exec_alui(i) == CASE i.func7 = 0 -> alui_table_0[i.func3 + 1]
                  [] i.func7 = 1 -> alui_table_32[i.func3 + 1]
                  [] OTHER       -> "inv"

exec_alu(i) == CASE i.func7 = 0     -> alu_table_0[i.func3 + 1]
                 [] i.func7 = 1     -> alu_table_1[i.func3 + 1]
                 [] i.func7 = Bit30 -> alu_table_32[i.func3 + 1]
                 [] OTHER           -> "inv"

\* The handler that runs; the low bits of the opcode are asserted.
Handler(i) ==
    LET class == opcode_table[i.op \div 4]
    IN  CASE i.op % 4 # 3     -> "assert"
          [] i.op % 4 = 3 /\ class = "branch" -> branch_table[i.func3 + 1]
          [] i.op % 4 = 3 /\ class = "load"   -> load_table[i.func3 + 1]
          [] i.op % 4 = 3 /\ class = "store"  -> store_table[i.func3 + 1]
          [] i.op % 4 = 3 /\ class = "alui"   -> exec_alui(i)
          [] i.op % 4 = 3 /\ class = "alu"    -> exec_alu(i)
          [] i.op % 4 = 3 /\ class = "csr"    -> csr_table[i.func3 + 1]
          [] OTHER -> class

\* What the handlers are about.
Divisions    == {"div", "divu", "rem", "remu"}
Computations == Divisions \cup
    {"add", "sub", "and", "or", "xor", "slt", "sltu", "sll", "srl", "sra",
     "mul", "mulh", "mulhsu", "mulhu", "lui", "auipc", "addi", "slti", "sltiu",
     "andi", "ori", "xori", "slli", "srli", "srai"}
Immediates   == {"addi", "slti", "sltiu", "andi", "ori", "xori", "slli", "srli", "srai"}
Loads    == {"lb", "lh", "lw", "lbu", "lhu"}
Stores   == {"sb", "sh", "sw"}
Branches == {"beq", "bne", "blt", "bge", "bltu", "bgeu"}
CsrOps   == {"csrrw", "csrrs", "csrrc", "csrrwi", "csrrsi", "csrrci"}

-----------------------------------------------------------------------------
\* The fields of reg.h and the macros that put immediates together.
imm_11_0  == inst.func7 * Width + inst.rs2
shamt     == inst.rs2

\* Mutant of simm_11_0: the field is declared without a sign.
simm_11_0_unsigned == imm_11_0

simm_11_0 == SignedOf(imm_11_0, ImmBits)

\* The sign of simm_11 is lost: the field has no sign, as all the others.
STORE_SIMM == inst.rd + inst.func7 * Width + Top(inst.func7) * Pow2[ImmBits]

\* Mutant of BRANCH_SIMM: bit 7 of the instruction stays in bit 0.
BRANCH_SIMM_low == inst.rd + (inst.func7 % Pow2[F7Bits - 1]) * Width
                      + (inst.rd % 2) * Pow2[ImmBits - 1] - Top(inst.func7) * Pow2[ImmBits]

BRANCH_SIMM == (inst.rd - (inst.rd % 2)) + (inst.func7 % Pow2[F7Bits - 1]) * Width
                  + (inst.rd % 2) * Pow2[ImmBits - 1] - Top(inst.func7) * Pow2[ImmBits]

A == gpr[inst.rs1]
B == gpr[inst.rs2]

\* An int64_t times a uint64_t is an unsigned product.
Product64(x, y) == ((x % (Space * Space)) * y) % (Space * Space)

\* What the handlers of computations assign to cpu.gpr[inst.rd].
Value(h) ==
    CASE h = "add"    -> Wrap(A + B)
      [] h = "sub"    -> Wrap(A - B)
      [] h = "and"    -> And(A, B)
      [] h = "or"     -> Or(A, B)
      [] h = "xor"    -> Xor(A, B)
      [] h = "slt"    -> Bool(Signed(A) < Signed(B))
      [] h = "sltu"   -> Bool(A < B)
      [] h = "sll"    -> Wrap(A * Pow2[B % Width])
      [] h = "srl"    -> A \div Pow2[B % Width]
      [] h = "sra"    -> Wrap(Signed(A) \div Pow2[B % Width])
      [] h = "mul"    -> Wrap(Signed(A) * Signed(B))
      [] h = "mulh"   -> Wrap((Signed(A) * Signed(B)) \div Space)
      [] h = "mulhu"  -> Wrap((A * B) \div Space)
      [] h = "mulhsu" -> Wrap(Product64(Signed(A), B) \div Space)
      [] h = "div"    -> Wrap(Quot(Signed(A), Signed(B)))
      [] h = "rem"    -> Wrap(Rem(Signed(A), Signed(B)))
      [] h = "divu"   -> A \div B
      [] h = "remu"   -> A % B
      [] h = "lui"    -> Wrap(inst.u * Pow2[ImmBits])
      [] h = "auipc"  -> Wrap(pc + inst.u * Pow2[ImmBits])
      [] h = "addi"   -> Wrap(A + simm_11_0)
      [] h = "slli"   -> Wrap(A * Pow2[shamt])
      [] h = "srli"   -> A \div Pow2[shamt]
      [] h = "srai"   -> Wrap(Signed(A) \div Pow2[shamt])
      [] h = "andi"   -> And(A, Wrap(simm_11_0))
      [] h = "ori"    -> Or(A, Wrap(simm_11_0))
      [] h = "xori"   -> Xor(A, Wrap(simm_11_0))
      [] h = "sltiu"  -> Bool(A < imm_11_0)
      [] h = "slti"   -> Bool(Signed(A) < simm_11_0)

\* Where the division instruction of the host traps.
Traps(h) == h \in Divisions /\ (\/ B = 0
                                \/ /\ h \in {"div", "rem"} /\ Signed(B) = -1
                                   /\ Signed(A) = MostNegative)

-----------------------------------------------------------------------------
Running(handlers) == status = "exec" /\ Handler(inst) \in handlers

\* Mutant of Retire: cpu.pc is wider than a word.
RetireWide(target) == pc' = target + 4 /\ status' = "done" /\ UNCHANGED inst

\* The end of the iteration: cpu.pc += 4, after a jump too.
Retire(target) == pc' = Wrap(target + 4) /\ status' = "done" /\ UNCHANGED inst

\* The process stops within the handler.
Stop(why) == status' = why /\ UNCHANGED <<gpr, csr, pc, inst, access>>

Set(r, value) == gpr' = [gpr EXCEPT ![r] = value]

Compute == /\ Running(Computations) /\ ~Traps(Handler(inst))
           /\ Set(inst.rd, Value(Handler(inst)))
           /\ Retire(pc)
           /\ UNCHANGED <<csr, access>>

DivisionTraps == /\ Running(Divisions) /\ Traps(Handler(inst))
                 /\ Stop("signal")

\* CHECK_ALIGNED_ADDR, then load_mem, which may refuse the address.
Load == /\ Running(Loads)
        /\ LET addr == Wrap(A + simm_11_0)
               len  == Bytes(Handler(inst))
           IN  \/ /\ addr % len = 0
                  /\ \E w \in StartWords :
                        LET data == w % DataSpace(len)
                        IN  /\ access' = [write |-> FALSE, addr |-> addr, len |-> len,
                                          data |-> data]
                            /\ Set(inst.rd, IF Handler(inst) \in {"lb", "lh"}
                                            THEN Wrap(SignedOf(data, len * (Width \div 4)))
                                            ELSE data)
                  /\ Retire(pc)
                  /\ UNCHANGED csr
               \/ Stop("fault")

Store == /\ Running(Stores)
         /\ LET addr == Wrap(A + STORE_SIMM)
                len  == Bytes(Handler(inst))
            IN  \/ /\ addr % len = 0
                   /\ access' = [write |-> TRUE, addr |-> addr, len |-> len,
                                 data |-> B % DataSpace(len)]
                   /\ Retire(pc)
                   /\ UNCHANGED <<gpr, csr>>
                \/ Stop("fault")

\* bne tests what beq does, and the offset is doubled once more.
Taken(h) == CASE h \in {"beq", "bne"} -> A = B
              [] h = "blt"  -> Signed(A) < Signed(B)
              [] h = "bge"  -> Signed(A) >= Signed(B)
              [] h = "bltu" -> A < B
              [] h = "bgeu" -> A >= B

Branch == /\ Running(Branches)
          /\ Retire(IF Taken(Handler(inst)) THEN pc + 2 * BRANCH_SIMM ELSE pc)
          /\ UNCHANGED <<gpr, csr, access>>

\* The offset is that of the U-type.
jal == /\ Running({"jal"})
       /\ Set(inst.rd, Wrap(pc + 4))
       /\ Retire(pc + inst.u * Pow2[ImmBits])
       /\ UNCHANGED <<csr, access>>

\* No offset; rd is assigned before rs1 is read.
jalr == /\ Running({"jalr"})
        /\ Set(inst.rd, Wrap(pc + 4))
        /\ Retire(gpr'[inst.rs1])
        /\ UNCHANGED <<csr, access>>

fence == Running({"fence"}) /\ Retire(pc) /\ UNCHANGED <<gpr, csr, access>>

\* Mutant of CsrValue: the bits that are to be cleared are kept.
CsrValueKept(h, old, x) == CASE h \in {"csrrw", "csrrwi"} -> x
                             [] h \in {"csrrs", "csrrsi"} -> Or(old, x)
                             [] h \in {"csrrc", "csrrci"} -> And(old, x)

\* What is stored in the CSR; x is a register or the field rs1.
CsrValue(h, old, x) == CASE h \in {"csrrw", "csrrwi"} -> x
                         [] h \in {"csrrs", "csrrsi"} -> Or(old, x)
                         [] h \in {"csrrc", "csrrci"} -> And(old, Not(x))

\* csrrw and csrrwi test the contents of rd, csrrsi and csrrci the field rs1.
CsrSkipped(h) == \/ h \in {"csrrw", "csrrwi"} /\ gpr[inst.rd] = 0
                 \/ h \in {"csrrsi", "csrrci"} /\ inst.rs1 = 0

\* rd is assigned before rs1 is read.
Csr == /\ Running(CsrOps)
       /\ LET h == Handler(inst)
          IN  \/ CsrSkipped(h) /\ UNCHANGED <<gpr, csr>>
              \/ /\ ~CsrSkipped(h)
                 /\ Set(inst.rd, csr[imm_11_0])
                 /\ csr' = [csr EXCEPT ![imm_11_0] =
                               CsrValue(h, @, IF h \in {"csrrw", "csrrs", "csrrc"}
                                              THEN gpr'[inst.rs1] ELSE inst.rs1)]
       /\ Retire(pc)
       /\ UNCHANGED access

\* nemu_state = NEMU_END; the iteration goes on to its end.
inv == /\ Running({"inv"})
       /\ pc' = Wrap(pc + 4)
       /\ status' = "end"
       /\ UNCHANGED <<gpr, csr, inst, access>>

Abort == Running({"assert", "ecall_ebreak"}) /\ Stop("abort")

-----------------------------------------------------------------------------
\* The CSRs of the instructions are among those that are modelled.
ASSUME CsrAssumption ==
    \A i \in Insts : Handler(i) \in CsrOps => i.func7 * Width + i.rs2 \in Csrs

Init == /\ \E g \in [Registers -> StartWords] :
              gpr = [r \in 0 .. Width - 1 |-> IF r \in Registers THEN g[r] ELSE 0]
        /\ csr \in [Csrs -> StartCsrs]
        /\ pc \in StartPcs
        /\ inst \in Insts
        /\ access = NoAccess
        /\ status = "exec"

Next == \/ Compute \/ DivisionTraps \/ Load \/ Store \/ Branch \/ jal \/ jalr
        \/ fence \/ Csr \/ inv \/ Abort

Spec == Init /\ [][Next]_vars
-----------------------------------------------------------------------------
TypeOK == /\ gpr \in [0 .. Width - 1 -> Word]
          /\ csr \in [Csrs -> Word]
          /\ pc \in Word
          /\ inst \in Insts
          /\ access \in Access \cup {NoAccess}
          /\ status \in {"exec", "done", "end", "fault", "abort", "signal"}

\* The operand a computation takes beside rs1, as the architecture has it.
SecondOperand == IF Handler(inst) \in Immediates THEN Wrap(ImmI(inst)) ELSE B

Computed == CASE Handler(inst) = "lui"   -> Wrap(ImmU(inst))
              [] Handler(inst) = "auipc" -> Wrap(pc + ImmU(inst))
              [] OTHER -> Result(Handler(inst), A, SecondOperand)

\* The handlers of the computations and the link of the two jumps are RV32IM:
\* whatever the registers hold, and also when rd is one of the operands, rd
\* gets what the architecture says and nothing else changes.  The process is
\* stopped only by a division whose result is a special case.  (Register 0 is
\* written like any other and so is left out.)
ComputesAsRiscv ==
    [][Running(Computations \cup {"jal", "jalr"}) =>
         \/ status' = "signal" /\ Special(Handler(inst), A, B)
         \/ /\ status' = "done" /\ csr' = csr
            /\ inst.rd # 0 =>
                  gpr' = [gpr EXCEPT ![inst.rd] =
                            IF Running({"jal", "jalr"}) THEN Wrap(pc + 4) ELSE Computed]]_vars

\* A load extends what it finds as the architecture says; loads, and stores
\* with an offset that is not negative, go to the right address, and an
\* unaligned address never reaches memory.
AccessesAsRiscv ==
    [][(access' # access) =>
         LET h == Handler(inst)
             a == IF h \in Loads THEN Wrap(A + ImmI(inst)) ELSE Wrap(A + ImmS(inst))
         IN  /\ access'.len = Bytes(h) /\ access'.addr % Bytes(h) = 0
             /\ access'.write <=> h \in Stores
             /\ (h \in Loads \/ ImmS(inst) >= 0) => access'.addr = a
             /\ h \in Loads => gpr'[inst.rd] = Loaded(h, access'.data)]_vars

\* An instruction on a CSR does nothing at all, or the whole exchange with rd
\* that the architecture asks for, unless rd is register 0 or is also rs1.
CsrAsRiscv ==
    [][(Running(CsrOps) /\ inst.rd # 0 /\ (gpr' # gpr \/ csr' # csr)) =>
         LET h    == Handler(inst)
             byRegister == h \in {"csrrw", "csrrs", "csrrc"}
             old  == BitsOf[csr[imm_11_0]]
             mask == BitsOf[IF byRegister THEN A ELSE inst.rs1]
         IN  /\ gpr' = [gpr EXCEPT ![inst.rd] = csr[imm_11_0]]
             /\ ~(byRegister /\ inst.rd = inst.rs1) =>
                   BitsOf[csr'[imm_11_0]] =
                      CASE h \in {"csrrw", "csrrwi"} -> mask
                        [] h \in {"csrrs", "csrrsi"} -> old \cup mask
                        [] h \in {"csrrc", "csrrci"} -> old \ mask]_vars

\* The assertion that cpu.pc is aligned (cpu-exec.c:173) can fail after a jalr
\* only: no branch, taken or not, and no jal leaves an aligned address.
PcStaysAligned == [][(pc % 4 = 0 /\ ~Running({"jalr"})) => pc' % 4 = 0]_vars

\* A branch compares as its name says and goes to the immediate of the B-type.
BranchesAsRiscv ==
    [][Running(Branches) =>
         pc' = Wrap(pc + (IF BranchTaken(Handler(inst), A, B) THEN ImmB(inst) ELSE 4))]_vars
=============================================================================

------------------------------- MODULE Riscv --------------------------------
(***************************************************************************)
(* What the instructions of RV32IM compute, as the manual of the           *)
(* architecture defines them: over the integers that the words stand for.  *)
(* It is the reference that Isa is compared with.  The width is a          *)
(* parameter, and the fields of an instruction scale with it.              *)
(***************************************************************************)
EXTENDS Integers

CONSTANTS Width,    \* bits of a word: 32
          ShBits,   \* bits of a shift amount and of a register number: 5
          F7Bits    \* bits of the field func7: 7

ASSUME RiscvAssumption == /\ ShBits \in Nat \ {0} /\ Width = 2^ShBits
                          /\ F7Bits \in Nat /\ F7Bits >= 3
                          /\ Width > ShBits + F7Bits

Pow2 == [i \in 0 .. Width |-> 2^i]

Space   == Pow2[Width]
Word    == 0 .. Space - 1
ImmBits == ShBits + F7Bits     \* 12

\* The word that stands for an integer, and the integer a word stands for.
Wrap(i)         == i % Space
SignedOf(x, k)  == IF x < Pow2[k - 1] THEN x ELSE x - Pow2[k]   \* x has k bits
Signed(x)       == SignedOf(x, Width)
Bool(b)         == IF b THEN 1 ELSE 0

\* Words as sets of bits.
Bits    == 0 .. Width - 1
BitsOf  == [x \in Word |-> {i \in Bits : (x \div Pow2[i]) % 2 = 1}]
WordOf  == [bits \in SUBSET Bits |-> CHOOSE x \in Word : BitsOf[x] = bits]

And(x, y) == WordOf[BitsOf[x] \cap BitsOf[y]]
Or(x, y)  == WordOf[BitsOf[x] \cup BitsOf[y]]
Xor(x, y) == WordOf[{i \in Bits : (i \in BitsOf[x]) # (i \in BitsOf[y])}]
Not(x)    == WordOf[Bits \ BitsOf[x]]

\* Quotient and remainder of integers, rounded towards zero.
Magnitude(i) == IF i < 0 THEN -i ELSE i
Quot(i, j) == IF (i < 0) = (j < 0) THEN Magnitude(i) \div Magnitude(j)
                                   ELSE -(Magnitude(i) \div Magnitude(j))
Rem(i, j)  == i - j * Quot(i, j)

MostNegative == -Pow2[Width - 1]

\* The result of a computation on two operands: registers, or a register and
\* the immediate.
Result(op, a, b) ==
    CASE op \in {"add", "addi"}   -> Wrap(a + b)
      [] op = "sub"               -> Wrap(a - b)
      [] op \in {"and", "andi"}   -> And(a, b)
      [] op \in {"or", "ori"}     -> Or(a, b)
      [] op \in {"xor", "xori"}   -> Xor(a, b)
      [] op \in {"slt", "slti"}   -> Bool(Signed(a) < Signed(b))
      [] op \in {"sltu", "sltiu"} -> Bool(a < b)
      [] op \in {"sll", "slli"}   -> Wrap(a * Pow2[b % Width])
      [] op \in {"srl", "srli"}   -> a \div Pow2[b % Width]
      [] op \in {"sra", "srai"}   -> Wrap(Signed(a) \div Pow2[b % Width])
      [] op = "mul"               -> Wrap(a * b)
      [] op = "mulh"              -> Wrap((Signed(a) * Signed(b)) \div Space)
      [] op = "mulhsu"            -> Wrap((Signed(a) * b) \div Space)
      [] op = "mulhu"             -> (a * b) \div Space
      [] op = "div"  -> IF b = 0 THEN Space - 1 ELSE Wrap(Quot(Signed(a), Signed(b)))
      [] op = "rem"  -> IF b = 0 THEN a ELSE Wrap(Rem(Signed(a), Signed(b)))
      [] op = "divu" -> IF b = 0 THEN Space - 1 ELSE a \div b
      [] op = "remu" -> IF b = 0 THEN a ELSE a % b

\* Where the result is defined by the architecture but not by a division of
\* integers: there a host may trap.
Special(op, a, b) ==
    \/ op \in {"div", "rem", "divu", "remu"} /\ b = 0
    \/ op \in {"div", "rem"} /\ Signed(a) = MostNegative /\ Signed(b) = -1

\* The immediates, from the fields of the instruction.
Top(func7) == func7 \div Pow2[F7Bits - 1]
ImmI(i) == SignedOf(i.func7 * Width + i.rs2, ImmBits)
ImmS(i) == SignedOf(i.func7 * Width + i.rd, ImmBits)
ImmB(i) == SignedOf(  (2 * Top(i.func7) + (i.rd % 2)) * Pow2[ImmBits - 1]
                    + (i.func7 % Pow2[F7Bits - 1]) * Width
                    + (i.rd - (i.rd % 2)), ImmBits + 1)
ImmU(i) == i.u * Pow2[ImmBits]

BranchTaken(op, a, b) ==
    CASE op = "beq"  -> a = b
      [] op = "bne"  -> a # b
      [] op = "blt"  -> Signed(a) < Signed(b)
      [] op = "bge"  -> Signed(a) >= Signed(b)
      [] op = "bltu" -> a < b
      [] op = "bgeu" -> a >= b

\* Bytes of an access, a quarter of the word each, and what a load of len
\* bytes that finds data leaves in its register.
Bytes(op) == CASE op \in {"lw", "sw"} -> 4
               [] op \in {"lh", "lhu", "sh"} -> 2
               [] op \in {"lb", "lbu", "sb"} -> 1
DataSpace(len) == Pow2[len * (Width \div 4)]
Loaded(op, data) ==
    IF op \in {"lb", "lh"} THEN Wrap(SignedOf(data, Bytes(op) * (Width \div 4)))
                           ELSE data
=============================================================================

------------------------------- MODULE MCIsa --------------------------------
(***************************************************************************)
(* A small instance of Isa for TLC: words of eight bits, so registers and  *)
(* shift amounts of three, func7 of three, immediates of six, bytes of     *)
(* two.  Every row of every decoding table occurs, with every func7 that a *)
(* table distinguishes and one that none does; rd is also an operand, and  *)
(* register 0; the words are the bounds of both interpretations.           *)
(***************************************************************************)
EXTENDS Isa

I(op, func3s, func7s, rds, rs1s, rs2s, us) ==
    [op : {op}, func3 : func3s, func7 : func7s, rd : rds, rs1 : rs1s, rs2 : rs2s, u : us]

Func3 == 0 .. 7

MCInsts == UNION {
    I(51, Func3, {0, 1, 2}, 0 .. 2, {1}, {1, 2}, {0}),               \* exec_alu
    I(51, {0, 5}, {5}, {1}, {1}, {2}, {0}),
    I(19, Func3, {0, 1, 2, 7}, {1, 2}, {1}, {0, 3, 7}, {0}),         \* exec_alui
    I(3, Func3, {0, 7}, {1, 2}, {1}, {0, 1, 6}, {0}),                \* exec_load
    I(35, 0 .. 3, {0, 3, 4, 7}, {0, 1, 4}, {1}, {1, 2}, {0}),        \* exec_store
    I(99, Func3, {0, 3, 7}, {1, 2, 6}, {1}, {2}, {0}),               \* exec_branch
    I(115, Func3, {0}, 0 .. 2, 0 .. 2, {5}, {0}),                    \* exec_csr
    I(111, {0}, {0}, 0 .. 2, {1, 2}, {0}, {0}),                      \* jalr
    I(119, {0}, {0}, 0 .. 2, {0}, {0}, 0 .. 3),                      \* jal
    I(55, {0}, {0}, 0 .. 2, {0}, {0}, 0 .. 3),                       \* lui
    I(23, {0}, {0}, 0 .. 2, {0}, {0}, 0 .. 3),                       \* auipc
    I(15, {0}, {0}, {0}, {0}, {0}, {0}),                             \* fence
    I(103, {0}, {0}, {1}, {1}, {0}, {0}),                            \* no handler
    I(50, {0}, {0}, {1}, {1}, {0}, {0}) }                            \* assertion

\* The table has jalr where the architecture has JAL, and nothing for JALR.
ASSUME OpcodesOfJumps == /\ opcode_table[103 \div 4] = "inv"
                         /\ opcode_table[111 \div 4] = "jalr"
=============================================================================

----------------------------- MODULE MCCpuExec ------------------------------
(***************************************************************************)
(* Small instances of CpuExec for TLC.  Twenty bytes of addresses: a word  *)
(* below 0x1000, two words of memory, a word of a region that cannot be    *)
(* read and a hole of the map; then the addresses wrap, as 2^32 does.      *)
(***************************************************************************)
EXTENDS CpuExec

MCMemKind == [a \in 0 .. 19 |-> CASE a \in 0 .. 3   -> "low"
                                  [] a \in 4 .. 11  -> "ram"
                                  [] a \in 12 .. 15 -> "noread"
                                  [] a \in 16 .. 19 -> "hole"]

\* pc += 4 follows a jump: these lead to 4, 6 (unaligned), 8, 16 and, by the
\* wrap of addresses, 0.
MCTargets == {0, 2, 4, 12, 16}

MCBudgets == {0, 1, 2, Forever}

MCOptionSets == {{}, {"b"}, {"c"}, {"D"}, {"b", "c"}, {"c", "D"}}

\* main() leaves asm_buf_p NULL; a host of nemu.a may call trace_flush first.
MCStartCursors == {Null, 0}
MCMainCursor == {Null}
=============================================================================

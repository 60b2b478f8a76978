---------------------------- MODULE InstrWindow -----------------------------
(***************************************************************************)
(* What the instruction queue of the emulator promises to the reader of a  *)
(* crash dump: a window on the last NR_INSTR instructions, oldest first.   *)
(* An instruction enters with its address only; its word is filled in when *)
(* the fetch has returned, and is Unknown until then.                      *)
(***************************************************************************)
EXTENDS Naturals, Sequences

CONSTANTS NR_INSTR,   \* lines of a dump
          Pcs,        \* instruction addresses
          Instrs,     \* instruction words
          ZeroPc,     \* the address shown on a line not used yet
          Unknown     \* the word shown as xxxxxxxx

VARIABLES window,     \* the lines of a dump printed now
          fetching    \* an address is in, its word is not

vars == <<window, fetching>>

Line == (Pcs \cup {ZeroPc}) \X (Instrs \cup {Unknown})

Init == /\ window = [k \in 1 .. NR_INSTR |-> <<ZeroPc, Unknown>>]
        /\ fetching = FALSE

\* The oldest line leaves, the new address enters at the end.
Shift(pc) == /\ ~fetching
             /\ window' = [k \in 1 .. NR_INSTR |->
                             IF k = NR_INSTR THEN <<pc, Unknown>> ELSE window[k + 1]]
             /\ fetching' = TRUE

\* The word of the newest line becomes known.
Fill(instr) == /\ fetching
               /\ window' = [window EXCEPT ![NR_INSTR] = <<window[NR_INSTR][1], instr>>]
               /\ fetching' = FALSE

Next == \/ \E pc \in Pcs : Shift(pc)
        \/ \E instr \in Instrs : Fill(instr)

Spec == Init /\ [][Next]_vars
=============================================================================

--------------------------------- MODULE Iq ---------------------------------
(***************************************************************************)
(* The instruction queue, src/cpu/iq.c: a ring of NR_INSTR elements that   *)
(* keeps the last instructions for the dump a failing CPUAssert prints.    *)
(*                                                                         *)
(* cpu_exec calls instr_enqueue_pc before the fetch and instr_enqueue_instr*)
(* after it; fetching is TRUE between the two calls.  The fetch itself can *)
(* fail, and the dump is then printed with the newest word missing.        *)
(***************************************************************************)
EXTENDS Ring

CONSTANTS NR_INSTR,   \* number of elements, 8 in the source
          Pcs,        \* instruction addresses
          Instrs,     \* instruction words
          ZeroPc,     \* address and word of a zero-initialised element
          ZeroInstr,
          Unknown     \* what is printed for a word that is not enqueued

ASSUME NrInstrAssumption == NR_INSTR \in Nat \ {0}

VARIABLES iq,         \* the elements
          pc_ptr,     \* where the next address goes, the oldest element
          instr_ptr,  \* the element that waits for its word
          fetching    \* between instr_enqueue_pc and instr_enqueue_instr

vars == <<iq, pc_ptr, instr_ptr, fetching>>

Slots == 0 .. NR_INSTR - 1

Element == [pc : Pcs \cup {ZeroPc}, instr : Instrs \cup {ZeroInstr}, instr_enq : BOOLEAN]

\* The queue is a static array: zero-initialised.
Init == /\ iq = [i \in Slots |-> [pc |-> ZeroPc, instr |-> ZeroInstr, instr_enq |-> FALSE]]
        /\ pc_ptr = 0
        /\ instr_ptr = 0
        /\ fetching = FALSE

\* Mutant of EnqueuePc: instr_ptr is not moved.
EnqueuePcKeepsPtr(pc) ==
    /\ ~fetching
    /\ iq' = [iq EXCEPT ![pc_ptr] = [pc |-> pc, instr |-> @.instr, instr_enq |-> FALSE]]
    /\ pc_ptr' = RingNext(pc_ptr, NR_INSTR)
    /\ fetching' = TRUE
    /\ UNCHANGED instr_ptr

\* Mutant of EnqueuePc: instr_enq of the overwritten element is not cleared.
EnqueuePcKeepsEnq(pc) ==
    /\ ~fetching
    /\ instr_ptr' = pc_ptr
    /\ iq' = [iq EXCEPT ![pc_ptr].pc = pc]
    /\ pc_ptr' = RingNext(pc_ptr, NR_INSTR)
    /\ fetching' = TRUE

\* The word of the overwritten element stays in it, hidden by instr_enq.
EnqueuePc(pc) ==
    /\ ~fetching
    /\ instr_ptr' = pc_ptr
    /\ iq' = [iq EXCEPT ![pc_ptr] = [pc |-> pc, instr |-> @.instr, instr_enq |-> FALSE]]
    /\ pc_ptr' = RingNext(pc_ptr, NR_INSTR)
    /\ fetching' = TRUE

EnqueueInstr(instr) ==
    /\ fetching
    /\ iq' = [iq EXCEPT ![instr_ptr] = [pc |-> @.pc, instr |-> instr, instr_enq |-> TRUE]]
    /\ fetching' = FALSE
    /\ UNCHANGED <<pc_ptr, instr_ptr>>

\* One line of the dump.
PrintElement(e) == <<e.pc, IF e.instr_enq THEN e.instr ELSE Unknown>>

\* The lines of print_instr_queue: once round the ring from pc_ptr.
PrintQueue ==
    [k \in 1 .. NR_INSTR |-> PrintElement(iq[RingSlot(pc_ptr, k - 1, NR_INSTR)])]

Next == \/ \E pc \in Pcs : EnqueuePc(pc)
        \/ \E instr \in Instrs : EnqueueInstr(instr)

Spec == Init /\ [][Next]_vars

-----------------------------------------------------------------------------
TypeOK == /\ iq \in [Slots -> Element]
          /\ pc_ptr \in Slots
          /\ instr_ptr \in Slots
          /\ fetching \in BOOLEAN

\* While a fetch is under way, the element that waits for its word is the
\* one just before pc_ptr, and its word is not shown.
Waiting == fetching =>
              /\ RingNext(instr_ptr, NR_INSTR) = pc_ptr
              /\ ~iq[instr_ptr].instr_enq

\* The invariant (instr_enqueue_pc and instr_enqueue_instr agree on the
\* element being filled): inductive, and enough for the refinement.
IInv == TypeOK /\ Waiting

Window == INSTANCE InstrWindow WITH window <- PrintQueue

\* The ring shows exactly the last NR_INSTR addresses in order, each with its
\* own word or xxxxxxxx: print_instr_queue never pairs an address with the
\* word of the instruction it overwrote, whatever the position of pc_ptr.
ShowsLastInstrs == Window!Spec
=============================================================================

----------------------------- MODULE FlatMemory -----------------------------
(***************************************************************************)
(* What the guest and a debugger may rely on: physical memory is a flat    *)
(* array of bytes, seen through the addresses themselves and through two   *)
(* windows of IoSpace bytes each (kseg0 and kseg1).  A request through any *)
(* of the three touches the same cells; a word lies in them in the order   *)
(* of its bytes, the least significant one first.  A request may also be   *)
(* left unanswered: then nothing changes.                                  *)
(***************************************************************************)
EXTENDS Naturals, Sequences

CONSTANTS Requests, \* records with the fields write, addr and word
          NoReq,
          Cells,    \* physical addresses of memory
          Bytes,
          Window,   \* first address of the first window
          IoSpace,  \* length of a window
          Stub,     \* bytes written before the CPU starts, and where
          StubAddr

VARIABLES req,      \* the request being served, or NoReq
          cells,    \* [Cells -> Bytes]
          out       \* the bytes of the last read

vars == <<req, cells, out>>

Phys(v) == IF Window <= v /\ v < Window + IoSpace THEN v - Window
           ELSE IF Window + IoSpace <= v /\ v < Window + 2 * IoSpace
                THEN v - Window - IoSpace
           ELSE v

\* cells with word at physical address p; bytes beside memory are dropped.
Put(p, word) == [c \in Cells |-> IF p <= c /\ c < p + Len(word) THEN word[c - p + 1]
                                                                ELSE cells[c]]

Init == req = NoReq /\ cells \in [Cells -> Bytes] /\ out = <<>>

Ask == /\ req = NoReq
       /\ req' \in Requests
       /\ out' = <<>>
       /\ UNCHANGED cells

Write == /\ req # NoReq /\ req.write
         /\ cells' = Put(Phys(req.addr), req.word)
         /\ req' = NoReq
         /\ UNCHANGED out

\* A read of memory returns its bytes; a read of a device returns anything.
\* A request is never half in memory.
Read == /\ req # NoReq /\ ~req.write
        /\ LET at == {Phys(req.addr) + k : k \in 0 .. Len(req.word) - 1}
           IN  \/ /\ at \subseteq Cells
                  /\ out' = [k \in 1 .. Len(req.word) |-> cells[Phys(req.addr) + (k - 1)]]
               \/ /\ at \cap Cells = {}
                  /\ out' \in [1 .. Len(req.word) -> Bytes]
        /\ req' = NoReq
        /\ UNCHANGED cells

WriteStub == /\ cells' = Put(StubAddr, Stub)
             /\ UNCHANGED <<req, out>>

Next == Ask \/ Write \/ Read \/ WriteStub

Spec == Init /\ [][Next]_vars
=============================================================================

-------------------------------- MODULE Ring --------------------------------
(***************************************************************************)
(* Index arithmetic of the fixed-size circular buffers of the emulator:    *)
(* the instruction queue (cpu/iq.c), the UART receive queue                *)
(* (dev/serial.c) and the keyboard queue (dev/keyboard.c).  A buffer of    *)
(* len slots is indexed 0 .. len-1; f is the index of the oldest element   *)
(* and r the index that the next element is stored at.                     *)
(*                                                                         *)
(* RingNext is the arithmetic of the source.  The other operators say what *)
(* a pair of indices stands for; they avoid % so that SMT can reason about *)
(* them for every len.                                                     *)
(***************************************************************************)
EXTENDS Naturals, Sequences

RingNext(p, len) == (p + 1) % len

\* The slot that lies k places after p, for k in 0 .. len-1.
RingSlot(p, k, len) == IF p + k < len THEN p + k ELSE p + k - len

\* How many elements are stored between f and r.
RingCount(f, r, len) == IF f <= r THEN r - f ELSE len - f + r

\* The stored elements, oldest first.
RingContent(q, f, r, len) ==
    [k \in 1 .. RingCount(f, r, len) |-> q[RingSlot(f, k - 1, len)]]
=============================================================================

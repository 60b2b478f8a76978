------------------------------ MODULE ByteFifo ------------------------------
(***************************************************************************)
(* What the receive side of the UART promises to the guest: a bounded FIFO *)
(* of bytes.  Each press of a key enters the bytes of the key once and in  *)
(* order, cut short only by a FIFO that they have filled; a key that is    *)
(* held is not pressed again.  A read takes some time, and bytes may       *)
(* arrive while it is under way; a read that began with a byte in the FIFO *)
(* returns the oldest one and removes just that.  A read that              *)
(* began on an empty FIFO is the guest's mistake: it returns anything, and *)
(* may take away a byte that arrived meanwhile.                            *)
(***************************************************************************)
EXTENDS Naturals, Sequences

CONSTANTS Cap,     \* bytes that fit
          Bytes,   \* what a read may return
          Keys,
          BytesOf  \* the sequence of bytes of each key

VARIABLES fifo,    \* oldest first
          held,    \* keys that are down
          reading, \* a read is under way
          blind,   \* it began on an empty FIFO
          out      \* what the last read returned

vars == <<fifo, held, reading, blind, out>>

Init == /\ fifo = <<>>
        /\ held = {}
        /\ reading = FALSE
        /\ blind = FALSE
        /\ out \in Bytes

\* The first m bytes of the burst enter; all of them, unless they fill it.
Offer(burst) ==
    \E m \in 0 .. Len(burst) :
        /\ m = Len(burst) \/ Len(fifo) + m = Cap
        /\ Len(fifo) + m <= Cap
        /\ fifo' = [k \in 1 .. Len(fifo) + m |->
                      IF k <= Len(fifo) THEN fifo[k] ELSE burst[k - Len(fifo)]]

Press(key) == /\ key \notin held
              /\ held' = held \cup {key}
              /\ Offer(BytesOf[key])
              /\ UNCHANGED <<reading, blind, out>>

Release(key) == /\ held' = held \ {key}
                /\ UNCHANGED <<fifo, reading, blind, out>>

BeginRead == /\ ~reading
             /\ reading' = TRUE
             /\ blind' = (Len(fifo) = 0)
             /\ UNCHANGED <<fifo, held, out>>

\* The FIFO without its oldest byte.
Rest == [k \in 1 .. Len(fifo) - 1 |-> fifo[k + 1]]

EndRead == /\ reading
           /\ reading' = FALSE
           /\ \/ ~blind /\ Len(fifo) > 0 /\ out' = fifo[1] /\ fifo' = Rest
              \/ blind /\ out' \in Bytes /\ fifo' \in {fifo, Rest}
           /\ UNCHANGED <<held, blind>>

Next == \/ \E key \in Keys : Press(key) \/ Release(key)
        \/ BeginRead
        \/ EndRead

Spec == Init /\ [][Next]_vars
=============================================================================

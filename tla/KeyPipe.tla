------------------------------ MODULE KeyPipe ------------------------------
(***************************************************************************)
(* What the devices promise of the user's keys: events wait in the order   *)
(* of their arrival; each one taken enters the UART and the keyboard once, *)
(* an overflow dropping the newest, and a request to quit ends the         *)
(* process.  One promise is weak: when nothing waits, an event that nobody *)
(* sent may be taken (a ghost).                                            *)
(***************************************************************************)
EXTENDS Naturals, Sequences

CONSTANTS Keys, BytesOf, FifoCap,
          Events,
          CodeOf,  \* the code of each key and kind of event, NoCode if it has none
          NoCode, CodesCap, PipeCap

VARIABLES pipe,        \* events that wait, oldest first
          ghost,       \* an event that nobody sent is about to be taken
          fifo, held,  \* the receive side of the UART
          codes, code, \* the keyboard, and what was last read from it
          ended

vars == <<pipe, ghost, fifo, held, codes, code, ended>>

U == INSTANCE ByteFifo WITH Cap <- FifoCap, Bytes <- {}, reading <- FALSE, blind <- FALSE,
                            out <- FALSE

Kinds  == {"down", "up"}

Codes == {CodeOf[k][key] : k \in Kinds, key \in Keys} \ {NoCode}

Init == /\ pipe = <<>> /\ ghost = FALSE /\ ended = FALSE
        /\ fifo = <<>> /\ held = {}
        /\ codes = <<>> /\ code = NoCode

Arrive(e) == /\ Len(pipe) < PipeCap
             /\ pipe' = Append(pipe, e)
             /\ UNCHANGED <<ghost, fifo, held, codes, code, ended>>

Haunt == /\ pipe = <<>>
         /\ ghost' = TRUE
         /\ UNCHANGED <<pipe, fifo, held, codes, code, ended>>

ToUart(e) == /\ held' = IF e.kind = "down" THEN held \cup {e.key} ELSE held \ {e.key}
             /\ IF held' \subseteq held THEN UNCHANGED fifo ELSE U!Offer(BytesOf[e.key])

ToKeyboard(c) == codes' = IF c = NoCode \/ Len(codes) >= CodesCap THEN codes
                                                                ELSE Append(codes, c)

Take(e) == /\ \/ /\ e.kind \in Kinds
                 /\ ToUart(e)
                 /\ ToKeyboard(CodeOf[e.kind][e.key])
                 /\ UNCHANGED ended
              \/ /\ e.kind \notin Kinds
                 /\ ended' = (e.kind = "quit")
                 /\ UNCHANGED <<fifo, held, codes>>
           /\ UNCHANGED code

TakeFirst == /\ pipe # <<>> /\ ~ghost
             /\ Take(Head(pipe))
             /\ pipe' = Tail(pipe)
             /\ UNCHANGED ghost

TakeGhost == /\ ghost
             /\ \E e \in Events : Take(e)
             /\ ghost' = FALSE
             /\ UNCHANGED pipe

ReadCode == /\ codes # <<>>
            /\ code' = Head(codes) /\ codes' = Tail(codes)
            /\ UNCHANGED <<pipe, ghost, fifo, held, ended>>

\* A read when there is no code: the guest's mistake, and the keyboard is full
\* of anything after it.
Misread == /\ codes = <<>>
           /\ code' \in Codes \cup {NoCode}
           /\ codes' \in Seq(Codes \cup {NoCode}) /\ Len(codes') = CodesCap
           /\ UNCHANGED <<pipe, ghost, fifo, held, ended>>

ReadByte == /\ fifo # <<>>
            /\ fifo' = U!Rest
            /\ UNCHANGED <<pipe, ghost, held, codes, code, ended>>

End == /\ ended' = TRUE
       /\ UNCHANGED <<pipe, ghost, fifo, held, codes, code>>

Next == /\ ~ended
        /\ \/ \E e \in Events : Arrive(e)
           \/ Haunt \/ TakeFirst \/ TakeGhost \/ ReadCode \/ Misread \/ ReadByte \/ End

Spec == Init /\ [][Next]_vars
=============================================================================

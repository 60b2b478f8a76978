------------------------------- MODULE Serial -------------------------------
(***************************************************************************)
(* The UART, src/dev/serial.c.  Keys enter through serial_enqueue, which   *)
(* device_update calls in the SIGVTALRM handler; the guest reads the bytes *)
(* through serial_read.  Both run on one thread, so serial_enqueue is not  *)
(* interrupted, but it may run between any two steps of serial_read.       *)
(*                                                                         *)
(* serial_read peeks the byte and then tests the indices.  Nothing in the  *)
(* source (no volatile, no masked signal) keeps the compiler from loading  *)
(* them in the other order: both are modelled.                             *)
(***************************************************************************)
EXTENDS Ring

CONSTANTS SERIAL_QUEUE_LEN, \* 1024 in the source
          SDLKeys,          \* keys, all of them within 0 .. SDLK_LAST - 1
          Chars,            \* bytes that keys produce
          NUL,              \* what a slot never written holds
          SDLK_to_ascii,    \* the bytes of each key
          CtrlValues        \* what the guest writes to the control register

ASSUME SerialAssumption ==
    /\ SERIAL_QUEUE_LEN \in Nat \ {0, 1}
    /\ SDLK_to_ascii \in [SDLKeys -> Seq(Chars)]
    /\ 0 \in CtrlValues

VARIABLES serial_queue, serial_f, serial_r,
          sdlk_state,       \* keys that are down
          uartlite_ctrl_reg,
          rx,               \* the read of UARTLITE_Rx: none, peeked or tested
          data,             \* the byte peeked
          avail,            \* the outcome of the test
          out,              \* what the last read returned
          \* History, for the properties only:
          status,           \* the guest has seen valid data and not read since
          blind, polled     \* the read began on an empty queue, after a status

readVars == <<rx, data, avail, out, status, blind, polled>>
vars == <<serial_queue, serial_f, serial_r, sdlk_state, uartlite_ctrl_reg, readVars>>

Slots == 0 .. SERIAL_QUEUE_LEN - 1
Bytes == Chars \cup {NUL}
Cap   == SERIAL_QUEUE_LEN - 1   \* one slot stays free: f = r is empty

Count   == RingCount(serial_f, serial_r, SERIAL_QUEUE_LEN)
Content == RingContent(serial_queue, serial_f, serial_r, SERIAL_QUEUE_LEN)

Init == /\ serial_queue = [i \in Slots |-> NUL]
        /\ serial_f = 0 /\ serial_r = 0
        /\ sdlk_state = {}
        /\ uartlite_ctrl_reg = 0
        /\ rx = "none" /\ data = NUL /\ avail = FALSE /\ out = NUL
        /\ status = FALSE /\ blind = FALSE /\ polled = FALSE

-----------------------------------------------------------------------------
\* How far slot i lies behind the place of the next byte.
Ahead(i) == IF i >= serial_r THEN i - serial_r ELSE i - serial_r + SERIAL_QUEUE_LEN

\* Mutant of StoreBurst: serial_r may reach serial_f.
StoreBurstOnto(burst) ==
    LET m == IF Len(burst) <= Cap + 1 - Count THEN Len(burst) ELSE Cap + 1 - Count
    IN  /\ serial_queue' = [i \in Slots |-> IF Ahead(i) < m THEN burst[Ahead(i) + 1]
                                                            ELSE serial_queue[i]]
        /\ serial_r' = RingSlot(serial_r, m, SERIAL_QUEUE_LEN)

\* Mutant of StoreBurst: a burst that does not fit is dropped whole.
StoreBurstWhole(burst) ==
    LET m == IF Len(burst) <= Cap - Count THEN Len(burst) ELSE 0
    IN  /\ serial_queue' = [i \in Slots |-> IF Ahead(i) < m THEN burst[Ahead(i) + 1]
                                                            ELSE serial_queue[i]]
        /\ serial_r' = RingSlot(serial_r, m, SERIAL_QUEUE_LEN)

\* The loop of serial_enqueue: byte after byte is stored while the next index
\* is not serial_f; the rest of the burst is dropped.
StoreBurst(burst) ==
    LET m == IF Len(burst) <= Cap - Count THEN Len(burst) ELSE Cap - Count
    IN  /\ serial_queue' = [i \in Slots |-> IF Ahead(i) < m THEN burst[Ahead(i) + 1]
                                                            ELSE serial_queue[i]]
        /\ serial_r' = RingSlot(serial_r, m, SERIAL_QUEUE_LEN)

\* serial_enqueue(SDL_KEYDOWN, key).  SDL repeats the event while a key is
\* held (SDL_EnableKeyRepeat): only the first one counts, even if its bytes
\* were dropped.
KeyDown(key) == /\ key \notin sdlk_state
                /\ sdlk_state' = sdlk_state \cup {key}
                /\ StoreBurst(SDLK_to_ascii[key])
                /\ UNCHANGED <<serial_f, uartlite_ctrl_reg, readVars>>

\* serial_enqueue(SDL_KEYUP, key)
KeyUp(key) == /\ sdlk_state' = sdlk_state \ {key}
              /\ UNCHANGED <<serial_queue, serial_f, serial_r, uartlite_ctrl_reg, readVars>>

-----------------------------------------------------------------------------
\* A guest load of UARTLITE_STAT.
ReadStat == /\ rx = "none"
            /\ status' = (serial_f # serial_r)
            /\ UNCHANGED <<serial_queue, serial_f, serial_r, sdlk_state,
                           uartlite_ctrl_reg, rx, data, avail, out, blind, polled>>

\* A guest load of UARTLITE_Rx begins: the history of the read.
Begin == /\ rx = "none"
         /\ blind' = (serial_f = serial_r)
         /\ polled' = status
         /\ status' = FALSE
         /\ UNCHANGED <<serial_queue, serial_f, serial_r, sdlk_state,
                        uartlite_ctrl_reg, out>>

PeekFirst == /\ Begin
             /\ data' = serial_queue[serial_f]
             /\ rx' = "peeked"
             /\ UNCHANGED avail

TestFirst == /\ Begin
             /\ avail' = (serial_f # serial_r)
             /\ rx' = "tested"
             /\ UNCHANGED data

Advance(yes) == serial_f' = IF yes THEN RingNext(serial_f, SERIAL_QUEUE_LEN) ELSE serial_f

ThenTest == /\ rx = "peeked"
            /\ Advance(serial_f # serial_r)
            /\ out' = data
            /\ rx' = "none"
            /\ UNCHANGED <<serial_queue, serial_r, sdlk_state, uartlite_ctrl_reg,
                           data, avail, status, blind, polled>>

\* Mutant of ThenPeek: the index moves before the byte is loaded.
AdvanceThenPeek ==
    /\ rx = "tested"
    /\ Advance(avail)
    /\ out' = serial_queue[serial_f']
    /\ rx' = "none"
    /\ UNCHANGED <<serial_queue, serial_r, sdlk_state, uartlite_ctrl_reg,
                   data, avail, status, blind, polled>>

ThenPeek == /\ rx = "tested"
            /\ Advance(avail)
            /\ out' = serial_queue[serial_f]
            /\ rx' = "none"
            /\ UNCHANGED <<serial_queue, serial_r, sdlk_state, uartlite_ctrl_reg,
                           data, avail, status, blind, polled>>

\* A guest store to UARTLITE_CTRL: the value is kept, the reset bits do nothing.
WriteCtrl(value) == /\ rx = "none"
                    /\ uartlite_ctrl_reg' = value
                    /\ UNCHANGED <<serial_queue, serial_f, serial_r, sdlk_state, readVars>>

Next == \/ \E key \in SDLKeys : KeyDown(key) \/ KeyUp(key)
        \/ ReadStat \/ PeekFirst \/ TestFirst \/ ThenTest \/ ThenPeek
        \/ \E value \in CtrlValues : WriteCtrl(value)

Spec == Init /\ [][Next]_vars

-----------------------------------------------------------------------------
TypeOK == /\ serial_queue \in [Slots -> Bytes]
          /\ serial_f \in Slots
          /\ serial_r \in Slots
          /\ sdlk_state \subseteq SDLKeys
          /\ uartlite_ctrl_reg \in CtrlValues
          /\ rx \in {"none", "peeked", "tested"}
          /\ data \in Bytes
          /\ avail \in BOOLEAN
          /\ out \in Bytes
          /\ status \in BOOLEAN
          /\ blind \in BOOLEAN
          /\ polled \in BOOLEAN

\* A guest that has seen valid data and has not read since finds it there:
\* no key event takes it away or empties the queue by wrapping onto serial_f.
StatusHolds == status => serial_f # serial_r

\* While a read is under way that did not begin on an empty queue, the queue
\* is not empty, and what was looked at first is still true.
ReadUnderWay == /\ rx # "none" => ~status /\ (polled => ~blind)
                /\ rx # "none" /\ ~blind => serial_f # serial_r
                /\ rx = "peeked" /\ ~blind => data = serial_queue[serial_f]
                /\ rx = "tested" => (avail <=> ~blind)

IInv == TypeOK /\ StatusHolds /\ ReadUnderWay

\* A read after a status of valid data returns the oldest byte of the queue
\* and removes that byte only, although key events come between the two loads
\* and the store of serial_read, in either order of the loads.
PolledReadExact ==
    [][(rx # "none" /\ rx' = "none" /\ polled) =>
          /\ Count > 0
          /\ out' = Content[1]
          /\ Content' = [k \in 1 .. Count - 1 |-> Content[k + 1]]]_vars

\* The loop of serial_enqueue round by round, on a ring q with the indices f
\* and r: what it leaves after the first k bytes.  The round that finds the ring
\* full ends it; here it and those that would follow do nothing.
EnqueueLoop(q, f, r, burst) ==
    LET after[k \in 0 .. Len(burst)] ==
            IF k = 0 THEN [queue |-> q, r |-> r]
            ELSE LET was  == after[k - 1]
                     next == RingNext(was.r, SERIAL_QUEUE_LEN)
                 IN  IF next = f THEN was
                     ELSE [queue |-> [was.queue EXCEPT ![was.r] = burst[k]], r |-> next]
    IN  after

\* What StoreBurst says of the whole loop is what its rounds come to.
StoreIsTheLoop ==
    [][\A key \in SDLKeys : key \in sdlk_state' \ sdlk_state =>
          LET burst == SDLK_to_ascii[key]
              left  == EnqueueLoop(serial_queue, serial_f, serial_r, burst)[Len(burst)]
          IN  serial_queue' = left.queue /\ serial_r' = left.r]_vars

\* The ring is a FIFO of SERIAL_QUEUE_LEN - 1 bytes.
Fifo == INSTANCE ByteFifo WITH
            Keys <- SDLKeys, BytesOf <- SDLK_to_ascii, held <- sdlk_state,
            fifo <- Content, reading <- (rx # "none")

\* No byte is lost, doubled or moved on the way through the ring; each press
\* of a key enters its bytes once, cut short only by a full ring.
ImplementsFifo == Fifo!Spec
=============================================================================

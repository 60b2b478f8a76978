------------------------------ MODULE Devices ------------------------------
(***************************************************************************)
(* The timer of device.c and what it drives: the screen (dev/video.c), the *)
(* events of SDL, the UART and the keyboard (dev/keyboard.c).              *)
(*                                                                         *)
(* SIGVTALRM interrupts the guest; device_update counts it, draws a frame  *)
(* at every TIMER_HZ / VGA_HZ-th, takes one event from SDL and arms the    *)
(* one-shot timer again.  Its steps are apart here, since events arrive at *)
(* any time; the guest waits until it returns.  The UART is the FIFO that  *)
(* Serial implements.                                                      *)
(***************************************************************************)
EXTENDS Ring, Integers

CONSTANTS Keys, BytesOf, FifoCap,      \* as in ByteFifo
          Events,                      \* what SDL may give
          CodeOf, NoCode,              \* SDLK_to_scancode: downcode and upcode; 0
          KEYBOARD_QUEUE_LEN,          \* 1024
          QueueCap,                    \* events that SDL keeps, 128
          TIMER_HZ, VGA_HZ,            \* 100 and 25
          JiffySpace,                  \* values of the 64-bit jiffy
          SCR_W, SCR_H,                \* 400 and 300
          Colors                       \* 16-bit colours that the guest stores

VARIABLES sdl_queue,
          phase,      \* guest, the steps of device_update, exit
          event,      \* its local variable, while it is set
          real,       \* event is one that SDL has given
          armed,      \* the virtual timer runs
          jiffy,
          vmem, pixels,
          fifo, held, \* the UART
          keyboard_queue, keyboard_f, keyboard_r,
          code        \* what kb_read last returned

handlerVars == <<phase, event, real, armed, jiffy>>
screenVars  == <<vmem, pixels>>
uartVars    == <<fifo, held>>
kbVars      == <<keyboard_queue, keyboard_f, keyboard_r, code>>
vars == <<sdl_queue, handlerVars, screenVars, uartVars, kbVars>>

U == INSTANCE ByteFifo WITH Cap <- FifoCap, Bytes <- {}, reading <- FALSE, blind <- FALSE,
                            out <- FALSE

Kinds  == {"down", "up"}
Codes  == {CodeOf[k][key] : k \in Kinds, key \in Keys} \cup {NoCode}
Slots  == 0 .. KEYBOARD_QUEUE_LEN - 1
Screen == (0 .. SCR_W - 1) \X (0 .. SCR_H - 1)
Window == (0 .. 2 * SCR_W - 1) \X (0 .. 2 * SCR_H - 1)
None   == [kind |-> "other"]

ASSUME DevicesAssumption ==
    /\ Events \subseteq [kind : Kinds, key : Keys] \cup [kind : {"quit", "other"}]
    /\ None \in Events
    /\ BytesOf \in [Keys -> Seq(UNION {{BytesOf[k][n] : n \in DOMAIN BytesOf[k]} : k \in Keys})]
    /\ CodeOf \in [Kinds -> [Keys -> Codes]]
    /\ FifoCap \in Nat /\ QueueCap \in Nat \ {0}
    /\ KEYBOARD_QUEUE_LEN \in Nat \ {0, 1}
    /\ VGA_HZ \in Nat \ {0} /\ TIMER_HZ \in Nat /\ TIMER_HZ \div VGA_HZ > 0
    /\ JiffySpace \in Nat \ {0}
    /\ SCR_W \in Nat \ {0} /\ SCR_H \in Nat \ {0}
    /\ Colors \subseteq Nat /\ 0 \in Colors

\* RGB_M12_to_M32: four bits of each of red, green and blue.
RGB(color) == <<(color \div 256) % 16, (color \div 16) % 16, color % 16>>

\* After init_sdl: the timer is armed.  The window is black.
Init == /\ sdl_queue = <<>>
        /\ phase = "guest" /\ event = None /\ real = FALSE /\ armed = TRUE
        /\ jiffy = 0
        /\ vmem = [p \in Screen |-> 0] /\ pixels = [w \in Window |-> RGB(0)]
        /\ fifo = <<>> /\ held = {}
        /\ keyboard_queue = [i \in Slots |-> NoCode]
        /\ keyboard_f = 0 /\ keyboard_r = 0 /\ code = NoCode

\* The user and the window system, at any time.
Arrive(e) == /\ phase # "exit"
             /\ Len(sdl_queue) < QueueCap
             /\ sdl_queue' = Append(sdl_queue, e)
             /\ UNCHANGED <<handlerVars, screenVars, uartVars, kbVars>>

-----------------------------------------------------------------------------
\* device_update.

\* Mutant of Block: rows are taken for columns.
BlockTransposed(p) == {<<2 * p[2], 2 * p[1]>>, <<2 * p[2], 2 * p[1] + 1>>,
                       <<2 * p[2] + 1, 2 * p[1]>>, <<2 * p[2] + 1, 2 * p[1] + 1>>}

\* What update_screen draws with the colour of p.
Block(p) == {<<2 * p[1], 2 * p[2]>>, <<2 * p[1], 2 * p[2] + 1>>,
             <<2 * p[1] + 1, 2 * p[2]>>, <<2 * p[1] + 1, 2 * p[2] + 1>>}

update_screen ==
    pixels' = [w \in Window |-> IF \E p \in Screen : w \in Block(p)
                                THEN RGB(vmem[CHOOSE p \in Screen : w \in Block(p)])
                                ELSE pixels[w]]

Alarm == /\ phase = "guest" /\ armed
         /\ armed' = FALSE
         /\ jiffy' = (jiffy + 1) % JiffySpace
         /\ IF jiffy' % (TIMER_HZ \div VGA_HZ) = 0 THEN update_screen ELSE UNCHANGED pixels
         /\ phase' = "poll"
         /\ UNCHANGED <<sdl_queue, event, real, vmem, uartVars, kbVars>>

\* SDL_PollEvent.  On an empty queue it leaves the event as it is, which is
\* whatever the stack holds.
Poll == /\ phase = "poll"
        /\ \/ /\ sdl_queue # <<>>
              /\ event' = Head(sdl_queue) /\ sdl_queue' = Tail(sdl_queue)
              /\ real' = TRUE
           \/ /\ sdl_queue = <<>>
              /\ event' \in Events /\ UNCHANGED sdl_queue
              /\ real' = FALSE
        /\ phase' = "handle"
        /\ UNCHANGED <<armed, jiffy, screenVars, uartVars, kbVars>>

serial_enqueue(e) ==
    \/ /\ e.kind = "up"
       /\ held' = held \ {e.key}
       /\ UNCHANGED fifo
    \/ /\ e.kind = "down"
       /\ held' = held \cup {e.key}
       /\ IF e.key \in held THEN UNCHANGED fifo ELSE U!Offer(BytesOf[e.key])

\* Mutant of keyboard_enqueue: the test for a full queue is missing.
keyboard_enqueueOnto(e) ==
    LET scancode == CodeOf[e.kind][e.key]
    IN  /\ IF scancode # NoCode
           THEN /\ keyboard_queue' = [keyboard_queue EXCEPT ![keyboard_r] = scancode]
                /\ keyboard_r' = RingNext(keyboard_r, KEYBOARD_QUEUE_LEN)
           ELSE UNCHANGED <<keyboard_queue, keyboard_r>>
        /\ UNCHANGED <<keyboard_f, code>>

keyboard_enqueue(e) ==
    LET scancode == CodeOf[e.kind][e.key]
        next == RingNext(keyboard_r, KEYBOARD_QUEUE_LEN)
    IN  /\ IF scancode # NoCode /\ next # keyboard_f
           THEN /\ keyboard_queue' = [keyboard_queue EXCEPT ![keyboard_r] = scancode]
                /\ keyboard_r' = next
           ELSE UNCHANGED <<keyboard_queue, keyboard_r>>
        /\ UNCHANGED <<keyboard_f, code>>

\* The switch.
HandleKey == /\ event.kind \in Kinds
             /\ serial_enqueue(event)
             /\ keyboard_enqueue(event)
             /\ phase' = "rearm"

HandleQuit == /\ event.kind = "quit"
              /\ phase' = "exit"
              /\ UNCHANGED <<uartVars, kbVars>>

HandleOther == /\ event.kind = "other"
               /\ phase' = "rearm"
               /\ UNCHANGED <<uartVars, kbVars>>

Handle == /\ phase = "handle"
          /\ HandleKey \/ HandleQuit \/ HandleOther
          /\ event' = None /\ real' = FALSE
          /\ UNCHANGED <<sdl_queue, armed, jiffy, screenVars>>

\* Mutant of Rearm: the timer is armed again only if events are left.
RearmIfEvents == /\ phase = "rearm"
                 /\ armed' = (sdl_queue # <<>>)
                 /\ phase' = "guest"
                 /\ UNCHANGED <<sdl_queue, event, real, jiffy, screenVars, uartVars, kbVars>>

Rearm == /\ phase = "rearm"
         /\ armed' = TRUE
         /\ phase' = "guest"
         /\ UNCHANGED <<sdl_queue, event, real, jiffy, screenVars, uartVars, kbVars>>

-----------------------------------------------------------------------------
\* The guest.

\* vga_write, of one pixel.
vga_write(p, color) == /\ phase = "guest"
                       /\ vmem' = [vmem EXCEPT ![p] = color]
                       /\ UNCHANGED <<sdl_queue, handlerVars, pixels, uartVars, kbVars>>

\* A polled read of the UART.
ReadByte == /\ phase = "guest"
            /\ fifo # <<>>
            /\ fifo' = U!Rest
            /\ UNCHANGED <<sdl_queue, handlerVars, screenVars, held, kbVars>>

\* A load of KB_CODE; that of KB_STAT changes nothing.  The index moves even
\* if the queue is empty.  No region of mmap_table leads here at present.
kb_read == /\ phase = "guest"
           /\ code' = keyboard_queue[keyboard_f]
           /\ keyboard_f' = RingNext(keyboard_f, KEYBOARD_QUEUE_LEN)
           /\ UNCHANGED <<sdl_queue, handlerVars, screenVars, uartVars,
                          keyboard_queue, keyboard_r>>

\* The guest ends the process: the GPIO trap in batch mode, a fault.
Leave == /\ phase = "guest"
         /\ phase' = "exit"
         /\ UNCHANGED <<sdl_queue, event, real, armed, jiffy, screenVars, uartVars, kbVars>>

Next == \/ \E e \in Events : Arrive(e)
        \/ Alarm \/ Poll \/ Handle \/ Rearm
        \/ \E p \in Screen : \E color \in Colors : vga_write(p, color)
        \/ ReadByte \/ kb_read \/ Leave

\* The handler runs to its end, and the virtual timer runs while the guest
\* does, which never waits.
Fairness == WF_vars(Alarm) /\ WF_vars(Poll) /\ WF_vars(Handle) /\ WF_vars(Rearm)

SafeSpec == Init /\ [][Next]_vars
Spec     == SafeSpec /\ Fairness
-----------------------------------------------------------------------------
TypeOK == /\ sdl_queue \in Seq(Events) /\ Len(sdl_queue) <= QueueCap
          /\ phase \in {"guest", "poll", "handle", "rearm", "exit"}
          /\ event \in Events
          /\ real \in BOOLEAN
          /\ armed \in BOOLEAN
          /\ jiffy \in 0 .. JiffySpace - 1
          /\ vmem \in [Screen -> Colors]
          /\ DOMAIN pixels = Window
          /\ held \subseteq Keys
          /\ keyboard_queue \in [Slots -> Codes]
          /\ keyboard_f \in Slots
          /\ keyboard_r \in Slots
          /\ code \in Codes

\* The guest never runs with the timer off, nor the handler with it on: no
\* alarm is lost, and none interrupts the handler.
TimerArmed == /\ phase = "guest" => armed
              /\ phase \in {"poll", "handle", "rearm"} => ~armed

IInv == TypeOK /\ TimerArmed /\ (real => phase = "handle")

\* The events in the order of their arrival, the one being handled first.
Pipe == INSTANCE KeyPipe WITH
            CodesCap <- KEYBOARD_QUEUE_LEN - 1, PipeCap <- QueueCap + 1,
            pipe  <- IF real THEN <<event>> \o sdl_queue ELSE sdl_queue,
            ghost <- (phase = "handle" /\ ~real),
            codes <- RingContent(keyboard_queue, keyboard_f, keyboard_r, KEYBOARD_QUEUE_LEN),
            ended <- (phase = "exit")

\* Every key event goes once and in order to the UART and to the keyboard,
\* whatever the guest does meanwhile and however full their queues are; an
\* event of nobody is handled only when none waits.
ImplementsPipe == Pipe!Spec

\* A request to quit that SDL has queued ends the process, whatever waits
\* before it and however many events follow.
QuitEnds == (\E i \in DOMAIN sdl_queue : sdl_queue[i].kind = "quit") ~> (phase = "exit")

ShowsVmem == \A w \in Window : pixels[w] = RGB(vmem[<<w[1] \div 2, w[2] \div 2>>])

\* The window shows the whole video memory again and again, as long as the
\* process runs: frames go on, also when jiffy wraps, and miss no pixel.
FramesGoOn == (phase # "exit") ~> (ShowsVmem \/ phase = "exit")
=============================================================================

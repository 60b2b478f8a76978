--------------------------- MODULE DevicesProofs ---------------------------
(***************************************************************************)
(* The devices that the timer drives, for every length of the queues,      *)
(* every set of keys and codes, every rate of the timer and size of the    *)
(* screen: the timer is always armed again, and the events go through as   *)
(* KeyPipe says.                                                           *)
(***************************************************************************)
EXTENDS Devices, TLAPS

-----------------------------------------------------------------------------
\* Storing to a ring and taking from it, for every length of the buffer.

\* The % of the source only wraps at the end of the buffer, and never leaves
\* it.
LEMMA RingNextWraps ==
    ASSUME NEW len \in Nat \ {0}, NEW p \in 0 .. len - 1
    PROVE  /\ RingNext(p, len) = IF p + 1 = len THEN 0 ELSE p + 1
           /\ RingNext(p, len) \in 0 .. len - 1
  BY SMT DEF RingNext

\* One slot always stays free, and equal indices mean an empty buffer.
LEMMA RingCountRange ==
    ASSUME NEW len \in Nat \ {0}, NEW f \in 0 .. len - 1, NEW r \in 0 .. len - 1
    PROVE  /\ RingCount(f, r, len) \in 0 .. len - 1
           /\ RingCount(f, r, len) = 0 <=> f = r
  BY SMT DEF RingCount

LEMMA SeqOf == ASSUME NEW S, NEW n \in Nat, NEW s \in [1 .. n -> S]
               PROVE  s \in Seq(S) /\ Len(s) = n
  OBVIOUS

\* The content of a buffer is a sequence of its elements.
RingHolds(q, f, r, len, S) ==
    /\ RingContent(q, f, r, len) \in Seq(S)
    /\ Len(RingContent(q, f, r, len)) = RingCount(f, r, len)
    /\ \A k \in 1 .. RingCount(f, r, len) :
          RingContent(q, f, r, len)[k] = q[RingSlot(f, k - 1, len)]

LEMMA RingContentType ==
    ASSUME NEW len \in Nat \ {0}, NEW f \in 0 .. len - 1, NEW r \in 0 .. len - 1,
           NEW S, NEW q \in [0 .. len - 1 -> S]
    PROVE  RingHolds(q, f, r, len, S)
  <1> DEFINE n == RingCount(f, r, len)
  <1>1. n \in 0 .. len - 1
    BY RingCountRange
  <1>2. ASSUME NEW k \in 1 .. n PROVE RingSlot(f, k - 1, len) \in 0 .. len - 1
    BY <1>1, <1>2, SMT DEF RingSlot
  <1>3. RingContent(q, f, r, len) = [k \in 1 .. n |-> q[RingSlot(f, k - 1, len)]]
    BY DEF RingContent
  <1> HIDE DEF n
  <1> DEFINE c == [k \in 1 .. n |-> q[RingSlot(f, k - 1, len)]]
  <1>4. c \in [1 .. n -> S] /\ n \in Nat
    BY <1>1, <1>2
  <1>5. \A k \in 1 .. n : c[k] = q[RingSlot(f, k - 1, len)]
    OBVIOUS
  <1> HIDE DEF c
  <1>6. c \in Seq(S) /\ Len(c) = n
    BY <1>4, SeqOf
  <1>7. RingContent(q, f, r, len) = c
    BY <1>3 DEF c
  <1>8. QED
    BY <1>5, <1>6, <1>7, Zenon DEF n, RingHolds

\* Storing at r, when there is room, appends; there is none exactly when all
\* slots but one are taken.
LEMMA RingEnqueue ==
    ASSUME NEW len \in Nat \ {0, 1}, NEW f \in 0 .. len - 1, NEW r \in 0 .. len - 1,
           NEW S, NEW q \in [0 .. len - 1 -> S], NEW x \in S
    PROVE  /\ RingNext(r, len) # f =>
                 /\ RingCount(f, r, len) < len - 1
                 /\ RingContent([q EXCEPT ![r] = x], f, RingNext(r, len), len)
                       = Append(RingContent(q, f, r, len), x)
           /\ RingNext(r, len) = f => RingCount(f, r, len) = len - 1
  <1> DEFINE n  == RingCount(f, r, len)
             q2 == [q EXCEPT ![r] = x]
             r2 == RingNext(r, len)
             c  == RingContent(q, f, r, len)
             c2 == RingContent(q2, f, r2, len)
  <1>0. len \in Nat \ {0}
    OBVIOUS
  <1>1. n \in 0 .. len - 1 /\ r2 = (IF r + 1 = len THEN 0 ELSE r + 1) /\ r2 \in 0 .. len - 1
    BY RingCountRange, RingNextWraps
  <1>2. r2 = f => n = len - 1
    BY <1>1, SMT DEF RingCount
  <1>3. ASSUME r2 # f PROVE n < len - 1 /\ c2 = Append(c, x)
    <2>1. n < len - 1 /\ RingCount(f, r2, len) = n + 1
      BY <1>1, <1>3, SMT DEF RingCount
    <2>2. /\ q2 \in [0 .. len - 1 -> S] /\ q2[r] = x
          /\ \A i \in 0 .. len - 1 : i # r => q2[i] = q[i]
      OBVIOUS
    <2>3. /\ c2 \in Seq(S) /\ Len(c2) = n + 1
          /\ \A k \in 1 .. n + 1 : c2[k] = q2[RingSlot(f, k - 1, len)]
      <3>1. c2 = [k \in 1 .. n + 1 |-> q2[RingSlot(f, k - 1, len)]]
        BY <2>1 DEF RingContent
      <3>2. ASSUME NEW k \in 1 .. n + 1 PROVE RingSlot(f, k - 1, len) \in 0 .. len - 1
        BY <1>1, <2>1, <3>2, SMT DEF RingSlot
      <3> HIDE DEF n, q2, r2, c, c2
      <3>3. [k \in 1 .. n + 1 |-> q2[RingSlot(f, k - 1, len)]] \in [1 .. n + 1 -> S]
        BY <2>2, <3>2
      <3> DEFINE m == n + 1
      <3>4. m \in Nat
        BY <1>1
      <3>5. c2 = [k \in 1 .. m |-> q2[RingSlot(f, k - 1, len)]]
        BY <3>1
      <3>6. [k \in 1 .. m |-> q2[RingSlot(f, k - 1, len)]] \in [1 .. m -> S]
        BY <3>3
      <3> HIDE DEF m
      <3>7. c2 \in Seq(S) /\ Len(c2) = m
        BY <3>4, <3>5, <3>6, SeqOf, Zenon
      <3>8. \A k \in 1 .. m : c2[k] = q2[RingSlot(f, k - 1, len)]
        BY <3>5
      <3>9. QED
        BY <3>7, <3>8 DEF m
    <2>4. /\ c \in Seq(S) /\ Len(c) = n
          /\ \A k \in 1 .. n : c[k] = q[RingSlot(f, k - 1, len)]
      <3>1. RingHolds(q, f, r, len, S)
        BY <1>0, RingContentType, Zenon
      <3>2. QED
        BY <3>1, Zenon DEF RingHolds
    <2>5. RingSlot(f, n, len) = r
      BY <1>1, SMT DEF RingSlot, RingCount
    <2>6. ASSUME NEW k \in 1 .. n
          PROVE  RingSlot(f, k - 1, len) \in 0 .. len - 1 /\ RingSlot(f, k - 1, len) # r
      BY <1>1, <2>6, SMT DEF RingSlot, RingCount
    <2> HIDE DEF n, q2, r2, c, c2
    <2>7. \A k \in 1 .. n + 1 : c2[k] = IF k = n + 1 THEN x ELSE c[k]
      <3> TAKE k \in 1 .. n + 1
      <3>1. CASE k = n + 1
        <4>1. k - 1 = n
          BY <1>1, <3>1
        <4>2. QED
          BY <2>2, <2>3, <2>5, <3>1, <4>1
      <3>2. CASE k # n + 1
        <4>1. k \in 1 .. n
          BY <1>1, <3>2
        <4>2. QED
          BY <2>2, <2>3, <2>4, <2>6, <3>2, <4>1
      <3>3. QED
        BY <3>1, <3>2
    <2>8. c2 = Append(c, x)
      <3>1. /\ Append(c, x) \in Seq(S) /\ Len(Append(c, x)) = n + 1
            /\ \A k \in 1 .. n + 1 : Append(c, x)[k] = IF k = n + 1 THEN x ELSE c[k]
        BY <1>1, <2>4
      <3>2. QED
        BY <1>1, <2>3, <2>7, <3>1
    <2>9. QED
      BY <2>1, <2>8
  <1>4. QED
    BY <1>2, <1>3

\* Moving f by one place takes the oldest element out.
RingTakes(q, f, r, len) ==
    /\ RingContent(q, f, r, len) # <<>>
    /\ Head(RingContent(q, f, r, len)) = q[f]
    /\ RingContent(q, RingNext(f, len), r, len) = Tail(RingContent(q, f, r, len))

\* Moving f over an element removes the oldest one; when there is none, the
\* buffer looks full after it.
LEMMA RingDequeue ==
    ASSUME NEW len \in Nat \ {0, 1}, NEW f \in 0 .. len - 1, NEW r \in 0 .. len - 1,
           NEW S, NEW q \in [0 .. len - 1 -> S]
    PROVE  /\ f # r => RingTakes(q, f, r, len)
           /\ f = r => /\ RingContent(q, f, r, len) = <<>>
                       /\ RingCount(RingNext(f, len), r, len) = len - 1
  <1> DEFINE n  == RingCount(f, r, len)
             f2 == RingNext(f, len)
             c  == RingContent(q, f, r, len)
             c2 == RingContent(q, f2, r, len)
  <1>0. len \in Nat \ {0}
    OBVIOUS
  <1>1. /\ n \in 0 .. len - 1 /\ f2 = (IF f + 1 = len THEN 0 ELSE f + 1) /\ f2 \in 0 .. len - 1
        /\ n = 0 <=> f = r
    BY RingCountRange, RingNextWraps
  <1>2. /\ c \in Seq(S) /\ Len(c) = n
        /\ \A k \in 1 .. n : c[k] = q[RingSlot(f, k - 1, len)]
    <2>1. RingHolds(q, f, r, len, S)
      BY <1>0, RingContentType, Zenon
    <2>2. QED
      BY <2>1, Zenon DEF RingHolds
  <1>3. ASSUME f = r PROVE c = <<>> /\ RingCount(f2, r, len) = len - 1
    <2>1. RingCount(f2, r, len) = len - 1
      BY <1>1, <1>3, SMT DEF RingCount
    <2>2. Len(c) = 0 /\ c \in Seq(S)
      BY <1>1, <1>2, <1>3
    <2> HIDE DEF c
    <2>3. QED
      BY <2>1, <2>2
  <1>4. ASSUME f # r PROVE c # <<>> /\ Head(c) = q[f] /\ c2 = Tail(c)
    <2>1. n > 0 /\ RingCount(f2, r, len) = n - 1
      BY <1>1, <1>4, SMT DEF RingCount
    <2>2. /\ c2 \in Seq(S) /\ Len(c2) = n - 1
          /\ \A k \in 1 .. n - 1 : c2[k] = q[RingSlot(f2, k - 1, len)]
      <3>1. f2 \in 0 .. len - 1
        BY <1>1
      <3>2. RingHolds(q, f2, r, len, S)
        BY <1>0, <3>1, RingContentType, Zenon
      <3>3. QED
        BY <2>1, <3>2, Zenon DEF RingHolds
    <2>3. RingSlot(f, 1 - 1, len) = f
      BY SMT DEF RingSlot
    <2>4. ASSUME NEW k \in 1 .. n - 1
          PROVE  RingSlot(f2, k - 1, len) = RingSlot(f, k, len)
      BY <1>1, <2>4, SMT DEF RingSlot
    <2> HIDE DEF n, f2, c, c2
    <2>5. c # <<>> /\ Head(c) = q[f]
      <3>1. Len(c) > 0 /\ 1 \in 1 .. n
        BY <1>1, <1>2, <2>1
      <3>2. c[1] = q[f]
        BY <1>2, <2>3, <3>1
      <3>3. QED
        BY <1>2, <3>1, <3>2
    <2>6. \A k \in 1 .. n - 1 : c2[k] = c[k + 1]
      <3> TAKE k \in 1 .. n - 1
      <3>1. k + 1 \in 1 .. n /\ (k + 1) - 1 = k
        BY <1>1
      <3>2. c2[k] = q[RingSlot(f2, k - 1, len)] /\ RingSlot(f2, k - 1, len) = RingSlot(f, k, len)
        BY <2>2, <2>4
      <3>3. c[k + 1] = q[RingSlot(f, k, len)]
        BY <1>2, <3>1, Zenon
      <3>4. QED
        BY <3>2, <3>3, Zenon
    <2>7. c2 = Tail(c)
      <3>1. /\ Tail(c) \in Seq(S) /\ Len(Tail(c)) = n - 1
            /\ \A k \in 1 .. n - 1 : Tail(c)[k] = c[k + 1]
        BY <1>1, <1>2, <2>1, <2>5
      <3>2. Len(c2) = Len(Tail(c))
        BY <2>2, <3>1, Zenon
      <3>3. ASSUME NEW k \in 1 .. Len(c2) PROVE c2[k] = Tail(c)[k]
        BY <2>2, <2>6, <3>1, <3>3, Zenon
      <3>4. c2 \in Seq(S) /\ Tail(c) \in Seq(S)
        BY <2>2, <3>1, Zenon
      <3>5. QED
        BY <3>2, <3>3, <3>4, SMT
    <2>8. QED
      BY <2>5, <2>7
  <1>5. QED
    BY <1>3, <1>4 DEF RingTakes

-----------------------------------------------------------------------------
USE DevicesAssumption

LEMMA EventKinds ==
    ASSUME NEW e \in Events
    PROVE  /\ e.kind \in Kinds \cup {"quit", "other"}
           /\ e.kind \in Kinds => e.key \in Keys /\ CodeOf[e.kind][e.key] \in Codes
  BY DEF Kinds

LEMMA QueueStep ==
    ASSUME NEW S, NEW s \in Seq(S), s # <<>>
    PROVE  /\ Head(s) \in S /\ Tail(s) \in Seq(S) /\ Len(Tail(s)) = Len(s) - 1
           /\ <<Head(s)>> \o Tail(s) = s
  OBVIOUS

LEMMA JiffyStep ==
    ASSUME NEW j \in Nat, NEW m \in Nat \ {0}
    PROVE  (j + 1) % m \in 0 .. m - 1
  BY SMT

-----------------------------------------------------------------------------
LEMMA InitInvariant == Init => IInv
  <1> SUFFICES ASSUME Init PROVE IInv
    OBVIOUS
  <1>1. 0 \in Slots /\ 0 \in 0 .. JiffySpace - 1
    BY DEF Slots
  <1>2. <<>> \in Seq(Events) /\ Len(<<>>) = 0
    OBVIOUS
  <1>3. NoCode \in Codes /\ None \in Events
    BY DEF Codes
  <1>4. /\ vmem \in [Screen -> Colors] /\ DOMAIN pixels = Window
        /\ keyboard_queue \in [Slots -> Codes] /\ held \subseteq Keys
    BY <1>3 DEF Init
  <1>5. TypeOK
    <2>1. sdl_queue \in Seq(Events) /\ Len(sdl_queue) <= QueueCap
      BY <1>2 DEF Init
    <2>2. phase = "guest" /\ event \in Events /\ code \in Codes
      BY <1>3 DEF Init
    <2>3. real \in BOOLEAN /\ armed \in BOOLEAN
      BY DEF Init
    <2>4. jiffy \in 0 .. JiffySpace - 1 /\ keyboard_f \in Slots /\ keyboard_r \in Slots
      BY <1>1 DEF Init
    <2>5. QED
      BY <1>4, <2>1, <2>2, <2>3, <2>4 DEF TypeOK
  <1>6. TimerArmed /\ ~real
    BY DEF Init, TimerArmed
  <1>7. QED
    BY <1>5, <1>6 DEF IInv

LEMMA KeyboardType ==
    ASSUME TypeOK, NEW e \in Events, e.kind \in Kinds, keyboard_enqueue(e)
    PROVE  /\ keyboard_queue' \in [Slots -> Codes] /\ keyboard_r' \in Slots
           /\ keyboard_f' = keyboard_f /\ code' = code
  <1>1. CodeOf[e.kind][e.key] \in Codes
    BY EventKinds
  <1>2. keyboard_r \in 0 .. KEYBOARD_QUEUE_LEN - 1
    BY DEF TypeOK, Slots
  <1>3. RingNext(keyboard_r, KEYBOARD_QUEUE_LEN) \in Slots
    BY <1>2, RingNextWraps DEF Slots
  <1>4. QED
    BY <1>1, <1>3 DEF keyboard_enqueue, TypeOK

LEMMA HandleInvariant ==
    ASSUME IInv, Handle
    PROVE  IInv'
  <1> USE DEF IInv
  <1>1. TypeOK /\ event \in Events /\ phase = "handle"
    BY DEF TypeOK, Handle
  <1>2. phase' \in {"rearm", "exit"} /\ UNCHANGED <<sdl_queue, armed, jiffy, screenVars>>
        /\ event' = None /\ real' = FALSE
    BY DEF Handle, HandleKey, HandleQuit, HandleOther
  <1>3. /\ held' \subseteq Keys
        /\ keyboard_queue' \in [Slots -> Codes] /\ keyboard_r' \in Slots
        /\ keyboard_f' = keyboard_f /\ code' = code
    <2>1. CASE HandleKey
      <3>1. held' = held \ {event.key} \/ (held' = held \cup {event.key} /\ event.key \in Keys)
        BY <1>1, <2>1, EventKinds DEF HandleKey, serial_enqueue
      <3>2. held' \subseteq Keys
        BY <1>1, <3>1 DEF TypeOK
      <3>3. QED
        BY <1>1, <2>1, <3>2, KeyboardType DEF HandleKey
    <2>2. CASE HandleQuit \/ HandleOther
      BY <1>1, <2>2 DEF HandleQuit, HandleOther, uartVars, kbVars, TypeOK
    <2>3. QED
      BY <2>1, <2>2 DEF Handle
  <1>4. TypeOK'
    BY <1>1, <1>2, <1>3 DEF TypeOK, screenVars
  <1>5. QED
    BY <1>1, <1>2, <1>4 DEF TimerArmed

LEMMA NextInvariant == IInv /\ [Next]_vars => IInv'
  <1> SUFFICES ASSUME IInv, [Next]_vars PROVE IInv'
    OBVIOUS
  <1> USE DEF IInv
  <1>1. ASSUME NEW e \in Events, Arrive(e) PROVE IInv'
    <2>1. sdl_queue' \in Seq(Events) /\ Len(sdl_queue') <= QueueCap
      BY <1>1 DEF Arrive, TypeOK
    <2>2. QED
      BY <1>1, <2>1 DEF Arrive, TypeOK, TimerArmed, handlerVars, screenVars, uartVars, kbVars
  <1>2. CASE Alarm
    <2>1. jiffy' \in 0 .. JiffySpace - 1
      BY <1>2, JiffyStep DEF Alarm, TypeOK
    <2>2. DOMAIN pixels' = Window
      BY <1>2 DEF Alarm, update_screen, TypeOK
    <2>3. QED
      BY <1>2, <2>1, <2>2 DEF Alarm, TypeOK, TimerArmed, uartVars, kbVars
  <1>3. CASE Poll
    <2>1. sdl_queue' \in Seq(Events) /\ Len(sdl_queue') <= QueueCap /\ event' \in Events
      <3>1. CASE sdl_queue = <<>>
        BY <1>3, <3>1 DEF Poll, TypeOK
      <3>2. CASE sdl_queue # <<>>
        <4>1. event' = Head(sdl_queue) /\ sdl_queue' = Tail(sdl_queue)
          BY <1>3, <3>2 DEF Poll
        <4>2. sdl_queue \in Seq(Events) /\ Len(sdl_queue) <= QueueCap
          BY DEF TypeOK
        <4>3. /\ Head(sdl_queue) \in Events /\ Tail(sdl_queue) \in Seq(Events)
              /\ Len(Tail(sdl_queue)) = Len(sdl_queue) - 1
          BY <3>2, <4>2, QueueStep
        <4>4. QED
          BY <4>1, <4>2, <4>3
      <3>3. QED
        BY <3>1, <3>2
    <2>2. QED
      BY <1>3, <2>1 DEF Poll, TypeOK, TimerArmed, screenVars, uartVars, kbVars
  <1>4. CASE Handle
    BY <1>4, HandleInvariant
  <1>5. CASE Rearm
    BY <1>5 DEF Rearm, TypeOK, TimerArmed, screenVars, uartVars, kbVars
  <1>6. ASSUME NEW p \in Screen, NEW color \in Colors, vga_write(p, color) PROVE IInv'
    BY <1>6 DEF vga_write, TypeOK, TimerArmed, handlerVars, uartVars, kbVars
  <1>7. CASE ReadByte
    BY <1>7 DEF ReadByte, TypeOK, TimerArmed, handlerVars, screenVars, kbVars
  <1>8. CASE kb_read
    <2>1. keyboard_f \in 0 .. KEYBOARD_QUEUE_LEN - 1
      BY DEF TypeOK, Slots
    <2>2. RingNext(keyboard_f, KEYBOARD_QUEUE_LEN) \in Slots
      BY <2>1, RingNextWraps DEF Slots
    <2>3. QED
      BY <1>8, <2>2 DEF kb_read, TypeOK, TimerArmed, handlerVars, screenVars, uartVars
  <1>9. CASE Leave
    BY <1>9 DEF Leave, TypeOK, TimerArmed, screenVars, uartVars, kbVars
  <1>10. CASE UNCHANGED vars
    BY <1>10 DEF vars, TypeOK, TimerArmed, handlerVars, screenVars, uartVars, kbVars
  <1>11. QED
    BY <1>1, <1>2, <1>3, <1>4, <1>5, <1>6, <1>7, <1>8, <1>9, <1>10 DEF Next

\* The timer is armed whenever the guest runs and off while the handler does,
\* the queues stay in range (device.c:17-43, keyboard.c:126-138).
THEOREM Invariance == Spec => []IInv
  BY InitInvariant, NextInvariant, PTL DEF Spec, SafeSpec

-----------------------------------------------------------------------------
\* The refinement of KeyPipe.

codes == RingContent(keyboard_queue, keyboard_f, keyboard_r, KEYBOARD_QUEUE_LEN)
pipe  == IF real THEN <<event>> \o sdl_queue ELSE sdl_queue

LEMMA KeyboardInRange ==
    ASSUME TypeOK
    PROVE  /\ keyboard_f \in 0 .. KEYBOARD_QUEUE_LEN - 1
           /\ keyboard_r \in 0 .. KEYBOARD_QUEUE_LEN - 1
           /\ keyboard_queue \in [0 .. KEYBOARD_QUEUE_LEN - 1 -> Codes]
  BY DEF TypeOK, Slots

\* What keyboard_enqueue does to the codes.
LEMMA KeyboardAppends ==
    ASSUME TypeOK, NEW e \in Events, e.kind \in Kinds, keyboard_enqueue(e)
    PROVE  Pipe!ToKeyboard(CodeOf[e.kind][e.key])
  <1> DEFINE c == CodeOf[e.kind][e.key]
             r2 == RingNext(keyboard_r, KEYBOARD_QUEUE_LEN)
  <1>1. c \in Codes
    BY EventKinds
  <1>2. Len(codes) = RingCount(keyboard_f, keyboard_r, KEYBOARD_QUEUE_LEN)
    <2>1. KEYBOARD_QUEUE_LEN \in Nat \ {0}
      BY KeyboardInRange
    <2>2. RingHolds(keyboard_queue, keyboard_f, keyboard_r, KEYBOARD_QUEUE_LEN, Codes)
      BY <2>1, KeyboardInRange, RingContentType, Zenon
    <2>3. QED
      BY <2>2, Zenon DEF codes, RingHolds
  <1>3. /\ r2 # keyboard_f =>
              /\ RingCount(keyboard_f, keyboard_r, KEYBOARD_QUEUE_LEN) < KEYBOARD_QUEUE_LEN - 1
              /\ RingContent([keyboard_queue EXCEPT ![keyboard_r] = c], keyboard_f, r2,
                             KEYBOARD_QUEUE_LEN) = Append(codes, c)
        /\ r2 = keyboard_f =>
              RingCount(keyboard_f, keyboard_r, KEYBOARD_QUEUE_LEN) = KEYBOARD_QUEUE_LEN - 1
    BY <1>1, KeyboardInRange, RingEnqueue DEF codes
  <1>4. keyboard_f' = keyboard_f
    BY DEF keyboard_enqueue
  <1>5. CASE c # NoCode /\ r2 # keyboard_f
    <2>1. codes' = Append(codes, c)
      BY <1>3, <1>4, <1>5 DEF keyboard_enqueue, codes
    <2>2. ~(Len(codes) >= KEYBOARD_QUEUE_LEN - 1)
      <3>1. KEYBOARD_QUEUE_LEN \in Nat \ {0}
        BY KeyboardInRange
      <3>2. RingCount(keyboard_f, keyboard_r, KEYBOARD_QUEUE_LEN) \in 0 .. KEYBOARD_QUEUE_LEN - 1
        BY <3>1, KeyboardInRange, RingCountRange, Zenon
      <3>3. Len(codes) < KEYBOARD_QUEUE_LEN - 1
        BY <1>2, <1>3, <1>5
      <3>4. QED
        BY <1>2, <3>1, <3>2, <3>3
    <2>3. QED
      BY <1>5, <2>1, <2>2 DEF Pipe!ToKeyboard, codes
  <1>6. CASE ~(c # NoCode /\ r2 # keyboard_f)
    <2>1. codes' = codes
      BY <1>4, <1>6 DEF keyboard_enqueue, codes
    <2>2. c = NoCode \/ Len(codes) >= KEYBOARD_QUEUE_LEN - 1
      <3>1. KEYBOARD_QUEUE_LEN - 1 >= KEYBOARD_QUEUE_LEN - 1
        OBVIOUS
      <3>2. QED
        BY <1>2, <1>3, <1>6, <3>1
    <2>3. QED
      BY <2>1, <2>2 DEF Pipe!ToKeyboard, codes
  <1>7. QED
    BY <1>5, <1>6

LEMMA SerialTakes ==
    ASSUME NEW e \in Events, e.kind \in Kinds, serial_enqueue(e)
    PROVE  Pipe!ToUart(e)
  <1>1. CASE e.kind = "up"
    BY <1>1 DEF serial_enqueue, Pipe!ToUart
  <1>2. CASE e.kind = "down" /\ e.key \in held
    BY <1>2 DEF serial_enqueue, Pipe!ToUart
  <1>3. CASE e.kind = "down" /\ e.key \notin held
    <2>1. held' = held \cup {e.key} /\ ~(held' \subseteq held) /\ U!Offer(BytesOf[e.key])
      BY <1>3 DEF serial_enqueue
    <2>2. QED
      BY <1>3, <2>1 DEF Pipe!ToUart, U!Offer, Pipe!U!Offer
  <1>4. QED
    BY <1>1, <1>2, <1>3 DEF Kinds

\* The switch takes the event.
LEMMA HandleTakes ==
    ASSUME IInv, Handle
    PROVE  Pipe!Take(event)
  <1>1. TypeOK /\ event \in Events /\ event.kind \in Kinds \cup {"quit", "other"}
    BY EventKinds DEF IInv, TypeOK
  <1>2. CASE HandleKey
    <2>1. Pipe!ToUart(event) /\ Pipe!ToKeyboard(CodeOf[event.kind][event.key])
      BY <1>1, <1>2, SerialTakes, KeyboardAppends DEF HandleKey
    <2>2. code' = code /\ (phase' = "exit") = (phase = "exit") /\ event.kind \in Kinds
      BY <1>2 DEF HandleKey, keyboard_enqueue, Handle
    <2>3. QED
      BY <2>1, <2>2 DEF Pipe!Take, Pipe!Kinds, Kinds
  <1>3. CASE HandleQuit \/ HandleOther
    <2>1. /\ event.kind \notin Kinds /\ (phase' = "exit") = (event.kind = "quit")
          /\ UNCHANGED <<fifo, held, keyboard_queue, keyboard_f, keyboard_r, code>>
      BY <1>3 DEF HandleQuit, HandleOther, Kinds, uartVars, kbVars
    <2>2. QED
      BY <2>1 DEF Pipe!Take, Pipe!Kinds, Kinds
  <1>4. QED
    BY <1>2, <1>3 DEF Handle

-----------------------------------------------------------------------------
\* One lemma for each step of KeyPipe.

ghost == phase = "handle" /\ ~real

LEMMA RefinesInit == Init => Pipe!Init
  <1> SUFFICES ASSUME Init PROVE Pipe!Init
    OBVIOUS
  <1>1. TypeOK
    BY InitInvariant DEF IInv
  <1>2. codes = <<>>
    BY <1>1, KeyboardInRange, RingDequeue DEF Init, codes
  <1>3. pipe = <<>> /\ ~ghost /\ phase # "exit"
    BY DEF Init, pipe, ghost
  <1>4. QED
    BY <1>2, <1>3 DEF Init, Pipe!Init, codes, pipe, ghost

LEMMA ArriveStep ==
    ASSUME IInv, NEW e \in Events, Arrive(e)
    PROVE  Pipe!Arrive(e)
  <1>1. /\ sdl_queue \in Seq(Events) /\ event \in Events
        /\ Len(sdl_queue) < QueueCap /\ sdl_queue' = Append(sdl_queue, e)
        /\ UNCHANGED <<handlerVars, uartVars, kbVars>>
    BY DEF IInv, TypeOK, Arrive
  <1>2. Len(pipe) < QueueCap + 1 /\ pipe' = Append(pipe, e)
    <2>1. /\ Len(<<event>> \o sdl_queue) = Len(sdl_queue) + 1
          /\ <<event>> \o Append(sdl_queue, e) = Append(<<event>> \o sdl_queue, e)
      BY <1>1
    <2>2. real' = real /\ event' = event
      BY <1>1 DEF handlerVars
    <2>3. Len(sdl_queue) \in Nat
      BY <1>1
    <2>4. CASE real
      BY <1>1, <2>1, <2>2, <2>3, <2>4 DEF pipe
    <2>5. CASE ~real
      BY <1>1, <2>2, <2>3, <2>5 DEF pipe
    <2>6. QED
      BY <2>4, <2>5
  <1>3. ghost' = ghost /\ phase' = phase /\ codes' = codes
        /\ UNCHANGED <<fifo, held, code>>
    BY <1>1 DEF handlerVars, uartVars, kbVars, ghost, codes
  <1>4. QED
    BY <1>2, <1>3 DEF Pipe!Arrive, pipe, ghost, codes

LEMMA PollStep ==
    ASSUME IInv, Poll
    PROVE  Pipe!Haunt \/ UNCHANGED Pipe!vars
  <1>1. /\ sdl_queue \in Seq(Events) /\ ~real /\ phase = "poll" /\ phase' = "handle"
        /\ UNCHANGED <<uartVars, kbVars>>
    BY DEF IInv, TypeOK, Poll
  <1>2. codes' = codes /\ UNCHANGED <<fifo, held, code>>
    BY <1>1 DEF uartVars, kbVars, codes
  <1>3. CASE sdl_queue # <<>>
    <2>1. event' = Head(sdl_queue) /\ sdl_queue' = Tail(sdl_queue) /\ real'
      BY <1>3 DEF Poll
    <2>2. <<Head(sdl_queue)>> \o Tail(sdl_queue) = sdl_queue
      BY <1>1, <1>3, QueueStep
    <2>3. pipe' = pipe /\ ghost' = ghost
      BY <1>1, <2>1, <2>2 DEF pipe, ghost
    <2>4. QED
      BY <1>1, <1>2, <2>3 DEF Pipe!vars, pipe, ghost, codes
  <1>4. CASE sdl_queue = <<>>
    <2>1. sdl_queue' = sdl_queue /\ ~real'
      BY <1>4 DEF Poll
    <2>2. pipe = <<>> /\ pipe' = pipe /\ ghost'
      BY <1>1, <1>4, <2>1 DEF pipe, ghost
    <2>3. QED
      BY <1>1, <1>2, <2>2 DEF Pipe!Haunt, pipe, ghost, codes
  <1>5. QED
    BY <1>3, <1>4

LEMMA HandleStep ==
    ASSUME IInv, Handle
    PROVE  Pipe!TakeFirst \/ Pipe!TakeGhost
  <1>1. /\ sdl_queue \in Seq(Events) /\ event \in Events /\ phase = "handle"
        /\ sdl_queue' = sdl_queue /\ ~real' /\ phase' # "handle"
    BY DEF IInv, TypeOK, Handle, HandleKey, HandleQuit, HandleOther
  <1>2. Pipe!Take(event)
    BY HandleTakes
  <1>3. pipe' = sdl_queue /\ ~ghost'
    BY <1>1 DEF pipe, ghost
  <1>4. CASE real
    <2>1. pipe = <<event>> \o sdl_queue /\ ~ghost
      BY <1>4 DEF pipe, ghost
    <2>2. pipe # <<>> /\ Head(pipe) = event /\ Tail(pipe) = sdl_queue
      BY <1>1, <2>1
    <2>3. QED
      BY <1>2, <1>3, <2>1, <2>2 DEF Pipe!TakeFirst, pipe, ghost
  <1>5. CASE ~real
    <2>1. pipe' = pipe /\ ghost
      BY <1>1, <1>3, <1>5 DEF pipe, ghost
    <2>2. QED
      BY <1>1, <1>2, <1>3, <2>1 DEF Pipe!TakeGhost, pipe, ghost
  <1>6. QED
    BY <1>4, <1>5

LEMMA CodeStep ==
    ASSUME IInv, kb_read
    PROVE  Pipe!ReadCode \/ Pipe!Misread
  <1> DEFINE f2 == RingNext(keyboard_f, KEYBOARD_QUEUE_LEN)
  <1>1. /\ TypeOK /\ keyboard_f' = f2 /\ code' = keyboard_queue[keyboard_f]
        /\ UNCHANGED <<sdl_queue, handlerVars, uartVars, keyboard_queue, keyboard_r>>
    BY DEF IInv, kb_read
  <1>2. pipe' = pipe /\ ghost' = ghost /\ phase' = phase /\ UNCHANGED <<fifo, held>>
    BY <1>1 DEF pipe, ghost, handlerVars, uartVars
  <1>3. f2 \in 0 .. KEYBOARD_QUEUE_LEN - 1
    BY <1>1, KeyboardInRange, RingNextWraps
  <1>4. codes' = RingContent(keyboard_queue, f2, keyboard_r, KEYBOARD_QUEUE_LEN)
    BY <1>1 DEF codes
  <1> DEFINE n == RingCount(f2, keyboard_r, KEYBOARD_QUEUE_LEN)
  <1>5. /\ KEYBOARD_QUEUE_LEN \in Nat \ {0, 1}
        /\ keyboard_f \in 0 .. KEYBOARD_QUEUE_LEN - 1
        /\ keyboard_r \in 0 .. KEYBOARD_QUEUE_LEN - 1
        /\ keyboard_queue \in [0 .. KEYBOARD_QUEUE_LEN - 1 -> Codes]
    BY <1>1, KeyboardInRange
  <1> HIDE DEF f2
  <1>6. CASE keyboard_f # keyboard_r
    <2>1. codes # <<>> /\ Head(codes) = keyboard_queue[keyboard_f] /\ codes' = Tail(codes)
      <3>1. RingTakes(keyboard_queue, keyboard_f, keyboard_r, KEYBOARD_QUEUE_LEN)
        BY <1>5, <1>6, RingDequeue
      <3>2. QED
        BY <1>4, <3>1 DEF RingTakes, codes, f2
    <2>2. QED
      BY <1>1, <1>2, <2>1 DEF Pipe!ReadCode, pipe, ghost, codes
  <1>7. CASE keyboard_f = keyboard_r
    <2>1. codes = <<>> /\ n = KEYBOARD_QUEUE_LEN - 1
      BY <1>5, <1>7, RingDequeue DEF codes, f2
    <2>2. codes' \in Seq(Codes) /\ Len(codes') = KEYBOARD_QUEUE_LEN - 1
      <3>1. KEYBOARD_QUEUE_LEN \in Nat \ {0}
        BY <1>5
      <3>2. RingHolds(keyboard_queue, f2, keyboard_r, KEYBOARD_QUEUE_LEN, Codes)
        BY <1>3, <1>5, <3>1, RingContentType, Zenon
      <3>3. QED
        BY <1>4, <2>1, <3>2 DEF RingHolds
    <2>3. code' \in Codes
      BY <1>1, KeyboardInRange
    <2>4. Codes = Pipe!Codes \cup {NoCode}
      BY DEF Codes, Pipe!Codes, Kinds, Pipe!Kinds
    <2>5. QED
      BY <1>2, <2>1, <2>2, <2>3, <2>4 DEF Pipe!Misread, pipe, ghost, codes
  <1>8. QED
    BY <1>6, <1>7

\* A step of none of the actors above.
LEMMA OtherStep ==
    ASSUME IInv, \/ Alarm \/ Rearm \/ UNCHANGED vars
                 \/ \E p \in Screen : \E color \in Colors : vga_write(p, color)
    PROVE  UNCHANGED Pipe!vars
  <1>1. UNCHANGED <<sdl_queue, event, real, uartVars, kbVars>>
    BY DEF Alarm, Rearm, vga_write, vars, handlerVars
  <1>2. phase' = phase \/ (phase' # "handle" /\ phase # "handle" /\ phase # "exit" /\ phase' # "exit")
    BY DEF Alarm, Rearm, vga_write, vars, handlerVars
  <1>3. /\ pipe' = pipe /\ codes' = codes /\ ghost' = ghost
        /\ (phase' = "exit") = (phase = "exit")
        /\ UNCHANGED <<fifo, held, code>>
    BY <1>1, <1>2 DEF pipe, codes, ghost, uartVars, kbVars
  <1>4. QED
    BY <1>3 DEF Pipe!vars, pipe, ghost, codes

LEMMA ByteStep ==
    ASSUME ReadByte
    PROVE  Pipe!ReadByte
  <1>1. /\ fifo # <<>> /\ fifo' = U!Rest
        /\ UNCHANGED <<sdl_queue, handlerVars, held, kbVars>>
    BY DEF ReadByte
  <1>2. pipe' = pipe /\ ghost' = ghost /\ phase' = phase /\ codes' = codes
        /\ held' = held /\ code' = code
    BY <1>1 DEF pipe, codes, ghost, handlerVars, kbVars
  <1>3. QED
    BY <1>1, <1>2 DEF Pipe!ReadByte, pipe, ghost, codes, U!Rest, Pipe!U!Rest

LEMMA LeaveStep ==
    ASSUME IInv, Leave
    PROVE  Pipe!End
  <1>1. /\ phase = "guest" /\ phase' = "exit"
        /\ UNCHANGED <<sdl_queue, event, real, uartVars, kbVars>>
    BY DEF Leave
  <1>2. pipe' = pipe /\ ghost' = ghost /\ codes' = codes /\ UNCHANGED <<fifo, held, code>>
    BY <1>1 DEF pipe, codes, ghost, uartVars, kbVars
  <1>3. QED
    BY <1>1, <1>2 DEF Pipe!End, pipe, ghost, codes

LEMMA RefinesNext == IInv /\ [Next]_vars => [Pipe!Next]_(Pipe!vars)
  <1> SUFFICES ASSUME IInv, [Next]_vars PROVE Pipe!Next \/ UNCHANGED Pipe!vars
    OBVIOUS
  <1>1. CASE UNCHANGED vars
    BY <1>1, OtherStep
  <1>2. CASE Next
    <2>1. CASE phase = "exit"
      BY <1>2, <2>1 DEF Next, Arrive, Alarm, Poll, Handle, Rearm, vga_write, ReadByte, kb_read, Leave
    <2>2. CASE phase # "exit"
      <3>1. ASSUME NEW e \in Events, Arrive(e) PROVE Pipe!Next
        BY <2>2, <3>1, ArriveStep DEF Pipe!Next
      <3>2. CASE Alarm \/ Rearm \/ \E p \in Screen : \E color \in Colors : vga_write(p, color)
        BY <3>2, OtherStep
      <3>3. CASE Poll
        BY <2>2, <3>3, PollStep DEF Pipe!Next
      <3>4. CASE Handle
        BY <2>2, <3>4, HandleStep DEF Pipe!Next
      <3>5. CASE ReadByte
        BY <2>2, <3>5, ByteStep DEF Pipe!Next
      <3>6. CASE kb_read
        BY <2>2, <3>6, CodeStep DEF Pipe!Next
      <3>7. CASE Leave
        BY <2>2, <3>7, LeaveStep DEF Pipe!Next
      <3>8. QED
        BY <1>2, <3>1, <3>2, <3>3, <3>4, <3>5, <3>6, <3>7 DEF Next
    <2>3. QED
      BY <2>1, <2>2
  <1>3. QED
    BY <1>1, <1>2

\* The key events go once and in order to the UART and the keyboard, for every
\* length of the queues (device.c:24-39, serial.c:126-153, keyboard.c:126-161).
THEOREM ImplementsKeyPipe == Spec => ImplementsPipe
  <1>1. IInv /\ [Next]_vars => [Pipe!Next]_(Pipe!vars)
    BY RefinesNext
  <1>2. QED
    BY <1>1, RefinesInit, Invariance, PTL DEF ImplementsPipe, Pipe!Spec, Spec, SafeSpec
=============================================================================

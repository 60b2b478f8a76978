---------------------------- MODULE SerialProofs ----------------------------
(***************************************************************************)
(* The receive ring of the UART is a FIFO of SERIAL_QUEUE_LEN - 1 bytes,   *)
(* and a polled read is exact, for every length of the ring, every set of  *)
(* keys and every interleaving with the signal handler.                    *)
(***************************************************************************)
EXTENDS Serial, WellFoundedInduction, TLAPS

-----------------------------------------------------------------------------
\* The index arithmetic of Ring, for every length of the ring.

\* The % of the source only wraps at the end of the buffer, and never leaves
\* it (serial.c:144, serial.c:179).
LEMMA RingNextWraps ==
    ASSUME NEW len \in Nat \ {0}, NEW p \in 0 .. len - 1
    PROVE  /\ RingNext(p, len) = IF p + 1 = len THEN 0 ELSE p + 1
           /\ RingNext(p, len) \in 0 .. len - 1
  BY SMT DEF RingNext

\* One slot always stays free, and equal indices mean an empty buffer.
LEMMA RingCountRange ==
    ASSUME NEW len \in Nat \ {0}, NEW f \in 0 .. len - 1, NEW r \in 0 .. len - 1
    PROVE  /\ RingCount(f, r, len) \in 0 .. len - 1
           /\ RingCount(f, r, len) = 0 <=> f = r
  BY SMT DEF RingCount

-----------------------------------------------------------------------------
USE SerialAssumption

\* The number of stored bytes is in range, and 0 exactly when f = r.
LEMMA CountRange ==
    ASSUME TypeOK
    PROVE  /\ Count \in 0 .. Cap
           /\ Count = 0 <=> serial_f = serial_r
  <1>1. /\ serial_f \in 0 .. SERIAL_QUEUE_LEN - 1 /\ serial_r \in 0 .. SERIAL_QUEUE_LEN - 1
        /\ SERIAL_QUEUE_LEN \in Nat \ {0}
    BY DEF TypeOK, Slots
  <1>2. QED
    BY <1>1, RingCountRange DEF Count, Cap

\* The elements of Content, and its length.
LEMMA ContentIs ==
    ASSUME TypeOK
    PROVE  /\ Len(Content) = Count
           /\ \A k \in 1 .. Count :
                 /\ RingSlot(serial_f, k - 1, SERIAL_QUEUE_LEN) \in Slots
                 /\ Content[k] = serial_queue[RingSlot(serial_f, k - 1, SERIAL_QUEUE_LEN)]
  <1>1. Count \in 0 .. Cap
    BY CountRange
  <1>2. Content = [k \in 1 .. Count |->
                     serial_queue[RingSlot(serial_f, k - 1, SERIAL_QUEUE_LEN)]]
    BY DEF Content, RingContent, Count
  <1>3. Len(Content) = Count
    BY <1>1, <1>2, SMT DEF Cap
  <1>4. ASSUME NEW k \in 1 .. Count
        PROVE  RingSlot(serial_f, k - 1, SERIAL_QUEUE_LEN) \in Slots
    BY <1>1, <1>4, SMT DEF TypeOK, Slots, Cap, RingSlot
  <1>5. QED
    BY <1>2, <1>3, <1>4

\* What StoreBurst does to the indices and to the slots of the ring.
LEMMA StoreBurstEffect ==
    ASSUME TypeOK, NEW burst \in Seq(Chars), StoreBurst(burst), serial_f' = serial_f
    PROVE  \E m \in 0 .. Len(burst) :
              /\ m = Len(burst) \/ Count + m = Cap
              /\ Count + m <= Cap
              /\ Count' = Count + m
              /\ serial_r' \in Slots
              /\ serial_queue' \in [Slots -> Bytes]
              /\ \A k \in 1 .. Count + m :
                    serial_queue'[RingSlot(serial_f, k - 1, SERIAL_QUEUE_LEN)] =
                       IF k <= Count
                       THEN serial_queue[RingSlot(serial_f, k - 1, SERIAL_QUEUE_LEN)]
                       ELSE burst[k - Count]
  <1> DEFINE m == IF Len(burst) <= Cap - Count THEN Len(burst) ELSE Cap - Count
             Slot(k) == RingSlot(serial_f, k - 1, SERIAL_QUEUE_LEN)
  <1>1. /\ Count \in 0 .. Cap
        /\ Len(burst) \in Nat
        /\ serial_f \in 0 .. SERIAL_QUEUE_LEN - 1
        /\ serial_r \in 0 .. SERIAL_QUEUE_LEN - 1
        /\ serial_queue \in [Slots -> Bytes]
    BY CountRange DEF TypeOK, Slots
  <1>2. /\ m \in 0 .. Len(burst)
        /\ m = Len(burst) \/ Count + m = Cap
        /\ Count + m <= Cap
    BY <1>1, SMT DEF Cap
  <1>3. /\ serial_r' = RingSlot(serial_r, m, SERIAL_QUEUE_LEN)
        /\ serial_queue' = [i \in Slots |-> IF Ahead(i) < m THEN burst[Ahead(i) + 1]
                                                            ELSE serial_queue[i]]
    BY DEF StoreBurst
  <1> HIDE DEF m
  <1>4. serial_r' \in Slots /\ Count' = Count + m
    BY <1>1, <1>2, <1>3, SMT DEF Count, RingCount, RingSlot, Slots, Cap
  <1>5. ASSUME NEW i \in Slots, Ahead(i) < m
        PROVE  burst[Ahead(i) + 1] \in Chars
    <2>1. Ahead(i) + 1 \in 1 .. Len(burst)
      BY <1>1, <1>2, <1>5, SMT DEF Ahead, Slots
    <2>2. QED
      BY <2>1
  <1>6. serial_queue' \in [Slots -> Bytes]
    BY <1>1, <1>3, <1>5 DEF Bytes
  <1>7. ASSUME NEW k \in 1 .. Count + m
        PROVE  serial_queue'[Slot(k)] =
                  IF k <= Count THEN serial_queue[Slot(k)] ELSE burst[k - Count]
    <2>1. Slot(k) \in Slots
      BY <1>1, <1>2, <1>7, SMT DEF RingSlot, Slots, Cap
    <2>2. CASE k <= Count
      <3>1. ~(Ahead(Slot(k)) < m)
        BY <1>1, <1>2, <1>7, <2>2, SMT DEF Ahead, RingSlot, Count, RingCount, Cap
      <3>2. QED
        BY <1>3, <2>1, <2>2, <3>1
    <2>3. CASE ~(k <= Count)
      <3>1. Ahead(Slot(k)) = k - Count - 1
        BY <1>1, <1>2, <1>7, <2>3, SMT DEF Ahead, RingSlot, Count, RingCount, Cap
      <3>2. k - Count - 1 < m /\ (k - Count - 1) + 1 = k - Count
        BY <1>1, <1>2, <1>7, SMT DEF Cap
      <3>3. QED
        BY <1>3, <2>1, <2>3, <3>1, <3>2
    <2>4. QED
      BY <2>2, <2>3
  <1>8. QED
    BY <1>2, <1>4, <1>6, <1>7

\* Advancing over the oldest byte of a ring that is not empty.
LEMMA AdvanceEffect ==
    ASSUME TypeOK, serial_f # serial_r,
           serial_f' = RingNext(serial_f, SERIAL_QUEUE_LEN), serial_r' = serial_r
    PROVE  /\ serial_f' \in Slots
           /\ Count' = Count - 1
           /\ \A k \in 1 .. Count - 1 :
                 RingSlot(serial_f', k - 1, SERIAL_QUEUE_LEN)
                    = RingSlot(serial_f, k, SERIAL_QUEUE_LEN)
  <1>1. /\ serial_f \in 0 .. SERIAL_QUEUE_LEN - 1
        /\ serial_r \in 0 .. SERIAL_QUEUE_LEN - 1
        /\ serial_f' = IF serial_f + 1 = SERIAL_QUEUE_LEN THEN 0 ELSE serial_f + 1
    BY RingNextWraps DEF TypeOK, Slots
  <1>2. Count \in 0 .. Cap
    BY CountRange
  <1>3. serial_f' \in Slots
    BY <1>1, SMT DEF Slots
  <1>4. Count' = Count - 1
    BY <1>1, SMT DEF Count, RingCount
  <1>5. ASSUME NEW k \in 1 .. Count - 1
        PROVE  RingSlot(serial_f', k - 1, SERIAL_QUEUE_LEN)
                  = RingSlot(serial_f, k, SERIAL_QUEUE_LEN)
    BY <1>1, <1>2, <1>5, SMT DEF RingSlot, Cap
  <1>6. QED
    BY <1>3, <1>4, <1>5
-----------------------------------------------------------------------------
LEMMA InitInvariant == Init => IInv
  <1> SUFFICES ASSUME Init PROVE IInv
    OBVIOUS
  <1>1. 0 \in Slots
    BY SMT DEF Slots
  <1>2. QED
    BY <1>1 DEF Init, IInv, TypeOK, StatusHolds, ReadUnderWay, Bytes

LEMMA KeyDownInvariant ==
    ASSUME IInv, NEW key \in SDLKeys, KeyDown(key)
    PROVE  IInv'
  <1>1. TypeOK /\ SDLK_to_ascii[key] \in Seq(Chars)
    BY DEF IInv
  <1>2. PICK m \in 0 .. Len(SDLK_to_ascii[key]) :
              /\ Count + m <= Cap
              /\ Count' = Count + m
              /\ serial_r' \in Slots
              /\ serial_queue' \in [Slots -> Bytes]
              /\ \A k \in 1 .. Count + m :
                    serial_queue'[RingSlot(serial_f, k - 1, SERIAL_QUEUE_LEN)] =
                       IF k <= Count
                       THEN serial_queue[RingSlot(serial_f, k - 1, SERIAL_QUEUE_LEN)]
                       ELSE SDLK_to_ascii[key][k - Count]
    BY <1>1, StoreBurstEffect DEF KeyDown
  <1>3. TypeOK'
    BY <1>1, <1>2 DEF KeyDown, TypeOK, readVars
  <1>4. Count \in 0 .. Cap /\ Cap \in Nat /\ (Count = 0 <=> serial_f = serial_r)
    BY <1>1, CountRange DEF Cap
  <1>5. Count' = 0 <=> serial_f' = serial_r'
    <2>1. serial_f' \in 0 .. SERIAL_QUEUE_LEN - 1 /\ serial_r' \in 0 .. SERIAL_QUEUE_LEN - 1
      BY <1>3 DEF TypeOK, Slots
    <2>2. QED
      BY <2>1, RingCountRange DEF Count
  <1>6. serial_f # serial_r => serial_f' # serial_r'
    BY <1>2, <1>4, <1>5
  <1>7. serial_f # serial_r => serial_queue'[serial_f] = serial_queue[serial_f]
    <2> SUFFICES ASSUME serial_f # serial_r
                 PROVE  serial_queue'[serial_f] = serial_queue[serial_f]
      OBVIOUS
    <2>1. 1 \in 1 .. Count + m /\ 1 <= Count
      BY <1>2, <1>4
    <2>2. RingSlot(serial_f, 1 - 1, SERIAL_QUEUE_LEN) = serial_f
      BY <1>1, SMT DEF TypeOK, Slots, RingSlot
    <2>3. QED
      BY <1>2, <2>1, <2>2
  <1>8. StatusHolds' /\ ReadUnderWay'
    BY <1>6, <1>7 DEF IInv, StatusHolds, ReadUnderWay, KeyDown, readVars
  <1>9. QED
    BY <1>3, <1>8 DEF IInv

LEMMA NextInvariant == IInv /\ [Next]_vars => IInv'
  <1> SUFFICES ASSUME IInv, [Next]_vars PROVE IInv'
    OBVIOUS
  <1> USE DEF IInv
  <1>1. ASSUME NEW key \in SDLKeys, KeyDown(key) PROVE IInv'
    BY <1>1, KeyDownInvariant
  <1>2. ASSUME NEW key \in SDLKeys, KeyUp(key) PROVE IInv'
    BY <1>2 DEF KeyUp, readVars, TypeOK, StatusHolds, ReadUnderWay
  <1>3. CASE ReadStat
    BY <1>3 DEF ReadStat, TypeOK, StatusHolds, ReadUnderWay
  <1>4. CASE PeekFirst
    <2>1. serial_queue[serial_f] \in Bytes
      BY DEF TypeOK
    <2>2. QED
      BY <1>4, <2>1 DEF PeekFirst, Begin, TypeOK, StatusHolds, ReadUnderWay
  <1>5. CASE TestFirst
    BY <1>5 DEF TestFirst, Begin, TypeOK, StatusHolds, ReadUnderWay
  <1>6. serial_f \in 0 .. SERIAL_QUEUE_LEN - 1
    BY DEF TypeOK, Slots
  <1>7. RingNext(serial_f, SERIAL_QUEUE_LEN) \in Slots
    BY <1>6, RingNextWraps DEF Slots
  <1>8. CASE ThenTest
    <2>1. status = FALSE
      BY <1>8 DEF ThenTest, StatusHolds, ReadUnderWay, TypeOK
    <2>2. QED
      BY <1>7, <1>8, <2>1 DEF ThenTest, Advance, TypeOK, StatusHolds, ReadUnderWay
  <1>9. CASE ThenPeek
    BY <1>7, <1>9 DEF ThenPeek, Advance, TypeOK, StatusHolds, ReadUnderWay
  <1>10. ASSUME NEW value \in CtrlValues, WriteCtrl(value) PROVE IInv'
    BY <1>10 DEF WriteCtrl, readVars, TypeOK, StatusHolds, ReadUnderWay
  <1>11. CASE UNCHANGED vars
    BY <1>11 DEF vars, readVars, TypeOK, StatusHolds, ReadUnderWay
  <1>12. QED
    BY <1>1, <1>2, <1>3, <1>4, <1>5, <1>8, <1>9, <1>10, <1>11 DEF Next
\* Indices, status and the read under way stay consistent, whatever the key
\* events do in between.
THEOREM Invariance == Spec => []IInv
  BY InitInvariant, NextInvariant, PTL DEF Spec

-----------------------------------------------------------------------------
\* The end of a read that did not begin on an empty queue.
LEMMA EndReadEffect ==
    ASSUME IInv, ThenTest \/ ThenPeek, ~blind
    PROVE  /\ Count > 0 /\ Count \in Nat
           /\ out' = Content[1]
           /\ Content' = [k \in 1 .. Count - 1 |-> Content[k + 1]]
  <1> USE DEF IInv
  <1>1. /\ serial_f # serial_r
        /\ serial_f' = RingNext(serial_f, SERIAL_QUEUE_LEN)
        /\ serial_r' = serial_r
        /\ serial_queue' = serial_queue
        /\ out' = serial_queue[serial_f]
    BY DEF ThenTest, ThenPeek, Advance, ReadUnderWay
  <1>2. Count \in 1 .. Cap
    BY <1>1, CountRange DEF Cap
  <1>3. RingSlot(serial_f, 1 - 1, SERIAL_QUEUE_LEN) = serial_f
    BY SMT DEF TypeOK, Slots, RingSlot
  <1>4. out' = Content[1]
    BY <1>1, <1>2, <1>3, ContentIs
  <1>5. ASSUME NEW k \in 1 .. Count - 1
        PROVE  serial_queue'[RingSlot(serial_f', k - 1, SERIAL_QUEUE_LEN)] = Content[k + 1]
    <2>1. RingSlot(serial_f', k - 1, SERIAL_QUEUE_LEN) = RingSlot(serial_f, k, SERIAL_QUEUE_LEN)
      BY <1>1, AdvanceEffect
    <2>2. k + 1 \in 1 .. Count /\ (k + 1) - 1 = k
      BY <1>2
    <2>3. QED
      BY <1>1, <2>1, <2>2, ContentIs
  <1>6. Count' = Count - 1
    BY <1>1, AdvanceEffect
  <1>7. Content' = [k \in 1 .. Count' |->
                      serial_queue'[RingSlot(serial_f', k - 1, SERIAL_QUEUE_LEN)]]
    BY DEF Content, RingContent, Count
  <1>8. Content' = [k \in 1 .. Count - 1 |-> Content[k + 1]]
    BY <1>5, <1>6, <1>7
  <1>9. QED
    BY <1>2, <1>4, <1>8 DEF Cap

LEMMA PolledStep ==
    IInv /\ [Next]_vars =>
       [(rx # "none" /\ rx' = "none" /\ polled) =>
           /\ Count > 0
           /\ out' = Content[1]
           /\ Content' = [k \in 1 .. Count - 1 |-> Content[k + 1]]]_vars
  <1> SUFFICES ASSUME IInv, [Next]_vars, rx # "none", rx' = "none", polled
               PROVE  /\ Count > 0
                      /\ out' = Content[1]
                      /\ Content' = [k \in 1 .. Count - 1 |-> Content[k + 1]]
    OBVIOUS
  <1>1. ThenTest \/ ThenPeek
    BY DEF Next, vars, readVars, KeyDown, KeyUp, ReadStat, PeekFirst, TestFirst, Begin,
           WriteCtrl
  <1>2. ~blind
    BY DEF IInv, ReadUnderWay
  <1>3. QED
    BY <1>1, <1>2, EndReadEffect

\* A guest that polls UARTLITE_STAT before it reads UARTLITE_Rx gets every
\* byte once and in order: the handler that fills the ring between the loads
\* of serial_read cannot disturb it.
THEOREM PolledReads == Spec => PolledReadExact
  BY Invariance, PolledStep, PTL DEF Spec, PolledReadExact

-----------------------------------------------------------------------------
LEMMA RefinesInit == Init => Fifo!Init
  <1> SUFFICES ASSUME Init PROVE Fifo!Init
    OBVIOUS
  <1>1. Count = 0
    BY SMT DEF Init, Count, RingCount
  <1>2. Content = <<>>
    BY <1>1 DEF Content, RingContent, Count
  <1>3. QED
    BY <1>2 DEF Init, Fifo!Init, Bytes

\* A key event offers its burst; the bytes that fit go behind the stored ones.
LEMMA RefinesKeyDown ==
    ASSUME IInv, NEW key \in SDLKeys, KeyDown(key)
    PROVE  Fifo!Press(key)
  <1> DEFINE burst == SDLK_to_ascii[key]
  <1>1. TypeOK /\ burst \in Seq(Chars) /\ StoreBurst(burst) /\ serial_f' = serial_f
    BY DEF IInv, KeyDown
  <1>2. PICK m \in 0 .. Len(burst) :
              /\ m = Len(burst) \/ Count + m = Cap
              /\ Count + m <= Cap
              /\ Count' = Count + m
              /\ \A k \in 1 .. Count + m :
                    serial_queue'[RingSlot(serial_f, k - 1, SERIAL_QUEUE_LEN)] =
                       IF k <= Count
                       THEN serial_queue[RingSlot(serial_f, k - 1, SERIAL_QUEUE_LEN)]
                       ELSE burst[k - Count]
    BY <1>1, StoreBurstEffect
  <1>3. Count \in 0 .. Cap /\ Cap \in Nat /\ Len(Content) = Count
    BY <1>1, CountRange, ContentIs DEF Cap
  <1>4. Content' = [k \in 1 .. Count + m |->
                      IF k <= Count THEN Content[k] ELSE burst[k - Count]]
    <2>1. Content' = [k \in 1 .. Count + m |->
                        serial_queue'[RingSlot(serial_f, k - 1, SERIAL_QUEUE_LEN)]]
      BY <1>1, <1>2 DEF Content, RingContent, Count
    <2>2. ASSUME NEW k \in 1 .. Count + m
          PROVE  serial_queue'[RingSlot(serial_f, k - 1, SERIAL_QUEUE_LEN)]
                    = IF k <= Count THEN Content[k] ELSE burst[k - Count]
      <3>1. k <= Count => k \in 1 .. Count
        BY <1>3
      <3>2. QED
        BY <1>1, <1>2, <3>1, ContentIs
    <2>3. QED
      BY <2>1, <2>2
  <1>5. /\ key \notin sdlk_state /\ sdlk_state' = sdlk_state \cup {key}
        /\ UNCHANGED <<rx # "none", blind, out>>
    BY DEF KeyDown, readVars
  <1>6. Fifo!Offer(burst)
    BY <1>2, <1>3, <1>4 DEF Fifo!Offer
  <1>7. QED
    BY <1>5, <1>6 DEF Fifo!Press

\* A read that began on an empty queue takes at most the oldest byte away.
LEMMA BlindReadEffect ==
    ASSUME IInv, ThenTest \/ ThenPeek
    PROVE  Content' \in {Content, Fifo!Rest}
  <1> USE DEF IInv
  <1>1. serial_r' = serial_r /\ serial_queue' = serial_queue
    BY DEF ThenTest, ThenPeek
  <1>2. CASE serial_f' = serial_f
    BY <1>1, <1>2 DEF Content, RingContent
  <1>3. CASE serial_f' # serial_f
    <2>1. serial_f # serial_r /\ serial_f' = RingNext(serial_f, SERIAL_QUEUE_LEN)
      BY <1>3 DEF ThenTest, ThenPeek, Advance, ReadUnderWay
    <2>2. Count \in 1 .. Cap /\ Count' = Count - 1 /\ Len(Content) = Count
      BY <1>1, <2>1, CountRange, ContentIs, AdvanceEffect DEF Cap
    <2>3. ASSUME NEW k \in 1 .. Count - 1
          PROVE  serial_queue'[RingSlot(serial_f', k - 1, SERIAL_QUEUE_LEN)] = Content[k + 1]
      <3>1. RingSlot(serial_f', k - 1, SERIAL_QUEUE_LEN)
              = RingSlot(serial_f, k, SERIAL_QUEUE_LEN)
        BY <1>1, <2>1, AdvanceEffect
      <3>2. k + 1 \in 1 .. Count /\ (k + 1) - 1 = k
        BY <2>2
      <3>3. QED
        BY <1>1, <3>1, <3>2, ContentIs
    <2>4. Content' = [k \in 1 .. Count' |->
                        serial_queue'[RingSlot(serial_f', k - 1, SERIAL_QUEUE_LEN)]]
      BY DEF Content, RingContent, Count
    <2>5. QED
      BY <2>2, <2>3, <2>4 DEF Fifo!Rest
  <1>4. QED
    BY <1>2, <1>3

LEMMA RefinesEndRead ==
    ASSUME IInv, ThenTest \/ ThenPeek
    PROVE  Fifo!EndRead
  <1>1. rx # "none" /\ rx' = "none" /\ blind' = blind /\ sdlk_state' = sdlk_state
    BY DEF ThenTest, ThenPeek
  <1>2. CASE ~blind
    <2>1. Len(Content) = Count
      BY ContentIs DEF IInv
    <2>2. QED
      BY <1>1, <1>2, <2>1, EndReadEffect DEF Fifo!EndRead, Fifo!Rest
  <1>3. CASE blind
    <2>1. out' \in Bytes
      BY DEF ThenTest, ThenPeek, IInv, TypeOK
    <2>2. QED
      BY <1>1, <1>3, <2>1, BlindReadEffect DEF Fifo!EndRead
  <1>4. QED
    BY <1>2, <1>3 DEF IInv, TypeOK

\* Actions that leave the ring and the read alone.
LEMMA RefinesStutter ==
    ASSUME UNCHANGED <<serial_queue, serial_f, serial_r, sdlk_state, rx, blind, out>>
    PROVE  UNCHANGED Fifo!vars
  BY DEF Fifo!vars, Content

LEMMA RefinesNext == IInv /\ [Next]_vars => [Fifo!Next]_(Fifo!vars)
  <1> SUFFICES ASSUME IInv, [Next]_vars PROVE [Fifo!Next]_(Fifo!vars)
    OBVIOUS
  <1>1. ASSUME NEW key \in SDLKeys, KeyDown(key) PROVE Fifo!Next
    BY <1>1, RefinesKeyDown DEF Fifo!Next
  <1>2. ASSUME NEW key \in SDLKeys, KeyUp(key) PROVE Fifo!Next
    <2>1. UNCHANGED <<Content, rx # "none", blind, out>>
      BY <1>2 DEF KeyUp, readVars, Content
    <2>2. Fifo!Release(key)
      BY <1>2, <2>1 DEF Fifo!Release, KeyUp
    <2>3. QED
      BY <2>2 DEF Fifo!Next
  <1>3. CASE ReadStat
    BY <1>3, RefinesStutter DEF ReadStat
  <1>4. CASE PeekFirst \/ TestFirst
    <2>1. Content' = Content /\ Len(Content) = Count /\ (Count = 0 <=> serial_f = serial_r)
      BY <1>4, CountRange, ContentIs DEF PeekFirst, TestFirst, Begin, Content, IInv
    <2>2. /\ blind' = (Len(Content) = 0) /\ rx = "none" /\ rx' # "none"
          /\ out' = out /\ sdlk_state' = sdlk_state
      BY <1>4, <2>1 DEF PeekFirst, TestFirst, Begin
    <2>3. Fifo!BeginRead
      BY <2>1, <2>2 DEF Fifo!BeginRead
    <2>4. QED
      BY <2>3 DEF Fifo!Next
  <1>5. CASE ThenTest \/ ThenPeek
    BY <1>5, RefinesEndRead DEF Fifo!Next
  <1>6. ASSUME NEW value \in CtrlValues, WriteCtrl(value) PROVE UNCHANGED Fifo!vars
    BY <1>6, RefinesStutter DEF WriteCtrl, readVars
  <1>7. CASE UNCHANGED vars
    BY <1>7, RefinesStutter DEF vars, readVars
  <1>8. QED
    BY <1>1, <1>2, <1>3, <1>4, <1>5, <1>6, <1>7 DEF Next

\* The receive ring of serial.c implements a FIFO of SERIAL_QUEUE_LEN - 1
\* bytes, for every length, key table and interleaving.
THEOREM ImplementsByteFifo == Spec => ImplementsFifo
  BY Invariance, RefinesInit, RefinesNext, PTL DEF Spec, ImplementsFifo, Fifo!Spec

-----------------------------------------------------------------------------
\* The loop of serial_enqueue.

\* A set of numbers has a least one.
LEMMA Least == ASSUME NEW T, T \subseteq Nat, T # {}
               PROVE  \E m \in T : \A k \in T : ~(k < m)
  <1>1. PICK m \in T : \A k \in T : <<k, m>> \notin OpToRel(<, Nat)
    BY WFMin, NatLessThanWellFounded, Zenon
  <1>2. \A k \in T : ~(k < m)
    BY <1>1, Zenon DEF OpToRel
  <1>3. QED
    BY <1>2, Zenon

\* What the ring has after k bytes, in closed form.
Stored(burst, k) ==
    LET m == IF k <= Cap - Count THEN k ELSE Cap - Count
    IN  [queue |-> [i \in Slots |-> IF Ahead(i) < m THEN burst[Ahead(i) + 1]
                                                    ELSE serial_queue[i]],
         r |-> RingSlot(serial_r, m, SERIAL_QUEUE_LEN)]

Round(was, byte) ==
    LET next == RingNext(was.r, SERIAL_QUEUE_LEN)
    IN  IF next = serial_f THEN was
        ELSE [queue |-> [was.queue EXCEPT ![was.r] = byte], r |-> next]

\* A round stores its byte, while there is room.
LEMMA StoredRound ==
    ASSUME TypeOK, NEW burst, NEW k \in Nat \ {0}
    PROVE  Stored(burst, k) = Round(Stored(burst, k - 1), burst[k])
  <1> DEFINE N == SERIAL_QUEUE_LEN
             room == Cap - Count
             m == IF k - 1 <= room THEN k - 1 ELSE room
             n == IF k <= room THEN k ELSE room
             Q(j) == [i \in Slots |-> IF Ahead(i) < j THEN burst[Ahead(i) + 1]
                                                      ELSE serial_queue[i]]
             R(j) == RingSlot(serial_r, j, N)
  <1>1. Stored(burst, k - 1) = [queue |-> Q(m), r |-> R(m)]
        /\ Stored(burst, k) = [queue |-> Q(n), r |-> R(n)]
    BY DEF Stored
  <1>2. /\ Count \in 0 .. Cap /\ room \in 0 .. Cap /\ Cap = N - 1 /\ N \in Nat \ {0, 1}
        /\ serial_f \in 0 .. N - 1 /\ serial_r \in 0 .. N - 1
    BY CountRange DEF TypeOK, Slots, Cap
  <1>3. m \in 0 .. Cap /\ n \in 0 .. Cap /\ m <= room
    BY <1>2
  <1>4. R(m) \in 0 .. N - 1
    BY <1>2, <1>3 DEF RingSlot
  <1>5. RingNext(R(m), N) = IF R(m) + 1 = N THEN 0 ELSE R(m) + 1
    BY <1>2, <1>4, RingNextWraps
  <1>6. RingNext(R(m), N) = serial_f <=> m = room
    BY <1>2, <1>3, <1>5 DEF RingSlot, Count, RingCount
  <1>7. CASE m = room
    <2>1. n = m
      BY <1>2, <1>7
    <2>2. Round([queue |-> Q(m), r |-> R(m)], burst[k]) = [queue |-> Q(m), r |-> R(m)]
      BY <1>6, <1>7 DEF Round
    <2> HIDE DEF m, n, Q, R
    <2>3. QED
      BY <1>1, <2>1, <2>2
  <1>8. CASE m # room
    <2>1. m = k - 1 /\ n = k /\ n = m + 1
      BY <1>2, <1>8
    <2>2. R(n) = RingNext(R(m), N)
      BY <1>2, <1>3, <1>5, <2>1 DEF RingSlot
    <2>3. \A i \in Slots : /\ Ahead(i) \in Nat
                           /\ Ahead(i) < m + 1 <=> Ahead(i) < m \/ Ahead(i) = m
                           /\ Ahead(i) = m <=> i = R(m)
      BY <1>2, <1>3 DEF Ahead, RingSlot, Slots
    <2>4. Q(n) = [Q(m) EXCEPT ![R(m)] = burst[k]]
      <3>1. ASSUME NEW i \in Slots
            PROVE  Q(m + 1)[i] = IF i = R(m) THEN burst[m + 1] ELSE Q(m)[i]
        <4> HIDE DEF m, R
        <4>1. CASE i = R(m)
          BY <2>3, <4>1
        <4>2. CASE i # R(m)
          <5>1. Ahead(i) < m + 1 <=> Ahead(i) < m
            BY <2>3, <4>2
          <5>2. QED
            BY <4>2, <5>1
        <4>3. QED
          BY <4>1, <4>2
      <3>2. k = m + 1
        BY <2>1
      <3> HIDE DEF m, n, R
      <3>3. [Q(m) EXCEPT ![R(m)] = burst[k]]
               = [i \in Slots |-> IF i = R(m) THEN burst[k] ELSE Q(m)[i]]
        OBVIOUS
      <3>4. Q(n) = [i \in Slots |-> Q(n)[i]]
        OBVIOUS
      <3> HIDE DEF Q
      <3>5. QED
        BY <2>1, <3>1, <3>2, <3>3, <3>4
    <2> DEFINE was == [queue |-> Q(m), r |-> R(m)]
    <2>5. was.queue = Q(m) /\ was.r = R(m)
      OBVIOUS
    <2> HIDE DEF m, n, Q, R, was
    <2>6. Round(was, burst[k]) = [queue |-> [Q(m) EXCEPT ![R(m)] = burst[k]],
                                  r |-> RingNext(R(m), N)]
      BY <1>6, <1>8, <2>5, Zenon DEF Round
    <2>7. QED
      BY <1>1, <2>2, <2>4, <2>6, Zenon DEF was
  <1>9. QED
    BY <1>7, <1>8

\* So the loop has the closed form, by induction on the rounds.
LEMMA LoopStores ==
    ASSUME TypeOK, NEW burst, Len(burst) \in Nat
    PROVE  EnqueueLoop(serial_queue, serial_f, serial_r, burst)[Len(burst)]
              = Stored(burst, Len(burst))
  <1> DEFINE L == Len(burst)
             start == [queue |-> serial_queue, r |-> serial_r]
             Body(g) == [k \in 0 .. L |-> IF k = 0 THEN start ELSE Round(g[k - 1], burst[k])]
             h == [k \in 0 .. L |-> Stored(burst, k)]
             loop == EnqueueLoop(serial_queue, serial_f, serial_r, burst)
  <1>1. loop = CHOOSE g : g = Body(g)
    BY Zenon DEF EnqueueLoop, Round
  <1>2. h = Body(h)
    <2>1. Stored(burst, 0) = start
      <3>1. /\ Count \in 0 .. Cap /\ Cap \in Nat /\ serial_r \in 0 .. SERIAL_QUEUE_LEN - 1
            /\ serial_queue \in [Slots -> Bytes]
        BY CountRange DEF TypeOK, Slots, Cap
      <3>2. 0 <= Cap - Count
        BY <3>1
      <3>3. \A i \in Slots : ~(Ahead(i) < 0)
        BY <3>1 DEF Ahead, Slots
      <3>4. [i \in Slots |-> IF Ahead(i) < 0 THEN burst[Ahead(i) + 1] ELSE serial_queue[i]]
               = serial_queue
        BY <3>1, <3>3
      <3>5. RingSlot(serial_r, 0, SERIAL_QUEUE_LEN) = serial_r
        BY <3>1 DEF RingSlot
      <3>6. QED
        BY <3>2, <3>4, <3>5 DEF Stored
    <2>2. ASSUME NEW k \in 0 .. L, k # 0
          PROVE  Stored(burst, k) = Round(h[k - 1], burst[k])
      <3>1. k \in Nat \ {0} /\ k - 1 \in 0 .. L
        BY <2>2
      <3>2. h[k - 1] = Stored(burst, k - 1)
        BY <3>1
      <3> HIDE DEF h
      <3>3. QED
        BY <3>1, <3>2, StoredRound
    <2> HIDE DEF start
    <2>3. \A k \in 0 .. L : Stored(burst, k)
                              = IF k = 0 THEN start ELSE Round(h[k - 1], burst[k])
      BY <2>1, <2>2
    <2>4. QED
      BY <2>3, Zenon
  <1>3. ASSUME NEW g, g = Body(g) PROVE \A k \in 0 .. L : g[k] = h[k]
    <2> DEFINE T == {k \in 0 .. L : g[k] # h[k]}
    <2> SUFFICES ASSUME T # {} PROVE FALSE
      OBVIOUS
    <2>1. T \subseteq Nat
      OBVIOUS
    <2>2. PICK k \in T : \A j \in T : ~(j < k)
      BY <2>1, Least, Zenon
    <2>3. k \in 0 .. L /\ g[k] # h[k]
      BY <2>2
    <2>4. /\ g[k] = IF k = 0 THEN start ELSE Round(g[k - 1], burst[k])
          /\ h[k] = IF k = 0 THEN start ELSE Round(h[k - 1], burst[k])
      BY <1>2, <1>3, <2>3, Zenon
    <2> HIDE DEF h, start
    <2>5. k # 0
      BY <2>3, <2>4
    <2>6. k - 1 \in 0 .. L /\ k - 1 < k
      BY <2>3, <2>5
    <2>7. g[k - 1] = h[k - 1]
      BY <2>2, <2>6
    <2>8. QED
      BY <2>3, <2>4, <2>5, <2>7, Zenon
  <1>4. loop = Body(loop)
    BY <1>1, <1>2, Zenon
  <1>5. L \in 0 .. L
    OBVIOUS
  <1>6. loop[L] = h[L]
    <2> HIDE DEF loop, h, Body
    <2>1. QED
      BY <1>3, <1>4, <1>5, Zenon
  <1>7. QED
    BY <1>5, <1>6, Zenon

\* A press of a key leaves in the ring what the loop of serial_enqueue does
\* (serial.c:142-152), for every length, wherever the ring wraps or fills up.
THEOREM BurstIsLoop == Spec => StoreIsTheLoop
  <1>1. IInv /\ [Next]_vars =>
           [\A key \in SDLKeys : key \in sdlk_state' \ sdlk_state =>
              LET burst == SDLK_to_ascii[key]
                  left  == EnqueueLoop(serial_queue, serial_f, serial_r, burst)[Len(burst)]
              IN  serial_queue' = left.queue /\ serial_r' = left.r]_vars
    <2> SUFFICES ASSUME IInv, [Next]_vars, NEW key \in SDLKeys, key \in sdlk_state' \ sdlk_state
                 PROVE  LET burst == SDLK_to_ascii[key]
                            left  == EnqueueLoop(serial_queue, serial_f, serial_r, burst)[Len(burst)]
                        IN  serial_queue' = left.queue /\ serial_r' = left.r
      OBVIOUS
    <2>1. KeyDown(key)
      BY DEF Next, KeyDown, KeyUp, ReadStat, PeekFirst, TestFirst, Begin, ThenTest, ThenPeek,
             WriteCtrl, vars
    <2> DEFINE burst == SDLK_to_ascii[key]
    <2>2. burst \in Seq(Chars) /\ Len(burst) \in Nat
      OBVIOUS
    <2>3. StoreBurst(burst) /\ TypeOK
      BY <2>1 DEF KeyDown, IInv
    <2> HIDE DEF burst
    <2> DEFINE left == EnqueueLoop(serial_queue, serial_f, serial_r, burst)[Len(burst)]
    <2>4. left = Stored(burst, Len(burst))
      BY <2>2, <2>3, LoopStores
    <2> HIDE DEF left
    <2>5. serial_queue' = left.queue /\ serial_r' = left.r
      BY <2>3, <2>4 DEF StoreBurst, Stored
    <2>6. QED
      BY <2>5 DEF left, burst
  <1>2. QED
    BY <1>1, Invariance, PTL DEF Spec, StoreIsTheLoop
=============================================================================

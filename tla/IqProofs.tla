------------------------------ MODULE IqProofs ------------------------------
(***************************************************************************)
(* The instruction queue shows the last NR_INSTR instructions, for every   *)
(* NR_INSTR and every set of addresses and words.                          *)
(***************************************************************************)
EXTENDS Iq, TLAPS

-----------------------------------------------------------------------------
\* The index arithmetic of Ring, for every length of the buffer.

\* The % of the source only wraps at the end of the buffer, and never leaves
\* it (iq.c:20).
LEMMA RingNextWraps ==
    ASSUME NEW len \in Nat \ {0}, NEW p \in 0 .. len - 1
    PROVE  /\ RingNext(p, len) = IF p + 1 = len THEN 0 ELSE p + 1
           /\ RingNext(p, len) \in 0 .. len - 1
  BY SMT DEF RingNext

\* Walking k places from a slot stays in the buffer.
LEMMA RingSlotInBuffer ==
    ASSUME NEW len \in Nat \ {0}, NEW p \in 0 .. len - 1, NEW k \in 0 .. len - 1
    PROVE  RingSlot(p, k, len) \in 0 .. len - 1
  BY SMT DEF RingSlot

\* A walk from p visits every slot once.
LEMMA RingSlotInjective ==
    ASSUME NEW len \in Nat \ {0}, NEW p \in 0 .. len - 1,
           NEW j \in 0 .. len - 1, NEW k \in 0 .. len - 1,
           RingSlot(p, j, len) = RingSlot(p, k, len)
    PROVE  j = k
  BY SMT DEF RingSlot

\* Starting one slot later is walking one place further; after a whole round
\* the walk is back.
LEMMA RingSlotShift ==
    ASSUME NEW len \in Nat \ {0}, NEW p \in 0 .. len - 1, NEW k \in 0 .. len - 1
    PROVE  RingSlot(RingNext(p, len), k, len)
             = IF k = len - 1 THEN p ELSE RingSlot(p, k + 1, len)
  <1>1. RingNext(p, len) = IF p + 1 = len THEN 0 ELSE p + 1
    BY RingNextWraps
  <1>2. QED
    BY <1>1, SMT DEF RingSlot

-----------------------------------------------------------------------------
USE NrInstrAssumption

LEMMA InitInvariant == Init => IInv
  <1> SUFFICES ASSUME Init PROVE IInv
    OBVIOUS
  <1>1. 0 \in Slots
    BY DEF Slots
  <1>2. [pc |-> ZeroPc, instr |-> ZeroInstr, instr_enq |-> FALSE] \in Element
    BY DEF Element
  <1>3. QED
    BY <1>1, <1>2 DEF Init, IInv, TypeOK, Waiting

LEMMA NextInvariant == IInv /\ [Next]_vars => IInv'
  <1> SUFFICES ASSUME IInv, [Next]_vars PROVE IInv'
    OBVIOUS
  <1> USE DEF IInv, TypeOK
  <1>1. ASSUME NEW pc \in Pcs, EnqueuePc(pc) PROVE IInv'
    <2>1. /\ pc_ptr \in 0 .. NR_INSTR - 1
          /\ pc_ptr' = RingNext(pc_ptr, NR_INSTR)
          /\ pc_ptr' \in 0 .. NR_INSTR - 1
      BY <1>1, RingNextWraps DEF EnqueuePc, Slots
    <2>2. iq' \in [Slots -> Element]
      BY <1>1 DEF EnqueuePc, Slots, Element
    <2>3. Waiting'
      BY <1>1, <2>1 DEF EnqueuePc, Waiting, Slots
    <2>4. QED
      BY <1>1, <2>1, <2>2, <2>3 DEF EnqueuePc, Slots
  <1>2. ASSUME NEW instr \in Instrs, EnqueueInstr(instr) PROVE IInv'
    <2>1. iq' \in [Slots -> Element]
      BY <1>2 DEF EnqueueInstr, Element
    <2>2. QED
      BY <1>2, <2>1 DEF EnqueueInstr, Waiting
  <1>3. CASE UNCHANGED vars
    BY <1>3 DEF vars, Waiting
  <1>4. QED
    BY <1>1, <1>2, <1>3 DEF Next

\* The pointers and the element that waits for its word always agree.
THEOREM Invariance == Spec => []IInv
  BY InitInvariant, NextInvariant, PTL DEF Spec

-----------------------------------------------------------------------------
LEMMA RefinesInit == Init => Window!Init
  <1> SUFFICES ASSUME Init PROVE Window!Init
    OBVIOUS
  <1>1. ASSUME NEW k \in 1 .. NR_INSTR
        PROVE  PrintElement(iq[RingSlot(pc_ptr, k - 1, NR_INSTR)]) = <<ZeroPc, Unknown>>
    <2>1. RingSlot(pc_ptr, k - 1, NR_INSTR) \in Slots
      BY RingSlotInBuffer DEF Init, Slots
    <2>2. QED
      BY <2>1 DEF Init, PrintElement
  <1>2. QED
    BY <1>1 DEF Init, Window!Init, PrintQueue

\* The oldest line is overwritten and the others move up.
LEMMA RefinesEnqueuePc ==
    ASSUME IInv, NEW pc \in Pcs, EnqueuePc(pc)
    PROVE  Window!Shift(pc)
  <1> DEFINE Shown(k) == PrintElement(iq[RingSlot(pc_ptr, k - 1, NR_INSTR)])
             Expect(k) == IF k = NR_INSTR THEN <<pc, Unknown>> ELSE PrintQueue[k + 1]
  <1>1. /\ pc_ptr \in 0 .. NR_INSTR - 1
        /\ pc_ptr' = RingNext(pc_ptr, NR_INSTR)
        /\ iq \in [Slots -> Element]
        /\ iq' = [iq EXCEPT ![pc_ptr] = [pc |-> pc, instr |-> @.instr, instr_enq |-> FALSE]]
    BY DEF EnqueuePc, IInv, TypeOK, Slots
  <1>2. ASSUME NEW k \in 1 .. NR_INSTR
        PROVE  PrintElement(iq'[RingSlot(pc_ptr', k - 1, NR_INSTR)]) = Expect(k)
    <2>1. k - 1 \in 0 .. NR_INSTR - 1
      OBVIOUS
    <2>2. CASE k = NR_INSTR
      <3>1. RingSlot(pc_ptr', k - 1, NR_INSTR) = pc_ptr
        BY <1>1, <2>1, <2>2, RingSlotShift
      <3>2. iq'[pc_ptr] = [pc |-> pc, instr |-> iq[pc_ptr].instr, instr_enq |-> FALSE]
        BY <1>1 DEF Slots
      <3>3. QED
        BY <2>2, <3>1, <3>2 DEF PrintElement
    <2>3. CASE k # NR_INSTR
      <3>1. k \in 0 .. NR_INSTR - 1 /\ k + 1 \in 1 .. NR_INSTR /\ (k - 1) + 1 = k
        BY <2>3
      <3>2. RingSlot(pc_ptr', k - 1, NR_INSTR) = RingSlot(pc_ptr, k, NR_INSTR)
        BY <1>1, <2>1, <2>3, <3>1, RingSlotShift
      <3>3. RingSlot(pc_ptr, k, NR_INSTR) # pc_ptr
        BY <1>1, <3>1, <2>1 DEF RingSlot
      <3>4. RingSlot(pc_ptr, k, NR_INSTR) \in Slots
        BY <1>1, <3>1, RingSlotInBuffer DEF Slots
      <3>5. iq'[RingSlot(pc_ptr, k, NR_INSTR)] = iq[RingSlot(pc_ptr, k, NR_INSTR)]
        BY <1>1, <3>3, <3>4
      <3>6. PrintQueue[k + 1] = Shown(k + 1) /\ (k + 1) - 1 = k
        BY <3>1 DEF PrintQueue
      <3>7. QED
        BY <2>3, <3>2, <3>5, <3>6
    <2>4. QED
      BY <2>2, <2>3
  <1>3. PrintQueue' = [k \in 1 .. NR_INSTR |-> Expect(k)]
    BY <1>2 DEF PrintQueue
  <1>4. QED
    BY <1>3 DEF Window!Shift, EnqueuePc

\* Only the newest line changes, and it keeps its address.
LEMMA RefinesEnqueueInstr ==
    ASSUME IInv, NEW instr \in Instrs, EnqueueInstr(instr)
    PROVE  Window!Fill(instr)
  <1> DEFINE Slot(k) == RingSlot(pc_ptr, k - 1, NR_INSTR)
             Expect == [PrintQueue EXCEPT ![NR_INSTR] = <<PrintQueue[NR_INSTR][1], instr>>]
  <1>1. /\ pc_ptr \in 0 .. NR_INSTR - 1
        /\ instr_ptr \in 0 .. NR_INSTR - 1
        /\ pc_ptr' = pc_ptr
        /\ iq \in [Slots -> Element]
        /\ iq' = [iq EXCEPT ![instr_ptr] = [pc |-> @.pc, instr |-> instr, instr_enq |-> TRUE]]
        /\ RingNext(instr_ptr, NR_INSTR) = pc_ptr
        /\ NR_INSTR \in 1 .. NR_INSTR
    BY DEF EnqueueInstr, IInv, TypeOK, Waiting, Slots
  <1>2. Slot(NR_INSTR) = instr_ptr
    BY <1>1, RingSlotShift
  <1>3. ASSUME NEW k \in 1 .. NR_INSTR PROVE PrintElement(iq'[Slot(k)]) = Expect[k]
    <2>1. Slot(k) \in Slots
      <3>1. k - 1 \in 0 .. NR_INSTR - 1 /\ NR_INSTR \in Nat \ {0}
        OBVIOUS
      <3>2. QED
        BY <1>1, <3>1, RingSlotInBuffer, Zenon DEF Slots
    <2>2. CASE k = NR_INSTR
      <3>1. /\ instr_ptr \in Slots
            /\ iq'[instr_ptr] = [pc |-> iq[instr_ptr].pc, instr |-> instr, instr_enq |-> TRUE]
        BY <1>1, <1>2, <2>1, <2>2
      <3>2. PrintQueue[NR_INSTR] = PrintElement(iq[instr_ptr])
        BY <1>1, <1>2 DEF PrintQueue
      <3>3. Expect[k] = <<PrintQueue[NR_INSTR][1], instr>>
        BY <1>1, <2>2 DEF PrintQueue
      <3>4. QED
        BY <1>2, <2>2, <3>1, <3>2, <3>3 DEF PrintElement
    <2>3. CASE k # NR_INSTR
      <3>1. k - 1 \in 0 .. NR_INSTR - 1 /\ NR_INSTR - 1 \in 0 .. NR_INSTR - 1
            /\ k - 1 # NR_INSTR - 1
        BY <2>3
      <3>2. Slot(k) # instr_ptr
        BY <1>1, <1>2, <3>1, RingSlotInjective
      <3>3. QED
        BY <1>1, <2>1, <2>3, <3>2 DEF PrintQueue
    <2>4. QED
      BY <2>2, <2>3
  <1>4. PrintQueue' = Expect
    <2>1. PrintQueue' = [k \in 1 .. NR_INSTR |-> PrintElement(iq'[Slot(k)])]
      BY <1>1 DEF PrintQueue
    <2>2. Expect = [k \in 1 .. NR_INSTR |-> Expect[k]]
      BY DEF PrintQueue
    <2>3. QED
      BY <1>3, <2>1, <2>2
  <1>5. QED
    BY <1>4 DEF Window!Fill, EnqueueInstr

LEMMA RefinesNext == IInv /\ [Next]_vars => [Window!Next]_(Window!vars)
  <1> SUFFICES ASSUME IInv, [Next]_vars PROVE [Window!Next]_(Window!vars)
    OBVIOUS
  <1>1. ASSUME NEW pc \in Pcs, EnqueuePc(pc) PROVE Window!Next
    BY <1>1, RefinesEnqueuePc DEF Window!Next
  <1>2. ASSUME NEW instr \in Instrs, EnqueueInstr(instr) PROVE Window!Next
    BY <1>2, RefinesEnqueueInstr DEF Window!Next
  <1>3. CASE UNCHANGED vars
    BY <1>3 DEF vars, Window!vars, PrintQueue
  <1>4. QED
    BY <1>1, <1>2, <1>3 DEF Next

\* The dump of the ring in iq.c is the window on the last NR_INSTR
\* instructions, oldest first, for every queue length.
THEOREM ImplementsWindow == Spec => ShowsLastInstrs
  BY Invariance, RefinesInit, RefinesNext, PTL DEF Spec, ShowsLastInstrs, Window!Spec
=============================================================================

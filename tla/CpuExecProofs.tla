--------------------------- MODULE CpuExecProofs ----------------------------
(***************************************************************************)
(* The invariants of the execution loop for every size of the queue and of *)
(* the address space, every memory, every set of options and every         *)
(* argument of cpu_exec.  The lemmas about the queue are those of IqProofs.*)
(***************************************************************************)
EXTENDS CpuExec, SequenceTheorems, TLAPS

QP == INSTANCE IqProofs WITH Instrs <- Words, ZeroPc <- 0, ZeroInstr <- "zero",
                             Unknown <- "xxxxxxxx"

USE CpuExecAssumption

-----------------------------------------------------------------------------
\* What the phase of the thread says of the rest of the state.
PhaseOK == /\ phase \in {"idle", "enter"} \cup Looping => depth = 0
           /\ phase \in Looping \ {"loop"} => n # 0
           /\ phase = "exec" => ~fetching

\* Once a SIGINT was taken within the loop, nothing makes the state RUNNING
\* again before the call returns, and CheckState is passed at most once.
StopSeen == late >= 0 => /\ nemu_state # "RUNNING"
                         /\ phase \notin {"idle", "enter"}
                         /\ late <= 1
                         /\ phase = "loop" => late = 0

\* Once the program has ended and no SIGINT came after that, the thread is on
\* its way out of the loop or out of it.
EndSeen == (ended /\ ~revoked) => /\ nemu_state = "END"
                                  /\ phase \in {"commit", "check", "idle"} \cup Dead

\* How much text there is at each point of an iteration.
TextAt == /\ phase \in {"idle", "enter", "loop", "commit", "check"} => asm_buf_p <= 1
          /\ phase \in {"align", "fetch"} => asm_buf_p <= 2
          /\ phase = "exec" => asm_buf_p <= 0
          /\ phase # "overrun"

\* The lines of a dump.
Line == Pcs \X (Words \cup {"zero", "xxxxxxxx"})

-----------------------------------------------------------------------------
\* The queue.

LEMMA QueueStutter ==
    ASSUME UNCHANGED queueVars
    PROVE  (Q!IInv => Q!IInv') /\ Q!PrintQueue' = Q!PrintQueue
  BY DEF queueVars, Q!IInv, Q!TypeOK, Q!Waiting, Q!PrintQueue

LEMMA QueueInit == Q!Init => Q!IInv /\ Q!PrintQueue = Lines(<<>>)
  <1> SUFFICES ASSUME Q!Init PROVE Q!IInv /\ Q!PrintQueue = Lines(<<>>)
    OBVIOUS
  <1>1. QP!Init
    BY DEF Q!Init, QP!Init, Q!Slots, QP!Slots
  <1>2. QP!IInv /\ QP!Window!Init
    BY <1>1, QP!InitInvariant, QP!RefinesInit
  <1>3. Q!IInv
    BY <1>2 DEF QP!IInv, QP!TypeOK, QP!Waiting, QP!Slots, QP!Element, QP!RingNext,
                Q!IInv, Q!TypeOK, Q!Waiting, Q!Slots, Q!Element, Q!RingNext
  <1>4. Q!PrintQueue = [k \in 1 .. NR_INSTR |-> <<0, "xxxxxxxx">>]
    BY <1>2 DEF QP!Window!Init, QP!PrintQueue, QP!PrintElement, QP!RingSlot,
                Q!PrintQueue, Q!PrintElement, Q!RingSlot
  <1>5. \A k \in 1 .. NR_INSTR : Len(<<>>) - NR_INSTR + k < 1
    OBVIOUS
  <1>6. QED
    BY <1>3, <1>4, <1>5 DEF Lines

LEMMA QueueEnqueuePc ==
    ASSUME Q!IInv, NEW a \in Pcs, Q!EnqueuePc(a)
    PROVE  /\ Q!IInv' /\ fetching'
           /\ Q!PrintQueue' = [k \in 1 .. NR_INSTR |->
                                 IF k = NR_INSTR THEN <<a, "xxxxxxxx">>
                                                 ELSE Q!PrintQueue[k + 1]]
  <1>1. QP!IInv /\ QP!EnqueuePc(a)
    BY DEF Q!IInv, Q!TypeOK, Q!Waiting, Q!Slots, Q!Element, Q!RingNext, Q!EnqueuePc,
           QP!IInv, QP!TypeOK, QP!Waiting, QP!Slots, QP!Element, QP!RingNext, QP!EnqueuePc
  <1>2. QP!Window!Shift(a) /\ QP!IInv'
    BY <1>1, QP!RefinesEnqueuePc, QP!NextInvariant DEF QP!Next
  <1>3. Q!IInv'
    BY <1>2 DEF QP!IInv, QP!TypeOK, QP!Waiting, QP!Slots, QP!Element, QP!RingNext,
                Q!IInv, Q!TypeOK, Q!Waiting, Q!Slots, Q!Element, Q!RingNext
  <1>4. QED
    BY <1>2, <1>3 DEF QP!Window!Shift, QP!PrintQueue, QP!PrintElement, QP!RingSlot,
                      Q!PrintQueue, Q!PrintElement, Q!RingSlot

LEMMA QueueEnqueueInstr ==
    ASSUME Q!IInv, NEW w \in Words, Q!EnqueueInstr(w)
    PROVE  /\ Q!IInv' /\ ~fetching'
           /\ Q!PrintQueue' = [Q!PrintQueue EXCEPT
                                 ![NR_INSTR] = <<Q!PrintQueue[NR_INSTR][1], w>>]
  <1>1. QP!IInv /\ QP!EnqueueInstr(w)
    BY DEF Q!IInv, Q!TypeOK, Q!Waiting, Q!Slots, Q!Element, Q!RingNext, Q!EnqueueInstr,
           QP!IInv, QP!TypeOK, QP!Waiting, QP!Slots, QP!Element, QP!RingNext, QP!EnqueueInstr
  <1>2. QP!Window!Fill(w) /\ QP!IInv'
    BY <1>1, QP!RefinesEnqueueInstr, QP!NextInvariant DEF QP!Next
  <1>3. Q!IInv'
    BY <1>2 DEF QP!IInv, QP!TypeOK, QP!Waiting, QP!Slots, QP!Element, QP!RingNext,
                Q!IInv, Q!TypeOK, Q!Waiting, Q!Slots, Q!Element, Q!RingNext
  <1>4. QED
    BY <1>2, <1>3 DEF QP!Window!Fill, QP!PrintQueue, QP!PrintElement, QP!RingSlot,
                      Q!PrintQueue, Q!PrintElement, Q!RingSlot

-----------------------------------------------------------------------------
\* The lines of a dump.

\* A new instruction enters at the end and the others move up.
LEMMA LinesAppend ==
    ASSUME NEW S, NEW s \in Seq(S), NEW x \in S
    PROVE  Lines(Append(s, x)) = [k \in 1 .. NR_INSTR |->
                                    IF k = NR_INSTR THEN x ELSE Lines(s)[k + 1]]
  <1>1. /\ Len(Append(s, x)) = Len(s) + 1 /\ Len(s) \in Nat
        /\ \A j \in 1 .. Len(s) : Append(s, x)[j] = s[j]
        /\ Append(s, x)[Len(s) + 1] = x
    OBVIOUS
  <1>2. ASSUME NEW k \in 1 .. NR_INSTR
        PROVE  (LET j == Len(Append(s, x)) - NR_INSTR + k
                IN  IF j < 1 THEN <<0, "xxxxxxxx">> ELSE Append(s, x)[j])
                 = IF k = NR_INSTR THEN x ELSE Lines(s)[k + 1]
    <2>1. CASE k = NR_INSTR
      <3>1. Len(Append(s, x)) - NR_INSTR + k = Len(s) + 1 /\ ~(Len(s) + 1 < 1)
        BY <1>1, <2>1
      <3>2. QED
        BY <1>1, <2>1, <3>1
    <2>2. CASE k # NR_INSTR
      <3>1. k + 1 \in 1 .. NR_INSTR
        BY <2>2
      <3>2. Lines(s)[k + 1] = LET j == Len(s) - NR_INSTR + (k + 1)
                              IN  IF j < 1 THEN <<0, "xxxxxxxx">> ELSE s[j]
        BY <3>1 DEF Lines
      <3>3. Len(Append(s, x)) - NR_INSTR + k = Len(s) - NR_INSTR + (k + 1)
        BY <1>1
      <3>4. Len(s) - NR_INSTR + (k + 1) \in Int /\ Len(s) - NR_INSTR + (k + 1) <= Len(s)
        BY <1>1, <3>1
      <3>5. QED
        BY <1>1, <2>2, <3>2, <3>3, <3>4
    <2>3. QED
      BY <2>1, <2>2
  <1>3. QED
    BY <1>2 DEF Lines

\* The word of the newest instruction is filled in.
LEMMA LinesFill ==
    ASSUME NEW S, NEW s \in Seq(S), NEW x \in S, NEW y \in S
    PROVE  Lines(Append(s, y)) = [Lines(Append(s, x)) EXCEPT ![NR_INSTR] = y]
  <1>1. Lines(Append(s, x)) = [k \in 1 .. NR_INSTR |->
                                 IF k = NR_INSTR THEN x ELSE Lines(s)[k + 1]]
    BY LinesAppend
  <1>2. Lines(Append(s, y)) = [k \in 1 .. NR_INSTR |->
                                 IF k = NR_INSTR THEN y ELSE Lines(s)[k + 1]]
    BY LinesAppend
  <1>3. QED
    BY <1>1, <1>2

\* What is older than NR_INSTR instructions is not shown.
LEMMA LinesLastOf ==
    ASSUME NEW S, NEW s \in Seq(S)
    PROVE  /\ LastOf(s) \in Seq(S) /\ Len(LastOf(s)) <= NR_INSTR
           /\ Lines(LastOf(s)) = Lines(s)
  <1>1. Len(s) \in Nat
    OBVIOUS
  <1>2. CASE Len(s) <= NR_INSTR
    BY <1>2 DEF LastOf
  <1>3. CASE Len(s) > NR_INSTR
    <2> DEFINE d == Len(s) - NR_INSTR
    <2>1. d \in Nat /\ d + 1 \in 1 .. Len(s) /\ Len(s) - (d + 1) + 1 = NR_INSTR
      BY <1>1, <1>3
    <2>2. LastOf(s) = SubSeq(s, d + 1, Len(s))
      BY <1>1, <1>3 DEF LastOf
    <2>3. /\ LastOf(s) \in Seq(S) /\ Len(LastOf(s)) = NR_INSTR
          /\ \A k \in 1 .. NR_INSTR : LastOf(s)[k] = s[d + k]
      <3>1. d + 1 \in Int /\ Len(s) \in Int /\ \A i \in (d + 1) .. Len(s) : s[i] \in S
        BY <2>1
      <3>2. /\ SubSeq(s, d + 1, Len(s)) \in Seq(S)
            /\ Len(SubSeq(s, d + 1, Len(s))) = NR_INSTR
            /\ \A k \in 1 .. Len(s) - (d + 1) + 1 :
                  SubSeq(s, d + 1, Len(s))[k] = s[(d + 1) + k - 1]
        BY <2>1, <3>1, SubSeqProperties
      <3>3. \A k \in 1 .. NR_INSTR : (d + 1) + k - 1 = d + k
        BY <2>1
      <3>4. QED
        BY <2>1, <2>2, <3>2, <3>3
    <2>4. ASSUME NEW k \in 1 .. NR_INSTR
          PROVE  Lines(LastOf(s))[k] = Lines(s)[k]
      <3>1. Len(LastOf(s)) - NR_INSTR + k = k /\ ~(k < 1) /\ ~(d + k < 1)
        BY <2>1, <2>3
      <3>2. QED
        BY <2>3, <3>1 DEF Lines
    <2>5. QED
      BY <2>3, <2>4 DEF Lines
  <1>4. QED
    BY <1>1, <1>2, <1>3

-----------------------------------------------------------------------------
\* The arithmetic of the counters and of cpu.pc.
LEMMA ModuloRange ==
    ASSUME NEW a \in Nat, NEW b \in Nat \ {0}
    PROVE  a % b \in 0 .. b - 1
  BY SMT

LEMMA NextPcRange ==
    ASSUME NEW a \in Pcs
    PROVE  (a + 4) % PC_SPACE \in Pcs
  <1>1. a + 4 \in Nat /\ PC_SPACE \in Nat \ {0}
    BY DEF Pcs
  <1>2. QED
    BY <1>1, ModuloRange DEF Pcs

-----------------------------------------------------------------------------
\* Type correctness.
LEMMA TypeInit == Init => TypeOK /\ PhaseOK
  <1> SUFFICES ASSUME Init PROVE TypeOK /\ PhaseOK
    OBVIOUS
  <1>1. Q!IInv
    BY QueueInit DEF Init
  <1>2. <<>> \in Seq(Pcs \X Words) /\ Len(<<>>) = 0
    OBVIOUS
  <1>3. /\ 0 \in 0 .. NINSTR_SPACE - 1 /\ 0 \in 0 .. MaxDepth + 1 /\ 0 <= NR_INSTR
        /\ asm_buf_p \in {Null} \cup 0 .. AsmCap
        /\ -1 \in -1 .. 2
    BY DEF Init
  <1>4. pc \in Pcs /\ opts \in OptionSets
    BY DEF Init
  <1>5. TypeOK
    BY <1>1, <1>2, <1>3, <1>4 DEF Init, TypeOK, Phases
  <1>6. PhaseOK
    BY DEF Init, PhaseOK, Looping
  <1>7. QED
    BY <1>5, <1>6

\* The handler that ran to its end enters the trace.
LEMMA CompletedType ==
    ASSUME TypeOK, Completed, inst \in Words
    PROVE  /\ executed' \in 0 .. NINSTR_SPACE - 1
           /\ trace' \in Seq(Pcs \X Words) /\ Len(trace') <= NR_INSTR
  <1>1. executed + 1 \in Nat
    BY DEF TypeOK
  <1>2. Append(trace, <<pc, inst>>) \in Seq(Pcs \X Words)
    BY DEF TypeOK
  <1>3. QED
    BY <1>1, <1>2, ModuloRange, LinesLastOf DEF Completed

\* A handler that returns to cpu_exec.
LEMMA HandlerType ==
    ASSUME TypeOK, PhaseOK, inst \in Words, Completed, n # 0, depth = 0,
           UNCHANGED <<opts, n, inst, queueVars, ninstr, depth>>,
           pc' \in Pcs, nemu_state' \in {"STOP", "RUNNING", "END"}, ended' \in BOOLEAN,
           asm_buf_p' \in {Null} \cup 0 .. AsmCap,
           phase' \in {"commit", "segv", "overrun"}
    PROVE  TypeOK' /\ PhaseOK'
  <1>1. Q!IInv'
    BY QueueStutter DEF TypeOK
  <1>2. executed' \in 0 .. NINSTR_SPACE - 1 /\ trace' \in Seq(Pcs \X Words)
        /\ Len(trace') <= NR_INSTR
    BY CompletedType
  <1>3. QED
    BY <1>1, <1>2 DEF Completed, TypeOK, PhaseOK, Phases, Looping, Dead

LEMMA HandlersType ==
    ASSUME TypeOK, PhaseOK, ExecPlain \/ ExecJump \/ ExecInv \/ ExecTrap
    PROVE  TypeOK' /\ PhaseOK'
  <1>1. phase = "exec"
    BY DEF ExecPlain, ExecJump, ExecInv, ExecTrap
  <1>2. /\ n # 0 /\ depth = 0 /\ pc \in Pcs /\ ended \in BOOLEAN
        /\ nemu_state \in {"STOP", "RUNNING", "END"}
    BY <1>1 DEF TypeOK, PhaseOK, Looping
  <1>3. CASE ExecPlain
    <2>1. inst \in Words /\ pc' \in Pcs /\ ended' \in BOOLEAN
          /\ nemu_state' \in {"STOP", "RUNNING", "END"}
      BY <1>2, <1>3 DEF ExecPlain, Words
    <2>2. asm_buf_p' \in {Null} \cup 0 .. AsmCap /\ phase' \in {"commit", "segv", "overrun"}
      BY <1>3 DEF ExecPlain, TypeOK, TraceAppend, Null
    <2>3. QED
      BY <1>2, <1>3, <2>1, <2>2, HandlerType DEF ExecPlain
  <1>4. CASE ExecJump
    <2>1. inst \in Words /\ pc' \in Pcs /\ ended' \in BOOLEAN
          /\ nemu_state' \in {"STOP", "RUNNING", "END"}
      BY <1>2, <1>4 DEF ExecJump, Words
    <2>2. asm_buf_p' \in {Null} \cup 0 .. AsmCap /\ phase' \in {"commit", "segv", "overrun"}
      BY <1>4 DEF ExecJump, TypeOK, TraceAppend, Null
    <2>3. QED
      BY <1>2, <1>4, <2>1, <2>2, HandlerType DEF ExecJump
  <1>5. CASE ExecInv
    <2>1. inst \in Words /\ pc' \in Pcs /\ ended' \in BOOLEAN
          /\ nemu_state' \in {"STOP", "RUNNING", "END"}
      BY <1>2, <1>5 DEF ExecInv, Words
    <2>2. asm_buf_p' \in {Null} \cup 0 .. AsmCap
      BY <1>5 DEF ExecInv, TypeOK
    <2>3. QED
      BY <1>2, <1>5, <2>1, <2>2, HandlerType DEF ExecInv
  <1>6. CASE ExecTrap
    <2>1. inst \in Words /\ pc' \in Pcs /\ ended' \in BOOLEAN
          /\ nemu_state' \in {"STOP", "RUNNING", "END"}
      BY <1>2, <1>6 DEF ExecTrap, Words
    <2>2. CASE Batch /\ phase' = "exited"
                    /\ UNCHANGED <<asm_buf_p, executed, trace, late, revoked>>
      <3>1. Q!IInv'
        BY <1>6, QueueStutter DEF ExecTrap, TypeOK
      <3>2. QED
        BY <1>6, <2>1, <2>2, <3>1 DEF ExecTrap, TypeOK, PhaseOK, Phases, Looping, Dead
    <2>3. CASE TraceAppend("commit") /\ Completed
      <3>1. asm_buf_p' \in {Null} \cup 0 .. AsmCap /\ phase' \in {"commit", "segv", "overrun"}
        BY <2>3 DEF TypeOK, TraceAppend, Null
      <3>2. QED
        BY <1>2, <1>6, <2>1, <2>3, <3>1, HandlerType DEF ExecTrap
    <2>4. QED
      BY <1>6, <2>2, <2>3 DEF ExecTrap
  <1>7. QED
    BY <1>3, <1>4, <1>5, <1>6

LEMMA DumpRanges ==
    ASSUME Dump, ninstr \in 0 .. NINSTR_SPACE - 1, depth \in 0 .. MaxDepth + 1
    PROVE  /\ phase' \in {"aborted", "dump", "stack"} /\ depth' \in 0 .. MaxDepth + 1
           /\ ninstr' \in 0 .. NINSTR_SPACE - 1
  <1>1. ninstr + 1 \in Nat /\ NINSTR_SPACE \in Nat \ {0}
    BY CpuExecAssumption
  <1>2. (ninstr + 1) % NINSTR_SPACE \in 0 .. NINSTR_SPACE - 1
    BY <1>1, ModuloRange, Zenon
  <1>3. QED
    BY <1>2, CpuExecAssumption DEF Dump, PrintRegisters, FailAssert

LEMMA TypeNext == TypeOK /\ PhaseOK /\ [Next]_vars => TypeOK' /\ PhaseOK'
  <1> SUFFICES ASSUME TypeOK, PhaseOK, [Next]_vars PROVE TypeOK' /\ PhaseOK'
    OBVIOUS
  <1> USE DEF TypeOK, PhaseOK, Phases, Looping, Dead
  <1>1. ASSUME UNCHANGED queueVars PROVE Q!IInv' /\ fetching' = fetching
    BY <1>1, QueueStutter DEF queueVars
  <1>2. ASSUME NEW k \in Budgets, CallCpuExec(k) PROVE TypeOK' /\ PhaseOK'
    BY <1>1, <1>2 DEF CallCpuExec, history
  <1>3. CASE Sigint
    BY <1>1, <1>3 DEF Sigint, Batch
  <1>4. CASE Enter
    BY <1>1, <1>4 DEF Enter
  <1>5. CASE LoopDone
    BY <1>1, <1>5 DEF LoopDone
  <1>6. CASE BeginInstr
    <2>1. Q!IInv' /\ fetching'
      BY <1>6, QueueEnqueuePc DEF BeginInstr
    <2>2. asm_buf_p' \in {Null} \cup 0 .. AsmCap /\ phase' \in {"align", "segv", "overrun"}
      BY <1>6 DEF BeginInstr, TraceAppend, Null
    <2>3. QED
      BY <1>6, <2>1, <2>2 DEF BeginInstr
  <1>7. CASE CheckAligned
    BY <1>1, <1>7 DEF CheckAligned, history
  <1>8. ASSUME NEW word \in Words, Fetch(word) PROVE TypeOK' /\ PhaseOK'
    <2>1. Q!IInv' /\ ~fetching'
      BY <1>8, QueueEnqueueInstr DEF Fetch
    <2>2. asm_buf_p' \in {Null} \cup 0 .. AsmCap /\ phase' \in {"exec", "overrun"}
      BY <1>8 DEF Fetch
    <2>3. QED
      BY <1>8, <2>1, <2>2 DEF Fetch, history
  <1>9. CASE FetchFails
    BY <1>1, <1>9 DEF FetchFails, FailAssert, history
  <1>10. CASE ExecPlain \/ ExecJump \/ ExecInv \/ ExecTrap
    BY <1>10, HandlersType
  <1>15. CASE ExecFault
    BY <1>1, <1>15 DEF ExecFault, FailAssert, history
  <1>16. CASE ExecDie
    BY <1>1, <1>16 DEF ExecDie, history
  <1>17. ninstr + 1 \in Nat /\ (ninstr + 1) % NINSTR_SPACE \in 0 .. NINSTR_SPACE - 1
    <2>1. ninstr + 1 \in Nat /\ NINSTR_SPACE \in Nat \ {0}
      BY CpuExecAssumption
    <2>2. QED
      BY <2>1, ModuloRange, Zenon
  <1>18. CASE Commit
    <2>1. (pc + 4) % PC_SPACE \in Pcs
      BY NextPcRange
    <2>2. ninstr' \in 0 .. NINSTR_SPACE - 1
      BY <1>17, <1>18 DEF Commit, PrintRegisters
    <2>3. QED
      BY <1>1, <1>18, <2>1, <2>2 DEF Commit, history
  <1>19. CASE CheckState
    BY <1>1, <1>19 DEF CheckState, Forever
  <1>20. CASE Dump
    <2>1. /\ phase' \in {"aborted", "dump", "stack"} /\ depth' \in 0 .. MaxDepth + 1
          /\ ninstr' \in 0 .. NINSTR_SPACE - 1
      BY <1>20, DumpRanges
    <2>2. Q!IInv' /\ fetching' = fetching
      BY <1>1, <1>20 DEF Dump
    <2>3. QED
      BY <1>20, <2>1, <2>2 DEF Dump, history
  <1>21. CASE UNCHANGED vars
    BY <1>1, <1>21 DEF vars, history
  <1>22. QED
    BY <1>2, <1>3, <1>4, <1>5, <1>6, <1>7, <1>8, <1>9, <1>10, <1>15,
       <1>16, <1>18, <1>19, <1>20, <1>21 DEF Next, HostStep

\* Every variable stays in its range, the pointers and the waiting element of
\* the instruction queue agree, and cpu.pc is an address (cpu-exec.c:160-195).
THEOREM TypeCorrect == Spec => []TypeOK
  BY TypeInit, TypeNext, PTL DEF Spec

LEMMA TypeAndPhase == Spec => [](TypeOK /\ PhaseOK)
  BY TypeInit, TypeNext, PTL DEF Spec

-----------------------------------------------------------------------------
\* Ctrl-C and the end of the program.
LEMMA StopSeenNext ==
    ASSUME TypeOK, StopSeen, [Next]_vars
    PROVE  StopSeen'
  <1> USE DEF StopSeen
  <1>1. late \in -1 .. 2
    BY DEF TypeOK
  <1>2. ASSUME NEW k \in Budgets, CallCpuExec(k) PROVE StopSeen'
    BY <1>2 DEF CallCpuExec, history
  <1>3. CASE Sigint
    BY <1>1, <1>3 DEF Sigint, Looping, Dead
  <1>4. CASE Enter
    BY <1>4 DEF Enter
  <1>5. CASE LoopDone
    BY <1>5 DEF LoopDone
  <1>6. CASE BeginInstr
    BY <1>1, <1>6 DEF BeginInstr, TraceAppend
  <1>7. CASE CheckAligned
    BY <1>7 DEF CheckAligned, history
  <1>8. ASSUME NEW word \in Words, Fetch(word) PROVE StopSeen'
    BY <1>8 DEF Fetch, history
  <1>9. CASE FetchFails
    BY <1>9 DEF FetchFails, FailAssert, history
  <1>10. CASE ExecPlain \/ ExecJump \/ ExecInv \/ ExecTrap
    BY <1>10 DEF ExecPlain, ExecJump, ExecInv, ExecTrap, Completed, TraceAppend
  <1>11. CASE ExecFault \/ ExecDie
    BY <1>11 DEF ExecFault, ExecDie, FailAssert, history
  <1>12. CASE Commit
    BY <1>12 DEF Commit, history
  <1>13. CASE CheckState
    BY <1>13 DEF CheckState
  <1>14. CASE Dump
    BY <1>14 DEF Dump, FailAssert, history
  <1>15. CASE UNCHANGED vars
    BY <1>15 DEF vars, history
  <1>16. QED
    BY <1>2, <1>3, <1>4, <1>5, <1>6, <1>7, <1>8, <1>9, <1>10, <1>11, <1>12, <1>13, <1>14,
       <1>15 DEF Next, HostStep

\* Wherever in the loop SIGINT is taken, at most one more instruction is begun
\* before cpu_exec returns (cpu-exec.c:195).
THEOREM Prompt == Spec => []SigintPrompt
  <1>1. Init => StopSeen
    BY DEF Init, StopSeen
  <1>2. TypeOK /\ StopSeen => SigintPrompt
    BY DEF TypeOK, StopSeen, SigintPrompt
  <1>3. TypeOK /\ StopSeen /\ [Next]_vars => StopSeen'
    BY StopSeenNext
  <1>4. QED
    BY <1>1, <1>2, <1>3, TypeCorrect, PTL DEF Spec

-----------------------------------------------------------------------------
\* A call of cpu_exec ends.
CallInv == TypeOK /\ PhaseOK /\ StopSeen

LEMMA DistanceRange ==
    ASSUME CallInv, Ending
    PROVE  /\ phase \in Looping \cup {"enter"} => /\ Left \in Nat
                                                  /\ Distance = Stack + 6 * Left - Passed
           /\ phase \in Looping \ {"loop"} => Left >= 1
           /\ phase = "dump" => Distance = Stack - depth
           /\ depth \in 0 .. MaxDepth + 1 /\ Stack = MaxDepth + 2
           /\ phase \in {"enter", "dump"} \cup Looping
  <1>1. /\ n \in Nat \cup {Forever} /\ late \in -1 .. 2 /\ depth \in 0 .. MaxDepth + 1
        /\ phase \in Phases
    BY DEF CallInv, TypeOK
  <1>2. phase \in {"enter", "dump"} \cup Looping
    BY <1>1 DEF Ending, Phases
  <1>3. /\ phase = "enter" => late < 0
        /\ phase \in Looping \ {"loop"} => n # 0
    BY <1>1 DEF CallInv, PhaseOK, StopSeen
  <1>4. phase \in Looping \cup {"enter"} => Left \in Nat /\ n \in Nat \cup {Forever}
    BY <1>1, <1>3 DEF Ending, Left, Forever, Looping
  <1>5. phase \in Looping \ {"loop"} => Left >= 1
    BY <1>1, <1>3, <1>4 DEF Left, Forever, Looping
  <1>6. phase = "dump" => phase \notin Looping \cup {"enter"}
    BY DEF Looping
  <1>7. QED
    BY <1>1, <1>2, <1>4, <1>5, <1>6 DEF Distance, Stack

\* A step from one place of an iteration to the next.
LEMMA NextPlace ==
    ASSUME CallInv, Ending, phase \in Looping, phase' \in Looping,
           Left' = Left, Passed' = Passed + 1, Passed \in 0 .. 4, Left >= 1, n' = n, late >= 0 => late' >= 0
    PROVE  Advance
  <1>1. Distance = Stack + 6 * Left - Passed /\ Left \in Nat /\ Stack \in Nat
    BY DistanceRange, CpuExecAssumption
  <1>2. Distance' = Stack + 6 * Left - (Passed + 1)
    BY DEF Distance, Stack
  <1>3. Ending'
    BY DEF Ending, Looping, Dead
  <1>4. QED
    BY <1>1, <1>2, <1>3 DEF Advance

\* The process is gone, or cpu_exec has returned.
LEMMA CallOver ==
    ASSUME CallInv, Ending, phase' \in {"idle"} \cup Dead
    PROVE  Advance
  <1>1. Distance' = 0
    BY DEF Distance, Looping, Dead
  <1>2. Distance \in Nat \ {0}
    <2>1. MaxDepth \in Nat
      BY CpuExecAssumption
    <2>2. phase \in Looping \cup {"enter"} => Passed \in -1 .. 5 /\ Stack + 6 * Left - Passed > 0
      BY <2>1, DistanceRange DEF Passed, Looping
    <2>3. QED
      BY <2>1, <2>2, DistanceRange
  <1>3. QED
    BY <1>1, <1>2 DEF Advance

\* A failing CPUAssert: no iteration follows.
LEMMA ToDump ==
    ASSUME CallInv, Ending, phase \in {"fetch", "exec"}, FailAssert
    PROVE  Advance
  <1>1. /\ Distance = Stack + 6 * Left - Passed /\ Left \in Nat /\ Left >= 1
        /\ Stack = MaxDepth + 2 /\ MaxDepth \in Nat /\ Passed \in 2 .. 3 /\ depth = 0
    BY DistanceRange, CpuExecAssumption DEF Passed, Looping, CallInv, PhaseOK
  <1>2. Distance' = Stack - 1
    BY <1>1 DEF Distance, FailAssert, Looping, Stack
  <1>3. Ending'
    BY DEF Ending, FailAssert, Dead
  <1>4. QED
    BY <1>1, <1>2, <1>3 DEF Advance

LEMMA InnerStep ==
    ASSUME CallInv, Ending, n' = n, late' = late,
           \/ phase = "align" /\ phase' = "fetch"
           \/ phase = "fetch" /\ phase' = "exec"
           \/ phase = "exec" /\ phase' = "commit"
           \/ phase = "commit" /\ phase' = "check"
    PROVE  Advance
  <1>1. phase \in Looping \ {"loop"} /\ phase \in Looping /\ phase' \in Looping
    BY DEF Looping
  <1>2. Passed' = Passed + 1 /\ Passed \in 0 .. 4
    BY DEF Passed
  <1>3. Left' = Left /\ Left >= 1
    BY <1>1, DistanceRange DEF Left
  <1>4. QED
    BY <1>1, <1>2, <1>3, NextPlace

LEMMA SigintAdvances ==
    ASSUME CallInv, Ending, Sigint
    PROVE  Advance
  <1>1. /\ n \in Nat \cup {Forever} /\ late \in -1 .. 2 /\ depth \in 0 .. MaxDepth + 1
        /\ MaxDepth \in Nat
    BY CpuExecAssumption DEF CallInv, TypeOK
  <1>2. CASE Batch
    <2>1. phase' \in {"idle"} \cup Dead
      BY <1>2 DEF Sigint, Dead
    <2>2. QED
      BY <2>1, CallOver
  <1>3. CASE ~Batch
    <2>1. /\ UNCHANGED <<pc, phase, n, inst, queueVars, depth>>
          /\ late' = late \/ (late < 0 /\ late' = 0)
      BY <1>3 DEF Sigint
    <2>2. Ending'
      BY <1>1, <2>1 DEF Ending
    <2>3. phase \in Looping \cup {"enter"} => Left \in Nat /\ Left' \in Nat /\ Left' <= Left
      <3>1. phase \in Looping \cup {"enter"} => Left \in Nat /\ phase # "dump"
        BY DistanceRange DEF Looping
      <3>2. CASE late' = late
        BY <2>1, <3>1, <3>2 DEF Left
      <3>3. CASE late < 0 /\ late' = 0
        <4>1. phase \in Looping \cup {"enter"} => n \in Nat
          BY <1>1, <3>1, <3>3 DEF Ending
        <4>2. Left = n /\ Left' = IF n # 0 THEN 1 ELSE n
          BY <1>1, <2>1, <3>3 DEF Left
        <4>3. QED
          BY <4>1, <4>2
      <3>4. QED
        BY <2>1, <3>2, <3>3
    <2>4. Passed' = Passed
      BY <2>1 DEF Passed
    <2>5. CASE phase \in Looping \cup {"enter"}
      <3>1. Distance = Stack + 6 * Left - Passed /\ Distance' = Stack + 6 * Left' - Passed
        BY <2>1, <2>4, <2>5 DEF Distance, Stack
      <3>2. Passed \in -1 .. 5 /\ (phase = "loop" \/ phase = "enter" => Passed <= 0)
        BY <2>5 DEF Passed, Looping
      <3>3. Stack \in Nat /\ Stack >= 2
        BY <1>1 DEF Stack
      <3>4. Left' >= 1 \/ Passed <= 0
        <4>1. phase \in Looping \ {"loop"} => Left >= 1
          BY DistanceRange
        <4>2. Left' >= 1 \/ n = 0 \/ Left' = Left
          BY <2>1, <2>3, <2>5 DEF Left
        <4>3. phase \in Looping \ {"loop"} => n # 0
          BY DEF CallInv, PhaseOK
        <4>4. QED
          BY <2>5, <3>2, <4>1, <4>2, <4>3
      <3>5. Distance' \in 0 .. Distance
        BY <2>3, <2>5, <3>1, <3>2, <3>3, <3>4
      <3>6. QED
        BY <2>1, <2>2, <3>5 DEF Advance
    <2>6. CASE phase \notin Looping \cup {"enter"}
      <3>1. Distance' = Distance /\ Distance \in Nat
        BY <1>1, <2>1, <2>6 DEF Distance, Stack
      <3>2. QED
        BY <2>1, <2>2, <3>1 DEF Advance
    <2>7. QED
      BY <2>5, <2>6
  <1>4. QED
    BY <1>2, <1>3

LEMMA EnterAdvances ==
    ASSUME CallInv, Ending, Enter
    PROVE  Advance
  <1>1. Left \in Nat /\ Distance = Stack + 6 * Left + 1 /\ Stack \in Nat
    BY DistanceRange, CpuExecAssumption DEF Enter, Passed
  <1>2. n # Forever /\ Left = n
    <2>1. late < 0 /\ late \in -1 .. 2
      BY DEF Enter, CallInv, StopSeen, TypeOK
    <2>2. QED
      BY <2>1 DEF Enter, Ending, Left
  <1>3. phase' = "loop" /\ n' = n /\ late' = -1
    BY DEF Enter
  <1>4. Left' = n /\ Passed' = 0 /\ Ending'
    BY <1>2, <1>3 DEF Left, Passed, Ending, Dead
  <1>5. Distance' = Stack + 6 * n - 0
    BY <1>3, <1>4 DEF Distance, Looping, Stack
  <1>6. QED
    BY <1>1, <1>2, <1>4, <1>5 DEF Advance

LEMMA BeginAdvances ==
    ASSUME CallInv, Ending, BeginInstr
    PROVE  Advance
  <1>1. CASE phase' \in Dead
    BY <1>1, CallOver
  <1>2. CASE phase' = "align"
    <2>1. /\ phase = "loop" /\ n # 0 /\ n' = n /\ late \in -1 .. 2
          /\ late' = IF late \in {0, 1} THEN late + 1 ELSE late
      BY DEF BeginInstr, CallInv, TypeOK
    <2>2. Passed = 0 /\ Passed' = 1 /\ phase \in Looping /\ phase' \in Looping
      BY <1>2, <2>1 DEF Passed, Looping
    <2>3. late >= 0 <=> late' >= 0
      BY <2>1
    <2>4. Left' = Left
      BY <2>1, <2>3 DEF Left
    <2>5. Left >= 1
      <3>1. Left \in Nat
        BY <2>2, DistanceRange
      <3>2. QED
        BY <2>1, <3>1 DEF Left
    <2>6. QED
      BY <2>1, <2>2, <2>3, <2>4, <2>5, NextPlace
  <1>3. QED
    BY <1>1, <1>2 DEF BeginInstr, TraceAppend, Dead

LEMMA CheckAdvances ==
    ASSUME CallInv, Ending, CheckState
    PROVE  Advance
  <1>1. CASE phase' = "idle"
    BY <1>1, CallOver
  <1>2. CASE phase' = "loop"
    <2>1. /\ phase = "check" /\ nemu_state = "RUNNING" /\ late' = late
          /\ n' = IF n = Forever THEN Forever ELSE n - 1
      BY <1>2 DEF CheckState
    <2>2. late < 0
      BY <2>1 DEF CallInv, StopSeen, TypeOK
    <2>3. n \in Nat /\ n # 0 /\ n # Forever /\ Left = n
      BY <2>1, <2>2 DEF CallInv, TypeOK, PhaseOK, Looping, Ending, Left
    <2>4. n' = n - 1 /\ Left' = n - 1 /\ n' # Forever
      BY <2>1, <2>2, <2>3 DEF Left, Forever
    <2>5. Distance = Stack + 6 * n - 5 /\ Stack \in Nat
      BY <2>1, <2>3, DistanceRange, CpuExecAssumption DEF Passed, Looping
    <2>6. Distance' = Stack + 6 * (n - 1) - 0
      BY <1>2, <2>4 DEF Distance, Looping, Passed, Stack
    <2>7. Ending'
      BY <1>2, <2>4 DEF Ending, Dead
    <2>8. QED
      BY <2>3, <2>5, <2>6, <2>7 DEF Advance
  <1>3. QED
    BY <1>1, <1>2 DEF CheckState

LEMMA DumpAdvances ==
    ASSUME CallInv, Ending, Dump
    PROVE  Advance
  <1>1. CASE phase' \in Dead
    BY <1>1, CallOver
  <1>2. CASE FailAssert /\ depth < MaxDepth
    <2>1. Distance = Stack - depth /\ Stack = MaxDepth + 2 /\ MaxDepth \in Nat /\ depth \in Nat
      BY DistanceRange, CpuExecAssumption DEF Dump
    <2>2. Distance' = Stack - (depth + 1)
      BY <1>2 DEF Distance, FailAssert, Looping, Stack
    <2>3. Ending'
      BY <1>2 DEF Ending, FailAssert, Dead
    <2>4. QED
      BY <1>2, <2>1, <2>2, <2>3 DEF Advance
  <1>3. QED
    BY <1>1, <1>2 DEF Dump, Dead

LEMMA ExecAdvances ==
    ASSUME CallInv, Ending, ExecPlain \/ ExecJump \/ ExecInv \/ ExecTrap
    PROVE  Advance
  <1>1. phase' \in Dead \cup {"commit"} /\ phase = "exec" /\ n' = n /\ late' = late
    BY DEF ExecPlain, ExecJump, ExecInv, ExecTrap, TraceAppend, Completed, Dead
  <1>2. CASE phase' \in Dead
    BY <1>2, CallOver
  <1>3. CASE phase' = "commit"
    BY <1>1, <1>3, InnerStep
  <1>4. QED
    BY <1>1, <1>2, <1>3

LEMMA AdvanceNext ==
    ASSUME CallInv, [Next]_vars
    PROVE  [Ending => Advance]_vars
  <1> SUFFICES ASSUME Ending, Next PROVE Advance
    OBVIOUS
  <1>1. phase' \in Dead => Advance
    BY CallOver
  <1>2. ASSUME NEW k \in Budgets, CallCpuExec(k) PROVE Advance
    BY <1>2 DEF CallCpuExec, Ending
  <1>3. CASE LoopDone
    BY <1>3, CallOver DEF LoopDone
  <1>4. CASE CheckAligned
    BY <1>1, <1>4, InnerStep DEF CheckAligned, history, Dead
  <1>5. ASSUME NEW word \in Words, Fetch(word) PROVE Advance
    BY <1>1, <1>5, InnerStep DEF Fetch, history, Dead
  <1>6. CASE FetchFails \/ ExecFault
    BY <1>6, ToDump DEF FetchFails, ExecFault
  <1>7. CASE ExecDie
    BY <1>1, <1>7 DEF ExecDie, Dead
  <1>8. CASE Commit
    BY <1>8, InnerStep DEF Commit, history
  <1>9. QED
    BY <1>2, <1>3, <1>4, <1>5, <1>6, <1>7, <1>8, SigintAdvances, EnterAdvances,
       BeginAdvances, ExecAdvances, CheckAdvances, DumpAdvances DEF Next, HostStep

\* Each step of a call of cpu_exec that is given a number of instructions, or
\* that a SIGINT is to end, takes it nearer to its end, and a SIGINT does not
\* take it farther away, for every number of instructions and every program
\* (cpu-exec.c:164-198).
THEOREM Advances == Spec => CallAdvances
  <1>1. Init => StopSeen
    BY DEF Init, StopSeen
  <1>2. TypeOK /\ StopSeen /\ [Next]_vars => StopSeen'
    BY StopSeenNext
  <1>3. TypeOK /\ PhaseOK /\ StopSeen => CallInv
    BY DEF CallInv
  <1>4. CallInv /\ [Next]_vars => [Ending => Advance]_vars
    BY AdvanceNext
  <1>5. QED
    BY <1>1, <1>2, <1>3, <1>4, TypeAndPhase, PTL DEF Spec, CallAdvances

-----------------------------------------------------------------------------
LEMMA EndSeenNext ==
    ASSUME TypeOK, EndSeen, [Next]_vars
    PROVE  EndSeen'
  <1> USE DEF EndSeen, Dead
  <1>1. ended \in BOOLEAN /\ revoked \in BOOLEAN
    BY DEF TypeOK
  <1>2. ASSUME NEW k \in Budgets, CallCpuExec(k) PROVE EndSeen'
    BY <1>2 DEF CallCpuExec, history
  <1>3. CASE Sigint
    <2>1. ended' = ended /\ (revoked' = (revoked \/ ended) \/ (revoked' = revoked /\ phase' = "killed"
                                                             /\ nemu_state' = nemu_state))
      BY <1>3 DEF Sigint
    <2>2. CASE revoked' = (revoked \/ ended)
      BY <2>1, <2>2, Zenon
    <2>3. CASE revoked' = revoked /\ phase' = "killed" /\ nemu_state' = nemu_state
      BY <2>1, <2>3
    <2>4. QED
      BY <2>1, <2>2, <2>3
  <1>4. CASE Enter \/ LoopDone
    BY <1>4 DEF Enter, LoopDone
  <1>5. CASE BeginInstr
    BY <1>5 DEF BeginInstr, TraceAppend
  <1>6. CASE CheckAligned \/ FetchFails
    BY <1>6 DEF CheckAligned, FetchFails, FailAssert, history
  <1>7. ASSUME NEW word \in Words, Fetch(word) PROVE EndSeen'
    BY <1>7 DEF Fetch, history
  <1>8. CASE ExecPlain \/ ExecJump \/ ExecInv \/ ExecTrap
    BY <1>8 DEF ExecPlain, ExecJump, ExecInv, ExecTrap, Completed, TraceAppend
  <1>9. CASE ExecFault \/ ExecDie
    BY <1>9 DEF ExecFault, ExecDie, FailAssert, history
  <1>10. CASE Commit
    BY <1>10 DEF Commit, history
  <1>11. CASE CheckState
    BY <1>11 DEF CheckState
  <1>12. CASE Dump
    BY <1>12 DEF Dump, FailAssert, history
  <1>13. CASE UNCHANGED vars
    BY <1>13 DEF vars, history
  <1>14. QED
    BY <1>2, <1>3, <1>4, <1>5, <1>6, <1>7, <1>8, <1>9, <1>10, <1>11, <1>12, <1>13
       DEF Next, HostStep

\* After an invalid opcode or the GPIO trap no instruction is fetched, in this
\* call or a later one, unless a SIGINT came in between (cpu-exec.c:157, 195).
THEOREM Final == Spec => []EndIsFinal
  <1>1. Init => EndSeen
    BY DEF Init, EndSeen
  <1>2. EndSeen => EndIsFinal
    BY DEF EndSeen, EndIsFinal, Dead
  <1>3. TypeOK /\ EndSeen /\ [Next]_vars => EndSeen'
    BY EndSeenNext
  <1>4. QED
    BY <1>1, <1>2, <1>3, TypeCorrect, PTL DEF Spec

-----------------------------------------------------------------------------
\* The log and the text of the tracer.
LEMMA LogExactNext ==
    ASSUME LogExact, [Next]_vars
    PROVE  LogExact'
  <1> SUFFICES ASSUME work_mode' = MODE_LOG PROVE Logged'
    BY DEF LogExact
  <1>1. opts' = opts
    BY DEF Next, HostStep, vars, history, CallCpuExec, Enter, LoopDone, BeginInstr,
           CheckAligned, Fetch, FetchFails, ExecPlain, ExecJump, ExecInv, ExecTrap,
           ExecFault, ExecDie, Commit, CheckState, Dump, Sigint
  <1>2. work_mode = MODE_LOG /\ Logged
    BY <1>1 DEF work_mode, LogExact
  <1> USE DEF Logged, Dead
  <1>3. ASSUME NEW k \in Budgets, CallCpuExec(k) PROVE Logged'
    BY <1>2, <1>3 DEF CallCpuExec, history
  <1>4. CASE Sigint
    BY <1>2, <1>4 DEF Sigint
  <1>5. CASE Enter \/ LoopDone
    BY <1>2, <1>5 DEF Enter, LoopDone
  <1>6. CASE BeginInstr
    BY <1>2, <1>6 DEF BeginInstr, TraceAppend
  <1>7. CASE CheckAligned \/ FetchFails
    BY <1>2, <1>7 DEF CheckAligned, FetchFails, FailAssert, history
  <1>8. ASSUME NEW word \in Words, Fetch(word) PROVE Logged'
    BY <1>2, <1>8 DEF Fetch, history
  <1>9. CASE ExecPlain \/ ExecJump \/ ExecInv \/ ExecTrap
    BY <1>2, <1>9 DEF ExecPlain, ExecJump, ExecInv, ExecTrap, Completed, TraceAppend
  <1>10. CASE ExecFault \/ ExecDie
    BY <1>2, <1>10 DEF ExecFault, ExecDie, FailAssert, history
  <1>11. CASE Commit
    BY <1>2, <1>11 DEF Commit, PrintRegisters, history
  <1>12. CASE CheckState
    BY <1>2, <1>12 DEF CheckState
  <1>13. CASE Dump
    BY <1>2, <1>13 DEF Dump, FailAssert, history
  <1>14. CASE UNCHANGED vars
    BY <1>2, <1>14 DEF vars, history
  <1>15. QED
    BY <1>3, <1>4, <1>5, <1>6, <1>7, <1>8, <1>9, <1>10, <1>11, <1>12, <1>13, <1>14
       DEF Next, HostStep

\* With -c alone or with -b, ninstr is the number of executed instructions at
\* every point but between a handler and its log (cpu-exec.c:181-190).
THEOREM LogIsExact == Spec => []LogExact
  <1>1. Init => LogExact
    BY DEF Init, LogExact, Logged
  <1>2. LogExact /\ [Next]_vars => LogExact'
    BY LogExactNext
  <1>3. QED
    BY <1>1, <1>2, PTL DEF Spec

LEMMA TextAtNext ==
    ASSUME TypeOK, TextAt, [Next]_vars
    PROVE  TextAt'
  <1> USE DEF TextAt
  <1>1. asm_buf_p \in {-1} \cup 0 .. AsmCap /\ AsmCap \in Nat /\ AsmCap >= 3
    BY DEF TypeOK, Null
  <1>2. ASSUME NEW k \in Budgets, CallCpuExec(k) PROVE TextAt'
    BY <1>2 DEF CallCpuExec, history
  <1>3. CASE Sigint
    BY <1>3 DEF Sigint
  <1>4. CASE Enter \/ LoopDone
    BY <1>4 DEF Enter, LoopDone
  <1>5. CASE BeginInstr
    BY <1>1, <1>5 DEF BeginInstr, TraceAppend, Null
  <1>6. CASE CheckAligned \/ FetchFails
    BY <1>6 DEF CheckAligned, FetchFails, FailAssert, history
  <1>7. ASSUME NEW word \in Words, Fetch(word) PROVE TextAt'
    BY <1>1, <1>7 DEF Fetch, history
  <1>8. CASE ExecPlain \/ ExecJump
    BY <1>1, <1>8 DEF ExecPlain, ExecJump, TraceAppend, Null
  <1>9. CASE ExecInv \/ ExecTrap
    BY <1>1, <1>9 DEF ExecInv, ExecTrap, TraceAppend, Null
  <1>10. CASE ExecFault \/ ExecDie
    BY <1>10 DEF ExecFault, ExecDie, FailAssert, history
  <1>11. CASE Commit
    BY <1>11 DEF Commit, history
  <1>12. CASE CheckState
    BY <1>12 DEF CheckState
  <1>13. CASE Dump
    BY <1>13 DEF Dump, FailAssert, history
  <1>14. CASE UNCHANGED vars
    BY <1>14 DEF vars, history
  <1>15. QED
    BY <1>2, <1>3, <1>4, <1>5, <1>6, <1>7, <1>8, <1>9, <1>10, <1>11, <1>12, <1>13, <1>14
       DEF Next, HostStep

\* asm_buf is never overrun if the text of a handler, an address and a word
\* fit in it (cpu-exec.c:47-60).
THEOREM Fits == Spec => []TraceFits
  <1>1. Init => TextAt
    BY DEF Init, TextAt, Null
  <1>2. TextAt => TraceFits
    BY DEF TextAt, TraceFits
  <1>3. TypeOK /\ TextAt /\ [Next]_vars => TextAt'
    BY TextAtNext
  <1>4. QED
    BY <1>1, <1>2, <1>3, TypeCorrect, PTL DEF Spec

-----------------------------------------------------------------------------
\* The dump of a failing CPUAssert.

\* A step that moves neither the queue nor what the dump should have.
LEMMA ShowsStutter ==
    ASSUME QueueShowsTrace, phase \notin Dead, UNCHANGED queueVars, Expected' = Expected
    PROVE  QueueShowsTrace'
  BY QueueStutter DEF QueueShowsTrace, Lines

\* A handler that ran to its end: its instruction is the last of the trace.
LEMMA ShowsCompleted ==
    ASSUME TypeOK, PhaseOK, QueueShowsTrace, phase = "exec", Completed,
           UNCHANGED queueVars, phase' = "commit" \/ phase' \in Dead
    PROVE  QueueShowsTrace'
  <1>1. Expected = Append(trace, <<pc, inst>>)
    BY DEF Expected, Begun, PhaseOK
  <1>2. Expected \in Seq(Line)
    BY <1>1 DEF TypeOK, Line
  <1>3. Lines(LastOf(Expected)) = Lines(Expected)
    BY <1>2, LinesLastOf
  <1>4. Q!PrintQueue' = Lines(Expected)
    BY QueueStutter DEF QueueShowsTrace, Dead
  <1>5. CASE phase' = "commit"
    <2>1. Expected' = LastOf(Expected)
      BY <1>1, <1>5 DEF Expected, Begun, Completed
    <2>2. Lines(Expected)' = Lines(LastOf(Expected))
      BY <2>1 DEF Lines
    <2>3. QED
      BY <1>3, <1>4, <2>2 DEF QueueShowsTrace
  <1>6. CASE phase' \in Dead
    BY <1>6 DEF QueueShowsTrace, Dead
  <1>7. QED
    BY <1>5, <1>6

\* The address of the instruction that begins enters at the end.
LEMMA ShowsBegin ==
    ASSUME TypeOK, QueueShowsTrace, BeginInstr
    PROVE  QueueShowsTrace'
  <1>1. phase = "loop" /\ Q!EnqueuePc(pc) /\ pc' = pc /\ trace' = trace /\ inst' = inst
        /\ phase' \in {"align", "overrun", "segv"}
    BY DEF BeginInstr, TraceAppend
  <1>2. /\ fetching'
        /\ Q!PrintQueue' = [k \in 1 .. NR_INSTR |->
                               IF k = NR_INSTR THEN <<pc, "xxxxxxxx">>
                                               ELSE Q!PrintQueue[k + 1]]
    BY <1>1, QueueEnqueuePc DEF TypeOK
  <1>3. Q!PrintQueue = Lines(trace)
    BY <1>1 DEF QueueShowsTrace, Dead, Expected, Begun
  <1>4. Lines(Append(trace, <<pc, "xxxxxxxx">>)) = Q!PrintQueue'
    <2>1. trace \in Seq(Line) /\ <<pc, "xxxxxxxx">> \in Line
      BY DEF TypeOK, Line
    <2> DEFINE row == <<pc, "xxxxxxxx">>
    <2> HIDE DEF row
    <2>2. Lines(Append(trace, row)) =
            [k \in 1 .. NR_INSTR |-> IF k = NR_INSTR THEN row ELSE Lines(trace)[k + 1]]
      <3>1. row \in Line
        BY <2>1 DEF row
      <3>2. QED
        BY <2>1, <3>1, LinesAppend
    <2>3. Q!PrintQueue' =
            [k \in 1 .. NR_INSTR |-> IF k = NR_INSTR THEN row ELSE Lines(trace)[k + 1]]
      BY <1>2, <1>3 DEF row
    <2>4. QED
      BY <2>2, <2>3 DEF row
  <1>5. CASE phase' = "align"
    <2>1. Expected' = Append(trace, <<pc, "xxxxxxxx">>)
      BY <1>1, <1>2, <1>5 DEF Expected, Begun
    <2>2. Lines(Expected)' = Lines(Append(trace, <<pc, "xxxxxxxx">>))
      BY <2>1 DEF Lines
    <2>3. QED
      BY <1>4, <2>2 DEF QueueShowsTrace
  <1>6. CASE phase' # "align"
    BY <1>1, <1>6 DEF QueueShowsTrace, Dead
  <1>7. QED
    BY <1>5, <1>6

\* The fetched word joins its address.
LEMMA ShowsFetch ==
    ASSUME TypeOK, QueueShowsTrace, NEW word \in Words, Fetch(word)
    PROVE  QueueShowsTrace'
  <1> DEFINE Before == Append(trace, <<pc, "xxxxxxxx">>)
             After  == Append(trace, <<pc, word>>)
  <1>1. /\ phase = "fetch" /\ fetching /\ Q!EnqueueInstr(word)
        /\ pc' = pc /\ trace' = trace /\ inst' = word
        /\ phase' \in {"exec", "overrun"}
    BY DEF Fetch, history, Q!EnqueueInstr
  <1>2. /\ ~fetching'
        /\ Q!PrintQueue' = [Q!PrintQueue EXCEPT
                               ![NR_INSTR] = <<Q!PrintQueue[NR_INSTR][1], word>>]
    BY <1>1, QueueEnqueueInstr DEF TypeOK
  <1>3. Q!PrintQueue = Lines(Before)
    BY <1>1 DEF QueueShowsTrace, Dead, Expected, Begun
  <1>4. trace \in Seq(Line) /\ <<pc, "xxxxxxxx">> \in Line /\ <<pc, word>> \in Line
    BY DEF TypeOK, Line
  <1>5. Lines(Before)[NR_INSTR][1] = pc
    <2> DEFINE row == <<pc, "xxxxxxxx">>
    <2>1. row \in Line
      BY <1>4
    <2> HIDE DEF row
    <2>2. Lines(Append(trace, row)) =
            [k \in 1 .. NR_INSTR |-> IF k = NR_INSTR THEN row ELSE Lines(trace)[k + 1]]
      BY <1>4, <2>1, LinesAppend
    <2>3. Lines(Append(trace, row))[NR_INSTR] = row
      <3>1. NR_INSTR \in 1 .. NR_INSTR
        OBVIOUS
      <3>2. QED
        BY <2>2, <3>1
    <2>4. QED
      BY <2>3 DEF row
  <1>6. Q!PrintQueue' = Lines(After)
    <2>1. Lines(After) = [Lines(Before) EXCEPT ![NR_INSTR] = <<pc, word>>]
      BY <1>4, LinesFill
    <2>2. QED
      BY <1>2, <1>3, <1>5, <2>1
  <1>7. CASE phase' = "exec"
    <2>1. Expected' = After
      BY <1>1, <1>2, <1>7 DEF Expected, Begun
    <2>2. Lines(Expected)' = Lines(After)
      BY <2>1 DEF Lines
    <2>3. QED
      BY <1>6, <2>2 DEF QueueShowsTrace
  <1>8. CASE phase' = "overrun"
    BY <1>8 DEF QueueShowsTrace, Dead
  <1>9. QED
    BY <1>1, <1>7, <1>8

LEMMA ShowsNext ==
    ASSUME TypeOK, PhaseOK, QueueShowsTrace, [Next]_vars
    PROVE  QueueShowsTrace'
  <1>1. ASSUME UNCHANGED queueVars, UNCHANGED <<pc, trace, inst>>,
               phase' \in Dead \/ Begun' = Begun, phase \notin Dead
        PROVE  QueueShowsTrace'
    <2>1. CASE phase' \in Dead
      BY <2>1 DEF QueueShowsTrace, Dead
    <2>2. CASE Begun' = Begun
      <3>1. fetching' = fetching
        BY <1>1 DEF queueVars
      <3>2. Expected' = Expected
        BY <1>1, <2>2, <3>1 DEF Expected
      <3>3. QED
        BY <1>1, <3>2, ShowsStutter
    <2>3. QED
      BY <1>1, <2>1, <2>2
  <1>2. ASSUME NEW k \in Budgets, CallCpuExec(k) PROVE QueueShowsTrace'
    BY <1>1, <1>2 DEF CallCpuExec, history, Begun, Dead
  <1>3. CASE Sigint
    BY <1>1, <1>3 DEF Sigint, Begun, Dead
  <1>4. CASE Enter \/ LoopDone
    BY <1>1, <1>4 DEF Enter, LoopDone, Begun, Dead
  <1>5. CASE BeginInstr
    BY <1>5, ShowsBegin
  <1>6. CASE CheckAligned \/ FetchFails
    BY <1>1, <1>6 DEF CheckAligned, FetchFails, FailAssert, history, Begun, Dead
  <1>7. ASSUME NEW word \in Words, Fetch(word) PROVE QueueShowsTrace'
    BY <1>7, ShowsFetch
  <1>8. CASE ExecPlain \/ ExecJump \/ ExecInv
    BY <1>8, ShowsCompleted DEF ExecPlain, ExecJump, ExecInv, TraceAppend, Dead
  <1>9. CASE ExecTrap
    <2>1. CASE phase' = "exited"
      BY <2>1 DEF QueueShowsTrace, Dead
    <2>2. CASE phase' # "exited"
      BY <1>9, <2>2, ShowsCompleted DEF ExecTrap, TraceAppend, Dead
    <2>3. QED
      BY <2>1, <2>2
  <1>10. CASE ExecFault \/ ExecDie
    BY <1>1, <1>10 DEF ExecFault, ExecDie, FailAssert, history, Begun, Dead
  <1>11. CASE Commit
    <2>1. phase = "commit" /\ phase' = "check" /\ UNCHANGED queueVars /\ trace' = trace
      BY <1>11 DEF Commit, history
    <2>2. Expected' = Expected
      BY <2>1 DEF Expected, Begun
    <2>3. QED
      BY <2>1, <2>2, ShowsStutter DEF Dead
  <1>12. CASE CheckState
    BY <1>1, <1>12 DEF CheckState, Begun, Dead
  <1>13. CASE Dump
    BY <1>1, <1>13 DEF Dump, FailAssert, history, Begun, Dead
  <1>14. CASE UNCHANGED vars
    <2>1. CASE phase \in Dead
      BY <1>14, <2>1 DEF vars, QueueShowsTrace
    <2>2. CASE phase \notin Dead
      BY <1>1, <1>14, <2>2 DEF vars, history, Begun
    <2>3. QED
      BY <2>1, <2>2
  <1>15. QED
    BY <1>2, <1>3, <1>4, <1>5, <1>6, <1>7, <1>8, <1>9, <1>10, <1>11, <1>12, <1>13, <1>14
       DEF Next, HostStep

\* The queue a failing CPUAssert prints is the run so far, the failing
\* instruction last (cpu-exec.c:162, instr_fetch and print_instr_queue).
THEOREM DumpShowsTrace == Spec => []QueueShowsTrace
  <1>1. Init => QueueShowsTrace
    <2>1. ASSUME Init PROVE Expected = <<>>
      BY <2>1 DEF Init, Expected, Begun
    <2>2. QED
      BY <2>1, QueueInit DEF Init, QueueShowsTrace
  <1>2. TypeOK /\ PhaseOK /\ QueueShowsTrace /\ [Next]_vars => QueueShowsTrace'
    BY ShowsNext
  <1>3. QED
    BY <1>1, <1>2, TypeAndPhase, PTL DEF Spec

-----------------------------------------------------------------------------
\* The dump within the dump.

\* A handler runs where its instruction was fetched from, and a dump that it
\* makes reads there again.
FetchedFromRam ==
    /\ phase = "exec" => MemKind[pc] = "ram"
    /\ phase = "dump" /\ ~fetching => MemKind[pc] = "ram"
    /\ phase \in {"fetch", "align"} => fetching
    /\ phase = "stack" => fetching
    /\ depth > 1 => fetching

LEMMA FetchedNext ==
    ASSUME TypeOK, PhaseOK, FetchedFromRam, [Next]_vars
    PROVE  FetchedFromRam'
  <1> USE DEF FetchedFromRam, PhaseOK, Looping, Dead
  <1>1. depth \in 0 .. MaxDepth + 1 /\ MaxDepth \in Nat
    BY DEF TypeOK
  <1>2. ASSUME NEW k \in Budgets, CallCpuExec(k) PROVE FetchedFromRam'
    BY <1>2 DEF CallCpuExec
  <1>3. CASE Sigint
    BY <1>1, <1>3 DEF Sigint, queueVars
  <1>4. CASE Enter \/ LoopDone
    BY <1>4 DEF Enter, LoopDone
  <1>5. CASE BeginInstr
    BY <1>1, <1>5 DEF BeginInstr, TraceAppend, Q!EnqueuePc
  <1>6. CASE CheckAligned \/ FetchFails
    BY <1>1, <1>6 DEF CheckAligned, FetchFails, FailAssert, queueVars
  <1>7. ASSUME NEW word \in Words, Fetch(word) PROVE FetchedFromRam'
    BY <1>1, <1>7 DEF Fetch
  <1>8. CASE ExecFault
    BY <1>1, <1>8 DEF ExecFault, FailAssert, queueVars
  <1>9. CASE ExecPlain \/ ExecJump \/ ExecInv \/ ExecTrap \/ ExecDie
    BY <1>1, <1>9 DEF ExecPlain, ExecJump, ExecInv, ExecTrap, ExecDie, Completed, TraceAppend
  <1>10. CASE Commit \/ CheckState
    BY <1>10 DEF Commit, CheckState
  <1>11. CASE Dump
    BY <1>1, <1>11 DEF Dump, FailAssert, queueVars
  <1>12. CASE UNCHANGED vars
    BY <1>12 DEF vars, queueVars
  <1>13. QED
    BY <1>2, <1>3, <1>4, <1>5, <1>6, <1>7, <1>8, <1>9, <1>10, <1>11, <1>12 DEF Next, HostStep

\* A load or store that fails is reported and ends in abort(), since the dump
\* reads where the instruction was fetched from (debug.h:47, cpu-exec.c:193).
THEOREM FailuresReported == Spec => []FailedAccessReported
  <1>1. Init => FetchedFromRam
    BY DEF Init, FetchedFromRam, Dead
  <1>2. TypeOK /\ PhaseOK /\ FetchedFromRam => FailedAccessReported
    BY DEF TypeOK, PhaseOK, FetchedFromRam, FailedAccessReported, Phases, Looping, Dead
  <1>3. TypeOK /\ PhaseOK /\ FetchedFromRam /\ [Next]_vars => FetchedFromRam'
    BY FetchedNext
  <1>4. QED
    BY <1>1, <1>2, <1>3, TypeAndPhase, PTL DEF Spec
=============================================================================

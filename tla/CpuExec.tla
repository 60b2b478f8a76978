------------------------------ MODULE CpuExec -------------------------------
(***************************************************************************)
(* The execution loop of the emulator, cpu_exec in src/cpu/cpu-exec.c,     *)
(* with what it shares state with: the instruction queue (iq.c), the       *)
(* instruction tracer, the register log, the dump of a failing CPUAssert   *)
(* (debug.h), the two ways the emulated program ends (an invalid opcode    *)
(* and the GPIO trap) and the SIGINT handler that main installs, which may *)
(* run between any two steps of the loop.                                  *)
(*                                                                         *)
(* An instruction is abstracted to what it does to the loop:               *)
(*   plain   computes, loads or stores without an error                    *)
(*   jump    as plain, and leaves any of Targets in cpu.pc                 *)
(*   inv     the handler inv: invalid opcode                               *)
(*   trap    a store to the GPIO                                           *)
(*   fault   a failing CPUAssert: unaligned, unmapped or refused access    *)
(*   die     a host assert or signal: ecall, a compressed opcode, x / 0    *)
(* The memory at an address may hold any of them, a store may change it.   *)
(***************************************************************************)
EXTENDS Integers, Sequences

CONSTANTS NR_INSTR,     \* elements of the instruction queue
          PC_SPACE,     \* number of byte addresses, 2^32 in the source
          CPU_INIT_PC,  \* the first address
          MemKind,      \* what a fetch from an address meets
          Targets,      \* addresses a jump may leave in cpu.pc
          Budgets,      \* arguments of cpu_exec, Forever for the -1 of main
          OptionSets,   \* sets of the command line options b, c and D
          AsmCap,       \* pieces of text that fit in asm_buf
          StartCursors, \* asm_buf_p before the first call
          NINSTR_SPACE, \* 2^32 in the source, the range of ninstr
          MaxDepth      \* dumps nested in each other that fit on the stack

Pcs     == 0 .. PC_SPACE - 1
Words   == {"plain", "jump", "inv", "trap", "fault", "die"}
Kinds   == {"ram", "low", "hole", "noread"}
Forever == -1   \* cpu_exec(-1) has 2^64 - 1 iterations
Null    == -1   \* asm_buf_p of the static initialisation

ASSUME CpuExecAssumption ==
    /\ NR_INSTR \in Nat \ {0}
    /\ PC_SPACE \in Nat \ {0} /\ CPU_INIT_PC \in Pcs
    /\ MemKind \in [Pcs -> Kinds] /\ Targets \subseteq Pcs
    /\ Budgets \subseteq Nat \cup {Forever}
    /\ OptionSets \subseteq SUBSET {"b", "c", "D"}
    /\ AsmCap \in Nat /\ AsmCap >= 3  \* an address, a word, the text of a handler
    /\ StartCursors \subseteq {Null, 0}
    /\ NINSTR_SPACE \in Nat \ {0} /\ MaxDepth \in Nat

VARIABLES
    opts,       \* the options given, never changed
    pc,         \* cpu.pc
    nemu_state,
    phase,      \* where the host thread is
    n,          \* iterations left
    inst,       \* the instruction being executed
    iq, pc_ptr, instr_ptr, fetching,  \* the instruction queue
    asm_buf_p,  \* Null, or the number of pieces of text in asm_buf
    ninstr,     \* the static counter of print_registers
    depth,      \* CPUAssert dumps under way
    \* History, for the properties only:
    executed,   \* handlers that ran to their end, modulo NINSTR_SPACE
    trace,      \* the last NR_INSTR of them
    late,       \* instructions begun since a SIGINT in this call, at most 2
                \* are counted; -1 if there was none
    ended,      \* an inv or a trap was executed
    revoked     \* a SIGINT came after that

queueVars == <<iq, pc_ptr, instr_ptr, fetching>>
history   == <<executed, trace, late, ended, revoked>>
vars == <<opts, pc, nemu_state, phase, n, inst, queueVars, asm_buf_p, ninstr,
          depth, history>>

Q == INSTANCE Iq WITH Instrs <- Words, ZeroPc <- 0, ZeroInstr <- "zero",
                      Unknown <- "xxxxxxxx"

-----------------------------------------------------------------------------
\* monitor.h: the flags of work_mode, as sets of bits.
MODE_BATCH == {0}
MODE_DIFF  == {1} \cup MODE_BATCH
MODE_LOG   == {2} \cup MODE_BATCH

\* parse_args: every option ORs its flags into work_mode.
work_mode == UNION {CASE o = "b" -> MODE_BATCH
                      [] o = "c" -> MODE_LOG
                      [] o = "D" -> MODE_DIFF : o \in opts}

Batch == MODE_BATCH \subseteq work_mode

\* Where the process is gone: abort() of an assertion, exit(0) of the trap, a
\* fatal signal, asm_buf overrun, a NULL asm_buf_p, the stack used up.
Dead    == {"aborted", "exited", "killed", "overrun", "segv", "stack"}
Looping == {"loop", "align", "fetch", "exec", "commit", "check"}
Phases  == {"idle", "enter", "dump"} \cup Looping \cup Dead

LastOf(s) == IF Len(s) <= NR_INSTR THEN s ELSE SubSeq(s, Len(s) - NR_INSTR + 1, Len(s))

Init == /\ opts \in OptionSets
        /\ pc = CPU_INIT_PC
        /\ nemu_state = "STOP"
        /\ phase = "idle"
        /\ n = 0
        /\ inst = "zero"
        /\ Q!Init
        /\ asm_buf_p \in StartCursors
        /\ ninstr = 0
        /\ depth = 0
        /\ executed = 0 /\ trace = <<>> /\ late = -1 /\ ended = FALSE /\ revoked = FALSE

-----------------------------------------------------------------------------
\* trace_append: the piece is written first, the bound is asserted after.
\* The thread goes on to next, unless the tracer stops the process.
TraceAppend(next) ==
    \/ /\ asm_buf_p = Null
       /\ phase' = "segv"
       /\ UNCHANGED asm_buf_p
    \/ /\ asm_buf_p # Null /\ asm_buf_p + 1 > AsmCap
       /\ phase' = "overrun"
       /\ UNCHANGED asm_buf_p
    \/ /\ asm_buf_p # Null /\ asm_buf_p + 1 <= AsmCap
       /\ phase' = next
       /\ asm_buf_p' = asm_buf_p + 1

\* A failing CPUAssert: print_instr_queue, then the dump of the registers.
FailAssert == /\ phase' = "dump"
              /\ depth' = depth + 1

\* Mutant of CallCpuExec: cpu_exec does not look at nemu_state first.
CallCpuExecAnyway(k) ==
    /\ phase = "idle"
    /\ phase' = "enter"
    /\ n' = k
    /\ UNCHANGED <<opts, pc, nemu_state, inst, queueVars, asm_buf_p, ninstr, depth, history>>

\* The host calls cpu_exec(k); main does so once, a host of nemu.a at will.
CallCpuExec(k) ==
    /\ phase = "idle"
    /\ nemu_state # "END"   \* else only a message is printed
    /\ phase' = "enter"
    /\ n' = k
    /\ UNCHANGED <<opts, pc, nemu_state, inst, queueVars, asm_buf_p, ninstr, depth, history>>

Enter == /\ phase = "enter"
         /\ nemu_state' = "RUNNING"
         /\ phase' = "loop"
         /\ late' = -1
         /\ UNCHANGED <<opts, pc, n, inst, queueVars, asm_buf_p, ninstr, depth,
                        executed, trace, ended, revoked>>

\* The loop condition is false: cpu_exec returns.
LoopDone == /\ phase = "loop" /\ n = 0
            /\ nemu_state' = IF nemu_state = "RUNNING" THEN "STOP" ELSE nemu_state
            /\ phase' = "idle"
            /\ late' = -1
            /\ UNCHANGED <<opts, pc, n, inst, queueVars, asm_buf_p, ninstr, depth,
                           executed, trace, ended, revoked>>

\* instr_enqueue_pc(cpu.pc) and the first trace_append of an iteration.
BeginInstr == /\ phase = "loop" /\ n # 0
              /\ Q!EnqueuePc(pc)
              /\ TraceAppend("align")
              /\ late' = IF late \in {0, 1} THEN late + 1 ELSE late
              /\ UNCHANGED <<opts, pc, nemu_state, n, inst, ninstr, depth,
                             executed, trace, ended, revoked>>

\* assert((cpu.pc & 0x3) == 0): the assert of the host, without a dump.
CheckAligned == /\ phase = "align"
                /\ phase' = IF pc % 4 = 0 THEN "fetch" ELSE "aborted"
                /\ UNCHANGED <<opts, pc, nemu_state, n, inst, queueVars, asm_buf_p,
                               ninstr, depth, history>>

\* Mutant of Fetch: the queue is given the word before the fetch assigns it.
FetchEnqueuesOld(word) ==
    /\ phase = "fetch" /\ MemKind[pc] = "ram"
    /\ inst' = word
    /\ Q!EnqueueInstr(inst)
    /\ \/ asm_buf_p + 1 <= AsmCap /\ phase' = "exec" /\ asm_buf_p' = 0
       \/ asm_buf_p + 1 > AsmCap /\ phase' = "overrun" /\ UNCHANGED asm_buf_p
    /\ UNCHANGED <<opts, pc, nemu_state, n, ninstr, depth, history>>

\* Mutant of Fetch: the text is not flushed.
FetchKeepsText(word) ==
    /\ phase = "fetch" /\ MemKind[pc] = "ram"
    /\ inst' = word
    /\ Q!EnqueueInstr(word)
    /\ TraceAppend("exec")
    /\ UNCHANGED <<opts, pc, nemu_state, n, ninstr, depth, history>>

\* Mutant of Fetch: cpu.pc moves on as soon as the word is fetched.
FetchAdvances(word) ==
    /\ phase = "fetch" /\ MemKind[pc] = "ram"
    /\ inst' = word
    /\ Q!EnqueueInstr(word)
    /\ \/ asm_buf_p + 1 <= AsmCap /\ phase' = "exec" /\ asm_buf_p' = 0
       \/ asm_buf_p + 1 > AsmCap /\ phase' = "overrun" /\ UNCHANGED asm_buf_p
    /\ pc' = (pc + 4) % PC_SPACE
    /\ UNCHANGED <<opts, nemu_state, n, ninstr, depth, history>>

\* instr_fetch meets memory: the word is enqueued, traced, and the line of
\* text is flushed.
Fetch(word) ==
    /\ phase = "fetch" /\ MemKind[pc] = "ram"
    /\ inst' = word
    /\ Q!EnqueueInstr(word)
    /\ \/ asm_buf_p + 1 <= AsmCap /\ phase' = "exec" /\ asm_buf_p' = 0
       \/ asm_buf_p + 1 > AsmCap /\ phase' = "overrun" /\ UNCHANGED asm_buf_p
    /\ UNCHANGED <<opts, pc, nemu_state, n, ninstr, depth, history>>

\* The preventive check of load_mem, no region, or a reader that refuses.
FetchFails == /\ phase = "fetch" /\ MemKind[pc] # "ram"
              /\ FailAssert
              /\ UNCHANGED <<opts, pc, nemu_state, n, inst, queueVars, asm_buf_p,
                             ninstr, history>>

-----------------------------------------------------------------------------
\* The handlers of exec-handlers.h.

Completed == /\ executed' = (executed + 1) % NINSTR_SPACE
             /\ trace' = LastOf(Append(trace, <<pc, inst>>))
             /\ UNCHANGED <<late, revoked>>

\* Branches do not trace, every other handler does.
ExecPlain == /\ phase = "exec" /\ inst = "plain"
             /\ \/ TraceAppend("commit")
                \/ phase' = "commit" /\ UNCHANGED asm_buf_p
             /\ Completed
             /\ UNCHANGED <<opts, pc, nemu_state, n, inst, queueVars, ninstr, depth, ended>>

ExecJump == /\ phase = "exec" /\ inst = "jump"
            /\ pc' \in Targets
            /\ \/ TraceAppend("commit")
               \/ phase' = "commit" /\ UNCHANGED asm_buf_p
            /\ Completed
            /\ UNCHANGED <<opts, nemu_state, n, inst, queueVars, ninstr, depth, ended>>

ExecInv == /\ phase = "exec" /\ inst = "inv"
           /\ nemu_state' = "END"
           /\ phase' = "commit"
           /\ Completed
           /\ ended' = TRUE
           /\ UNCHANGED <<opts, pc, n, inst, queueVars, asm_buf_p, ninstr, depth>>

\* Mutant of ExecTrap: the process exits after the instruction was counted.
ExecTrapLogs == /\ phase = "exec" /\ inst = "trap"
                /\ nemu_state' = "END"
                /\ ended' = TRUE
                /\ \/ /\ Batch
                      /\ phase' = "exited"
                      /\ ninstr' = (ninstr + 1) % NINSTR_SPACE
                      /\ UNCHANGED <<asm_buf_p, executed, trace, late, revoked>>
                   \/ /\ ~Batch
                      /\ TraceAppend("commit")
                      /\ Completed
                      /\ UNCHANGED ninstr
                /\ UNCHANGED <<opts, pc, n, inst, queueVars, depth>>

\* gpio_write: in batch mode the process exits within the handler.
ExecTrap == /\ phase = "exec" /\ inst = "trap"
            /\ nemu_state' = "END"
            /\ ended' = TRUE
            /\ \/ /\ Batch
                  /\ phase' = "exited"
                  /\ UNCHANGED <<asm_buf_p, executed, trace, late, revoked>>
               \/ /\ ~Batch
                  /\ TraceAppend("commit")
                  /\ Completed
            /\ UNCHANGED <<opts, pc, n, inst, queueVars, ninstr, depth>>

ExecFault == /\ phase = "exec" /\ inst = "fault"
             /\ FailAssert
             /\ UNCHANGED <<opts, pc, nemu_state, n, inst, queueVars, asm_buf_p,
                            ninstr, history>>

ExecDie == /\ phase = "exec" /\ inst = "die"
           /\ phase' = "aborted"
           /\ UNCHANGED <<opts, pc, nemu_state, n, inst, queueVars, asm_buf_p, ninstr,
                          depth, history>>

-----------------------------------------------------------------------------
\* print_registers counts its calls.
PrintRegisters == ninstr' = (ninstr + 1) % NINSTR_SPACE

\* Mutant of Commit: cpu.pc is wider than the addresses.
CommitWide ==
    /\ phase = "commit"
    /\ \/ work_mode = MODE_LOG /\ PrintRegisters
       \/ work_mode # MODE_LOG /\ UNCHANGED ninstr
    /\ pc' = pc + 4
    /\ phase' = "check"
    /\ UNCHANGED <<opts, nemu_state, n, inst, queueVars, asm_buf_p, depth, history>>

\* The end of an iteration: the log of a committed instruction, pc += 4.
Commit == /\ phase = "commit"
          /\ \/ work_mode = MODE_LOG /\ PrintRegisters
             \/ work_mode # MODE_LOG /\ UNCHANGED ninstr
          /\ pc' = (pc + 4) % PC_SPACE
          /\ phase' = "check"
          /\ UNCHANGED <<opts, nemu_state, n, inst, queueVars, asm_buf_p, depth, history>>

\* Mutant of CheckState: the loop returns at the end of the program only.
CheckStateEnd ==
    /\ phase = "check"
    /\ \/ /\ nemu_state = "END"
          /\ phase' = "idle"
          /\ late' = -1
          /\ UNCHANGED n
       \/ /\ nemu_state # "END"
          /\ phase' = "loop"
          /\ n' = IF n = Forever THEN Forever ELSE n - 1
          /\ UNCHANGED late
    /\ UNCHANGED <<opts, pc, nemu_state, inst, queueVars, asm_buf_p, ninstr, depth,
                   executed, trace, ended, revoked>>

\* Mutant of CheckState: the iterations are not counted.
CheckStateKeepsN ==
    /\ phase = "check"
    /\ \/ /\ nemu_state # "RUNNING"
          /\ phase' = "idle"
          /\ late' = -1
       \/ /\ nemu_state = "RUNNING"
          /\ phase' = "loop"
          /\ UNCHANGED late
    /\ UNCHANGED <<opts, pc, nemu_state, n, inst, queueVars, asm_buf_p, ninstr, depth,
                   executed, trace, ended, revoked>>

\* if (nemu_state != NEMU_RUNNING) { return; }
CheckState ==
    /\ phase = "check"
    /\ \/ /\ nemu_state # "RUNNING"
          /\ phase' = "idle"
          /\ late' = -1
          /\ UNCHANGED n
       \/ /\ nemu_state = "RUNNING"
          /\ phase' = "loop"
          /\ n' = IF n = Forever THEN Forever ELSE n - 1
          /\ UNCHANGED late
    /\ UNCHANGED <<opts, pc, nemu_state, inst, queueVars, asm_buf_p, ninstr, depth,
                   executed, trace, ended, revoked>>

\* The dump: print_registers(vaddr_read_safe(cpu.pc, 4)).  The argument is
\* read first, and the reader of a region may fail an assertion of its own.
Dump == /\ phase = "dump"
        /\ \/ /\ MemKind[pc] # "noread"
              /\ PrintRegisters
              /\ phase' = "aborted"
              /\ UNCHANGED depth
           \/ /\ MemKind[pc] = "noread" /\ depth < MaxDepth
              /\ FailAssert
              /\ UNCHANGED ninstr
           \/ /\ MemKind[pc] = "noread" /\ depth >= MaxDepth
              /\ phase' = "stack"
              /\ UNCHANGED <<depth, ninstr>>
        /\ UNCHANGED <<opts, pc, nemu_state, n, inst, queueVars, asm_buf_p, history>>

\* SIGINT, at any moment.  init_monitor installs the handler outside batch
\* mode only; otherwise the signal kills the process.
Sigint ==
    /\ phase \notin Dead
    /\ \/ /\ ~Batch
          /\ nemu_state' = "STOP"
          /\ late' = IF phase \in Looping /\ late < 0 THEN 0 ELSE late
          /\ revoked' = (revoked \/ ended)
          /\ UNCHANGED phase
       \/ /\ Batch
          /\ phase' = "killed"
          /\ UNCHANGED <<nemu_state, late, revoked>>
    /\ UNCHANGED <<opts, pc, n, inst, queueVars, asm_buf_p, ninstr, depth,
                   executed, trace, ended>>

-----------------------------------------------------------------------------
\* What the host thread does by itself once cpu_exec is called.
HostStep == \/ Enter \/ LoopDone \/ BeginInstr \/ CheckAligned
            \/ (\E word \in Words : Fetch(word)) \/ FetchFails
            \/ ExecPlain \/ ExecJump \/ ExecInv \/ ExecTrap \/ ExecFault \/ ExecDie
            \/ Commit \/ CheckState \/ Dump

Next == HostStep \/ (\E k \in Budgets : CallCpuExec(k)) \/ Sigint

Spec == Init /\ [][Next]_vars

\* The host thread is not stopped for ever by the scheduler, and none of its
\* steps waits for anything.
FairSpec == Spec /\ WF_vars(HostStep)
-----------------------------------------------------------------------------
TypeOK == /\ opts \in OptionSets
          /\ pc \in Pcs
          /\ nemu_state \in {"STOP", "RUNNING", "END"}
          /\ phase \in Phases
          /\ n \in Nat \cup {Forever}
          /\ inst \in Words \cup {"zero"}
          /\ Q!IInv
          /\ asm_buf_p \in {Null} \cup 0 .. AsmCap
          /\ ninstr \in 0 .. NINSTR_SPACE - 1
          /\ depth \in 0 .. MaxDepth + 1
          /\ executed \in 0 .. NINSTR_SPACE - 1
          /\ trace \in Seq(Pcs \X Words) /\ Len(trace) <= NR_INSTR
          /\ late \in -1 .. 2
          /\ ended \in BOOLEAN
          /\ revoked \in BOOLEAN

\* The lines a dump should have: the executed instructions, and the one whose
\* execution or fetch is under way, after as many unused lines as are left.
Begun == phase \in {"align", "fetch", "exec", "dump"}

Expected == IF Begun THEN Append(trace, <<pc, IF fetching THEN "xxxxxxxx" ELSE inst>>)
                     ELSE trace

Lines(s) == [k \in 1 .. NR_INSTR |->
               LET j == Len(s) - NR_INSTR + k
               IN  IF j < 1 THEN <<0, "xxxxxxxx">> ELSE s[j]]

\* The queue that a failing CPUAssert prints is the run so far: the last
\* executed instructions in order, each with the address it was executed at,
\* and last the instruction that failed, at cpu.pc, without a word when it was
\* the fetch that failed.  Also after any number of calls of cpu_exec.
QueueShowsTrace == phase \notin Dead => Q!PrintQueue = Lines(Expected)

\* Ctrl-C is prompt: whenever the handler runs within the loop, at most one
\* more instruction is begun before cpu_exec returns (cpu-exec.c:195 reads
\* nemu_state after every instruction).
SigintPrompt == late <= 1

\* An invalid opcode or the GPIO trap ends the emulated program for good: no
\* instruction is fetched after it, in this call of cpu_exec or in a later
\* one (cpu-exec.c:157, 195), if no SIGINT comes after it.
EndIsFinal == (ended /\ ~revoked) => phase \notin {"align", "fetch"}

\* The same without the proviso, as the message of cpu-exec.c:158 has it.
EndIsFinalAlways == ended => phase \notin {"align", "fetch"}

\* The number of lines logged is the number of instructions executed, also
\* when the trap has ended the process (its own instruction is then neither);
\* it is one behind between a handler and its log.
Logged == phase \notin Dead \ {"exited"} =>
              executed = IF phase = "commit" THEN (ninstr + 1) % NINSTR_SPACE ELSE ninstr

\* With -c, and -b or not, every executed instruction is logged once, but the
\* trap that ends the process is not (gpio.c:18-20); and the $ninstr of a dump
\* is the number of the instruction that failed.
LogExact == work_mode = MODE_LOG => Logged

\* As the help text of -c has it, whatever the other options are.
CommitLogsAll == "c" \in opts => Logged

\* asm_buf never overflows: it is flushed once in every iteration, so at most
\* the text of one handler, an address and a word are in it (cpu-exec.c:53).
TraceFits == phase # "overrun"

\* The program executes its first instruction: the tracer has a buffer.
TracerReady == phase # "segv"

\* A load or store that fails is always reported and ends in abort(): its dump
\* reads the word at cpu.pc once more (debug.h:47), and as cpu.pc still is where
\* that word was fetched from (cpu-exec.c:193), the read cannot fail, nest dump
\* in dump and use up the stack.  Only the dump of a failing fetch can.
FailedAccessReported == depth > 1 \/ phase = "stack" => fetching

\* How far a call of cpu_exec is from its end: the iterations it may still
\* do, one at most once a SIGINT was taken in the loop, the place within the
\* iteration, and the dumps that fit on the stack, which no iteration follows.
Left == IF late >= 0 /\ n # 0 THEN 1 ELSE n

Passed == CASE phase = "enter"  -> -1
            [] phase = "loop"   -> 0
            [] phase = "align"  -> 1
            [] phase = "fetch"  -> 2
            [] phase = "exec"   -> 3
            [] phase = "commit" -> 4
            [] phase = "check"  -> 5

Stack    == MaxDepth + 2
Distance == IF phase \in Looping \cup {"enter"} THEN Stack + 6 * Left - Passed
            ELSE IF phase = "dump" THEN Stack - depth
            ELSE 0

\* A call that is not the endless one of main, or that a SIGINT is to end.
Ending == /\ phase \notin {"idle"} \cup Dead
          /\ n # Forever \/ late >= 0 \/ phase = "dump"

\* Whatever the instructions are, each step of such a call takes it nearer to
\* its end (cpu-exec.c:164-198), except a SIGINT, which takes it no farther
\* away and does not make it endless.
Advance == \/ Distance' \in 0 .. Distance - 1 /\ (Ending' \/ Distance' = 0)
           \/ /\ Distance' \in 0 .. Distance /\ Ending'
              /\ UNCHANGED <<pc, phase, n, inst, queueVars, depth>>

CallAdvances == [][Ending => Advance]_vars

\* A call of cpu_exec with a number of instructions returns, or the process
\* ends.
CallReturns == (phase \notin {"idle"} \cup Dead /\ n # Forever)
                   ~> (phase \in {"idle"} \cup Dead)

\* A SIGINT taken within the loop ends the call, even the endless one of main:
\* no instruction and no state of the program makes the loop miss it.
StopEndsCall == (late >= 0) ~> (phase \in {"idle"} \cup Dead)
=============================================================================

# A TLA+ model of the NEMU RISC-V emulator

NEMU is a single-process, single-threaded emulator of a 32-bit machine. `main`
(`src/main.c`) checks the memory map, loads a program, opens an SDL window with
a periodic SIGVTALRM timer, and calls `cpu_exec(-1)`. The same sources are
linked into `nemu.a`, whose host calls `cpu_exec(n)` as often as it likes.
Concurrency comes from two signal handlers that may run between any two
machine instructions of the thread: SIGINT (stop) and SIGVTALRM (screen and
keys).

Paths below are relative to the repository.

## Inventory

| part | state | operations | module |
|---|---|---|---|
| execution loop, `src/cpu/cpu-exec.c` | `cpu.pc`, `nemu_state`, `n`, `asm_buf_p`, `ninstr` | one iteration: enqueue pc, trace, fetch, enqueue word, trace, handler, log, `pc += 4`, test of `nemu_state` | `CpuExec` |
| instruction queue, `src/cpu/iq.c` | ring of 8 elements, `pc_ptr`, `instr_ptr` | `instr_enqueue_pc`, `instr_enqueue_instr`, `print_instr_queue` | `Iq` |
| assertions, `include/debug.h` | none of their own | `CPUAssert`: dump of the queue and of the registers, `abort()` | `CpuExec` |
| monitor, `src/monitor/monitor.c` | `work_mode`, file names, `elf_entry`, the buffer and length of `read_file` | options, loading of an image or an ELF file, `sigint_handler` | `Loader`; `CpuExec` (`work_mode`, SIGINT), `Mmio` (windows and mapped sizes) |
| memory map, `src/memory.c`, `include/memory.h` | `mmap_table` (constant) | `find_region`, `vaddr_read/write`, `vaddr_read/write_safe`, `paddr_map`, `init_mmio` | `Mmio` |
| DDR, BRAM, VGA memory, `src/dev/{ddr,bram,video}.c` | byte arrays, mapped sizes, `bram_mapped` | map, read, write, `bram_init` | `Mmio` |
| UART, `src/dev/serial.c` | receive ring, `serial_f`, `serial_r`, keys held, control register | `serial_enqueue` (signal handler), `serial_read`, `serial_write` | `Serial` |
| GPIO, `src/dev/gpio.c` | none | a write ends the program, and in batch mode the process | `CpuExec`, `Mmio` |
| timer and events, `src/device.c` | `jiffy`, the one-shot timer, SDL's queue | `device_update`: frame, one event, timer again | `Devices` |
| screen, `src/dev/video.c` | `vmem`, the pixels of the window | `vga_write`, `update_screen` | `Devices`; `Mmio` (as memory) |
| keyboard, `src/dev/keyboard.c` | ring of scan codes | `keyboard_enqueue`, `kb_read` (its region is commented out of the table) | `Devices` |
| Ethernet MAC, `src/dev/mac.c` | two transmit buffers, their lengths and status, two MAC addresses, MDIO and PHY registers | `mac_write`, `mac_read`, `mii_transaction` | `Mac` |
| instruction set, `src/cpu/exec-handlers.h` | `cpu.gpr`, `cpu.csr` | one handler per instruction | `Isa`; effects on the loop in `CpuExec`, on memory in `Mmio` |

How they interact: the loop calls the queue and, through `load_mem` and
`store_mem`, either memory directly or `mmap_table`, whose readers and writers
are the devices. A device or a handler ends the program by storing `NEMU_END`
in `nemu_state`; SIGINT stores `NEMU_STOP` in the same variable. A failing
`CPUAssert` anywhere calls back into the queue, the register log and, for the
word at `cpu.pc`, the memory map. The SIGVTALRM handler draws what the guest
stored to the video memory, gives SDL's key events to the UART and to the keyboard, whose
rings the guest reads, and ends the process at SDL_QUIT. The loader writes DDR
and BRAM before the CPU starts; `-u` does so while the options are still read.

What is hard in this code, and so what the properties are about:

* the two handlers may run at any point: SIGINT overwrites `nemu_state`, key
  events land within `serial_read`, whose two loads the compiler may reorder;
* the dump must be right at every point at which an assertion can fail, in
  particular between the two calls that fill an element of the queue;
* a byte of DDR can be reached along several ways (fast path, dispatch, loader,
  debugger), each through three windows;
* rings wrap, fill up and are cut short within a burst;
* the timer shoots once and is armed again by its own handler; the event that the handler
  takes is an uninitialised local if SDL has none;
* `read_file` takes no notice of short reads, errors and files that are not there;
* the PHY is initialised by whatever transaction comes first, and a store to one
  register of the MAC starts an operation over others stored before;
* signed and unsigned C arithmetic stands for the arithmetic of the ISA, and
  fields and immediates are put together by hand;
* options combine (`work_mode` is a word of flags, tested in two ways).

The full list, with lines, is `hazards` in `PROJECT.json`.

## Modules

### Ring

The index arithmetic of the circular buffers. `RingNext` is the `(p + 1) % len`
of the source. `RingSlot`, `RingCount` and `RingContent` say what two indices
stand for; they are written without `%`, which keeps the proofs linear.
That they agree with `RingNext`, for every length, is proved where it is needed (`IqProofs`,
`SerialProofs`, `DevicesProofs`).

### InstrWindow, Iq, IqProofs

`InstrWindow` is the promise of the dump: a window on the last `NR_INSTR`
instructions, shifted by each enqueued address, the newest line without its
word until that is known. `Iq` is `iq.c`: `EnqueuePc` and `EnqueueInstr` are the two
functions, `PrintQueue` the lines that `print_instr_queue` prints. An element
keeps the word of the instruction it held before; only `instr_enq` hides it.
`ShowsLastInstrs` is the refinement.

### CpuExec, CpuExecProofs

One action per step of `cpu_exec` and per kind of handler; `phase` is where the
thread is. `Sigint` may come between any two. An instruction is abstracted to
its effect on the loop: `plain`, `jump`, `inv` (invalid opcode), `trap` (store
to the GPIO), `fault` (failing `CPUAssert`), `die` (host assertion or signal). What a
fetch meets is given per address by `MemKind`: `ram`, `low` (below 0x1000),
`hole` (no region), `noread` (a region whose reader fails an assertion, GPIO).
The word a fetch finds is chosen anew every time, as stores may change memory.
`work_mode` is a set of bits, as `parse_args` ORs them together.

`asm_buf_p` counts pieces of text in place of bytes: `AsmCap = 3` is the
address, the word and the text of one handler. `StartCursors` says what the
pointer is before the first call. `main` leaves it NULL, and the first piece of
text is then written through NULL (run `tracer`); the host of `nemu.a` may have
called the exported `trace_flush` first, after which everything works. Both
starts are in the run `cpu_exec`, so that the other properties are not vacuous.

`LogExact` holds when the trap has ended the process too: its own instruction is then
neither executed to its end nor logged. `FailedAccessReported` is about the dump of a failing load or
store, which reads the word at `cpu.pc` again: `cpu.pc` moves on at the end of an iteration
only, so that this word has just been fetched and the dump ends in `abort()`. A
failing fetch has no such luck in the GPIO region: there the dump fails in itself until the stack is used up.

### FlatMemory, Mmio, MmioProofs

`FlatMemory` is the promise: one flat array of bytes, seen directly and through
the two windows kseg0 and kseg1. `Mmio` has the table, `find_region`, the readers
and writers, the fast paths, the debugger's accesses, the loader and the boot
stub. An access is made in two steps, `Ask` (an instruction with its effective
address, or a call of the loader or the debugger) and the answer. `FlatView` is the
refinement; `MemoryAnswers` says that it is not had by refusing accesses.
The registers of UART and MAC are left open there (any value, or an
assertion). A store to the GPIO ends the process in batch mode; otherwise it
stores `NEMU_END` and is answered, and `CpuExec` has what the loop makes of that.

`Fits` and `Loadable` (of `Mmio` and of `Loader`) add without a bound where
`check_ddr` and `check_bram` add in 32 bits, and `paddr_map` takes the 32 lower bits of a size.
Accesses of at most four bytes cannot wrap. A segment or an image of nearly 2^32 bytes can: the check passes, and the
copy of so many bytes leaves the array and ends the process by a signal, where the
model ends it by the assertion.

`TableAssumption` says of the table what the source's has (`memory.c:27-36` and the
headers of the devices): no memory is in two regions; the DDR and the BRAM fill
theirs; regions of memory, and the arrays behind them, begin and end at
multiples of 4, as do the windows (`IO_SPACE` is 0x20000000), so that no
aligned access has one byte here and another there.

### ByteFifo, Serial, SerialProofs

`ByteFifo` is a bounded FIFO in which a burst may be cut short only by a full
FIFO and a read takes time. `Serial` is the receive side of `serial.c`.
`KeyDown` is `serial_enqueue`, atomic because the handler is not interrupted;
`serial_read` is split into its two accesses: the byte (`PeekFirst`, `ThenPeek`) and the
indices (`TestFirst`, `ThenTest`), in both orders, because nothing orders the
two loads for the compiler. `StoreBurst` is the loop in closed form;
`StoreIsTheLoop` compares it with `EnqueueLoop`, the loop round by round as a recursive function,
in every step of the run, and is proved.

A read of the data register with nothing polled first can return a stale byte
and take away a byte that arrived meanwhile. `ByteFifo` allows that for a read
that began on an empty FIFO only; `PolledReadExact` says that a guest which reads
the status first, as drivers do, never meets it.

### Riscv, Isa, IsaProofs

`Riscv` says what the instructions of RV32IM compute, over the integers that words
stand for, for any width (`Pow2` is the table of the powers of two that fit, so that its proofs need
no arithmetic of exponents but for one lemma). `Isa` has the decoding tables and the handlers of
`exec-handlers.h` as the C code computes: unsigned words, casts, 64-bit products,
immediates made of the fields of `reg.h`. An instruction is a record of fields;
one iteration is explored from every state of the registers, since every
property is about a single step. A load takes any data and its access
is recorded; what memory does with it is in `Mmio`, what it means for the loop in `CpuExec`.

The instruction set is an unfinished port, and the properties say where it can be
relied on. What they leave out, because the code deviates from the architecture there:

* register 0 is written like any other;
* `jalr` ignores its offset and goes to the word after `rs1`, and with `rd = rs1` to the word after
  the return address; `jal` has the offset of the U-type; the opcode table has
  `jalr` in the row of JAL and nothing for JALR;
* branches (run `branch_target`), and stores with a negative offset, whose
  sign `STORE_SIMM` adds as a bit;
* `csrrw` and `csrrwi` do nothing if `rd` holds 0, `csrrsi` and `csrrci` nothing if the
  field is 0, and with `rd = rs1` the new value of `rd` goes to the CSR;
* immediates whose upper seven bits are not 0 are invalid opcodes, and `srai` has
  its `func7` at 1;
* a division by zero, or of the most negative word by -1, stops the process.

### KeyPipe, Devices, DevicesProofs

`KeyPipe` is the promise: the events wait in the order of their arrival, each is
taken once, enters the UART and the keyboard or is dropped by one that is full, and a quit
ends the process. `Devices` splits `device_update` at the points where it matters
that events may arrive meanwhile: `Alarm` (the count and the frame), `Poll`
(`SDL_PollEvent`), `Handle` (the switch with the calls it makes) and `Rearm`. The guest does not run
between them, since the handler is on its thread; it stores pixels (`vga_write`), reads
the UART (`ReadByte`: the FIFO that `Serial` implements, read after a poll) and the keyboard
(`kb_read`), or ends the process.

`ImplementsPipe` maps SDL's queue, with the event that is being handled in front of it, to `pipe` and the
keyboard's ring to `codes`. Two behaviours of the code make the promise weaker than one
would like, and `KeyPipe` has them as actions of their own:

* `Haunt`: `event` is not initialised and the result of `SDL_PollEvent` not looked at, so that with no event
  waiting anything may be handled. The model lets it be any event (the real stack mostly
  holds the last one); `Haunt` is allowed on an empty pipe only, so that no real event is
  lost or overtaken;
* `Misread`: `kb_read` moves the index of an empty ring, which then looks full of old codes, and
  new ones are dropped until they have been read.

`QuitEnds` and `FramesGoOn` are the liveness of the handler.

### Mii, Mac, MacProofs

`Mii` is the promise of the MDIO interface: one PHY with its contents from the start.
`Mac` is `mac.c`; each store of the guest is an action, with the operation that it
starts, as the emulator finishes it within the store. Registers are sets of named bits.
`ImplementsMii` shows that a driver cannot tell that the first transaction initialises the
registers. `PollsEnd` is about the loops of drivers (the EmacLite driver polls the busy
bits), `PingMacKept` and `ScanFindsPhy` about what it does with the device. What they
leave out, because the code does not have it:

* a packet sent from PING is never done: only the PROGRAM bit is tested there, and the
  busy bit of a transmission stays;
* a packet sent from PONG is taken for a MAC address, as either bit starts the copy;
* the copy has the length of the length register: one above 6 writes past the address (`overrun`, after which
  nothing is said);
* a store of a byte takes the place of the whole word, and the MDIO enable bit is ignored;
* the status registers of the receive buffers and the global interrupt register can be
  neither loaded nor (the latter) stored: an assertion fails.

### Loader, LoaderProofs

`parse_args` takes one option after another, then `Choose` decides between the ELF file and the image.
`read_file` is a step for each call of `read`: `Read` returns any positive length and
always fills the start of the buffer, `ReadFails` adds -1 to the length, and 0 at the end of
the file changes nothing (a stutter). `OpenFails` is the process ending before the first
read: `get_file_size` calls itself on whatever name `readlink` or `lstat` left, and a NULL from `malloc`, which is not looked
at, is copied from or asserted. `get_file_size` is right for a regular file; for a missing one `lstat` fails and
for a link the name that `readlink` returns is not terminated, so that the
size is anything there. Memory is a sequence of cells for DDR and BRAM. The headers of an ELF file are
one cell `Magic` (which nothing else in a file looks like), and its program headers are given by `Segments`.
`LoaderAssumption` has these headers sound: each part lies in the file, and `p_filesz` is not above
`p_memsz`. `load_elf` checks neither (`monitor.c:78-79`); with other headers it
copies what is behind the buffer, or clears memory with a length below 0.

`LoadedAsAsked` compares what is loaded step by step with what the whole command line
says at once. It gives the `Rounds` in which cells go to memory: one for each `-u` at its place in
the line, and behind them one for each segment of the first `-e`, or else one for the first `-i`.
`Piece` is where a round puts which cells. A place of memory holds the cell of the last round that covers
it (`After`), or that of the boot stub (`StubAsked`), which is written unless a piece
starts at the reset address. Nothing in this is recursive, so that it can be
proved. The invariant that gets there says the same of the rounds done so far
(`MemAsked`), of the files that the options name (`FilesTaken`) and of the job under way (`JobAsked`). If a read was short or failed, only
places that were asked for have changed. What the code does not promise, and
the properties so leave out:

* with a short read the buffer has the end of the file at its start and junk behind it;
* after a failed read or with a size too large the loop may never end;
* a missing image of size 0 is loaded without a complaint, another one is a fault;
* the stub overwrites what a segment put into its 16 bytes, unless one starts at offset 0,
  and its instructions are those of another architecture (MIPS).

## Runs

| run | question | instance | result |
|---|---|---|---|
| `iq` | does the ring show the last instructions, each with its own word? | 3 elements, 2 addresses, 2 words | holds |
| `cpu_exec` | is the dump right, a stop prompt, the end final, the log complete; do calls return? | below | holds |
| `serial` | is the ring a FIFO under key events at every step? | 4 slots, keys of 0, 1 and 3 bytes | holds |
| `mmio` | are all the ways to memory one memory? | 16 physical addresses, 7 regions and a hole | holds |
| `isa` | where do the handlers compute what the ISA says? | words of 8 bits, below | holds |
| `branch_target` | do branches go where the B-type immediate says? | as `isa` | violated by every branch |
| `tracer` | does the tracer have a buffer? | main's start | violated: `asm_buf_p` is NULL |
| `end_final` | is the end final whatever SIGINT does? | as `cpu_exec` | violated: SIGINT overwrites `NEMU_END` |
| `commit_log` | does `-c` log everything? | as `cpu_exec` | violated with `-c -D` |
| `mac` | do polls end, is PING's address kept, is the late PHY an ordinary one? | below | holds |
| `devices` | do keys go through once and in order, does a quit end the process, do frames go on? | below | holds |
| `loader` | does memory hold what the options ask for when the CPU starts? | below | holds |

The four violated statements are those of a message, a help text or a comment
of the source; `findings` in `PROJECT.json` quotes them.

Bounds, and why they are enough:

* `iq`: three elements is the least at which the element just filled, the next
  one and another differ; the proof covers every length.
* `cpu_exec`: `NR_INSTR = 2`; 20 byte addresses hold a word of each `MemKind`,
  with two of memory, and wrap as 2^32 does; the unreadable region follows memory, and is
  reached by running on; jumps lead to both words of memory, to an unaligned address, to the hole and over the wrap; budgets 0, 1, 2
  and -1; six sets of options, which give every value that `work_mode` can take
  but the one of `-b -D` (equal to `-D`) and so on; `NINSTR_SPACE = 3`
  lets the counter of the log wrap; `MaxDepth = 2` nested dumps stand
  for the stack. A trace of bounded length and counters modulo a bound keep the
  state finite with any number of calls.
* `serial`: a ring of three bytes is filled exactly, overfilled, and wrapped in
  the middle of a burst of three; two keys interleave; the third has no bytes.
* `mmio`: addresses below, in, between and above the windows; words of one and
  two bytes, so that an aligned word can end a region and an unaligned one can
  cross it; a region of each kind; the low limit within DDR as 0x1000 is; the
  regions not in the order of their addresses. Two ASSUMEs of `MCMmio` check `region_collide`
  against the definition of overlap and the table of the source against `init_mmio`.

* `isa`: 8-bit words scale the fields to registers and shift amounts of 3 bits,
  `func7` of 3, immediates of 6 and bytes of 2. Every row of every table occurs
  with every `func7` a table distinguishes and one that none does; registers hold
  the bounds of both interpretations (0, 1, 7, 127, 128, 255); `rd` is also an
  operand; `pc` is where a branch can wrap both ways.

* `mac`: words of two bytes and addresses of three, so that a copy ends within a word
  as one of six bytes does; lengths 0, right, and one too long; two PHY addresses, a read
  and a write for each, and a write that is refused; a reset with a bit above the
  16 of a PHY register. The proofs cover every value.
* `devices`: a key with a byte and two codes, one with neither; SDL's queue of
  two events, a FIFO of one byte and a ring of one code, all filled and overfilled (that a longer
  ring keeps its codes in order is in the proof, which has every length);
  two alarms for a frame and a `jiffy` that wraps with each; two pixels side by side, so that
  rows taken for columns would show, which are eight of the window.
* `loader`: up to three options, so that a `-u` file and two programs, or two of a kind, meet; a DDR of four cells and a BRAM
  of two, which hold a `-u` file that two segments overlap, a segment over the stub's
  second cell, one at the reset address, and files too long for their place; reads of every length.

`CHECK_DEADLOCK FALSE` stands where the process may end (`cpu_exec`, its
violations, `mmio`, `mac`, `devices`, `loader`) and where one iteration is explored (`isa`).

## Fairness

`CpuExec`: `FairSpec` asks weak fairness of `HostStep`: the
thread is scheduled again and again, and no step of it waits for anything (the
guest has no interrupts, and output is not modelled). Nothing is assumed of
SIGINT or of the host that calls `cpu_exec`. `CallReturns` and `StopEndsCall`
follow, and `CallAdvances` bounds the number of steps they take; `cpu_exec(-1)` without a signal need not return, and no property says so.

`Devices`: weak fairness of the four steps of the handler. The handler waits for nothing, so
it runs to its end. The virtual timer counts the time that the process computes; the
guest never waits for anything (`main` calls `cpu_exec(-1)`, which has no blocking
call in it), so that a timer that is armed goes off. Nothing is assumed of the
user, of SDL or of what the guest does. `QuitEnds` and `FramesGoOn` follow.

`Loader`: weak fairness of `Step`: a thread that can go on does; a read of a
file that has more to give returns. `ReadFails` and `OpenFails` are not part of it. `LoadEnds` follows.

## Proofs

All theorems hold for every value of the constants under the assumptions named
in the modules, which say only what the source's constants satisfy.

* `IqProofs!Invariance`: `IInv`. `TypeOK` alone is not inductive enough: the
  refinement needs `Waiting`, that the element which lacks its word is the one
  just before `pc_ptr`. `IqProofs!ImplementsWindow`: each enqueue maps to the
  step of `InstrWindow`; the argument is that the lines seen from the new
  `pc_ptr` are those seen from the old one shifted by one.
* `SerialProofs!Invariance`: `IInv` is `TypeOK`, `StatusHolds` (no key event
  makes a ring that has data look empty: the reason why one slot stays free) and
  `ReadUnderWay` (what a read looked at first is still true when it looks a second
  time, because the handler only moves `serial_r`). `PolledReads` and
  `ImplementsByteFifo` follow step by step. `BurstIsLoop`: the loop of `serial_enqueue` stores what the
  closed form says. `Stored` is the closed form after a number of bytes; `StoredRound` shows that it takes
  the step of a round, whether the ring has room or not, so it solves the equation that
  defines `EnqueueLoop`, and two solutions cannot differ at a least round.

* `CpuExecProofs`: all the invariants that the run `cpu_exec` checks, each from a
  strengthening of its own. `PhaseOK` (no iteration is under way with `n = 0`, no
  dump within the loop) makes `TypeOK` inductive. `StopSeen`: after a SIGINT the
  state is not RUNNING until the call returns, so `CheckState` is passed at most once. `EndSeen`:
  after the end the thread is on its way out. `TextAt`: the text in `asm_buf`
  at each point of an iteration. `FetchedFromRam`: a handler, and the dump that it makes, find `cpu.pc` where its
  instruction was fetched from. `LogExact` is inductive itself. `DumpShowsTrace`
  composes the two modules: the lemmas of `IqProofs` give what each enqueue does
  to the printed lines, `LinesAppend`, `LinesFill` and `LinesLastOf` the same for the
  lines the trace should give, and every other step leaves both alone.
  The assumption `AsmCap >= 3` is that an address, a word and the text of one
  handler fit in the 512 bytes of `asm_buf`; the longest of them together have
  less than 100 characters.
  `Advances` is what can be proved of the end of a call: `Distance` is a bound on the steps that are left, from
  the iterations (one, once a SIGINT was taken in the loop), the place in the iteration and the
  dumps that fit on the stack. Each step of the host lowers it, and a SIGINT, whose handler changes `nemu_state` only, does
  not raise it. It needs `PhaseOK` and `StopSeen`: without the latter the state could be RUNNING again
  while `Distance` counts on the return at the next `CheckState`.

* `MacProofs`: the invariants and both action properties of the run `mac`. `IInv` needs
  `NotYet` (nothing has changed before the first transaction), which makes
  `Initialised` equal to what `Mii` has from the start; the steps of the refinement
  follow from lemmas about `Initialised` and `BmcrWritten`.
* `DevicesProofs!Invariance`: `TimerArmed` needs to know in which phase the handler is; that it is
  one-shot and the handler runs on the guest's thread gives both directions.
  `ImplementsKeyPipe`: the lemmas at the start of the module have what storing to a ring and taking from it do to
  its content, for every length, with the two special cases that the source has: there
  is no room when all slots but one are taken, and a take from an empty ring makes it full.
  Each step of `Devices` then maps to one of `KeyPipe` (lemmas `ArriveStep` to `LeaveStep`).

* `LoaderProofs!Invariance`: `ReadSoFar` relates the length, the file's offset and
  the buffer at each round of the loop of `read_file`; a read that was neither short nor
  failed was the first one and took everything. `MagicOfElf` follows the same loop, and is
  what makes the segments of `load_elf` those of an ELF file. `MemAsked` needs to know for each kind of
  step which round it does (`JobAsked`, `FilesTaken`) and that this round comes after all that are
  done; then putting its piece gives a place the cell of the last round that covers it.
  `LoadsAsAsked`: only `Boot` reaches `run`, and it writes the stub exactly if
  no round has a piece at the reset address, which is what `bram_mapped` recorded.
  `Advances`: options, files, rounds of `read_file` and program headers are taken in an order that has an
  end. The pair of `Stage` and `Pieces` is lower after every step but a failing read; that
  `load_image` goes back to the options only for a `-u`, whose option was taken before, comes from `JobAsked`.
* `MmioProofs!Invariance`: `IInv` is `TypeOK` and that a mapped size covers what was
  loaded. `RefinesFlatMemory`: `init_mmio` starts the machine only if the regions are
  disjoint (`RegionsDisjoint`, from `region_collide`), so that a physical address has one home (`FindRegion`) and an
  aligned access lies within it (`NotCrossed`); the three ways to serve an access (`FastPath` and
  the dispatch for the CPU, the debugger's) then answer alike (`LoadServed`, `StoreServed`, `DebuggerServed`), and each
  step maps to a read or a write of `FlatMemory` or to a stutter. `AnswersMemory`: an aligned access
  within a memory is refused only to the CPU below 0x1000, so the refinement is not had by refusing.
* `IsaProofs`: the five properties of the run `isa` for every width, instruction and state
  of the registers. `Computes` goes through the handlers; what they rest on is proved too: the laws of residues, the powers
  of two (2^n is the number of subsets of a set of n elements, which the library can count), that a
  word is determined by its bits and every set of bits is that of a word (`EveryWord`), hence
  what C's `&`, `|`, `^`, `~` and shifts are. `Alignment` excludes `jalr`, as the property does;
  all else follows from the lowest two bits of `pc`, the offsets and the link.

The theorems of `NaturalsInduction` take an operator as a parameter, which the provers cannot
instantiate. Where a proof needs induction it uses sets of numbers: a set that is not empty has a least
number (`Least`, from `WFMin` and `NatLessThanWellFounded`).

Proofs are split until a leaf needs little of the provers: all are found with a fifth of the provers' default time. Where a
lemma's conclusion would be a long conjunction or has quantifiers, it has a name (`RingHolds`, `RingTakes`, `SameWord`,
`OnlyBytesAt`), so that a leaf cites it as one fact and expands it in a step of its own.

Only model-checked, since the provers have no rule for them, are the liveness properties: `CallReturns` and
`StopEndsCall` of `CpuExec`, `QuitEnds` and `FramesGoOn` of `Devices`, `LoadEnds` of `Loader`. For `CpuExec` and `Loader` the
part of them that is not about fairness, a bound that each step lowers, is proved (`CallAdvances`, `LoadAdvances`); that
some step is always possible is left to TLC. Every other
property of a run that passes is stated by a theorem. The four violated
statements are shown by a behaviour that TLC prints.

## Not modelled, and why

* The text of logs and dumps, and the byte sent to `stdout`: no state of the emulator depends on them.
* `src/dev/spi.c` is wholly inside `#if 0`; `include/cpu/x86_64.h`, `include/macro.h` and the C++ pointer class of
  `nemu.h` have no operations.
* `paddr_peek`, `is_uncached`, `serial_enqueue_ascii`, `sdl_clear_event_queue`, `assume_elf_file` and
  `get_current_instr`: nothing calls them. `symbol_file` is stored and never read.
* The receive buffers of the MAC: nothing writes them, so a load gives 0.
* SIGINT between the instructions of a single step of the model: every store
  of the thread to a variable the handler touches is a step of its own. A store of
  the guest to the video memory that the timer interrupts half-way is drawn half-way; the
  next frame has it whole.
* ELF files whose program headers are not sound, as said at `Loader`, and sizes near 2^32, as said at `Mmio`.
* `exit` and `printf` within the signal handler of the timer (they may meet the
  guest's own `printf`): what they do is in the C library.

## Plan

1. `Devices` over the detailed `Serial` in place of its FIFO: `SerialProofs!ImplementsByteFifo` proves that
   this FIFO is what `Serial` gives to a guest that polls; a module that composes the two would show
   it within the handler's steps.
2. The lemmas about rings that several proofs share, in one place.

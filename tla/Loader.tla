------------------------------- MODULE Loader -------------------------------
(***************************************************************************)
(* The start of the emulator, monitor.c: the options are taken in order,   *)
(* -u loading its file at once, and then the ELF file or the image is      *)
(* loaded; at last bram_init writes the boot stub and the CPU starts.      *)
(* read_file is modelled call by call of read, which may return less than  *)
(* asked, or fail.                                                         *)
(*                                                                         *)
(* The headers of an ELF file are one cell of the file, Magic, which a     *)
(* read does not cut and no other part of a file looks like.               *)
(* Uninitialised memory, and what lies behind a buffer, is Junk.           *)
(***************************************************************************)
EXTENDS Integers, Sequences

CONSTANTS Names, NULL,     \* of files, and no file
          Content,         \* the cells of each file that exists
          Links,           \* symbolic links: Content is that of the file
          Segments,        \* the program headers of each ELF file
          Zero, Magic, Junk, Cells,
          DDR_SIZE, BRAM_SIZE,
          uimage_base,     \* the offset in the DDR
          Entry,           \* and their entry points
          DefaultEntry,    \* 0xbfc00000
          BootStub,        \* what bram_init writes, for each entry point
          Options, MaxArgs,\* what argv is made of
          MaxSize,         \* the largest size that lstat may seem to return
          LEN_SPACE        \* values of a size_t

Files == DOMAIN Content

Size(dev) == IF dev = "ddr" THEN DDR_SIZE ELSE BRAM_SIZE
Place     == [dev : {"ddr", "bram"}, off : 0 .. DDR_SIZE + BRAM_SIZE]

\* Of an ELF file, load_elf checks the magic number only.  Its headers are
\* assumed to be sound: the part of a segment lies within the file, and is not
\* longer than the segment (else load_elf copies what is behind the buffer, and
\* the length of its memset is less than 0).
ASSUME LoaderAssumption ==
    /\ NULL \notin Names /\ Files \subseteq Names /\ Links \subseteq Files
    /\ Content \in [Files -> Seq(Cells)]
    /\ {Zero, Magic, Junk} \subseteq Cells /\ Junk # Magic
    /\ \A f \in Files : \A i \in DOMAIN Content[f] : i > 1 => Content[f][i] # Magic
    /\ \A f \in Files : Len(Content[f]) <= MaxSize
    /\ DOMAIN Segments = {f \in Files : Content[f] # <<>> /\ Content[f][1] = Magic}
    /\ \A f \in DOMAIN Segments : Len(Segments[f]) \in Nat
    /\ \A f \in DOMAIN Segments : \A i \in 1 .. Len(Segments[f]) :
          LET s == Segments[f][i]
          IN  /\ s.at \in Place /\ s.filesz \in Nat /\ s.memsz \in Nat /\ s.offset \in Nat
              /\ s.filesz <= s.memsz /\ s.offset + s.filesz <= Len(Content[f])
    /\ BRAM_SIZE \in Nat \ {0} /\ DDR_SIZE \in Nat /\ uimage_base \in 0 .. DDR_SIZE
    /\ Entry \in [DOMAIN Segments -> DOMAIN BootStub] /\ DefaultEntry \in DOMAIN BootStub
    /\ \A e \in DOMAIN BootStub : BootStub[e] \in Seq(Cells) /\ Len(BootStub[e]) <= BRAM_SIZE
    /\ Options \subseteq [opt : {"u", "i", "e"}, file : Names] \cup [opt : {"flag", "h"}]
    /\ MaxSize \in Nat /\ MaxArgs \in Nat /\ LEN_SPACE \in Nat /\ LEN_SPACE > MaxSize

VARIABLES argv, optind,
          img_file, elf_file, elf_entry,
          phase,          \* where init_monitor is
          job,            \* the file being loaded
          size, len, buf, \* of read_file; buf is <<>> before and if it is NULL
          fpos,           \* the offset of the open file
          ph,             \* the next program header
          mem, bram_mapped,
          \* History, for the properties only:
          sized, errors, short  \* sizes were right, a read failed or was short

optVars  == <<argv, optind, img_file, elf_file>>
readVars == <<size, len, buf, fpos>>
memVars  == <<mem, bram_mapped>>
vars == <<optVars, elf_entry, phase, job, readVars, ph, memVars, sized, errors, short>>

Min2(x, y) == IF x <= y THEN x ELSE y

NoJob == [file |-> NULL, kind |-> "none"]

Argvs == UNION {[1 .. n -> Options] : n \in 0 .. MaxArgs}

Init == /\ argv \in Argvs /\ optind = 1
        /\ img_file = NULL /\ elf_file = NULL /\ elf_entry = DefaultEntry
        /\ phase = "parse" /\ job = NoJob
        /\ size = 0 /\ len = 0 /\ buf = <<>> /\ fpos = 0 /\ ph = 1
        /\ mem = [dev \in {"ddr", "bram"} |-> [o \in 0 .. Size(dev) - 1 |-> Zero]]
        /\ bram_mapped = FALSE
        /\ sized = TRUE /\ errors = FALSE /\ short = FALSE

\* get_file_size.  The name of a link's target is not terminated, and lstat's
\* result is not looked at: for a link or a missing file it is anything.
get_file_size(f) == IF f \in Files \ Links THEN {Len(Content[f])} ELSE 0 .. MaxSize

RightSize(f, n) == f \in Files /\ n = Len(Content[f])

-----------------------------------------------------------------------------
\* parse_args

\* load_image begins: the size is asked for here, and again by read_file.
StartImage(f, at) ==
    \E n \in get_file_size(f) :
        /\ job' = [file |-> f, kind |-> "image", at |-> at, size |-> n]
        /\ sized' = (sized /\ RightSize(f, n))
        /\ phase' = "open"

\* The first -i and the first -e count.
ParseImage(arg) == /\ arg.opt = "i"
                   /\ img_file' = IF img_file # NULL THEN img_file ELSE arg.file
                   /\ UNCHANGED <<elf_file, phase, job, sized>>

ParseElf(arg) == /\ arg.opt = "e"
                 /\ elf_file' = IF elf_file # NULL THEN elf_file ELSE arg.file
                 /\ UNCHANGED <<img_file, phase, job, sized>>

ParseKernel(arg) == /\ arg.opt = "u"
                    /\ StartImage(arg.file, [dev |-> "ddr", off |-> uimage_base])
                    /\ UNCHANGED <<img_file, elf_file>>

\* -S, -D, -b and -c load nothing; CpuExec has what work_mode does.
ParseFlag(arg) == /\ arg.opt = "flag"
                  /\ UNCHANGED <<img_file, elf_file, phase, job, sized>>

\* -h, an unknown option, an argument that is none.
ParseHelp(arg) == /\ arg.opt = "h"
                  /\ phase' = "exit"
                  /\ UNCHANGED <<img_file, elf_file, job, sized>>

parse_args == /\ phase = "parse" /\ optind <= Len(argv)
              /\ LET arg == argv[optind]
                 IN  \/ ParseImage(arg) \/ ParseElf(arg) \/ ParseKernel(arg)
                     \/ ParseFlag(arg) \/ ParseHelp(arg)
              /\ optind' = optind + 1
              /\ UNCHANGED <<argv, elf_entry, readVars, ph, memVars, errors, short>>

\* init_monitor, after the options.
Choose == /\ phase = "parse" /\ optind > Len(argv)
          /\ \/ /\ elf_file # NULL
                /\ job' = [file |-> elf_file, kind |-> "elf"]
                /\ phase' = "open"
                /\ UNCHANGED sized
             \/ /\ elf_file = NULL /\ img_file # NULL
                /\ StartImage(img_file, [dev |-> "bram", off |-> 0])
             \/ /\ elf_file = NULL /\ img_file = NULL
                /\ phase' = "fault"
                /\ UNCHANGED <<job, sized>>
          /\ UNCHANGED <<optVars, elf_entry, readVars, ph, memVars, errors, short>>

-----------------------------------------------------------------------------
\* read_file

Open == /\ phase = "open"
        /\ \E n \in get_file_size(job.file) :
              /\ size' = n
              /\ sized' = (sized /\ RightSize(job.file, n))
              /\ buf' = IF job.file \in Files THEN [i \in 1 .. n |-> Junk] ELSE <<>>
        /\ len' = 0 /\ fpos' = 0
        /\ phase' = IF job.file \in Files THEN "read" ELSE "copy"
        /\ UNCHANGED <<optVars, elf_entry, job, ph, memVars, errors, short>>

\* The process may also end here: get_file_size calls itself on the name of a
\* link's target or on what lstat left, for ever if it finds a link each time,
\* and a NULL from malloc, which no read can fill, is copied from or asserted.
OpenFails == /\ phase = "open"
             /\ phase' = "fault"
             /\ UNCHANGED <<optVars, elf_entry, job, readVars, ph, memVars, sized, errors, short>>

Reading == phase = "read" /\ len < size

\* Mutant of Read: the length is assigned, not added to.
ReadAssigns ==
    /\ Reading
    /\ \E n \in 1 .. Min2(size - len, Len(Content[job.file]) - fpos) :
          /\ buf' = [i \in 1 .. size |-> IF i <= n THEN Content[job.file][fpos + i] ELSE buf[i]]
          /\ len' = n /\ fpos' = fpos + n
          /\ short' = (short \/ n < size)
    /\ UNCHANGED <<optVars, elf_entry, phase, job, size, ph, memVars, sized, errors>>

\* read returns n > 0: always to the start of the buffer.  At the end of the
\* file it returns 0, which leaves everything as it is, and the loop goes on.
Read == /\ Reading
        /\ \E n \in 1 .. Min2(size - len, Len(Content[job.file]) - fpos) :
              /\ buf' = [i \in 1 .. size |-> IF i <= n THEN Content[job.file][fpos + i] ELSE buf[i]]
              /\ len' = len + n /\ fpos' = fpos + n
              /\ short' = (short \/ n < size)
        /\ UNCHANGED <<optVars, elf_entry, phase, job, size, ph, memVars, sized, errors>>

\* read returns -1, which is added to the length.
ReadFails == /\ Reading
             /\ len' = (len - 1) % LEN_SPACE
             /\ errors' = TRUE
             /\ UNCHANGED <<optVars, elf_entry, phase, job, size, buf, fpos, ph, memVars, sized, short>>

ReadDone == /\ phase = "read" /\ len >= size
            /\ phase' = "copy"
            /\ UNCHANGED <<optVars, elf_entry, job, readVars, ph, memVars, sized, errors, short>>

-----------------------------------------------------------------------------
\* load_image and load_elf, after read_file

\* paddr_map(at, n), that is ddr_map or bram_map, which add in 32 bits after
\* paddr_map has cut n to them.  A size that is cut, or whose sum wraps, is near
\* 2^32 at least: the copy then leaves the array and ends the process as well.
Loadable(at, n) == at.off < Size(at.dev) /\ at.off + n <= Size(at.dev)

MapAt(at) == bram_mapped' = (bram_mapped \/ (at.dev = "bram" /\ at.off = 0))

\* n cells of the buffer, from offset o on; what is behind it is Junk.
Part(o, n) == [i \in 1 .. n |-> IF o + i <= Len(buf) THEN buf[o + i] ELSE Junk]

PutAt(at, cells) ==
    mem' = [mem EXCEPT ![at.dev] = [o \in 0 .. Size(at.dev) - 1 |->
                IF at.off <= o /\ o < at.off + Len(cells) THEN cells[o - at.off + 1]
                                                          ELSE mem[at.dev][o]]]

Fault == /\ phase' = "fault"
         /\ UNCHANGED <<job, ph, memVars>>

\* memcpy from a NULL buffer is a fault, unless the size is 0.
CopyImage ==
    /\ phase = "copy" /\ job.kind = "image"
    /\ LET possible == Loadable(job.at, job.size) /\ (job.file \in Files \/ job.size = 0)
       IN  \/ /\ possible
              /\ PutAt(job.at, Part(0, job.size)) /\ MapAt(job.at)
              /\ phase' = IF job.at.dev = "ddr" THEN "parse" ELSE "boot"
              /\ job' = NoJob
              /\ UNCHANGED ph
           \/ ~possible /\ Fault
    /\ buf' = <<>> /\ len' = 0 /\ size' = 0 /\ fpos' = 0
    /\ UNCHANGED <<optVars, elf_entry, sized, errors, short>>

\* The file is there and its magic number right.
ElfHeader ==
    /\ phase = "copy" /\ job.kind = "elf"
    /\ LET valid == buf # <<>> /\ Head(buf) = Magic
       IN  \/ /\ valid
              /\ elf_entry' = Entry[job.file]
              /\ phase' = "segments"
              /\ ph' = 1
              /\ UNCHANGED <<job, memVars>>
           \/ ~valid /\ Fault /\ UNCHANGED elf_entry
    /\ UNCHANGED <<optVars, readVars, sized, errors, short>>

\* Mutant of Segment: the memory behind the file's part is not zeroed.
SegmentNoZero ==
    /\ phase = "segments" /\ ph <= Len(Segments[job.file])
    /\ LET s == Segments[job.file][ph]
       IN  \/ /\ s.type # "PT_LOAD"
              /\ ph' = ph + 1
              /\ UNCHANGED <<phase, job, memVars>>
           \/ /\ s.type = "PT_LOAD" /\ Loadable(s.at, s.memsz)
              /\ PutAt(s.at, Part(s.offset, s.filesz))
              /\ MapAt(s.at)
              /\ ph' = ph + 1
              /\ UNCHANGED <<phase, job>>
           \/ s.type = "PT_LOAD" /\ ~Loadable(s.at, s.memsz) /\ Fault
    /\ UNCHANGED <<optVars, elf_entry, readVars, sized, errors, short>>

\* One round of the loop of load_elf.
Segment ==
    /\ phase = "segments" /\ ph <= Len(Segments[job.file])
    /\ LET s == Segments[job.file][ph]
       IN  \/ /\ s.type # "PT_LOAD"
              /\ ph' = ph + 1
              /\ UNCHANGED <<phase, job, memVars>>
           \/ /\ s.type = "PT_LOAD" /\ Loadable(s.at, s.memsz)
              /\ PutAt(s.at, Part(s.offset, s.filesz) \o [i \in 1 .. s.memsz - s.filesz |-> Zero])
              /\ MapAt(s.at)
              /\ ph' = ph + 1
              /\ UNCHANGED <<phase, job>>
           \/ s.type = "PT_LOAD" /\ ~Loadable(s.at, s.memsz) /\ Fault
    /\ UNCHANGED <<optVars, elf_entry, readVars, sized, errors, short>>

SegmentsDone ==
    /\ phase = "segments" /\ ph > Len(Segments[job.file])
    /\ phase' = "boot" /\ job' = NoJob /\ ph' = 1
    /\ buf' = <<>> /\ len' = 0 /\ size' = 0 /\ fpos' = 0
    /\ UNCHANGED <<optVars, elf_entry, memVars, sized, errors, short>>

\* bram_init
Boot == /\ phase = "boot"
        /\ IF bram_mapped THEN UNCHANGED mem ELSE PutAt([dev |-> "bram", off |-> 0], BootStub[elf_entry])
        /\ phase' = "run"
        /\ UNCHANGED <<optVars, elf_entry, job, readVars, ph, bram_mapped, sized, errors, short>>

Step == \/ parse_args \/ Choose \/ Open \/ Read \/ ReadDone
        \/ CopyImage \/ ElfHeader \/ Segment \/ SegmentsDone \/ Boot

Next == Step \/ OpenFails \/ ReadFails

\* The process runs; opening a file, and a read of one that has more to give,
\* need not fail.
Spec == Init /\ [][Next]_vars /\ WF_vars(Step)
-----------------------------------------------------------------------------
TypeOK == /\ argv \in Argvs /\ optind \in 1 .. MaxArgs + 1
          /\ img_file \in Names \cup {NULL} /\ elf_file \in Names \cup {NULL}
          /\ elf_entry \in DOMAIN BootStub
          /\ phase \in {"parse", "open", "read", "copy", "segments", "boot", "run", "fault", "exit"}
          /\ size \in 0 .. MaxSize /\ len \in 0 .. LEN_SPACE - 1
          /\ buf \in Seq(Cells)
          /\ fpos \in 0 .. MaxSize
          /\ DOMAIN mem = {"ddr", "bram"}
          /\ \A dev \in {"ddr", "bram"} : mem[dev] \in [0 .. Size(dev) - 1 -> Cells]
          /\ bram_mapped \in BOOLEAN
          /\ sized \in BOOLEAN /\ errors \in BOOLEAN /\ short \in BOOLEAN

\* What is being loaded; read_file goes on only with a file that is there.
JobOK ==
    /\ phase \in {"open", "read", "copy", "segments"} =>
          \/ job \in [file : Names, kind : {"elf"}]
          \/ job \in [file : Names, kind : {"image"}, at : Place, size : 0 .. MaxSize]
    /\ phase \in {"read", "segments"} => job.file \in Files
    /\ phase = "segments" => job.file \in DOMAIN Segments /\ ph \in Nat \ {0}

\* While read has not failed, len is how far the file has been read; if no
\* read was short either, and the size is right, the buffer that read_file
\* returns is the file.
ReadSoFar ==
    phase = "read" =>
        /\ fpos <= Len(Content[job.file]) /\ Len(buf) = size
        /\ sized => size = Len(Content[job.file])
        /\ ~errors => len = fpos
        /\ sized /\ ~errors /\ ~short => len = 0 \/ buf = Content[job.file]

BufferIsFile ==
    phase \in {"copy", "segments"} /\ sized /\ ~errors /\ ~short => buf = Content[job.file]

\* However it was read, what looks like an ELF file is one.
MagicOfElf == phase \in {"read", "copy"} /\ Len(buf) > 0 =>
                  (buf[1] = Magic => job.file \in DOMAIN Segments)

\* What the user asks for with args, said of the whole of them at once: the
\* rounds in which cells go to memory, -u at its place in args and the program
\* behind them, segment by segment; and the place and the cells of each round.
Given(args, opt) == {i \in DOMAIN args : args[i].opt = opt}

IsFirst(args, opt, i) == i \in Given(args, opt) /\ \A j \in Given(args, opt) : i <= j
First(args, opt)      == args[CHOOSE i \in DOMAIN args : IsFirst(args, opt, i)].file

KernelAt == [dev |-> "ddr", off |-> uimage_base]
Reset    == [dev |-> "bram", off |-> 0]

SegmentCells(f, s) == [k \in 1 .. s.memsz |-> IF k <= s.filesz THEN Content[f][s.offset + k]
                                                              ELSE Zero]

\* An ELF file goes before an image, and the first of its kind counts.
Rounds(args) ==
    Given(args, "u") \cup
    IF Given(args, "e") # {}
    THEN {t \in Len(args) + 1 .. Len(args) + Len(Segments[First(args, "e")]) :
             Segments[First(args, "e")][t - Len(args)].type = "PT_LOAD"}
    ELSE {Len(args) + 1}

Piece(args, t) ==
    IF t <= Len(args) THEN [at |-> KernelAt, cells |-> Content[args[t].file]]
    ELSE IF Given(args, "e") # {}
         THEN LET s == Segments[First(args, "e")][t - Len(args)]
              IN  [at |-> s.at, cells |-> SegmentCells(First(args, "e"), s)]
         ELSE [at |-> Reset, cells |-> Content[First(args, "i")]]

Within(at, n, dev, o)   == at.dev = dev /\ at.off <= o /\ o < at.off + n
Covers(piece, dev, o)   == Within(piece.at, Len(piece.cells), dev, o)
CellOf(piece, o)        == piece.cells[o - piece.at.off + 1]

\* What a place holds after these rounds of args: nothing if none covers it,
\* and if reads were clean the cell of the last one that does.
After(rounds, args, clean, dev, o, cell) ==
    LET on == {t \in rounds : Covers(Piece(args, t), dev, o)}
    IN  /\ on = {} => cell = Zero
        /\ clean => \A t \in on : (\A u \in on : u <= t) => cell = CellOf(Piece(args, t), o)

Clean == ~errors /\ ~short

\* The stub comes last, unless a piece begins where the CPU starts.
Stub(args) == BootStub[Entry[First(args, "e")]]
StubAsked(args, dev, o) == /\ \A t \in Rounds(args) : Piece(args, t).at # Reset
                           /\ Within(Reset, Len(Stub(args)), dev, o)

\* When the CPU starts, memory holds what the options ask for, whatever their
\* order and number, if every file was read in one piece; and if reads were
\* short or failed, still nothing but the places asked for has been written.
LoadedAsAsked ==
    phase = "run" /\ sized =>
        \A dev \in {"ddr", "bram"} : \A o \in 0 .. Size(dev) - 1 :
            IF StubAsked(argv, dev, o) THEN mem[dev][o] = Stub(argv)[o + 1]
                                       ELSE After(Rounds(argv), argv, Clean, dev, o, mem[dev][o])

\* While it loads: the file of an option is the first that was given so far,
Taken(args, n, opt, file) ==
    IF file = NULL THEN \A i \in Given(args, opt) : i >= n
                   ELSE \E i \in DOMAIN args : /\ i < n /\ IsFirst(args, opt, i)
                                               /\ args[i].file = file

FilesTaken == Taken(argv, optind, "e", elf_file) /\ Taken(argv, optind, "i", img_file)

\* the job is the kernel of the last option, or the program after all of them,
Loading   == phase \in {"open", "read", "copy"}
KernelJob == job.kind = "image" /\ job.at = KernelAt

KernelAsked  == optind - 1 \in Given(argv, "u") /\ job.file = argv[optind - 1].file
ImageAsked   == /\ job.at = Reset /\ optind = Len(argv) + 1
                /\ Given(argv, "e") = {} /\ job.file = First(argv, "i")
ElfAsked     == /\ job.kind = "elf" /\ optind = Len(argv) + 1
                /\ Given(argv, "e") # {} /\ job.file = First(argv, "e")

JobAsked ==
    /\ optind <= Len(argv) + 1
    /\ Loading => IF job.kind = "image" THEN IF KernelJob THEN KernelAsked ELSE ImageAsked
                                        ELSE ElfAsked
    /\ Loading /\ job.kind = "image" /\ sized => RightSize(job.file, job.size)
    /\ phase = "segments" => ElfAsked
    /\ phase \in {"segments", "boot"} /\ Given(argv, "e") # {} =>
          elf_entry = Entry[First(argv, "e")]

\* and memory holds what the rounds so far give.
DoneRounds == CASE phase = "boot"       -> Rounds(argv)
                [] phase = "segments"   -> {t \in Rounds(argv) : t < Len(argv) + ph}
                [] Loading /\ KernelJob -> {t \in Given(argv, "u") : t < optind - 1}
                [] OTHER                -> {t \in Given(argv, "u") : t < optind}

MemAsked ==
    sized /\ phase \in {"parse", "open", "read", "copy", "segments", "boot"} =>
        /\ bram_mapped <=> \E t \in DoneRounds : Piece(argv, t).at = Reset
        /\ \A dev \in {"ddr", "bram"} : \A o \in 0 .. Size(dev) - 1 :
              After(DoneRounds, argv, Clean, dev, o, mem[dev][o])

ReadInv == TypeOK /\ JobOK /\ ReadSoFar /\ BufferIsFile /\ MagicOfElf
IInv    == ReadInv /\ FilesTaken /\ JobAsked /\ MemAsked

\* How far init_monitor is from its end: options that are left, what is left to
\* do with the file of an option or with the program, and within that the
\* cells or the program headers that are left.
ToTake == Len(argv) + 1 - optind

Base == IF KernelJob THEN 6 * ToTake + 6 ELSE 2

Stage == CASE phase = "parse"    -> 6 * ToTake + 6
           [] phase = "open"     -> Base + 3
           [] phase = "read"     -> Base + 2
           [] phase = "copy"     -> Base + 1
           [] phase = "segments" -> 2
           [] phase = "boot"     -> 1
           [] OTHER              -> 0

Pieces == CASE phase = "read"     -> IF len < size THEN size - len ELSE 0
            [] phase = "segments" -> Len(Segments[job.file]) + 1 - ph
            [] OTHER              -> 0

\* A read that fails does nothing but change the length.
Failed == /\ phase = "read" /\ errors' /\ len' = (len - 1) % LEN_SPACE
          /\ UNCHANGED <<optVars, elf_entry, phase, job, size, buf, fpos, ph, memVars>>

\* Whatever the options, the files and their headers are, and however reads are
\* split, every step but a failing read takes init_monitor nearer to its end
\* (monitor.c:48-50, 73-80, 136-165); a read of 0 bytes changes nothing.
Advance == \/ Stage' \in 0 .. Stage - 1
           \/ Stage' = Stage /\ Pieces' \in 0 .. Pieces - 1
           \/ Failed

LoadAdvances == [][Advance]_vars

\* Loading ends, short reads or not, if no read fails and sizes are right.
\* (After a failed read or with a size too large, read_file may wait for ever
\* at the end of the file.)
LoadEnds == (phase = "read") ~> (phase # "read" \/ errors \/ ~sized)
=============================================================================

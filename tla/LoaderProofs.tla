---------------------------- MODULE LoaderProofs ----------------------------
(***************************************************************************)
(* The loader for every set of files, options and sizes: a file that was   *)
(* read in one piece is in the buffer as it is, the process does not take  *)
(* anything for an ELF file that is none, and when the CPU starts memory   *)
(* holds what the options ask for.                                         *)
(***************************************************************************)
EXTENDS Loader, TLAPS

Jobs == [file : Names, kind : {"elf"}]
          \cup [file : Names, kind : {"image"}, at : Place, size : 0 .. MaxSize]

LEMMA Numbers ==
    /\ MaxSize \in Nat /\ LEN_SPACE \in Nat /\ LEN_SPACE > MaxSize
    /\ MaxArgs \in Nat /\ DDR_SIZE \in Nat /\ BRAM_SIZE \in Nat
    /\ Size("ddr") \in Nat /\ Size("bram") \in Nat
    /\ {Zero, Magic, Junk} \subseteq Cells /\ Junk # Magic
  BY LoaderAssumption DEF Size

LEMMA ContentType ==
    ASSUME NEW f \in Files
    PROVE  /\ f \in Names /\ Content[f] \in Seq(Cells)
           /\ Len(Content[f]) \in Nat /\ Len(Content[f]) <= MaxSize
           /\ \A i \in 1 .. Len(Content[f]) : Content[f][i] \in Cells
  <1>1. Content[f] \in Seq(Cells)
    BY LoaderAssumption
  <1>2. f \in Names /\ Len(Content[f]) <= MaxSize
    BY LoaderAssumption
  <1>3. QED
    BY <1>1, <1>2

\* A file that has Magic has it in its first cell, and is an ELF file.
LEMMA MagicIsFirst ==
    ASSUME NEW f \in Files, NEW i \in 1 .. Len(Content[f]), Content[f][i] = Magic
    PROVE  i = 1 /\ f \in DOMAIN Segments
  <1>1. DOMAIN Content[f] = 1 .. Len(Content[f]) /\ Len(Content[f]) \in Nat
    BY ContentType
  <1>2. ~(i > 1)
    BY <1>1, LoaderAssumption
  <1>3. i = 1
    BY <1>1, <1>2
  <1>4. Content[f] # <<>>
    BY <1>1
  <1>5. QED
    BY <1>3, <1>4, LoaderAssumption

LEMMA FileSize ==
    ASSUME NEW f, NEW n \in get_file_size(f)
    PROVE  n \in 0 .. MaxSize /\ (RightSize(f, n) => f \in Files /\ n = Len(Content[f]))
  BY ContentType DEF get_file_size, RightSize

LEMMA OptionType ==
    ASSUME TypeOK, optind <= Len(argv)
    PROVE  /\ argv[optind] \in Options
           /\ argv[optind].opt \in {"u", "i", "e"} => argv[optind].file \in Names
           /\ optind + 1 \in 1 .. MaxArgs + 1
  <1>1. PICK n \in 0 .. MaxArgs : argv \in [1 .. n -> Options]
    BY DEF TypeOK, Argvs
  <1>2. Len(argv) = n /\ n \in Nat
    BY <1>1, Numbers
  <1>3. optind \in 1 .. n
    BY <1>2, Numbers DEF TypeOK
  <1>4. argv[optind] \in Options
    BY <1>1, <1>3
  <1>5. argv[optind] \in [opt : {"u", "i", "e"}, file : Names] \cup [opt : {"flag", "h"}]
    BY <1>4, LoaderAssumption
  <1>6. QED
    BY <1>1, <1>3, <1>4, <1>5, Numbers

\* Copying keeps the memories what they are.
MemOK(m) == /\ DOMAIN m = {"ddr", "bram"}
            /\ \A dev \in {"ddr", "bram"} : m[dev] \in [0 .. Size(dev) - 1 -> Cells]

LEMMA PartType ==
    ASSUME NEW o \in Nat, NEW n \in Nat, buf \in Seq(Cells)
    PROVE  Part(o, n) \in Seq(Cells) /\ Len(Part(o, n)) = n
  <1>1. \A i \in 1 .. n : o + i <= Len(buf) => o + i \in 1 .. Len(buf)
    OBVIOUS
  <1>2. Part(o, n) \in [1 .. n -> Cells]
    BY <1>1, Numbers DEF Part
  <1>3. QED
    BY <1>2

LEMMA PutKeepsMem ==
    ASSUME MemOK(mem), NEW at \in Place, NEW cells \in Seq(Cells), PutAt(at, cells)
    PROVE  MemOK(mem')
  <1> DEFINE new == [o \in 0 .. Size(at.dev) - 1 |->
                       IF at.off <= o /\ o < at.off + Len(cells) THEN cells[o - at.off + 1]
                                                                 ELSE mem[at.dev][o]]
  <1>1. at.dev \in {"ddr", "bram"} /\ at.off \in Nat
    BY Numbers DEF Place
  <1>2. ASSUME NEW o \in 0 .. Size(at.dev) - 1 PROVE new[o] \in Cells
    <2>1. o \in Nat
      OBVIOUS
    <2>2. CASE at.off <= o /\ o < at.off + Len(cells)
      <3>1. o - at.off + 1 \in 1 .. Len(cells)
        BY <1>1, <2>1, <2>2
      <3>2. QED
        BY <2>2, <3>1
    <2>3. CASE ~(at.off <= o /\ o < at.off + Len(cells))
      <3>1. mem[at.dev][o] \in Cells
        BY <1>1 DEF MemOK
      <3>2. QED
        BY <2>3, <3>1
    <2>4. QED
      BY <2>2, <2>3
  <1>3. new \in [0 .. Size(at.dev) - 1 -> Cells]
    BY <1>2
  <1>4. mem' = [mem EXCEPT ![at.dev] = new]
    BY DEF PutAt
  <1> HIDE DEF new
  <1>5. QED
    BY <1>1, <1>3, <1>4 DEF MemOK
-----------------------------------------------------------------------------
LEMMA TypeMem == TypeOK => MemOK(mem)
  BY DEF TypeOK, MemOK

LEMMA InitInvariant == Init => ReadInv
  <1> SUFFICES ASSUME Init PROVE ReadInv
    OBVIOUS
  <1>1. argv \in Argvs /\ optind \in 1 .. MaxArgs + 1
    BY Numbers DEF Init
  <1>2. elf_entry \in DOMAIN BootStub
    BY LoaderAssumption DEF Init
  <1>3. buf \in Seq(Cells) /\ Len(buf) = 0
    BY DEF Init
  <1>4. /\ size \in 0 .. MaxSize /\ len \in 0 .. LEN_SPACE - 1 /\ fpos \in 0 .. MaxSize
        /\ phase = "parse"
    BY Numbers DEF Init
  <1>5. MemOK(mem)
    <2>1. \A dev \in {"ddr", "bram"} : mem[dev] \in [0 .. Size(dev) - 1 -> Cells]
      BY Numbers DEF Init
    <2>2. DOMAIN mem = {"ddr", "bram"}
      BY DEF Init
    <2>3. QED
      BY <2>1, <2>2 DEF MemOK
  <1>6. /\ img_file \in Names \cup {NULL} /\ elf_file \in Names \cup {NULL}
        /\ bram_mapped \in BOOLEAN /\ sized \in BOOLEAN
        /\ errors \in BOOLEAN /\ short \in BOOLEAN
    BY DEF Init
  <1>7. TypeOK
    BY <1>1, <1>2, <1>3, <1>4, <1>5, <1>6 DEF TypeOK, MemOK
  <1>8. QED
    BY <1>4, <1>7 DEF ReadInv, JobOK, ReadSoFar, BufferIsFile, MagicOfElf

\* A file is about to be loaded.
LEMMA StartType ==
    ASSUME TypeOK, NEW f \in Names, NEW at \in Place, StartImage(f, at)
    PROVE  job' \in Jobs /\ sized' \in BOOLEAN /\ phase' = "open"
  <1>1. PICK n \in get_file_size(f) :
            /\ job' = [file |-> f, kind |-> "image", at |-> at, size |-> n]
            /\ sized' = (sized /\ RightSize(f, n)) /\ phase' = "open"
    BY DEF StartImage
  <1>2. n \in 0 .. MaxSize
    BY FileSize
  <1>3. QED
    BY <1>1, <1>2 DEF Jobs

\* Nothing of the last three parts of the invariant is at stake.
LEMMA Elsewhere ==
    ASSUME TypeOK', phase' \in {"parse", "open", "boot", "run", "fault", "exit"},
           phase' = "open" => job' \in Jobs
    PROVE  ReadInv'
  BY DEF ReadInv, JobOK, ReadSoFar, BufferIsFile, MagicOfElf, Jobs

LEMMA ParseInvariant == ASSUME ReadInv, parse_args PROVE ReadInv'
  <1> DEFINE arg == argv[optind]
  <1>1. TypeOK /\ phase = "parse" /\ optind <= Len(argv) /\ optind' = optind + 1
        /\ UNCHANGED <<argv, elf_entry, readVars, ph, memVars, errors, short>>
    BY DEF ReadInv, parse_args
  <1>2. /\ arg.opt \in {"u", "i", "e"} => arg.file \in Names
        /\ optind' \in 1 .. MaxArgs + 1
    BY <1>1, OptionType
  <1>3. ParseImage(arg) \/ ParseElf(arg) \/ ParseKernel(arg) \/ ParseFlag(arg) \/ ParseHelp(arg)
    BY DEF parse_args
  <1> HIDE DEF arg
  <1>4. /\ img_file' \in Names \cup {NULL} /\ elf_file' \in Names \cup {NULL}
        /\ sized' \in BOOLEAN /\ phase' \in {"parse", "open", "exit"}
        /\ phase' = "open" => job' \in Jobs
    <2>1. CASE ParseImage(arg)
      BY <1>1, <1>2, <2>1 DEF ParseImage, TypeOK
    <2>2. CASE ParseElf(arg)
      BY <1>1, <1>2, <2>2 DEF ParseElf, TypeOK
    <2>3. CASE ParseKernel(arg)
      <3>1. [dev |-> "ddr", off |-> uimage_base] \in Place
        BY LoaderAssumption, Numbers DEF Place
      <3>2. arg.file \in Names /\ StartImage(arg.file, [dev |-> "ddr", off |-> uimage_base])
        BY <1>2, <2>3 DEF ParseKernel
      <3>3. job' \in Jobs /\ sized' \in BOOLEAN /\ phase' = "open"
        BY <1>1, <3>1, <3>2, StartType
      <3>4. QED
        BY <1>1, <2>3, <3>3 DEF ParseKernel, TypeOK
    <2>4. CASE ParseFlag(arg) \/ ParseHelp(arg)
      BY <1>1, <2>4 DEF ParseFlag, ParseHelp, TypeOK
    <2>5. QED
      BY <1>3, <2>1, <2>2, <2>3, <2>4
  <1>5. TypeOK'
    BY <1>1, <1>2, <1>4 DEF TypeOK, readVars, memVars
  <1>6. QED
    BY <1>4, <1>5, Elsewhere

LEMMA ChooseInvariant == ASSUME ReadInv, Choose PROVE ReadInv'
  <1>1. TypeOK /\ UNCHANGED <<optVars, elf_entry, readVars, ph, memVars, errors, short>>
    BY DEF ReadInv, Choose
  <1>2. sized' \in BOOLEAN /\ phase' \in {"open", "fault"} /\ (phase' = "open" => job' \in Jobs)
    <2>1. CASE elf_file # NULL
      <3>1. elf_file \in Names
        BY <1>1, <2>1 DEF TypeOK
      <3>2. QED
        BY <1>1, <2>1, <3>1 DEF Choose, TypeOK, Jobs
    <2>2. CASE elf_file = NULL /\ img_file # NULL
      <3>1. img_file \in Names /\ [dev |-> "bram", off |-> 0] \in Place
        BY <1>1, <2>2, Numbers DEF TypeOK, Place
      <3>2. StartImage(img_file, [dev |-> "bram", off |-> 0])
        BY <2>2 DEF Choose
      <3>3. QED
        BY <1>1, <3>1, <3>2, StartType
    <2>3. CASE elf_file = NULL /\ img_file = NULL
      BY <1>1, <2>3 DEF Choose, TypeOK
    <2>4. QED
      BY <2>1, <2>2, <2>3
  <1>3. TypeOK'
    BY <1>1, <1>2 DEF TypeOK, optVars, readVars, memVars
  <1>4. QED
    BY <1>2, <1>3, Elsewhere

LEMMA OpenInvariant == ASSUME ReadInv, Open PROVE ReadInv'
  <1> DEFINE f == job.file
  <1>1. /\ TypeOK /\ job \in Jobs /\ job' = job /\ len' = 0 /\ fpos' = 0
        /\ phase' = IF f \in Files THEN "read" ELSE "copy"
        /\ UNCHANGED <<optVars, elf_entry, job, ph, memVars, errors, short>>
    BY DEF ReadInv, Open, JobOK, Jobs
  <1>2. PICK n \in get_file_size(f) :
            /\ size' = n /\ sized' = (sized /\ RightSize(f, n))
            /\ buf' = IF f \in Files THEN [i \in 1 .. n |-> Junk] ELSE <<>>
    BY DEF Open
  <1>3. n \in 0 .. MaxSize /\ (sized' => f \in Files /\ n = Len(Content[f]))
    BY <1>2, FileSize
  <1>4. /\ buf' \in Seq(Cells) /\ (f \in Files => Len(buf') = n)
        /\ Len(buf') > 0 => buf'[1] # Magic
    <2>1. CASE f \in Files
      <3>1. buf' = [i \in 1 .. n |-> Junk] /\ n \in Nat
        BY <1>2, <1>3, <2>1, Numbers
      <3>2. buf' \in [1 .. n -> Cells]
        BY <3>1, Numbers
      <3>3. QED
        BY <3>1, <3>2, Numbers
    <2>2. CASE f \notin Files
      BY <1>2, <2>2
    <2>3. QED
      BY <2>1, <2>2
  <1>5. sized' \in BOOLEAN
    BY <1>1, <1>2 DEF TypeOK
  <1>6. TypeOK'
    BY <1>1, <1>2, <1>3, <1>4, <1>5, Numbers DEF TypeOK, optVars, memVars
  <1>7. JobOK'
    BY <1>1 DEF JobOK, Jobs
  <1>8. ReadSoFar' /\ BufferIsFile'
    <2>1. CASE f \in Files
      BY <1>1, <1>2, <1>3, <1>4, <2>1, ContentType DEF ReadSoFar, BufferIsFile
    <2>2. CASE f \notin Files
      BY <1>1, <1>3, <2>2 DEF ReadSoFar, BufferIsFile
    <2>3. QED
      BY <2>1, <2>2
  <1>9. MagicOfElf'
    BY <1>4 DEF MagicOfElf
  <1>10. QED
    BY <1>6, <1>7, <1>8, <1>9 DEF ReadInv

-----------------------------------------------------------------------------
\* The loop of read_file.

LEMMA Min2Bound == ASSUME NEW x \in Int, NEW y \in Int, NEW n \in 1 .. Min2(x, y)
                   PROVE  n \in Nat /\ n >= 1 /\ n <= x /\ n <= y
  BY DEF Min2

LEMMA ReadInvariant == ASSUME ReadInv, Read PROVE ReadInv'
  <1> DEFINE f == job.file
             c == Content[f]
  <1>1. /\ TypeOK /\ JobOK /\ ReadSoFar /\ MagicOfElf /\ phase = "read" /\ len < size
        /\ f \in Files
        /\ UNCHANGED <<optVars, elf_entry, phase, job, size, ph, memVars, sized, errors>>
    BY DEF ReadInv, Read, Reading, JobOK
  <1>2. PICK n \in 1 .. Min2(size - len, Len(c) - fpos) :
            /\ buf' = [i \in 1 .. size |-> IF i <= n THEN c[fpos + i] ELSE buf[i]]
            /\ len' = len + n /\ fpos' = fpos + n
            /\ short' = (short \/ n < size)
    BY DEF Read
  <1>3. /\ size \in 0 .. MaxSize /\ len \in Nat /\ fpos \in Nat /\ buf \in Seq(Cells)
        /\ short \in BOOLEAN
    BY <1>1, Numbers DEF TypeOK
  <1>4. /\ c \in Seq(Cells) /\ Len(c) \in Nat /\ Len(c) <= MaxSize
        /\ \A i \in 1 .. Len(c) : c[i] \in Cells
        /\ \A i \in 1 .. Len(c) : c[i] = Magic => i = 1 /\ f \in DOMAIN Segments
    BY <1>1, ContentType, MagicIsFirst
  <1>5. /\ fpos <= Len(c) /\ Len(buf) = size /\ (~errors => len = fpos)
        /\ sized => size = Len(c)
        /\ sized /\ ~errors /\ ~short => len = 0 \/ buf = c
    BY <1>1 DEF ReadSoFar
  <1> HIDE DEF c
  <1>6. n \in Nat /\ n >= 1 /\ len + n <= size /\ fpos + n <= Len(c)
    <2>1. size - len \in Int /\ Len(c) - fpos \in Int
      BY <1>3, <1>4
    <2>2. n \in Nat /\ n >= 1 /\ n <= size - len /\ n <= Len(c) - fpos
      BY <1>2, <2>1, Min2Bound, Zenon
    <2>3. QED
      BY <1>3, <1>4, <2>2
  <1>7. buf' \in Seq(Cells) /\ Len(buf') = size /\ size \in Nat
        /\ \A i \in 1 .. size : buf'[i] = IF i <= n THEN c[fpos + i] ELSE buf[i]
    <2>1. ASSUME NEW i \in 1 .. size PROVE (IF i <= n THEN c[fpos + i] ELSE buf[i]) \in Cells
      <3>1. i \in Nat /\ i >= 1
        BY <1>3, Numbers
      <3>2. CASE i <= n
        <4>1. fpos + i \in 1 .. Len(c)
          BY <1>3, <1>4, <1>6, <3>1, <3>2
        <4>2. QED
          BY <1>4, <3>2, <4>1
      <3>3. CASE ~(i <= n)
        <4>1. buf[i] \in Cells
          BY <1>3, <1>5
        <4>2. QED
          BY <3>3, <4>1
      <3>4. QED
        BY <3>2, <3>3
    <2>2. size \in Nat
      BY <1>3, Numbers
    <2>3. buf' \in [1 .. size -> Cells]
      BY <1>2, <2>1
    <2>4. QED
      BY <1>2, <2>2, <2>3
  <1>8. TypeOK'
    <2>1. len' \in 0 .. LEN_SPACE - 1 /\ fpos' \in 0 .. MaxSize /\ short' \in BOOLEAN
      BY <1>2, <1>3, <1>4, <1>6, Numbers
    <2>2. QED
      BY <1>1, <1>7, <2>1 DEF TypeOK, optVars, memVars
  <1>9. ReadSoFar'
    <2>1. fpos' <= Len(c) /\ Len(buf') = size' /\ (sized' => size' = Len(c))
      BY <1>1, <1>2, <1>5, <1>6, <1>7
    <2>2. ~errors' => len' = fpos'
      BY <1>1, <1>2, <1>5
    <2>3. ASSUME sized', ~errors', ~short' PROVE buf' = c
      <3>1. sized /\ ~errors /\ ~short /\ ~(n < size)
        BY <1>1, <1>2, <2>3
      <3>2. size = Len(c) /\ n = size /\ fpos = 0
        BY <1>3, <1>4, <1>5, <1>6, <1>7, <3>1
      <3>3. \A i \in 1 .. size : buf'[i] = c[i]
        BY <1>7, <3>2
      <3>4. QED
        BY <1>4, <1>7, <3>2, <3>3
    <2>4. QED
      BY <1>1, <2>1, <2>2, <2>3 DEF ReadSoFar, c
  <1>10. MagicOfElf'
    <2>1. ASSUME Len(buf') > 0, buf'[1] = Magic PROVE f \in DOMAIN Segments
      <3>1. 1 \in 1 .. size /\ 1 <= n
        BY <1>6, <1>7, <2>1
      <3>2. buf'[1] = c[fpos + 1]
        BY <1>7, <3>1
      <3>3. fpos + 1 \in 1 .. Len(c)
        BY <1>3, <1>4, <1>6
      <3>4. QED
        BY <1>4, <2>1, <3>2, <3>3
    <2>2. QED
      BY <1>1, <2>1 DEF MagicOfElf
  <1>11. JobOK' /\ BufferIsFile'
    BY <1>1 DEF JobOK, BufferIsFile
  <1>12. QED
    BY <1>8, <1>9, <1>10, <1>11 DEF ReadInv

LEMMA ReadFailsInvariant == ASSUME ReadInv, ReadFails PROVE ReadInv'
  <1>1. /\ TypeOK /\ JobOK /\ ReadSoFar /\ MagicOfElf /\ phase = "read"
        /\ len' = (len - 1) % LEN_SPACE /\ errors' = TRUE
        /\ UNCHANGED <<optVars, elf_entry, phase, job, size, buf, fpos, ph, memVars, sized, short>>
    BY DEF ReadInv, ReadFails, Reading
  <1>2. len' \in 0 .. LEN_SPACE - 1
    <2>1. len \in Int /\ LEN_SPACE \in Nat /\ LEN_SPACE > 0
      BY <1>1, Numbers DEF TypeOK
    <2>2. QED
      BY <1>1, <2>1, SMT
  <1>3. TypeOK'
    BY <1>1, <1>2 DEF TypeOK, optVars, memVars
  <1>4. QED
    BY <1>1, <1>3 DEF ReadInv, JobOK, ReadSoFar, BufferIsFile, MagicOfElf

LEMMA ReadDoneInvariant == ASSUME ReadInv, ReadDone PROVE ReadInv'
  <1>1. /\ TypeOK /\ JobOK /\ ReadSoFar /\ MagicOfElf /\ phase = "read" /\ phase' = "copy"
        /\ len >= size /\ job.file \in Files
        /\ UNCHANGED <<optVars, elf_entry, job, readVars, ph, memVars, sized, errors, short>>
    BY DEF ReadInv, ReadDone, JobOK
  <1>2. TypeOK' /\ JobOK' /\ ReadSoFar' /\ MagicOfElf'
    BY <1>1 DEF TypeOK, JobOK, ReadSoFar, MagicOfElf, optVars, readVars, memVars
  <1>3. ASSUME sized, ~errors, ~short PROVE buf = Content[job.file]
    <2>1. /\ Len(buf) = size /\ size = Len(Content[job.file])
          /\ len = 0 \/ buf = Content[job.file]
      BY <1>1, <1>3 DEF ReadSoFar
    <2>2. CASE len = 0
      <3>1. size = 0
        BY <1>1, <2>2, Numbers DEF TypeOK
      <3>2. buf \in Seq(Cells) /\ Content[job.file] \in Seq(Cells)
        BY <1>1, ContentType DEF TypeOK
      <3>3. Len(buf) = 0 /\ Len(Content[job.file]) = 0
        BY <2>1, <3>1
      <3>4. buf = <<>>
        BY <3>2, <3>3
      <3>5. Content[job.file] = <<>>
        BY <3>2, <3>3
      <3>6. QED
        BY <3>4, <3>5
    <2>3. QED
      BY <2>1, <2>2
  <1>4. BufferIsFile'
    BY <1>1, <1>3 DEF BufferIsFile, readVars
  <1>5. QED
    BY <1>2, <1>4 DEF ReadInv

-----------------------------------------------------------------------------
\* After read_file.

LEMMA CopyInvariant == ASSUME ReadInv, CopyImage PROVE ReadInv'
  <1> DEFINE possible == Loadable(job.at, job.size) /\ (job.file \in Files \/ job.size = 0)
  <1>1. /\ TypeOK /\ JobOK /\ phase = "copy" /\ job.kind = "image"
        /\ buf' = <<>> /\ len' = 0 /\ size' = 0 /\ fpos' = 0
        /\ UNCHANGED <<optVars, elf_entry, sized, errors, short>>
    BY DEF ReadInv, CopyImage
  <1>2. job.at \in Place /\ job.size \in Nat
    BY <1>1, Numbers DEF JobOK
  <1>3. /\ phase' \in {"parse", "boot", "fault"}
        /\ MemOK(mem') /\ bram_mapped' \in BOOLEAN
    <2>1. CASE possible
      <3>1. PutAt(job.at, Part(0, job.size)) /\ MapAt(job.at) /\ phase' \in {"parse", "boot"}
        BY <2>1 DEF CopyImage, Fault
      <3>2. Part(0, job.size) \in Seq(Cells)
        BY <1>1, <1>2, PartType DEF TypeOK
      <3>3. MemOK(mem')
        BY <1>1, <1>2, <3>1, <3>2, TypeMem, PutKeepsMem
      <3>4. bram_mapped' \in BOOLEAN
        BY <3>1 DEF MapAt
      <3>5. QED
        BY <3>1, <3>3, <3>4
    <2>2. CASE ~possible
      BY <1>1, <2>2, TypeMem DEF CopyImage, Fault, memVars, TypeOK, MemOK
    <2>3. QED
      BY <2>1, <2>2
  <1>4. TypeOK'
    BY <1>1, <1>3, Numbers DEF TypeOK, MemOK, optVars
  <1>5. QED
    BY <1>3, <1>4, Elsewhere

LEMMA HeaderInvariant == ASSUME ReadInv, ElfHeader PROVE ReadInv'
  <1> DEFINE valid == buf # <<>> /\ Head(buf) = Magic
  <1>1. /\ TypeOK /\ JobOK /\ BufferIsFile /\ MagicOfElf /\ phase = "copy" /\ job' = job
        /\ UNCHANGED <<optVars, readVars, memVars, sized, errors, short>>
    BY DEF ReadInv, ElfHeader, Fault
  <1>2. CASE valid
    <2>1. phase' = "segments" /\ ph' = 1 /\ elf_entry' = Entry[job.file]
      BY <1>2 DEF ElfHeader, Fault
    <2>2. Len(buf) > 0 /\ buf[1] = Magic
      BY <1>1, <1>2 DEF TypeOK
    <2>3. job.file \in DOMAIN Segments
      BY <1>1, <2>2 DEF MagicOfElf
    <2>4. job.file \in Files /\ Entry[job.file] \in DOMAIN BootStub
      BY <2>3, LoaderAssumption
    <2>5. TypeOK'
      BY <1>1, <2>1, <2>4 DEF TypeOK, optVars, readVars, memVars
    <2>6. QED
      BY <1>1, <2>1, <2>3, <2>4, <2>5
         DEF ReadInv, JobOK, ReadSoFar, BufferIsFile, MagicOfElf, readVars
  <1>3. CASE ~valid
    <2>1. phase' = "fault" /\ UNCHANGED elf_entry
      BY <1>3 DEF ElfHeader, Fault
    <2>2. TypeOK'
      BY <1>1, <2>1 DEF TypeOK, optVars, readVars, memVars
    <2>3. QED
      BY <2>1, <2>2, Elsewhere
  <1>4. QED
    BY <1>2, <1>3

LEMMA SegmentInvariant == ASSUME ReadInv, Segment PROVE ReadInv'
  <1> DEFINE s == Segments[job.file][ph]
             filled == Part(s.offset, s.filesz) \o [i \in 1 .. s.memsz - s.filesz |-> Zero]
  <1>1. /\ TypeOK /\ JobOK /\ BufferIsFile /\ phase = "segments" /\ ph <= Len(Segments[job.file])
        /\ job' = job /\ UNCHANGED <<optVars, elf_entry, readVars, sized, errors, short>>
        /\ job.file \in DOMAIN Segments /\ ph \in Nat \ {0}
    BY DEF ReadInv, Segment, Fault, JobOK
  <1>2. /\ s.at \in Place /\ s.filesz \in Nat /\ s.memsz \in Nat /\ s.offset \in Nat
        /\ s.filesz <= s.memsz
    <2>1. ph \in 1 .. Len(Segments[job.file])
      <3>1. Len(Segments[job.file]) \in Nat
        BY <1>1, LoaderAssumption, Zenon
      <3>2. QED
        BY <1>1, <3>1
    <2>2. QED
      BY <1>1, <2>1, LoaderAssumption, Zenon
  <1>3. \/ phase' = phase /\ ph' = ph + 1 /\ UNCHANGED memVars
        \/ phase' = phase /\ ph' = ph + 1 /\ PutAt(s.at, filled) /\ MapAt(s.at)
        \/ phase' = "fault" /\ UNCHANGED memVars
    BY DEF Segment, Fault
  <1> HIDE DEF s
  <1>4. filled \in Seq(Cells)
    <2>1. Part(s.offset, s.filesz) \in Seq(Cells)
      BY <1>1, <1>2, PartType DEF TypeOK
    <2> DEFINE k == s.memsz - s.filesz
               zeros == [i \in 1 .. k |-> Zero]
    <2>2. k \in Nat
      BY <1>2
    <2> HIDE DEF k
    <2>3. zeros \in [1 .. k -> Cells]
      BY Numbers
    <2>4. zeros \in Seq(Cells)
      BY <2>2, <2>3
    <2> HIDE DEF zeros
    <2>5. Part(s.offset, s.filesz) \o zeros \in Seq(Cells)
      BY <2>1, <2>4
    <2>6. QED
      BY <2>5 DEF zeros, k
  <1> HIDE DEF filled
  <1>5. MemOK(mem') /\ bram_mapped' \in BOOLEAN
    <2>1. CASE UNCHANGED memVars
      BY <1>1, <2>1 DEF memVars, TypeOK, MemOK
    <2>2. CASE PutAt(s.at, filled) /\ MapAt(s.at)
      <3>1. MemOK(mem')
        BY <1>1, <1>2, <1>4, <2>2, TypeMem, PutKeepsMem
      <3>2. QED
        BY <2>2, <3>1 DEF MapAt
    <2>3. QED
      BY <1>3, <2>1, <2>2
  <1>6. phase' \in {"segments", "fault"} /\ (phase' = "segments" => ph' = ph + 1)
    BY <1>1, <1>3
  <1>7. TypeOK'
    BY <1>1, <1>5, <1>6 DEF TypeOK, MemOK, optVars, readVars
  <1>8. JobOK'
    <2>1. ph + 1 \in Nat \ {0}
      BY <1>1
    <2>2. QED
      BY <1>1, <1>6, <2>1 DEF JobOK
  <1>9. QED
    BY <1>1, <1>6, <1>7, <1>8 DEF ReadInv, ReadSoFar, BufferIsFile, MagicOfElf, readVars

LEMMA DoneInvariant == ASSUME ReadInv, SegmentsDone PROVE ReadInv'
  <1>1. /\ TypeOK /\ phase' = "boot" /\ buf' = <<>> /\ len' = 0 /\ size' = 0 /\ fpos' = 0
        /\ UNCHANGED <<optVars, elf_entry, memVars, sized, errors, short>>
    BY DEF ReadInv, SegmentsDone
  <1>2. TypeOK'
    BY <1>1, Numbers DEF TypeOK, optVars, memVars
  <1>3. QED
    BY <1>1, <1>2, Elsewhere

LEMMA BootInvariant == ASSUME ReadInv, Boot PROVE ReadInv'
  <1>1. /\ TypeOK /\ phase' = "run"
        /\ UNCHANGED <<optVars, elf_entry, job, readVars, ph, bram_mapped, sized, errors, short>>
    BY DEF ReadInv, Boot
  <1>2. MemOK(mem')
    <2>1. CASE bram_mapped
      BY <1>1, <2>1, TypeMem DEF Boot, MemOK
    <2>2. CASE ~bram_mapped
      <3>1. PutAt([dev |-> "bram", off |-> 0], BootStub[elf_entry])
        BY <2>2 DEF Boot
      <3>2. BootStub[elf_entry] \in Seq(Cells)
        BY <1>1, LoaderAssumption DEF TypeOK
      <3>3. [dev |-> "bram", off |-> 0] \in Place
        BY Numbers DEF Place
      <3>4. QED
        BY <1>1, <3>1, <3>2, <3>3, TypeMem, PutKeepsMem
    <2>3. QED
      BY <2>1, <2>2
  <1>3. TypeOK'
    BY <1>1, <1>2 DEF TypeOK, MemOK, optVars, readVars
  <1>4. QED
    BY <1>1, <1>3, Elsewhere

LEMMA NextInvariant == ReadInv /\ [Next]_vars => ReadInv'
  <1> SUFFICES ASSUME ReadInv, [Next]_vars PROVE ReadInv'
    OBVIOUS
  <1>1. CASE parse_args \/ Choose \/ Open
    BY <1>1, ParseInvariant, ChooseInvariant, OpenInvariant
  <1>2. CASE Read \/ ReadFails \/ ReadDone
    BY <1>2, ReadInvariant, ReadFailsInvariant, ReadDoneInvariant
  <1>3. CASE CopyImage \/ ElfHeader \/ Segment
    BY <1>3, CopyInvariant, HeaderInvariant, SegmentInvariant
  <1>4. CASE SegmentsDone \/ Boot
    BY <1>4, DoneInvariant, BootInvariant
  <1>5. CASE OpenFails
    <2>1. TypeOK' /\ phase' = "fault"
      BY <1>5 DEF OpenFails, ReadInv, TypeOK, optVars, readVars, memVars
    <2>2. QED
      BY <2>1, Elsewhere
  <1>6. CASE UNCHANGED vars
    BY <1>6 DEF ReadInv, TypeOK, JobOK, ReadSoFar, BufferIsFile, MagicOfElf,
                vars, optVars, readVars, memVars
  <1>7. QED
    BY <1>1, <1>2, <1>3, <1>4, <1>5, <1>6 DEF Next, Step

-----------------------------------------------------------------------------
\* What the user asks for.

LEMMA Arguments ==
    ASSUME TypeOK
    PROVE  /\ Len(argv) \in Nat /\ DOMAIN argv = 1 .. Len(argv)
           /\ optind \in Nat /\ optind >= 1
           /\ \A opt : Given(argv, opt) \subseteq 1 .. Len(argv)
  <1>1. PICK n \in 0 .. MaxArgs : argv \in [1 .. n -> Options]
    BY DEF TypeOK, Argvs
  <1>2. n \in Nat /\ DOMAIN argv = 1 .. n /\ Len(argv) = n
    BY <1>1, Numbers
  <1>3. optind \in Nat /\ optind >= 1
    BY Numbers DEF TypeOK
  <1>4. QED
    BY <1>2, <1>3 DEF Given

\* There is one first option of a kind, so First is its file.
LEMMA FirstOfKind ==
    ASSUME TypeOK, NEW opt, NEW i \in DOMAIN argv, IsFirst(argv, opt, i)
    PROVE  First(argv, opt) = argv[i].file
  <1> DEFINE c == CHOOSE j \in DOMAIN argv : IsFirst(argv, opt, j)
  <1>1. c \in DOMAIN argv /\ IsFirst(argv, opt, c)
    OBVIOUS
  <1> HIDE DEF c
  <1>2. c <= i /\ i <= c
    BY <1>1 DEF IsFirst
  <1>3. c \in Nat /\ i \in Nat
    BY <1>1, Arguments
  <1>4. c = i
    BY <1>2, <1>3
  <1>5. QED
    BY <1>4 DEF First, c

\* The files of the options so far.
LEMMA TakenKept ==
    ASSUME TypeOK, NEW opt, NEW file, Taken(argv, optind, opt, file),
           file # NULL \/ argv[optind].opt # opt
    PROVE  Taken(argv, optind + 1, opt, file)
  <1>1. CASE file = NULL
    <2>1. ASSUME NEW i \in Given(argv, opt) PROVE i >= optind + 1
      <3>1. i >= optind /\ argv[i].opt = opt
        BY <1>1, <2>1 DEF Taken, Given
      <3>2. i # optind
        BY <1>1, <3>1
      <3>3. i \in Nat /\ optind \in Nat
        BY <2>1, Arguments
      <3>4. QED
        BY <3>1, <3>2, <3>3
    <2>2. QED
      BY <1>1, <2>1 DEF Taken
  <1>2. CASE file # NULL
    <2>1. PICK i \in DOMAIN argv : i < optind /\ IsFirst(argv, opt, i) /\ argv[i].file = file
      BY <1>2 DEF Taken
    <2>2. i < optind + 1
      BY <2>1, Arguments
    <2>3. QED
      BY <1>2, <2>1, <2>2 DEF Taken
  <1>3. QED
    BY <1>1, <1>2

LEMMA TakenNew ==
    ASSUME TypeOK, NEW opt, Taken(argv, optind, opt, NULL), optind <= Len(argv),
           argv[optind].opt = opt, argv[optind].file # NULL
    PROVE  Taken(argv, optind + 1, opt, argv[optind].file)
  <1>1. optind \in DOMAIN argv /\ optind < optind + 1
    BY Arguments
  <1>2. IsFirst(argv, opt, optind)
    BY <1>1 DEF IsFirst, Taken, Given
  <1>3. QED
    BY <1>1, <1>2 DEF Taken

LEMMA FilesTakenStep == ASSUME TypeOK, FilesTaken, [Next]_vars PROVE FilesTaken'
  <1>1. CASE parse_args
    <2> DEFINE arg == argv[optind]
    <2>1. /\ argv' = argv /\ optind' = optind + 1 /\ optind <= Len(argv)
          /\ arg.opt \in {"u", "i", "e"} => arg.file \in Names
          /\ ParseImage(arg) \/ ParseElf(arg) \/ ParseKernel(arg) \/ ParseFlag(arg) \/ ParseHelp(arg)
      BY <1>1, OptionType DEF parse_args
    <2>2. NULL \notin Names
      BY LoaderAssumption
    <2>3. Taken(argv, optind + 1, "e", elf_file')
      <3>1. CASE arg.opt = "e" /\ elf_file = NULL
        <4>1. elf_file' = arg.file /\ arg.file # NULL
          BY <2>1, <2>2, <3>1 DEF ParseImage, ParseElf, ParseKernel, ParseFlag, ParseHelp
        <4>2. QED
          BY <2>1, <3>1, <4>1, TakenNew DEF FilesTaken
      <3>2. CASE ~(arg.opt = "e" /\ elf_file = NULL)
        <4>1. elf_file' = elf_file
          BY <2>1, <3>2 DEF ParseImage, ParseElf, ParseKernel, ParseFlag, ParseHelp
        <4>2. QED
          BY <3>2, <4>1, TakenKept DEF FilesTaken
      <3>3. QED
        BY <3>1, <3>2
    <2>4. Taken(argv, optind + 1, "i", img_file')
      <3>1. CASE arg.opt = "i" /\ img_file = NULL
        <4>1. img_file' = arg.file /\ arg.file # NULL
          BY <2>1, <2>2, <3>1 DEF ParseImage, ParseElf, ParseKernel, ParseFlag, ParseHelp
        <4>2. QED
          BY <2>1, <3>1, <4>1, TakenNew DEF FilesTaken
      <3>2. CASE ~(arg.opt = "i" /\ img_file = NULL)
        <4>1. img_file' = img_file
          BY <2>1, <3>2 DEF ParseImage, ParseElf, ParseKernel, ParseFlag, ParseHelp
        <4>2. QED
          BY <3>2, <4>1, TakenKept DEF FilesTaken
      <3>3. QED
        BY <3>1, <3>2
    <2>5. QED
      BY <2>1, <2>3, <2>4 DEF FilesTaken
  <1>2. CASE ~parse_args
    <2>1. UNCHANGED optVars
      BY <1>2 DEF Next, Step, Choose, Open, Read, ReadDone, CopyImage, ElfHeader, Segment,
                  SegmentsDone, Boot, OpenFails, ReadFails, vars
    <2>2. QED
      BY <2>1 DEF FilesTaken, optVars
  <1>3. QED
    BY <1>1, <1>2

-----------------------------------------------------------------------------
\* The job is what was asked for.

LEMMA PlacesDiffer == KernelAt # Reset /\ KernelAt.dev = "ddr" /\ Reset.dev = "bram"
                      /\ KernelAt \in Place /\ Reset \in Place
  <1>1. KernelAt.dev = "ddr" /\ Reset.dev = "bram"
    BY DEF KernelAt, Reset
  <1>2. KernelAt \in Place /\ Reset \in Place
    BY LoaderAssumption, Numbers DEF KernelAt, Reset, Place
  <1>3. QED
    BY <1>1, <1>2

LEMMA StartedJob ==
    ASSUME NEW f, NEW at, StartImage(f, at)
    PROVE  /\ job'.file = f /\ job'.kind = "image" /\ job'.at = at /\ phase' = "open"
           /\ sized' => sized /\ RightSize(job'.file, job'.size)
  <1>1. PICK n \in get_file_size(f) :
            /\ job' = [file |-> f, kind |-> "image", at |-> at, size |-> n]
            /\ sized' = (sized /\ RightSize(f, n)) /\ phase' = "open"
    BY DEF StartImage
  <1>2. job'.file = f /\ job'.kind = "image" /\ job'.at = at /\ job'.size = n
    BY <1>1
  <1>3. QED
    BY <1>1, <1>2

LEMMA JobAskedStep == ASSUME IInv, [Next]_vars PROVE JobAsked'
  <1>0. TypeOK /\ FilesTaken /\ JobAsked /\ JobOK
    BY DEF IInv, ReadInv
  <1>1. CASE parse_args
    <2> DEFINE arg == argv[optind]
    <2>1. /\ argv' = argv /\ optind' = optind + 1 /\ optind <= Len(argv) /\ phase = "parse"
          /\ arg.opt \in {"u", "i", "e"} => arg.file \in Names
          /\ ParseImage(arg) \/ ParseElf(arg) \/ ParseKernel(arg) \/ ParseFlag(arg) \/ ParseHelp(arg)
      BY <1>0, <1>1, OptionType DEF parse_args
    <2>2. optind' <= Len(argv') + 1
      BY <1>0, <2>1, Arguments
    <2>3. CASE ParseKernel(arg)
      <3>1. StartImage(arg.file, KernelAt) /\ arg.opt = "u"
        BY <2>3 DEF ParseKernel, KernelAt
      <3>2. /\ job'.file = arg.file /\ job'.kind = "image" /\ job'.at = KernelAt
            /\ phase' = "open" /\ (sized' => RightSize(job'.file, job'.size))
        BY <3>1, StartedJob
      <3>3. optind' - 1 = optind /\ optind \in Given(argv, "u")
        BY <1>0, <2>1, <3>1, Arguments DEF Given
      <3>4. KernelJob' /\ KernelAsked'
        BY <2>1, <3>2, <3>3 DEF KernelJob, KernelAsked
      <3>5. QED
        BY <2>2, <3>2, <3>4 DEF JobAsked
    <2>4. CASE ~ParseKernel(arg)
      <3>1. phase' \in {"parse", "exit"}
        BY <2>1, <2>4 DEF ParseImage, ParseElf, ParseFlag, ParseHelp
      <3>2. QED
        BY <2>2, <3>1 DEF JobAsked, Loading
    <2>5. QED
      BY <2>3, <2>4
  <1>2. CASE Choose
    <2>1. /\ argv' = argv /\ optind' = optind /\ optind > Len(argv)
          /\ elf_file' = elf_file /\ img_file' = img_file
      BY <1>2 DEF Choose, optVars
    <2>2. optind = Len(argv) + 1
      BY <1>0, <2>1, Arguments DEF JobAsked
    <2>3. \A opt : Taken(argv, optind, opt, NULL) => Given(argv, opt) = {}
      <3>1. ASSUME NEW opt, Taken(argv, optind, opt, NULL), NEW i \in Given(argv, opt)
            PROVE  FALSE
        <4>1. i >= optind
          BY <3>1 DEF Taken
        <4>2. i \in 1 .. Len(argv)
          BY <1>0, <3>1, Arguments
        <4>3. QED
          BY <1>0, <2>2, <4>1, <4>2, Arguments
      <3>2. QED
        BY <3>1
    <2>4. ASSUME NEW opt, NEW f, f # NULL, Taken(argv, optind, opt, f)
          PROVE  Given(argv, opt) # {} /\ f = First(argv, opt)
      <3>1. PICK i \in DOMAIN argv : IsFirst(argv, opt, i) /\ argv[i].file = f
        BY <2>4 DEF Taken
      <3>2. i \in Given(argv, opt)
        BY <3>1 DEF IsFirst
      <3>3. First(argv, opt) = argv[i].file
        BY <1>0, <3>1, FirstOfKind
      <3>4. QED
        BY <3>1, <3>2, <3>3
    <2>5. CASE elf_file # NULL
      <3>1. job' = [file |-> elf_file, kind |-> "elf"] /\ phase' = "open" /\ sized' = sized
        BY <1>2, <2>5 DEF Choose
      <3>2. Given(argv, "e") # {} /\ elf_file = First(argv, "e")
        BY <1>0, <2>4, <2>5 DEF FilesTaken
      <3>3. ElfAsked' /\ job'.kind # "image"
        BY <2>1, <2>2, <3>1, <3>2 DEF ElfAsked
      <3>4. QED
        BY <2>1, <2>2, <3>1, <3>3 DEF JobAsked
    <2>6. CASE elf_file = NULL /\ img_file # NULL
      <3>1. StartImage(img_file, Reset)
        BY <1>2, <2>6 DEF Choose, Reset
      <3>2. /\ job'.file = img_file /\ job'.kind = "image" /\ job'.at = Reset
            /\ phase' = "open" /\ (sized' => RightSize(job'.file, job'.size))
        BY <3>1, StartedJob
      <3>3. img_file = First(argv, "i")
        BY <1>0, <2>4, <2>6 DEF FilesTaken
      <3>4. Given(argv, "e") = {}
        BY <1>0, <2>3, <2>6 DEF FilesTaken
      <3>5. ImageAsked' /\ ~KernelJob'
        BY <2>1, <2>2, <3>2, <3>3, <3>4, PlacesDiffer DEF ImageAsked, KernelJob
      <3>6. QED
        BY <2>1, <2>2, <3>2, <3>5 DEF JobAsked
    <2>7. CASE elf_file = NULL /\ img_file = NULL
      <3>1. phase' = "fault"
        BY <1>2, <2>7 DEF Choose
      <3>2. QED
        BY <2>1, <2>2, <3>1 DEF JobAsked, Loading
    <2>8. QED
      BY <2>5, <2>6, <2>7
  <1>3. CASE Open \/ Read \/ ReadFails \/ ReadDone
    <2>1. /\ argv' = argv /\ optind' = optind /\ job' = job /\ Loading /\ Loading'
          /\ sized' => sized
      <3>1. CASE Open
        BY <3>1 DEF Open, Loading, optVars
      <3>2. CASE Read
        BY <3>2 DEF Read, Reading, Loading, optVars
      <3>3. CASE ReadFails
        BY <3>3 DEF ReadFails, Reading, Loading, optVars
      <3>4. CASE ReadDone
        BY <3>4 DEF ReadDone, Loading, optVars
      <3>5. QED
        BY <1>3, <3>1, <3>2, <3>3, <3>4
    <2>2. KernelJob' = KernelJob /\ KernelAsked' = KernelAsked /\ ImageAsked' = ImageAsked
          /\ ElfAsked' = ElfAsked
      BY <2>1 DEF KernelJob, KernelAsked, ImageAsked, ElfAsked
    <2>3. phase' \notin {"segments", "boot"}
      BY <2>1 DEF Loading
    <2>4. QED
      BY <1>0, <2>1, <2>2, <2>3 DEF JobAsked
  <1>4. CASE CopyImage
    <2>1. /\ argv' = argv /\ optind' = optind /\ phase = "copy" /\ job.kind = "image"
          /\ phase' \in {"parse", "fault"} \/ (phase' = "boot" /\ job.at.dev # "ddr")
      BY <1>4 DEF CopyImage, Fault, optVars
    <2>2. phase' = "boot" => Given(argv, "e") = {}
      BY <1>0, <2>1, PlacesDiffer DEF JobAsked, Loading, KernelJob, ImageAsked
    <2>3. QED
      BY <1>0, <2>1, <2>2 DEF JobAsked, Loading
  <1>5. CASE ElfHeader
    <2>1. /\ argv' = argv /\ optind' = optind /\ phase = "copy" /\ job.kind = "elf" /\ job' = job
          /\ phase' = "fault" \/ (phase' = "segments" /\ elf_entry' = Entry[job.file])
      BY <1>5 DEF ElfHeader, Fault, optVars
    <2>2. ElfAsked
      BY <1>0, <2>1 DEF JobAsked, Loading
    <2>3. ElfAsked' /\ job.file = First(argv, "e")
      BY <2>1, <2>2 DEF ElfAsked
    <2>4. QED
      BY <1>0, <2>1, <2>3 DEF JobAsked, Loading
  <1>6. CASE Segment
    <2>1. /\ argv' = argv /\ optind' = optind /\ phase = "segments" /\ job' = job
          /\ phase' \in {"fault", "segments"} /\ elf_entry' = elf_entry
      BY <1>6 DEF Segment, Fault, optVars
    <2>2. ElfAsked'
      BY <1>0, <2>1 DEF JobAsked, ElfAsked
    <2>3. QED
      BY <1>0, <2>1, <2>2 DEF JobAsked, Loading
  <1>7. CASE SegmentsDone
    <2>1. /\ argv' = argv /\ optind' = optind /\ phase = "segments"
          /\ phase' = "boot" /\ elf_entry' = elf_entry
      BY <1>7 DEF SegmentsDone, optVars
    <2>2. QED
      BY <1>0, <2>1 DEF JobAsked, Loading
  <1>8. CASE Boot
    <2>1. argv' = argv /\ optind' = optind /\ phase' = "run"
      BY <1>8 DEF Boot, optVars
    <2>2. QED
      BY <1>0, <2>1 DEF JobAsked, Loading
  <1>9. CASE OpenFails
    <2>1. argv' = argv /\ optind' = optind /\ phase' = "fault"
      BY <1>9 DEF OpenFails, optVars
    <2>2. QED
      BY <1>0, <2>1 DEF JobAsked, Loading
  <1>10. CASE UNCHANGED vars
    BY <1>0, <1>10 DEF JobAsked, Loading, KernelJob, KernelAsked, ImageAsked, ElfAsked,
                       vars, optVars
  <1>11. QED
    BY <1>1, <1>2, <1>3, <1>4, <1>5, <1>6, <1>7, <1>8, <1>9, <1>10 DEF Next, Step

-----------------------------------------------------------------------------
\* Memory holds what the rounds so far give.

\* One more round, behind the others.
LEMMA AfterRound ==
    ASSUME NEW R \in SUBSET Nat, NEW t \in Nat, \A u \in R : u < t,
           NEW args, NEW dev, NEW o, NEW old, NEW new, NEW was \in BOOLEAN, NEW is \in BOOLEAN,
           is => was, After(R, args, was, dev, o, old),
           IF Covers(Piece(args, t), dev, o) THEN is => new = CellOf(Piece(args, t), o)
                                             ELSE new = old
    PROVE  After(R \cup {t}, args, is, dev, o, new)
  <1> DEFINE On(x) == Covers(Piece(args, x), dev, o)
             on    == {x \in R : On(x)}
             on2   == {x \in R \cup {t} : On(x)}
             cell(x) == CellOf(Piece(args, x), o)
  <1>1. /\ on = {} => old = Zero
        /\ was => \A x \in on : (\A u \in on : u <= x) => old = cell(x)
    BY DEF After
  <1>2. IF On(t) THEN is => new = cell(t) ELSE new = old
    OBVIOUS
  <1> HIDE DEF On, cell
  <1>3. on2 = {} => new = Zero
    BY <1>1, <1>2
  <1>4. ASSUME is, NEW x \in on2, \A u \in on2 : u <= x PROVE new = cell(x)
    <2>1. CASE On(t)
      <3>1. t \in on2 /\ t <= x
        BY <1>4, <2>1
      <3>2. x = t
        BY <1>4, <3>1
      <3>3. QED
        BY <1>2, <1>4, <2>1, <3>2
    <2>2. CASE ~On(t)
      <3>1. x \in on /\ \A u \in on : u <= x
        BY <1>4, <2>2
      <3>2. QED
        BY <1>1, <1>2, <1>4, <2>2, <3>1
    <2>3. QED
      BY <2>1, <2>2
  <1>5. QED
    BY <1>3, <1>4, Zenon DEF After, On, cell

LEMMA CleanType == TypeOK => Clean \in BOOLEAN /\ Clean' \in BOOLEAN
  BY DEF Clean

Phases == {"parse", "open", "read", "copy", "segments", "boot"}

\* A step that leaves memory alone and does no round.
LEMMA MemKept ==
    ASSUME MemAsked, phase \in Phases, argv' = argv, UNCHANGED memVars,
           sized' /\ sized => DoneRounds' = DoneRounds, sized' => sized, Clean' => Clean
    PROVE  MemAsked'
  <1> SUFFICES ASSUME sized'
               PROVE  /\ bram_mapped' <=> \E t \in DoneRounds' : Piece(argv, t).at = Reset
                      /\ \A dev \in {"ddr", "bram"} : \A o \in 0 .. Size(dev) - 1 :
                            After(DoneRounds', argv, Clean', dev, o, mem'[dev][o])
    BY DEF MemAsked
  <1>1. sized /\ DoneRounds' = DoneRounds /\ mem' = mem /\ bram_mapped' = bram_mapped
    BY DEF memVars
  <1>2. /\ bram_mapped <=> \E t \in DoneRounds : Piece(argv, t).at = Reset
        /\ \A dev \in {"ddr", "bram"} : \A o \in 0 .. Size(dev) - 1 :
              After(DoneRounds, argv, Clean, dev, o, mem[dev][o])
    BY <1>1 DEF MemAsked, Phases
  <1>3. ASSUME NEW R, NEW dev, NEW o, NEW c, After(R, argv, Clean, dev, o, c)
        PROVE  After(R, argv, Clean', dev, o, c)
    BY <1>3 DEF After
  <1>4. QED
    BY <1>1, <1>2, <1>3

\* A step that puts the cells of a round where they belong.
LEMMA MemAdded ==
    ASSUME TypeOK, MemAsked, phase \in Phases, argv' = argv, DoneRounds \in SUBSET Nat,
           NEW at \in Place, NEW cells, PutAt(at, cells), MapAt(at),
           NEW t \in Nat, \A u \in DoneRounds : u < t, DoneRounds' = DoneRounds \cup {t},
           sized' => sized /\ at = Piece(argv, t).at /\ Len(cells) = Len(Piece(argv, t).cells),
           Clean' => Clean, sized' /\ Clean' => cells = Piece(argv, t).cells
    PROVE  MemAsked'
  <1> DEFINE piece == Piece(argv, t)
  <1> SUFFICES ASSUME sized'
               PROVE  /\ bram_mapped' <=> \E u \in DoneRounds' : Piece(argv, u).at = Reset
                      /\ \A dev \in {"ddr", "bram"} : \A o \in 0 .. Size(dev) - 1 :
                            After(DoneRounds', argv, Clean', dev, o, mem'[dev][o])
    BY DEF MemAsked
  <1>1. sized /\ at = piece.at /\ Len(cells) = Len(piece.cells)
        /\ (Clean' => Clean /\ cells = piece.cells)
    OBVIOUS
  <1>2. /\ bram_mapped <=> \E u \in DoneRounds : Piece(argv, u).at = Reset
        /\ \A dev \in {"ddr", "bram"} : \A o \in 0 .. Size(dev) - 1 :
              After(DoneRounds, argv, Clean, dev, o, mem[dev][o])
    BY <1>1 DEF MemAsked, Phases
  <1>3. bram_mapped' <=> \E u \in DoneRounds' : Piece(argv, u).at = Reset
    <2>1. at = Reset <=> (at.dev = "bram" /\ at.off = 0)
      BY DEF Place, Reset
    <2>2. bram_mapped' <=> (bram_mapped \/ at = Reset)
      BY <2>1 DEF MapAt
    <2> HIDE DEF piece
    <2>3. QED
      BY <1>1, <1>2, <2>2 DEF piece
  <1>4. ASSUME NEW dev \in {"ddr", "bram"}, NEW o \in 0 .. Size(dev) - 1
        PROVE  After(DoneRounds', argv, Clean', dev, o, mem'[dev][o])
    <2>1. mem'[dev][o] = IF Within(at, Len(cells), dev, o) THEN cells[o - at.off + 1]
                                                          ELSE mem[dev][o]
      BY DEF PutAt, Within, TypeOK
    <2>2. Covers(piece, dev, o) <=> Within(at, Len(cells), dev, o)
      BY <1>1 DEF Covers
    <2>3. IF Covers(piece, dev, o) THEN Clean' => mem'[dev][o] = CellOf(piece, o)
                                   ELSE mem'[dev][o] = mem[dev][o]
      BY <1>1, <2>1, <2>2 DEF CellOf
    <2> HIDE DEF piece
    <2> DEFINE R == DoneRounds
               old == mem[dev][o]
               new == mem'[dev][o]
               was == Clean
               is  == Clean'
    <2>4. R \in SUBSET Nat /\ (\A u \in R : u < t) /\ After(R, argv, was, dev, o, old)
          /\ was \in BOOLEAN /\ is \in BOOLEAN /\ (is => was)
      BY <1>2, CleanType
    <2>5. IF Covers(Piece(argv, t), dev, o) THEN is => new = CellOf(Piece(argv, t), o)
                                            ELSE new = old
      BY <2>3 DEF piece
    <2> HIDE DEF R, old, new, was, is
    <2>6. After(R \cup {t}, argv, is, dev, o, new)
      BY <2>4, <2>5, AfterRound
    <2>7. QED
      BY <2>6 DEF R, is, new
  <1>5. QED
    BY <1>3, <1>4

\* The rounds of the program lie behind those of the kernels.
LEMMA RoundsInOrder ==
    ASSUME TypeOK
    PROVE  /\ Given(argv, "u") \subseteq Nat /\ \A t \in Given(argv, "u") : t <= Len(argv)
           /\ Rounds(argv) \subseteq Nat
           /\ \A t \in Rounds(argv) : t <= Len(argv) => t \in Given(argv, "u")
           /\ Given(argv, "u") \subseteq Rounds(argv)
  <1>1. /\ Len(argv) \in Nat /\ Given(argv, "u") \subseteq 1 .. Len(argv)
    BY Arguments
  <1> DEFINE last == Len(argv) + Len(Segments[First(argv, "e")])
             program == IF Given(argv, "e") # {}
                        THEN {t \in Len(argv) + 1 .. last :
                                Segments[First(argv, "e")][t - Len(argv)].type = "PT_LOAD"}
                        ELSE {Len(argv) + 1}
  <1>2. Rounds(argv) = Given(argv, "u") \cup program
    BY DEF Rounds
  <1> HIDE DEF last
  <1>3. ASSUME NEW t \in program PROVE t \in Nat /\ t > Len(argv)
    <2>1. CASE Given(argv, "e") # {}
      BY <1>1, <1>3, <2>1
    <2>2. CASE Given(argv, "e") = {}
      BY <1>1, <1>3, <2>2
    <2>3. QED
      BY <2>1, <2>2
  <1> HIDE DEF program
  <1>4. \A t \in Given(argv, "u") : t \in Nat /\ t <= Len(argv)
    BY <1>1
  <1>5. QED
    BY <1>1, <1>2, <1>3, <1>4

LEMMA ParseMem == ASSUME IInv, JobAsked', parse_args PROVE MemAsked'
  <1> DEFINE arg == argv[optind]
             G == Given(argv, "u")
  <1>1. /\ TypeOK /\ MemAsked /\ phase = "parse"
        /\ argv' = argv /\ optind' = optind + 1 /\ UNCHANGED memVars
        /\ errors' = errors /\ short' = short
        /\ ParseImage(arg) \/ ParseElf(arg) \/ ParseKernel(arg) \/ ParseFlag(arg) \/ ParseHelp(arg)
    BY DEF IInv, ReadInv, parse_args
  <1>2. DoneRounds = {t \in G : t < optind} /\ G \subseteq Nat /\ optind \in Nat
    BY <1>1, RoundsInOrder, Arguments DEF DoneRounds, Loading
  <1>3. CASE ParseKernel(arg)
    <2>1. StartImage(arg.file, KernelAt)
      BY <1>3 DEF ParseKernel, KernelAt
    <2>2. phase' = "open" /\ KernelJob' /\ (sized' => sized)
      BY <2>1, StartedJob DEF KernelJob
    <2>3. DoneRounds' = {t \in G : t < (optind + 1) - 1}
      BY <1>1, <2>2 DEF DoneRounds, Loading
    <2>4. (optind + 1) - 1 = optind
      BY <1>2
    <2>5. QED
      BY <1>1, <1>2, <2>2, <2>3, <2>4, MemKept DEF Phases, Clean
  <1>4. CASE ParseImage(arg) \/ ParseElf(arg) \/ ParseFlag(arg)
    <2>1. phase' = "parse" /\ sized' = sized /\ arg.opt # "u"
      BY <1>1, <1>4 DEF ParseImage, ParseElf, ParseFlag
    <2>2. DoneRounds' = {t \in G : t < optind + 1}
      BY <1>1, <2>1 DEF DoneRounds, Loading
    <2>3. optind \notin G
      BY <2>1 DEF Given
    <2>4. \A t \in G : t < optind + 1 <=> t < optind
      BY <1>2, <2>3
    <2>5. DoneRounds' = DoneRounds
      BY <1>2, <2>2, <2>4
    <2>6. QED
      BY <1>1, <2>1, <2>5, MemKept DEF Phases, Clean
  <1>5. CASE ParseHelp(arg)
    BY <1>5 DEF ParseHelp, MemAsked
  <1>6. QED
    BY <1>1, <1>3, <1>4, <1>5

LEMMA ChooseMem == ASSUME IInv, Choose PROVE MemAsked'
  <1> DEFINE G == Given(argv, "u")
  <1>1. /\ TypeOK /\ MemAsked /\ phase = "parse"
        /\ argv' = argv /\ optind' = optind /\ UNCHANGED memVars
        /\ errors' = errors /\ short' = short
    BY DEF IInv, ReadInv, Choose, optVars
  <1>2. DoneRounds = {t \in G : t < optind}
    BY <1>1 DEF DoneRounds, Loading
  <1>3. CASE phase' = "fault"
    BY <1>3 DEF MemAsked
  <1>4. CASE phase' # "fault"
    <2>1. phase' = "open" /\ ~KernelJob' /\ (sized' => sized)
      <3>1. CASE elf_file # NULL
        BY <1>4, <3>1 DEF Choose, KernelJob
      <3>2. CASE elf_file = NULL
        <4>1. StartImage(img_file, Reset)
          BY <1>4, <3>2 DEF Choose, Reset
        <4>2. QED
          BY <4>1, StartedJob, PlacesDiffer DEF KernelJob
      <3>3. QED
        BY <3>1, <3>2
    <2>2. DoneRounds' = {t \in G : t < optind}
      BY <1>1, <2>1 DEF DoneRounds
    <2>3. QED
      BY <1>1, <1>2, <2>1, <2>2, MemKept DEF Phases, Clean
  <1>5. QED
    BY <1>3, <1>4

LEMMA ReadMem == ASSUME IInv, Open \/ Read \/ ReadFails \/ ReadDone PROVE MemAsked'
  <1>1. /\ argv' = argv /\ optind' = optind /\ job' = job /\ Loading /\ Loading'
        /\ (sized' => sized) /\ (Clean' => Clean) /\ UNCHANGED memVars
    <2>1. CASE Open
      BY <2>1 DEF Open, Loading, optVars, Clean
    <2>2. CASE Read
      BY <2>2 DEF Read, Reading, Loading, optVars, Clean
    <2>3. CASE ReadFails
      BY <2>3 DEF ReadFails, Reading, Loading, optVars, Clean
    <2>4. CASE ReadDone
      BY <2>4 DEF ReadDone, Loading, optVars, Clean
    <2>5. QED
      BY <2>1, <2>2, <2>3, <2>4
  <1>2. DoneRounds' = DoneRounds
    BY <1>1 DEF DoneRounds, KernelJob, Loading
  <1>3. QED
    BY <1>1, <1>2, MemKept DEF IInv, Loading, Phases

\* n cells of the buffer are those of the file, if the buffer is the file.
LEMMA PartOfFile ==
    ASSUME NEW f \in Files, buf = Content[f], NEW o \in Nat, NEW n \in Nat,
           o + n <= Len(Content[f])
    PROVE  Part(o, n) = [i \in 1 .. n |-> Content[f][o + i]]
  <1>1. \A i \in 1 .. n : o + i <= Len(buf)
    BY ContentType
  <1>2. QED
    BY <1>1 DEF Part

LEMMA CopyMem == ASSUME IInv, CopyImage PROVE MemAsked'
  <1> DEFINE G == Given(argv, "u")
             f == job.file
             n == job.size
             at == job.at
             cells == Part(0, n)
  <1>1. /\ TypeOK /\ JobOK /\ BufferIsFile /\ JobAsked /\ MemAsked
        /\ phase = "copy" /\ job.kind = "image"
        /\ argv' = argv /\ optind' = optind /\ sized' = sized /\ Clean' = Clean
        /\ phase' \in {"parse", "boot", "fault"}
    BY DEF IInv, ReadInv, CopyImage, Fault, optVars, Clean
  <1>2. CASE phase' = "fault"
    BY <1>2 DEF MemAsked
  <1>3. CASE phase' # "fault"
    <2>1. /\ PutAt(at, cells) /\ MapAt(at)
          /\ phase' = IF at.dev = "ddr" THEN "parse" ELSE "boot"
      BY <1>3 DEF CopyImage, Fault
    <2>2. at \in Place /\ n \in Nat /\ buf \in Seq(Cells)
      BY <1>1, Numbers DEF JobOK, TypeOK
    <2>3. Len(cells) = n
      BY <2>2, PartType
    <2>4. sized => f \in Files /\ n = Len(Content[f])
      BY <1>1 DEF JobAsked, Loading, RightSize
    <2>5. sized /\ Clean => cells = Content[f]
      <3>1. SUFFICES ASSUME sized, Clean PROVE cells = Content[f]
        OBVIOUS
      <3>2. buf = Content[f] /\ f \in Files /\ n = Len(Content[f]) /\ Content[f] \in Seq(Cells)
        BY <1>1, <2>4, <3>1, ContentType DEF BufferIsFile, Clean
      <3>3. 0 \in Nat /\ 0 + n <= Len(Content[f])
        BY <2>2, <3>2
      <3>4. cells = [i \in 1 .. n |-> Content[f][0 + i]]
        BY <2>2, <3>2, <3>3, PartOfFile, Zenon
      <3>5. QED
        BY <2>2, <3>2, <3>4
    <2> HIDE DEF cells
    <2>6. G \subseteq Nat /\ (\A t \in G : t <= Len(argv)) /\ optind \in Nat /\ optind >= 1
          /\ Len(argv) \in Nat
      BY <1>1, RoundsInOrder, Arguments
    <2>7. CASE KernelJob
      <3> DEFINE t == optind - 1
      <3>1. t \in G /\ f = argv[t].file /\ at = KernelAt /\ phase' = "parse"
        BY <1>1, <2>1, <2>7, PlacesDiffer DEF JobAsked, Loading, KernelAsked, KernelJob
      <3>2. DoneRounds = {u \in G : u < optind - 1} /\ DoneRounds' = {u \in G : u < optind}
        BY <1>1, <2>7, <3>1 DEF DoneRounds, Loading
      <3>3. DoneRounds' = DoneRounds \cup {t} /\ DoneRounds \in SUBSET Nat /\ t \in Nat
            /\ \A u \in DoneRounds : u < t
        BY <2>6, <3>1, <3>2
      <3>4. Piece(argv, t) = [at |-> KernelAt, cells |-> Content[f]]
        BY <2>6, <3>1 DEF Piece
      <3> HIDE DEF t
      <3>5. Piece(argv, t).at = at /\ Piece(argv, t).cells = Content[f]
        BY <3>1, <3>4
      <3>6. QED
        BY <1>1, <2>1, <2>2, <2>3, <2>4, <2>5, <3>3, <3>5, MemAdded DEF Phases
    <2>8. CASE ~KernelJob
      <3> DEFINE t == Len(argv) + 1
      <3>1. /\ at = Reset /\ optind = t /\ Given(argv, "e") = {} /\ f = First(argv, "i")
            /\ phase' = "boot"
        BY <1>1, <2>1, <2>8, PlacesDiffer DEF JobAsked, Loading, ImageAsked
      <3>2. DoneRounds = {u \in G : u < t} /\ DoneRounds' = Rounds(argv)
        BY <1>1, <2>8, <3>1 DEF DoneRounds, Loading
      <3>3. Rounds(argv) = G \cup {t}
        BY <3>1 DEF Rounds
      <3>4. DoneRounds' = DoneRounds \cup {t} /\ DoneRounds \in SUBSET Nat /\ t \in Nat
            /\ \A u \in DoneRounds : u < t
        BY <2>6, <3>2, <3>3
      <3>5. Piece(argv, t) = [at |-> Reset, cells |-> Content[f]]
        BY <2>6, <3>1 DEF Piece
      <3> HIDE DEF t
      <3>6. Piece(argv, t).at = at /\ Piece(argv, t).cells = Content[f]
        BY <3>1, <3>5
      <3>7. QED
        BY <1>1, <2>1, <2>2, <2>3, <2>4, <2>5, <3>4, <3>6, MemAdded DEF Phases
    <2>9. QED
      BY <2>7, <2>8
  <1>4. QED
    BY <1>2, <1>3

LEMMA HeaderMem == ASSUME IInv, ElfHeader PROVE MemAsked'
  <1> DEFINE G == Given(argv, "u")
  <1>1. /\ TypeOK /\ JobAsked /\ MemAsked /\ phase = "copy" /\ job.kind = "elf"
        /\ argv' = argv /\ UNCHANGED memVars /\ sized' = sized /\ Clean' = Clean
        /\ phase' = "fault" \/ (phase' = "segments" /\ ph' = 1)
    BY DEF IInv, ReadInv, ElfHeader, Fault, optVars, Clean
  <1>2. CASE phase' = "fault"
    BY <1>2 DEF MemAsked
  <1>3. CASE phase' = "segments"
    <2>1. optind = Len(argv) + 1 /\ Len(argv) \in Nat
      BY <1>1, Arguments DEF JobAsked, Loading, ElfAsked
    <2>2. DoneRounds = {t \in G : t < Len(argv) + 1}
      BY <1>1, <2>1 DEF DoneRounds, KernelJob
    <2>3. DoneRounds' = {t \in Rounds(argv) : t < Len(argv) + 1}
      <3>1. DoneRounds' = {t \in Rounds(argv') : t < Len(argv') + ph'}
        BY <1>3 DEF DoneRounds, Loading
      <3>2. argv' = argv /\ ph' = 1
        BY <1>1, <1>3
      <3>3. QED
        BY <3>1, <3>2
    <2>4. DoneRounds' = DoneRounds
      BY <1>1, <2>1, <2>2, <2>3, RoundsInOrder
    <2>5. QED
      BY <1>1, <2>4, MemKept DEF Phases
  <1>4. QED
    BY <1>1, <1>2, <1>3

LEMMA Behind ==
    ASSUME NEW n \in Nat, NEW l \in Nat, l <= n, NEW i \in 1 .. n, ~(i <= l)
    PROVE  i - l \in 1 .. n - l /\ i > l /\ i \in 1 .. l + (n - l)
  OBVIOUS

LEMMA Catenation ==
    ASSUME NEW a \in Seq(Cells), NEW b \in Seq(Cells)
    PROVE  /\ Len(a \o b) = Len(a) + Len(b)
           /\ \A i \in 1 .. Len(a) : (a \o b)[i] = a[i]
           /\ \A i \in 1 .. Len(a) + Len(b) : i > Len(a) => (a \o b)[i] = b[i - Len(a)]
  OBVIOUS

LEMMA SegmentMem == ASSUME IInv, Segment PROVE MemAsked'
  <1> DEFINE f == job.file
             s == Segments[f][ph]
             c == Content[f]
             t == Len(argv) + ph
             k == s.memsz - s.filesz
             zeros == [i \in 1 .. k |-> Zero]
             cells == Part(s.offset, s.filesz) \o zeros
  <1>1. /\ TypeOK /\ JobOK /\ BufferIsFile /\ JobAsked /\ MemAsked
        /\ phase = "segments" /\ ph <= Len(Segments[f])
        /\ argv' = argv /\ sized' = sized /\ Clean' = Clean
        /\ f \in DOMAIN Segments /\ ph \in Nat \ {0}
    BY DEF IInv, ReadInv, Segment, Fault, optVars, Clean, JobOK
  <1>2. /\ s.at \in Place /\ s.filesz \in Nat /\ s.memsz \in Nat /\ s.offset \in Nat
        /\ s.filesz <= s.memsz /\ s.offset + s.filesz <= Len(c) /\ f \in Files
    <2>1. ph \in 1 .. Len(Segments[f]) /\ f \in Files
      BY <1>1, LoaderAssumption
    <2>2. QED
      BY <1>1, <2>1, LoaderAssumption, Zenon
  <1>3. Given(argv, "e") # {} /\ f = First(argv, "e")
    BY <1>1 DEF JobAsked, ElfAsked
  <1>4. Len(argv) \in Nat /\ Given(argv, "u") \subseteq 1 .. Len(argv)
        /\ Rounds(argv) \subseteq Nat /\ t \in Nat
    BY <1>1, Arguments, RoundsInOrder
  <1>5. t \in Rounds(argv) <=> s.type = "PT_LOAD"
    <2>1. t \notin Given(argv, "u")
      BY <1>1, <1>4
    <2>2. t \in Len(argv) + 1 .. Len(argv) + Len(Segments[f]) /\ t - Len(argv) = ph
      <3>1. Len(Segments[f]) \in Nat
        BY <1>1, LoaderAssumption
      <3>2. QED
        BY <1>1, <1>4, <3>1
    <2>3. QED
      BY <1>3, <2>1, <2>2 DEF Rounds
  <1>6. DoneRounds = {u \in Rounds(argv) : u < t}
    BY <1>1 DEF DoneRounds, Loading
  <1>7. ASSUME phase' = "segments", ph' = ph + 1
        PROVE  DoneRounds' = {u \in Rounds(argv) : u < t + 1}
    <2>1. DoneRounds' = {u \in Rounds(argv') : u < Len(argv') + ph'}
      BY <1>7 DEF DoneRounds, Loading
    <2>2. Len(argv) + (ph + 1) = t + 1
      BY <1>1, <1>4
    <2>3. QED
      BY <1>1, <1>7, <2>1, <2>2
  <1>8. CASE phase' = "fault"
    BY <1>8 DEF MemAsked
  <1>9. CASE phase' # "fault" /\ s.type # "PT_LOAD"
    <2>1. phase' = "segments" /\ ph' = ph + 1 /\ UNCHANGED memVars
      BY <1>1, <1>9 DEF Segment, Fault
    <2>2. t \notin Rounds(argv)
      BY <1>5, <1>9
    <2> HIDE DEF t
    <2>3. \A u \in Rounds(argv) : u < t + 1 <=> u < t
      BY <1>4, <2>2
    <2>4. DoneRounds' = DoneRounds
      BY <1>6, <1>7, <2>1, <2>3
    <2>5. QED
      BY <1>1, <2>1, <2>4, MemKept DEF Phases
  <1>10. CASE phase' # "fault" /\ s.type = "PT_LOAD"
    <2>1. /\ phase' = "segments" /\ ph' = ph + 1
          /\ PutAt(s.at, cells) /\ MapAt(s.at)
      BY <1>1, <1>10 DEF Segment, Fault
    <2>2. t \in Rounds(argv)
      BY <1>5, <1>10
    <2>3. Piece(argv, t) = [at |-> s.at, cells |-> SegmentCells(f, s)]
      <3>1. ~(t <= Len(argv)) /\ t - Len(argv) = ph
        BY <1>1, <1>4
      <3>2. QED
        BY <1>3, <3>1 DEF Piece
    <2> HIDE DEF t, s, c
    <2>4. DoneRounds' = DoneRounds \cup {t} /\ DoneRounds \in SUBSET Nat
          /\ \A u \in DoneRounds : u < t
      BY <1>4, <1>6, <1>7, <2>1, <2>2
    <2>5. Piece(argv, t).at = s.at /\ Piece(argv, t).cells = SegmentCells(f, s)
      BY <2>3
    <2>6. k \in Nat /\ zeros \in Seq(Cells) /\ Len(zeros) = k
      <3>1. k \in Nat
        BY <1>2
      <3> HIDE DEF k
      <3>2. zeros \in [1 .. k -> Cells]
        BY Numbers
      <3>3. QED
        BY <3>1, <3>2
    <2> DEFINE part == Part(s.offset, s.filesz)
    <2>7. part \in Seq(Cells) /\ Len(part) = s.filesz
      BY <1>1, <1>2, PartType DEF TypeOK
    <2>8. Len(cells) = s.memsz /\ Len(SegmentCells(f, s)) = s.memsz
      <3>1. Len(cells) = Len(part) + Len(zeros)
        BY <2>6, <2>7, Catenation, Zenon
      <3>2. Len(cells) = s.filesz + (s.memsz - s.filesz)
        BY <2>6, <2>7, <3>1, Zenon
      <3> HIDE DEF cells, k
      <3>3. Len(SegmentCells(f, s)) = s.memsz
        BY <1>2 DEF SegmentCells
      <3>4. QED
        BY <1>2, <3>2, <3>3
    <2>9. sized /\ Clean => cells = SegmentCells(f, s)
      <3>1. SUFFICES ASSUME sized, Clean PROVE cells = SegmentCells(f, s)
        OBVIOUS
      <3>2. buf = c /\ f \in Files
        BY <1>1, <1>2, <3>1 DEF BufferIsFile, Clean, c
      <3>3. part = [i \in 1 .. s.filesz |-> c[s.offset + i]]
        BY <1>2, <3>2, PartOfFile DEF c
      <3>4. ASSUME NEW i \in 1 .. s.memsz PROVE cells[i] = SegmentCells(f, s)[i]
        <4>1. SegmentCells(f, s)[i] = IF i <= s.filesz THEN c[s.offset + i] ELSE Zero
          BY DEF SegmentCells, c
        <4>2. CASE i <= s.filesz
          <5>1. i \in 1 .. Len(part) /\ i \in 1 .. s.filesz
            BY <1>2, <2>7, <4>2
          <5>2. cells[i] = part[i]
            BY <2>6, <2>7, <5>1, Catenation, Zenon
          <5>3. part[i] = c[s.offset + i]
            BY <3>3, <5>1
          <5>4. QED
            BY <4>1, <4>2, <5>2, <5>3
        <4>3. CASE ~(i <= s.filesz)
          <5>1. i - s.filesz \in 1 .. k /\ i > Len(part) /\ i \in 1 .. Len(part) + Len(zeros)
            <6>1. /\ i - s.filesz \in 1 .. s.memsz - s.filesz
                  /\ i > s.filesz /\ i \in 1 .. s.filesz + (s.memsz - s.filesz)
              BY <1>2, <4>3, Behind
            <6>2. QED
              BY <2>6, <2>7, <6>1, Zenon
          <5>2. cells[i] = zeros[i - Len(part)]
            BY <2>6, <2>7, <5>1, Catenation, Zenon
          <5>3. zeros[i - s.filesz] = Zero
            BY <5>1
          <5>4. QED
            BY <2>7, <4>1, <4>3, <5>2, <5>3
        <4>4. QED
          BY <4>2, <4>3
      <3>5. cells = [i \in 1 .. s.memsz |-> cells[i]]
        <4> HIDE DEF part, zeros
        <4> DEFINE both == part \o zeros
        <4>1. both \in Seq(Cells)
          BY <2>6, <2>7
        <4>2. Len(both) = s.memsz
          BY <2>8 DEF part
        <4> HIDE DEF both
        <4>3. both = [i \in 1 .. s.memsz |-> both[i]]
          BY <4>1, <4>2
        <4>4. QED
          BY <4>3 DEF both, part
      <3>6. SegmentCells(f, s) = [i \in 1 .. s.memsz |-> SegmentCells(f, s)[i]]
        BY DEF SegmentCells
      <3> HIDE DEF cells
      <3>7. QED
        BY <3>4, <3>5, <3>6, Zenon
    <2>10. QED
      BY <1>1, <1>2, <1>4, <2>1, <2>4, <2>5, <2>8, <2>9, MemAdded DEF Phases
  <1>11. QED
    BY <1>8, <1>9, <1>10

LEMMA DoneMem == ASSUME IInv, SegmentsDone PROVE MemAsked'
  <1>1. /\ TypeOK /\ JobOK /\ JobAsked /\ MemAsked
        /\ phase = "segments" /\ ph > Len(Segments[job.file]) /\ phase' = "boot"
        /\ argv' = argv /\ UNCHANGED memVars /\ sized' = sized /\ Clean' = Clean
    BY DEF IInv, ReadInv, SegmentsDone, optVars, Clean
  <1> DEFINE f == job.file
             n == Len(Segments[f])
  <1>2. Given(argv, "e") # {} /\ f = First(argv, "e") /\ ph \in Nat
    BY <1>1 DEF JobAsked, ElfAsked, JobOK
  <1>3. DoneRounds = {t \in Rounds(argv) : t < Len(argv) + ph} /\ DoneRounds' = Rounds(argv)
    BY <1>1 DEF DoneRounds, Loading
  <1>4. ASSUME NEW t \in Rounds(argv) PROVE t < Len(argv) + ph
    <2>1. Len(argv) \in Nat /\ \A u \in Given(argv, "u") : u \in Nat /\ u <= Len(argv)
      BY <1>1, Arguments, RoundsInOrder
    <2>2. ph > 0
      BY <1>1 DEF JobOK
    <2>3. CASE t \in Given(argv, "u")
      BY <1>2, <2>1, <2>2, <2>3
    <2>4. CASE t \notin Given(argv, "u")
      <3>1. t \in Len(argv) + 1 .. Len(argv) + n
        BY <1>2, <1>4, <2>4 DEF Rounds
      <3>2. ph > n /\ n \in Nat
        BY <1>1, LoaderAssumption DEF JobOK
      <3> HIDE DEF n
      <3>3. QED
        BY <1>2, <2>1, <3>1, <3>2
    <2>5. QED
      BY <2>3, <2>4
  <1>5. DoneRounds' = DoneRounds
    BY <1>3, <1>4
  <1>6. QED
    BY <1>1, <1>5, MemKept DEF Phases

LEMMA MemAskedStep == ASSUME IInv, JobAsked', [Next]_vars PROVE MemAsked'
  <1>1. CASE parse_args \/ Choose
    BY <1>1, ParseMem, ChooseMem
  <1>2. CASE Open \/ Read \/ ReadFails \/ ReadDone
    BY <1>2, ReadMem
  <1>3. CASE CopyImage \/ ElfHeader \/ Segment \/ SegmentsDone
    BY <1>3, CopyMem, HeaderMem, SegmentMem, DoneMem
  <1>4. CASE Boot
    BY <1>4 DEF Boot, MemAsked
  <1>5. CASE OpenFails
    BY <1>5 DEF OpenFails, MemAsked
  <1>6. CASE UNCHANGED vars
    <2>1. /\ MemAsked /\ phase' = phase /\ argv' = argv /\ UNCHANGED memVars /\ sized' = sized
          /\ Clean' = Clean
      BY <1>6 DEF IInv, vars, optVars, memVars, Clean
    <2>2. DoneRounds' = DoneRounds
      BY <1>6 DEF DoneRounds, KernelJob, Loading, vars, optVars
    <2>3. CASE phase \in Phases
      BY <2>1, <2>2, <2>3, MemKept
    <2>4. CASE phase \notin Phases
      BY <2>1, <2>4 DEF MemAsked, Phases
    <2>5. QED
      BY <2>3, <2>4
  <1>7. QED
    BY <1>1, <1>2, <1>3, <1>4, <1>5, <1>6 DEF Next, Step

LEMMA InitIInv == Init => IInv
  <1> SUFFICES ASSUME Init PROVE IInv
    OBVIOUS
  <1>1. /\ ReadInv /\ TypeOK /\ optind = 1 /\ phase = "parse" /\ ~bram_mapped
        /\ img_file = NULL /\ elf_file = NULL
    BY InitInvariant DEF Init, ReadInv
  <1>2. \A opt : \A i \in Given(argv, opt) : i \in Nat /\ i >= 1
    BY <1>1, Arguments
  <1>3. FilesTaken
    BY <1>1, <1>2 DEF FilesTaken, Taken
  <1>4. JobAsked
    BY <1>1, Arguments DEF JobAsked, Loading
  <1>5. DoneRounds = {}
    <2>1. DoneRounds = {t \in Given(argv, "u") : t < optind}
      BY <1>1 DEF DoneRounds, Loading
    <2>2. QED
      BY <1>1, <1>2, <2>1
  <1>6. \A dev \in {"ddr", "bram"} : \A o \in 0 .. Size(dev) - 1 : mem[dev][o] = Zero
    BY DEF Init
  <1>7. MemAsked
    BY <1>1, <1>5, <1>6 DEF MemAsked, After
  <1>8. QED
    BY <1>1, <1>3, <1>4, <1>7 DEF IInv

LEMMA NextIInv == IInv /\ [Next]_vars => IInv'
  <1> SUFFICES ASSUME IInv, [Next]_vars PROVE IInv'
    OBVIOUS
  <1>1. ReadInv' /\ FilesTaken'
    BY NextInvariant, FilesTakenStep DEF IInv, ReadInv
  <1>2. JobAsked' /\ MemAsked'
    BY JobAskedStep, MemAskedStep
  <1>3. QED
    BY <1>1, <1>2 DEF IInv

\* A buffer that read_file returns is the file if no read was short or failed,
\* load_elf goes on with ELF files only, each job is the one that the options
\* ask for, and memory holds what they give so far (monitor.c:40-185).
THEOREM Invariance == Spec => []IInv
  BY InitIInv, NextIInv, PTL DEF Spec

-----------------------------------------------------------------------------
\* The stub is the last thing that goes to memory.
LEMMA BootLoads == ASSUME IInv, Boot PROVE LoadedAsAsked'
  <1>1. /\ TypeOK /\ JobAsked /\ MemAsked /\ phase = "boot"
        /\ argv' = argv /\ sized' = sized /\ elf_entry' = elf_entry /\ Clean' = Clean
    BY DEF IInv, ReadInv, Boot, optVars, Clean
  <1> DEFINE R == Rounds(argv)
  <1> SUFFICES ASSUME sized, NEW dev \in {"ddr", "bram"}, NEW o \in 0 .. Size(dev) - 1
               PROVE  IF StubAsked(argv, dev, o)
                      THEN mem'[dev][o] = Stub(argv)[o + 1]
                      ELSE After(R, argv, Clean, dev, o, mem'[dev][o])
    BY <1>1 DEF LoadedAsAsked
  <1>2. DoneRounds = R
    BY <1>1 DEF DoneRounds, Loading
  <1>3. /\ bram_mapped <=> \E t \in R : Piece(argv, t).at = Reset
        /\ After(R, argv, Clean, dev, o, mem[dev][o])
    BY <1>1, <1>2 DEF MemAsked
  <1>4. CASE bram_mapped
    <2>1. mem' = mem
      BY <1>4 DEF Boot
    <2>2. ~StubAsked(argv, dev, o)
      BY <1>3, <1>4 DEF StubAsked
    <2>3. QED
      BY <1>3, <2>1, <2>2
  <1>5. CASE ~bram_mapped
    <2>1. PutAt(Reset, BootStub[elf_entry])
      BY <1>5 DEF Boot, Reset
    <2>2. Given(argv, "e") # {}
      <3>1. SUFFICES ASSUME Given(argv, "e") = {} PROVE FALSE
        OBVIOUS
      <3>2. Len(argv) + 1 \in R /\ ~(Len(argv) + 1 <= Len(argv))
        BY <1>1, <3>1, Arguments DEF Rounds
      <3>3. Piece(argv, Len(argv) + 1).at = Reset
        BY <3>1, <3>2 DEF Piece
      <3>4. QED
        BY <1>3, <1>5, <3>2, <3>3
    <2>3. BootStub[elf_entry] = Stub(argv)
      BY <1>1, <2>2 DEF JobAsked, Stub
    <2>4. mem'[dev][o] = IF Within(Reset, Len(Stub(argv)), dev, o) THEN Stub(argv)[o - Reset.off + 1]
                                                                ELSE mem[dev][o]
      BY <1>1, <2>1, <2>3, PlacesDiffer DEF PutAt, Within, TypeOK
    <2>5. StubAsked(argv, dev, o) <=> Within(Reset, Len(Stub(argv)), dev, o)
      BY <1>3, <1>5 DEF StubAsked
    <2>6. Reset.off = 0 /\ o - 0 = o
      BY DEF Reset
    <2>7. QED
      BY <1>3, <2>4, <2>5, <2>6
  <1>6. QED
    BY <1>4, <1>5

\* When the CPU starts, memory holds what the options ask for, whatever their
\* order and number, the files and the program headers (monitor.c:40-185).
THEOREM LoadsAsAsked == Spec => []LoadedAsAsked
  <1>1. Init => LoadedAsAsked
    BY DEF Init, LoadedAsAsked
  <1>2. IInv /\ LoadedAsAsked /\ [Next]_vars => LoadedAsAsked'
    <2> SUFFICES ASSUME IInv, LoadedAsAsked, [Next]_vars PROVE LoadedAsAsked'
      OBVIOUS
    <2>1. CASE Boot
      BY <2>1, BootLoads
    <2>2. CASE UNCHANGED vars
      BY <2>2 DEF LoadedAsAsked, Clean, vars, optVars, memVars
    <2>3. CASE Next /\ ~Boot
      <3>1. phase' # "run"
        BY <2>3 DEF Next, Step, parse_args, ParseImage, ParseElf, ParseKernel, ParseFlag, ParseHelp,
                    StartImage, Choose, Open, OpenFails, Read, ReadFails, Reading, ReadDone,
                    CopyImage, ElfHeader, Segment, SegmentsDone, Fault
      <3>2. QED
        BY <3>1 DEF LoadedAsAsked
    <2>4. QED
      BY <2>1, <2>2, <2>3
  <1>3. QED
    BY <1>1, <1>2, Invariance, PTL DEF Spec
-----------------------------------------------------------------------------
\* init_monitor ends.
LEMMA ToTakeRange ==
    ASSUME IInv
    PROVE  ToTake \in Nat /\ optind \in Nat /\ Len(argv) \in Nat
  <1>1. Len(argv) \in Nat /\ optind \in Nat /\ optind <= Len(argv) + 1
    BY Arguments DEF IInv, ReadInv, TypeOK, JobAsked
  <1>2. QED
    BY <1>1 DEF ToTake

LEMMA BaseRange ==
    ASSUME IInv
    PROVE  Base \in Nat /\ (KernelJob => Base = 6 * ToTake + 6) /\ (~KernelJob => Base = 2)
  BY ToTakeRange DEF Base

LEMMA ParseAdvances == ASSUME IInv, parse_args PROVE Advance
  <1>1. /\ phase = "parse" /\ Stage = 6 * ToTake + 6 /\ ToTake \in Nat
        /\ ToTake' = ToTake - 1 /\ ToTake - 1 \in Nat
    BY ToTakeRange DEF parse_args, Stage, ToTake
  <1>2. CASE phase' = "parse"
    <2>1. Stage' = 6 * (ToTake - 1) + 6
      BY <1>1, <1>2 DEF Stage
    <2>2. QED
      BY <1>1, <2>1 DEF Advance
  <1>3. CASE phase' = "exit"
    <2>1. Stage' = 0
      BY <1>3 DEF Stage
    <2>2. QED
      BY <1>1, <2>1 DEF Advance
  <1>4. CASE ParseKernel(argv[optind])
    <2>1. phase' = "open" /\ KernelJob'
      BY <1>4 DEF ParseKernel, StartImage, KernelJob, KernelAt
    <2>2. Stage' = 6 * (ToTake - 1) + 6 + 3
      BY <1>1, <2>1 DEF Stage, Base
    <2>3. QED
      BY <1>1, <2>2 DEF Advance
  <1>5. QED
    BY <1>1, <1>2, <1>3, <1>4
       DEF parse_args, ParseImage, ParseElf, ParseFlag, ParseHelp

LEMMA ChooseAdvances == ASSUME IInv, Choose PROVE Advance
  <1>1. Stage = 6
    <2>1. ToTake = 0
      BY ToTakeRange DEF Choose, ToTake
    <2>2. QED
      BY <2>1 DEF Choose, Stage
  <1>2. CASE phase' = "fault"
    <2>1. Stage' = 0
      BY <1>2 DEF Stage
    <2>2. QED
      BY <1>1, <2>1 DEF Advance
  <1>3. CASE phase' = "open"
    <2>1. ~KernelJob'
      BY <1>3, PlacesDiffer DEF Choose, StartImage, KernelJob, Reset
    <2>2. Stage' = 5
      BY <1>3, <2>1 DEF Stage, Base
    <2>3. QED
      BY <1>1, <2>2 DEF Advance
  <1>4. QED
    BY <1>2, <1>3 DEF Choose, StartImage

\* Within read_file the job stays.
LEMMA SameBase ==
    ASSUME IInv, UNCHANGED <<optVars, job>>
    PROVE  Base' = Base
  BY DEF Base, ToTake, KernelJob, optVars

LEMMA OpenAdvances == ASSUME IInv, Open PROVE Advance
  <1>1. Stage = Base + 3 /\ Base' = Base /\ Base \in Nat /\ phase' \in {"read", "copy"}
    BY BaseRange, SameBase DEF Open, Stage
  <1>2. Stage' \in {Base + 2, Base + 1}
    BY <1>1 DEF Stage
  <1>3. QED
    BY <1>1, <1>2 DEF Advance

LEMMA ReadAdvances == ASSUME IInv, Read PROVE Advance
  <1>1. phase = "read" /\ phase' = "read" /\ len < size /\ size' = size /\ Stage' = Stage
    BY SameBase DEF Read, Reading, Stage
  <1>2. PICK k \in 1 .. Min2(size - len, Len(Content[job.file]) - fpos) : len' = len + k
    BY DEF Read
  <1>3. len \in Nat /\ size \in Nat /\ fpos \in Nat /\ Len(Content[job.file]) \in Nat
    <2>1. job.file \in Files
      BY <1>1 DEF IInv, ReadInv, JobOK
    <2>2. QED
      BY <2>1, LoaderAssumption, Numbers DEF IInv, ReadInv, TypeOK
  <1>4. k \in 1 .. size - len
    BY <1>1, <1>2, <1>3 DEF Min2
  <1>5. Pieces = size - len /\ Pieces' = IF len' < size THEN size - len' ELSE 0
    BY <1>1 DEF Pieces
  <1>6. Pieces' \in 0 .. Pieces - 1
    BY <1>2, <1>3, <1>4, <1>5
  <1>7. QED
    BY <1>1, <1>6 DEF Advance

LEMMA DoneAdvances == ASSUME IInv, ReadDone PROVE Advance
  <1>1. Stage = Base + 2 /\ Base' = Base /\ Base \in Nat /\ phase' = "copy"
    BY BaseRange, SameBase DEF ReadDone, Stage
  <1>2. Stage' = Base + 1
    BY <1>1 DEF Stage
  <1>3. QED
    BY <1>1, <1>2 DEF Advance

LEMMA CopyAdvances == ASSUME IInv, CopyImage PROVE Advance
  <1>1. /\ Stage = Base + 1 /\ Base \in Nat /\ phase = "copy" /\ job.kind = "image"
        /\ phase' \in {"parse", "boot", "fault"} /\ UNCHANGED optVars
    BY BaseRange DEF CopyImage, Stage, Fault
  <1>2. CASE phase' = "parse"
    <2>1. job.at.dev = "ddr"
      BY <1>2 DEF CopyImage, Fault
    <2>2. KernelJob
      BY <1>1, <2>1, PlacesDiffer DEF IInv, JobAsked, Loading, ImageAsked
    <2>3. Base = 6 * ToTake + 6 /\ ToTake' = ToTake /\ ToTake \in Nat
      BY <1>1, <2>2, BaseRange, ToTakeRange DEF ToTake, optVars
    <2>4. Stage' = 6 * ToTake + 6
      BY <1>2, <2>3 DEF Stage
    <2>5. QED
      BY <1>1, <2>3, <2>4 DEF Advance
  <1>3. CASE phase' \in {"boot", "fault"}
    <2>1. Base >= 2
      BY BaseRange, ToTakeRange
    <2>2. Stage' \in {0, 1}
      BY <1>3 DEF Stage
    <2>3. QED
      BY <1>1, <2>1, <2>2 DEF Advance
  <1>4. QED
    BY <1>1, <1>2, <1>3

LEMMA HeaderAdvances == ASSUME IInv, ElfHeader PROVE Advance
  <1>1. Stage = 3
    <2>1. ~KernelJob /\ phase = "copy"
      BY DEF ElfHeader, KernelJob
    <2>2. QED
      BY <2>1 DEF Stage, Base
  <1>2. Stage' \in {0, 2}
    BY DEF ElfHeader, Fault, Stage
  <1>3. QED
    BY <1>1, <1>2 DEF Advance

LEMMA SegmentAdvances == ASSUME IInv, Segment PROVE Advance
  <1>1. Stage = 2 /\ Pieces = Len(Segments[job.file]) + 1 - ph
    BY DEF Segment, Stage, Pieces
  <1>2. Len(Segments[job.file]) \in Nat /\ ph \in Nat /\ ph <= Len(Segments[job.file])
    <2>1. phase = "segments" /\ ph <= Len(Segments[job.file])
      BY DEF Segment
    <2>2. job.file \in DOMAIN Segments /\ ph \in Nat
      BY <2>1 DEF IInv, ReadInv, JobOK
    <2>3. QED
      BY <2>1, <2>2, LoaderAssumption
  <1>3. CASE phase' = "fault"
    <2>1. Stage' = 0
      BY <1>3 DEF Stage
    <2>2. QED
      BY <1>1, <2>1 DEF Advance
  <1>4. CASE phase' = "segments" /\ job' = job /\ ph' = ph + 1
    <2>1. Stage' = 2 /\ Pieces' = Len(Segments[job.file]) + 1 - (ph + 1)
      BY <1>4 DEF Stage, Pieces
    <2> DEFINE l == Len(Segments[job.file])
    <2>2. l \in Nat /\ Pieces = l + 1 - ph /\ Pieces' = l + 1 - (ph + 1) /\ ph <= l
      BY <1>1, <1>2, <2>1
    <2> HIDE DEF l
    <2>3. Pieces' \in 0 .. Pieces - 1
      BY <1>2, <2>2
    <2>4. QED
      BY <1>1, <2>1, <2>3 DEF Advance
  <1>5. QED
    BY <1>3, <1>4 DEF Segment, Fault

LEMMA AdvanceNext == IInv /\ [Next]_vars => [Advance]_vars
  <1> SUFFICES ASSUME IInv, Next PROVE Advance
    OBVIOUS
  <1>1. CASE ReadFails
    BY <1>1 DEF ReadFails, Reading, Advance, Failed
  <1>2. CASE SegmentsDone
    BY <1>2 DEF SegmentsDone, Stage, Advance
  <1>3. CASE Boot
    BY <1>3 DEF Boot, Stage, Advance
  <1>4. CASE OpenFails
    <2>1. Stage = Base + 3 /\ Stage' = 0 /\ Base \in Nat
      BY <1>4, BaseRange DEF OpenFails, Stage
    <2>2. QED
      BY <2>1 DEF Advance
  <1>5. QED
    BY <1>1, <1>2, <1>3, <1>4, ParseAdvances, ChooseAdvances, OpenAdvances, ReadAdvances, DoneAdvances,
       CopyAdvances, HeaderAdvances, SegmentAdvances DEF Next, Step

\* Every step of init_monitor but a failing read takes it nearer to its end, for
\* all options, files, headers and ways to split the reads (monitor.c:48-50,
\* 73-80, 136-165).
THEOREM Advances == Spec => LoadAdvances
  <1>1. IInv /\ [Next]_vars => [Advance]_vars
    BY AdvanceNext
  <1>2. QED
    BY <1>1, Invariance, PTL DEF Spec, LoadAdvances
=============================================================================

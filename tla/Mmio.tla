-------------------------------- MODULE Mmio --------------------------------
(***************************************************************************)
(* Memory-mapped I/O: the table of regions and its dispatch (memory.c,     *)
(* memory.h), the memories behind it (ddr.c, bram.c, video.c), the fast    *)
(* paths around it that the CPU takes (load_mem and store_mem of           *)
(* cpu-exec.c), the loader (paddr_map and memcpy of monitor.c) and the     *)
(* accesses of a debugger.  There are four ways to a byte of DDR: the fast *)
(* path, the dispatch, the loader's pointer, and each through the windows. *)
(*                                                                         *)
(* A byte is a member of Bytes; a word is the sequence of its bytes, the   *)
(* least significant one first.  An access is made in two steps: the       *)
(* request (an instruction with its effective address, a call of the       *)
(* loader or the debugger) and its answer.                                 *)
(***************************************************************************)
EXTENDS Integers, Sequences

CONSTANTS
    Addrs,                      \* virtual addresses, 0 .. 2^32 - 1 in the source
    IO_SPACE,                   \* 0x1FFFFFFF + 1, the mask of iomap
    UNMAPPED_BASE, UNMAPPED_END,
    LowLimit,                   \* 0x1000, of the preventive checks
    Lens,                       \* {1, 2, 4}
    Bytes, Zero,
    DDR_BASE, DDR_SIZE, BRAM_BASE, BRAM_SIZE, VMEM_SIZE,
    mmap_table,                 \* the regions, in order
    MaxSegment,                 \* longest segment that is loaded
    BootStub                    \* the words bram_init writes, as bytes

Memories == {"ddr", "bram", "vga"}
Devices  == Memories \cup {"badp", "gpio", "serial", "mac"}

Size(dev) == CASE dev = "ddr" -> DDR_SIZE [] dev = "bram" -> BRAM_SIZE
               [] dev = "vga" -> VMEM_SIZE

Regions == 1 .. Len(mmap_table)

\* No aligned access crosses the address a.
Whole(a) == \A len \in Lens : a % len = 0

ASSUME MmioAssumption ==
    /\ Addrs \subseteq Nat /\ IO_SPACE \in Nat \ {0}
    /\ UNMAPPED_BASE = 4 * IO_SPACE /\ UNMAPPED_END = 6 * IO_SPACE
    /\ LowLimit \in Nat
    /\ Lens \subseteq {1, 2, 4} /\ Whole(IO_SPACE)
    /\ Zero \in Bytes
    /\ DDR_BASE \in Nat /\ BRAM_BASE \in Nat
    /\ DDR_SIZE \in Nat /\ BRAM_SIZE \in Nat /\ VMEM_SIZE \in Nat
    /\ mmap_table \in Seq([start : Nat, end : Nat, dev : Devices])
    /\ \A i \in Regions : /\ mmap_table[i].start < mmap_table[i].end
                          /\ mmap_table[i].end <= IO_SPACE
    /\ MaxSegment \in Nat
    /\ BootStub \in Seq(Bytes) /\ Len(BootStub) <= BRAM_SIZE

\* Each memory lies in one region; the DDR and the BRAM fill theirs.
ASSUME TableAssumption ==
    /\ \A i, j \in Regions :
          mmap_table[i].dev = mmap_table[j].dev /\ mmap_table[i].dev \in Memories => i = j
    /\ \A i \in Regions : mmap_table[i].dev \in Memories =>
          /\ Whole(mmap_table[i].start)
          /\ \/ Whole(mmap_table[i].end)
             \/ Size(mmap_table[i].dev) <= mmap_table[i].end - mmap_table[i].start
    /\ Whole(DDR_SIZE) /\ Whole(BRAM_SIZE)
    /\ \E i \in Regions : mmap_table[i] =
          [start |-> DDR_BASE, end |-> DDR_BASE + DDR_SIZE, dev |-> "ddr"]
    /\ \E i \in Regions : mmap_table[i] =
          [start |-> BRAM_BASE, end |-> BRAM_BASE + BRAM_SIZE, dev |-> "bram"]

VARIABLES req,        \* the access under way, or NoReq
          mem,        \* the arrays ddr, bram and vmem
          mapped_size,\* ddr_mapped_size and bram_mapped_size
          bram_mapped,
          out,        \* the word that the last read returned, <<>> if none did
          running     \* "load", "run", or why the process ended

vars == <<req, mem, mapped_size, bram_mapped, out, running>>

\* Of the word of a read, only the length counts.
Request(by, write, words) ==
    [by : {by}, write : {write}, addr : Addrs, word : words]

WordsOf(lens) == UNION {[1 .. len -> Bytes] : len \in lens}

CpuRequests    == Request("cpu", TRUE, WordsOf(Lens)) \cup
                  Request("cpu", FALSE, UNION {[1 .. len -> {Zero}] : len \in Lens})
Aligned(r)     == r.addr % Len(r.word) = 0
DebugRequests  == {[r EXCEPT !.by = "debugger"] : r \in {q \in CpuRequests : Aligned(q)}}
LoaderRequests == Request("loader", TRUE, WordsOf(1 .. MaxSegment))
Requests       == CpuRequests \cup DebugRequests \cup LoaderRequests

NoReq == [by |-> "none"]

-----------------------------------------------------------------------------
\* memory.h

\* Mutant of is_unmapped: the end of kseg0 is taken for the end of kseg1.
is_kseg0(addr) == UNMAPPED_BASE <= addr /\ addr < UNMAPPED_BASE + IO_SPACE

\* Mutant of iomap: the mask is one bit short.
iomapShort(addr) == addr % (IO_SPACE \div 2)

is_unmapped(addr) == UNMAPPED_BASE <= addr /\ addr < UNMAPPED_END
iomap(addr)       == addr % IO_SPACE
prot_addr(addr)   == IF is_unmapped(addr) THEN iomap(addr) ELSE addr

\* memory.c: the first region that holds the address, 0 if there is none.
InRegion(addr, i) == mmap_table[i].start <= addr /\ addr < mmap_table[i].end

find_region(addr) ==
    IF \E i \in Regions : InRegion(addr, i)
    THEN CHOOSE i \in Regions : /\ InRegion(addr, i)
                                /\ \A j \in 1 .. i - 1 : ~InRegion(addr, j)
    ELSE 0

\* The half-open regions [x, y) and [a, b) of the table have a byte in common.
region_collide(x, y, a, b) == \/ x <= a /\ a < y
                              \/ x < b /\ b <= y
                              \/ a <= x /\ y <= b

\* The assertion of init_mmio: main stops at once if it does not hold.
init_mmio_passes ==
    \A i \in Regions : \A j \in i + 1 .. Len(mmap_table) :
        ~region_collide(mmap_table[i].start, mmap_table[i].end,
                        mmap_table[j].start, mmap_table[j].end)

-----------------------------------------------------------------------------
\* The readers and writers of the memories: bytes off .. off + len - 1.

\* check_ddr, check_bram and check_vmem.  Their addr + len is a uint32 sum, but
\* an access of the CPU or of a debugger is too short to wrap it.  A segment of
\* nearly 2^32 bytes may pass the check, and its memcpy then leaves the array:
\* the process is gone too, by a signal instead of the assertion.
Fits(dev, off, len) == off < Size(dev) /\ off + len <= Size(dev)

WordAt(dev, off, len) == [k \in 1 .. len |-> mem[dev][off + (k - 1)]]

SetBytes(dev, off, word) ==
    [mem EXCEPT ![dev] = [o \in 0 .. Size(dev) - 1 |->
                            IF off <= o /\ o < off + Len(word) THEN word[o - off + 1]
                                                               ELSE mem[dev][o]]]

\* The access is answered; the process ends in a failing assertion, with
\* memory as it is.
Done      == req' = NoReq /\ UNCHANGED <<mapped_size, bram_mapped, running>>
Stop(why) == running' = why /\ UNCHANGED <<req, mem, mapped_size, bram_mapped, out>>

\* mmap_table[i].read(off, len)
RegionRead(dev, off, len) ==
    \/ /\ dev \in Memories /\ Fits(dev, off, len)
       /\ out' = WordAt(dev, off, len)
       /\ UNCHANGED mem /\ Done
    \/ /\ dev \in Memories /\ ~Fits(dev, off, len)
       /\ Stop("fault")
    \/ /\ dev = "badp"
       /\ out' = [k \in 1 .. len |-> Zero]
       /\ UNCHANGED mem /\ Done
    \/ /\ dev = "gpio" /\ Stop("fault")
    \* The registers of the other devices: Serial has those of the UART.
    \/ /\ dev \in {"serial", "mac"}
       /\ out' \in [1 .. len -> Bytes]
       /\ UNCHANGED mem /\ Done
    \/ /\ dev \in {"serial", "mac"} /\ Stop("fault")

\* mmap_table[i].write(off, len, word)
RegionWrite(dev, off, word) ==
    \/ /\ dev \in Memories /\ Fits(dev, off, Len(word))
       /\ mem' = SetBytes(dev, off, word)
       /\ UNCHANGED out /\ Done
    \/ /\ dev \in Memories /\ ~Fits(dev, off, Len(word))
       /\ Stop("fault")
    \/ /\ dev \in {"badp", "serial", "mac"}
       /\ UNCHANGED <<mem, out>> /\ Done
    \/ /\ dev \in {"serial", "mac"} /\ Stop("fault")
    \/ /\ dev = "gpio" /\ (off # 0 \/ Len(word) # 1) /\ Stop("fault")
    \* The trap: in batch mode the process exits, otherwise NEMU_END is only
    \* stored, for cpu_exec to see (CpuExec), and the store is answered.
    \/ /\ dev = "gpio" /\ off = 0 /\ Len(word) = 1
       /\ Stop("trap") \/ (UNCHANGED <<mem, out>> /\ Done)

Region(pa) == mmap_table[find_region(pa)]

\* vaddr_read and vaddr_write, after prot_addr.
vaddr_read(pa, len) ==
    \/ find_region(pa) = 0 /\ Stop("fault")
    \/ find_region(pa) # 0 /\ RegionRead(Region(pa).dev, pa - Region(pa).start, len)

vaddr_write(pa, word) ==
    \/ find_region(pa) = 0 /\ Stop("fault")
    \/ find_region(pa) # 0 /\ RegionWrite(Region(pa).dev, pa - Region(pa).start, word)

-----------------------------------------------------------------------------
\* The CPU.  CHECK_ALIGNED_ADDR, then the preventive check, then memory.

InDdr(pa)  == DDR_BASE <= pa /\ pa < DDR_BASE + DDR_SIZE
InBram(pa) == BRAM_BASE <= pa /\ pa < BRAM_BASE + BRAM_SIZE

Cpu == running = "run" /\ req # NoReq /\ req.by = "cpu"

CpuFault == /\ Cpu
            /\ ~Aligned(req) \/ req.addr < LowLimit
            /\ Stop("fault")

load_mem ==
    /\ Cpu /\ ~req.write /\ Aligned(req) /\ req.addr >= LowLimit
    /\ LET pa == prot_addr(req.addr)
       IN  \/ /\ InDdr(pa)
              /\ out' = WordAt("ddr", pa - DDR_BASE, Len(req.word))
              /\ UNCHANGED mem /\ Done
           \/ /\ ~InDdr(pa) /\ InBram(pa)
              /\ out' = WordAt("bram", pa - BRAM_BASE, Len(req.word))
              /\ UNCHANGED mem /\ Done
           \/ /\ ~InDdr(pa) /\ ~InBram(pa)
              /\ vaddr_read(pa, Len(req.word))

store_mem ==
    /\ Cpu /\ req.write /\ Aligned(req) /\ req.addr >= LowLimit
    /\ LET pa == prot_addr(req.addr)
       IN  \/ /\ InDdr(pa)
              /\ mem' = SetBytes("ddr", pa - DDR_BASE, req.word)
              /\ UNCHANGED out /\ Done
           \/ /\ ~InDdr(pa)
              /\ vaddr_write(pa, req.word)

\* The debugger: no preventive check, and an address without a region reads
\* as zero and ignores writes.
Debugger == running = "run" /\ req # NoReq /\ req.by = "debugger"

vaddr_read_safe ==
    /\ Debugger /\ ~req.write
    /\ LET pa == prot_addr(req.addr)
       IN  \/ /\ find_region(pa) = 0
              /\ out' = [k \in 1 .. Len(req.word) |-> Zero]
              /\ UNCHANGED mem /\ Done
           \/ /\ find_region(pa) # 0
              /\ vaddr_read(pa, Len(req.word))

vaddr_write_safe ==
    /\ Debugger /\ req.write
    /\ LET pa == prot_addr(req.addr)
       IN  \/ find_region(pa) = 0 /\ UNCHANGED <<mem, out>> /\ Done
           \/ find_region(pa) # 0 /\ vaddr_write(pa, req.word)

-----------------------------------------------------------------------------
\* The loader: paddr_map(addr, Len(segment)) and a memcpy to the pointer.
\* Only ddr and bram have a map handler.

Loader == running = "load" /\ req # NoReq /\ req.by = "loader"

\* The region of the segment, if paddr_map lets it be loaded.
Loadable(addr, len) ==
    /\ is_unmapped(addr)
    /\ find_region(iomap(addr)) # 0
    /\ LET r == Region(iomap(addr))
       IN  r.dev \in {"ddr", "bram"} /\ Fits(r.dev, iomap(addr) - r.start, len)

LoadFault == /\ Loader /\ ~Loadable(req.addr, Len(req.word))
             /\ Stop("fault")

\* Mutant of LoadSegment: the last segment is taken for the farthest.
LoadSegmentLast ==
    /\ Loader /\ Loadable(req.addr, Len(req.word))
    /\ LET dev == Region(iomap(req.addr)).dev
           off == iomap(req.addr) - Region(iomap(req.addr)).start
       IN  /\ mem' = SetBytes(dev, off, req.word)
           /\ mapped_size' = [mapped_size EXCEPT ![dev] = off + Len(req.word)]
           /\ bram_mapped' = (bram_mapped \/ (dev = "bram" /\ off = 0))
    /\ req' = NoReq
    /\ UNCHANGED <<out, running>>

LoadSegment ==
    /\ Loader /\ Loadable(req.addr, Len(req.word))
    /\ LET dev == Region(iomap(req.addr)).dev
           off == iomap(req.addr) - Region(iomap(req.addr)).start
           end == off + Len(req.word)
       IN  /\ mem' = SetBytes(dev, off, req.word)
           /\ mapped_size' = [mapped_size EXCEPT ![dev] = IF end >= @ THEN end ELSE @]
           /\ bram_mapped' = (bram_mapped \/ (dev = "bram" /\ off = 0))
    /\ req' = NoReq
    /\ UNCHANGED <<out, running>>

\* The end of init_monitor: bram_init writes its stub if nothing was loaded at
\* the start of the BRAM, and the CPU starts there.
Boot == /\ running = "load" /\ req = NoReq
        /\ running' = "run"
        /\ mem' = IF bram_mapped THEN mem ELSE SetBytes("bram", 0, BootStub)
        /\ UNCHANGED <<req, mapped_size, bram_mapped, out>>

Ask == /\ req = NoReq
       /\ \/ running = "load" /\ req' \in LoaderRequests
          \/ running = "run"  /\ req' \in CpuRequests \cup DebugRequests
       /\ out' = <<>>
       /\ UNCHANGED <<mem, mapped_size, bram_mapped, running>>

-----------------------------------------------------------------------------
Init == /\ init_mmio_passes
        /\ req = NoReq
        /\ mem = [dev \in Memories |-> [o \in 0 .. Size(dev) - 1 |-> Zero]]
        /\ mapped_size = [dev \in {"ddr", "bram"} |-> 0]
        /\ bram_mapped = FALSE
        /\ out = <<>>
        /\ running = "load"

Next == \/ Ask \/ LoadSegment \/ LoadFault \/ Boot
        \/ CpuFault \/ load_mem \/ store_mem
        \/ vaddr_read_safe \/ vaddr_write_safe

Spec == Init /\ [][Next]_vars
-----------------------------------------------------------------------------
TypeOK == /\ req \in Requests \cup {NoReq}
          /\ DOMAIN mem = Memories
          /\ \A dev \in Memories : mem[dev] \in [0 .. Size(dev) - 1 -> Bytes]
          /\ mapped_size \in [{"ddr", "bram"} -> Nat]
          /\ bram_mapped \in BOOLEAN
          /\ out \in Seq(Bytes)
          /\ running \in {"load", "run", "fault", "trap"}

\* ddr_mapped_result and bram_mapped_result (what a differential test copies)
\* cover everything that was loaded, in whatever order the segments came, and
\* nothing beyond the memories.
MappedCovers ==
    \A dev \in {"ddr", "bram"} :
        /\ mapped_size[dev] <= Size(dev)
        /\ running = "load" =>
              \A o \in 0 .. Size(dev) - 1 : mem[dev][o] # Zero => o < mapped_size[dev]

IInv == TypeOK /\ MappedCovers

\* The physical addresses of memory, and what lies there.
IsCell(pa) == /\ find_region(pa) # 0
              /\ Region(pa).dev \in Memories
              /\ pa - Region(pa).start < Size(Region(pa).dev)

CellAddrs == {pa \in 0 .. IO_SPACE - 1 : IsCell(pa)}

\* Where the byte at a physical address of memory is kept.
Home == [pa \in CellAddrs |-> [dev |-> Region(pa).dev, off |-> pa - Region(pa).start]]

Flat == INSTANCE FlatMemory WITH
            Cells <- CellAddrs,
            Window <- UNMAPPED_BASE, IoSpace <- IO_SPACE,
            Stub <- BootStub, StubAddr <- BRAM_BASE,
            cells <- [pa \in CellAddrs |-> mem[Home[pa].dev][Home[pa].off]]

\* Whichever way an access takes (fast path, dispatch, debugger, loader), and
\* through whichever window, it is an access to one flat memory; an access
\* that fails or that meets a device leaves all of memory as it is.
FlatView == Flat!Spec
\* An access whose every byte lies in memory is answered: the CPU is refused
\* only what is unaligned or below 0x1000, the debugger nothing.
MemoryAnswers ==
    [][(running = "run" /\ running' # "run") =>
          \/ ~Aligned(req)
          \/ req.by = "cpu" /\ req.addr < LowLimit
          \/ \E k \in 0 .. Len(req.word) - 1 : Flat!Phys(req.addr) + k \notin CellAddrs]_vars
=============================================================================

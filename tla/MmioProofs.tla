----------------------------- MODULE MmioProofs -----------------------------
(***************************************************************************)
(* The memory map for every table that init_mmio accepts, every size of    *)
(* the memories and every word: whichever way an access takes, it is an    *)
(* access to one flat memory.                                              *)
(***************************************************************************)
EXTENDS Mmio, TLAPS

LEMMA Numbers ==
    /\ IO_SPACE \in Nat /\ IO_SPACE > 0 /\ LowLimit \in Nat
    /\ UNMAPPED_BASE = 4 * IO_SPACE /\ UNMAPPED_END = 6 * IO_SPACE
    /\ DDR_BASE \in Nat /\ BRAM_BASE \in Nat
    /\ Size("ddr") = DDR_SIZE /\ Size("bram") = BRAM_SIZE /\ Size("vga") = VMEM_SIZE
    /\ \A dev \in Memories : Size(dev) \in Nat
    /\ Addrs \subseteq Nat /\ Zero \in Bytes /\ Lens \subseteq {1, 2, 4}
  <1>1. Size("ddr") = DDR_SIZE /\ Size("bram") = BRAM_SIZE /\ Size("vga") = VMEM_SIZE
    BY DEF Size
  <1>2. DDR_SIZE \in Nat /\ BRAM_SIZE \in Nat /\ VMEM_SIZE \in Nat
    BY MmioAssumption
  <1>3. \A dev \in Memories : Size(dev) \in Nat
    BY <1>1, <1>2 DEF Memories
  <1>4. QED
    BY <1>1, <1>3, MmioAssumption

LEMMA RegionType ==
    ASSUME NEW i \in Regions
    PROVE  /\ i \in Nat /\ i > 0
           /\ mmap_table[i].start \in Nat /\ mmap_table[i].end \in Nat
           /\ mmap_table[i].dev \in Devices
           /\ mmap_table[i].start < mmap_table[i].end
           /\ mmap_table[i].end <= IO_SPACE
  <1> DEFINE Entry == [start : Nat, end : Nat, dev : Devices]
  <1>1. mmap_table \in Seq(Entry)
    BY MmioAssumption
  <1> HIDE DEF Entry
  <1>2. mmap_table[i] \in Entry /\ i \in Nat /\ i > 0
    BY <1>1 DEF Regions
  <1>3. QED
    BY <1>2, MmioAssumption DEF Entry

\* The regions that init_mmio accepts are disjoint.
LEMMA RegionsDisjoint ==
    ASSUME init_mmio_passes, NEW pa \in Nat, NEW i \in Regions, NEW j \in Regions,
           InRegion(pa, i), InRegion(pa, j)
    PROVE  i = j
  <1>1. ASSUME NEW k \in Regions, NEW l \in Regions, InRegion(pa, k), InRegion(pa, l), k < l
        PROVE  FALSE
    <2>1. l \in k + 1 .. Len(mmap_table)
      BY <1>1, RegionType, MmioAssumption DEF Regions
    <2>2. ~region_collide(mmap_table[k].start, mmap_table[k].end,
                          mmap_table[l].start, mmap_table[l].end)
      BY <2>1 DEF init_mmio_passes
    <2>3. QED
      BY <1>1, <2>2, RegionType DEF region_collide, InRegion
  <1>2. i \in Nat /\ j \in Nat
    BY RegionType
  <1>3. QED
    BY <1>1, <1>2

\* So find_region finds the only region that holds the address.
LEMMA FoundRegion ==
    ASSUME init_mmio_passes, NEW pa \in Nat, NEW i \in Regions, InRegion(pa, i)
    PROVE  find_region(pa) = i
  <1> DEFINE First(r) == InRegion(pa, r) /\ \A j \in 1 .. r - 1 : ~InRegion(pa, j)
  <1>1. First(i)
    <2>1. ASSUME NEW j \in 1 .. i - 1, InRegion(pa, j) PROVE FALSE
      <3>1. j \in Regions /\ j # i
        BY <2>1, RegionType, MmioAssumption DEF Regions
      <3>2. QED
        BY <2>1, <3>1, RegionsDisjoint
    <2>2. QED
      BY <2>1
  <1>2. ASSUME NEW r \in Regions, First(r) PROVE r = i
    BY <1>2, RegionsDisjoint
  <1>3. (CHOOSE r \in Regions : First(r)) = i
    <2> HIDE DEF First
    <2>1. QED
      BY <1>1, <1>2
  <1>4. QED
    BY <1>3 DEF find_region

LEMMA FindRegion ==
    ASSUME init_mmio_passes, NEW pa \in Nat
    PROVE  \/ find_region(pa) = 0 /\ \A i \in Regions : ~InRegion(pa, i)
           \/ find_region(pa) \in Regions /\ InRegion(pa, find_region(pa))
  <1>1. CASE \E i \in Regions : InRegion(pa, i)
    BY <1>1, FoundRegion
  <1>2. CASE ~ \E i \in Regions : InRegion(pa, i)
    BY <1>2 DEF find_region
  <1>3. QED
    BY <1>1, <1>2

\* The two windows of an address are those of the flat memory.
LEMMA Physical ==
    ASSUME NEW v \in Nat
    PROVE  /\ prot_addr(v) = Flat!Phys(v) /\ Flat!Phys(v) \in Nat
           /\ is_unmapped(v) => iomap(v) = Flat!Phys(v)
           /\ \/ Flat!Phys(v) = v
              \/ Flat!Phys(v) = v - 4 * IO_SPACE \/ Flat!Phys(v) = v - 5 * IO_SPACE
  <1>1. /\ IO_SPACE \in Nat /\ IO_SPACE > 0
        /\ UNMAPPED_BASE = 4 * IO_SPACE /\ UNMAPPED_END = 6 * IO_SPACE
    BY Numbers
  <1>2. CASE 4 * IO_SPACE <= v /\ v < 5 * IO_SPACE
    <2>1. v % IO_SPACE = v - 4 * IO_SPACE
      BY <1>1, <1>2
    <2>2. QED
      BY <1>1, <1>2, <2>1 DEF prot_addr, is_unmapped, iomap, Flat!Phys
  <1>3. CASE 5 * IO_SPACE <= v /\ v < 6 * IO_SPACE
    <2>1. v % IO_SPACE = v - 5 * IO_SPACE
      BY <1>1, <1>3
    <2>2. QED
      BY <1>1, <1>3, <2>1 DEF prot_addr, is_unmapped, iomap, Flat!Phys
  <1>4. CASE v < 4 * IO_SPACE \/ 6 * IO_SPACE <= v
    BY <1>1, <1>4 DEF prot_addr, is_unmapped, iomap, Flat!Phys
  <1>5. QED
    BY <1>1, <1>2, <1>3, <1>4

\* An aligned address is aligned in memory too.
LEMMA PhysicalAligned ==
    ASSUME NEW v \in Nat, NEW len \in Lens, v % len = 0
    PROVE  Flat!Phys(v) % len = 0
  <1>1. IO_SPACE % len = 0 /\ IO_SPACE \in Nat /\ len \in {1, 2, 4}
    BY Numbers, MmioAssumption DEF Whole
  <1>2. PICK p \in Nat : /\ p = Flat!Phys(v)
                         /\ p = v \/ p = v - 4 * IO_SPACE \/ p = v - 5 * IO_SPACE
    BY Physical
  <1>3. p % len = 0
    <2>1. CASE len = 1
      BY <1>1, <1>2, <2>1
    <2>2. CASE len = 2
      BY <1>1, <1>2, <2>2
    <2>3. CASE len = 4
      BY <1>1, <1>2, <2>3
    <2>4. QED
      BY <1>1, <2>1, <2>2, <2>3
  <1>4. QED
    BY <1>2, <1>3

\* An aligned access does not cross an aligned address.
LEMMA NotCrossed ==
    ASSUME NEW p \in Nat, NEW len \in Lens, p % len = 0, NEW a \in Nat, Whole(a), p < a
    PROVE  p + len <= a
  <1>1. a % len = 0 /\ len \in {1, 2, 4}
    BY Numbers DEF Whole
  <1>2. QED
    BY <1>1

-----------------------------------------------------------------------------
\* Where a byte of memory is kept.

LEMMA CellAt ==
    ASSUME init_mmio_passes, NEW pa \in Nat, NEW i \in Regions, InRegion(pa, i),
           mmap_table[i].dev \in Memories,
           pa - mmap_table[i].start < Size(mmap_table[i].dev)
    PROVE  /\ pa \in CellAddrs
           /\ Home[pa] = [dev |-> mmap_table[i].dev, off |-> pa - mmap_table[i].start]
  <1>1. find_region(pa) = i /\ i # 0
    BY FoundRegion, RegionType
  <1>2. pa \in 0 .. IO_SPACE - 1
    BY RegionType, Numbers DEF InRegion
  <1>3. pa \in CellAddrs
    BY <1>1, <1>2 DEF CellAddrs, IsCell, Region
  <1>4. QED
    BY <1>1, <1>3 DEF Home, Region

LEMMA CellType ==
    ASSUME init_mmio_passes, NEW c \in CellAddrs
    PROVE  \E i \in Regions :
              /\ InRegion(c, i) /\ c \in Nat /\ mmap_table[i].dev \in Memories
              /\ c - mmap_table[i].start \in 0 .. Size(mmap_table[i].dev) - 1
              /\ Home[c] = [dev |-> mmap_table[i].dev, off |-> c - mmap_table[i].start]
  <1>1. c \in Nat /\ IsCell(c)
    BY Numbers DEF CellAddrs
  <1>2. find_region(c) \in Regions /\ InRegion(c, find_region(c))
    BY <1>1, FindRegion DEF IsCell
  <1>3. QED
    BY <1>1, <1>2, RegionType, Numbers DEF IsCell, Region, Home, InRegion

LEMMA NamedRegions ==
    /\ \E i \in Regions : mmap_table[i] =
          [start |-> DDR_BASE, end |-> DDR_BASE + DDR_SIZE, dev |-> "ddr"]
    /\ \E i \in Regions : mmap_table[i] =
          [start |-> BRAM_BASE, end |-> BRAM_BASE + BRAM_SIZE, dev |-> "bram"]
    /\ \A i \in Regions : mmap_table[i].dev \in {"ddr", "bram"} =>
          mmap_table[i].end = mmap_table[i].start + Size(mmap_table[i].dev)
  <1>1. PICK d \in Regions : mmap_table[d] =
          [start |-> DDR_BASE, end |-> DDR_BASE + DDR_SIZE, dev |-> "ddr"]
    BY TableAssumption
  <1>2. PICK b \in Regions : mmap_table[b] =
          [start |-> BRAM_BASE, end |-> BRAM_BASE + BRAM_SIZE, dev |-> "bram"]
    BY TableAssumption
  <1>3. \A i \in Regions : /\ mmap_table[i].dev = "ddr"  => i = d
                           /\ mmap_table[i].dev = "bram" => i = b
    BY <1>1, <1>2, TableAssumption DEF Memories
  <1>4. QED
    BY <1>1, <1>2, <1>3, Numbers

\* The bytes of a word that fits in its memory lie in the region of the word,
\* one after the other.
LEMMA WordInCells ==
    ASSUME init_mmio_passes, NEW pa \in Nat, NEW i \in Regions, InRegion(pa, i),
           mmap_table[i].dev \in Memories,
           NEW n \in Nat, Fits(mmap_table[i].dev, pa - mmap_table[i].start, n),
           (n \in Lens /\ pa % n = 0) \/ mmap_table[i].dev # "vga",
           NEW k \in 0 .. n - 1
    PROVE  /\ pa + k \in CellAddrs
           /\ Home[pa + k] = [dev |-> mmap_table[i].dev,
                              off |-> pa - mmap_table[i].start + k]
  <1> DEFINE start == mmap_table[i].start
             end   == mmap_table[i].end
             dev   == mmap_table[i].dev
  <1>1. /\ start \in Nat /\ end \in Nat /\ Size(dev) \in Nat
        /\ start <= pa /\ pa < end /\ pa + k < start + Size(dev)
    BY RegionType, Numbers DEF InRegion, Fits
  <1>2. pa + k < end
    <2>1. CASE dev # "vga"
      BY <1>1, <2>1, NamedRegions DEF Memories
    <2>2. CASE n \in Lens /\ pa % n = 0 /\ Whole(end)
      <3>1. pa + n <= end
        BY <1>1, <2>2, NotCrossed
      <3>2. QED
        BY <1>1, <3>1
    <2>3. CASE Size(dev) <= end - start
      BY <1>1, <2>3
    <2>4. QED
      BY <2>1, <2>2, <2>3, TableAssumption
  <1>3. InRegion(pa + k, i) /\ pa + k \in Nat /\ (pa + k) - start = pa - start + k
    BY <1>1, <1>2 DEF InRegion
  <1>4. (pa + k) - start < Size(dev)
    BY <1>1
  <1> DEFINE p == pa + k
  <1>5. InRegion(p, i) /\ p \in Nat /\ p - start < Size(dev)
    BY <1>3, <1>4
  <1> HIDE DEF p
  <1>6. p \in CellAddrs /\ Home[p] = [dev |-> dev, off |-> p - start]
    BY <1>5, CellAt
  <1>7. QED
    BY <1>3, <1>6 DEF p

\* An aligned access to a device, or to nothing, has no byte in memory.
At(pa, n) == {pa + k : k \in 0 .. n - 1}

LEMMA NoCells ==
    ASSUME init_mmio_passes, NEW pa \in Nat, NEW n \in Lens, pa % n = 0,
           find_region(pa) = 0 \/ Region(pa).dev \notin Memories
    PROVE  At(pa, n) \cap CellAddrs = {}
  <1> SUFFICES ASSUME NEW k \in 0 .. n - 1, pa + k \in CellAddrs PROVE FALSE
    BY DEF At
  <1>1. n \in Nat /\ k \in Nat
    BY Numbers
  <1>2. PICK i \in Regions : InRegion(pa + k, i) /\ mmap_table[i].dev \in Memories
    BY CellType
  <1>3. /\ mmap_table[i].start \in Nat /\ mmap_table[i].end \in Nat
        /\ mmap_table[i].start <= pa + k /\ pa + k < mmap_table[i].end
        /\ Whole(mmap_table[i].start)
    BY <1>2, RegionType, TableAssumption DEF InRegion
  <1>4. CASE mmap_table[i].start <= pa
    <2>1. InRegion(pa, i)
      BY <1>1, <1>3, <1>4 DEF InRegion
    <2>2. find_region(pa) = i /\ i # 0
      BY <2>1, FoundRegion, RegionType
    <2>3. QED
      BY <1>2, <2>2 DEF Region
  <1>5. CASE pa < mmap_table[i].start
    <2>1. pa + n <= mmap_table[i].start
      BY <1>3, <1>5, NotCrossed
    <2>2. QED
      BY <1>1, <1>3, <2>1
  <1>6. QED
    BY <1>3, <1>4, <1>5

-----------------------------------------------------------------------------
\* Reading and writing the arrays.

MemOK(m) == /\ DOMAIN m = Memories
            /\ \A dev \in Memories : m[dev] \in [0 .. Size(dev) - 1 -> Bytes]

\* The flat memory that the arrays are.
View == [pa \in CellAddrs |-> mem[Home[pa].dev][Home[pa].off]]

LEMMA ViewType ==
    ASSUME init_mmio_passes, MemOK(mem)
    PROVE  View \in [CellAddrs -> Bytes]
  <1>1. ASSUME NEW c \in CellAddrs PROVE mem[Home[c].dev][Home[c].off] \in Bytes
    <2>1. PICK i \in Regions :
              /\ mmap_table[i].dev \in Memories
              /\ c - mmap_table[i].start \in 0 .. Size(mmap_table[i].dev) - 1
              /\ Home[c] = [dev |-> mmap_table[i].dev, off |-> c - mmap_table[i].start]
      BY CellType
    <2>2. Home[c].dev = mmap_table[i].dev /\ Home[c].off = c - mmap_table[i].start
      BY <2>1
    <2>3. Home[c].dev \in Memories /\ Home[c].off \in 0 .. Size(Home[c].dev) - 1
      BY <2>1, <2>2
    <2>4. QED
      BY <2>3 DEF MemOK
  <1>2. QED
    BY <1>1 DEF View

LEMMA WordAtType ==
    ASSUME MemOK(mem), NEW dev \in Memories, NEW off \in Nat, NEW n \in Nat, Fits(dev, off, n)
    PROVE  WordAt(dev, off, n) \in [1 .. n -> Bytes]
  <1>1. ASSUME NEW k \in 1 .. n PROVE mem[dev][off + (k - 1)] \in Bytes
    <2>1. off + (k - 1) \in 0 .. Size(dev) - 1
      BY Numbers DEF Fits
    <2>2. QED
      BY <2>1 DEF MemOK
  <1>2. QED
    BY <1>1 DEF WordAt

\* What SetBytes leaves in an array.
OnlyBytesAt(dev, off, word) ==
    /\ DOMAIN mem' = Memories
    /\ \A d \in Memories : d # dev => mem'[d] = mem[d]
    /\ DOMAIN mem'[dev] = 0 .. Size(dev) - 1
    /\ \A o \in 0 .. Size(dev) - 1 :
          mem'[dev][o] = IF off <= o /\ o < off + Len(word) THEN word[o - off + 1]
                                                            ELSE mem[dev][o]

LEMMA SetBytesAt ==
    ASSUME MemOK(mem), NEW dev \in Memories, NEW off, NEW word,
           mem' = SetBytes(dev, off, word)
    PROVE  OnlyBytesAt(dev, off, word)
  BY DEF SetBytes, MemOK, OnlyBytesAt

LEMMA SetBytesType ==
    ASSUME MemOK(mem), NEW dev \in Memories, NEW off \in Nat, NEW word \in Seq(Bytes),
           mem' = SetBytes(dev, off, word)
    PROVE  MemOK(mem')
  <1>1. Len(word) \in Nat /\ \A k \in 1 .. Len(word) : word[k] \in Bytes
    OBVIOUS
  <1>2. /\ DOMAIN mem' = Memories
        /\ \A d \in Memories : d # dev => mem'[d] = mem[d]
        /\ mem' = [mem EXCEPT ![dev] = mem'[dev]]
        /\ mem'[dev] = [o \in 0 .. Size(dev) - 1 |->
                            IF off <= o /\ o < off + Len(word) THEN word[o - off + 1]
                                                               ELSE mem[dev][o]]
    BY DEF SetBytes, MemOK
  <1>3. ASSUME NEW o \in 0 .. Size(dev) - 1
        PROVE  (IF off <= o /\ o < off + Len(word) THEN word[o - off + 1]
                                                   ELSE mem[dev][o]) \in Bytes
    <2>1. CASE off <= o /\ o < off + Len(word)
      <3>1. o - off + 1 \in 1 .. Len(word)
        BY <1>1, <2>1
      <3>2. QED
        BY <1>1, <2>1, <3>1
    <2>2. CASE ~(off <= o /\ o < off + Len(word))
      BY <2>2 DEF MemOK
    <2>3. QED
      BY <2>1, <2>2
  <1>4. mem'[dev] \in [0 .. Size(dev) - 1 -> Bytes]
    BY <1>2, <1>3
  <1>5. QED
    BY <1>2, <1>4 DEF MemOK

\* A word that is read is the word at its address in the flat memory.
SameWord(pa, i, n) ==
    /\ At(pa, n) \subseteq CellAddrs
    /\ WordAt(mmap_table[i].dev, pa - mmap_table[i].start, n) = [k \in 1 .. n |-> View[pa + (k - 1)]]

LEMMA ReadsView ==
    ASSUME init_mmio_passes, NEW pa \in Nat, NEW i \in Regions, InRegion(pa, i),
           mmap_table[i].dev \in Memories,
           NEW n \in Nat, Fits(mmap_table[i].dev, pa - mmap_table[i].start, n),
           (n \in Lens /\ pa % n = 0) \/ mmap_table[i].dev # "vga"
    PROVE  SameWord(pa, i, n)
  <1>1. \A k \in 0 .. n - 1 :
            /\ pa + k \in CellAddrs
            /\ Home[pa + k] = [dev |-> mmap_table[i].dev,
                               off |-> pa - mmap_table[i].start + k]
    BY WordInCells
  <1>2. ASSUME NEW k \in 1 .. n
        PROVE  View[pa + (k - 1)] = mem[mmap_table[i].dev][pa - mmap_table[i].start + (k - 1)]
    <2> DEFINE j == k - 1
    <2>1. j \in 0 .. n - 1
      OBVIOUS
    <2> HIDE DEF j
    <2>2. /\ pa + j \in CellAddrs
          /\ Home[pa + j] = [dev |-> mmap_table[i].dev, off |-> pa - mmap_table[i].start + j]
      BY <1>1, <2>1, Zenon
    <2>3. View[pa + j] = mem[Home[pa + j].dev][Home[pa + j].off]
      BY <2>2 DEF View
    <2>4. QED
      BY <2>2, <2>3 DEF j
  <1>3. QED
    BY <1>1, <1>2 DEF SameWord, At, WordAt

\* A cell lies as far behind a word in the memory as in the addresses.
LEMMA SameOffset ==
    ASSUME NEW pa \in Nat, NEW c \in Nat, NEW start \in Nat, NEW n \in Nat
    PROVE  /\ (pa - start <= c - start /\ c - start < pa - start + n) <=> (pa <= c /\ c < pa + n)
           /\ (c - start) - (pa - start) + 1 = c - pa + 1
  OBVIOUS

\* A word that is written changes the cells at its address and no other.
LEMMA WritesView ==
    ASSUME init_mmio_passes, MemOK(mem),
           NEW pa \in Nat, NEW i \in Regions, InRegion(pa, i),
           mmap_table[i].dev \in Memories,
           NEW word, Len(word) \in Nat,
           Fits(mmap_table[i].dev, pa - mmap_table[i].start, Len(word)),
           (Len(word) \in Lens /\ pa % Len(word) = 0) \/ mmap_table[i].dev # "vga",
           mem' = SetBytes(mmap_table[i].dev, pa - mmap_table[i].start, word)
    PROVE  View' = [c \in CellAddrs |-> IF pa <= c /\ c < pa + Len(word) THEN word[c - pa + 1]
                                                                         ELSE View[c]]
  <1> DEFINE dev == mmap_table[i].dev
             start == mmap_table[i].start
             off == pa - start
             n == Len(word)
  <1>1. start \in Nat /\ off \in Nat /\ n \in Nat
    BY RegionType DEF InRegion
  <1>2. \A k \in 0 .. n - 1 : Home[pa + k] = [dev |-> dev, off |-> off + k]
    BY WordInCells
  <1>3. mem' = SetBytes(dev, off, word)
    OBVIOUS
  <1> HIDE DEF off
  <1>4. /\ \A d \in Memories : d # dev => mem'[d] = mem[d]
        /\ \A o \in 0 .. Size(dev) - 1 :
              mem'[dev][o] = IF off <= o /\ o < off + n THEN word[o - off + 1] ELSE mem[dev][o]
    <2>1. OnlyBytesAt(dev, off, word)
      BY <1>3, SetBytesAt, Zenon
    <2>2. QED
      BY <2>1, Zenon DEF OnlyBytesAt
  <1>5. ASSUME NEW c \in CellAddrs
        PROVE  mem'[Home[c].dev][Home[c].off]
                 = IF pa <= c /\ c < pa + n THEN word[c - pa + 1] ELSE mem[Home[c].dev][Home[c].off]
    <2>1. PICK j \in Regions :
              /\ InRegion(c, j) /\ c \in Nat /\ mmap_table[j].dev \in Memories
              /\ c - mmap_table[j].start \in 0 .. Size(mmap_table[j].dev) - 1
              /\ Home[c] = [dev |-> mmap_table[j].dev, off |-> c - mmap_table[j].start]
      BY CellType
    <2>2. CASE j = i
      <3> DEFINE o == c - start
      <3>1. o \in 0 .. Size(dev) - 1 /\ Home[c].dev = dev /\ Home[c].off = o
        BY <2>1, <2>2
      <3>2. /\ (off <= o /\ o < off + n) <=> (pa <= c /\ c < pa + n)
            /\ o - off + 1 = c - pa + 1
        BY <1>1, <2>1, SameOffset, Zenon DEF off
      <3> HIDE DEF o
      <3>3. mem'[dev][o] = IF off <= o /\ o < off + n THEN word[o - off + 1] ELSE mem[dev][o]
        BY <1>4, <3>1, Zenon
      <3>4. QED
        BY <3>1, <3>2, <3>3, Zenon
    <2>3. CASE j # i
      <3>1. mmap_table[j].dev # dev
        BY <2>3, <2>1, TableAssumption
      <3>2. ~(pa <= c /\ c < pa + n)
        <4>1. SUFFICES ASSUME pa <= c, c < pa + n PROVE FALSE
          OBVIOUS
        <4> DEFINE k == c - pa
        <4>2. k \in 0 .. n - 1 /\ pa + k = c
          BY <2>1, <4>1
        <4> HIDE DEF k
        <4>3. Home[pa + k] = [dev |-> dev, off |-> off + k]
          BY <1>2, <4>2, Zenon
        <4>4. Home[pa + k].dev = dev
          BY <4>3
        <4>5. QED
          BY <2>1, <3>1, <4>2, <4>4
      <3>3. mem'[Home[c].dev] = mem[Home[c].dev]
        <4>1. Home[c].dev = mmap_table[j].dev
          BY <2>1
        <4>2. QED
          BY <1>4, <2>1, <3>1, <4>1, Zenon
      <3>4. QED
        BY <3>2, <3>3, Zenon
    <2>4. QED
      BY <2>2, <2>3
  <1>6. View' = [c \in CellAddrs |-> mem'[Home[c].dev][Home[c].off]]
    BY DEF View
  <1>7. \A c \in CellAddrs : View[c] = mem[Home[c].dev][Home[c].off]
    BY DEF View
  <1>8. QED
    BY <1>5, <1>6, <1>7

-----------------------------------------------------------------------------
\* What a request is, and what an answer to it is.

LEMMA RequestType ==
    ASSUME req \in Requests
    PROVE  /\ req # NoReq /\ req.addr \in Nat /\ req.write \in BOOLEAN
           /\ req.word \in Seq(Bytes) /\ Len(req.word) \in Nat /\ Len(req.word) > 0
           /\ req.by \in {"cpu", "debugger"} => Len(req.word) \in Lens
           /\ req.by = "debugger" => Aligned(req)
           /\ req.by = "loader" => req.write
  <1>1. ASSUME NEW q \in CpuRequests
        PROVE  \E len \in Lens : /\ q.addr \in Nat /\ q.write \in BOOLEAN /\ q.by = "cpu"
                                 /\ q.word \in [1 .. len -> Bytes]
                                 /\ q = [by |-> q.by, write |-> q.write, addr |-> q.addr,
                                         word |-> q.word]
    <2>1. CASE q \in Request("cpu", TRUE, WordsOf(Lens))
      BY <2>1, Numbers DEF Request, WordsOf
    <2>2. CASE q \in Request("cpu", FALSE, UNION {[1 .. len -> {Zero}] : len \in Lens})
      <3>1. q \in [by : {"cpu"}, write : {FALSE}, addr : Addrs,
                   word : UNION {[1 .. len -> {Zero}] : len \in Lens}]
        BY <2>2 DEF Request
      <3>2. PICK len \in Lens : q.word \in [1 .. len -> {Zero}]
        BY <3>1
      <3>3. q.word \in [1 .. len -> Bytes]
        BY <3>2, Numbers
      <3>4. QED
        BY <3>1, <3>3, Numbers
    <2>3. QED
      BY <2>1, <2>2 DEF CpuRequests
  <1>2. CASE req \in CpuRequests
    <2>1. PICK len \in Lens : /\ req.addr \in Nat /\ req.write \in BOOLEAN /\ req.by = "cpu"
                              /\ req.word \in [1 .. len -> Bytes]
      BY <1>1, <1>2
    <2>2. len \in Nat /\ len > 0
      BY Numbers
    <2>3. req.word \in Seq(Bytes) /\ Len(req.word) = len
      BY <2>1, <2>2
    <2>4. QED
      BY <2>1, <2>2, <2>3 DEF NoReq
  <1>3. CASE req \in DebugRequests
    <2>1. PICK q \in CpuRequests : req = [q EXCEPT !.by = "debugger"] /\ Aligned(q)
      BY <1>3 DEF DebugRequests
    <2>2. PICK len \in Lens : /\ q.addr \in Nat /\ q.write \in BOOLEAN
                              /\ q.word \in [1 .. len -> Bytes]
                              /\ q = [by |-> q.by, write |-> q.write, addr |-> q.addr,
                                      word |-> q.word]
      BY <1>1
    <2>3. /\ req.addr = q.addr /\ req.write = q.write /\ req.word = q.word
          /\ req.by = "debugger"
      BY <2>1, <2>2
    <2>4. len \in Nat /\ len > 0
      BY Numbers
    <2>5. req.word \in Seq(Bytes) /\ Len(req.word) = len
      BY <2>2, <2>3, <2>4
    <2>6. Aligned(req)
      BY <2>1, <2>3 DEF Aligned
    <2>7. req # NoReq
      BY <2>3 DEF NoReq
    <2>8. req.addr \in Nat /\ req.write \in BOOLEAN
      BY <2>2, <2>3
    <2>9. QED
      BY <2>3, <2>4, <2>5, <2>6, <2>7, <2>8
  <1>4. CASE req \in LoaderRequests
    <2>1. PICK len \in 1 .. MaxSegment : /\ req.addr \in Nat /\ req.write = TRUE
                                         /\ req.by = "loader"
                                         /\ req.word \in [1 .. len -> Bytes]
      BY <1>4, Numbers DEF LoaderRequests, Request, WordsOf
    <2>2. len \in Nat /\ len > 0
      BY MmioAssumption
    <2>3. req.word \in Seq(Bytes) /\ Len(req.word) = len
      BY <2>1, <2>2
    <2>4. req # NoReq
      BY <2>1 DEF NoReq
    <2>5. req.write
      BY <2>1
    <2>6. Len(req.word) \in Nat /\ Len(req.word) > 0
      BY <2>2, <2>3
    <2>7. QED
      BY <2>1, <2>3, <2>4, <2>5, <2>6
  <1>5. QED
    BY <1>2, <1>3, <1>4 DEF Requests

\* A word of n bytes at pa lies in the memory of region i.
InMemory(pa, n, i) == /\ InRegion(pa, i) /\ mmap_table[i].dev \in Memories
                      /\ Fits(mmap_table[i].dev, pa - mmap_table[i].start, n)

NoMemory(pa) == find_region(pa) = 0 \/ Region(pa).dev \notin Memories

ReadStep(pa, n) ==
    /\ \/ \E i \in Regions :
             /\ InMemory(pa, n, i)
             /\ out' = WordAt(mmap_table[i].dev, pa - mmap_table[i].start, n)
       \/ NoMemory(pa) /\ out' \in [1 .. n -> Bytes]
    /\ UNCHANGED mem /\ Done

WriteStep(pa, word) ==
    /\ \/ \E i \in Regions :
             /\ InMemory(pa, Len(word), i)
             /\ mem' = SetBytes(mmap_table[i].dev, pa - mmap_table[i].start, word)
       \/ NoMemory(pa) /\ UNCHANGED mem
    /\ UNCHANGED out /\ Done

Refused(pa, n) ==
    /\ NoMemory(pa) \/ ~Fits(Region(pa).dev, pa - Region(pa).start, n)
    /\ \E why \in {"fault", "trap"} : Stop(why)

\* Zeroes are what a hole and the page of BADP read as.
LEMMA ZeroWord == \A n \in Nat : [k \in 1 .. n |-> Zero] \in [1 .. n -> Bytes]
  BY Numbers

LEMMA DispatchReads ==
    ASSUME init_mmio_passes, NEW pa \in Nat, NEW n \in Nat, vaddr_read(pa, n)
    PROVE  ReadStep(pa, n) \/ Refused(pa, n)
  <1>1. CASE find_region(pa) = 0
    BY <1>1 DEF vaddr_read, Refused, NoMemory
  <1>2. CASE find_region(pa) # 0
    <2> DEFINE i == find_region(pa)
    <2>1. i \in Regions /\ InRegion(pa, i)
      BY <1>2, FindRegion
    <2>2. RegionRead(mmap_table[i].dev, pa - mmap_table[i].start, n)
      BY <1>2 DEF vaddr_read, Region
    <2>3. mmap_table[i].dev = Region(pa).dev /\ mmap_table[i].start = Region(pa).start
      BY DEF Region
    <2> HIDE DEF i
    <2>4. CASE mmap_table[i].dev \in Memories
      BY <2>1, <2>2, <2>3, <2>4
         DEF RegionRead, ReadStep, Refused, InMemory, Memories
    <2>5. CASE mmap_table[i].dev \notin Memories
      <3>1. \/ out' \in [1 .. n -> Bytes] /\ UNCHANGED mem /\ Done
            \/ Stop("fault")
        BY <2>2, <2>5, ZeroWord DEF RegionRead
      <3>2. QED
        BY <2>3, <2>5, <3>1 DEF ReadStep, Refused, NoMemory
    <2>6. QED
      BY <2>4, <2>5
  <1>3. QED
    BY <1>1, <1>2

LEMMA DispatchWrites ==
    ASSUME init_mmio_passes, NEW pa \in Nat, NEW word, vaddr_write(pa, word)
    PROVE  WriteStep(pa, word) \/ Refused(pa, Len(word))
  <1>1. CASE find_region(pa) = 0
    BY <1>1 DEF vaddr_write, Refused, NoMemory
  <1>2. CASE find_region(pa) # 0
    <2> DEFINE i == find_region(pa)
    <2>1. i \in Regions /\ InRegion(pa, i)
      BY <1>2, FindRegion
    <2>2. RegionWrite(mmap_table[i].dev, pa - mmap_table[i].start, word)
      BY <1>2 DEF vaddr_write, Region
    <2>3. mmap_table[i].dev = Region(pa).dev /\ mmap_table[i].start = Region(pa).start
      BY DEF Region
    <2> HIDE DEF i
    <2>4. CASE mmap_table[i].dev \in Memories
      BY <2>1, <2>2, <2>3, <2>4
         DEF RegionWrite, WriteStep, Refused, InMemory, Memories
    <2>5. CASE mmap_table[i].dev \notin Memories
      <3>1. \/ UNCHANGED <<mem, out>> /\ Done
            \/ Stop("fault") \/ Stop("trap")
        BY <2>2, <2>5 DEF RegionWrite
      <3>2. QED
        BY <2>3, <2>5, <3>1 DEF WriteStep, Refused, NoMemory
    <2>6. QED
      BY <2>4, <2>5
  <1>3. QED
    BY <1>1, <1>2

\* The fast paths of the CPU leave out the dispatch and its check: an aligned
\* word that starts in the DDR or in the BRAM fits in it.
LEMMA FastPath ==
    ASSUME NEW pa \in Nat, NEW n \in Lens, pa % n = 0
    PROVE  /\ InDdr(pa) => \E i \in Regions : /\ InMemory(pa, n, i)
                                              /\ mmap_table[i].dev = "ddr"
                                              /\ mmap_table[i].start = DDR_BASE
           /\ InBram(pa) => \E i \in Regions : /\ InMemory(pa, n, i)
                                               /\ mmap_table[i].dev = "bram"
                                               /\ mmap_table[i].start = BRAM_BASE
  <1>1. ASSUME NEW i \in Regions, NEW base \in Nat, NEW dev \in {"ddr", "bram"},
               mmap_table[i] = [start |-> base, end |-> base + Size(dev), dev |-> dev],
               base <= pa, pa < base + Size(dev)
        PROVE  InMemory(pa, n, i)
    <2>1. /\ mmap_table[i].start = base /\ mmap_table[i].end = base + Size(dev)
          /\ mmap_table[i].dev = dev
      BY <1>1
    <2>2. Size(dev) \in Nat /\ n \in {1, 2, 4} /\ dev \in Memories
      BY Numbers DEF Memories
    <2>3. Whole(base) /\ Whole(Size(dev))
      BY <2>1, <2>2, TableAssumption, Numbers
    <2>4. base % n = 0 /\ Size(dev) % n = 0
      BY <2>3 DEF Whole
    <2>5. pa + n <= base + Size(dev)
      BY <1>1, <2>2, <2>4
    <2>6. QED
      BY <1>1, <2>1, <2>2, <2>5 DEF InMemory, InRegion, Fits
  <1>2. ASSUME InDdr(pa)
        PROVE  \E i \in Regions : /\ InMemory(pa, n, i) /\ mmap_table[i].dev = "ddr"
                                  /\ mmap_table[i].start = DDR_BASE
    <2>1. PICK i \in Regions : mmap_table[i] =
              [start |-> DDR_BASE, end |-> DDR_BASE + DDR_SIZE, dev |-> "ddr"]
      BY NamedRegions
    <2>2. /\ mmap_table[i] = [start |-> DDR_BASE, end |-> DDR_BASE + Size("ddr"), dev |-> "ddr"]
          /\ DDR_BASE \in Nat /\ DDR_BASE <= pa /\ pa < DDR_BASE + Size("ddr")
      BY <1>2, <2>1, Numbers DEF InDdr
    <2>3. InMemory(pa, n, i)
      BY <1>1, <2>2
    <2>4. QED
      BY <2>1, <2>3
  <1>3. ASSUME InBram(pa)
        PROVE  \E i \in Regions : /\ InMemory(pa, n, i) /\ mmap_table[i].dev = "bram"
                                  /\ mmap_table[i].start = BRAM_BASE
    <2>1. PICK i \in Regions : mmap_table[i] =
              [start |-> BRAM_BASE, end |-> BRAM_BASE + BRAM_SIZE, dev |-> "bram"]
      BY NamedRegions
    <2>2. /\ mmap_table[i] = [start |-> BRAM_BASE, end |-> BRAM_BASE + Size("bram"), dev |-> "bram"]
          /\ BRAM_BASE \in Nat /\ BRAM_BASE <= pa /\ pa < BRAM_BASE + Size("bram")
      BY <1>3, <2>1, Numbers DEF InBram
    <2>3. InMemory(pa, n, i)
      BY <1>1, <2>2
    <2>4. QED
      BY <2>1, <2>3
  <1>4. QED
    BY <1>2, <1>3

-----------------------------------------------------------------------------
\* What the handlers come to.

LEMMA Served ==
    ASSUME req \in Requests, req.by \in {"cpu", "debugger"}, Aligned(req)
    PROVE  /\ prot_addr(req.addr) = Flat!Phys(req.addr) /\ Flat!Phys(req.addr) \in Nat
           /\ Len(req.word) \in Lens /\ Len(req.word) \in Nat
           /\ Flat!Phys(req.addr) % Len(req.word) = 0
           /\ req.word \in Seq(Bytes)
  BY RequestType, Physical, PhysicalAligned DEF Aligned

LEMMA LoadServed ==
    ASSUME init_mmio_passes, req \in Requests, load_mem
    PROVE  /\ running = "run" /\ ~req.write /\ Aligned(req) /\ req.by = "cpu"
           /\ \/ ReadStep(Flat!Phys(req.addr), Len(req.word))
              \/ Refused(Flat!Phys(req.addr), Len(req.word))
  <1> DEFINE pa == Flat!Phys(req.addr)
             n  == Len(req.word)
  <1>1. running = "run" /\ ~req.write /\ Aligned(req) /\ req.by = "cpu"
    BY DEF load_mem, Cpu
  <1>2. prot_addr(req.addr) = pa /\ pa \in Nat /\ n \in Lens /\ n \in Nat /\ pa % n = 0
    BY <1>1, Served
  <1>3. \/ InDdr(pa) /\ out' = WordAt("ddr", pa - DDR_BASE, n) /\ UNCHANGED mem /\ Done
        \/ InBram(pa) /\ out' = WordAt("bram", pa - BRAM_BASE, n) /\ UNCHANGED mem /\ Done
        \/ vaddr_read(pa, n)
    BY <1>2 DEF load_mem
  <1> HIDE DEF pa, n
  <1>4. ReadStep(pa, n) \/ Refused(pa, n)
    <2>1. CASE InDdr(pa) /\ out' = WordAt("ddr", pa - DDR_BASE, n) /\ UNCHANGED mem /\ Done
      <3>1. PICK i \in Regions : /\ InMemory(pa, n, i) /\ mmap_table[i].dev = "ddr"
                                 /\ mmap_table[i].start = DDR_BASE
        BY <1>2, <2>1, FastPath
      <3>2. QED
        BY <2>1, <3>1 DEF ReadStep
    <2>2. CASE InBram(pa) /\ out' = WordAt("bram", pa - BRAM_BASE, n) /\ UNCHANGED mem /\ Done
      <3>1. PICK i \in Regions : /\ InMemory(pa, n, i) /\ mmap_table[i].dev = "bram"
                                 /\ mmap_table[i].start = BRAM_BASE
        BY <1>2, <2>2, FastPath
      <3>2. QED
        BY <2>2, <3>1 DEF ReadStep
    <2>3. CASE vaddr_read(pa, n)
      BY <1>2, <2>3, DispatchReads
    <2>4. QED
      BY <1>3, <2>1, <2>2, <2>3
  <1>5. QED
    BY <1>1, <1>4 DEF pa, n

LEMMA StoreServed ==
    ASSUME init_mmio_passes, req \in Requests, store_mem
    PROVE  /\ running = "run" /\ req.write /\ Aligned(req) /\ req.by = "cpu"
           /\ \/ WriteStep(Flat!Phys(req.addr), req.word)
              \/ Refused(Flat!Phys(req.addr), Len(req.word))
  <1> DEFINE pa == Flat!Phys(req.addr)
             w  == req.word
  <1>1. running = "run" /\ req.write /\ Aligned(req) /\ req.by = "cpu"
    BY DEF store_mem, Cpu
  <1>2. prot_addr(req.addr) = pa /\ pa \in Nat /\ Len(w) \in Lens /\ pa % Len(w) = 0
    BY <1>1, Served
  <1>3. \/ InDdr(pa) /\ mem' = SetBytes("ddr", pa - DDR_BASE, w) /\ UNCHANGED out /\ Done
        \/ vaddr_write(pa, w)
    BY <1>2 DEF store_mem
  <1> HIDE DEF pa, w
  <1>4. WriteStep(pa, w) \/ Refused(pa, Len(w))
    <2>1. CASE InDdr(pa) /\ mem' = SetBytes("ddr", pa - DDR_BASE, w) /\ UNCHANGED out /\ Done
      <3>1. PICK i \in Regions : /\ InMemory(pa, Len(w), i) /\ mmap_table[i].dev = "ddr"
                                 /\ mmap_table[i].start = DDR_BASE
        BY <1>2, <2>1, FastPath
      <3>2. QED
        BY <2>1, <3>1 DEF WriteStep
    <2>2. CASE vaddr_write(pa, w)
      BY <1>2, <2>2, DispatchWrites
    <2>3. QED
      BY <1>3, <2>1, <2>2
  <1>5. QED
    BY <1>1, <1>4 DEF pa, w

LEMMA DebuggerServed ==
    ASSUME init_mmio_passes, req \in Requests, vaddr_read_safe \/ vaddr_write_safe
    PROVE  /\ running = "run" /\ Aligned(req) /\ req.by = "debugger"
           /\ \/ ~req.write /\ ReadStep(Flat!Phys(req.addr), Len(req.word))
              \/ req.write /\ WriteStep(Flat!Phys(req.addr), req.word)
              \/ Refused(Flat!Phys(req.addr), Len(req.word))
  <1> DEFINE pa == Flat!Phys(req.addr)
             w  == req.word
  <1>1. running = "run" /\ req.by = "debugger"
    BY DEF vaddr_read_safe, vaddr_write_safe, Debugger
  <1>2. Aligned(req)
    BY <1>1, RequestType
  <1>3. prot_addr(req.addr) = pa /\ pa \in Nat /\ Len(w) \in Nat
    BY <1>1, <1>2, Served
  <1>4. \/ /\ ~req.write /\ find_region(pa) = 0
           /\ out' = [k \in 1 .. Len(w) |-> Zero] /\ UNCHANGED mem /\ Done
        \/ ~req.write /\ vaddr_read(pa, Len(w))
        \/ req.write /\ find_region(pa) = 0 /\ UNCHANGED <<mem, out>> /\ Done
        \/ req.write /\ vaddr_write(pa, w)
    BY <1>3 DEF vaddr_read_safe, vaddr_write_safe
  <1> HIDE DEF pa, w
  <1>5. \/ ~req.write /\ ReadStep(pa, Len(w))
        \/ req.write /\ WriteStep(pa, w)
        \/ Refused(pa, Len(w))
    <2>1. CASE /\ ~req.write /\ find_region(pa) = 0
               /\ out' = [k \in 1 .. Len(w) |-> Zero] /\ UNCHANGED mem /\ Done
      BY <1>3, <2>1, ZeroWord DEF ReadStep, NoMemory
    <2>2. CASE ~req.write /\ vaddr_read(pa, Len(w))
      BY <1>3, <2>2, DispatchReads
    <2>3. CASE req.write /\ find_region(pa) = 0 /\ UNCHANGED <<mem, out>> /\ Done
      BY <2>3 DEF WriteStep, NoMemory
    <2>4. CASE req.write /\ vaddr_write(pa, w)
      BY <1>3, <2>4, DispatchWrites
    <2>5. QED
      BY <1>4, <2>1, <2>2, <2>3, <2>4
  <1>6. QED
    BY <1>1, <1>2, <1>5 DEF pa, w

\* A segment goes to the memory that holds its address.
LEMMA LoadableInMemory ==
    ASSUME init_mmio_passes, req \in Requests, Loadable(req.addr, Len(req.word))
    PROVE  /\ Flat!Phys(req.addr) = iomap(req.addr) /\ Flat!Phys(req.addr) \in Nat
           /\ find_region(iomap(req.addr)) \in Regions
           /\ InMemory(iomap(req.addr), Len(req.word), find_region(iomap(req.addr)))
           /\ Region(iomap(req.addr)).dev \in {"ddr", "bram"}
  <1>1. req.addr \in Nat /\ is_unmapped(req.addr)
    BY RequestType DEF Loadable
  <1>2. Flat!Phys(req.addr) = iomap(req.addr) /\ Flat!Phys(req.addr) \in Nat
    BY <1>1, Physical
  <1> DEFINE pa == iomap(req.addr)
  <1>3. /\ find_region(pa) # 0 /\ Region(pa).dev \in {"ddr", "bram"}
        /\ Fits(Region(pa).dev, pa - Region(pa).start, Len(req.word))
    BY DEF Loadable
  <1> HIDE DEF pa
  <1>4. find_region(pa) \in Regions /\ InRegion(pa, find_region(pa))
    BY <1>2, <1>3, FindRegion DEF pa
  <1>5. InMemory(pa, Len(req.word), find_region(pa))
    BY <1>3, <1>4 DEF InMemory, Region, Memories
  <1>6. QED
    BY <1>2, <1>3, <1>4, <1>5 DEF pa

-----------------------------------------------------------------------------
\* The invariant, and that init_mmio let the emulator start.
Started == IInv /\ init_mmio_passes

LEMMA TypeMem == TypeOK => MemOK(mem) /\ (req # NoReq => req \in Requests)
  BY DEF TypeOK, MemOK

LEMMA InitInvariant == Init => Started
  <1> SUFFICES ASSUME Init PROVE Started
    OBVIOUS
  <1>1. MemOK(mem)
    BY Numbers DEF Init, MemOK
  <1>2. mapped_size \in [{"ddr", "bram"} -> Nat] /\ out \in Seq(Bytes)
    BY DEF Init
  <1>3. TypeOK
    BY <1>1, <1>2 DEF Init, TypeOK, MemOK
  <1>4. MappedCovers
    <2>1. ASSUME NEW dev \in {"ddr", "bram"}
          PROVE  /\ mapped_size[dev] <= Size(dev)
                 /\ \A o \in 0 .. Size(dev) - 1 : mem[dev][o] = Zero
      BY <2>1, Numbers DEF Init, Memories
    <2>2. QED
      BY <2>1 DEF MappedCovers
  <1>5. QED
    BY <1>3, <1>4 DEF Started, IInv, Init

LEMMA AskInvariant == ASSUME Started, Ask PROVE IInv'
  <1>1. req' \in Requests /\ out' = <<>> /\ UNCHANGED <<mem, mapped_size, bram_mapped, running>>
    BY DEF Ask, Requests
  <1>2. QED
    BY <1>1 DEF Started, IInv, TypeOK, MappedCovers

LEMMA RefusedInvariant == ASSUME Started, NEW why \in {"fault", "trap"}, Stop(why) PROVE IInv'
  BY DEF Started, IInv, TypeOK, MappedCovers, Stop

LEMMA ReadInvariant ==
    ASSUME Started, NEW pa \in Nat, NEW n \in Nat, ReadStep(pa, n)
    PROVE  IInv'
  <1>1. TypeOK /\ MappedCovers /\ MemOK(mem)
    BY TypeMem DEF Started, IInv
  <1>2. out' \in [1 .. n -> Bytes]
    <2>1. CASE NoMemory(pa) /\ out' \in [1 .. n -> Bytes]
      BY <2>1
    <2>2. CASE \E i \in Regions :
                  /\ InMemory(pa, n, i)
                  /\ out' = WordAt(mmap_table[i].dev, pa - mmap_table[i].start, n)
      <3>1. PICK i \in Regions :
                  /\ InMemory(pa, n, i)
                  /\ out' = WordAt(mmap_table[i].dev, pa - mmap_table[i].start, n)
        BY <2>2
      <3>2. pa - mmap_table[i].start \in Nat
        BY <3>1, RegionType DEF InMemory, InRegion
      <3> DEFINE off == pa - mmap_table[i].start
                 dev == mmap_table[i].dev
      <3>3. dev \in Memories /\ Fits(dev, off, n) /\ out' = WordAt(dev, off, n)
        BY <3>1 DEF InMemory
      <3> HIDE DEF off, dev
      <3>4. QED
        BY <1>1, <3>2, <3>3, WordAtType DEF off
    <2>3. QED
      BY <2>1, <2>2 DEF ReadStep
  <1>3. out' \in Seq(Bytes)
    BY <1>2
  <1>4. req' = NoReq /\ UNCHANGED <<mem, mapped_size, bram_mapped, running>>
    BY DEF ReadStep, Done
  <1>5. QED
    BY <1>1, <1>3, <1>4 DEF IInv, TypeOK, MappedCovers

LEMMA WriteInvariant ==
    ASSUME Started, running = "run", NEW pa \in Nat, NEW word \in Seq(Bytes), WriteStep(pa, word)
    PROVE  IInv'
  <1>1. TypeOK /\ MappedCovers /\ MemOK(mem)
    BY TypeMem DEF Started, IInv
  <1>2. MemOK(mem')
    <2>1. CASE UNCHANGED mem
      BY <1>1, <2>1
    <2>2. CASE \E i \in Regions :
                  /\ InMemory(pa, Len(word), i)
                  /\ mem' = SetBytes(mmap_table[i].dev, pa - mmap_table[i].start, word)
      <3>1. PICK i \in Regions :
                  /\ InMemory(pa, Len(word), i)
                  /\ mem' = SetBytes(mmap_table[i].dev, pa - mmap_table[i].start, word)
        BY <2>2
      <3> DEFINE off == pa - mmap_table[i].start
                 dev == mmap_table[i].dev
      <3>2. off \in Nat /\ dev \in Memories
        BY <3>1, RegionType DEF InMemory, InRegion
      <3>3. mem' = SetBytes(dev, off, word)
        BY <3>1
      <3> HIDE DEF off, dev
      <3>4. QED
        BY <1>1, <3>2, <3>3, SetBytesType
    <2>3. QED
      BY <2>1, <2>2 DEF WriteStep
  <1>3. req' = NoReq /\ UNCHANGED <<out, mapped_size, bram_mapped, running>>
    BY DEF WriteStep, Done
  <1>4. TypeOK'
    BY <1>1, <1>2, <1>3 DEF TypeOK, MemOK
  <1>5. MappedCovers'
    BY <1>1, <1>3 DEF MappedCovers
  <1>6. QED
    BY <1>4, <1>5 DEF IInv

LEMMA SegmentInvariant == ASSUME Started, LoadSegment PROVE IInv'
  <1> DEFINE pa  == iomap(req.addr)
             dev == Region(pa).dev
             off == pa - Region(pa).start
             n   == Len(req.word)
             end == off + n
  <1>1. TypeOK /\ MappedCovers /\ MemOK(mem) /\ req \in Requests /\ init_mmio_passes
    BY TypeMem DEF Started, IInv, LoadSegment, Loader
  <1>2. /\ mem' = SetBytes(dev, off, req.word)
        /\ mapped_size' = [mapped_size EXCEPT ![dev] = IF end >= @ THEN end ELSE @]
        /\ bram_mapped' = (bram_mapped \/ (dev = "bram" /\ off = 0))
        /\ req' = NoReq /\ UNCHANGED <<out, running>> /\ running = "load"
    BY DEF LoadSegment, Loader
  <1>3. req.word \in Seq(Bytes) /\ n \in Nat
    BY <1>1, RequestType
  <1>4. off \in Nat /\ dev \in {"ddr", "bram"} /\ Fits(dev, off, n)
    <2>1. Loadable(req.addr, Len(req.word))
      BY DEF LoadSegment
    <2>2. /\ pa \in Nat /\ find_region(pa) \in Regions /\ dev \in {"ddr", "bram"}
          /\ InMemory(pa, n, find_region(pa))
      BY <1>1, <2>1, LoadableInMemory
    <2> HIDE DEF pa
    <2>3. QED
      BY <2>2, RegionType DEF InMemory, InRegion, Region
  <1> HIDE DEF pa, off, dev
  <1>5. MemOK(mem')
    BY <1>1, <1>2, <1>3, <1>4, SetBytesType DEF Memories
  <1>6. /\ mapped_size' \in [{"ddr", "bram"} -> Nat]
        /\ end <= mapped_size'[dev]
        /\ \A d \in {"ddr", "bram"} : /\ mapped_size[d] <= mapped_size'[d]
                                      /\ mapped_size'[d] <= Size(d)
    BY <1>1, <1>2, <1>3, <1>4, Numbers DEF TypeOK, MappedCovers, Fits
  <1>7. TypeOK'
    <2>1. bram_mapped' \in BOOLEAN
      BY <1>2
    <2>2. QED
      BY <1>1, <1>2, <1>5, <1>6, <2>1 DEF TypeOK, MemOK
  <1>8. ASSUME NEW d \in {"ddr", "bram"}, NEW o \in 0 .. Size(d) - 1, mem'[d][o] # Zero
        PROVE  o < mapped_size'[d]
    <2>1. o \in Nat /\ mapped_size[d] \in Nat /\ mapped_size'[d] \in Nat
          /\ mapped_size[d] <= mapped_size'[d]
      BY <1>1, <1>6, Numbers DEF TypeOK
    <2>2. CASE d = dev /\ off <= o /\ o < end
      BY <1>3, <1>4, <1>6, <2>1, <2>2
    <2>3. CASE ~(d = dev /\ off <= o /\ o < end)
      <3>1. mem'[d][o] = mem[d][o]
        BY <1>1, <1>2, <1>3, <1>4, <2>3, SetBytesAt DEF Memories, OnlyBytesAt
      <3>2. o < mapped_size[d]
        BY <1>1, <1>2, <1>8, <3>1 DEF MappedCovers
      <3>3. QED
        BY <2>1, <3>2
    <2>4. QED
      BY <2>2, <2>3
  <1>9. MappedCovers'
    BY <1>6, <1>8 DEF MappedCovers
  <1>10. QED
    BY <1>7, <1>9 DEF IInv

LEMMA BootInvariant == ASSUME Started, Boot PROVE IInv'
  <1>1. /\ TypeOK /\ MappedCovers /\ MemOK(mem) /\ running' = "run"
        /\ UNCHANGED <<req, mapped_size, bram_mapped, out>>
    BY TypeMem DEF Started, IInv, Boot
  <1>2. MemOK(mem')
    <2>1. CASE bram_mapped
      BY <1>1, <2>1 DEF Boot
    <2>2. CASE ~bram_mapped
      <3>1. mem' = SetBytes("bram", 0, BootStub) /\ BootStub \in Seq(Bytes) /\ "bram" \in Memories
        BY <2>2, MmioAssumption DEF Boot, Memories
      <3>2. QED
        BY <1>1, <3>1, SetBytesType
    <2>3. QED
      BY <2>1, <2>2
  <1>3. TypeOK'
    BY <1>1, <1>2 DEF TypeOK, MemOK
  <1>4. MappedCovers'
    BY <1>1 DEF MappedCovers
  <1>5. QED
    BY <1>3, <1>4 DEF IInv

-----------------------------------------------------------------------------
LEMMA StepKinds ==
    ASSUME Started, Next
    PROVE  \/ Ask \/ LoadSegment \/ Boot
           \/ \E why \in {"fault", "trap"} : Stop(why)
           \/ /\ running = "run" /\ req \in Requests /\ Aligned(req) /\ Flat!Phys(req.addr) \in Nat
              /\ ~req.write /\ ReadStep(Flat!Phys(req.addr), Len(req.word))
           \/ /\ running = "run" /\ req \in Requests /\ Aligned(req) /\ Flat!Phys(req.addr) \in Nat
              /\ req.by \in {"cpu", "debugger"}
              /\ req.write /\ WriteStep(Flat!Phys(req.addr), req.word)
  <1>1. TypeOK /\ init_mmio_passes
    BY DEF Started, IInv
  <1>2. CASE load_mem \/ store_mem \/ vaddr_read_safe \/ vaddr_write_safe
    <2>1. req \in Requests
      BY <1>1, <1>2
         DEF TypeOK, load_mem, store_mem, Cpu, vaddr_read_safe, vaddr_write_safe, Debugger
    <2>2. Flat!Phys(req.addr) \in Nat
      BY <2>1, RequestType, Physical
    <2>3. /\ running = "run" /\ Aligned(req) /\ req.by \in {"cpu", "debugger"}
          /\ \/ ~req.write /\ ReadStep(Flat!Phys(req.addr), Len(req.word))
             \/ req.write /\ WriteStep(Flat!Phys(req.addr), req.word)
             \/ Refused(Flat!Phys(req.addr), Len(req.word))
      BY <1>1, <1>2, <2>1, LoadServed, StoreServed, DebuggerServed
    <2>4. QED
      BY <2>1, <2>2, <2>3 DEF Refused
  <1>3. CASE LoadFault \/ CpuFault
    BY <1>3 DEF LoadFault, CpuFault
  <1>4. QED
    BY <1>2, <1>3 DEF Next

LEMMA NextInvariant == Started /\ [Next]_vars => Started'
  <1> SUFFICES ASSUME Started, [Next]_vars PROVE Started'
    OBVIOUS
  <1>1. CASE Next
    <2>1. IInv'
      <3>1. CASE Ask \/ LoadSegment \/ Boot
        BY <3>1, AskInvariant, SegmentInvariant, BootInvariant
      <3>2. CASE \E why \in {"fault", "trap"} : Stop(why)
        BY <3>2, RefusedInvariant
      <3>3. CASE /\ req \in Requests /\ Flat!Phys(req.addr) \in Nat
                 /\ ReadStep(Flat!Phys(req.addr), Len(req.word))
        <4>1. Len(req.word) \in Nat
          BY <3>3, RequestType
        <4>2. QED
          BY <3>3, <4>1, ReadInvariant
      <3>4. CASE /\ req \in Requests /\ Flat!Phys(req.addr) \in Nat /\ running = "run"
                 /\ WriteStep(Flat!Phys(req.addr), req.word)
        <4>1. req.word \in Seq(Bytes)
          BY <3>4, RequestType
        <4>2. QED
          BY <3>4, <4>1, WriteInvariant
      <3>5. QED
        BY <1>1, <3>1, <3>2, <3>3, <3>4, StepKinds
    <2>2. init_mmio_passes'
      BY DEF Started, init_mmio_passes, region_collide, Regions
    <2>3. QED
      BY <2>1, <2>2 DEF Started
  <1>2. CASE UNCHANGED vars
    BY <1>2 DEF Started, IInv, TypeOK, MappedCovers, vars, init_mmio_passes, region_collide, Regions
  <1>3. QED
    BY <1>1, <1>2

\* What a differential test copies covers everything that was loaded, in
\* whatever order the segments came, and nothing beyond the memories (ddr.c,
\* bram.c: ddr_map, bram_map and the two mapped_result).
THEOREM Invariance == Spec => []IInv
  <1>1. Started => IInv
    BY DEF Started
  <1>2. QED
    BY <1>1, InitInvariant, NextInvariant, PTL DEF Spec

-----------------------------------------------------------------------------
\* The flat memory.

LEMMA RefinesInit == Init => Flat!Init
  <1> SUFFICES ASSUME Init PROVE Flat!Init
    OBVIOUS
  <1>1. init_mmio_passes /\ MemOK(mem)
    BY InitInvariant, TypeMem DEF Started, IInv, Init
  <1>2. View \in [CellAddrs -> Bytes]
    BY <1>1, ViewType
  <1>3. QED
    BY <1>2 DEF Init, Flat!Init, View

LEMMA RefinesRead ==
    ASSUME Started, req \in Requests, ~req.write, Aligned(req), running = "run",
           Flat!Phys(req.addr) \in Nat, ReadStep(Flat!Phys(req.addr), Len(req.word))
    PROVE  Flat!Read
  <1> DEFINE pa == Flat!Phys(req.addr)
             n  == Len(req.word)
  <1>1. init_mmio_passes /\ req # NoReq /\ n \in Nat /\ req.by # "loader"
    BY RequestType DEF Started
  <1>2. n \in Lens /\ pa % n = 0
    <2>1. req.by \in {"cpu", "debugger"}
      BY <1>1 DEF Requests, CpuRequests, DebugRequests, LoaderRequests, Request
    <2>2. QED
      BY <2>1, Served
  <1>3. req' = NoReq /\ UNCHANGED mem
    BY DEF ReadStep, Done
  <1>4. UNCHANGED View
    BY <1>3 DEF View
  <1>5. pa \in Nat
    OBVIOUS
  <1> HIDE DEF pa, n
  <1>6. \/ At(pa, n) \subseteq CellAddrs /\ out' = [k \in 1 .. n |-> View[pa + (k - 1)]]
        \/ At(pa, n) \cap CellAddrs = {} /\ out' \in [1 .. n -> Bytes]
    <2>1. CASE NoMemory(pa) /\ out' \in [1 .. n -> Bytes]
      BY <1>1, <1>2, <2>1, NoCells DEF NoMemory, pa
    <2>2. CASE \E i \in Regions :
                  /\ InMemory(pa, n, i)
                  /\ out' = WordAt(mmap_table[i].dev, pa - mmap_table[i].start, n)
      <3>1. PICK i \in Regions :
                /\ InMemory(pa, n, i)
                /\ out' = WordAt(mmap_table[i].dev, pa - mmap_table[i].start, n)
        BY <2>2
      <3>2. /\ InRegion(pa, i) /\ mmap_table[i].dev \in Memories
            /\ Fits(mmap_table[i].dev, pa - mmap_table[i].start, n)
        BY <3>1 DEF InMemory
      <3>3. SameWord(pa, i, n)
        BY <1>1, <1>2, <1>5, <3>2, ReadsView, Zenon
      <3>4. QED
        BY <3>1, <3>3, Zenon DEF SameWord
    <2>3. QED
      BY <2>1, <2>2 DEF ReadStep, pa, n
  <1>7. QED
    BY <1>1, <1>3, <1>4, <1>6 DEF Flat!Read, At, View, pa, n

\* A word whose address has no byte in memory changes none.
LEMMA RefinesWrite ==
    ASSUME Started, req \in Requests, req.write, Aligned(req), running = "run",
           req.by \in {"cpu", "debugger"},
           Flat!Phys(req.addr) \in Nat, WriteStep(Flat!Phys(req.addr), req.word)
    PROVE  Flat!Write
  <1> DEFINE pa == Flat!Phys(req.addr)
             w  == req.word
             n  == Len(w)
  <1>1. /\ init_mmio_passes /\ MemOK(mem) /\ req # NoReq
        /\ n \in Lens /\ n \in Nat /\ pa \in Nat /\ pa % n = 0
    BY RequestType, Served, TypeMem DEF Started, IInv
  <1>2. req' = NoReq /\ out' = out
    BY DEF WriteStep, Done
  <1> HIDE DEF pa
  <1>3. View' = [c \in CellAddrs |-> IF pa <= c /\ c < pa + Len(w) THEN w[c - pa + 1]
                                                                  ELSE View[c]]
    <2>1. CASE NoMemory(pa) /\ UNCHANGED mem
      <3>1. At(pa, n) \cap CellAddrs = {}
        BY <1>1, <2>1, NoCells DEF NoMemory
      <3>2. ASSUME NEW c \in CellAddrs, pa <= c, c < pa + n PROVE FALSE
        <4>1. c \in Nat
          BY DEF CellAddrs
        <4>2. c - pa \in 0 .. n - 1 /\ c = pa + (c - pa)
          BY <1>1, <3>2, <4>1
        <4>3. c \in At(pa, n)
          BY <4>2 DEF At
        <4>4. QED
          BY <3>1, <4>3
      <3>3. View' = View /\ View = [c \in CellAddrs |-> View[c]]
        BY <2>1 DEF View
      <3>4. QED
        BY <3>2, <3>3
    <2>2. CASE \E i \in Regions :
                  /\ InMemory(pa, n, i)
                  /\ mem' = SetBytes(mmap_table[i].dev, pa - mmap_table[i].start, w)
      BY <1>1, <2>2, WritesView DEF InMemory
    <2>3. QED
      BY <2>1, <2>2 DEF WriteStep, pa
  <1>4. QED
    BY <1>1, <1>2, <1>3 DEF Flat!Write, Flat!Put, View, pa

LEMMA RefinesSegment == ASSUME Started, LoadSegment PROVE Flat!Write
  <1> DEFINE pa == iomap(req.addr)
             w  == req.word
             i  == find_region(pa)
  <1>1. /\ init_mmio_passes /\ MemOK(mem) /\ req \in Requests /\ req # NoReq
        /\ req.by = "loader" /\ Loadable(req.addr, Len(w))
    BY TypeMem DEF Started, IInv, LoadSegment, Loader
  <1>2. /\ mem' = SetBytes(mmap_table[i].dev, pa - mmap_table[i].start, w)
        /\ req' = NoReq /\ out' = out
    BY DEF LoadSegment, Region
  <1>3. req.write /\ Len(w) \in Nat
    BY <1>1, RequestType
  <1>4. /\ pa = Flat!Phys(req.addr) /\ pa \in Nat
        /\ i \in Regions /\ InMemory(pa, Len(w), i) /\ mmap_table[i].dev # "vga"
    BY <1>1, LoadableInMemory DEF Region
  <1> HIDE DEF i, pa
  <1>5. View' = [c \in CellAddrs |-> IF pa <= c /\ c < pa + Len(w) THEN w[c - pa + 1]
                                                                  ELSE View[c]]
    BY <1>1, <1>2, <1>3, <1>4, WritesView DEF InMemory
  <1>6. QED
    BY <1>1, <1>2, <1>3, <1>4, <1>5 DEF Flat!Write, Flat!Put, View

LEMMA RefinesBoot == ASSUME Started, Boot PROVE Flat!WriteStub \/ UNCHANGED Flat!vars
  <1>1. init_mmio_passes /\ MemOK(mem) /\ UNCHANGED <<req, out>>
    BY TypeMem DEF Started, IInv, Boot
  <1>2. CASE bram_mapped
    BY <1>1, <1>2 DEF Boot, Flat!vars
  <1>3. CASE ~bram_mapped
    <2>1. PICK i \in Regions : mmap_table[i] =
              [start |-> BRAM_BASE, end |-> BRAM_BASE + BRAM_SIZE, dev |-> "bram"]
      BY NamedRegions
    <2>2. /\ mmap_table[i].start = BRAM_BASE /\ mmap_table[i].end = BRAM_BASE + BRAM_SIZE
          /\ mmap_table[i].dev = "bram" /\ BRAM_BASE \in Nat /\ BRAM_SIZE \in Nat
          /\ BRAM_SIZE > 0 /\ Len(BootStub) \in Nat /\ Len(BootStub) <= BRAM_SIZE
      <3>1. BRAM_BASE \in Nat /\ BRAM_SIZE \in Nat /\ BootStub \in Seq(Bytes)
            /\ Len(BootStub) <= BRAM_SIZE
        BY MmioAssumption
      <3>2. /\ mmap_table[i].start = BRAM_BASE /\ mmap_table[i].end = BRAM_BASE + BRAM_SIZE
            /\ mmap_table[i].dev = "bram"
        BY <2>1
      <3>3. mmap_table[i].start < mmap_table[i].end
        BY RegionType
      <3>4. QED
        BY <3>1, <3>2, <3>3
    <2>3. InMemory(BRAM_BASE, Len(BootStub), i) /\ BRAM_BASE - mmap_table[i].start = 0
      BY <2>2, Numbers DEF InMemory, InRegion, Fits, Memories
    <2>4. mem' = SetBytes(mmap_table[i].dev, BRAM_BASE - mmap_table[i].start, BootStub)
      BY <1>3, <2>2, <2>3 DEF Boot
    <2>5. View' = [c \in CellAddrs |->
                      IF BRAM_BASE <= c /\ c < BRAM_BASE + Len(BootStub)
                      THEN BootStub[c - BRAM_BASE + 1] ELSE View[c]]
      BY <1>1, <2>2, <2>3, <2>4, WritesView DEF InMemory
    <2>6. Flat!WriteStub
      BY <1>1, <2>5 DEF Flat!WriteStub, Flat!Put, View
    <2>7. QED
      BY <2>6
  <1>4. QED
    BY <1>2, <1>3

LEMMA RefinesStep == Started /\ [Next]_vars => [Flat!Next]_(Flat!vars)
  <1> SUFFICES ASSUME Started, [Next]_vars PROVE [Flat!Next]_(Flat!vars)
    OBVIOUS
  <1>1. CASE Ask
    <2>1. req' \in Requests /\ req = NoReq /\ out' = <<>> /\ UNCHANGED mem
      BY <1>1 DEF Ask, Requests
    <2>2. Flat!Ask
      BY <2>1 DEF Flat!Ask
    <2>3. QED
      BY <2>2 DEF Flat!Next
  <1>2. CASE LoadSegment \/ Boot
    BY <1>2, RefinesSegment, RefinesBoot DEF Flat!Next
  <1>3. CASE \E why \in {"fault", "trap"} : Stop(why)
    BY <1>3 DEF Stop, Flat!vars
  <1>4. CASE /\ running = "run" /\ req \in Requests /\ Aligned(req)
             /\ Flat!Phys(req.addr) \in Nat
             /\ ~req.write /\ ReadStep(Flat!Phys(req.addr), Len(req.word))
    BY <1>4, RefinesRead DEF Flat!Next
  <1>5. CASE /\ running = "run" /\ req \in Requests /\ Aligned(req)
             /\ Flat!Phys(req.addr) \in Nat /\ req.by \in {"cpu", "debugger"}
             /\ req.write /\ WriteStep(Flat!Phys(req.addr), req.word)
    BY <1>5, RefinesWrite DEF Flat!Next
  <1>6. CASE UNCHANGED vars
    BY <1>6 DEF vars, Flat!vars
  <1>7. QED
    BY <1>1, <1>2, <1>3, <1>4, <1>5, <1>6, StepKinds

\* Fast path, dispatch, debugger and loader, through any window, are ways to
\* one flat memory; what fails or meets a device leaves all of it as it is
\* (cpu-exec.c: load_mem, store_mem; memory.c; monitor.c: load_elf).
THEOREM RefinesFlatMemory == Spec => FlatView
  <1>1. Init => Flat!Init
    BY RefinesInit
  <1>2. Started /\ [Next]_vars => [Flat!Next]_(Flat!vars)
    BY RefinesStep
  <1>3. QED
    BY <1>1, <1>2, InitInvariant, NextInvariant, PTL DEF Spec, FlatView, Flat!Spec

-----------------------------------------------------------------------------
\* What is refused.

LEMMA RefusedNotMemory ==
    ASSUME init_mmio_passes, NEW pa \in Nat, NEW n \in Lens, pa % n = 0, Refused(pa, n)
    PROVE  \E k \in 0 .. n - 1 : pa + k \notin CellAddrs
  <1>1. n \in {1, 2, 4} /\ 0 \in 0 .. n - 1 /\ n \in Nat
    BY Numbers
  <1>2. CASE NoMemory(pa)
    <2>1. pa + 0 \notin CellAddrs
      BY <1>2 DEF NoMemory, CellAddrs, IsCell
    <2>2. QED
      BY <1>1, <2>1
  <1>3. CASE ~NoMemory(pa) /\ ~Fits(Region(pa).dev, pa - Region(pa).start, n)
    <2> DEFINE i == find_region(pa)
               start == mmap_table[i].start
               dev   == mmap_table[i].dev
               k     == start + Size(dev) - pa
    <2>1. /\ i \in Regions /\ InRegion(pa, i) /\ dev \in Memories
          /\ ~Fits(dev, pa - start, n)
      BY <1>3, FindRegion DEF NoMemory, Region
    <2> HIDE DEF i
    <2>2. /\ start \in Nat /\ mmap_table[i].end \in Nat /\ Size(dev) \in Nat
          /\ start <= pa /\ pa < mmap_table[i].end
          /\ ~(pa - start < Size(dev)) \/ k < n
      BY <2>1, RegionType, Numbers DEF InRegion, Fits
    <2>3. CASE ~(pa - start < Size(dev))
      <3>1. pa \notin CellAddrs
        <4>1. SUFFICES ASSUME pa \in CellAddrs PROVE FALSE
          OBVIOUS
        <4>2. PICK j \in Regions :
                  /\ InRegion(pa, j)
                  /\ pa - mmap_table[j].start \in 0 .. Size(mmap_table[j].dev) - 1
          BY <4>1, CellType
        <4>3. j = i
          BY <2>1, <4>2, RegionsDisjoint
        <4>4. QED
          BY <2>2, <2>3, <4>2, <4>3
      <3>2. pa + 0 \notin CellAddrs
        BY <3>1
      <3>3. QED
        BY <1>1, <3>2
    <2>4. CASE pa - start < Size(dev) /\ k < n
      <3> DEFINE p == pa + k
      <3>1. k \in 0 .. n - 1 /\ p \in Nat /\ p = start + Size(dev) /\ pa < p
        BY <1>1, <2>2, <2>4
      <3>2. p < pa + n
        BY <1>1, <2>2, <2>4
      <3> HIDE DEF p, k
      <3>3. p \notin CellAddrs
        <4>1. SUFFICES ASSUME p \in CellAddrs PROVE FALSE
          OBVIOUS
        <4>2. PICK j \in Regions :
                  /\ InRegion(p, j) /\ mmap_table[j].dev \in Memories
                  /\ p - mmap_table[j].start \in 0 .. Size(mmap_table[j].dev) - 1
          BY <4>1, CellType
        <4>3. j # i
          BY <2>2, <3>1, <4>2
        <4>4. mmap_table[j].start \in Nat /\ mmap_table[j].end \in Nat
              /\ mmap_table[j].start <= p /\ p < mmap_table[j].end
              /\ Whole(mmap_table[j].start)
          BY <4>2, RegionType, TableAssumption DEF InRegion
        <4>5. pa < mmap_table[j].start
          <5>1. SUFFICES ASSUME mmap_table[j].start <= pa PROVE FALSE
            BY <4>4
          <5>2. InRegion(pa, j)
            BY <3>1, <4>4, <5>1 DEF InRegion
          <5>3. QED
            BY <2>1, <4>3, <5>2, RegionsDisjoint
        <4>6. pa + n <= mmap_table[j].start
          BY <4>4, <4>5, NotCrossed
        <4>7. QED
          BY <1>1, <3>1, <3>2, <4>4, <4>6
      <3>4. QED
        BY <3>1, <3>3 DEF p
    <2>5. QED
      BY <2>2, <2>3, <2>4
  <1>4. QED
    BY <1>2, <1>3 DEF Refused

\* The reasons for which the process may end once the program runs.
MayRefuse == \/ ~Aligned(req)
             \/ req.by = "cpu" /\ req.addr < LowLimit
             \/ \E k \in 0 .. Len(req.word) - 1 : Flat!Phys(req.addr) + k \notin CellAddrs

LEMMA AnswersStep ==
    ASSUME Started, [Next]_vars, running = "run", running' # "run"
    PROVE  MayRefuse
  <1>1. init_mmio_passes /\ (req # NoReq => req \in Requests)
    BY TypeMem DEF Started, IInv
  <1>2. CASE load_mem \/ store_mem \/ vaddr_read_safe \/ vaddr_write_safe
    <2> DEFINE pa == Flat!Phys(req.addr)
               n  == Len(req.word)
    <2>1. req \in Requests
      BY <1>1, <1>2 DEF load_mem, store_mem, Cpu, vaddr_read_safe, vaddr_write_safe, Debugger
    <2>2. /\ Aligned(req) /\ req.by \in {"cpu", "debugger"}
          /\ \/ ReadStep(pa, n) \/ WriteStep(pa, req.word) \/ Refused(pa, n)
      BY <1>1, <1>2, <2>1, LoadServed, StoreServed, DebuggerServed
    <2>3. Refused(pa, n)
      BY <2>2 DEF ReadStep, WriteStep, Done
    <2>4. pa \in Nat /\ n \in Lens /\ pa % n = 0
      BY <2>1, <2>2, Served
    <2> HIDE DEF pa, n
    <2>5. \E k \in 0 .. n - 1 : pa + k \notin CellAddrs
      BY <1>1, <2>3, <2>4, RefusedNotMemory
    <2>6. QED
      BY <2>5 DEF MayRefuse, pa, n
  <1>3. CASE CpuFault
    BY <1>3 DEF CpuFault, Cpu, MayRefuse
  <1>4. CASE Ask \/ LoadSegment \/ LoadFault \/ Boot \/ UNCHANGED vars
    BY <1>4 DEF Ask, LoadSegment, LoadFault, Loader, Boot, vars
  <1>5. QED
    BY <1>2, <1>3, <1>4 DEF Next

\* The program is ended only by an access that is unaligned, below 0x1000 or
\* not wholly in memory, a debugger's never for its address alone (the
\* assertions of memory.c, ddr.c, bram.c, video.c and cpu-exec.c).
THEOREM AnswersMemory == Spec => MemoryAnswers
  <1>1. Started /\ [Next]_vars
          => [(running = "run" /\ running' # "run") =>
                 \/ ~Aligned(req)
                 \/ req.by = "cpu" /\ req.addr < LowLimit
                 \/ \E k \in 0 .. Len(req.word) - 1 : Flat!Phys(req.addr) + k \notin CellAddrs]_vars
    BY AnswersStep DEF MayRefuse
  <1>2. QED
    BY <1>1, InitInvariant, NextInvariant, PTL DEF Spec, MemoryAnswers
=============================================================================

------------------------------- MODULE MCMmio -------------------------------
(***************************************************************************)
(* A small instance of Mmio for TLC: sixteen bytes of physical addresses   *)
(* with every kind of region and a hole, words of one or two bytes, and    *)
(* addresses below the two windows, in them, between and above them.       *)
(* The low limit lies within the DDR, as 0x1000 does.                      *)
(***************************************************************************)
EXTENDS Mmio

Entry(start, end, dev) == [start |-> start, end |-> end, dev |-> dev]

MCTable == << Entry(12, 14, "badp"), Entry(0, 4, "ddr"), Entry(8, 10, "bram"),
              Entry(4, 6, "gpio"), Entry(10, 11, "serial"), Entry(11, 12, "mac"),
              Entry(6, 7, "vga") >>

\* The table of the source, in units of 16 bytes: all its bounds are multiples.
SourceTable == << Entry(33461760, 33462016, "badp"), Entry(0, 8388608, "ddr"),
                  Entry(33292288, 33357824, "bram"), Entry(16777216, 16777472, "gpio"),
                  Entry(33443840, 33443841, "serial"), Entry(33488896, 33492992, "mac"),
                  Entry(17039360, 17104896, "vga") >>

\* init_mmio lets the emulator start with the table of the source.
ASSUME SourceTablePasses ==
    \A i \in 1 .. Len(SourceTable) : \A j \in i + 1 .. Len(SourceTable) :
        ~region_collide(SourceTable[i].start, SourceTable[i].end,
                        SourceTable[j].start, SourceTable[j].end)

\* region_collide is true of exactly the pairs of regions that overlap.
ASSUME CollideIsOverlap ==
    \A x, a \in 0 .. 6 : \A y \in x + 1 .. 7 : \A b \in a + 1 .. 7 :
        region_collide(x, y, a, b) <=> (x .. y - 1) \cap (a .. b - 1) # {}

MCStub == <<1, 1>>

MCAddrs == 0 .. 6 \cup {8, 10, 12, 14, 20} \cup 64 .. 79 \cup {80, 82, 83, 86, 88, 96}
=============================================================================

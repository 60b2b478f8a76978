------------------------------ MODULE MCLoader ------------------------------
(***************************************************************************)
(* A small instance of Loader for TLC: an image of two cells, which fills  *)
(* the boot stub's place, and a link to it; an ELF file that is loaded to  *)
(* the BRAM behind its start, with a segment that is not loaded, one that  *)
(* memory zeroes, two that overlap a -u file, and one ELF file whose       *)
(* segment is at the start of the BRAM; a missing file.  Three options.    *)
(***************************************************************************)
EXTENDS Loader, TLC

At(dev, off) == [dev |-> dev, off |-> off]
Load(at, offset, filesz, memsz) ==
    [type |-> "PT_LOAD", at |-> at, offset |-> offset, filesz |-> filesz, memsz |-> memsz]

MCContent == [img |-> <<"i1", "i2">>, link |-> <<"i1", "i2">>, uimg |-> <<"u1", "u2">>,
              app |-> <<"elf", "a1", "a2">>, rom |-> <<"elf", "r1">>, long |-> <<"l1", "l2", "l3">>]

MCSegments ==
    [app |-> << [type |-> "PT_NOTE", at |-> At("ddr", 0), offset |-> 1, filesz |-> 1, memsz |-> 1],
                Load(At("ddr", 1), 1, 2, 2), Load(At("ddr", 2), 2, 0, 1),
                Load(At("bram", 1), 1, 1, 1) >>,
     rom |-> << Load(At("bram", 0), 1, 1, 1), Load(At("ddr", 0), 1, 1, 2) >>]

MCEntry == [app |-> "start", rom |-> "reset"]
MCBootStub == [start |-> <<"hi", "lo">>, reset |-> <<"hi0", "lo0">>]

MCCells == {"0", "elf", "junk", "hi", "lo", "hi0", "lo0", "i1", "i2", "u1", "u2",
            "a1", "a2", "r1", "l1", "l2", "l3"}

MCOptions == {[opt |-> o, file |-> f] : o \in {"u"}, f \in {"uimg", "link", "none", "long"}}
        \cup {[opt |-> o, file |-> f] : o \in {"i"}, f \in {"img", "long", "none"}}
        \cup {[opt |-> o, file |-> f] : o \in {"e"}, f \in {"app", "rom", "img", "none"}}
        \cup {[opt |-> "flag"], [opt |-> "h"]}
=============================================================================

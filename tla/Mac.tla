-------------------------------- MODULE Mac --------------------------------
(***************************************************************************)
(* The Ethernet MAC, src/dev/mac.c: a Xilinx EmacLite without a network.   *)
(* The guest stores packets and MAC addresses in two transmit buffers,     *)
(* PING and PONG, and starts an operation by a store to the status         *)
(* register of the buffer; it reaches the registers of a PHY by MDIO       *)
(* transactions, started by a store to the MDIO control register.          *)
(* Each operation ends within the store that starts it.                    *)
(*                                                                         *)
(* A register is the set of the names of its bits, a word of a buffer the  *)
(* sequence of its bytes.  The receive buffers are never written and their *)
(* status registers never read: they are left out.                         *)
(***************************************************************************)
EXTENDS Integers, Sequences

CONSTANTS WordLen,          \* bytes of a word, 4 in the source
          BufWords,         \* words of a transmit buffer
          ENET_ADDR_LENGTH, \* 6
          Words, Zero,      \* words that a guest stores, and the word 0
          Lengths,          \* lengths that it stores
          TsrValues,        \* sets of bits that it stores to a TSR
          CtrlValues,       \* and to the MDIO control register
          PhyAddrs, MiiRegs,
          MdioAddrs,        \* MDIO addresses that it stores
          MdioWords         \* MDIO data words that it stores

ACTIVE_PHY == 1
Buffers == {"ping", "pong"}

ASSUME MacAssumption ==
    /\ WordLen \in Nat \ {0} /\ BufWords \in Nat \ {0}
    /\ ENET_ADDR_LENGTH \in 1 .. BufWords * WordLen
    /\ Zero \in Words
    /\ Lengths \subseteq Nat
    /\ ACTIVE_PHY \in PhyAddrs
    /\ {"BMCR", "BMSR", "PHYSID1", "PHYSID2", "ADVERTISE", "LPA"} \subseteq MiiRegs
    /\ MdioAddrs \subseteq [phy : PhyAddrs, reg : MiiRegs, op : {"write", "read"}]
    /\ [phy |-> 0, reg |-> "BMCR", op |-> "write"] \in MdioAddrs

VARIABLES
    buf, tplr, tsr,   \* of PING and PONG: the buffer, the length, the status
    mac,              \* ping_mac and pong_mac
    mdioaddr, mdiowr, mdiord, mdioctrl,
    phy_regs, inited, \* of mii_transaction
    halted,           \* "no", or why the process has ended
    \* History, for the properties only:
    programmed        \* the address that the guest last asked PING for

txVars   == <<buf, tplr, tsr, mac, programmed>>
mdioVars == <<mdioaddr, mdiowr, mdiord, mdioctrl, phy_regs, inited>>
vars     == <<txVars, mdioVars, halted>>

\* The masks of mac.c.
XMIT_BUSY     == {"BUSY"}
PROGRAM       == {"PROGRAM"}
PROG_MAC_ADDR == XMIT_BUSY \cup PROGRAM
MDIOSTS       == {"STS"}
PHY_DETECT_MASK == {"10FULL", "10HALF", "ANEGCAPABLE"}
LinkUp          == {"ANEGCOMPLETE", "LSTATUS"}

\* Bits that a word has beyond the u16 of a PHY register.
High == {"HIGH"}

Addrs == [1 .. ENET_ADDR_LENGTH -> UNION {{w[k] : k \in 1 .. WordLen} : w \in Words}]

Init == /\ buf  = [b \in Buffers |-> [i \in 0 .. BufWords - 1 |-> Zero]]
        /\ tplr = [b \in Buffers |-> 0]
        /\ tsr  = [b \in Buffers |-> {}]
        /\ mac  = [b \in Buffers |-> [k \in 1 .. ENET_ADDR_LENGTH |-> Zero[1]]]
        /\ programmed = mac["ping"]
        /\ mdioaddr = [phy |-> 0, reg |-> "BMCR", op |-> "write"]
        /\ mdiowr = {} /\ mdiord = {} /\ mdioctrl = {}
        /\ phy_regs = [p \in PhyAddrs |-> [r \in MiiRegs |-> {}]]
        /\ inited = FALSE
        /\ halted = "no"

-----------------------------------------------------------------------------
\* The transmit buffers.

\* A store to the buffer: whatever its length, it takes the place of the whole
\* word.  The last word can be stored to at its own address only.
WriteBuffer(b, addr, word) ==
    /\ halted = "no"
    /\ addr <= WordLen * (BufWords - 1)
    /\ buf' = [buf EXCEPT ![b][addr \div WordLen] = word]
    /\ UNCHANGED <<tplr, tsr, mac, programmed, mdioVars, halted>>

WriteTplr(b, len) ==
    /\ halted = "no"
    /\ tplr' = [tplr EXCEPT ![b] = len]
    /\ UNCHANGED <<buf, tsr, mac, programmed, mdioVars, halted>>

\* memcpy from the buffer to the address, over the old one.
Copied(b) == [k \in 1 .. ENET_ADDR_LENGTH |->
                IF k <= tplr[b] THEN buf[b][(k - 1) \div WordLen][((k - 1) % WordLen) + 1]
                                ELSE mac[b][k]]

\* Mutant of Trigger: PING takes a transmission for an address, as PONG does.
TriggerBoth(b) == PROG_MAC_ADDR

\* The bits that start the copy.  PONG tests for both bits of the mask.
Trigger(b) == IF b = "ping" THEN PROGRAM ELSE PROG_MAC_ADDR

\* Mutant of StartTx: only the bit that was tested is cleared.
StartTxKeeps(b, bits) ==
    /\ halted = "no"
    /\ programmed' = IF b = "ping" /\ PROGRAM \subseteq bits THEN Copied(b)
                                                         ELSE programmed
    /\ \/ /\ bits \cap Trigger(b) = {}
          /\ tsr' = [tsr EXCEPT ![b] = bits]
          /\ UNCHANGED <<mac, halted>>
       \/ /\ bits \cap Trigger(b) # {}
          /\ tplr[b] <= ENET_ADDR_LENGTH
          /\ mac' = [mac EXCEPT ![b] = Copied(b)]
          /\ tsr' = [tsr EXCEPT ![b] = bits \ XMIT_BUSY]
          /\ UNCHANGED halted
    /\ UNCHANGED <<buf, tplr, mdioVars>>

\* A store to TX_PING_TSR or TX_PONG_TSR.  A copy longer than an address
\* writes past ping_mac or pong_mac; nothing is said of what follows.
StartTx(b, bits) ==
    /\ halted = "no"
    /\ programmed' = IF b = "ping" /\ PROGRAM \subseteq bits THEN Copied(b)
                                                         ELSE programmed
    /\ \/ /\ bits \cap Trigger(b) = {}
          /\ tsr' = [tsr EXCEPT ![b] = bits]
          /\ UNCHANGED <<mac, halted>>
       \/ /\ bits \cap Trigger(b) # {}
          /\ tplr[b] <= ENET_ADDR_LENGTH
          /\ mac' = [mac EXCEPT ![b] = Copied(b)]
          /\ tsr' = [tsr EXCEPT ![b] = bits \ PROG_MAC_ADDR]
          /\ UNCHANGED halted
       \/ /\ bits \cap Trigger(b) # {}
          /\ tplr[b] > ENET_ADDR_LENGTH
          /\ halted' = "overrun"
          /\ UNCHANGED <<mac, tsr>>
    /\ UNCHANGED <<buf, tplr, mdioVars>>

-----------------------------------------------------------------------------
\* MDIO.

WriteMdioAddr(a) == /\ halted = "no"
                    /\ mdioaddr' = a
                    /\ UNCHANGED <<txVars, mdiowr, mdiord, mdioctrl, phy_regs, inited, halted>>

WriteMdioWr(v) == /\ halted = "no"
                  /\ mdiowr' = v
                  /\ UNCHANGED <<txVars, mdioaddr, mdiord, mdioctrl, phy_regs, inited, halted>>

\* The registers after the first transaction has initialised them.
\* PHY_DETECT_REG is BMSR: the mask stored first is overwritten.
PowerOn ==
    [r \in MiiRegs |->
        CASE r = "BMCR"      -> {"SPEED100", "ANENABLE", "FULLDPLX"}
          [] r = "BMSR"      -> {"100FULL", "100HALF", "10FULL", "10HALF", "ANEGCAPABLE",
                                 "ERCAP", "RESV40"}
          [] r = "PHYSID1"   -> {"ID1"}
          [] r = "PHYSID2"   -> {"ID2"}
          [] r = "ADVERTISE" -> {"100FULL", "100HALF", "10FULL", "10HALF", "CSMA"}
          [] r = "LPA"       -> {"LPACK", "PAUSE_ASYM", "PAUSE_CAP", "100FULL", "100HALF",
                                 "10FULL", "10HALF", "SLCT1"}
          [] OTHER           -> {}]

\* Mutant of Initialised: every transaction powers the PHY on.
InitialisedAlways == [phy_regs EXCEPT ![ACTIVE_PHY] = PowerOn]

\* The registers as a transaction finds them: the first one initialises them.
Initialised == IF inited THEN phy_regs ELSE [phy_regs EXCEPT ![ACTIVE_PHY] = PowerOn]

\* Mutant of BmcrWritten: the reset bit is kept in the register.
BmcrWrittenKept(regs, data) ==
    IF "RESET" \in data THEN [regs EXCEPT ![ACTIVE_PHY]["BMSR"] = @ \cup LinkUp,
                                          ![ACTIVE_PHY]["BMCR"] = data]
                        ELSE [regs EXCEPT ![ACTIVE_PHY]["BMCR"] = data]

\* A reset only brings the link up; any other value is kept.
BmcrWritten(regs, data) ==
    IF "RESET" \in data THEN [regs EXCEPT ![ACTIVE_PHY]["BMSR"] = @ \cup LinkUp]
                        ELSE [regs EXCEPT ![ACTIVE_PHY]["BMCR"] = data]

\* Mutant of Selected: the address of the PHY is not looked at.
SelectedActive(regs) == regs[ACTIVE_PHY][mdioaddr.reg]

Selected(regs) == regs[mdioaddr.phy][mdioaddr.reg]

\* mii_transaction, whose result the caller's status bit stands for.
MiiWrite == /\ mdioaddr.op = "write"
            /\ phy_regs' = IF mdioaddr.phy = ACTIVE_PHY
                           THEN BmcrWritten(Initialised, mdiowr \ High)
                           ELSE Initialised
            /\ UNCHANGED mdiord

MiiRead == /\ mdioaddr.op = "read"
           /\ phy_regs' = Initialised
           /\ mdiord' = Selected(Initialised)

\* A write to a register other than BMCR fails an assertion.
Unsupported == /\ mdioaddr.op = "write"
               /\ mdioaddr.phy = ACTIVE_PHY
               /\ mdioaddr.reg # "BMCR"

\* A store to MDIO_CTRL.  The enable bit does not matter.
WriteMdioCtrl(bits) ==
    /\ halted = "no"
    /\ \/ /\ MDIOSTS \cap bits = {}
          /\ mdioctrl' = bits
          /\ UNCHANGED <<phy_regs, inited, mdiord, halted>>
       \/ /\ MDIOSTS \cap bits # {} /\ ~Unsupported
          /\ MiiWrite \/ MiiRead
          /\ inited' = TRUE
          /\ mdioctrl' = bits \ MDIOSTS
          /\ UNCHANGED halted
       \/ /\ MDIOSTS \cap bits # {} /\ Unsupported
          /\ halted' = "fault"
          /\ mdioctrl' = bits
          /\ phy_regs' = Initialised
          /\ inited' = TRUE
          /\ UNCHANGED mdiord
    /\ UNCHANGED <<txVars, mdioaddr, mdiowr>>

\* An access to a register that has no case in mac_read or mac_write.  The
\* other loads (of TSR, MDIO_RD and MDIO_CTRL) change nothing.
Refused == /\ halted = "no"
           /\ halted' = "fault"
           /\ UNCHANGED <<txVars, mdioVars>>

Next == \/ \E b \in Buffers :
              \/ \E addr \in 0 .. WordLen * BufWords - 1 : \E word \in Words :
                    WriteBuffer(b, addr, word)
              \/ \E len \in Lengths : WriteTplr(b, len)
              \/ \E bits \in TsrValues : StartTx(b, bits)
        \/ \E a \in MdioAddrs : WriteMdioAddr(a)
        \/ \E v \in MdioWords : WriteMdioWr(v)
        \/ \E bits \in CtrlValues : WriteMdioCtrl(bits)
        \/ Refused

Spec == Init /\ [][Next]_vars
-----------------------------------------------------------------------------
Flags == (UNION MdioWords) \cup (UNION {PowerOn[r] : r \in MiiRegs}) \cup LinkUp

TypeOK == /\ buf \in [Buffers -> [0 .. BufWords - 1 -> Words]]
          /\ tplr \in [Buffers -> Nat]
          /\ tsr \in [Buffers -> SUBSET UNION TsrValues]
          /\ mac \in [Buffers -> Addrs]
          /\ programmed \in Addrs
          /\ mdioaddr \in MdioAddrs
          /\ mdiowr \in MdioWords \cup {{}}
          /\ mdiord \subseteq Flags
          /\ mdioctrl \subseteq UNION CtrlValues
          /\ phy_regs \in [PhyAddrs -> [MiiRegs -> SUBSET Flags]]
          /\ inited \in BOOLEAN
          /\ halted \in {"no", "fault", "overrun"}

\* A driver's polling loops end: whatever it stores, the next load of MDIO_CTRL
\* has no busy bit, that of a TSR no PROGRAM bit, that of PONG's no busy bit
\* either.  (A transmission from PING keeps its busy bit for ever.)
PollsEnd == halted = "no" => /\ MDIOSTS \cap mdioctrl = {}
                             /\ \A b \in Buffers : PROGRAM \cap tsr[b] = {}
                             /\ XMIT_BUSY \cap tsr["pong"] = {}

\* A transmission from PING is not taken for a MAC address: ping_mac is what
\* the guest last programmed, stores to the buffer and other commands between.
PingMacKept == halted = "no" => mac["ping"] = programmed

\* Only the PHY at ACTIVE_PHY has contents, and its reset bit reads as zero.
OnePhy == \A p \in PhyAddrs \ {ACTIVE_PHY} : phy_regs[p] = [r \in MiiRegs |-> {}]
ResetSelfClears == "RESET" \notin phy_regs[ACTIVE_PHY]["BMCR"]
Detectable == inited => PHY_DETECT_MASK \subseteq phy_regs[ACTIVE_PHY]["BMSR"]

\* Until the first transaction nothing has changed.
NotYet == ~inited => phy_regs[ACTIVE_PHY] = [r \in MiiRegs |-> {}]

IInv == TypeOK /\ OnePhy /\ ResetSelfClears /\ Detectable /\ NotYet

\* A driver that scans the addresses for the features of PHY_DETECT_MASK finds
\* exactly the active PHY, in any state and with any write to it before.
ScanFindsPhy ==
    [][\A a \in MdioAddrs :
          (/\ mdioaddr = a /\ a.op = "read" /\ a.reg = "BMSR"
           /\ \E bits \in CtrlValues : MDIOSTS \subseteq bits /\ WriteMdioCtrl(bits))
          => (PHY_DETECT_MASK \subseteq mdiord' <=> a.phy = ACTIVE_PHY)]_vars

\* The first transaction's initialisation cannot be told from a PHY that has
\* had its contents from the start, and the transactions are atomic.
Phy == INSTANCE Mii WITH
           Active <- ACTIVE_PHY, Values <- {v \ High : v \in MdioWords \cup {{}}}, Nothing <- {},
           phy <- IF inited THEN phy_regs[ACTIVE_PHY] ELSE PowerOn,
           answer <- mdiord,
           stopped <- (halted # "no")

ImplementsMii == Phy!Spec
=============================================================================

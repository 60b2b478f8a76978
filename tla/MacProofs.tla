----------------------------- MODULE MacProofs -----------------------------
(***************************************************************************)
(* The Ethernet MAC for every size of its buffers, every set of registers  *)
(* and values that a guest stores: the invariants, the scan of the PHYs,   *)
(* and that the MDIO transactions implement Mii.                           *)
(***************************************************************************)
EXTENDS Mac, TLAPS

USE MacAssumption

PhyReads == {"BMCR", "BMSR", "PHYSID1", "PHYSID2", "ADVERTISE", "LPA"}

LEMMA PowerOnType == /\ PowerOn \in [MiiRegs -> SUBSET Flags]
                     /\ PHY_DETECT_MASK \subseteq PowerOn["BMSR"]
                     /\ "RESET" \notin PowerOn["BMCR"]
  <1>1. \A r \in MiiRegs : PowerOn[r] \subseteq Flags
    BY DEF Flags
  <1>2. PowerOn = [r \in MiiRegs |-> PowerOn[r]]
    BY DEF PowerOn
  <1>3. PowerOn["BMSR"] = {"100FULL", "100HALF", "10FULL", "10HALF", "ANEGCAPABLE",
                           "ERCAP", "RESV40"}
    BY DEF PowerOn
  <1>4. PowerOn["BMCR"] = {"SPEED100", "ANENABLE", "FULLDPLX"}
    BY DEF PowerOn
  <1>5. QED
    BY <1>1, <1>2, <1>3, <1>4 DEF PHY_DETECT_MASK

\* What a transaction finds, the first one or a later one.
LEMMA FoundOK ==
    ASSUME IInv
    PROVE  /\ Initialised \in [PhyAddrs -> [MiiRegs -> SUBSET Flags]]
           /\ \A p \in PhyAddrs \ {ACTIVE_PHY} : Initialised[p] = [r \in MiiRegs |-> {}]
           /\ "RESET" \notin Initialised[ACTIVE_PHY]["BMCR"]
           /\ PHY_DETECT_MASK \subseteq Initialised[ACTIVE_PHY]["BMSR"]
           /\ Initialised[ACTIVE_PHY] = IF inited THEN phy_regs[ACTIVE_PHY] ELSE PowerOn
  <1>1. phy_regs \in [PhyAddrs -> [MiiRegs -> SUBSET Flags]] /\ ACTIVE_PHY \in PhyAddrs
    BY DEF IInv, TypeOK
  <1>2. CASE inited
    BY <1>1, <1>2 DEF Initialised, IInv, OnePhy, ResetSelfClears, Detectable
  <1>3. CASE ~inited
    <2>1. Initialised = [phy_regs EXCEPT ![ACTIVE_PHY] = PowerOn]
      BY <1>3 DEF Initialised
    <2>2. Initialised[ACTIVE_PHY] = PowerOn
      BY <1>1, <2>1
    <2>3. \A p \in PhyAddrs \ {ACTIVE_PHY} : Initialised[p] = phy_regs[p]
      BY <1>1, <2>1
    <2>4. QED
      BY <1>1, <1>3, <2>1, <2>2, <2>3, PowerOnType DEF IInv, OnePhy
  <1>4. QED
    BY <1>2, <1>3

\* A write of BMCR keeps the invariant of the registers.
LEMMA WrittenOK ==
    ASSUME IInv, NEW data \in SUBSET Flags
    PROVE  LET after == BmcrWritten(Initialised, data)
           IN  /\ after \in [PhyAddrs -> [MiiRegs -> SUBSET Flags]]
               /\ \A p \in PhyAddrs \ {ACTIVE_PHY} : after[p] = [r \in MiiRegs |-> {}]
               /\ "RESET" \notin after[ACTIVE_PHY]["BMCR"]
               /\ PHY_DETECT_MASK \subseteq after[ACTIVE_PHY]["BMSR"]
               /\ after[ACTIVE_PHY] =
                     IF "RESET" \in data
                     THEN [Initialised[ACTIVE_PHY] EXCEPT !["BMSR"] = @ \cup LinkUp]
                     ELSE [Initialised[ACTIVE_PHY] EXCEPT !["BMCR"] = data]
  <1> DEFINE regs == Initialised
             after == BmcrWritten(regs, data)
  <1>1. /\ regs \in [PhyAddrs -> [MiiRegs -> SUBSET Flags]]
        /\ ACTIVE_PHY \in PhyAddrs /\ "BMCR" \in MiiRegs /\ "BMSR" \in MiiRegs
        /\ \A p \in PhyAddrs \ {ACTIVE_PHY} : regs[p] = [r \in MiiRegs |-> {}]
        /\ "RESET" \notin regs[ACTIVE_PHY]["BMCR"]
        /\ PHY_DETECT_MASK \subseteq regs[ACTIVE_PHY]["BMSR"]
    BY FoundOK
  <1>2. LinkUp \subseteq Flags
    BY DEF Flags
  <1> HIDE DEF regs
  <1>3. CASE "RESET" \in data
    <2>1. after = [regs EXCEPT ![ACTIVE_PHY] = [regs[ACTIVE_PHY] EXCEPT !["BMSR"] = @ \cup LinkUp]]
      BY <1>3, <1>1 DEF BmcrWritten
    <2>2. regs[ACTIVE_PHY]["BMSR"] \cup LinkUp \in SUBSET Flags
      BY <1>1, <1>2
    <2>3. [regs[ACTIVE_PHY] EXCEPT !["BMSR"] = @ \cup LinkUp] \in [MiiRegs -> SUBSET Flags]
      BY <1>1, <2>2
    <2>4. QED
      BY <1>1, <1>3, <2>1, <2>2, <2>3 DEF regs
  <1>4. CASE "RESET" \notin data
    <2>1. after = [regs EXCEPT ![ACTIVE_PHY] = [regs[ACTIVE_PHY] EXCEPT !["BMCR"] = data]]
      BY <1>4, <1>1 DEF BmcrWritten
    <2>2. [regs[ACTIVE_PHY] EXCEPT !["BMCR"] = data] \in [MiiRegs -> SUBSET Flags]
      BY <1>1
    <2>3. QED
      BY <1>1, <1>4, <2>1, <2>2 DEF regs
  <1>5. QED
    BY <1>3, <1>4

\* The address that a copy gives.
LEMMA CopiedType ==
    ASSUME TypeOK, NEW b \in Buffers
    PROVE  Copied(b) \in Addrs
  <1> DEFINE Octets == UNION {{w[k] : k \in 1 .. WordLen} : w \in Words}
  <1>1. ASSUME NEW k \in 1 .. ENET_ADDR_LENGTH
        PROVE  (k - 1) \div WordLen \in 0 .. BufWords - 1 /\ ((k - 1) % WordLen) + 1 \in 1 .. WordLen
    <2>1. /\ k - 1 \in Nat /\ k - 1 < BufWords * WordLen
          /\ WordLen \in Nat \ {0} /\ BufWords \in Nat \ {0}
      OBVIOUS
    <2> DEFINE q == (k - 1) \div WordLen
               m == (k - 1) % WordLen
    <2>2. q \in Nat /\ m \in 0 .. WordLen - 1 /\ k - 1 = WordLen * q + m
      BY <2>1, Z3
    <2> HIDE DEF q, m
    <2>3. q < BufWords
      <3>1. SUFFICES ASSUME q >= BufWords PROVE FALSE
        BY <2>1, <2>2
      <3>2. WordLen * q >= WordLen * BufWords
        BY <2>1, <2>2, <3>1, Z3
      <3>3. WordLen * BufWords = BufWords * WordLen
        BY <2>1, Z3
      <3>4. QED
        BY <2>1, <2>2, <3>2, <3>3, Z3
    <2>4. QED
      BY <2>2, <2>3 DEF q, m
  <1>2. ASSUME NEW w \in Words, NEW k \in 1 .. WordLen PROVE w[k] \in Octets
    OBVIOUS
  <1>3. ASSUME NEW k \in 1 .. ENET_ADDR_LENGTH
        PROVE  /\ buf[b][(k - 1) \div WordLen][((k - 1) % WordLen) + 1] \in Octets
               /\ mac[b][k] \in Octets
    <2>1. buf[b][(k - 1) \div WordLen] \in Words
      BY <1>1, <1>3 DEF TypeOK
    <2>2. mac[b] \in [1 .. ENET_ADDR_LENGTH -> Octets]
      BY DEF TypeOK, Addrs
    <2>3. QED
      BY <1>1, <1>2, <1>3, <2>1, <2>2
  <1> HIDE DEF Octets
  <1>4. Copied(b) \in [1 .. ENET_ADDR_LENGTH -> Octets]
    BY <1>3 DEF Copied
  <1>5. QED
    BY <1>4 DEF Addrs, Octets

-----------------------------------------------------------------------------
\* The inductive invariant: IInv with what the buffers' registers say.
Inv == IInv /\ PollsEnd /\ PingMacKept

LEMMA InitInvariant == Init => Inv
  <1> SUFFICES ASSUME Init PROVE Inv
    OBVIOUS
  <1>1. buf \in [Buffers -> [0 .. BufWords - 1 -> Words]]
    BY DEF Init
  <1>2. mac \in [Buffers -> Addrs] /\ programmed = mac["ping"] /\ programmed \in Addrs
    <2>1. Zero[1] \in {Zero[k] : k \in 1 .. WordLen}
      OBVIOUS
    <2>2. Zero[1] \in UNION {{w[k] : k \in 1 .. WordLen} : w \in Words}
      BY <2>1
    <2>3. [k \in 1 .. ENET_ADDR_LENGTH |-> Zero[1]] \in Addrs
      BY <2>2 DEF Addrs
    <2>4. QED
      BY <2>3 DEF Init, Buffers
  <1>3. phy_regs \in [PhyAddrs -> [MiiRegs -> SUBSET Flags]]
    BY DEF Init
  <1>4. TypeOK
    BY <1>1, <1>2, <1>3 DEF Init, TypeOK
  <1>5. OnePhy /\ ResetSelfClears /\ Detectable /\ NotYet
    BY DEF Init, OnePhy, ResetSelfClears, Detectable, NotYet
  <1>6. PollsEnd
    BY DEF Init, PollsEnd, Buffers
  <1>7. QED
    BY <1>2, <1>4, <1>5, <1>6 DEF Inv, IInv, PingMacKept

\* The actions of the buffers leave the registers of the PHYs alone.
LEMMA TxKeepsPhys ==
    ASSUME OnePhy, ResetSelfClears, Detectable, NotYet, UNCHANGED <<phy_regs, inited>>
    PROVE  OnePhy' /\ ResetSelfClears' /\ Detectable' /\ NotYet'
  BY DEF OnePhy, ResetSelfClears, Detectable, NotYet

LEMMA StartTxInvariant ==
    ASSUME Inv, NEW b \in Buffers, NEW bits \in TsrValues, StartTx(b, bits)
    PROVE  Inv'
  <1>1. Copied(b) \in Addrs
    BY CopiedType DEF Inv, IInv
  <1>2. OnePhy' /\ ResetSelfClears' /\ Detectable' /\ NotYet'
    BY TxKeepsPhys DEF Inv, IInv, StartTx, mdioVars
  <1>3. TypeOK'
    <2>1. /\ halted' \in {"no", "overrun"} /\ programmed' \in Addrs
          /\ mac' \in [Buffers -> Addrs] /\ tsr' \in [Buffers -> SUBSET UNION TsrValues]
      <3>1. bits \in SUBSET UNION TsrValues /\ halted = "no"
        BY DEF StartTx
      <3>2. /\ tsr \in [Buffers -> SUBSET UNION TsrValues] /\ mac \in [Buffers -> Addrs]
            /\ programmed \in Addrs
        BY DEF Inv, IInv, TypeOK
      <3>3. QED
        BY <1>1, <3>1, <3>2 DEF StartTx
    <2>2. UNCHANGED <<buf, tplr, mdioVars>>
      BY DEF StartTx
    <2>3. QED
      BY <2>1, <2>2 DEF Inv, IInv, TypeOK, mdioVars
  <1>4. PollsEnd'
    <2> SUFFICES ASSUME halted' = "no" PROVE PollsEnd'
      BY DEF PollsEnd
    <2>1. /\ MDIOSTS \cap mdioctrl' = {}
          /\ \A c \in Buffers : PROGRAM \cap tsr[c] = {}
          /\ XMIT_BUSY \cap tsr["pong"] = {}
          /\ tsr \in [Buffers -> SUBSET UNION TsrValues]
      BY DEF Inv, IInv, TypeOK, PollsEnd, StartTx, mdioVars
    <2>2. CASE bits \cap Trigger(b) = {}
      BY <2>1, <2>2 DEF StartTx, PollsEnd, Trigger, PROGRAM, XMIT_BUSY, PROG_MAC_ADDR, Buffers
    <2>3. CASE bits \cap Trigger(b) # {}
      <3>1. tsr' = [tsr EXCEPT ![b] = bits \ PROG_MAC_ADDR]
        BY <2>3 DEF StartTx
      <3>2. QED
        BY <2>1, <3>1 DEF PollsEnd, PROGRAM, XMIT_BUSY, PROG_MAC_ADDR, Buffers
    <2>4. QED
      BY <2>2, <2>3
  <1>5. PingMacKept'
    <2> SUFFICES ASSUME halted' = "no" PROVE mac'["ping"] = programmed'
      BY DEF PingMacKept
    <2>1. mac["ping"] = programmed /\ mac \in [Buffers -> Addrs]
      BY DEF Inv, IInv, TypeOK, PingMacKept, StartTx
    <2>2. CASE b = "ping"
      BY <2>1, <2>2 DEF StartTx, Trigger, PROGRAM, Buffers
    <2>3. CASE b # "ping"
      BY <2>1, <2>3 DEF StartTx, Buffers
    <2>4. QED
      BY <2>2, <2>3
  <1>6. QED
    BY <1>2, <1>3, <1>4, <1>5 DEF Inv, IInv

\* What a transaction leaves, whether it ends or fails its assertion.
LEMMA MdioCtrlPhys ==
    ASSUME Inv, NEW bits \in CtrlValues, WriteMdioCtrl(bits)
    PROVE  /\ phy_regs' \in [PhyAddrs -> [MiiRegs -> SUBSET Flags]]
           /\ mdiord' \subseteq Flags
           /\ OnePhy' /\ ResetSelfClears' /\ Detectable' /\ NotYet'
  <1>1. mdiowr \ High \in SUBSET Flags
    BY DEF Inv, IInv, TypeOK, Flags
  <1>2. mdioaddr.phy \in PhyAddrs /\ mdioaddr.reg \in MiiRegs
    BY DEF Inv, IInv, TypeOK
  <1>3. CASE MDIOSTS \cap bits = {}
    BY <1>3, TxKeepsPhys DEF Inv, IInv, TypeOK, WriteMdioCtrl
  <1>4. CASE MDIOSTS \cap bits # {} /\ phy_regs' = Initialised
    <2>1. inited' = TRUE /\ (mdiord' = mdiord \/ mdiord' = Initialised[mdioaddr.phy][mdioaddr.reg])
      BY <1>4 DEF WriteMdioCtrl, MiiWrite, MiiRead, Selected
    <2>2. mdiord' \subseteq Flags
      BY <1>2, <2>1, FoundOK DEF Inv, IInv, TypeOK
    <2>3. QED
      BY <1>4, <2>1, <2>2, FoundOK DEF Inv, OnePhy, ResetSelfClears, Detectable, NotYet
  <1>5. CASE MDIOSTS \cap bits # {} /\ phy_regs' = BmcrWritten(Initialised, mdiowr \ High)
                                   /\ mdioaddr.op = "write" /\ mdiord' = mdiord
    <2>1. inited' = TRUE
      BY <1>5 DEF WriteMdioCtrl
    <2> DEFINE after == BmcrWritten(Initialised, mdiowr \ High)
    <2>2. /\ after \in [PhyAddrs -> [MiiRegs -> SUBSET Flags]]
          /\ \A p \in PhyAddrs \ {ACTIVE_PHY} : after[p] = [r \in MiiRegs |-> {}]
          /\ "RESET" \notin after[ACTIVE_PHY]["BMCR"]
          /\ PHY_DETECT_MASK \subseteq after[ACTIVE_PHY]["BMSR"]
      BY <1>1, WrittenOK DEF Inv
    <2> HIDE DEF after
    <2>3. phy_regs' = after
      BY <1>5 DEF after
    <2>4. QED
      BY <1>5, <2>1, <2>2, <2>3 DEF Inv, IInv, TypeOK, OnePhy, ResetSelfClears, Detectable, NotYet
  <1>6. QED
    BY <1>3, <1>4, <1>5 DEF WriteMdioCtrl, MiiWrite, MiiRead

LEMMA NextInvariant == Inv /\ [Next]_vars => Inv'
  <1> SUFFICES ASSUME Inv, [Next]_vars PROVE Inv'
    OBVIOUS
  <1>1. TypeOK /\ OnePhy /\ ResetSelfClears /\ Detectable /\ NotYet
    BY DEF Inv, IInv
  <1>2. ASSUME NEW b \in Buffers, NEW addr \in 0 .. WordLen * BufWords - 1, NEW word \in Words,
               WriteBuffer(b, addr, word)
        PROVE  Inv'
    <2>1. TypeOK'
      BY <1>1, <1>2 DEF TypeOK, WriteBuffer, mdioVars
    <2>2. OnePhy' /\ ResetSelfClears' /\ Detectable' /\ NotYet'
      BY <1>1, <1>2, TxKeepsPhys DEF WriteBuffer, mdioVars
    <2>3. QED
      BY <1>2, <2>1, <2>2 DEF Inv, IInv, WriteBuffer, mdioVars, PollsEnd, PingMacKept
  <1>3. ASSUME NEW b \in Buffers, NEW len \in Lengths, WriteTplr(b, len) PROVE Inv'
    <2>1. TypeOK'
      BY <1>1, <1>3 DEF TypeOK, WriteTplr, mdioVars
    <2>2. OnePhy' /\ ResetSelfClears' /\ Detectable' /\ NotYet'
      BY <1>1, <1>3, TxKeepsPhys DEF WriteTplr, mdioVars
    <2>3. QED
      BY <1>3, <2>1, <2>2 DEF Inv, IInv, WriteTplr, mdioVars, PollsEnd, PingMacKept
  <1>4. ASSUME NEW b \in Buffers, NEW bits \in TsrValues, StartTx(b, bits) PROVE Inv'
    BY <1>4, StartTxInvariant
  <1>5. ASSUME NEW a \in MdioAddrs, WriteMdioAddr(a) PROVE Inv'
    <2>1. TypeOK' /\ OnePhy' /\ ResetSelfClears' /\ Detectable' /\ NotYet'
      BY <1>1, <1>5, TxKeepsPhys DEF TypeOK, WriteMdioAddr, txVars
    <2>2. QED
      BY <1>5, <2>1 DEF Inv, IInv, WriteMdioAddr, txVars, PollsEnd, PingMacKept
  <1>6. ASSUME NEW v \in MdioWords, WriteMdioWr(v) PROVE Inv'
    <2>1. TypeOK' /\ OnePhy' /\ ResetSelfClears' /\ Detectable' /\ NotYet'
      BY <1>1, <1>6, TxKeepsPhys DEF TypeOK, WriteMdioWr, txVars
    <2>2. QED
      BY <1>6, <2>1 DEF Inv, IInv, WriteMdioWr, txVars, PollsEnd, PingMacKept
  <1>7. ASSUME NEW bits \in CtrlValues, WriteMdioCtrl(bits) PROVE Inv'
    <2>1. UNCHANGED <<txVars, mdioaddr, mdiowr>> /\ inited' \in BOOLEAN
          /\ mdioctrl' \subseteq UNION CtrlValues /\ halted' \in {"no", "fault", "overrun"}
      BY <1>1, <1>7 DEF WriteMdioCtrl, TypeOK
    <2>2. TypeOK'
      BY <1>1, <1>7, <2>1, MdioCtrlPhys DEF TypeOK, txVars
    <2>3. PollsEnd' /\ PingMacKept'
      BY <1>7, <2>1 DEF WriteMdioCtrl, Inv, txVars, PollsEnd, PingMacKept, MDIOSTS
    <2>4. QED
      BY <1>7, <2>2, <2>3, MdioCtrlPhys DEF Inv, IInv
  <1>8. CASE Refused \/ UNCHANGED vars
    <2>1. UNCHANGED <<txVars, mdioVars>> /\ (halted' = "fault" \/ halted' = halted)
      BY <1>8 DEF Refused, vars
    <2>2. TypeOK' /\ OnePhy' /\ ResetSelfClears' /\ Detectable' /\ NotYet'
      BY <1>1, <2>1, TxKeepsPhys DEF TypeOK, txVars, mdioVars
    <2>3. QED
      BY <2>1, <2>2 DEF Inv, IInv, txVars, mdioVars, PollsEnd, PingMacKept
  <1>9. QED
    BY <1>2, <1>3, <1>4, <1>5, <1>6, <1>7, <1>8 DEF Next

LEMMA AllInvariant == Spec => []Inv
  BY InitInvariant, NextInvariant, PTL DEF Spec

\* One PHY has contents, its reset bit clears itself and it can be detected
\* from the first transaction on (mac.c:256-293).
THEOREM Invariance == Spec => []IInv
  <1>1. Inv => IInv
    BY DEF Inv
  <1>2. QED
    BY <1>1, AllInvariant, PTL

\* No polling loop of a driver meets a busy bit (mac.c:331, 338, 363).
THEOREM Polls == Spec => []PollsEnd
  <1>1. Inv => PollsEnd
    BY DEF Inv
  <1>2. QED
    BY <1>1, AllInvariant, PTL

\* A transmission from PING does not change its MAC address (mac.c:329).
THEOREM PingKept == Spec => []PingMacKept
  <1>1. Inv => PingMacKept
    BY DEF Inv
  <1>2. QED
    BY <1>1, AllInvariant, PTL

-----------------------------------------------------------------------------
\* The refinement of Mii.
LEMMA RefinesInit == Init => Phy!Init
  BY DEF Init, Phy!Init

LEMMA RefinesMdioCtrl ==
    ASSUME Inv, NEW bits \in CtrlValues, WriteMdioCtrl(bits)
    PROVE  Phy!Next \/ UNCHANGED Phy!vars
  <1> DEFINE regs == IF inited THEN phy_regs[ACTIVE_PHY] ELSE PowerOn
  <1>1. /\ Initialised[ACTIVE_PHY] = regs
        /\ \A p \in PhyAddrs \ {ACTIVE_PHY} : Initialised[p] = [r \in MiiRegs |-> {}]
        /\ mdioaddr.phy \in PhyAddrs /\ mdioaddr.reg \in MiiRegs
        /\ mdiowr \ High \in {v \ High : v \in MdioWords \cup {{}}}
    BY FoundOK DEF Inv, IInv, TypeOK
  <1>2. halted = "no"
    BY DEF WriteMdioCtrl
  <1>3. CASE MDIOSTS \cap bits = {}
    BY <1>3 DEF WriteMdioCtrl, Phy!vars
  <1>4. CASE MDIOSTS \cap bits # {} /\ ~Unsupported /\ MiiRead
    <2>1. inited' = TRUE /\ halted' = "no" /\ phy_regs'[ACTIVE_PHY] = regs
          /\ mdiord' = Initialised[mdioaddr.phy][mdioaddr.reg]
      BY <1>1, <1>2, <1>4 DEF WriteMdioCtrl, MiiRead, Selected
    <2>2. mdiord' = IF mdioaddr.phy = ACTIVE_PHY THEN regs[mdioaddr.reg] ELSE {}
      BY <1>1, <2>1
    <2>3. Phy!Read
      BY <1>1, <1>2, <2>1, <2>2 DEF Phy!Read
    <2>4. QED
      BY <1>2, <2>3 DEF Phy!Next
  <1>5. CASE MDIOSTS \cap bits # {} /\ ~Unsupported /\ MiiWrite
    <2>1. inited' = TRUE /\ halted' = "no" /\ mdiord' = mdiord
      BY <1>2, <1>5 DEF WriteMdioCtrl, MiiWrite
    <2>2. CASE mdioaddr.phy # ACTIVE_PHY
      BY <1>1, <1>2, <1>5, <2>1, <2>2 DEF MiiWrite, Phy!vars
    <2>3. CASE mdioaddr.phy = ACTIVE_PHY
      <3>1. mdiowr \ High \in SUBSET Flags
        BY DEF Inv, IInv, TypeOK, Flags
      <3>2. phy_regs' = BmcrWritten(Initialised, mdiowr \ High)
        BY <1>5, <2>3 DEF MiiWrite
      <3>3. phy_regs'[ACTIVE_PHY] =
                IF "RESET" \in mdiowr \ High
                THEN [regs EXCEPT !["BMSR"] = @ \cup LinkUp]
                ELSE [regs EXCEPT !["BMCR"] = mdiowr \ High]
        <4>1. BmcrWritten(Initialised, mdiowr \ High)[ACTIVE_PHY] =
                  IF "RESET" \in mdiowr \ High
                  THEN [Initialised[ACTIVE_PHY] EXCEPT !["BMSR"] = @ \cup LinkUp]
                  ELSE [Initialised[ACTIVE_PHY] EXCEPT !["BMCR"] = mdiowr \ High]
          BY <3>1, WrittenOK DEF Inv
        <4>2. Initialised[ACTIVE_PHY] = regs
          BY <1>1
        <4> HIDE DEF regs
        <4>3. QED
          BY <3>2, <4>1, <4>2, Zenon
      <3>4. CASE "RESET" \in mdiowr \ High
        BY <1>2, <2>1, <3>3, <3>4 DEF Phy!Reset, Phy!Next
      <3>5. CASE "RESET" \notin mdiowr \ High
        <4>1. Phy!Configure
          BY <1>1, <1>2, <2>1, <3>3, <3>5 DEF Phy!Configure
        <4>2. QED
          BY <1>2, <4>1 DEF Phy!Next
      <3>6. QED
        BY <3>4, <3>5
    <2>4. QED
      BY <2>2, <2>3
  <1>6. CASE MDIOSTS \cap bits # {} /\ Unsupported
    <2>1. inited' = TRUE /\ halted' = "fault" /\ mdiord' = mdiord /\ phy_regs' = Initialised
      BY <1>6 DEF WriteMdioCtrl, Unsupported, MiiWrite, MiiRead
    <2>2. QED
      BY <1>1, <1>2, <2>1 DEF Phy!Stop, Phy!Next
  <1>7. QED
    BY <1>3, <1>4, <1>5, <1>6 DEF WriteMdioCtrl

LEMMA RefinesNext == Inv /\ [Next]_vars => [Phy!Next]_(Phy!vars)
  <1> SUFFICES ASSUME Inv, [Next]_vars PROVE Phy!Next \/ UNCHANGED Phy!vars
    OBVIOUS
  <1>1. ASSUME NEW b \in Buffers, NEW addr \in 0 .. WordLen * BufWords - 1, NEW word \in Words,
               WriteBuffer(b, addr, word)
        PROVE  UNCHANGED Phy!vars
    BY <1>1 DEF WriteBuffer, mdioVars, Phy!vars
  <1>2. ASSUME NEW b \in Buffers, NEW len \in Lengths, WriteTplr(b, len)
        PROVE  UNCHANGED Phy!vars
    BY <1>2 DEF WriteTplr, mdioVars, Phy!vars
  <1>3. ASSUME NEW b \in Buffers, NEW bits \in TsrValues, StartTx(b, bits)
        PROVE  Phy!Next \/ UNCHANGED Phy!vars
    BY <1>3 DEF StartTx, mdioVars, Phy!vars, Phy!Next, Phy!Stop
  <1>4. ASSUME NEW a \in MdioAddrs, WriteMdioAddr(a) PROVE UNCHANGED Phy!vars
    BY <1>4 DEF WriteMdioAddr, Phy!vars
  <1>5. ASSUME NEW v \in MdioWords, WriteMdioWr(v) PROVE UNCHANGED Phy!vars
    BY <1>5 DEF WriteMdioWr, Phy!vars
  <1>6. ASSUME NEW bits \in CtrlValues, WriteMdioCtrl(bits) PROVE Phy!Next \/ UNCHANGED Phy!vars
    BY <1>6, RefinesMdioCtrl
  <1>7. CASE Refused
    BY <1>7 DEF Refused, mdioVars, Phy!Next, Phy!Stop
  <1>8. CASE UNCHANGED vars
    BY <1>8 DEF vars, mdioVars, Phy!vars
  <1>9. QED
    BY <1>1, <1>2, <1>3, <1>4, <1>5, <1>6, <1>7, <1>8 DEF Next

\* The transactions are those of a PHY that has its contents from the start
\* (mac.c:255-293).
THEOREM ImplementsPhy == Spec => ImplementsMii
  BY RefinesInit, RefinesNext, AllInvariant, PTL DEF Spec, ImplementsMii, Phy!Spec

-----------------------------------------------------------------------------
\* A scan finds the active PHY and no other, in every state (mac.c:291).
THEOREM Scan == Spec => ScanFindsPhy
  <1>1. ASSUME Inv, [Next]_vars, NEW a \in MdioAddrs, mdioaddr = a, a.op = "read", a.reg = "BMSR",
               NEW bits \in CtrlValues, MDIOSTS \subseteq bits, WriteMdioCtrl(bits)
        PROVE  PHY_DETECT_MASK \subseteq mdiord' <=> a.phy = ACTIVE_PHY
    <2>1. mdiord' = Initialised[a.phy]["BMSR"]
      <3>1. MDIOSTS \cap bits # {}
        BY <1>1 DEF MDIOSTS
      <3>2. QED
        BY <1>1, <3>1 DEF WriteMdioCtrl, Unsupported, MiiWrite, MiiRead, Selected
    <2>2. a.phy \in PhyAddrs /\ "BMSR" \in MiiRegs
      BY <1>1
    <2>3. CASE a.phy = ACTIVE_PHY
      BY <1>1, <2>1, <2>3, FoundOK DEF Inv
    <2>4. CASE a.phy # ACTIVE_PHY
      <3>1. mdiord' = {}
        BY <1>1, <2>1, <2>2, <2>4, FoundOK DEF Inv
      <3>2. QED
        BY <2>4, <3>1 DEF PHY_DETECT_MASK
    <2>5. QED
      BY <2>3, <2>4
  <1> DEFINE Found == \A a \in MdioAddrs :
                        (/\ mdioaddr = a /\ a.op = "read" /\ a.reg = "BMSR"
                         /\ \E bits \in CtrlValues : MDIOSTS \subseteq bits /\ WriteMdioCtrl(bits))
                        => (PHY_DETECT_MASK \subseteq mdiord' <=> a.phy = ACTIVE_PHY)
  <1>2. Inv /\ [Next]_vars => [Found]_vars
    BY <1>1
  <1> HIDE DEF Found
  <1>3. Spec => [][Found]_vars
    BY <1>2, AllInvariant, PTL DEF Spec
  <1>4. QED
    BY <1>3 DEF ScanFindsPhy, Found
=============================================================================

-------------------------------- MODULE Mii --------------------------------
(***************************************************************************)
(* What the MDIO interface of the Ethernet MAC promises to a driver: one   *)
(* PHY answers, at address Active, and it has its power-on contents from   *)
(* the first transaction on.  A reset brings the link up and clears        *)
(* itself, other writes of the control register are kept, and a register   *)
(* of any other PHY reads as Nothing.  A driver that writes another        *)
(* register of the PHY is stopped.                                         *)
(***************************************************************************)
CONSTANTS Active, PhyAddrs, MiiRegs,
          PowerOn,  \* the contents of the PHY, by register
          Values,   \* what a driver writes: sets of flags
          Nothing,  \* the empty set of flags
          LinkUp    \* what a reset adds to the status register

VARIABLES phy,      \* the registers of the PHY
          answer,   \* the result of the last read
          stopped

vars == <<phy, answer, stopped>>

Init == phy = PowerOn /\ answer = Nothing /\ stopped = FALSE

Read == /\ \E p \in PhyAddrs : \E r \in MiiRegs :
               answer' = IF p = Active THEN phy[r] ELSE Nothing
        /\ UNCHANGED <<phy, stopped>>

Reset == /\ phy' = [phy EXCEPT !["BMSR"] = @ \cup LinkUp]
         /\ UNCHANGED <<answer, stopped>>

Configure == /\ \E v \in Values : "RESET" \notin v /\ phy' = [phy EXCEPT !["BMCR"] = v]
             /\ UNCHANGED <<answer, stopped>>

Stop == /\ stopped' = TRUE
        /\ UNCHANGED <<phy, answer>>

Next == ~stopped /\ (Read \/ Reset \/ Configure \/ Stop)

Spec == Init /\ [][Next]_vars
=============================================================================

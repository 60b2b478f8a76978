------------------------------- MODULE MCMac -------------------------------
(***************************************************************************)
(* A small instance of Mac for TLC: buffers of two words of two bytes, MAC *)
(* addresses of three, which end within a word as the six of the source    *)
(* do; the lengths none, right and one too long; two PHY addresses, of     *)
(* which one answers.                                                      *)
(***************************************************************************)
EXTENDS Mac

MCZero  == <<0, 0>>
MCWords == {MCZero, <<1, 1>>}

MCMiiRegs == {"BMCR", "BMSR", "PHYSID1", "PHYSID2", "ADVERTISE", "LPA", "LBRERROR"}
MCMdioAddrs == [phy : {0, 1}, reg : {"BMCR"}, op : {"write"}]
                  \cup [phy : {0, 1}, reg : {"BMSR"}, op : {"read"}]
                  \cup [phy : {1}, reg : {"BMSR"}, op : {"write"}]

MCMdioWords  == {{}, {"RESET", "HIGH"}}
MCTsrValues  == SUBSET {"BUSY", "PROGRAM"}
MCCtrlValues == {{"EN"}, {"STS"}}
=============================================================================

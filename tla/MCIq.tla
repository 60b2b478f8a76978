-------------------------------- MODULE MCIq --------------------------------
(***************************************************************************)
(* A small instance of Iq for TLC.  Three elements: the ring wraps after   *)
(* three instructions, so every element is overwritten many times.         *)
(***************************************************************************)
EXTENDS Iq
=============================================================================

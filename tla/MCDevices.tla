----------------------------- MODULE MCDevices -----------------------------
(***************************************************************************)
(* A small instance of Devices for TLC: a key with a byte and two codes    *)
(* and a key with neither; queues that are soon full; two alarms for each  *)
(* frame, and a jiffy that wraps with each; two pixels of video memory     *)
(* side by side, a row that is no column, and eight of the window.         *)
(***************************************************************************)
EXTENDS Devices, TLC

CONSTANTS a, p

MCEvents  == {[kind |-> "down", key |-> a], [kind |-> "up", key |-> a],
              [kind |-> "up", key |-> p], [kind |-> "quit"], None}
MCBytesOf == (a :> <<"a">>) @@ (p :> <<>>)
MCCodeOf  == [down |-> (a :> 28) @@ (p :> 0), up |-> (a :> 61468) @@ (p :> 0)]
=============================================================================

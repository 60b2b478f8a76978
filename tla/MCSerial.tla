------------------------------ MODULE MCSerial ------------------------------
(***************************************************************************)
(* A small instance of Serial for TLC: a ring of four slots, so of three   *)
(* bytes, a key of one byte, a key with an escape sequence of three bytes, *)
(* and a key without bytes (the shift keys).                               *)
(***************************************************************************)
EXTENDS Serial

MCKeys == {"a", "up", "shift"}
MCChars == {"a", "esc", "[", "A"}
MCAscii == [key \in MCKeys |-> CASE key = "a"     -> <<"a">>
                                 [] key = "up"    -> <<"esc", "[", "A">>
                                 [] key = "shift" -> <<>>]
=============================================================================

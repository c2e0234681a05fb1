------------------------------ MODULE MCKeypress ------------------------------
(* Delays of no, one and three seconds and a negative one, in an int of    *)
(* eight values; two keys of every kind.                                   *)
EXTENDS Keypress

MCDelays == {0, 1, 3, -2}
AnyKey == {"nul", "eof", "key"}
===============================================================================

------------------------------- MODULE MCCliTree -------------------------------
(* Names of up to two letters, one of them the beginning of two others;    *)
(* commands for everyone, for the privileged, and for the configuration    *)
(* mode (1), which a submode (2) is left for.                              *)
EXTENDS CliTree

MCNames == {<<"s">>, <<"s", "e">>, <<"s", "h">>, <<"c">>}
MCWords == MCNames \cup {<<"S">>, <<"S", "e">>, <<"C", "h">>}
Right(p, md) == [privilege |-> p, mode |-> md]
MCRights == {Right(0, AnyMode), Right(15, 0), Right(15, ConfigMode)}
MCUsers == {Right(0, 0), Right(15, 0), Right(15, ConfigMode), Right(15, 2)}
MCLower(c) == IF c = "S" THEN "s" ELSE IF c = "C" THEN "c" ELSE c
===============================================================================

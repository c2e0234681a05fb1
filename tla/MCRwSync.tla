------------------------------- MODULE MCRwSync -------------------------------
(* RwSync on a partition of four blocks: versions of the files that fit    *)
(* beside a backup, only without one, and not at all.                      *)
EXTENDS RwSync

MCSize ==
  [v \in 0..MaxEdits + 1 |-> CASE v = 2 -> 3 [] v = 3 -> 5 [] OTHER -> 1]
===============================================================================

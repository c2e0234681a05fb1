-------------------------- MODULE MCKexecSegments --------------------------
(* Memory maps in units small enough to enumerate: a page is 4 bytes.      *)
EXTENDS KexecSegments

R(s, e, t) == [start |-> s, end |-> e, type |-> t]

(* As on a PC: low RAM that ends inside a page, a reserved range, high RAM. *)
PCRanges == <<R(1, 18, "RAM"), R(18, 20, "reserved"), R(20, 41, "RAM")>>
Fix(buf, b, m) == [bufsz |-> buf, base |-> b, memsz |-> m]
Float(m, a, lo, hi, d) ==
  [bufsz |-> 3, memsz |-> m, align |-> a, min |-> lo, max |-> hi, dir |-> d]

(* Data larger than its memory, an empty segment, a bad base, an overlap,  *)
(* a segment beyond RAM.                                                   *)
MCFixed == {Fix(9, 4, 5), Fix(3, 8, 4), Fix(1, 24, 8), Fix(1, 24, 0), Fix(1, 26, 4), Fix(1, 36, 8)}
(* Both directions, a coarse alignment, limits inside and at the end of a  *)
(* range, sizes around a page, an empty buffer.                            *)
MCFloating ==
  {Float(4, 0, 0, 40, 1), Float(8, 8, 5, 60, -1), Float(3, 0, 5, 18, -1),
   Float(1, 0, 0, 18, -1), Float(8, 0, 21, 60, 1), Float(11, 0, 0, 60, 1),
   Float(0, 0, 37, 40, 1)}

(* The map and the requests are ones the theorems apply to.                *)
ASSUME MapAssumption ==
  RamFits /\ RamApart /\ \A r \in Floating : RoundsUp(r.min, r.align)
============================================================================

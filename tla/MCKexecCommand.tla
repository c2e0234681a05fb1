--------------------------- MODULE MCKexecCommand ---------------------------
(* KexecCommand with two kernels around purgatory whose segments end       *)
(* before, at and after the ends of a block, of null_buf and of the room   *)
(* for the length, and one kernel without purgatory.                       *)
EXTENDS KexecCommand

Segment(mem, n, pad) ==
  [mem |-> mem, buf |-> [i \in 1..n |-> (mem + i) % ByteSize], memsz |-> n + pad]

MCKernels ==
  {[name |-> "small", types |-> {"elf"}, purgatory |-> 2,
    segments |-> <<Segment(1, 5, 0), Segment(2, 3, 1), Segment(3, 2, 2), Segment(4, 1, 0)>>],
   [name |-> "padded", types |-> {"elf"}, purgatory |-> 1,
    segments |-> <<Segment(1, 4, 0), Segment(2, 3, 9), Segment(3, 4, 8), Segment(4, 0, 3)>>],
   [name |-> "plain", types |-> {"bzImage", "elf"}, purgatory |-> 0,
    segments |-> <<Segment(1, 2, 2)>>]}

(* Up to three different options that set flags, in every order, and each  *)
(* of the others before and after one of them.                             *)
Flag == {[opt |-> o, arg |-> ""] : o \in {"x", "f", "l", "u", "e", "p"}}
Other == {[opt |-> o, arg |-> "bzImage"] : o \in {"t", "h", "bad mem", "bad serial"}}
MCCommandLines ==
  UNION {{s \in [1..n -> Flag] : Cardinality({s[i] : i \in 1..n}) = n} : n \in 0..3}
    \cup [1..1 -> Other]
    \cup {<<f, o>> : f \in Flag, o \in Other} \cup {<<o, f>> : f \in Flag, o \in Other}
    \cup {<<[opt |-> "u", arg |-> ""], f, [opt |-> "bad serial", arg |-> ""]>> : f \in Flag}
MCFileTypes == <<"elf", "bzImage">>
MCInterfaces == <<"eth", "lo", "shaper", "alias">>
==============================================================================

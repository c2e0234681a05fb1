---------------------------- MODULE KexecSegments ----------------------------
(***************************************************************************)
(* How kexec -l places a kernel in physical memory (kexec.c): the loaders  *)
(* ask for segments at fixed addresses (add_segment) or wherever there is  *)
(* room (add_buffer, locate_hole), and my_load verifies, sorts and hands   *)
(* the list to the kernel.                                                 *)
(*                                                                         *)
(* Abstractions.  A loader is any sequence of requests; the contents of a  *)
(* buffer are left out, its size is kept.  The kernel (external) accepts   *)
(* or refuses what it is given.  An unsigned long holds 0 .. Word - 1.     *)
(***************************************************************************)
EXTENDS Integers, Sequences, FiniteSets

CONSTANTS
  Page,         \* getpagesize()
  Word,         \* ULONG_MAX + 1
  Ranges,       \* what get_memory_ranges returns, ends exclusive
  MemMin,       \* --mem-min
  MemMax,       \* --mem-max
  Fixed,        \* requests to add_segment
  Floating,     \* requests to add_buffer
  MaxSegments   \* bound: segments a loader adds

MemoryRange == [start: Nat, end: Nat, type: {"RAM", "reserved"}]
ULong == 0..Word - 1
FixedRequest == [bufsz: ULong, base: ULong, memsz: ULong]
FloatingRequest ==
  [bufsz: ULong, memsz: ULong, align: ULong, min: ULong, max: ULong, dir: {-1, 1}]

ASSUME PageAssumption ==
  Page \in Nat \ {0} /\ Word \in Nat /\ Word > Page /\ Word % Page = 0
ASSUME RangesAssumption == Ranges \in Seq(MemoryRange)
ASSUME LimitsAssumption == MemMin \in Nat /\ MemMax \in Nat /\ MaxSegments \in Nat
ASSUME RequestsAssumption ==
  Fixed \subseteq FixedRequest /\ Floating \subseteq FloatingRequest

VARIABLES
  segment,  \* info.segment
  phase,    \* where my_load is
  died,     \* why die() ended the process, or "no"
  request,  \* the request that found no hole, or one that is refused
  staged    \* the segments the running kernel holds, <<>> for none

vars == <<segment, phase, died, request, staged>>

KexecMaxSegments == 8
Segment == [mem: Nat, memsz: Nat, bufsz: Nat]
NoRequest == [bufsz |-> 0, memsz |-> 0, align |-> 0, min |-> 0, max |-> 0, dir |-> 1]

(* Every variable keeps its type.                                          *)
TypeOK ==
  /\ segment \in Seq(Segment)
  /\ phase \in {"load", "verify", "sort", "kexec_load", "ended"}
  /\ died \in {"no", "misaligned", "invalid", "overlap", "no hole", "bad hole"}
  /\ request \in FloatingRequest
  /\ staged \in Seq(Segment)

Init ==
  /\ segment = <<>> /\ phase = "load" /\ died = "no" /\ request = NoRequest
  /\ staged = <<>>

-----------------------------------------------------------------------------
(* Arithmetic of the code *)

AlignUp(n, a) == ((n + (a - 1)) \div a) * a
AlignDown(n, a) == (n \div a) * a

(* An unsigned long after one addition or subtraction.                     *)
Wrap(n) == IF n < 0 THEN n + Word ELSE IF n >= Word THEN n - Word ELSE n

(* The ranges as kexec.c reads them, into an unsigned long.                *)
MStart(i) == Ranges[i].start % Word
MEnd(i) == Ranges[i].end % Word
Ram == {i \in DOMAIN Ranges : Ranges[i].type = "RAM"}

End(s) == s.mem + s.memsz

(* Seeded fault: the upper end of a range is not looked at.                *)
ValidMemoryRangeStartOnly(sstart, send) ==
  /\ sstart <= send
  /\ send <= MemMax /\ sstart >= MemMin
  /\ \E i \in Ram : MStart(i) <= sstart /\ MEnd(i) >= sstart

ValidMemoryRange(sstart, send) ==
  /\ sstart <= send
  /\ send <= MemMax /\ sstart >= MemMin
  /\ \E i \in Ram : MStart(i) <= sstart /\ MEnd(i) >= send

ValidMemorySegment(s) == ValidMemoryRange(s.mem, Wrap(End(s) - 1))

-----------------------------------------------------------------------------
(* sort_segments *)

(* The selection sort: a permutation in the order of mem.  Which of two    *)
(* segments at one address comes first is left open; they overlap anyway.  *)
Sorted(s) == \A i, j \in DOMAIN s : i < j => s[i].mem <= s[j].mem
Arrangements(s) ==
  {p \in [DOMAIN s -> DOMAIN s] : \A i, j \in DOMAIN s : p[i] = p[j] => i = j}
SortedForms(s) ==
  {t \in {[i \in DOMAIN s |-> s[p[i]]] : p \in Arrangements(s)} : Sorted(t)}

(* The check that follows the sort: each segment against its predecessor.  *)
Overlapping(t) == \E i \in DOMAIN t : i > 1 /\ End(t[i - 1]) > t[i].mem

-----------------------------------------------------------------------------
(* locate_hole *)

(* The segments the merge consumes while it is at range i.                 *)
Consumed(t, i) ==
  {j \in DOMAIN t : t[j].mem <= MEnd(i) /\ \A k \in Ram : k < i => t[j].mem > MEnd(k)}

(* Seeded fault: mstart is not moved past a segment.                       *)
FreeFromStart(t, i, j) == MStart(i)

(* Where the free memory of range i begins after segment j - 1.            *)
FreeFrom(t, i, j) == IF j - 1 \in Consumed(t, i) THEN End(t[j - 1]) ELSE MStart(i)
LastConsumed(t, i) ==
  {j \in Consumed(t, i) : \A k \in Consumed(t, i) : k <= j}

(* The gap before a consumed segment, and what is left after the last one. *)
Gaps(t, i) ==
  {[start |-> FreeFrom(t, i, j), end |-> t[j].mem - 1] : j \in Consumed(t, i)}
Remainder(t, i) ==
  IF Consumed(t, i) = {} THEN {[start |-> MStart(i), end |-> MEnd(i)]}
  ELSE {[start |-> End(t[j]), end |-> MEnd(i)] : j \in LastConsumed(t, i)}

(* Seeded fault: the merge does not skip the ranges that are not RAM.      *)
FreeRangesAnyType(t) ==
  {p \in UNION {Gaps(t, i) \cup Remainder(t, i) : i \in DOMAIN Ranges} : p.start <= p.end}

(* The free list, which has no empty entries.                              *)
FreeRanges(t) ==
  {p \in UNION {Gaps(t, i) \cup Remainder(t, i) : i \in Ram} : p.start <= p.end}

(* A free range seen through mem_min, mem_max, hole_align and the limits   *)
(* of the request.                                                         *)
Greater(a, b) == IF a > b THEN a ELSE b
Lesser(a, b) == IF a < b THEN a ELSE b
HoleAlign(r) == Greater(r.align, Page)
(* The mask is an unsigned long: a start that rounds up to its end is 0.   *)
HoleStart(p, r) ==
  LET up == AlignUp(Greater(p.start, Greater(MemMin, r.min)), HoleAlign(r))
  IN IF up < Word THEN up ELSE 0
HoleEnd(p, r) == Lesser(p.end, Lesser(MemMax, r.max))

(* Seeded fault: a range that starts below hole_min is passed over.        *)
FitsAboveMin(p, r) ==
  /\ HoleStart(p, r) < HoleEnd(p, r)
  /\ HoleStart(p, r) < MemMax /\ HoleEnd(p, r) > MemMin
  /\ HoleEnd(p, r) - HoleStart(p, r) >= r.memsz
  /\ p.start >= r.min

Fits(p, r) ==
  /\ HoleStart(p, r) < HoleEnd(p, r)
  /\ HoleStart(p, r) < MemMax /\ HoleEnd(p, r) > MemMin
  /\ HoleEnd(p, r) - HoleStart(p, r) >= r.memsz

(* Seeded fault: the base of a downward search is aligned upwards.         *)
HoleBaseUp(p, r) ==
  IF r.dir > 0 THEN HoleStart(p, r) ELSE AlignUp(HoleEnd(p, r) - r.memsz, HoleAlign(r))

HoleBase(p, r) ==
  IF r.dir > 0 THEN HoleStart(p, r) ELSE AlignDown(HoleEnd(p, r) - r.memsz, HoleAlign(r))

(* The base locate_hole returns, as a set with no element for ULONG_MAX:   *)
(* the first range that fits, or the last for a negative hole_end.         *)
LocateHole(t, r) ==
  LET fit == {p \in FreeRanges(t) : Fits(p, r)}
      chosen == {p \in fit : \A q \in fit :
                    IF r.dir > 0 THEN p.start <= q.start ELSE p.start >= q.start}
  IN {b \in {HoleBase(p, r) : p \in chosen} : b + r.memsz <= r.max}

-----------------------------------------------------------------------------
(* The loaders' requests *)

Die(reason) == phase' = "ended" /\ died' = reason

RoundedSize(memsz) == AlignDown(Wrap(memsz + (Page - 1)), Page)

NewSegment(bufsz, base, memsz) ==
  [mem |-> base, memsz |-> RoundedSize(memsz), bufsz |-> Lesser(bufsz, memsz)]

(* The tail of add_segment and add_buffer: an empty segment is forgotten,  *)
(* a bad one ends the process.                                             *)
Place(t, bufsz, base, memsz, reason) ==
  \/ /\ memsz = 0
     /\ segment' = t /\ UNCHANGED <<phase, died>>
  \/ /\ memsz > 0 /\ base % Page # 0
     /\ segment' = t /\ Die("misaligned")
  \/ /\ memsz > 0 /\ base % Page = 0
     /\ ~ValidMemorySegment(NewSegment(bufsz, base, memsz))
     /\ segment' = t /\ Die(reason)
  \/ /\ memsz > 0 /\ base % Page = 0
     /\ ValidMemorySegment(NewSegment(bufsz, base, memsz))
     /\ segment' = Append(t, NewSegment(bufsz, base, memsz))
     /\ UNCHANGED <<phase, died>>

AddSegment(r) ==
  /\ phase = "load" /\ Len(segment) < MaxSegments
  /\ Place(segment, r.bufsz, r.base, r.memsz, "invalid")
  /\ UNCHANGED <<request, staged>>

AddBuffer(r) ==
  /\ phase = "load" /\ Len(segment) < MaxSegments
  /\ \E t \in SortedForms(segment) :
       \/ /\ Overlapping(t)
          /\ segment' = t /\ Die("overlap") /\ UNCHANGED request
       \/ /\ ~Overlapping(t) /\ LocateHole(t, r) = {}
          /\ segment' = t /\ Die("no hole") /\ request' = r
       \/ /\ ~Overlapping(t)
          /\ \E base \in LocateHole(t, r) : Place(t, r.bufsz, base, r.memsz, "bad hole")
          /\ request' = IF died' = "bad hole" THEN r ELSE request
  /\ UNCHANGED staged

(* The loader is done; arch_compat_trampoline adds no segment on i386.     *)
LoaderReturns ==
  /\ phase = "load"
  /\ phase' = "verify"
  /\ UNCHANGED <<segment, died, request, staged>>

(* No kernel, no memory map, no file type, or a loader that gave up.       *)
LoaderFails ==
  /\ phase = "load"
  /\ phase' = "ended"
  /\ UNCHANGED <<segment, died, request, staged>>

-----------------------------------------------------------------------------
(* The tail of my_load *)

Verify ==
  /\ phase = "verify"
  /\ phase' = IF \A i \in DOMAIN segment : ValidMemorySegment(segment[i])
              THEN "sort" ELSE "ended"
  /\ UNCHANGED <<segment, died, request, staged>>

(* Seeded fault: the verdict of the last sort_segments is ignored.         *)
SortUnchecked ==
  /\ phase = "sort"
  /\ segment' \in SortedForms(segment)
  /\ phase' = "kexec_load"
  /\ UNCHANGED <<died, request, staged>>

Sort ==
  /\ phase = "sort"
  /\ segment' \in SortedForms(segment)
  /\ phase' = IF Overlapping(segment') THEN "ended" ELSE "kexec_load"
  /\ UNCHANGED <<died, request, staged>>

(* kexec_load replaces the staged kernel; the kernel refuses a list that   *)
(* is too long.                                                            *)
KexecLoad ==
  /\ phase = "kexec_load"
  /\ Len(segment) <= KexecMaxSegments
  /\ staged' = segment
  /\ phase' = "ended"
  /\ UNCHANGED <<segment, died, request>>

KexecLoadFails ==
  /\ phase = "kexec_load"
  /\ phase' = "ended"
  /\ UNCHANGED <<segment, died, request, staged>>

(* kexec is run again: another load, or -u.                                *)
NextRun ==
  /\ phase = "ended"
  /\ phase' = "load" /\ segment' = <<>> /\ died' = "no" /\ request' = NoRequest
  /\ UNCHANGED staged

Unload ==
  /\ phase = "ended" /\ staged # <<>>
  /\ staged' = <<>>
  /\ UNCHANGED <<segment, phase, died, request>>

Next ==
  \/ \E r \in Fixed : AddSegment(r)
  \/ \E r \in Floating : AddBuffer(r)
  \/ LoaderReturns \/ LoaderFails \/ Verify \/ Sort \/ KexecLoad \/ KexecLoadFails
  \/ NextRun \/ Unload

Spec == Init /\ [][Next]_vars

-----------------------------------------------------------------------------
(* Properties *)

(* Two segments with no byte in common.                                    *)
Apart(s, t) == End(s) <= t.mem \/ End(t) <= s.mem
Disjoint(t) == \A i, j \in DOMAIN t : i < j => Apart(t[i], t[j])

(* Memory maps kexec.c reads as they are: no RAM above an unsigned long,   *)
(* and no range that ends one byte before a page does.                     *)
RamFits ==
  \A i \in Ram : /\ Ranges[i].start < Word /\ Ranges[i].end < Word
                 /\ (Ranges[i].end + 1) % Page # 0

(* The list the merge of locate_hole takes for granted: sorted, and with   *)
(* something between one RAM range and the next.  Of two that touch, the   *)
(* first consumes a segment at the start of the second.                    *)
RamApart == \A i, k \in Ram : i < k => MEnd(i) < MStart(k)

(* No RAM and no limit in the last hole_align bytes of the address space,  *)
(* where rounding a start up would wrap to 0 (a PC has its BIOS there).    *)
RoundsUp(min, align) ==
  \A n \in {MemMin, min} \cup {MEnd(i) : i \in Ram} : n + Greater(align, Page) <= Word

(* RAM as the machine has it: addresses above an unsigned long included,   *)
(* the end of a range not.                                                 *)
InRam(s) ==
  \E i \in Ram : Ranges[i].start <= s.mem /\ End(s) <= Ranges[i].end

(* my_load's verification and add_segment's rounding: what the kernel has  *)
(* been given to boot are whole pages of RAM with room for the data, or    *)
(* update_purgatory's nullsz would wrap, whatever the loaders asked for.   *)
StagedInRam ==
  \A i \in DOMAIN staged :
    /\ InRam(staged[i])
    /\ staged[i].mem % Page = 0 /\ staged[i].memsz % Page = 0
    /\ staged[i].bufsz <= staged[i].memsz

(* my_load's sort_segments: no segment the kernel has been given           *)
(* overwrites another, whatever the loaders asked for.                     *)
StagedDisjoint == Disjoint(staged)

(* locate_hole: a buffer is never placed on top of a segment.              *)
BufferAvoidsSegments ==
  [][\A r \in Floating : AddBuffer(r) /\ Disjoint(segment) => Disjoint(segment')]_vars

(* locate_hole compares the size before add_segment rounds it up: a hole   *)
(* it offers is only ever refused for a size that is not in whole pages.   *)
HoleUsable == died = "bad hole" => request.memsz % Page # 0

(* locate_hole: it only fails when no aligned base leaves room for the     *)
(* buffer, an empty one counted as a byte, and one byte more (the free     *)
(* ranges of the merge end one early).                                     *)
RoomAt(t, r, b) ==
  LET last == b + Greater(r.memsz, 1) + 1
  IN /\ b % HoleAlign(r) = 0 /\ b >= Greater(MemMin, r.min)
     /\ last <= Lesser(MemMax, r.max)
     /\ \E i \in Ram : MStart(i) <= b /\ last <= MEnd(i)
     /\ \A j \in DOMAIN t : last <= t[j].mem \/ b >= End(t[j])
NoHoleMeansFull ==
  died = "no hole" => \A b \in 0..Word : ~RoomAt(segment, request, b)

(* locate_hole: the free list fits the memory allocated for it.            *)
FreeListFits ==
  \A t \in SortedForms(segment) :
    ~Overlapping(t) => Cardinality(FreeRanges(t)) <= Len(Ranges) + Len(t) - 1
==============================================================================

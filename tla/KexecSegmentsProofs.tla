------------------------- MODULE KexecSegmentsProofs -------------------------
(***************************************************************************)
(* Proofs about KexecSegments and the loaders that use it, for every page  *)
(* size, memory map, set of requests and set of files.  What is staged     *)
(* rests on the checks of add_segment and my_load alone, whatever hole     *)
(* locate_hole returns; then locate_hole itself: its merge misses no room  *)
(* and offers none that is taken; then purgatory's sections in the hole it *)
(* was given, what a loader takes from its file, and what it hands to the  *)
(* kernel it has loaded.                                                   *)
(***************************************************************************)
EXTENDS KexecLoaders, FiniteSetTheorems, TLAPS

-----------------------------------------------------------------------------
(* Arithmetic *)

LEMMA Multiple ==
  ASSUME NEW a \in Nat, NEW P \in Nat \ {0}, a % P = 0
  PROVE  \E k \in Nat : a = k * P
BY Z3

LEMMA MultipleMod ==
  ASSUME NEW k \in Nat, NEW P \in Nat \ {0}
  PROVE  (k * P) % P = 0
BY Z3

LEMMA SumMod ==
  ASSUME NEW a \in Nat, NEW b \in Nat, NEW P \in Nat \ {0}, a % P = 0, b % P = 0
  PROVE  (a + b) % P = 0
<1>1. PICK k \in Nat : a = k * P
  BY Multiple
<1>2. PICK m \in Nat : b = m * P
  BY Multiple
<1>3. a + b = (k + m) * P /\ k + m \in Nat
  BY <1>1, <1>2
<1> QED
  BY <1>3, MultipleMod

LEMMA Quotient ==
  ASSUME NEW a \in Nat, NEW P \in Nat \ {0}
  PROVE  a \div P \in Nat /\ (a \div P) * P <= a /\ a < (a \div P) * P + P
BY Z3

LEMMA Product ==
  ASSUME NEW a \in Nat, NEW P \in Nat
  PROVE  a * P \in Nat /\ (a >= 1 => a * P >= P)
BY Z3

(* Masking the low bits away.                                              *)
LEMMA AlignDownFacts ==
  ASSUME NEW a \in Nat, NEW P \in Nat \ {0}
  PROVE  /\ AlignDown(a, P) \in Nat /\ AlignDown(a, P) % P = 0
         /\ AlignDown(a, P) <= a /\ a < AlignDown(a, P) + P
<1>1. PICK q \in Nat : q = a \div P
  BY Quotient
<1>2. AlignDown(a, P) = q * P
  BY <1>1 DEF AlignDown
<1>3. q * P <= a /\ a < q * P + P
  BY <1>1, Quotient
<1> QED
  BY <1>2, <1>3, Product, MultipleMod

LEMMA SmallMod ==
  ASSUME NEW a \in Nat, NEW P \in Nat, a < P
  PROVE  a % P = a
BY Z3

(* What rounding up to whole pages yields: at least the size, or nothing   *)
(* when the addition wraps.                                                *)
LEMMA RoundedSizeFacts ==
  ASSUME NEW n \in ULong
  PROVE  /\ RoundedSize(n) \in Nat
         /\ RoundedSize(n) % Page = 0
         /\ RoundedSize(n) <= Word /\ RoundedSize(n) < n + Page
         /\ RoundedSize(n) >= n \/ RoundedSize(n) = 0
<1>0. Wrap(n + (Page - 1)) \in Nat
  BY PageAssumption DEF Wrap, ULong
<1>1. PICK w \in Nat : w = Wrap(n + (Page - 1))
  BY <1>0
<1>2. PICK d \in Nat : d = AlignDown(w, Page)
  BY AlignDownFacts, PageAssumption
<1>3. d % Page = 0 /\ d <= w /\ w < d + Page
  BY <1>2, AlignDownFacts, PageAssumption
<1>4. RoundedSize(n) = d
  BY <1>1, <1>2 DEF RoundedSize
<1>5. CASE n + (Page - 1) < Word
  <2>1. w = n + (Page - 1)
    BY <1>1, <1>5, PageAssumption DEF Wrap, ULong
  <2> QED
    BY <1>3, <1>4, <1>5, <2>1, PageAssumption DEF ULong
<1>6. CASE n + (Page - 1) >= Word
  <2>1. w < Page /\ w < Word
    BY <1>1, <1>6, PageAssumption DEF Wrap, ULong
  <2>2. d = 0
    <3>1. PICK k \in Nat : d = k * Page
      BY <1>3, Multiple, PageAssumption
    <3>2. k = 0
      BY <1>3, <2>1, <3>1, Product, PageAssumption
    <3> QED
      BY <3>1, <3>2, PageAssumption
  <2>3. 0 < n + Page /\ 0 \in Nat /\ 0 % Page = 0 /\ 0 <= Word
    BY PageAssumption DEF ULong
  <2> QED
    BY <1>4, <2>2, <2>3
<1> QED
  BY <1>5, <1>6, PageAssumption DEF ULong

-----------------------------------------------------------------------------
(* Sorting rearranges: every element of the result was there before.       *)
LEMMA SortedFormsFacts ==
  ASSUME NEW S, NEW s \in Seq(S), NEW t \in SortedForms(s)
  PROVE  /\ t \in Seq(S) /\ Len(t) = Len(s) /\ Sorted(t)
         /\ \A i \in DOMAIN t : \E j \in DOMAIN s : t[i] = s[j]
<1>1. PICK p \in Arrangements(s) : t = [i \in DOMAIN s |-> s[p[i]]]
  BY DEF SortedForms
<1>2. p \in [DOMAIN s -> DOMAIN s]
  BY DEF Arrangements
<1>3. DOMAIN s = 1..Len(s) /\ Len(s) \in Nat /\ DOMAIN t = 1..Len(s)
  BY <1>1
<1>4. \A i \in DOMAIN t : p[i] \in DOMAIN s /\ t[i] = s[p[i]]
  BY <1>1, <1>2, <1>3
<1>5. t \in [1..Len(s) -> S]
  BY <1>1, <1>2, <1>3
<1>6. t \in Seq(S) /\ Len(t) = Len(s)
  BY <1>3, <1>5
<1>7. Sorted(t)
  BY DEF SortedForms
<1> QED
  BY <1>4, <1>6, <1>7

LEMMA SegmentFields ==
  ASSUME NEW s \in Segment
  PROVE  s.mem \in Nat /\ s.memsz \in Nat /\ s.bufsz \in Nat /\ End(s) \in Nat
BY DEF Segment, End

(* In sorted order, comparing neighbours is comparing all: an induction    *)
(* over positions that the sort makes unnecessary, because a segment that  *)
(* ends after a later one begins also ends after its neighbour begins.     *)
LEMMA InOrder ==
  ASSUME NEW t \in Seq(Segment), Sorted(t), ~Overlapping(t),
         NEW i \in DOMAIN t, NEW j \in DOMAIN t, i < j
  PROVE  End(t[i]) <= t[j].mem
<1>1. i \in 1..Len(t) /\ j \in 1..Len(t) /\ Len(t) \in Nat /\ DOMAIN t = 1..Len(t)
  OBVIOUS
<1>2. i + 1 \in DOMAIN t /\ i + 1 > 1 /\ (i + 1) - 1 = i
  BY <1>1
<1>3. ~(End(t[i]) > t[i + 1].mem)
  BY <1>2 DEF Overlapping
<1>4. t[i + 1].mem <= t[j].mem
  <2>1. CASE i + 1 = j
    BY <2>1, SegmentFields
  <2>2. CASE i + 1 < j
    BY <1>2, <2>2 DEF Sorted
  <2> QED
    BY <1>1, <2>1, <2>2
<1>5. t[i] \in Segment /\ t[i + 1] \in Segment /\ t[j] \in Segment
  BY <1>2
<1>6. End(t[i]) \in Nat /\ t[i + 1].mem \in Nat /\ t[j].mem \in Nat
  BY <1>5, SegmentFields
<1> QED
  BY <1>3, <1>4, <1>6

LEMMA NeighboursSuffice ==
  ASSUME NEW t \in Seq(Segment), Sorted(t), ~Overlapping(t)
  PROVE  Disjoint(t)
BY InOrder DEF Disjoint, Apart

-----------------------------------------------------------------------------
(* locate_hole returns a number; that it is a good one is add_segment's    *)
(* business.                                                               *)
LEMMA RangeFields ==
  ASSUME NEW i \in Ram
  PROVE  /\ Ranges[i].start \in Nat /\ Ranges[i].end \in Nat
         /\ MStart(i) \in Nat /\ MEnd(i) \in Nat
<1>1. Ranges[i] \in MemoryRange
  BY RangesAssumption DEF Ram
<1>2. Ranges[i].start \in Nat /\ Ranges[i].end \in Nat
  BY <1>1 DEF MemoryRange
<1>3. \A n \in Nat : n % Word \in Nat
  BY PageAssumption
<1> QED
  BY <1>2, <1>3 DEF MStart, MEnd

LEMMA FreeRangeFields ==
  ASSUME NEW t \in Seq(Segment), NEW p \in FreeRanges(t)
  PROVE  p.start \in Int /\ p.end \in Int
<1>1. PICK i \in Ram : p \in Gaps(t, i) \cup Remainder(t, i)
  BY DEF FreeRanges
<1>2. MStart(i) \in Nat /\ MEnd(i) \in Nat
  BY RangeFields
<1>3. \A j \in DOMAIN t : t[j].mem \in Nat /\ End(t[j]) \in Nat
  BY SegmentFields
<1>4. Consumed(t, i) \subseteq DOMAIN t /\ LastConsumed(t, i) \subseteq DOMAIN t
  BY DEF Consumed, LastConsumed
<1>5. CASE p \in Gaps(t, i)
  <2>1. PICK j \in Consumed(t, i) : p = [start |-> FreeFrom(t, i, j), end |-> t[j].mem - 1]
    BY <1>5 DEF Gaps
  <2>2. FreeFrom(t, i, j) \in Nat
    BY <1>2, <1>3, <1>4 DEF FreeFrom
  <2>3. t[j].mem \in Nat
    BY <1>3, <1>4
  <2> QED
    BY <2>1, <2>2, <2>3
<1>6. CASE p \in Remainder(t, i)
  <2>1. CASE Consumed(t, i) = {}
    BY <1>2, <1>6, <2>1 DEF Remainder
  <2>2. CASE Consumed(t, i) # {}
    <3>1. PICK j \in LastConsumed(t, i) : p = [start |-> End(t[j]), end |-> MEnd(i)]
      BY <1>6, <2>2 DEF Remainder
    <3> QED
      BY <1>2, <1>3, <1>4, <3>1
  <2> QED
    BY <2>1, <2>2
<1> QED
  BY <1>1, <1>5, <1>6

LEMMA LocateHoleType ==
  ASSUME NEW t \in Seq(Segment), NEW r \in FloatingRequest, NEW b \in LocateHole(t, r)
  PROVE  b \in Int
<1>1. PICK p \in FreeRanges(t) : b = HoleBase(p, r)
  BY DEF LocateHole
<1>2. p.start \in Int /\ p.end \in Int
  BY FreeRangeFields
<1>3. /\ r.memsz \in Nat /\ r.align \in Nat /\ r.min \in Nat /\ r.max \in Nat
  BY PageAssumption DEF FloatingRequest, ULong
<1>4. HoleAlign(r) \in Nat \ {0}
  BY <1>3, PageAssumption DEF HoleAlign, Greater
<1>5. \A n \in Int, a \in Nat \ {0} : AlignUp(n, a) \in Int /\ AlignDown(n, a) \in Int
  BY Z3 DEF AlignUp, AlignDown
<1>6. HoleStart(p, r) \in Int
  <2>1. Greater(p.start, Greater(MemMin, r.min)) \in Int
    BY <1>2, <1>3, LimitsAssumption DEF Greater
  <2>2. PICK up \in Int : up = AlignUp(Greater(p.start, Greater(MemMin, r.min)), HoleAlign(r))
    BY <1>4, <1>5, <2>1
  <2> QED
    BY <2>2 DEF HoleStart
<1>7. HoleEnd(p, r) - r.memsz \in Int
  BY <1>2, <1>3, LimitsAssumption DEF HoleEnd, Lesser
<1> QED
  BY <1>1, <1>4, <1>5, <1>6, <1>7 DEF HoleBase

-----------------------------------------------------------------------------
(* What add_segment guarantees of each segment it appends.                 *)
WellPlaced(s) ==
  /\ s \in Segment
  /\ s.mem % Page = 0 /\ s.memsz % Page = 0
  /\ s.memsz <= Word /\ s.bufsz <= s.memsz
  /\ ValidMemorySegment(s)

(* A segment that passes valid_memory_range is not empty and does not wrap *)
(* around the address space.                                               *)
LEMMA ValidMeansContained ==
  ASSUME RamFits, NEW mem \in Nat, NEW size \in Nat, size <= Word, size % Page = 0,
         mem % Page = 0, ValidMemoryRange(mem, Wrap((mem + size) - 1))
  PROVE  /\ size > 0
         /\ \E i \in Ram : Ranges[i].start <= mem /\ mem + size <= Ranges[i].end
<1> DEFINE send == Wrap((mem + size) - 1)
<1>1. PICK i \in Ram : MStart(i) <= mem /\ MEnd(i) >= send
  BY DEF ValidMemoryRange
<1>2. /\ Ranges[i].start \in Nat /\ Ranges[i].end \in Nat
      /\ Ranges[i].start < Word /\ Ranges[i].end < Word /\ (Ranges[i].end + 1) % Page # 0
  BY RangeFields DEF RamFits
<1>3. MStart(i) = Ranges[i].start /\ MEnd(i) = Ranges[i].end
  BY <1>2, SmallMod, PageAssumption DEF MStart, MEnd
<1>4. mem <= send
  BY DEF ValidMemoryRange
<1>5. Ranges[i].end + 1 # Word
  BY <1>2, PageAssumption
<1>6. size > 0
  <2>1. SUFFICES ASSUME size = 0 PROVE FALSE
    OBVIOUS
  <2>2. send = IF mem = 0 THEN Word - 1 ELSE IF mem - 1 >= Word THEN mem - 1 - Word ELSE mem - 1
    BY <2>1, PageAssumption DEF Wrap
  <2> QED
    BY <1>1, <1>2, <1>3, <1>4, <1>5, <2>2, PageAssumption
<1>7. send = mem + size - 1
  BY <1>4, <1>6, PageAssumption DEF Wrap
<1>8. (mem + size) % Page = 0
  BY SumMod, PageAssumption
<1>9. mem + size # Ranges[i].end + 1
  BY <1>2, <1>8
<1>10. mem + size <= Ranges[i].end
  BY <1>1, <1>2, <1>3, <1>7, <1>9
<1> QED
  BY <1>1, <1>3, <1>6, <1>10

LEMMA PlacedInRam ==
  ASSUME RamFits, NEW s, WellPlaced(s)
  PROVE  InRam(s)
<1>1. s.mem \in Nat /\ s.memsz \in Nat
  BY SegmentFields DEF WellPlaced
<1>2. ValidMemoryRange(s.mem, Wrap((s.mem + s.memsz) - 1))
  <2>1. ValidMemorySegment(s)
    BY DEF WellPlaced
  <2> QED
    BY <2>1, Zenon DEF ValidMemorySegment, End
<1> QED
  BY <1>1, <1>2, ValidMeansContained DEF WellPlaced, InRam, End

LEMMA NewSegmentPlaced ==
  ASSUME RamFits, NEW bufsz \in ULong, NEW at \in Int, NEW memsz \in ULong,
         at % Page = 0, ValidMemorySegment(NewSegment(bufsz, at, memsz))
  PROVE  WellPlaced(NewSegment(bufsz, at, memsz))
<1>1. PICK size \in Nat : size = RoundedSize(memsz)
  BY RoundedSizeFacts
<1>2. size % Page = 0 /\ size <= Word /\ (size >= memsz \/ size = 0)
  BY <1>1, RoundedSizeFacts
<1>3. PICK n : n = NewSegment(bufsz, at, memsz)
  OBVIOUS
<1>4. n.mem = at /\ n.memsz = size /\ n.bufsz = Lesser(bufsz, memsz)
  BY <1>1, <1>3 DEF NewSegment
<1>5. ValidMemoryRange(at, Wrap((at + size) - 1))
  BY <1>3, <1>4 DEF ValidMemorySegment, End
<1>6. at \in Nat
  BY <1>5, LimitsAssumption DEF ValidMemoryRange
<1>7. size > 0
  BY <1>2, <1>5, <1>6, ValidMeansContained
<1>8. Lesser(bufsz, memsz) \in Nat /\ Lesser(bufsz, memsz) <= size
  BY <1>2, <1>7, PageAssumption DEF Lesser, ULong
<1>9. n \in Segment
  BY <1>1, <1>3, <1>6, <1>8 DEF NewSegment, Segment
<1> QED
  BY <1>2, <1>3, <1>4, <1>8, <1>9 DEF WellPlaced

-----------------------------------------------------------------------------
(* The inductive invariant: every segment of the list and of the kernel    *)
(* was accepted by add_segment, and what reaches kexec_load passed the     *)
(* overlap check of sort_segments.                                         *)
SegmentInv ==
  /\ \A i \in DOMAIN segment : WellPlaced(segment[i])
  /\ \A i \in DOMAIN staged : WellPlaced(staged[i])
  /\ phase = "kexec_load" => Disjoint(segment)
  /\ Disjoint(staged)

LEMMA AppendPlaced ==
  ASSUME NEW t \in Seq(Segment), \A i \in DOMAIN t : WellPlaced(t[i]), NEW s, WellPlaced(s)
  PROVE  /\ Append(t, s) \in Seq(Segment)
         /\ \A i \in DOMAIN Append(t, s) : WellPlaced(Append(t, s)[i])
<1>1. s \in Segment
  BY DEF WellPlaced
<1>2. Append(t, s) \in Seq(Segment) /\ Len(Append(t, s)) = Len(t) + 1 /\ Len(t) \in Nat
  BY <1>1
<1>3. \A i \in 1..Len(t) : Append(t, s)[i] = t[i]
  BY <1>1
<1>4. Append(t, s)[Len(t) + 1] = s
  BY <1>1
<1>5. ASSUME NEW i \in DOMAIN Append(t, s) PROVE WellPlaced(Append(t, s)[i])
  <2>1. i \in 1..Len(t) + 1
    BY <1>2
  <2>2. CASE i \in 1..Len(t)
    BY <1>3, <2>2
  <2>3. CASE i = Len(t) + 1
    BY <1>4, <2>3
  <2> QED
    BY <1>2, <2>1, <2>2, <2>3
<1> QED
  BY <1>2, <1>5

(* The common tail of add_segment and add_buffer.                          *)
LEMMA PlaceKeeps ==
  ASSUME RamFits, TypeOK, NEW t \in Seq(Segment), \A i \in DOMAIN t : WellPlaced(t[i]),
         NEW bufsz \in ULong, NEW at \in Int, NEW memsz \in ULong,
         NEW reason \in {"invalid", "bad hole"}, phase = "load",
         Place(t, bufsz, at, memsz, reason)
  PROVE  /\ segment' \in Seq(Segment)
         /\ \A i \in DOMAIN segment' : WellPlaced(segment'[i])
         /\ phase' \in {"load", "ended"}
         /\ died' \in {"no", "misaligned", "invalid", "overlap", "no hole", "bad hole"}
<1> DEFINE n == NewSegment(bufsz, at, memsz)
<1>1. CASE segment' = t /\ UNCHANGED <<phase, died>>
  BY <1>1 DEF TypeOK
<1>2. CASE segment' = t /\ Die("misaligned")
  BY <1>2 DEF Die
<1>3. CASE segment' = t /\ Die(reason)
  BY <1>3 DEF Die
<1>4. CASE /\ at % Page = 0 /\ ValidMemorySegment(n)
           /\ segment' = Append(t, n) /\ UNCHANGED <<phase, died>>
  <2>1. WellPlaced(n)
    BY <1>4, NewSegmentPlaced
  <2>2. segment' \in Seq(Segment) /\ \A i \in DOMAIN segment' : WellPlaced(segment'[i])
    BY <1>4, <2>1, AppendPlaced
  <2> QED
    BY <1>4, <2>2 DEF TypeOK
<1> QED
  BY <1>1, <1>2, <1>3, <1>4 DEF Place

(* Nothing to say of an empty list.                                        *)
LEMMA EmptyList ==
  /\ <<>> \in Seq(Segment) /\ Disjoint(<<>>)
  /\ \A i \in DOMAIN <<>> : WellPlaced(<<>>[i])
BY DEF Disjoint

LEMMA SegmentInit == Init => TypeOK /\ SegmentInv
<1> SUFFICES ASSUME Init PROVE TypeOK /\ SegmentInv
  OBVIOUS
<1>1. segment = <<>> /\ staged = <<>>
  BY DEF Init
<1>2. NoRequest \in FloatingRequest
  BY PageAssumption DEF NoRequest, FloatingRequest, ULong
<1> QED
  BY <1>1, <1>2, EmptyList DEF Init, TypeOK, SegmentInv

LEMMA SegmentNext ==
  ASSUME RamFits
  PROVE  TypeOK /\ SegmentInv /\ [Next]_vars => (TypeOK /\ SegmentInv)'
<1> SUFFICES ASSUME TypeOK, SegmentInv, [Next]_vars PROVE TypeOK' /\ SegmentInv'
  OBVIOUS
<1>0. /\ segment \in Seq(Segment) /\ staged \in Seq(Segment)
      /\ \A i \in DOMAIN segment : WellPlaced(segment[i])
  BY DEF TypeOK, SegmentInv
<1>1. ASSUME NEW r \in Fixed, AddSegment(r) PROVE TypeOK' /\ SegmentInv'
  <2>1. r.bufsz \in ULong /\ r.base \in Int /\ r.memsz \in ULong
    BY RequestsAssumption DEF FixedRequest, ULong
  <2>2. phase = "load" /\ Place(segment, r.bufsz, r.base, r.memsz, "invalid")
    BY <1>1 DEF AddSegment
  <2>3. /\ segment' \in Seq(Segment)
        /\ \A i \in DOMAIN segment' : WellPlaced(segment'[i])
        /\ phase' \in {"load", "ended"}
        /\ died' \in {"no", "misaligned", "invalid", "overlap", "no hole", "bad hole"}
    BY <1>0, <2>1, <2>2, PlaceKeeps
  <2> QED
    BY <1>1, <2>3 DEF AddSegment, TypeOK, SegmentInv
<1>2. ASSUME NEW r \in Floating, AddBuffer(r) PROVE TypeOK' /\ SegmentInv'
  <2>1. r \in FloatingRequest /\ r.bufsz \in ULong /\ r.memsz \in ULong
    BY RequestsAssumption DEF FloatingRequest
  <2>2. PICK t \in SortedForms(segment) :
          \/ segment' = t /\ Die("overlap") /\ UNCHANGED request
          \/ segment' = t /\ Die("no hole") /\ request' = r
          \/ /\ \E at \in LocateHole(t, r) : Place(t, r.bufsz, at, r.memsz, "bad hole")
             /\ request' \in {r, request}
    BY <1>2 DEF AddBuffer
  <2>3. t \in Seq(Segment) /\ \A i \in DOMAIN t : \E j \in DOMAIN segment : t[i] = segment[j]
    BY <1>0, SortedFormsFacts
  <2>4. \A i \in DOMAIN t : WellPlaced(t[i])
    BY <1>0, <2>3
  <2>5. phase = "load" /\ staged' = staged
    BY <1>2 DEF AddBuffer
  <2>6. CASE segment' = t /\ Die("overlap") /\ UNCHANGED request
    BY <2>3, <2>4, <2>5, <2>6 DEF Die, TypeOK, SegmentInv
  <2>7. CASE segment' = t /\ Die("no hole") /\ request' = r
    BY <2>1, <2>3, <2>4, <2>5, <2>7 DEF Die, TypeOK, SegmentInv
  <2>8. ASSUME NEW at \in LocateHole(t, r),
               Place(t, r.bufsz, at, r.memsz, "bad hole"), request' \in {r, request}
        PROVE  TypeOK' /\ SegmentInv'
    <3>1. at \in Int
      BY <2>1, <2>3, LocateHoleType
    <3>2. /\ segment' \in Seq(Segment)
          /\ \A i \in DOMAIN segment' : WellPlaced(segment'[i])
          /\ phase' \in {"load", "ended"}
          /\ died' \in {"no", "misaligned", "invalid", "overlap", "no hole", "bad hole"}
      BY <2>1, <2>3, <2>4, <2>5, <2>8, <3>1, PlaceKeeps
    <3> QED
      BY <2>1, <2>5, <2>8, <3>2 DEF TypeOK, SegmentInv
  <2> QED
    BY <2>2, <2>6, <2>7, <2>8
<1>3. CASE LoaderReturns
  BY <1>3 DEF LoaderReturns, TypeOK, SegmentInv
<1>4. CASE LoaderFails
  BY <1>4 DEF LoaderFails, TypeOK, SegmentInv
<1>5. CASE Verify
  BY <1>5 DEF Verify, TypeOK, SegmentInv
<1>6. CASE Sort
  <2>1. PICK t \in SortedForms(segment) : segment' = t
    BY <1>6 DEF Sort
  <2>2. /\ t \in Seq(Segment) /\ Sorted(t)
        /\ \A i \in DOMAIN t : \E j \in DOMAIN segment : t[i] = segment[j]
    BY <1>0, SortedFormsFacts
  <2>3. \A i \in DOMAIN t : WellPlaced(t[i])
    BY <1>0, <2>2
  <2>4. phase' = "kexec_load" => Disjoint(t)
    BY <1>6, <2>1, <2>2, NeighboursSuffice DEF Sort
  <2>5. phase' \in {"ended", "kexec_load"}
    BY <1>6 DEF Sort
  <2> QED
    BY <1>6, <2>1, <2>2, <2>3, <2>4, <2>5 DEF Sort, TypeOK, SegmentInv
<1>7. CASE KexecLoad
  BY <1>7 DEF KexecLoad, TypeOK, SegmentInv
<1>8. CASE KexecLoadFails
  BY <1>8 DEF KexecLoadFails, TypeOK, SegmentInv
<1>9. CASE NextRun
  <2>1. NoRequest \in FloatingRequest
    BY PageAssumption DEF NoRequest, FloatingRequest, ULong
  <2>2. segment' = <<>>
    BY <1>9 DEF NextRun
  <2> QED
    BY <1>9, <2>1, <2>2, EmptyList DEF NextRun, TypeOK, SegmentInv
<1>10. CASE Unload
  <2>1. staged' = <<>>
    BY <1>10 DEF Unload
  <2> QED
    BY <1>10, <2>1, EmptyList DEF Unload, TypeOK, SegmentInv
<1>11. CASE UNCHANGED vars
  BY <1>11 DEF vars, TypeOK, SegmentInv
<1> QED
  BY <1>1, <1>2, <1>3, <1>4, <1>5, <1>6, <1>7, <1>8, <1>9, <1>10, <1>11 DEF Next

(* Whatever the loaders ask for, the kernel is only given segments that    *)
(* lie in RAM (my_load's verification) and are whole pages with room for   *)
(* their data (add_segment), for a memory map kexec reads as it is.        *)
THEOREM OnlyRamStaged ==
  ASSUME RamFits
  PROVE  Spec => []StagedInRam
<1>1. SegmentInv => StagedInRam
  BY PlacedInRam DEF SegmentInv, StagedInRam, WellPlaced
<1> QED
  BY <1>1, SegmentInit, SegmentNext, PTL DEF Spec

(* ... and no two of them share a byte (the overlap check of               *)
(* sort_segments, which only compares neighbours).                         *)
THEOREM NoOverlapStaged ==
  ASSUME RamFits
  PROVE  Spec => []StagedDisjoint
<1>1. SegmentInv => StagedDisjoint
  BY DEF SegmentInv, StagedDisjoint
<1> QED
  BY <1>1, SegmentInit, SegmentNext, PTL DEF Spec

-----------------------------------------------------------------------------
(* The merge of locate_hole *)

(* A list as sort_segments leaves it for the merge.                        *)
Ready(t) ==
  /\ t \in Seq(Segment) /\ Sorted(t) /\ ~Overlapping(t)
  /\ \A i \in DOMAIN t : WellPlaced(t[i])

LEMMA RamBounds ==
  ASSUME NEW i \in Ram
  PROVE  MStart(i) \in Nat /\ MEnd(i) \in Nat /\ MEnd(i) < Word /\ i \in Nat
<1>1. Ranges[i].end \in Nat /\ i \in 1..Len(Ranges) /\ Len(Ranges) \in Nat
  BY RangeFields, RangesAssumption DEF Ram
<1>2. \A n \in Nat : n % Word < Word
  BY PageAssumption
<1> QED
  BY <1>1, <1>2, RangeFields DEF MEnd

(* A segment that passed add_segment lies in a range as the merge sees it. *)
LEMMA PlacedInRange ==
  ASSUME RamFits, NEW s, WellPlaced(s)
  PROVE  \E i \in Ram : MStart(i) <= s.mem /\ End(s) <= MEnd(i) /\ s.mem < End(s)
<1>1. s \in Segment /\ s.mem \in Nat /\ s.memsz \in Nat
  BY SegmentFields DEF WellPlaced
<1>2. ValidMemoryRange(s.mem, Wrap((s.mem + s.memsz) - 1))
  <2>1. ValidMemorySegment(s)
    BY DEF WellPlaced
  <2> QED
    BY <2>1, Zenon DEF ValidMemorySegment, End
<1>3. PICK i \in Ram : /\ Ranges[i].start <= s.mem /\ s.mem + s.memsz <= Ranges[i].end
                       /\ s.memsz > 0
  BY <1>1, <1>2, ValidMeansContained DEF WellPlaced
<1>4. MStart(i) = Ranges[i].start /\ MEnd(i) = Ranges[i].end
  BY RangeFields, SmallMod, PageAssumption DEF RamFits, MStart, MEnd
<1> QED
  BY <1>1, <1>3, <1>4 DEF End

(* The merge consumes at a range exactly the segments that lie in it, and  *)
(* the others lie before it or after it.                                   *)
LEMMA ConsumedInside ==
  ASSUME RamFits, RamApart, NEW t, Ready(t), NEW i \in Ram, NEW j \in DOMAIN t
  PROVE  /\ j \in Consumed(t, i) <=> MStart(i) <= t[j].mem /\ End(t[j]) <= MEnd(i)
         /\ j \notin Consumed(t, i) => End(t[j]) < MStart(i) \/ t[j].mem > MEnd(i)
<1>1. PICK r \in Ram :
        MStart(r) <= t[j].mem /\ End(t[j]) <= MEnd(r) /\ t[j].mem < End(t[j])
  BY PlacedInRange DEF Ready
<1>2. t[j].mem \in Nat /\ End(t[j]) \in Nat
  BY SegmentFields DEF Ready
<1>3. \A k \in Ram : MStart(k) \in Nat /\ MEnd(k) \in Nat /\ k \in Nat
  BY RamBounds
<1>4. \A k, m \in Ram : k < m => MEnd(k) < MStart(m)
  BY DEF RamApart
<1>5. j \in Consumed(t, i) <=>
        t[j].mem <= MEnd(i) /\ \A k \in Ram : k < i => t[j].mem > MEnd(k)
  BY DEF Consumed
<1>6. CASE r = i
  <2>1. \A k \in Ram : k < i => t[j].mem > MEnd(k)
    BY <1>1, <1>2, <1>3, <1>4, <1>6
  <2>2. t[j].mem <= MEnd(i)
    BY <1>1, <1>2, <1>3, <1>6
  <2> QED
    BY <1>1, <1>5, <1>6, <2>1, <2>2
<1>7. CASE r < i
  <2>1. MEnd(r) < MStart(i)
    BY <1>4, <1>7
  <2>2. ~(t[j].mem > MEnd(r))
    BY <1>1, <1>2, <1>3
  <2>3. End(t[j]) < MStart(i) /\ ~(MStart(i) <= t[j].mem)
    BY <1>1, <1>2, <1>3, <2>1
  <2> QED
    BY <1>5, <1>7, <2>2, <2>3
<1>8. CASE i < r
  <2>1. t[j].mem > MEnd(i) /\ ~(End(t[j]) <= MEnd(i)) /\ ~(t[j].mem <= MEnd(i))
    BY <1>1, <1>2, <1>3, <1>4, <1>8
  <2> QED
    BY <1>5, <2>1
<1> QED
  BY <1>3, <1>6, <1>7, <1>8

(* An entry of the free list lies in a RAM range, and ends before or       *)
(* begins after every segment.                                             *)
LEMMA HoleClear ==
  ASSUME RamFits, RamApart, NEW t, Ready(t), NEW p \in FreeRanges(t)
  PROVE  /\ p.start \in Nat /\ p.end \in Nat
         /\ \E i \in Ram : MStart(i) <= p.start /\ p.end <= MEnd(i)
         /\ \A k \in DOMAIN t : End(t[k]) <= p.start \/ p.end < t[k].mem
<1>1. PICK i \in Ram : p \in Gaps(t, i) \cup Remainder(t, i)
  BY DEF FreeRanges
<1>2. p.start <= p.end
  BY DEF FreeRanges
<1>3. MStart(i) \in Nat /\ MEnd(i) \in Nat
  BY RamBounds
<1>4. t \in Seq(Segment) /\ DOMAIN t = 1..Len(t) /\ Len(t) \in Nat
  BY DEF Ready
<1>5. \A j \in DOMAIN t : t[j].mem \in Nat /\ End(t[j]) \in Nat /\ t[j].mem <= End(t[j])
  BY <1>4, SegmentFields DEF End
<1>6. \A j, k \in DOMAIN t : j < k => End(t[j]) <= t[k].mem
  BY InOrder DEF Ready
<1>7. \A j \in DOMAIN t :
        /\ j \in Consumed(t, i) <=> MStart(i) <= t[j].mem /\ End(t[j]) <= MEnd(i)
        /\ j \notin Consumed(t, i) => End(t[j]) < MStart(i) \/ t[j].mem > MEnd(i)
  BY ConsumedInside
<1>8. Consumed(t, i) \subseteq DOMAIN t /\ LastConsumed(t, i) \subseteq Consumed(t, i)
  BY DEF Consumed, LastConsumed
<1>9. CASE p \in Gaps(t, i)
  <2>1. PICK j \in Consumed(t, i) : p = [start |-> FreeFrom(t, i, j), end |-> t[j].mem - 1]
    BY <1>9 DEF Gaps
  <2>2. j \in DOMAIN t /\ p.start = FreeFrom(t, i, j) /\ p.end = t[j].mem - 1
    BY <1>8, <2>1
  <2>3. MStart(i) <= t[j].mem /\ End(t[j]) <= MEnd(i)
    BY <1>7, <2>1, <2>2
  <2>4. \A k \in DOMAIN t : k >= j => p.end < t[k].mem
    BY <1>4, <1>5, <1>6, <2>2
  <2>5. CASE j - 1 \in Consumed(t, i)
    <3>1. j - 1 \in DOMAIN t /\ p.start = End(t[j - 1]) /\ MStart(i) <= t[j - 1].mem
      BY <1>7, <1>8, <2>2, <2>5 DEF FreeFrom
    <3>2. \A k \in DOMAIN t : k < j => End(t[k]) <= p.start
      BY <1>4, <1>5, <1>6, <2>2, <3>1
    <3>3. p.start \in Nat /\ p.end \in Nat /\ MStart(i) <= p.start /\ p.end <= MEnd(i)
      BY <1>2, <1>3, <1>5, <2>2, <2>3, <3>1
    <3> QED
      BY <1>4, <2>2, <2>4, <3>2, <3>3
  <2>6. CASE j - 1 \notin Consumed(t, i)
    <3>1. p.start = MStart(i)
      BY <2>2, <2>6 DEF FreeFrom
    <3>2. ASSUME NEW k \in DOMAIN t, k < j
          PROVE  End(t[k]) <= p.start \/ p.end < t[k].mem
      <4>1. CASE k \in Consumed(t, i)
        <5>1. k < j - 1 /\ j - 1 \in DOMAIN t /\ j - 1 < j
          BY <1>4, <2>2, <2>6, <3>2, <4>1
        <5>2. MStart(i) <= t[j - 1].mem /\ End(t[j - 1]) <= MEnd(i)
          BY <1>3, <1>5, <1>6, <1>7, <2>2, <2>3, <4>1, <5>1
        <5> QED
          BY <1>7, <2>6, <5>1, <5>2
      <4>2. CASE k \notin Consumed(t, i)
        BY <1>3, <1>5, <1>7, <2>2, <2>3, <3>1, <4>2
      <4> QED
        BY <4>1, <4>2
    <3>3. p.start \in Nat /\ p.end \in Nat /\ MStart(i) <= p.start /\ p.end <= MEnd(i)
      BY <1>2, <1>3, <1>5, <2>2, <2>3, <3>1
    <3> QED
      BY <1>4, <2>2, <2>4, <3>2, <3>3
  <2> QED
    BY <2>5, <2>6
<1>10. CASE p \in Remainder(t, i) /\ Consumed(t, i) = {}
  <2>1. p.start = MStart(i) /\ p.end = MEnd(i)
    BY <1>10 DEF Remainder
  <2> QED
    BY <1>3, <1>5, <1>7, <1>10, <2>1
<1>11. CASE p \in Remainder(t, i) /\ Consumed(t, i) # {}
  <2>1. PICK j \in LastConsumed(t, i) : p = [start |-> End(t[j]), end |-> MEnd(i)]
    BY <1>11 DEF Remainder
  <2>2. /\ j \in DOMAIN t /\ j \in Consumed(t, i)
        /\ p.start = End(t[j]) /\ p.end = MEnd(i)
        /\ \A k \in Consumed(t, i) : k <= j
    BY <1>8, <2>1 DEF LastConsumed
  <2>3. MStart(i) <= t[j].mem /\ End(t[j]) <= MEnd(i)
    BY <1>7, <2>2
  <2>4. \A k \in DOMAIN t : k <= j => End(t[k]) <= p.start
    BY <1>4, <1>5, <1>6, <2>2, SMTT(30)
  <2>5. \A k \in DOMAIN t : k > j => End(t[k]) <= p.start \/ p.end < t[k].mem
    BY <1>3, <1>4, <1>5, <1>7, <2>2, <2>3
  <2>6. p.start \in Nat /\ p.end \in Nat /\ MStart(i) <= p.start /\ p.end <= MEnd(i)
    BY <1>3, <1>5, <2>2, <2>3
  <2> QED
    BY <1>4, <2>2, <2>4, <2>5, <2>6
<1> QED
  BY <1>1, <1>9, <1>10, <1>11

-----------------------------------------------------------------------------
(* The hole in an entry *)

(* Between two multiples there is no room for another.                     *)
LEMMA MultipleOrder ==
  ASSUME NEW P \in Nat \ {0}, NEW a \in Nat, NEW b \in Nat,
         a % P = 0, b % P = 0, a < b + P
  PROVE  a <= b
<1>1. PICK k \in Nat : a = k * P
  BY Multiple
<1>2. PICK m \in Nat : b = m * P
  BY Multiple
<1>3. CASE k <= m
  <2>1. PICK d \in Nat : m = k + d
    BY <1>3
  <2>2. b = a + d * P /\ d * P \in Nat
    BY <1>1, <1>2, <2>1, Product
  <2> QED
    BY <2>2
<1>4. CASE k > m
  <2>1. PICK d \in Nat : k = m + 1 + d
    <3>1. k - (m + 1) \in Nat /\ k = m + 1 + (k - (m + 1))
      BY <1>4
    <3> QED
      BY <3>1
  <2>2. a = b + P + d * P /\ d * P \in Nat
    BY <1>1, <1>2, <2>1, Product
  <2> QED
    BY <2>2
<1> QED
  BY <1>3, <1>4

(* Rounding up yields the least multiple that is not below.                *)
LEMMA AlignUpFacts ==
  ASSUME NEW n \in Nat, NEW a \in Nat \ {0}
  PROVE  /\ AlignUp(n, a) \in Nat /\ AlignUp(n, a) % a = 0 /\ n <= AlignUp(n, a)
         /\ \A m \in Nat : m % a = 0 /\ n <= m => AlignUp(n, a) <= m
<1>1. PICK w \in Nat : w = n + (a - 1)
  OBVIOUS
<1>2. PICK u : u = AlignDown(w, a)
  OBVIOUS
<1>3. AlignUp(n, a) = u
  BY <1>1, <1>2 DEF AlignUp, AlignDown
<1>4. u \in Nat /\ u % a = 0 /\ u <= w /\ w < u + a
  BY <1>2, AlignDownFacts
<1>5. n <= u
  BY <1>1, <1>4
<1>6. ASSUME NEW m \in Nat, m % a = 0, n <= m PROVE u <= m
  <2>1. u < m + a
    BY <1>1, <1>4, <1>6
  <2> QED
    BY <1>4, <1>6, <2>1, MultipleOrder
<1> QED
  BY <1>3, <1>4, <1>5, <1>6

LEMMA AlignUpNear ==
  ASSUME NEW n \in Nat, NEW a \in Nat \ {0}
  PROVE  AlignUp(n, a) < n + a
<1>1. PICK w \in Nat : w = n + (a - 1)
  OBVIOUS
<1>2. PICK u \in Nat : u = AlignDown(w, a) /\ u <= w
  BY AlignDownFacts
<1>3. AlignUp(n, a) = u
  BY <1>1, <1>2 DEF AlignUp, AlignDown
<1> QED
  BY <1>1, <1>2, <1>3

LEMMA ZeroMod ==
  ASSUME NEW a \in Nat \ {0}
  PROVE  0 % a = 0
BY Z3

(* Rounding down keeps what is above a multiple above it.                  *)
LEMMA AlignDownAbove ==
  ASSUME NEW n \in Nat, NEW a \in Nat \ {0}, NEW m \in Nat, m % a = 0, m <= n
  PROVE  m <= AlignDown(n, a)
<1>1. PICK u \in Nat : u = AlignDown(n, a)
  BY AlignDownFacts
<1>2. u % a = 0 /\ n < u + a
  BY <1>1, AlignDownFacts
<1>3. m < u + a
  BY <1>1, <1>2
<1> QED
  BY <1>1, <1>2, <1>3, MultipleOrder

LEMMA RequestFields ==
  ASSUME NEW r \in FloatingRequest
  PROVE  /\ r.memsz \in Nat /\ r.align \in Nat /\ r.min \in Nat /\ r.max \in Nat
         /\ r.memsz \in ULong /\ r.bufsz \in ULong /\ r.dir \in {-1, 1}
         /\ HoleAlign(r) \in Nat \ {0}
<1>1. /\ r.memsz \in Nat /\ r.align \in Nat /\ r.min \in Nat /\ r.max \in Nat
      /\ r.memsz \in ULong /\ r.bufsz \in ULong /\ r.dir \in {-1, 1}
  BY PageAssumption DEF FloatingRequest, ULong
<1> QED
  BY <1>1, PageAssumption DEF HoleAlign, Greater

(* Neither the entry nor a limit of the request begins where rounding up   *)
(* would reach the end of the address space.                               *)
TopClear(p, r) == \A n \in {p.start, MemMin, r.min} : n + HoleAlign(r) <= Word

(* Where the hole of an entry begins and ends.                             *)
LEMMA HoleLimits ==
  ASSUME NEW p, p.start \in Nat, p.end \in Nat, NEW r \in FloatingRequest
  PROVE  /\ HoleStart(p, r) \in Nat /\ HoleStart(p, r) % HoleAlign(r) = 0
         /\ TopClear(p, r) => p.start <= HoleStart(p, r) /\ MemMin <= HoleStart(p, r)
         /\ \A m \in Nat : /\ m % HoleAlign(r) = 0 /\ p.start <= m
                           /\ Greater(MemMin, r.min) <= m
                           => HoleStart(p, r) <= m
         /\ HoleEnd(p, r) \in Nat
         /\ HoleEnd(p, r) <= p.end /\ HoleEnd(p, r) <= MemMax /\ HoleEnd(p, r) <= r.max
         /\ \A m \in Nat : m <= p.end /\ m <= Lesser(MemMax, r.max) => m <= HoleEnd(p, r)
<1>1. MemMin \in Nat /\ MemMax \in Nat /\ r.min \in Nat /\ r.max \in Nat
  BY LimitsAssumption, RequestFields
<1>2. PICK x : x = Greater(p.start, Greater(MemMin, r.min))
  OBVIOUS
<1>3. /\ x \in Nat /\ p.start <= x /\ MemMin <= x /\ x \in {p.start, MemMin, r.min}
      /\ \A m \in Nat : p.start <= m /\ Greater(MemMin, r.min) <= m => x <= m
  BY <1>1, <1>2 DEF Greater
<1>4. PICK a \in Nat \ {0} : a = HoleAlign(r)
  BY RequestFields
<1>5. PICK up : up = AlignUp(x, a)
  OBVIOUS
<1>6. /\ up \in Nat /\ up % a = 0 /\ x <= up /\ up < x + a
      /\ \A m \in Nat : m % a = 0 /\ x <= m => up <= m
  BY <1>3, <1>5, AlignUpFacts, AlignUpNear
<1>h. HoleStart(p, r) = IF up < Word THEN up ELSE 0
  BY <1>2, <1>4, <1>5 DEF HoleStart
<1>t. TopClear(p, r) => up < Word
  <2>1. TopClear(p, r) => x + a <= Word
    BY <1>3, <1>4, Zenon DEF TopClear
  <2> QED
    BY <1>3, <1>6, <2>1, PageAssumption
<1>7. /\ HoleStart(p, r) \in Nat /\ HoleStart(p, r) % a = 0
      /\ TopClear(p, r) => x <= HoleStart(p, r)
      /\ \A m \in Nat : m % a = 0 /\ x <= m => HoleStart(p, r) <= m
  <2>1. CASE up < Word
    BY <1>3, <1>6, <1>h, <2>1
  <2>2. CASE ~(up < Word)
    <3>1. HoleStart(p, r) = 0 /\ ~TopClear(p, r)
      BY <1>h, <1>t, <2>2
    <3>2. 0 % a = 0
      BY ZeroMod
    <3> QED
      BY <3>1, <3>2
  <2> QED
    BY <2>1, <2>2
<1>8. /\ HoleEnd(p, r) \in Nat
      /\ HoleEnd(p, r) <= p.end /\ HoleEnd(p, r) <= MemMax /\ HoleEnd(p, r) <= r.max
      /\ \A m \in Nat : m <= p.end /\ m <= Lesser(MemMax, r.max) => m <= HoleEnd(p, r)
  BY <1>1 DEF HoleEnd, Lesser
<1> QED
  BY <1>1, <1>3, <1>4, <1>6, <1>7, <1>8

(* The base of a hole that fits: the request lies in the entry and within  *)
(* the limits, in whichever direction it was sought.                       *)
LEMMA HoleHolds ==
  ASSUME NEW p, p.start \in Nat, p.end \in Nat, NEW r \in FloatingRequest, Fits(p, r)
  PROVE  /\ HoleBase(p, r) \in Nat
         /\ TopClear(p, r) => p.start <= HoleBase(p, r) /\ MemMin <= HoleBase(p, r)
         /\ HoleBase(p, r) + r.memsz <= p.end
         /\ HoleBase(p, r) + r.memsz <= MemMax
         /\ HoleBase(p, r) + r.memsz <= r.max
<1>1. PICK h \in Nat : h = HoleStart(p, r)
  BY HoleLimits
<1>2. PICK e \in Nat : e = HoleEnd(p, r)
  BY HoleLimits
<1>3. PICK a \in Nat \ {0} : a = HoleAlign(r)
  BY RequestFields
<1>4. /\ h % a = 0 /\ e <= p.end /\ e <= MemMax /\ e <= r.max
      /\ TopClear(p, r) => p.start <= h /\ MemMin <= h
  BY <1>1, <1>2, <1>3, HoleLimits
<1>5. r.memsz \in Nat /\ r.max \in Nat /\ MemMin \in Nat /\ MemMax \in Nat
  BY RequestFields, LimitsAssumption
<1>6. h < e /\ e - h >= r.memsz
  BY <1>1, <1>2, Zenon DEF Fits
<1>7. PICK n \in Nat : n = e - r.memsz /\ h <= n
  <2>1. e - r.memsz \in Nat /\ h <= e - r.memsz
    BY <1>5, <1>6
  <2> QED
    BY <2>1
<1>8. PICK b \in Nat : b = HoleBase(p, r) /\ h <= b /\ b + r.memsz <= e
  <2>1. CASE r.dir > 0
    <3>1. HoleBase(p, r) = h
      BY <1>1, <2>1 DEF HoleBase
    <3> QED
      BY <1>5, <1>6, <3>1
  <2>2. CASE ~(r.dir > 0)
    <3>1. HoleBase(p, r) = AlignDown(n, a)
      BY <1>2, <1>3, <1>7, <2>2 DEF HoleBase
    <3>2. PICK d \in Nat : d = AlignDown(n, a)
      BY AlignDownFacts
    <3>3. d <= n /\ h <= d
      BY <1>4, <1>7, <3>2, AlignDownFacts, AlignDownAbove
    <3> QED
      BY <1>5, <1>7, <3>1, <3>2, <3>3
  <2> QED
    BY <2>1, <2>2
<1> QED
  BY <1>4, <1>5, <1>8

LEMMA FreeRangeBounds ==
  ASSUME NEW t \in Seq(Segment), NEW p \in FreeRanges(t)
  PROVE  /\ p.start \in Nat /\ p.end \in Nat /\ p.start <= Word
         /\ \E i \in Ram : p.start <= MEnd(i)
<1>1. PICK i \in Ram : p \in Gaps(t, i) \cup Remainder(t, i)
  BY DEF FreeRanges
<1>2. MStart(i) \in Nat /\ MEnd(i) \in Nat /\ MEnd(i) < Word
  BY RamBounds
<1>3. \A j \in DOMAIN t : t[j].mem \in Nat /\ End(t[j]) \in Nat
  BY SegmentFields
<1>4. Consumed(t, i) \subseteq DOMAIN t /\ LastConsumed(t, i) \subseteq DOMAIN t
  BY DEF Consumed, LastConsumed
<1>5. p.start <= p.end
  BY DEF FreeRanges
<1>6. CASE p \in Gaps(t, i)
  <2>1. PICK j \in Consumed(t, i) : p = [start |-> FreeFrom(t, i, j), end |-> t[j].mem - 1]
    BY <1>6 DEF Gaps
  <2>2. FreeFrom(t, i, j) \in Nat
    BY <1>2, <1>3, <1>4 DEF FreeFrom
  <2>3. t[j].mem \in Nat /\ t[j].mem <= MEnd(i)
    BY <1>3, <1>4 DEF Consumed
  <2> QED
    BY <1>2, <1>5, <2>1, <2>2, <2>3, PageAssumption
<1>7. CASE p \in Remainder(t, i)
  <2>1. CASE Consumed(t, i) = {}
    BY <1>2, <1>5, <1>7, <2>1, PageAssumption DEF Remainder
  <2>2. CASE Consumed(t, i) # {}
    <3>1. PICK j \in LastConsumed(t, i) : p = [start |-> End(t[j]), end |-> MEnd(i)]
      BY <1>7, <2>2 DEF Remainder
    <3> QED
      BY <1>2, <1>3, <1>4, <1>5, <3>1, PageAssumption
  <2> QED
    BY <2>1, <2>2
<1> QED
  BY <1>1, <1>6, <1>7

LEMMA EntryBelowTop ==
  ASSUME NEW t \in Seq(Segment), NEW p \in FreeRanges(t), NEW r, r.align \in Nat,
         r.min \in Nat, RoundsUp(r.min, r.align)
  PROVE  TopClear(p, r)
<1>1. p.start \in Nat
  BY FreeRangeBounds
<1>2. PICK i \in Ram : p.start <= MEnd(i)
  BY FreeRangeBounds
<1>3. MEnd(i) \in Nat
  BY RamBounds
<1>4. PICK a \in Nat : a = Greater(r.align, Page) /\ a = HoleAlign(r)
  BY PageAssumption DEF Greater, HoleAlign
<1>5. \A n \in {MemMin, r.min} \cup {MEnd(k) : k \in Ram} : n + a <= Word
  BY <1>4, Zenon DEF RoundsUp
<1>6. MemMin + a <= Word /\ r.min + a <= Word /\ MEnd(i) + a <= Word
  BY <1>5
<1>7. p.start + a <= Word
  BY <1>1, <1>2, <1>3, <1>6, PageAssumption
<1> QED
  BY <1>4, <1>6, <1>7, Zenon DEF TopClear

(* What locate_hole returns is clear of every segment, in RAM and within   *)
(* the limits.                                                             *)
LEMMA BaseClear ==
  ASSUME RamFits, RamApart, NEW t, Ready(t), NEW r \in FloatingRequest,
         RoundsUp(r.min, r.align), NEW b \in LocateHole(t, r)
  PROVE  /\ b \in Nat /\ MemMin <= b /\ b + r.memsz <= MemMax
         /\ \E i \in Ram : MStart(i) <= b /\ b + r.memsz <= MEnd(i)
         /\ \A k \in DOMAIN t : End(t[k]) <= b \/ b + r.memsz < t[k].mem
<1>1. PICK p \in FreeRanges(t) : Fits(p, r) /\ b = HoleBase(p, r)
  BY DEF LocateHole
<1>2. /\ p.start \in Nat /\ p.end \in Nat
      /\ \E i \in Ram : MStart(i) <= p.start /\ p.end <= MEnd(i)
      /\ \A k \in DOMAIN t : End(t[k]) <= p.start \/ p.end < t[k].mem
  BY HoleClear
<1>3. /\ b \in Nat /\ p.start <= b /\ MemMin <= b
      /\ b + r.memsz <= p.end /\ b + r.memsz <= MemMax
  <2>1. TopClear(p, r)
    <3>1. t \in Seq(Segment)
      BY DEF Ready
    <3> QED
      BY <3>1, EntryBelowTop, RequestFields, Zenon
  <2> QED
    BY <1>1, <1>2, <2>1, HoleHolds
<1>4. r.memsz \in Nat /\ \A i \in Ram : MStart(i) \in Nat /\ MEnd(i) \in Nat
  BY RequestFields, RamBounds
<1>5. \A k \in DOMAIN t : t[k].mem \in Nat /\ End(t[k]) \in Nat
  BY SegmentFields DEF Ready
<1>6. \E i \in Ram : MStart(i) <= b /\ b + r.memsz <= MEnd(i)
  BY <1>2, <1>3, <1>4
<1>7. \A k \in DOMAIN t : End(t[k]) <= b \/ b + r.memsz < t[k].mem
  BY <1>2, <1>3, <1>4, <1>5
<1> QED
  BY <1>3, <1>6, <1>7

(* Rounding a size up to whole pages does not reach beyond a page boundary *)
(* that the size itself does not reach.                                    *)
LEMMA RoundedClear ==
  ASSUME NEW n \in ULong, NEW b \in Nat, NEW m \in Nat,
         b % Page = 0, m % Page = 0, b + n <= m
  PROVE  b + RoundedSize(n) <= m
<1>1. PICK size \in Nat : size = RoundedSize(n)
  BY RoundedSizeFacts
<1>2. size % Page = 0 /\ size < n + Page
  BY <1>1, RoundedSizeFacts
<1>3. (b + size) % Page = 0 /\ b + size \in Nat
  BY <1>2, SumMod, PageAssumption
<1>4. b + size < m + Page
  BY <1>2, PageAssumption DEF ULong
<1> QED
  BY <1>1, <1>3, <1>4, MultipleOrder, PageAssumption

LEMMA SortingKeepsApart ==
  ASSUME NEW s \in Seq(Segment), Disjoint(s), NEW t \in SortedForms(s)
  PROVE  Disjoint(t)
<1>1. PICK p \in Arrangements(s) : t = [i \in DOMAIN s |-> s[p[i]]]
  BY DEF SortedForms
<1>2. /\ p \in [DOMAIN s -> DOMAIN s]
      /\ \A i, j \in DOMAIN s : p[i] = p[j] => i = j
  BY DEF Arrangements
<1>3. DOMAIN s = 1..Len(s) /\ Len(s) \in Nat /\ DOMAIN t = DOMAIN s
  BY <1>1
<1> SUFFICES ASSUME NEW i \in DOMAIN t, NEW j \in DOMAIN t, i < j
             PROVE  Apart(t[i], t[j])
  BY DEF Disjoint
<1>4. /\ p[i] \in DOMAIN s /\ p[j] \in DOMAIN s
      /\ t[i] = s[p[i]] /\ t[j] = s[p[j]]
  BY <1>1, <1>2, <1>3
<1>5. p[i] # p[j]
  BY <1>2, <1>3
<1>6. p[i] < p[j] \/ p[j] < p[i]
  BY <1>3, <1>4, <1>5
<1>7. Apart(s[p[i]], s[p[j]]) \/ Apart(s[p[j]], s[p[i]])
  BY <1>4, <1>6 DEF Disjoint
<1> QED
  BY <1>4, <1>7 DEF Apart

LEMMA AppendApart ==
  ASSUME NEW t \in Seq(Segment), Disjoint(t), NEW s \in Segment,
         \A k \in DOMAIN t : Apart(t[k], s)
  PROVE  Disjoint(Append(t, s))
<1> DEFINE u == Append(t, s)
<1>1. DOMAIN t = 1..Len(t) /\ Len(t) \in Nat /\ DOMAIN u = 1..Len(t) + 1
  OBVIOUS
<1>2. (\A i \in DOMAIN t : u[i] = t[i]) /\ u[Len(t) + 1] = s
  OBVIOUS
<1> HIDE DEF u
<1> SUFFICES ASSUME NEW i \in DOMAIN u, NEW j \in DOMAIN u, i < j
             PROVE  Apart(u[i], u[j])
  BY DEF Disjoint, u
<1>3. i \in DOMAIN t /\ (j \in DOMAIN t \/ j = Len(t) + 1)
  BY <1>1
<1>4. CASE j \in DOMAIN t
  BY <1>2, <1>3, <1>4 DEF Disjoint
<1>5. CASE j = Len(t) + 1
  BY <1>2, <1>3, <1>5
<1> QED
  BY <1>3, <1>4, <1>5

(* The list as add_buffer hands it to the merge.                           *)
LEMMA SortedReady ==
  ASSUME TypeOK, SegmentInv, NEW t \in SortedForms(segment), ~Overlapping(t)
  PROVE  Ready(t)
<1>1. segment \in Seq(Segment) /\ \A i \in DOMAIN segment : WellPlaced(segment[i])
  BY DEF TypeOK, SegmentInv
<1>2. /\ t \in Seq(Segment) /\ Sorted(t)
      /\ \A i \in DOMAIN t : \E j \in DOMAIN segment : t[i] = segment[j]
  BY <1>1, SortedFormsFacts
<1> QED
  BY <1>1, <1>2 DEF Ready

LEMMA BufferStepApart ==
  ASSUME RamFits, RamApart, TypeOK, SegmentInv, NEW r \in Floating, RoundsUp(r.min, r.align),
         AddBuffer(r), Disjoint(segment)
  PROVE  Disjoint(segment')
<1>1. r \in FloatingRequest /\ r.memsz \in ULong /\ r.bufsz \in ULong /\ r.memsz \in Nat
  BY RequestsAssumption, RequestFields
<1>2. PICK t \in SortedForms(segment) :
        \/ segment' = t
        \/ /\ ~Overlapping(t)
           /\ \E at \in LocateHole(t, r) : Place(t, r.bufsz, at, r.memsz, "bad hole")
  BY <1>1 DEF AddBuffer
<1>3. segment \in Seq(Segment)
  BY DEF TypeOK
<1>4. Disjoint(t) /\ t \in Seq(Segment)
  BY <1>3, SortingKeepsApart, SortedFormsFacts
<1>5. CASE segment' = t
  BY <1>4, <1>5
<1>6. ASSUME ~Overlapping(t), NEW at \in LocateHole(t, r),
             Place(t, r.bufsz, at, r.memsz, "bad hole")
      PROVE  Disjoint(segment')
  <2> DEFINE n == NewSegment(r.bufsz, at, r.memsz)
  <2>1. CASE segment' = t
    BY <1>4, <2>1
  <2>2. CASE at % Page = 0 /\ ValidMemorySegment(n) /\ segment' = Append(t, n)
    <3>1. Ready(t)
      BY <1>6, SortedReady
    <3>2. at \in Nat /\ \A k \in DOMAIN t : End(t[k]) <= at \/ at + r.memsz < t[k].mem
      BY <1>1, <1>6, <3>1, BaseClear
    <3>3. WellPlaced(n)
      BY <1>1, <2>2, <3>2, NewSegmentPlaced
    <3>4. n \in Segment /\ n.mem = at /\ n.memsz = RoundedSize(r.memsz)
      BY <3>3 DEF WellPlaced, NewSegment
    <3>5. ASSUME NEW k \in DOMAIN t PROVE Apart(t[k], n)
      <4>1. t[k].mem \in Nat /\ t[k].mem % Page = 0
        BY <1>4, <3>1, SegmentFields DEF Ready, WellPlaced
      <4>2. CASE End(t[k]) <= at
        BY <3>4, <4>2 DEF Apart
      <4>3. CASE at + r.memsz < t[k].mem
        <5>1. at + r.memsz <= t[k].mem
          BY <1>1, <3>2, <4>1, <4>3
        <5>2. at + RoundedSize(r.memsz) <= t[k].mem
          BY <1>1, <2>2, <3>2, <4>1, <5>1, RoundedClear
        <5> QED
          BY <3>4, <5>2 DEF Apart, End
      <4> QED
        BY <3>2, <4>2, <4>3
    <3> QED
      BY <1>4, <2>2, <3>4, <3>5, AppendApart
  <2> QED
    BY <1>6, <2>1, <2>2 DEF Place
<1> QED
  BY <1>2, <1>5, <1>6

(* locate_hole never lays a buffer over a segment, whatever the segments   *)
(* and the request: in RAM ranges that are apart, each entry of the merge  *)
(* lies between two segments, and rounding the size up stays there.  No    *)
(* hole may be sought at the end of the address space (RoundsUp).          *)
THEOREM BuffersApart ==
  ASSUME RamFits, RamApart, \A r \in Floating : RoundsUp(r.min, r.align)
  PROVE  Spec => BufferAvoidsSegments
<1>1. TypeOK /\ SegmentInv =>
        \A r \in Floating : AddBuffer(r) /\ Disjoint(segment) => Disjoint(segment')
  BY BufferStepApart
<1> QED
  BY <1>1, SegmentInit, SegmentNext, PTL DEF Spec, BufferAvoidsSegments

-----------------------------------------------------------------------------
(* Completeness of the search *)

LEMMA Least ==
  ASSUME NEW T, T \subseteq Nat, T # {}
  PROVE  \E x \in T : \A y \in T : x <= y
<1>1. IsWellFoundedOn(OpToRel(<, Nat), Nat)
  BY NatLessThanWellFounded
<1>2. PICK x \in T : \A y \in T : ~(<<y, x>> \in OpToRel(<, Nat))
  BY <1>1, WFMin
<1>3. \A y \in T : ~(y < x)
  BY <1>2 DEF OpToRel
<1> QED
  BY <1>3

LEMMA Greatest ==
  ASSUME NEW T, T \subseteq Nat, T # {}, NEW b \in Nat, \A y \in T : y <= b
  PROVE  \E x \in T : \A y \in T : y <= x
<1> DEFINE D == {d \in Nat : b - d \in T}
<1>1. D # {} /\ D \subseteq Nat
  <2>1. PICK y \in T : TRUE
    OBVIOUS
  <2>2. b - y \in D
    BY <2>1
  <2> QED
    BY <2>2
<1> HIDE DEF D
<1>2. PICK d \in D : \A y \in D : d <= y
  BY <1>1, Least
<1>3. b - d \in T /\ d \in Nat
  BY <1>2 DEF D
<1>4. \A y \in T : b - y \in D /\ y \in Nat
  BY DEF D
<1> QED
  BY <1>2, <1>3, <1>4

(* Room between the segments of a range is in an entry of the free list:   *)
(* the gap before the first segment beyond it, or what is left after the   *)
(* last.                                                                   *)
LEMMA RoomIsFree ==
  ASSUME NEW t \in Seq(Segment), NEW i \in Ram, NEW b \in Nat, NEW last \in Nat,
         b < last - 1, MStart(i) <= b, last <= MEnd(i),
         \A j \in DOMAIN t : last <= t[j].mem \/ b >= End(t[j])
  PROVE  \E p \in FreeRanges(t) : p.start <= b /\ last - 1 <= p.end
<1> DEFINE A == {j \in Consumed(t, i) : last <= t[j].mem}
<1>1. MStart(i) \in Nat /\ MEnd(i) \in Nat
  BY RamBounds
<1>2. DOMAIN t = 1..Len(t) /\ Len(t) \in Nat /\ Consumed(t, i) \subseteq DOMAIN t
  BY DEF Consumed
<1>3. \A j \in DOMAIN t : t[j].mem \in Nat /\ End(t[j]) \in Nat
  BY SegmentFields
<1>5. CASE A # {}
  <2>1. A \subseteq Nat
    BY <1>2
  <2>2. PICK j \in A : \A k \in A : j <= k
    BY <1>5, <2>1, Least
  <2>3. j \in Consumed(t, i) /\ j \in DOMAIN t /\ last <= t[j].mem /\ j \in Nat
    BY <1>2, <2>2
  <2> DEFINE p == [start |-> FreeFrom(t, i, j), end |-> t[j].mem - 1]
  <2>4. p \in Gaps(t, i) /\ p.start = FreeFrom(t, i, j) /\ p.end = t[j].mem - 1
    BY <2>3 DEF Gaps
  <2>5. FreeFrom(t, i, j) \in Nat /\ FreeFrom(t, i, j) <= b
    <3>1. CASE j - 1 \in Consumed(t, i)
      <4>1. j - 1 \notin A
        BY <2>2, <2>3
      <4>2. j - 1 \in DOMAIN t /\ ~(last <= t[j - 1].mem)
        BY <1>2, <3>1, <4>1
      <4> QED
        BY <1>3, <3>1, <4>2 DEF FreeFrom
    <3>2. CASE j - 1 \notin Consumed(t, i)
      BY <1>1, <3>2 DEF FreeFrom
    <3> QED
      BY <3>1, <3>2
  <2>6. p.start <= b /\ last - 1 <= p.end /\ p.start <= p.end
    BY <1>3, <2>3, <2>4, <2>5
  <2> HIDE DEF p
  <2>7. p \in FreeRanges(t)
    BY <2>4, <2>6 DEF FreeRanges
  <2> QED
    BY <2>6, <2>7
<1>6. CASE A = {} /\ Consumed(t, i) = {}
  <2> DEFINE p == [start |-> MStart(i), end |-> MEnd(i)]
  <2>1. p \in Remainder(t, i) /\ p.start <= b /\ last - 1 <= p.end /\ p.start <= p.end
    BY <1>1, <1>6 DEF Remainder
  <2> HIDE DEF p
  <2>2. p \in FreeRanges(t)
    BY <2>1 DEF FreeRanges
  <2> QED
    BY <2>1, <2>2
<1>7. CASE A = {} /\ Consumed(t, i) # {}
  <2>1. Consumed(t, i) \subseteq Nat /\ \A k \in Consumed(t, i) : k <= Len(t)
    BY <1>2
  <2>2. PICK j \in Consumed(t, i) : \A k \in Consumed(t, i) : k <= j
    BY <1>2, <1>7, <2>1, Greatest
  <2>3. j \in LastConsumed(t, i)
    BY <2>2 DEF LastConsumed
  <2>4. End(t[j]) \in Nat /\ End(t[j]) <= b
    BY <1>2, <1>3, <1>7, <2>2
  <2> DEFINE p == [start |-> End(t[j]), end |-> MEnd(i)]
  <2>5. p \in Remainder(t, i)
    BY <1>7, <2>3 DEF Remainder
  <2>6. p.start <= b /\ last - 1 <= p.end /\ p.start <= p.end
    BY <1>1, <2>4
  <2> HIDE DEF p
  <2>7. p \in FreeRanges(t)
    BY <2>5, <2>6 DEF FreeRanges
  <2> QED
    BY <2>6, <2>7
<1> QED
  BY <1>5, <1>6, <1>7

(* Where there is room, locate_hole finds a hole: the entry with the room  *)
(* fits, so some entry does, and the first or the last of them is chosen.  *)
LEMMA RoomMeansHole ==
  ASSUME NEW t \in Seq(Segment), NEW r \in FloatingRequest, NEW b \in Nat, RoomAt(t, r, b)
  PROVE  LocateHole(t, r) # {}
<1>1. /\ r.memsz \in Nat /\ r.min \in Nat /\ r.max \in Nat
      /\ MemMin \in Nat /\ MemMax \in Nat
  BY RequestFields, LimitsAssumption
<1>2. PICK size \in Nat : size = Greater(r.memsz, 1) /\ size >= 1 /\ size >= r.memsz
  BY <1>1 DEF Greater
<1>3. PICK last \in Nat : last = b + size + 1
  OBVIOUS
<1>4. /\ b % HoleAlign(r) = 0 /\ b >= Greater(MemMin, r.min)
      /\ last <= Lesser(MemMax, r.max)
      /\ \E i \in Ram : MStart(i) <= b /\ last <= MEnd(i)
      /\ \A j \in DOMAIN t : last <= t[j].mem \/ b >= End(t[j])
  BY <1>2, <1>3 DEF RoomAt
<1>5. PICK i \in Ram : MStart(i) <= b /\ last <= MEnd(i)
  BY <1>4
<1>6. b < last - 1 /\ last - 1 \in Nat /\ last - 1 - b >= r.memsz
  BY <1>1, <1>2, <1>3
<1>7. PICK p \in FreeRanges(t) : p.start <= b /\ last - 1 <= p.end
  BY <1>4, <1>5, <1>6, RoomIsFree
<1>8. p.start \in Nat /\ p.end \in Nat
  BY FreeRangeBounds
<1>9. HoleStart(p, r) \in Nat /\ HoleStart(p, r) <= b
  <2>1. Greater(MemMin, r.min) <= b
    BY <1>1, <1>4 DEF Greater
  <2> QED
    BY <1>4, <1>7, <1>8, <2>1, HoleLimits
<1>10. HoleEnd(p, r) \in Nat /\ last - 1 <= HoleEnd(p, r)
  <2>1. last - 1 <= Lesser(MemMax, r.max)
    BY <1>1, <1>4 DEF Lesser
  <2> QED
    BY <1>6, <1>7, <1>8, <2>1, HoleLimits
<1>11. b < MemMax /\ MemMin <= b
  BY <1>1, <1>4, <1>6 DEF Lesser, Greater
<1>12. Fits(p, r)
  BY <1>1, <1>6, <1>9, <1>10, <1>11 DEF Fits
<1> DEFINE fit == {q \in FreeRanges(t) : Fits(q, r)}
           starts == {q.start : q \in fit}
<1>13. \A q \in fit : q.start \in Nat /\ q.end \in Nat /\ q.start <= Word
  BY FreeRangeBounds
<1>14. starts \subseteq Nat /\ starts # {} /\ \A x \in starts : x <= Word
  <2>1. p.start \in starts
    BY <1>7, <1>12
  <2> QED
    BY <1>13, <2>1
<1>15. PICK q \in fit : \A z \in fit :
         IF r.dir > 0 THEN q.start <= z.start ELSE q.start >= z.start
  <2>1. CASE r.dir > 0
    <3>1. PICK x \in starts : \A y \in starts : x <= y
      BY <1>14, Least
    <3>2. PICK q \in fit : q.start = x
      OBVIOUS
    <3>3. \A z \in fit : q.start <= z.start
      BY <3>1, <3>2
    <3> QED
      BY <2>1, <3>3
  <2>2. CASE ~(r.dir > 0)
    <3>1. PICK x \in starts : \A y \in starts : y <= x
      BY <1>14, Greatest, PageAssumption
    <3>2. PICK q \in fit : q.start = x
      OBVIOUS
    <3>3. \A z \in fit : q.start >= z.start
      BY <1>13, <3>1, <3>2
    <3> QED
      BY <2>2, <3>3
  <2> QED
    BY <2>1, <2>2
<1>16. HoleBase(q, r) + r.memsz <= r.max
  BY <1>13, HoleHolds
<1>17. HoleBase(q, r) \in LocateHole(t, r)
  BY <1>15, <1>16 DEF LocateHole
<1> QED
  BY <1>17

(* A size in whole pages is not changed by the rounding.                   *)
LEMMA RoundedWhole ==
  ASSUME NEW n \in ULong, n % Page = 0
  PROVE  RoundedSize(n) = n
<1>1. n \in Nat /\ n < Word /\ Word \in Nat /\ Page \in Nat \ {0} /\ Word % Page = 0
  BY PageAssumption DEF ULong
<1>2. Page % Page = 0
  BY <1>1
<1>3. (n + Page) % Page = 0 /\ n + Page \in Nat
  <2>1. n + Page \in Nat /\ Page \in Nat
    BY <1>1
  <2> QED
    BY <1>1, <1>2, <2>1, SumMod, Zenon
<1>4. n + Page <= Word
  BY <1>1, <1>3, MultipleOrder
<1>5. PICK w \in Nat : w = n + (Page - 1) /\ w < Word
  BY <1>1, <1>4
<1>6. Wrap(n + (Page - 1)) = w
  BY <1>1, <1>5 DEF Wrap
<1>7. PICK d \in Nat : d = AlignDown(w, Page)
  BY <1>1, AlignDownFacts
<1>8. n <= d
  BY <1>1, <1>5, <1>7, AlignDownAbove
<1>9. d % Page = 0 /\ d <= w
  BY <1>1, <1>7, AlignDownFacts
<1>10. d <= n
  <2>1. d < n + Page
    BY <1>1, <1>5, <1>9
  <2> QED
    BY <1>1, <1>9, <2>1, MultipleOrder, Zenon
<1> QED
  BY <1>1, <1>6, <1>7, <1>8, <1>10 DEF RoundedSize

(* add_segment takes the hole for a size in whole pages.                   *)
LEMMA WholeHoleValid ==
  ASSUME RamFits, RamApart, NEW t, Ready(t), NEW r \in FloatingRequest,
         RoundsUp(r.min, r.align), NEW b \in LocateHole(t, r), r.memsz > 0, r.memsz % Page = 0
  PROVE  ValidMemorySegment(NewSegment(r.bufsz, b, r.memsz))
<1>1. r.memsz \in Nat /\ r.memsz \in ULong /\ MemMax \in Nat /\ MemMin \in Nat
  BY RequestFields, LimitsAssumption
<1>2. b \in Nat /\ MemMin <= b /\ b + r.memsz <= MemMax
  BY BaseClear
<1>3. PICK i \in Ram : MStart(i) <= b /\ b + r.memsz <= MEnd(i)
  BY BaseClear
<1>4. MStart(i) \in Nat /\ MEnd(i) \in Nat /\ MEnd(i) < Word
  BY RamBounds
<1>5. RoundedSize(r.memsz) = r.memsz
  BY <1>1, RoundedWhole
<1>6. PICK send \in Nat : send = (b + r.memsz) - 1
  BY <1>1, <1>2
<1>7. Wrap((b + r.memsz) - 1) = send
  BY <1>1, <1>2, <1>3, <1>4, <1>6, PageAssumption DEF Wrap
<1>8. ValidMemoryRange(b, send)
  <2>1. b <= send /\ send <= MemMax /\ b >= MemMin
    BY <1>1, <1>2, <1>6
  <2>2. MStart(i) <= b /\ MEnd(i) >= send
    BY <1>1, <1>2, <1>3, <1>4, <1>6
  <2> QED
    BY <2>1, <2>2 DEF ValidMemoryRange
<1>9. PICK n : n = NewSegment(r.bufsz, b, r.memsz)
  OBVIOUS
<1>10. n.mem = b /\ n.memsz = r.memsz
  BY <1>5, <1>9 DEF NewSegment
<1> QED
  BY <1>7, <1>8, <1>9, <1>10 DEF ValidMemorySegment, End

(* A process that died has ended: what it died of stays as it was.         *)
DeathInv == died # "no" => phase = "ended"

LEMMA DeathInit == Init => DeathInv /\ HoleUsable /\ NoHoleMeansFull
BY DEF Init, DeathInv, HoleUsable, NoHoleMeansFull

LEMMA PlaceDies ==
  ASSUME NEW t, NEW bufsz, NEW at, NEW memsz, NEW reason,
         Place(t, bufsz, at, memsz, reason)
  PROVE  \/ phase' = phase /\ died' = died
         \/ phase' = "ended" /\ died' = "misaligned"
         \/ /\ phase' = "ended" /\ died' = reason /\ memsz > 0
            /\ ~ValidMemorySegment(NewSegment(bufsz, at, memsz))
BY DEF Place, Die

LEMMA DeathNext ==
  ASSUME TypeOK, DeathInv, [Next]_vars
  PROVE  DeathInv'
<1>1. ASSUME NEW r \in Fixed, AddSegment(r) PROVE DeathInv'
  <2>1. Place(segment, r.bufsz, r.base, r.memsz, "invalid") /\ phase = "load"
    BY <1>1 DEF AddSegment
  <2> QED
    BY <2>1, PlaceDies DEF DeathInv
<1>2. ASSUME NEW r \in Floating, AddBuffer(r) PROVE DeathInv'
  <2>1. PICK t \in SortedForms(segment) :
          \/ phase' = "ended"
          \/ \E at \in LocateHole(t, r) : Place(t, r.bufsz, at, r.memsz, "bad hole")
    BY <1>2 DEF AddBuffer, Die
  <2>2. phase = "load"
    BY <1>2 DEF AddBuffer
  <2> QED
    BY <2>1, <2>2, PlaceDies DEF DeathInv
<1>3. CASE LoaderReturns
  BY <1>3 DEF LoaderReturns, DeathInv
<1>4. CASE LoaderFails
  BY <1>4 DEF LoaderFails, DeathInv
<1>5. CASE Verify
  BY <1>5 DEF Verify, DeathInv
<1>6. CASE Sort
  BY <1>6 DEF Sort, DeathInv
<1>7. CASE KexecLoad
  BY <1>7 DEF KexecLoad, DeathInv
<1>8. CASE KexecLoadFails
  BY <1>8 DEF KexecLoadFails, DeathInv
<1>9. CASE NextRun
  BY <1>9 DEF NextRun, DeathInv
<1>10. CASE Unload
  BY <1>10 DEF Unload, DeathInv
<1>11. CASE UNCHANGED vars
  BY <1>11 DEF vars, DeathInv
<1> QED
  BY <1>1, <1>2, <1>3, <1>4, <1>5, <1>6, <1>7, <1>8, <1>9, <1>10, <1>11 DEF Next

(* What a step may do to the verdict of locate_hole: only add_buffer gives *)
(* one, and it stands until kexec is run again.                            *)
LEMMA VerdictSteps ==
  ASSUME TypeOK, DeathInv, [Next]_vars
  PROVE  \/ \E r \in Floating : AddBuffer(r)
         \/ UNCHANGED <<segment, died, request>>
         \/ died' \notin {"no hole", "bad hole"}
<1>1. ASSUME NEW r \in Fixed, AddSegment(r) PROVE died' \notin {"no hole", "bad hole"}
  <2>1. /\ Place(segment, r.bufsz, r.base, r.memsz, "invalid")
        /\ phase = "load" /\ died = "no"
    BY <1>1 DEF AddSegment, DeathInv
  <2>2. died' \in {"no", "misaligned", "invalid"}
    BY <2>1, PlaceDies
  <2> QED
    BY <2>2
<1>2. CASE Sort
  BY <1>2 DEF Sort, DeathInv
<1>3. CASE NextRun
  BY <1>3 DEF NextRun
<1>4. CASE \/ LoaderReturns \/ LoaderFails \/ Verify \/ KexecLoad \/ KexecLoadFails
           \/ Unload \/ UNCHANGED vars
  BY <1>4 DEF LoaderReturns, LoaderFails, Verify, KexecLoad, KexecLoadFails, Unload, vars
<1> QED
  BY <1>1, <1>2, <1>3, <1>4 DEF Next

LEMMA UsableNext ==
  ASSUME RamFits, RamApart, \A r \in Floating : RoundsUp(r.min, r.align),
         TypeOK, SegmentInv, DeathInv, HoleUsable, [Next]_vars
  PROVE  HoleUsable'
<1>1. ASSUME NEW r \in Floating, AddBuffer(r), died' = "bad hole"
      PROVE  request'.memsz % Page # 0
  <2>1. phase = "load" /\ died = "no"
    BY <1>1 DEF AddBuffer, DeathInv
  <2>2. r \in FloatingRequest
    BY RequestsAssumption
  <2>3. PICK t \in SortedForms(segment) :
          /\ ~Overlapping(t)
          /\ \E at \in LocateHole(t, r) : Place(t, r.bufsz, at, r.memsz, "bad hole")
          /\ request' = r
    BY <1>1 DEF AddBuffer, Die
  <2>4. PICK at \in LocateHole(t, r) : Place(t, r.bufsz, at, r.memsz, "bad hole")
    BY <2>3
  <2>5. r.memsz > 0 /\ ~ValidMemorySegment(NewSegment(r.bufsz, at, r.memsz))
    BY <1>1, <2>1, <2>4, PlaceDies
  <2>6. Ready(t)
    BY <2>3, SortedReady
  <2> QED
    BY <2>2, <2>3, <2>5, <2>6, WholeHoleValid
<1> QED
  BY <1>1, VerdictSteps DEF HoleUsable

LEMMA FullNext ==
  ASSUME TypeOK, DeathInv, NoHoleMeansFull, [Next]_vars
  PROVE  NoHoleMeansFull'
<1>1. ASSUME NEW r \in Floating, AddBuffer(r), died' = "no hole", NEW b \in 0..Word
      PROVE  ~RoomAt(segment', request', b)
  <2>1. phase = "load" /\ died = "no"
    BY <1>1 DEF AddBuffer, DeathInv
  <2>2. r \in FloatingRequest /\ segment \in Seq(Segment) /\ b \in Nat
    <3>1. r \in FloatingRequest
      BY RequestsAssumption
    <3>2. segment \in Seq(Segment)
      BY DEF TypeOK
    <3>3. b \in Nat
      BY PageAssumption
    <3> QED
      BY <3>1, <3>2, <3>3
  <2>3. PICK t \in SortedForms(segment) :
          \/ Die("overlap")
          \/ segment' = t /\ request' = r /\ LocateHole(t, r) = {}
          \/ \E at \in LocateHole(t, r) : Place(t, r.bufsz, at, r.memsz, "bad hole")
    BY <1>1 DEF AddBuffer
  <2>4. ~Die("overlap")
    BY <1>1 DEF Die
  <2>5. ASSUME NEW at \in LocateHole(t, r), Place(t, r.bufsz, at, r.memsz, "bad hole")
        PROVE  FALSE
    <3>1. died' \in {"no", "misaligned", "bad hole"}
      BY <2>1, <2>5, PlaceDies
    <3> QED
      BY <1>1, <3>1
  <2>6. t \in Seq(Segment)
    BY <2>2, SortedFormsFacts
  <2> QED
    BY <2>2, <2>3, <2>4, <2>5, <2>6, RoomMeansHole
<1>2. CASE UNCHANGED <<segment, died, request>>
  BY <1>2 DEF NoHoleMeansFull, RoomAt, HoleAlign
<1>3. CASE died' \notin {"no hole", "bad hole"}
  BY <1>3 DEF NoHoleMeansFull
<1>4. CASE \E r \in Floating : AddBuffer(r)
  BY <1>1, <1>4 DEF NoHoleMeansFull
<1> QED
  BY <1>2, <1>3, <1>4, VerdictSteps

(* A hole that locate_hole offers is refused by add_segment only for a     *)
(* size that is not in whole pages.                                        *)
THEOREM HolesUsable ==
  ASSUME RamFits, RamApart, \A r \in Floating : RoundsUp(r.min, r.align)
  PROVE  Spec => []HoleUsable
<1>1. TypeOK /\ SegmentInv /\ DeathInv /\ HoleUsable /\ [Next]_vars
        => (TypeOK /\ SegmentInv)' /\ DeathInv' /\ HoleUsable'
  BY SegmentNext, DeathNext, UsableNext
<1> QED
  BY <1>1, SegmentInit, DeathInit, PTL DEF Spec

(* When locate_hole fails, no aligned base within the limits has room for  *)
(* the buffer and one byte more: the search misses no range and no gap.    *)
THEOREM NoHoleOverlooked ==
  ASSUME RamFits
  PROVE  Spec => []NoHoleMeansFull
<1>1. TypeOK /\ SegmentInv /\ DeathInv /\ NoHoleMeansFull /\ [Next]_vars
        => (TypeOK /\ SegmentInv)' /\ DeathInv' /\ NoHoleMeansFull'
  BY SegmentNext, DeathNext, FullNext
<1> QED
  BY <1>1, SegmentInit, DeathInit, PTL DEF Spec

-----------------------------------------------------------------------------
(* The length of the free list *)

LEMMA PositionCount ==
  ASSUME NEW n \in Nat
  PROVE  IsFiniteSet(1..n) /\ Cardinality(1..n) = n
<1>1. /\ IsFiniteSet(1..n)
      /\ Cardinality(1..n) = IF 1 > n THEN 0 ELSE n - 1 + 1
  BY FS_Interval
<1> QED
  BY <1>1

(* The merge consumes a segment at one range only.                         *)
LEMMA ConsumedOnce ==
  ASSUME NEW t \in Seq(Segment), NEW i \in Ram, NEW k \in Ram, NEW j,
         j \in Consumed(t, i), j \in Consumed(t, k)
  PROVE  i = k
<1>1. j \in DOMAIN t /\ t[j].mem \in Nat
  BY SegmentFields DEF Consumed
<1>2. i \in Nat /\ k \in Nat /\ MEnd(i) \in Nat /\ MEnd(k) \in Nat
  BY RamBounds
<1>3. /\ t[j].mem <= MEnd(i) /\ (k < i => t[j].mem > MEnd(k))
      /\ t[j].mem <= MEnd(k) /\ (i < k => t[j].mem > MEnd(i))
  BY DEF Consumed
<1> QED
  BY <1>1, <1>2, <1>3

(* At most one gap for each segment and one remainder for each RAM range.  *)
LEMMA FreeListLength ==
  ASSUME NEW t \in Seq(Segment)
  PROVE  /\ IsFiniteSet(FreeRanges(t)) /\ IsFiniteSet(Ram)
         /\ Cardinality(FreeRanges(t)) <= Len(t) + Cardinality(Ram)
<1> DEFINE RangeOf(j) == CHOOSE i \in Ram : j \in Consumed(t, i)
           gap == [j \in DOMAIN t |-> [start |-> FreeFrom(t, RangeOf(j), j), end |-> t[j].mem - 1]]
           rest == [i \in Ram |-> CHOOSE p \in Remainder(t, i) : TRUE]
           G == {gap[j] : j \in DOMAIN t}
           R == {rest[i] : i \in Ram}
<1>1. /\ DOMAIN t = 1..Len(t) /\ Len(t) \in Nat
      /\ DOMAIN Ranges = 1..Len(Ranges) /\ Len(Ranges) \in Nat
  BY RangesAssumption
<1>2. /\ IsFiniteSet(DOMAIN t) /\ Cardinality(DOMAIN t) = Len(t)
      /\ IsFiniteSet(DOMAIN Ranges)
  BY <1>1, PositionCount
<1>3. IsFiniteSet(Ram) /\ Cardinality(Ram) \in Nat
  <2>1. Ram \in SUBSET DOMAIN Ranges
    BY DEF Ram
  <2> QED
    BY <1>2, <2>1, FS_Subset, FS_CardinalityType
<1>4. FreeRanges(t) \subseteq G \cup R
  <2> SUFFICES ASSUME NEW i \in Ram, NEW p \in Gaps(t, i) \cup Remainder(t, i)
               PROVE  p \in G \cup R
    BY DEF FreeRanges
  <2>1. CASE p \in Gaps(t, i)
    <3>1. PICK j \in Consumed(t, i) : p = [start |-> FreeFrom(t, i, j), end |-> t[j].mem - 1]
      BY <2>1 DEF Gaps
    <3>2. j \in DOMAIN t
      BY DEF Consumed
    <3>3. RangeOf(j) \in Ram /\ j \in Consumed(t, RangeOf(j))
      BY <3>1
    <3>4. RangeOf(j) = i
      BY <3>1, <3>3, ConsumedOnce
    <3>5. gap[j] = p
      BY <3>1, <3>2, <3>4
    <3> QED
      BY <3>2, <3>5
  <2>2. CASE p \in Remainder(t, i)
    <3>1. \A q \in Remainder(t, i) : q = p
      <4>1. CASE Consumed(t, i) = {}
        BY <2>2, <4>1 DEF Remainder
      <4>2. CASE Consumed(t, i) # {}
        <5>1. \A j, k \in LastConsumed(t, i) : j = k
          <6>1. \A j, k \in LastConsumed(t, i) : j <= k /\ k <= j /\ j \in Nat /\ k \in Nat
            BY <1>1 DEF LastConsumed, Consumed
          <6> QED
            BY <6>1
        <5> QED
          BY <2>2, <4>2, <5>1 DEF Remainder
      <4> QED
        BY <4>1, <4>2
    <3>2. rest[i] = p
      BY <2>2, <3>1
    <3> QED
      BY <3>2
  <2> QED
    BY <2>1, <2>2
<1>5. gap \in Surjection(DOMAIN t, G) /\ rest \in Surjection(Ram, R)
  <2> HIDE DEF At
  <2>1. gap \in [DOMAIN t -> G] /\ rest \in [Ram -> R]
    OBVIOUS
  <2> HIDE DEF gap, rest
  <2>2. /\ \A g \in G : \E j \in DOMAIN t : gap[j] = g
        /\ \A g \in R : \E i \in Ram : rest[i] = g
    OBVIOUS
  <2> QED
    BY <2>1, <2>2 DEF Surjection
<1> HIDE DEF At, gap, rest, G, R
<1>6. IsFiniteSet(G) /\ Cardinality(G) <= Len(t)
  BY <1>2, <1>5, FS_Surjection
<1>7. IsFiniteSet(R) /\ Cardinality(R) <= Cardinality(Ram)
  BY <1>3, <1>5, FS_Surjection
<1>8. /\ IsFiniteSet(G \cup R)
      /\ Cardinality(G \cup R) = Cardinality(G) + Cardinality(R) - Cardinality(G \cap R)
  BY <1>6, <1>7, FS_Union
<1>9. Cardinality(G) \in Nat /\ Cardinality(R) \in Nat /\ Cardinality(G \cap R) \in Nat
  BY <1>6, <1>7, FS_Intersection, FS_CardinalityType
<1>10. /\ IsFiniteSet(FreeRanges(t)) /\ Cardinality(FreeRanges(t)) \in Nat
       /\ Cardinality(FreeRanges(t)) <= Cardinality(G \cup R)
  BY <1>4, <1>8, FS_Subset, FS_CardinalityType
<1>11. Cardinality(G \cup R) \in Nat
  BY <1>8, FS_CardinalityType
<1> QED
  BY <1>1, <1>3, <1>6, <1>7, <1>8, <1>9, <1>10, <1>11

(* The free list of locate_hole fits the memory it allocates, on a machine *)
(* with a range that is not RAM: there is an entry for each range and one  *)
(* for each segment, less one.                                             *)
THEOREM FreeListAlwaysFits ==
  ASSUME RamFits, Ram # DOMAIN Ranges
  PROVE  Spec => []FreeListFits
<1>1. Len(Ranges) \in Nat /\ Cardinality(Ram) \in Nat /\ Cardinality(Ram) <= Len(Ranges) - 1
  <2>1. DOMAIN Ranges = 1..Len(Ranges) /\ Len(Ranges) \in Nat
    BY RangesAssumption
  <2>2. IsFiniteSet(DOMAIN Ranges) /\ Cardinality(DOMAIN Ranges) = Len(Ranges)
    BY <2>1, PositionCount
  <2>3. Ram \in SUBSET DOMAIN Ranges
    BY DEF Ram
  <2>4. /\ IsFiniteSet(Ram) /\ Cardinality(Ram) <= Len(Ranges)
        /\ Cardinality(Ram) # Len(Ranges)
    BY <2>2, <2>3, FS_Subset
  <2>5. Cardinality(Ram) \in Nat
    BY <2>4, FS_CardinalityType
  <2> QED
    BY <2>1, <2>4, <2>5
<1>2. ASSUME TypeOK PROVE FreeListFits
  <2>1. segment \in Seq(Segment)
    BY <1>2 DEF TypeOK
  <2>2. ASSUME NEW t \in SortedForms(segment)
        PROVE  Cardinality(FreeRanges(t)) <= Len(Ranges) + Len(t) - 1
    <3>1. t \in Seq(Segment)
      BY <2>1, SortedFormsFacts
    <3>2. /\ IsFiniteSet(FreeRanges(t))
          /\ Cardinality(FreeRanges(t)) <= Len(t) + Cardinality(Ram)
      BY <3>1, FreeListLength
    <3>3. Cardinality(FreeRanges(t)) \in Nat /\ Len(t) \in Nat
      BY <3>1, <3>2, FS_CardinalityType
    <3> QED
      BY <1>1, <3>2, <3>3
  <2> QED
    BY <2>2 DEF FreeListFits
<1> QED
  BY <1>2, SegmentInit, SegmentNext, PTL DEF Spec

-----------------------------------------------------------------------------
(* Recursive functions: induction over their arguments *)

(* Induction up to n, and the functions it defines.                        *)
LEMMA UpTo ==
  ASSUME NEW n \in Nat, NEW T, 0 \in T, \A i \in 0..n - 1 : i \in T => i + 1 \in T
  PROVE  n \in T
<1> DEFINE U == {i \in 0..n : i \notin T}
<1>1. SUFFICES ASSUME U # {} PROVE FALSE
  <2>1. n \in 0..n
    OBVIOUS
  <2> QED
    BY <2>1
<1>2. U \subseteq Nat
  OBVIOUS
<1>3. PICK x \in U : \A y \in U : x <= y
  <2> HIDE DEF U
  <2> QED
    BY <1>1, <1>2, Least
<1>4. x # 0 /\ x - 1 \in 0..n - 1
  OBVIOUS
<1>5. x - 1 \in T
  BY <1>3, <1>4
<1> QED
  BY <1>4, <1>5

(* f[0] is x, and g says how each value follows from the last one.         *)
Follows(f, g, x, n) == f[0] = x /\ \A i \in 1..n : f[i] = g[i][f[i - 1]]

LEMMA RecursionExists ==
  ASSUME NEW n \in Nat, NEW S, NEW x \in S, NEW g,
         \A i \in 1..n : \A y \in S : g[i][y] \in S
  PROVE  \E f \in [0..n -> S] : Follows(f, g, x, n)
<1> DEFINE E == {k \in 0..n : \E f \in [0..k -> S] : Follows(f, g, x, k)}
<1>1. 0 \in E
  <2> DEFINE f == [i \in 0..0 |-> x]
  <2>1. f \in [0..0 -> S] /\ Follows(f, g, x, 0)
    BY DEF Follows
  <2>2. 0 \in 0..n
    OBVIOUS
  <2> HIDE DEF f
  <2> QED
    BY <2>1, <2>2
<1>2. ASSUME NEW k \in 0..n - 1, k \in E PROVE k + 1 \in E
  <2>1. PICK f \in [0..k -> S] : Follows(f, g, x, k)
    BY <1>2
  <2> DEFINE next == g[k + 1][f[k]]
             h == [i \in 0..k + 1 |-> IF i <= k THEN f[i] ELSE next]
  <2>2. k \in 0..k /\ k + 1 \in 1..n /\ k + 1 \in 0..n /\ (k + 1) - 1 = k
    OBVIOUS
  <2>3. f[k] \in S
    BY <2>2
  <2>4. next \in S
    BY <2>2, <2>3
  <2>5. h \in [0..k + 1 -> S] /\ h[0] = f[0]
    <3> HIDE DEF next
    <3> QED
      BY <2>4
  <2>6. ASSUME NEW i \in 1..k + 1 PROVE h[i] = g[i][h[i - 1]]
    <3>1. h[i - 1] = f[i - 1]
      OBVIOUS
    <3>2. CASE i = k + 1
      <4>1. h[i] = next
        BY <3>2
      <4> QED
        BY <2>2, <3>1, <3>2, <4>1, Zenon
    <3>3. CASE i # k + 1
      <4>1. i \in 1..k /\ h[i] = f[i]
        BY <3>3
      <4> QED
        BY <2>1, <3>1, <4>1, Zenon DEF Follows
    <3> QED
      BY <3>2, <3>3
  <2> HIDE DEF h
  <2>7. Follows(h, g, x, k + 1)
    BY <2>1, <2>5, <2>6, Zenon DEF Follows
  <2> QED
    BY <2>2, <2>5, <2>7
<1>3. n \in E
  <2>1. \A k \in 0..n - 1 : k \in E => k + 1 \in E
    BY <1>2
  <2> HIDE DEF E
  <2> QED
    BY <1>1, <2>1, UpTo, Zenon
<1> QED
  BY <1>3

(* A property of the first value that each step keeps.                     *)
LEMMA AllStay ==
  ASSUME NEW n \in Nat, NEW S, NEW f, f[0] \in S,
         \A i \in 0..n - 1 : f[i] \in S => f[i + 1] \in S
  PROVE  \A i \in 0..n : f[i] \in S
<1> SUFFICES ASSUME NEW m \in 0..n PROVE f[m] \in S
  OBVIOUS
<1> DEFINE T == {i \in 0..m : f[i] \in S}
<1>1. m \in Nat /\ 0 \in T /\ \A i \in 0..m - 1 : i \in T => i + 1 \in T
  OBVIOUS
<1>2. m \in T
  <2> HIDE DEF T
  <2> QED
    BY <1>1, UpTo, Zenon
<1> QED
  BY <1>2

(* The segments elf_exec_load loads are entries of the table.              *)
LEMMA LoadSegmentsFrom ==
  ASSUME NEW f, Table(f.phdrs)
  PROVE  LoadSegments(f) \in Seq({f.phdrs[i] : i \in DOMAIN f.phdrs})
<1> DEFINE n == Len(f.phdrs)
           P == {f.phdrs[i] : i \in DOMAIN f.phdrs}
           C(h) == [i \in 0..n |-> IF i = 0 THEN <<>>
                                   ELSE IF f.phdrs[i].type # "LOAD" THEN h[i - 1]
                                   ELSE Append(h[i - 1], f.phdrs[i])]
           Longer(i, y) == IF f.phdrs[i].type # "LOAD" THEN y ELSE Append(y, f.phdrs[i])
           g == [i \in 1..n |-> [y \in Seq(P) |-> Longer(i, y)]]
<1>1. n \in Nat /\ DOMAIN f.phdrs = 1..n
  BY DEF Table
<1>2. \A i \in 1..n : f.phdrs[i] \in P
  BY <1>1
<1>3. <<>> \in Seq(P)
  OBVIOUS
<1> HIDE DEF n, P
<1>4. \A i \in 1..n : \A y \in Seq(P) : g[i][y] = Longer(i, y) /\ Longer(i, y) \in Seq(P)
  BY <1>2
<1> HIDE DEF g, Longer
<1>5. PICK h \in [0..n -> Seq(P)] : Follows(h, g, <<>>, n)
  <2>1. \A i \in 1..n : \A y \in Seq(P) : g[i][y] \in Seq(P)
    BY <1>4, Zenon
  <2> QED
    BY <1>1, <1>3, <2>1, RecursionExists, Zenon
<1>6. h[0] = <<>> /\ \A i \in 1..n : h[i] = Longer(i, h[i - 1])
  <2>1. h[0] = <<>> /\ \A i \in 1..n : h[i] = g[i][h[i - 1]]
    BY <1>5, Zenon DEF Follows
  <2>2. \A i \in 1..n : h[i - 1] \in Seq(P)
    BY <1>1
  <2> QED
    BY <1>4, <2>1, <2>2, Zenon
<1>7. h = C(h)
  <2>1. \A i \in 0..n : h[i] = IF i = 0 THEN <<>>
                               ELSE IF f.phdrs[i].type # "LOAD" THEN h[i - 1]
                               ELSE Append(h[i - 1], f.phdrs[i])
    <3>1. \A i \in 0..n : i # 0 => i \in 1..n
      BY <1>1
    <3> QED
      BY <1>6, <3>1, Zenon DEF Longer
  <2> QED
    BY <2>1, Zenon
<1>8. \E h_1 : h_1 = C(h_1)
  BY <1>7
<1>9. PICK k : k = C(k) /\ LoadSegments(f) = k[n]
  BY <1>8, Zenon DEF LoadSegments, n
<1>10. \A i \in 0..n : k[i] = IF i = 0 THEN <<>>
                               ELSE IF f.phdrs[i].type # "LOAD" THEN k[i - 1]
                               ELSE Append(k[i - 1], f.phdrs[i])
  BY <1>9, Zenon
<1>11. k[0] \in Seq(P)
  <2>1. 0 \in 0..n
    BY <1>1
  <2> QED
    BY <1>3, <1>10, <2>1, Zenon
<1>12. ASSUME NEW i \in 0..n - 1, k[i] \in Seq(P) PROVE k[i + 1] \in Seq(P)
  <2>2. i + 1 \in 0..n /\ i + 1 \in 1..n /\ i + 1 # 0 /\ (i + 1) - 1 = i
    BY <1>1
  <2>3. k[i + 1] = IF f.phdrs[i + 1].type # "LOAD" THEN k[i]
                   ELSE Append(k[i], f.phdrs[i + 1])
    BY <1>10, <2>2, Zenon
  <2>4. f.phdrs[i + 1] \in P
    BY <1>2, <2>2, Zenon
  <2> QED
    BY <1>12, <2>3, <2>4
<1>13. k[n] \in Seq(P)
  <2>1. n \in 0..n
    BY <1>1
  <2> QED
    BY <1>1, <1>11, <1>12, <2>1, AllStay, Zenon
<1> QED
  BY <1>9, <1>13, Zenon DEF P

-----------------------------------------------------------------------------
(* ElfImage: the two passes of elf_rel_load *)

(* The two passes of elf_rel_load                                          *)
Rooms == [align: Nat \ {0}, buf: Nat, bssAlign: Nat \ {0}, bss: Nat]
Places == [data: Nat, bss: Nat, addr: Nat]
Sections(o) ==
  /\ Table(o.shdrs)
  /\ \A i \in DOMAIN o.shdrs :
       o.shdrs[i].addr \in Nat /\ o.shdrs[i].size \in Nat /\ o.shdrs[i].align \in Nat \ {0}

LEMMA SizedType ==
  ASSUME NEW room \in Rooms, NEW s, s.size \in Nat, s.align \in Nat \ {0}
  PROVE  Sized(room, s) \in Rooms
<1>1. /\ room.align \in Nat \ {0} /\ room.buf \in Nat /\ room.bssAlign \in Nat \ {0}
      /\ room.bss \in Nat
  BY DEF Rooms
<1>2. AlignUp(room.buf, s.align) \in Nat /\ AlignUp(room.bss, s.align) \in Nat
  BY <1>1, AlignUpFacts
<1>3. Greater(room.align, s.align) \in Nat \ {0} /\ Greater(room.bssAlign, s.align) \in Nat \ {0}
  BY <1>1 DEF Greater
<1>4. CASE ~s.alloc
  BY <1>4 DEF Sized
<1>5. CASE s.alloc /\ s.type # "NOBITS"
  <2>1. PICK b \in Nat : b = AlignUp(room.buf, s.align) + s.size
    BY <1>2
  <2>2. PICK g \in Nat \ {0} : g = Greater(room.align, s.align)
    BY <1>3
  <2>3. Sized(room, s) = [room EXCEPT !.align = g, !.buf = b]
    BY <1>5, <2>1, <2>2, Zenon DEF Sized
  <2> QED
    BY <2>3 DEF Rooms
<1>6. CASE s.alloc /\ s.type = "NOBITS"
  <2>1. PICK b \in Nat : b = AlignUp(room.bss, s.align) + s.size
    BY <1>2
  <2>2. PICK g \in Nat \ {0} : g = Greater(room.bssAlign, s.align)
    BY <1>3
  <2>3. Sized(room, s) = [room EXCEPT !.bssAlign = g, !.bss = b]
    BY <1>6, <2>1, <2>2, Zenon DEF Sized
  <2> QED
    BY <2>3 DEF Rooms
<1> QED
  BY <1>4, <1>5, <1>6

LEMMA PlacedType ==
  ASSUME NEW at \in Places, NEW s, s.addr \in Nat, s.size \in Nat, s.align \in Nat \ {0}
  PROVE  Placed(at, s) \in Places
<1>1. at.data \in Nat /\ at.bss \in Nat
  BY DEF Places
<1>2. AlignUp(at.data, s.align) \in Nat /\ AlignUp(at.bss, s.align) \in Nat
  BY <1>1, AlignUpFacts
<1>3. CASE ~s.alloc
  <2>1. Placed(at, s) = [at EXCEPT !.addr = s.addr]
    BY <1>3, Zenon DEF Placed
  <2> QED
    BY <2>1 DEF Places
<1>4. CASE s.alloc /\ s.type # "NOBITS"
  <2>1. PICK b \in Nat : b = AlignUp(at.data, s.align)
    BY <1>2
  <2>2. PICK c \in Nat : c = AlignUp(at.data, s.align) + s.size
    BY <1>2
  <2>3. Placed(at, s) = [at EXCEPT !.addr = b, !.data = c]
    BY <1>4, <2>1, <2>2, Zenon DEF Placed
  <2> QED
    BY <2>3 DEF Places
<1>5. CASE s.alloc /\ s.type = "NOBITS"
  <2>1. PICK b \in Nat : b = AlignUp(at.bss, s.align)
    BY <1>2
  <2>2. PICK c \in Nat : c = AlignUp(at.bss, s.align) + s.size
    BY <1>2
  <2>3. Placed(at, s) = [at EXCEPT !.addr = b, !.bss = c]
    BY <1>5, <2>1, <2>2, Zenon DEF Placed
  <2> QED
    BY <2>3 DEF Places
<1> QED
  BY <1>3, <1>4, <1>5

(* f holds the room taken after each section.                              *)
RoomAfter(f, o) ==
  /\ f \in [0..Len(o.shdrs) -> Rooms]
  /\ f[0] = [align |-> 1, buf |-> 0, bssAlign |-> 1, bss |-> 0]
  /\ \A i \in 1..Len(o.shdrs) : f[i] = Sized(f[i - 1], o.shdrs[i])

LEMMA RoomIs ==
  ASSUME NEW o, Sections(o)
  PROVE  \E f : RoomAfter(f, o) /\ Room(o) = f[Len(o.shdrs)]
<1> DEFINE n == Len(o.shdrs)
           x == [align |-> 1, buf |-> 0, bssAlign |-> 1, bss |-> 0]
           C(h) == [i \in 0..n |-> IF i = 0 THEN x ELSE Sized(h[i - 1], o.shdrs[i])]
           g == [i \in 1..n |-> [y \in Rooms |-> Sized(y, o.shdrs[i])]]
<1>1. n \in Nat /\ DOMAIN o.shdrs = 1..n
  BY DEF Sections, Table
<1>2. \A i \in 1..n : o.shdrs[i].size \in Nat /\ o.shdrs[i].align \in Nat \ {0}
  BY <1>1 DEF Sections
<1>3. x \in Rooms
  BY DEF Rooms
<1> HIDE DEF n, x
<1>4. \A i \in 1..n : \A y \in Rooms :
        g[i][y] = Sized(y, o.shdrs[i]) /\ Sized(y, o.shdrs[i]) \in Rooms
  BY <1>2, SizedType
<1> HIDE DEF g
<1>5. PICK h \in [0..n -> Rooms] : Follows(h, g, x, n)
  <2>1. \A i \in 1..n : \A y \in Rooms : g[i][y] \in Rooms
    BY <1>4, Zenon
  <2> QED
    BY <1>1, <1>3, <2>1, RecursionExists, Zenon
<1>6. h[0] = x /\ \A i \in 1..n : h[i] = Sized(h[i - 1], o.shdrs[i])
  <2>1. h[0] = x /\ \A i \in 1..n : h[i] = g[i][h[i - 1]]
    BY <1>5, Zenon DEF Follows
  <2>2. \A i \in 1..n : h[i - 1] \in Rooms
    BY <1>1
  <2> QED
    BY <1>4, <2>1, <2>2, Zenon
<1>7. h = C(h)
  <2>1. \A i \in 0..n : i # 0 => i \in 1..n
    BY <1>1
  <2>2. \A i \in 0..n : h[i] = IF i = 0 THEN x ELSE Sized(h[i - 1], o.shdrs[i])
    BY <1>6, <2>1, Zenon
  <2> QED
    BY <2>2, Zenon
<1>8. \E h_1 : h_1 = C(h_1)
  BY <1>7
<1>9. PICK k : k = C(k) /\ Room(o) = k[n]
  BY <1>8, Zenon DEF Room, n, x
<1>10. k = [i \in 0..n |-> k[i]]
       /\ \A i \in 0..n : k[i] = IF i = 0 THEN x ELSE Sized(k[i - 1], o.shdrs[i])
  BY <1>9, Zenon
<1>11. k[0] = x
  <2>1. 0 \in 0..n
    BY <1>1
  <2> QED
    BY <1>10, <2>1, Zenon
<1>12. \A i \in 1..n : k[i] = Sized(k[i - 1], o.shdrs[i])
  <2>1. \A i \in 1..n : i \in 0..n /\ i # 0
    BY <1>1
  <2> QED
    BY <1>10, <2>1, Zenon
<1>13. ASSUME NEW i \in 0..n - 1, k[i] \in Rooms PROVE k[i + 1] \in Rooms
  <2>1. i + 1 \in 1..n /\ (i + 1) - 1 = i
    BY <1>1
  <2>2. k[i + 1] = Sized(k[i], o.shdrs[i + 1])
    BY <1>12, <2>1, Zenon
  <2> QED
    BY <1>2, <1>13, <2>1, <2>2, SizedType
<1>14. \A i \in 0..n : k[i] \in Rooms
  BY <1>1, <1>3, <1>11, <1>13, AllStay, Zenon
<1>15. k \in [0..n -> Rooms]
  BY <1>10, <1>14, Zenon
<1> QED
  BY <1>9, <1>11, <1>12, <1>15, Zenon DEF RoomAfter, n, x

(* a holds where elf_rel_load is after each section.                       *)
PlaceAfter(a, o, at) ==
  /\ a \in [0..Len(o.shdrs) -> Places]
  /\ a[0] = [data |-> at, bss |-> at + Room(o).buf + BssPad(Room(o)), addr |-> 0]
  /\ \A i \in 1..Len(o.shdrs) : a[i] = Placed(a[i - 1], o.shdrs[i])

LEMMA BssPadType ==
  ASSUME NEW room \in Rooms
  PROVE  BssPad(room) \in Nat /\ (room.buf + BssPad(room)) % room.bssAlign = 0
<1>1. room.buf \in Nat /\ room.bssAlign \in Nat \ {0}
  BY DEF Rooms
<1>2. PICK b \in Nat, a \in Nat \ {0} : b = room.buf /\ a = room.bssAlign
  BY <1>1
<1>3. b % a \in 0..a - 1
  BY <1>2, Z3
<1>4. CASE b % a = 0
  BY <1>2, <1>4 DEF BssPad
<1>5. CASE b % a # 0
  <2>1. BssPad(room) = a - (b % a)
    BY <1>2, <1>5 DEF BssPad
  <2>2. PICK q \in Nat : q = b \div a /\ b = q * a + (b % a)
    BY <1>2, Z3
  <2>3. b + (a - (b % a)) = (q + 1) * a
    BY <1>3, <2>2, Z3
  <2>4. ((q + 1) * a) % a = 0
    BY MultipleMod
  <2> QED
    BY <1>2, <1>3, <2>1, <2>3, <2>4
<1> QED
  BY <1>4, <1>5

LEMMA PlaceIs ==
  ASSUME NEW o, Sections(o), NEW at \in Nat
  PROVE  \E a : PlaceAfter(a, o, at)
                /\ SectionAddr(o, at) = [i \in DOMAIN o.shdrs |-> a[i].addr]
<1> DEFINE n == Len(o.shdrs)
           x == [data |-> at, bss |-> at + Room(o).buf + BssPad(Room(o)), addr |-> 0]
           C(h) == [i \in 0..n |-> IF i = 0 THEN x ELSE Placed(h[i - 1], o.shdrs[i])]
           g == [i \in 1..n |-> [y \in Places |-> Placed(y, o.shdrs[i])]]
<1>1. n \in Nat /\ DOMAIN o.shdrs = 1..n
  BY DEF Sections, Table
<1>2. \A i \in 1..n : /\ o.shdrs[i].addr \in Nat /\ o.shdrs[i].size \in Nat
                      /\ o.shdrs[i].align \in Nat \ {0}
  BY <1>1 DEF Sections
<1>3. x \in Places
  <2>1. Room(o) \in Rooms
    <3>1. PICK f : RoomAfter(f, o) /\ Room(o) = f[n]
      BY RoomIs, Zenon
    <3> QED
      BY <1>1, <3>1 DEF RoomAfter
  <2>2. Room(o).buf \in Nat /\ BssPad(Room(o)) \in Nat
    BY <2>1, BssPadType DEF Rooms
  <2> QED
    BY <2>2 DEF Places
<1> HIDE DEF n, x
<1>4. \A i \in 1..n : \A y \in Places :
        g[i][y] = Placed(y, o.shdrs[i]) /\ Placed(y, o.shdrs[i]) \in Places
  BY <1>2, PlacedType
<1> HIDE DEF g
<1>5. PICK h \in [0..n -> Places] : Follows(h, g, x, n)
  <2>1. \A i \in 1..n : \A y \in Places : g[i][y] \in Places
    BY <1>4, Zenon
  <2> QED
    BY <1>1, <1>3, <2>1, RecursionExists, Zenon
<1>6. h[0] = x /\ \A i \in 1..n : h[i] = Placed(h[i - 1], o.shdrs[i])
  <2>1. h[0] = x /\ \A i \in 1..n : h[i] = g[i][h[i - 1]]
    BY <1>5, Zenon DEF Follows
  <2>2. \A i \in 1..n : h[i - 1] \in Places
    BY <1>1
  <2> QED
    BY <1>4, <2>1, <2>2, Zenon
<1>7. h = C(h)
  <2>1. \A i \in 0..n : i # 0 => i \in 1..n
    BY <1>1
  <2>2. \A i \in 0..n : h[i] = IF i = 0 THEN x ELSE Placed(h[i - 1], o.shdrs[i])
    BY <1>6, <2>1, Zenon
  <2> QED
    BY <2>2, Zenon
<1>8. \E h_1 : h_1 = C(h_1)
  BY <1>7
<1>9. PICK k : k = C(k) /\ SectionAddr(o, at) = [i \in DOMAIN o.shdrs |-> k[i].addr]
  BY <1>8, Zenon DEF SectionAddr, n, x
<1>10. k = [i \in 0..n |-> k[i]]
       /\ \A i \in 0..n : k[i] = IF i = 0 THEN x ELSE Placed(k[i - 1], o.shdrs[i])
  BY <1>9, Zenon
<1>11. k[0] = x
  <2>1. 0 \in 0..n
    BY <1>1
  <2> QED
    BY <1>10, <2>1, Zenon
<1>12. \A i \in 1..n : k[i] = Placed(k[i - 1], o.shdrs[i])
  <2>1. \A i \in 1..n : i \in 0..n /\ i # 0
    BY <1>1
  <2> QED
    BY <1>10, <2>1, Zenon
<1>13. ASSUME NEW i \in 0..n - 1, k[i] \in Places PROVE k[i + 1] \in Places
  <2>1. i + 1 \in 1..n /\ (i + 1) - 1 = i
    BY <1>1
  <2>2. k[i + 1] = Placed(k[i], o.shdrs[i + 1])
    BY <1>12, <2>1, Zenon
  <2> QED
    BY <1>2, <1>13, <2>1, <2>2, PlacedType
<1>14. \A i \in 0..n : k[i] \in Places
  BY <1>1, <1>3, <1>11, <1>13, AllStay, Zenon
<1>15. k \in [0..n -> Places]
  BY <1>10, <1>14, Zenon
<1> QED
  BY <1>9, <1>11, <1>12, <1>15, Zenon DEF PlaceAfter, n, x

LEMMA DiffMod ==
  ASSUME NEW a \in Nat, NEW b \in Nat, NEW P \in Nat \ {0}, a % P = 0, b % P = 0, b <= a
  PROVE  (a - b) % P = 0
<1>1. PICK k \in Nat : a = k * P
  BY Multiple
<1>2. PICK m \in Nat : b = m * P
  BY Multiple
<1>3. k - m \in Nat
  <2>1. SUFFICES ASSUME m >= k + 1 PROVE FALSE
    OBVIOUS
  <2>2. m * P >= (k + 1) * P /\ (k + 1) * P = k * P + P
    BY <2>1, Z3
  <2> QED
    BY <1>1, <1>2, <2>2
<1>4. a - b = (k - m) * P
  BY <1>1, <1>2, Z3
<1> QED
  BY <1>3, <1>4, MultipleMod

LEMMA ModChain ==
  ASSUME NEW a \in Nat, NEW H \in Nat \ {0}, NEW P \in Nat \ {0}, a % H = 0, H % P = 0
  PROVE  a % P = 0
<1>1. PICK k \in Nat : a = k * H
  BY Multiple
<1>2. PICK m \in Nat : H = m * P
  BY Multiple
<1>3. a = (k * m) * P
  BY <1>1, <1>2, Z3
<1>4. k * m \in Nat
  BY Product
<1> QED
  BY <1>3, <1>4, MultipleMod

(* Rounding up from an address that is a multiple.                         *)
LEMMA AlignUpFrom ==
  ASSUME NEW x \in Nat, NEW b \in Nat, NEW a \in Nat \ {0}, x % a = 0
  PROVE  AlignUp(x + b, a) = x + AlignUp(b, a)
<1>1. PICK u \in Nat : u = AlignUp(b, a)
  BY AlignUpFacts
<1>2. PICK v \in Nat : v = AlignUp(x + b, a)
  BY AlignUpFacts
<1>3. u % a = 0 /\ b <= u
  BY <1>1, AlignUpFacts
<1>4. v % a = 0 /\ x + b <= v
  BY <1>2, AlignUpFacts
<1>5. (x + u) % a = 0
  BY <1>3, SumMod
<1>6. v <= x + u
  <2>1. x + b \in Nat /\ x + u \in Nat /\ x + b <= x + u
    BY <1>3
  <2> QED
    BY <1>2, <1>5, <2>1, AlignUpFacts
<1>7. (v - x) % a = 0
  <2>1. x <= v
    BY <1>4
  <2> QED
    BY <1>4, <2>1, DiffMod, Zenon
<1>8. u <= v - x
  <2>1. v - x \in Nat /\ b <= v - x
    BY <1>4
  <2> QED
    BY <1>1, <1>7, <2>1, AlignUpFacts
<1> QED
  BY <1>1, <1>2, <1>6, <1>8

(* What the first pass makes of one section.                               *)
LEMMA SizedFields ==
  ASSUME NEW room \in Rooms, NEW s, s.size \in Nat, s.align \in Nat \ {0}
  PROVE  LET next == Sized(room, s)
         IN /\ ~s.alloc => next = room
            /\ s.alloc /\ s.type # "NOBITS" =>
                 /\ next.buf = AlignUp(room.buf, s.align) + s.size /\ next.bss = room.bss
                 /\ next.align = Greater(room.align, s.align)
                 /\ next.bssAlign = room.bssAlign
            /\ s.alloc /\ s.type = "NOBITS" =>
                 /\ next.bss = AlignUp(room.bss, s.align) + s.size /\ next.buf = room.buf
                 /\ next.bssAlign = Greater(room.bssAlign, s.align)
                 /\ next.align = room.align
<1> DEFINE b == AlignUp(room.buf, s.align) + s.size
           c == AlignUp(room.bss, s.align) + s.size
           d == Greater(room.align, s.align)
           e == Greater(room.bssAlign, s.align)
<1>1. CASE ~s.alloc
  BY <1>1 DEF Sized
<1>2. CASE s.alloc /\ s.type # "NOBITS"
  <2>1. Sized(room, s) = [room EXCEPT !.align = d, !.buf = b]
    BY <1>2, Zenon DEF Sized
  <2> HIDE DEF b, d
  <2>2. /\ Sized(room, s).buf = b /\ Sized(room, s).bss = room.bss
        /\ Sized(room, s).align = d /\ Sized(room, s).bssAlign = room.bssAlign
    BY <2>1 DEF Rooms
  <2> QED
    BY <1>2, <2>2, Zenon DEF b, d
<1>3. CASE s.alloc /\ s.type = "NOBITS"
  <2>1. Sized(room, s) = [room EXCEPT !.bssAlign = e, !.bss = c]
    BY <1>3, Zenon DEF Sized
  <2> HIDE DEF c, e
  <2>2. /\ Sized(room, s).bss = c /\ Sized(room, s).buf = room.buf
        /\ Sized(room, s).bssAlign = e /\ Sized(room, s).align = room.align
    BY <2>1 DEF Rooms
  <2> QED
    BY <1>3, <2>2, Zenon DEF c, e
<1> QED
  BY <1>1, <1>2, <1>3

LEMMA PlacedFields ==
  ASSUME NEW at \in Places, NEW s, s.addr \in Nat, s.size \in Nat, s.align \in Nat \ {0}
  PROVE  LET next == Placed(at, s)
         IN /\ ~s.alloc => next.data = at.data /\ next.bss = at.bss
            /\ s.alloc /\ s.type # "NOBITS" =>
                 /\ next.addr = AlignUp(at.data, s.align)
                 /\ next.data = AlignUp(at.data, s.align) + s.size /\ next.bss = at.bss
            /\ s.alloc /\ s.type = "NOBITS" =>
                 /\ next.addr = AlignUp(at.bss, s.align)
                 /\ next.bss = AlignUp(at.bss, s.align) + s.size /\ next.data = at.data
<1> DEFINE b == AlignUp(at.data, s.align)
           c == AlignUp(at.data, s.align) + s.size
           d == AlignUp(at.bss, s.align)
           e == AlignUp(at.bss, s.align) + s.size
<1>1. CASE ~s.alloc
  <2>1. Placed(at, s) = [at EXCEPT !.addr = s.addr]
    BY <1>1, Zenon DEF Placed
  <2>2. Placed(at, s).data = at.data /\ Placed(at, s).bss = at.bss
    BY <2>1 DEF Places
  <2> QED
    BY <1>1, <2>2
<1>2. CASE s.alloc /\ s.type # "NOBITS"
  <2>1. Placed(at, s) = [at EXCEPT !.addr = b, !.data = c]
    BY <1>2, Zenon DEF Placed
  <2> HIDE DEF b, c
  <2>2. Placed(at, s).addr = b /\ Placed(at, s).data = c /\ Placed(at, s).bss = at.bss
    BY <2>1 DEF Places
  <2> QED
    BY <1>2, <2>2, Zenon DEF b, c
<1>3. CASE s.alloc /\ s.type = "NOBITS"
  <2>1. Placed(at, s) = [at EXCEPT !.addr = d, !.bss = e]
    BY <1>3, Zenon DEF Placed
  <2> HIDE DEF d, e
  <2>2. Placed(at, s).addr = d /\ Placed(at, s).bss = e /\ Placed(at, s).data = at.data
    BY <2>1 DEF Places
  <2> QED
    BY <1>3, <2>2, Zenon DEF d, e
<1> QED
  BY <1>1, <1>2, <1>3

(* Room only grows from one section to a later one.                        *)
Grows(x, y) ==
  x.buf <= y.buf /\ x.bss <= y.bss /\ x.align <= y.align /\ x.bssAlign <= y.bssAlign

LEMMA SizedGrows ==
  ASSUME NEW room \in Rooms, NEW s, s.size \in Nat, s.align \in Nat \ {0}
  PROVE  Grows(room, Sized(room, s))
<1>1. /\ room.align \in Nat /\ room.buf \in Nat /\ room.bssAlign \in Nat /\ room.bss \in Nat
  BY DEF Rooms
<1>2. /\ AlignUp(room.buf, s.align) \in Nat /\ room.buf <= AlignUp(room.buf, s.align)
      /\ AlignUp(room.bss, s.align) \in Nat /\ room.bss <= AlignUp(room.bss, s.align)
  BY <1>1, AlignUpFacts
<1>3. /\ room.align <= Greater(room.align, s.align)
      /\ room.bssAlign <= Greater(room.bssAlign, s.align)
  BY <1>1 DEF Greater
<1>4. room.buf <= AlignUp(room.buf, s.align) + s.size
      /\ room.bss <= AlignUp(room.bss, s.align) + s.size
  BY <1>1, <1>2
<1>5. CASE ~s.alloc
  BY <1>1, <1>5, SizedFields DEF Grows
<1>6. CASE s.alloc /\ s.type # "NOBITS"
  BY <1>1, <1>3, <1>4, <1>6, SizedFields DEF Grows
<1>7. CASE s.alloc /\ s.type = "NOBITS"
  BY <1>1, <1>3, <1>4, <1>7, SizedFields DEF Grows
<1> QED
  BY <1>5, <1>6, <1>7

LEMMA GrowsOn ==
  ASSUME NEW x \in Rooms, NEW y \in Rooms, NEW z \in Rooms, Grows(x, y), Grows(y, z)
  PROVE  Grows(x, z)
BY DEF Grows, Rooms

LEMMA RoomGrows ==
  ASSUME NEW o, Sections(o), NEW f, RoomAfter(f, o),
         NEW i \in 0..Len(o.shdrs), NEW j \in i..Len(o.shdrs)
  PROVE  Grows(f[i], f[j])
<1> DEFINE n == Len(o.shdrs)
           T == {m \in 0..j - i : Grows(f[i], f[i + m])}
<1>1. n \in Nat /\ DOMAIN o.shdrs = 1..n /\ j - i \in Nat
  BY DEF Sections, Table
<1>2. \A m \in 0..n : f[m] \in Rooms
  BY DEF RoomAfter
<1>3. \A m \in 0..n : /\ f[m].align \in Nat /\ f[m].buf \in Nat
                      /\ f[m].bssAlign \in Nat /\ f[m].bss \in Nat
  BY <1>2 DEF Rooms
<1>4. 0 \in T
  <2>1. Grows(f[i], f[i])
    BY <1>3 DEF Grows
  <2>2. i + 0 = i /\ 0 \in 0..j - i
    BY <1>1
  <2> QED
    BY <2>1, <2>2
<1>5. ASSUME NEW m \in 0..(j - i) - 1, m \in T PROVE m + 1 \in T
  <2>1. /\ i + m \in 0..n /\ i + m + 1 \in 1..n /\ (i + m + 1) - 1 = i + m
        /\ i + (m + 1) = i + m + 1 /\ m + 1 \in 0..j - i /\ i + m + 1 \in 0..n
    BY <1>1
  <2>2. f[i + m + 1] = Sized(f[i + m], o.shdrs[i + m + 1])
    BY <2>1, Zenon DEF RoomAfter
  <2>3. o.shdrs[i + m + 1].size \in Nat /\ o.shdrs[i + m + 1].align \in Nat \ {0}
    BY <1>1, <2>1 DEF Sections
  <2>4. Grows(f[i + m], f[i + m + 1])
    BY <1>2, <2>1, <2>2, <2>3, SizedGrows
  <2>5. Grows(f[i], f[i + m])
    BY <1>5
  <2>6. Grows(f[i], f[i + m + 1])
    <3>1. f[i] \in Rooms /\ f[i + m] \in Rooms /\ f[i + m + 1] \in Rooms
      BY <1>2, <2>1
    <3> QED
      BY <2>4, <2>5, <3>1, GrowsOn, Zenon
  <2> QED
    BY <2>1, <2>6
<1>6. j - i \in T
  <2> HIDE DEF T
  <2> QED
    BY <1>1, <1>4, <1>5, UpTo, Zenon
<1> QED
  BY <1>6

(* Every alignment divides the larger ones, purgatory's own among them.    *)
Aligned(o) == {o.shdrs[i].align : i \in DOMAIN o.shdrs} \cup {1, Page}
Divides(o) == \A a, b \in Aligned(o) : a <= b => b % a = 0

LEMMA AlignedType ==
  ASSUME NEW o, Sections(o)
  PROVE  Aligned(o) \subseteq Nat \ {0}
BY PageAssumption DEF Aligned, Sections

LEMMA GreaterAligned ==
  ASSUME NEW o, NEW a \in Aligned(o), NEW b \in Aligned(o)
  PROVE  Greater(a, b) \in Aligned(o)
BY DEF Greater

LEMMA RoomAligned ==
  ASSUME NEW o, Sections(o), NEW f, RoomAfter(f, o)
  PROVE  \A i \in 0..Len(o.shdrs) : f[i].align \in Aligned(o) /\ f[i].bssAlign \in Aligned(o)
<1> DEFINE n == Len(o.shdrs)
           S == {r \in Rooms : r.align \in Aligned(o) /\ r.bssAlign \in Aligned(o)}
<1>1. n \in Nat /\ DOMAIN o.shdrs = 1..n
  BY DEF Sections, Table
<1>2. \A m \in 0..n : f[m] \in Rooms
  BY DEF RoomAfter
<1>3. f[0] \in S
  <2>1. f[0].align = 1 /\ f[0].bssAlign = 1
    BY DEF RoomAfter
  <2>2. 1 \in Aligned(o) /\ 0 \in 0..n
    BY <1>1 DEF Aligned
  <2> QED
    BY <1>2, <2>1, <2>2
<1>4. ASSUME NEW i \in 0..n - 1, f[i] \in S PROVE f[i + 1] \in S
  <2> DEFINE s == o.shdrs[i + 1]
  <2>1. i \in 0..n /\ i + 1 \in 1..n /\ (i + 1) - 1 = i /\ i + 1 \in 0..n
    BY <1>1
  <2>2. f[i + 1] = Sized(f[i], s)
    BY <2>1, Zenon DEF RoomAfter
  <2>3. s.size \in Nat /\ s.align \in Nat \ {0} /\ s.align \in Aligned(o)
    BY <1>1, <2>1 DEF Sections, Aligned
  <2>4. f[i] \in Rooms /\ f[i].align \in Aligned(o) /\ f[i].bssAlign \in Aligned(o)
    BY <1>4
  <2>5. /\ Greater(f[i].align, s.align) \in Aligned(o)
        /\ Greater(f[i].bssAlign, s.align) \in Aligned(o)
    BY <2>3, <2>4, GreaterAligned
  <2> HIDE DEF s
  <2>6. f[i + 1].align \in Aligned(o) /\ f[i + 1].bssAlign \in Aligned(o)
    <3>1. CASE ~s.alloc
      BY <2>2, <2>3, <2>4, <3>1, SizedFields
    <3>2. CASE s.alloc /\ s.type # "NOBITS"
      BY <2>2, <2>3, <2>4, <2>5, <3>2, SizedFields
    <3>3. CASE s.alloc /\ s.type = "NOBITS"
      BY <2>2, <2>3, <2>4, <2>5, <3>3, SizedFields
    <3> QED
      BY <3>1, <3>2, <3>3
  <2> QED
    BY <1>2, <2>1, <2>6
<1>5. \A i \in 0..n : f[i] \in S
  <2> HIDE DEF S
  <2> QED
    BY <1>1, <1>3, <1>4, AllStay, Zenon
<1> QED
  BY <1>5

(* The memory of purgatory is aligned for each of its sections.            *)
LEMMA AlignedFor ==
  ASSUME NEW o, Sections(o), Divides(o), NEW a \in Aligned(o), NEW b \in Aligned(o),
         a <= b, NEW x \in Nat, x % b = 0
  PROVE  x % a = 0
<1>1. a \in Nat \ {0} /\ b \in Nat \ {0}
  BY AlignedType
<1>2. b % a = 0
  BY DEF Divides
<1> QED
  BY <1>1, <1>2, ModChain

(* Where the bss begins.                                                   *)
BssAt(o, at) == at + Room(o).buf + BssPad(Room(o))

(* Memory for purgatory as locate_hole gives it.                           *)
Holds(o, at) ==
  /\ Sections(o) /\ Divides(o)
  /\ at \in Nat /\ at % Greater(Greater(Room(o).align, Room(o).bssAlign), Page) = 0

LEMMA RoomType ==
  ASSUME NEW o, Sections(o)
  PROVE  /\ Room(o) \in Rooms
         /\ Room(o).buf \in Nat /\ BssPad(Room(o)) \in Nat /\ Room(o).bss \in Nat
<1>1. Len(o.shdrs) \in Nat
  BY DEF Sections, Table
<1>2. PICK f : RoomAfter(f, o) /\ Room(o) = f[Len(o.shdrs)]
  BY RoomIs, Zenon
<1>3. Room(o) \in Rooms
  BY <1>1, <1>2 DEF RoomAfter
<1> QED
  BY <1>3, BssPadType DEF Rooms

(* Both passes round up to the same multiples: the data of section i lies  *)
(* as far from the beginning as the first pass counted, and so does a bss. *)
LEMMA MultipleFor ==
  ASSUME NEW o, NEW at, Holds(o, at), NEW f, RoomAfter(f, o), Room(o) = f[Len(o.shdrs)],
         NEW i \in 1..Len(o.shdrs), o.shdrs[i].alloc
  PROVE  LET s == o.shdrs[i]
         IN /\ s.type # "NOBITS" => at % s.align = 0
            /\ s.type = "NOBITS" => BssAt(o, at) % s.align = 0
<1> DEFINE n == Len(o.shdrs)
           s == o.shdrs[i]
           h == Greater(Greater(Room(o).align, Room(o).bssAlign), Page)
<1>1. n \in Nat /\ DOMAIN o.shdrs = 1..n /\ Sections(o) /\ Divides(o)
  BY DEF Sections, Table, Holds
<1>2. s.size \in Nat /\ s.align \in Nat \ {0} /\ s.align \in Aligned(o)
  BY <1>1 DEF Sections, Aligned
<1>3. /\ i - 1 \in 0..n /\ i \in 0..n /\ n \in i..n /\ n \in 0..n
  BY <1>1
<1>4. f[i] = Sized(f[i - 1], s) /\ f[i - 1] \in Rooms /\ f[i] \in Rooms
  BY <1>3, Zenon DEF RoomAfter
<1>5. Grows(f[i], Room(o))
  BY <1>1, <1>3, RoomGrows
<1>6. Room(o).align \in Aligned(o) /\ Room(o).bssAlign \in Aligned(o) /\ Page \in Aligned(o)
  <2>1. Page \in Aligned(o)
    BY DEF Aligned
  <2> QED
    BY <1>1, <1>3, <2>1, RoomAligned, Zenon
<1>7. h \in Aligned(o)
  BY <1>6, GreaterAligned
<1>8. Aligned(o) \subseteq Nat
  BY <1>1, AlignedType
<1>9. Room(o).align <= h /\ Room(o).bssAlign <= h
  BY <1>6, <1>8 DEF Greater
<1>10. at \in Nat /\ at % h = 0
  BY DEF Holds
<1> HIDE DEF s, h
<1>11. ASSUME s.type # "NOBITS" PROVE at % s.align = 0
  <2>1. s.alloc /\ s.type # "NOBITS"
    BY <1>11 DEF s
  <2>2. f[i].align = Greater(f[i - 1].align, s.align)
    BY <1>2, <1>4, <2>1, SizedFields
  <2>3. s.align <= f[i].align
    BY <1>2, <1>4, <2>2 DEF Greater, Rooms
  <2>4. f[i].align <= Room(o).align
    BY <1>5 DEF Grows
  <2>5. f[i].align \in Nat
    BY <1>4 DEF Rooms
  <2>6. s.align <= h
    BY <1>6, <1>7, <1>8, <1>9, <2>3, <2>4, <2>5, <1>2
  <2> QED
    BY <1>1, <1>2, <1>7, <1>10, <2>6, AlignedFor
<1>12. ASSUME s.type = "NOBITS" PROVE BssAt(o, at) % s.align = 0
  <2>1. s.alloc /\ s.type = "NOBITS"
    BY <1>12 DEF s
  <2>2. f[i].bssAlign = Greater(f[i - 1].bssAlign, s.align)
    BY <1>2, <1>4, <2>1, SizedFields
  <2>3. s.align <= f[i].bssAlign
    BY <1>2, <1>4, <2>2 DEF Greater, Rooms
  <2>4. f[i].bssAlign <= Room(o).bssAlign
    BY <1>5 DEF Grows
  <2>5. f[i].bssAlign \in Nat
    BY <1>4 DEF Rooms
  <2>6. s.align <= Room(o).bssAlign /\ s.align <= h
    BY <1>6, <1>7, <1>8, <1>9, <2>3, <2>4, <2>5, <1>2
  <2>7. at % s.align = 0
    BY <1>1, <1>2, <1>7, <1>10, <2>6, AlignedFor
  <2>8. PICK b \in Nat : b = Room(o).buf + BssPad(Room(o))
    BY <1>1, RoomType
  <2>9. b % Room(o).bssAlign = 0
    BY <1>1, <2>8, RoomType, BssPadType
  <2>10. b % s.align = 0
    BY <1>1, <1>2, <1>6, <2>6, <2>9, AlignedFor
  <2>11. (at + b) % s.align = 0
    BY <1>2, <1>10, <2>7, <2>10, SumMod
  <2>12. BssAt(o, at) = at + b
    BY <1>1, <1>10, <2>8, RoomType DEF BssAt
  <2> QED
    BY <2>11, <2>12
<1> QED
  BY <1>11, <1>12 DEF s

LEMMA SamePasses ==
  ASSUME NEW o, NEW at, Holds(o, at), NEW f, RoomAfter(f, o), Room(o) = f[Len(o.shdrs)],
         NEW a, PlaceAfter(a, o, at)
  PROVE  \A i \in 0..Len(o.shdrs) :
           a[i].data = at + f[i].buf /\ a[i].bss = BssAt(o, at) + f[i].bss
<1> DEFINE n == Len(o.shdrs)
           B == BssAt(o, at)
           Same(i) == a[i].data = at + f[i].buf /\ a[i].bss = B + f[i].bss
<1> SUFFICES ASSUME NEW m \in 0..n PROVE Same(m)
  OBVIOUS
<1> DEFINE T == {i \in 0..m : Same(i)}
<1>1. n \in Nat /\ DOMAIN o.shdrs = 1..n /\ Sections(o) /\ at \in Nat /\ m \in Nat
  BY DEF Sections, Table, Holds
<1>2. B \in Nat
  BY <1>1, RoomType DEF BssAt
<1>3. 0 \in T
  <2>1. f[0].buf = 0 /\ f[0].bss = 0 /\ a[0].data = at /\ a[0].bss = B
    BY DEF RoomAfter, PlaceAfter, BssAt
  <2> HIDE DEF B
  <2> QED
    BY <1>1, <1>2, <2>1
<1>4. ASSUME NEW i \in 0..m - 1, i \in T PROVE i + 1 \in T
  <2> DEFINE s == o.shdrs[i + 1]
             x == f[i]
             y == a[i]
  <2>1. i \in 0..n /\ i + 1 \in 1..n /\ (i + 1) - 1 = i /\ i + 1 \in 0..m
    BY <1>1
  <2>2. x \in Rooms /\ y \in Places /\ f[i + 1] = Sized(x, s) /\ a[i + 1] = Placed(y, s)
    BY <2>1, Zenon DEF RoomAfter, PlaceAfter
  <2>3. s.addr \in Nat /\ s.size \in Nat /\ s.align \in Nat \ {0}
    BY <1>1, <2>1 DEF Sections
  <2>4. y.data = at + x.buf /\ y.bss = B + x.bss
    BY <1>4
  <2>5. x.buf \in Nat /\ x.bss \in Nat
    BY <2>2 DEF Rooms
  <2>6. s.alloc => /\ s.type # "NOBITS" => at % s.align = 0
                   /\ s.type = "NOBITS" => B % s.align = 0
    BY <2>1, MultipleFor
  <2> HIDE DEF s, x, y, B
  <2>7. Same(i + 1)
    <3>1. CASE ~s.alloc
      BY <2>2, <2>3, <2>4, <3>1, SizedFields, PlacedFields
    <3>2. CASE s.alloc /\ s.type # "NOBITS"
      <4>1. PICK u \in Nat : u = AlignUp(x.buf, s.align)
        BY <2>3, <2>5, AlignUpFacts
      <4>2. AlignUp(y.data, s.align) = at + u
        <5>1. at % s.align = 0
          BY <2>6, <3>2
        <5>2. AlignUp(at + x.buf, s.align) = at + AlignUp(x.buf, s.align)
          <6>1. at \in Nat /\ x.buf \in Nat /\ s.align \in Nat \ {0}
            BY <1>1, <2>3, <2>5, Zenon
          <6> QED
            BY <5>1, <6>1, AlignUpFrom, Zenon
        <5> QED
          BY <2>4, <4>1, <5>2, Zenon
      <4>3. f[i + 1].buf = u + s.size /\ f[i + 1].bss = x.bss
        BY <2>2, <2>3, <3>2, <4>1, SizedFields
      <4>4. a[i + 1].data = (at + u) + s.size /\ a[i + 1].bss = y.bss
        BY <2>2, <2>3, <3>2, <4>2, PlacedFields
      <4> QED
        BY <1>1, <2>3, <2>4, <4>3, <4>4
    <3>3. CASE s.alloc /\ s.type = "NOBITS"
      <4>1. PICK u \in Nat : u = AlignUp(x.bss, s.align)
        BY <2>3, <2>5, AlignUpFacts
      <4>2. AlignUp(y.bss, s.align) = B + u
        <5>1. B % s.align = 0
          BY <2>6, <3>3
        <5>2. AlignUp(B + x.bss, s.align) = B + AlignUp(x.bss, s.align)
          <6>1. B \in Nat /\ x.bss \in Nat /\ s.align \in Nat \ {0}
            BY <1>2, <2>3, <2>5, Zenon
          <6> QED
            BY <5>1, <6>1, AlignUpFrom, Zenon
        <5> QED
          BY <2>4, <4>1, <5>2, Zenon
      <4>3. f[i + 1].bss = u + s.size /\ f[i + 1].buf = x.buf
        BY <2>2, <2>3, <3>3, <4>1, SizedFields
      <4>4. a[i + 1].bss = (B + u) + s.size /\ a[i + 1].data = y.data
        BY <2>2, <2>3, <3>3, <4>2, PlacedFields
      <4> QED
        BY <1>2, <2>3, <2>4, <4>3, <4>4
    <3> QED
      BY <3>1, <3>2, <3>3
  <2> HIDE DEF Same
  <2> QED
    BY <2>1, <2>7
<1>5. m \in T
  <2> HIDE DEF T
  <2> QED
    BY <1>1, <1>3, <1>4, UpTo, Zenon
<1> QED
  BY <1>5

(* Where a section that is loaded begins and ends.                         *)
Spans(o, at, f, i) ==
  LET s == o.shdrs[i]
      addr == SectionAddr(o, at)[i]
  IN /\ addr \in Nat /\ addr % s.align = 0
     /\ s.type # "NOBITS" => at + f[i - 1].buf <= addr /\ addr + s.size = at + f[i].buf
     /\ s.type = "NOBITS" => /\ BssAt(o, at) + f[i - 1].bss <= addr
                             /\ addr + s.size = BssAt(o, at) + f[i].bss

LEMMA SectionSpan ==
  ASSUME NEW o, NEW at, Holds(o, at), NEW f, RoomAfter(f, o), Room(o) = f[Len(o.shdrs)],
         NEW i \in 1..Len(o.shdrs), o.shdrs[i].alloc
  PROVE  Spans(o, at, f, i)
<1> DEFINE n == Len(o.shdrs)
           B == BssAt(o, at)
           s == o.shdrs[i]
           x == f[i - 1]
<1>1. n \in Nat /\ DOMAIN o.shdrs = 1..n /\ Sections(o) /\ at \in Nat
  BY DEF Sections, Table, Holds
<1>2. B \in Nat
  BY <1>1, RoomType DEF BssAt
<1>3. PICK a : PlaceAfter(a, o, at)
               /\ SectionAddr(o, at) = [j \in DOMAIN o.shdrs |-> a[j].addr]
  BY <1>1, PlaceIs, Zenon
<1>4. SectionAddr(o, at)[i] = a[i].addr
  BY <1>1, <1>3
<1>5. i - 1 \in 0..n /\ i \in 0..n
  BY <1>1
<1>6. /\ x \in Rooms /\ a[i - 1] \in Places /\ a[i] \in Places
      /\ f[i] = Sized(x, s) /\ a[i] = Placed(a[i - 1], s)
  BY <1>3, <1>5, Zenon DEF RoomAfter, PlaceAfter
<1>7. s.addr \in Nat /\ s.size \in Nat /\ s.align \in Nat \ {0}
  BY <1>1 DEF Sections
<1>8. /\ a[i - 1].data = at + x.buf /\ a[i - 1].bss = B + x.bss
      /\ a[i].data = at + f[i].buf /\ a[i].bss = B + f[i].bss
  BY <1>3, <1>5, SamePasses
<1>9. x.buf \in Nat /\ x.bss \in Nat
  BY <1>6 DEF Rooms
<1>10. s.alloc
  OBVIOUS
<1> HIDE DEF s, x, B
<1>11. CASE s.type # "NOBITS"
  <2>0. at + x.buf \in Nat
    BY <1>1, <1>9
  <2>1. PICK u \in Nat : u = AlignUp(at + x.buf, s.align)
    BY <1>7, <2>0, AlignUpFacts, Zenon
  <2>2. a[i].addr = u /\ a[i].data = u + s.size
    BY <1>6, <1>7, <1>8, <1>10, <1>11, <2>1, PlacedFields
  <2>3. at + x.buf <= u /\ u % s.align = 0
    BY <1>7, <2>0, <2>1, AlignUpFacts, Zenon
  <2> QED
    BY <1>4, <1>8, <1>11, <2>2, <2>3 DEF s, x, B, Spans
<1>12. CASE s.type = "NOBITS"
  <2>0. B + x.bss \in Nat
    BY <1>2, <1>9
  <2>1. PICK u \in Nat : u = AlignUp(B + x.bss, s.align)
    BY <1>7, <2>0, AlignUpFacts, Zenon
  <2>2. a[i].addr = u /\ a[i].bss = u + s.size
    BY <1>6, <1>7, <1>8, <1>10, <1>12, <2>1, PlacedFields
  <2>3. B + x.bss <= u /\ u % s.align = 0
    BY <1>7, <2>0, <2>1, AlignUpFacts, Zenon
  <2> QED
    BY <1>4, <1>8, <1>12, <2>2, <2>3 DEF s, x, B, Spans
<1> QED
  BY <1>11, <1>12

LEMMA ByOne ==
  ASSUME NEW b \in Nat
  PROVE  b % 1 = 0
OBVIOUS

LEMMA LinkedSections ==
  ASSUME NEW o, WellLinked(o)
  PROVE  Sections(o) /\ Divides(o)
<1> DEFINE D == {o.shdrs[i].align : i \in DOMAIN o.shdrs} \cup {Page}
<1>1. Sections(o)
  BY DEF WellLinked, Sections
<1>2. \A a, b \in D : a <= b => b % a = 0
  BY Zenon DEF WellLinked
<1>3. ASSUME NEW a \in Aligned(o), NEW b \in Aligned(o), a <= b PROVE b % a = 0
  <2>1. a \in Nat \ {0} /\ b \in Nat \ {0}
    BY <1>1, AlignedType
  <2>2. CASE a = 1
    BY <2>1, <2>2, ByOne
  <2>3. CASE a # 1
    <3>1. b # 1
      BY <1>3, <2>1, <2>3
    <3>2. a \in D /\ b \in D
      BY <2>3, <3>1 DEF Aligned
    <3> HIDE DEF D
    <3> QED
      BY <1>2, <1>3, <3>2
  <2> QED
    BY <2>2, <2>3
<1> QED
  BY <1>1, <1>3 DEF Divides

(* The sections elf_rel_load places.                                       *)
Loads(o) == {i \in DOMAIN o.shdrs : o.shdrs[i].alloc /\ o.shdrs[i].size > 0}
EndOf(o, at, i) == SectionAddr(o, at)[i] + o.shdrs[i].size

Inside(o, at, i) ==
  LET addr == SectionAddr(o, at)[i]
      r == RelRequest(o, 0, 0, 1)
  IN /\ addr \in Nat /\ addr % o.shdrs[i].align = 0
     /\ at <= addr /\ EndOf(o, at, i) \in Nat /\ EndOf(o, at, i) <= at + r.memsz
     /\ o.shdrs[i].type # "NOBITS" => EndOf(o, at, i) <= at + r.bufsz

LEMMA SectionInside ==
  ASSUME NEW o, NEW at, Holds(o, at), NEW i \in DOMAIN o.shdrs, o.shdrs[i].alloc
  PROVE  Inside(o, at, i)
<1> DEFINE n == Len(o.shdrs)
           addr == SectionAddr(o, at)[i]
           room == Room(o)
           pad == BssPad(room)
<1>1. n \in Nat /\ DOMAIN o.shdrs = 1..n /\ Sections(o) /\ at \in Nat
  BY DEF Sections, Table, Holds
<1>at. at \in Nat
  BY DEF Holds
<1>2. room.buf \in Nat /\ pad \in Nat /\ room.bss \in Nat
  BY <1>1, RoomType
<1>3. PICK f : RoomAfter(f, o) /\ room = f[n]
  BY <1>1, RoomIs, Zenon
<1>4. i \in 1..n /\ i - 1 \in 0..n /\ i \in 0..n /\ n \in i..n /\ n \in 0..n
  BY <1>1
<1>5. f[i - 1] \in Rooms /\ f[i] \in Rooms
  BY <1>3, <1>4, Zenon DEF RoomAfter
<1>6. f[i - 1].buf \in Nat /\ f[i - 1].bss \in Nat /\ f[i].buf \in Nat /\ f[i].bss \in Nat
  BY <1>5 DEF Rooms
<1>7. f[i].buf <= room.buf /\ f[i].bss <= room.bss
  <2>1. Grows(f[i], f[n])
    BY <1>1, <1>3, <1>4, RoomGrows
  <2> QED
    BY <1>3, <2>1 DEF Grows
<1>8. BssAt(o, at) = at + room.buf + pad
  BY DEF BssAt
<1>9. /\ RelRequest(o, 0, 0, 1).memsz = room.buf + pad + room.bss
      /\ RelRequest(o, 0, 0, 1).bufsz = room.buf
  BY DEF RelRequest
<1>10. o.shdrs[i].size \in Nat
  BY <1>1 DEF Sections
<1>0. Spans(o, at, f, i)
  BY <1>3, <1>4, SectionSpan, Zenon
<1>11. /\ addr \in Nat /\ addr % o.shdrs[i].align = 0
       /\ o.shdrs[i].type # "NOBITS" =>
            at + f[i - 1].buf <= addr /\ addr + o.shdrs[i].size = at + f[i].buf
       /\ o.shdrs[i].type = "NOBITS" =>
            BssAt(o, at) + f[i - 1].bss <= addr
              /\ addr + o.shdrs[i].size = BssAt(o, at) + f[i].bss
  BY <1>0, Zenon DEF Spans
<1>12. EndOf(o, at, i) = addr + o.shdrs[i].size
  BY DEF EndOf
<1>13. PICK x \in Nat, y \in Nat, z \in Nat :
         x = room.buf /\ y = room.buf + pad /\ z = room.buf + pad + room.bss
  BY <1>2
<1> HIDE DEF addr, room, pad
<1>14. y + room.bss = z /\ x <= y /\ y <= z /\ BssAt(o, at) = at + y
  BY <1>at, <1>2, <1>8, <1>13
<1>15. /\ at <= addr /\ EndOf(o, at, i) \in Nat /\ EndOf(o, at, i) <= at + z
       /\ o.shdrs[i].type # "NOBITS" => EndOf(o, at, i) <= at + x
  <2>1. CASE o.shdrs[i].type # "NOBITS"
    <3>1. PICK u \in Nat, v \in Nat : u = f[i - 1].buf /\ v = f[i].buf
      BY <1>6
    <3>2. at + u <= addr /\ EndOf(o, at, i) = at + v /\ v <= x
      BY <1>7, <1>11, <1>12, <1>13, <2>1, <3>1
    <3>3. addr \in Nat /\ x <= z
      BY <1>11, <1>14
    <3> QED
      BY <1>at, <3>2, <3>3
  <2>2. CASE o.shdrs[i].type = "NOBITS"
    <3>1. PICK u \in Nat, v \in Nat : u = f[i - 1].bss /\ v = f[i].bss
      BY <1>6
    <3>2. at + y + u <= addr /\ EndOf(o, at, i) = at + y + v /\ v <= room.bss
      BY <1>7, <1>11, <1>12, <1>14, <2>2, <3>1
    <3>3. room.bss \in Nat /\ addr \in Nat
      BY <1>2, <1>11
    <3> QED
      BY <1>at, <1>14, <2>2, <3>2, <3>3
  <2> QED
    BY <2>1, <2>2
<1> QED
  BY <1>9, <1>11, <1>13, <1>15, Zenon DEF Inside, addr

LEMMA SectionsApart ==
  ASSUME NEW o, NEW at, Holds(o, at), NEW i \in DOMAIN o.shdrs, o.shdrs[i].alloc,
         NEW j \in DOMAIN o.shdrs, o.shdrs[j].alloc, i < j
  PROVE  EndOf(o, at, i) <= SectionAddr(o, at)[j] \/ EndOf(o, at, j) <= SectionAddr(o, at)[i]
<1> DEFINE n == Len(o.shdrs)
           addr == SectionAddr(o, at)
           room == Room(o)
           pad == BssPad(room)
           B == BssAt(o, at)
<1>1. n \in Nat /\ DOMAIN o.shdrs = 1..n /\ Sections(o) /\ at \in Nat
  BY DEF Sections, Table, Holds
<1>at. at \in Nat
  BY DEF Holds
<1>2. room.buf \in Nat /\ pad \in Nat /\ room.bss \in Nat
  BY <1>1, RoomType
<1>3. PICK f : RoomAfter(f, o) /\ room = f[n]
  BY <1>1, RoomIs, Zenon
<1>4. /\ i \in 1..n /\ j \in 1..n /\ i \in 0..n /\ j - 1 \in i..n /\ n \in i..n /\ n \in j..n
      /\ i - 1 \in 0..n /\ j - 1 \in 0..n /\ j \in 0..n
  BY <1>1
<1>5. \A m \in 0..n : f[m].buf \in Nat /\ f[m].bss \in Nat
  <2>1. \A m \in 0..n : f[m] \in Rooms
    BY <1>3, Zenon DEF RoomAfter
  <2> QED
    BY <2>1 DEF Rooms
<1>6. Grows(f[i], f[j - 1]) /\ Grows(f[i], f[n]) /\ Grows(f[j], f[n])
  BY <1>1, <1>3, <1>4, RoomGrows
<1>7. /\ f[i].buf <= f[j - 1].buf /\ f[i].bss <= f[j - 1].bss
      /\ f[i].buf <= room.buf /\ f[j].buf <= room.buf
  BY <1>3, <1>6 DEF Grows
<1>8. B = at + room.buf + pad
  BY DEF BssAt
<1>0. Spans(o, at, f, i) /\ Spans(o, at, f, j)
  BY <1>3, <1>4, SectionSpan, Zenon
<1>9. /\ addr[i] \in Nat
      /\ o.shdrs[i].type # "NOBITS" =>
           at + f[i - 1].buf <= addr[i] /\ addr[i] + o.shdrs[i].size = at + f[i].buf
      /\ o.shdrs[i].type = "NOBITS" =>
           B + f[i - 1].bss <= addr[i] /\ addr[i] + o.shdrs[i].size = B + f[i].bss
  BY <1>0, Zenon DEF Spans
<1>10. /\ addr[j] \in Nat
       /\ o.shdrs[j].type # "NOBITS" =>
            at + f[j - 1].buf <= addr[j] /\ addr[j] + o.shdrs[j].size = at + f[j].buf
       /\ o.shdrs[j].type = "NOBITS" =>
            B + f[j - 1].bss <= addr[j] /\ addr[j] + o.shdrs[j].size = B + f[j].bss
  BY <1>0, Zenon DEF Spans
<1>11. /\ EndOf(o, at, i) = addr[i] + o.shdrs[i].size
       /\ EndOf(o, at, j) = addr[j] + o.shdrs[j].size
  BY DEF EndOf
<1>12. /\ f[i].buf \in Nat /\ f[i].bss \in Nat /\ f[j].buf \in Nat /\ f[i - 1].bss \in Nat
       /\ f[j - 1].buf \in Nat /\ f[j - 1].bss \in Nat
  BY <1>4, <1>5
<1> HIDE DEF addr, room, pad, B
<1>13. CASE o.shdrs[i].type # "NOBITS" /\ o.shdrs[j].type # "NOBITS"
  <2>1. EndOf(o, at, i) = at + f[i].buf /\ at + f[j - 1].buf <= addr[j] /\ addr[j] \in Nat
    BY <1>9, <1>10, <1>11, <1>13
  <2>2. EndOf(o, at, i) <= addr[j]
    BY <1>at, <1>7, <1>12, <2>1
  <2> QED
    BY <2>2 DEF addr
<1>14. CASE o.shdrs[i].type = "NOBITS" /\ o.shdrs[j].type = "NOBITS"
  <2>1. B \in Nat
    BY <1>at, <1>2, <1>8
  <2>2. EndOf(o, at, i) = B + f[i].bss /\ B + f[j - 1].bss <= addr[j] /\ addr[j] \in Nat
    BY <1>9, <1>10, <1>11, <1>14
  <2>3. EndOf(o, at, i) <= addr[j]
    BY <1>7, <1>12, <2>1, <2>2
  <2> QED
    BY <2>3 DEF addr
<1>15. CASE o.shdrs[i].type # "NOBITS" /\ o.shdrs[j].type = "NOBITS"
  <2>1. B \in Nat /\ at + room.buf <= B
    BY <1>at, <1>2, <1>8
  <2>2. EndOf(o, at, i) = at + f[i].buf /\ B + f[j - 1].bss <= addr[j]
    BY <1>9, <1>10, <1>11, <1>15
  <2>3. EndOf(o, at, i) <= addr[j]
    <3>1. addr[j] \in Nat
      BY <1>10
    <3> QED
      BY <1>at, <1>2, <1>7, <1>12, <2>1, <2>2, <3>1
  <2> QED
    BY <2>3 DEF addr
<1>16. CASE o.shdrs[i].type = "NOBITS" /\ o.shdrs[j].type # "NOBITS"
  <2>1. B \in Nat /\ at + room.buf <= B
    BY <1>at, <1>2, <1>8
  <2>2. EndOf(o, at, j) = at + f[j].buf /\ B + f[i - 1].bss <= addr[i]
    BY <1>9, <1>10, <1>11, <1>16
  <2>3. EndOf(o, at, j) <= addr[i]
    <3>1. addr[i] \in Nat
      BY <1>9
    <3> QED
      BY <1>at, <1>2, <1>7, <1>12, <2>1, <2>2, <3>1
  <2> QED
    BY <2>3 DEF addr
<1> QED
  BY <1>13, <1>14, <1>15, <1>16

(* A symbol is in or at the end of a section that is loaded.               *)
LEMMA SymbolInside ==
  ASSUME NEW o, WellLinked(o), NEW at, Holds(o, at), NEW name \in DOMAIN o.symbols
  PROVE  LET j == o.symbols[name].shndx
         IN /\ j \in Loads(o) /\ SymbolAddr(o, at, name) \in Nat
            /\ SectionAddr(o, at)[j] <= SymbolAddr(o, at, name)
            /\ SymbolAddr(o, at, name) + o.symbols[name].size <= EndOf(o, at, j)
            /\ name \in Entries =>
                 o.shdrs[j].type # "NOBITS" /\ SymbolAddr(o, at, name) < EndOf(o, at, j)
<1> DEFINE y == o.symbols[name]
           j == y.shndx
           s == o.shdrs[j]
<1>1. /\ j \in DOMAIN o.shdrs /\ s.alloc /\ s.size > 0
      /\ y.value \in Nat /\ y.size \in Nat /\ y.value + y.size <= s.size
      /\ name \in Entries => s.type # "NOBITS" /\ y.value < s.size
  BY DEF WellLinked, SymbolLinked
<1>2. j \in Loads(o)
  BY <1>1 DEF Loads
<1>3. SectionAddr(o, at)[j] \in Nat
  BY <1>1, SectionInside, Zenon DEF Inside
<1>4. SymbolAddr(o, at, name) = SectionAddr(o, at)[j] + y.value
  BY DEF SymbolAddr
<1>5. EndOf(o, at, j) = SectionAddr(o, at)[j] + s.size
  BY DEF EndOf
<1>6. s.size \in Nat
  BY <1>1 DEF Holds, Sections
<1> HIDE DEF y, j, s
<1>7. /\ SymbolAddr(o, at, name) \in Nat
      /\ SectionAddr(o, at)[j] <= SymbolAddr(o, at, name)
      /\ SymbolAddr(o, at, name) + y.size <= EndOf(o, at, j)
      /\ y.value < s.size => SymbolAddr(o, at, name) < EndOf(o, at, j)
  BY <1>1, <1>3, <1>4, <1>5, <1>6
<1> QED
  BY <1>1, <1>2, <1>7, Zenon DEF y, j, s

(* A relative relocation counts from its own place and comes back.         *)
LEMMA RelativeBack ==
  ASSUME NEW v \in Nat, v < Word, NEW p \in Int
  PROVE  Cut(Wrap(v - p) + p) = v
<1>1. Word \in Nat
  BY PageAssumption
<1>2. v % Word = v /\ (v + Word) % Word = v /\ (v - Word) % Word = v
  BY <1>1, Z3
<1>3. Wrap(v - p) + p \in {v, v + Word, v - Word}
  BY <1>1 DEF Wrap
<1> QED
  BY <1>2, <1>3 DEF Cut

(* A relocated word and the entry lead into what is loaded.                *)
LEMMA TargetInside ==
  ASSUME NEW o, WellLinked(o), NEW at, Holds(o, at),
         at + RelRequest(o, 0, 0, 1).memsz < Word, ~RelocDies(o), NEW i \in DOMAIN o.relocs
  PROVE  LET r == o.relocs[i]
             j == o.symbols[r.symbol].shndx
             target == IF r.type = "R_386_32" THEN Relocated(o, at, r)
                       ELSE Cut(Relocated(o, at, r) + SectionAddr(o, at)[r.section] + r.offset + 4)
         IN j \in Loads(o) /\ SectionAddr(o, at)[j] <= target /\ target <= EndOf(o, at, j)
<1> DEFINE r == o.relocs[i]
           y == o.symbols[r.symbol]
           j == y.shndx
           a == SectionAddr(o, at)[j]
           place == SectionAddr(o, at)[r.section] + r.offset
           more == IF r.type = "R_386_PC32" THEN 4 ELSE 0
           w == a + (y.value + r.addend + more)
           target == IF r.type = "R_386_32" THEN Relocated(o, at, r)
                     ELSE Cut(Relocated(o, at, r) + SectionAddr(o, at)[r.section] + r.offset + 4)
<1>1. r.symbol \in DOMAIN o.symbols /\ r.type \in {"R_386_32", "R_386_PC32"}
  BY DEF RelocDies
<1>2. j \in Loads(o) /\ y.value \in Nat
  <2>1. j \in Loads(o)
    BY <1>1, SymbolInside, Zenon
  <2>2. y.value \in Nat
    BY <1>1 DEF WellLinked, SymbolLinked
  <2> QED
    BY <2>1, <2>2, Zenon
<1>3. /\ r.section \in DOMAIN o.shdrs /\ r.offset \in Nat /\ r.addend \in Int
      /\ 0 <= y.value + r.addend + more /\ y.value + r.addend + more <= o.shdrs[j].size
  BY <1>1 DEF WellLinked, RelocLinked
<1>4. j \in DOMAIN o.shdrs /\ o.shdrs[j].alloc
  BY <1>2 DEF Loads
<1>5. /\ a \in Nat /\ EndOf(o, at, j) \in Nat
      /\ EndOf(o, at, j) <= at + RelRequest(o, 0, 0, 1).memsz
  BY <1>4, SectionInside, Zenon DEF Inside
<1>6. at + RelRequest(o, 0, 0, 1).memsz \in Nat /\ Word \in Nat
  BY RoomType, PageAssumption DEF RelRequest, Holds
<1>7. o.shdrs[j].size \in Nat /\ EndOf(o, at, j) = a + o.shdrs[j].size
  BY <1>4 DEF Holds, Sections, EndOf
<1>8. SectionAddr(o, at)[r.section] \in Int
  <2>1. PICK b : PlaceAfter(b, o, at)
                 /\ SectionAddr(o, at) = [m \in DOMAIN o.shdrs |-> b[m].addr]
    BY PlaceIs, Zenon DEF Holds
  <2>2. Len(o.shdrs) \in Nat /\ DOMAIN o.shdrs = 1..Len(o.shdrs)
    BY DEF Holds, Sections, Table
  <2>3. r.section \in 0..Len(o.shdrs)
    BY <1>3, <2>2
  <2>4. b[r.section] \in Places
    BY <2>1, <2>3, Zenon DEF PlaceAfter
  <2> QED
    BY <1>3, <2>1, <2>4 DEF Places
<1>9. place \in Int
  BY <1>3, <1>8
<1>10. SymbolAddr(o, at, r.symbol) = a + y.value
  BY DEF SymbolAddr
<1>11. /\ r.type = "R_386_32" => Relocated(o, at, r) = Wrap(r.addend + (a + y.value))
       /\ r.type # "R_386_32" => Relocated(o, at, r) = Wrap(r.addend + ((a + y.value) - place))
  <2>1. PICK v : v = SymbolAddr(o, at, r.symbol)
    OBVIOUS
  <2>2. Relocated(o, at, r) = Wrap(r.addend + (IF r.type = "R_386_32" THEN v ELSE v - place))
    BY <2>1 DEF Relocated
  <2>3. v = a + y.value
    BY <1>10, <2>1, Zenon
  <2>4. CASE r.type = "R_386_32"
    <3>1. Relocated(o, at, r) = Wrap(r.addend + v)
      BY <2>2, <2>4
    <3> QED
      BY <2>3, <2>4, <3>1, Zenon
  <2>5. CASE r.type # "R_386_32"
    <3>1. Relocated(o, at, r) = Wrap(r.addend + (v - place))
      BY <2>2, <2>5
    <3>2. v - place = (a + y.value) - place
      BY <2>3, Zenon
    <3> HIDE DEF a, y, place
    <3> QED
      BY <2>5, <3>1, <3>2, Zenon
  <2> QED
    BY <2>4, <2>5, Zenon
<1>12. more \in {0, 4} /\ (r.type = "R_386_32" => more = 0) /\ (r.type # "R_386_32" => more = 4)
  BY <1>1
<1> HIDE DEF y, j, a, place, more
<1>13. w \in Nat /\ w < Word /\ a <= w /\ w <= EndOf(o, at, j)
  <2>1. PICK to \in Int : to = y.value + r.addend + more /\ 0 <= to /\ to <= o.shdrs[j].size
    BY <1>2, <1>3, <1>12
  <2>2. PICK size \in Nat : size = o.shdrs[j].size
    BY <1>7, Zenon
  <2>3. PICK memsz \in Nat : memsz = at + RelRequest(o, 0, 0, 1).memsz /\ memsz < Word
    BY <1>6, Zenon
  <2>4. w = a + to /\ EndOf(o, at, j) = a + size /\ a + size <= memsz /\ to <= size
    BY <1>5, <1>7, <2>1, <2>2, <2>3, Zenon
  <2> HIDE DEF w
  <2> QED
    BY <1>5, <1>6, <2>1, <2>3, <2>4
<1>14. target = w
  <2>1. CASE r.type = "R_386_32"
    <3>1. target = Wrap(r.addend + (a + y.value)) /\ w = a + (y.value + r.addend + 0)
      BY <1>11, <1>12, <2>1, Zenon
    <3>2. r.addend + (a + y.value) = w
      BY <1>2, <1>3, <1>5, <3>1
    <3>3. Wrap(w) = w
      BY <1>6, <1>13 DEF Wrap
    <3> QED
      BY <3>1, <3>2, <3>3, Zenon
  <2>2. CASE r.type # "R_386_32"
    <3>1. /\ Relocated(o, at, r) = Wrap(r.addend + ((a + y.value) - place))
          /\ w = a + (y.value + r.addend + 4)
      BY <1>11, <1>12, <2>2, Zenon
    <3>2. r.addend + ((a + y.value) - place) = w - (place + 4)
      BY <1>2, <1>3, <1>5, <1>9, <3>1
    <3>3. Wrap(w - (place + 4)) \in Int
      BY <1>6, <1>9, <1>13 DEF Wrap
    <3>4. Relocated(o, at, r) + SectionAddr(o, at)[r.section] + r.offset + 4
            = Wrap(w - (place + 4)) + (place + 4)
      BY <1>3, <1>8, <3>1, <3>2, <3>3 DEF place
    <3>5. Cut(Wrap(w - (place + 4)) + (place + 4)) = w
      <4> HIDE DEF w
      <4>1. place + 4 \in Int
        BY <1>9
      <4> QED
        BY <1>13, <4>1, RelativeBack
    <3> QED
      BY <2>2, <3>4, <3>5, Zenon
  <2> QED
    BY <2>1, <2>2
<1> HIDE DEF w, target
<1>15. j \in Loads(o) /\ a <= target /\ target <= EndOf(o, at, j)
  BY <1>2, <1>13, <1>14, Zenon
<1> QED
  BY <1>15, Zenon DEF j, y, a, target

LEMMA EntryInside ==
  ASSUME NEW o, WellLinked(o), NEW at, Holds(o, at), Holding(o) # {}
  PROVE  \E j \in Loads(o) : /\ SectionAddr(o, at)[j] <= RelEntry(o, at)
                             /\ RelEntry(o, at) < EndOf(o, at, j)
<1>1. Holding(o) \subseteq Nat
  BY DEF Holding, WellLinked, Table
<1>2. \E i \in Holding(o) : \A j \in Holding(o) : i <= j
  BY <1>1, Least
<1>3. PICK i \in Holding(o) : RelEntry(o, at) = o.entry - o.shdrs[i].addr + SectionAddr(o, at)[i]
  BY <1>2, Zenon DEF RelEntry
<1>4. /\ i \in DOMAIN o.shdrs /\ o.shdrs[i].alloc /\ o.shdrs[i].addr <= o.entry
      /\ o.entry < o.shdrs[i].addr + o.shdrs[i].size
  BY DEF Holding
<1>5. o.shdrs[i].addr \in Nat /\ o.shdrs[i].size \in Nat /\ o.entry \in Nat
  BY <1>4 DEF WellLinked
<1>6. SectionAddr(o, at)[i] \in Nat
  BY <1>4, SectionInside, Zenon DEF Inside
<1>7. i \in Loads(o)
  BY <1>4, <1>5 DEF Loads
<1>8. SectionAddr(o, at)[i] <= RelEntry(o, at) /\ RelEntry(o, at) < EndOf(o, at, i)
  BY <1>3, <1>4, <1>5, <1>6 DEF EndOf
<1> QED
  BY <1>7, <1>8

-----------------------------------------------------------------------------
(* KexecLoaders: the steps of a loader *)

(* A request for a buffer whose numbers are unsigned longs, its alignment  *)
(* whatever the sections of purgatory ask for.                             *)
BufferRequest(r) ==
  /\ r.bufsz \in ULong /\ r.memsz \in ULong /\ r.max \in ULong
  /\ r.align \in Nat /\ r.min \in Nat /\ (r.min = 0 \/ RoundsUp(r.min, r.align))

(* The hole locate_hole returns is aligned and within the limits asked for.*)
LEMMA HoleFacts ==
  ASSUME NEW t \in Seq(Segment), NEW r, BufferRequest(r), NEW b \in LocateHole(t, r)
  PROVE  b \in Nat /\ b % HoleAlign(r) = 0 /\ r.min <= b /\ b + r.memsz <= r.max
<1>1. PICK p \in FreeRanges(t) : Fits(p, r) /\ b = HoleBase(p, r)
  BY DEF LocateHole
<1>2. b + r.memsz <= r.max
  BY DEF LocateHole
<1>3. p.start \in Int /\ p.end \in Int
  BY FreeRangeFields
<1>4. r.memsz \in Nat /\ r.align \in Nat /\ r.min \in Nat /\ r.max \in Nat
  BY PageAssumption DEF BufferRequest, ULong
<1>5. MemMin \in Nat /\ MemMax \in Nat
  BY LimitsAssumption
<1>6. PICK h \in Nat \ {0} : h = HoleAlign(r)
  BY <1>4, PageAssumption DEF HoleAlign, Greater
<1>7. PICK w \in Nat : w = Greater(p.start, Greater(MemMin, r.min)) /\ r.min <= w
  BY <1>3, <1>4, <1>5 DEF Greater
<1>u. PICK up \in Nat : up = AlignUp(w, h) /\ up % h = 0 /\ w <= up /\ up < w + h
  BY AlignUpFacts, AlignUpNear
<1>8. PICK u \in Nat : u = HoleStart(p, r) /\ u = IF up < Word THEN up ELSE 0
  BY <1>6, <1>7, <1>u DEF HoleStart
<1>9. u % h = 0 /\ r.min <= u
  <2>1. 0 % h = 0
    BY ZeroMod
  <2>2. CASE r.min = 0
    BY <1>8, <1>u, <2>1, <2>2
  <2>3. CASE RoundsUp(r.min, r.align)
    <3>1. TopClear(p, r)
      BY <1>4, <2>3, EntryBelowTop
    <3>2. w \in {p.start, MemMin, r.min}
      BY <1>7 DEF Greater
    <3>3. w + h <= Word
      BY <1>6, <3>1, <3>2, Zenon DEF TopClear
    <3>4. up < Word
      BY <1>u, <3>3, PageAssumption
    <3> QED
      BY <1>4, <1>7, <1>8, <1>u, <3>4
  <2> QED
    BY <2>2, <2>3 DEF BufferRequest
<1>10. PICK e \in Int : e = HoleEnd(p, r)
  BY <1>3, <1>4, <1>5 DEF HoleEnd, Lesser
<1>11. e - u >= r.memsz
  BY <1>1, <1>8, <1>10 DEF Fits
<1>12. CASE r.dir > 0
  BY <1>1, <1>2, <1>6, <1>8, <1>9, <1>12 DEF HoleBase
<1>13. CASE ~(r.dir > 0)
  <2>1. PICK x \in Nat : x = e - r.memsz /\ u <= x
    BY <1>4, <1>11
  <2>2. b = AlignDown(x, h)
    BY <1>1, <1>6, <1>10, <1>13, <2>1 DEF HoleBase
  <2>3. b \in Nat /\ b % h = 0
    BY <2>2, AlignDownFacts
  <2>4. u <= b
    BY <1>9, <2>1, <2>2, AlignDownAbove
  <2> QED
    BY <1>2, <1>4, <1>6, <1>9, <2>3, <2>4
<1> QED
  BY <1>12, <1>13

(* The steps a loader may take: the segments and buffers it asks for, the  *)
(* segments of an executable, and the steps that place nothing.            *)
PurgatoryRequest(t, c) ==
  IF t \in BzLoaders THEN RelRequest(c.purgatory, LowMin, LowMax, -1)
  ELSE RelRequest(c.purgatory, 0, UlongMax, 1)

PurgatoryBuffer(t, c) == BufferOf("purgatory", -1, PurgatoryRequest(t, c))
SetupSize(t, c) == Kern16Size(KernelOf(t, c)) + LineOf(t, c)
SetupStep(t, c) ==
  IF KernelOf(t, c).protocol >= 512
  THEN BufferOf("setup", -1, Plain(SetupSize(t, c), 16, LowMin, LowMax, -1))
  ELSE SegmentAt("setup", -1,
         [bufsz |-> SetupSize(t, c), base |-> SetupBase, memsz |-> SetupSize(t, c)])
Kern32Size(k) == k.len - Kern16Size(k)
KernelSegment(t, c) ==
  SegmentAt("kernel", KernelAt(t, c) + Kern16Size(KernelOf(t, c)),
    [bufsz |-> Kern32Size(KernelOf(t, c)), base |-> Kern32Base,
     memsz |-> Kern32Size(KernelOf(t, c))])
InitrdBuffer(t, c) ==
  BufferOf("initrd", RamdiskAt(t, c),
    Plain(RamdiskOf(t, c), 4096, InitrdBase, InitrdMax(KernelOf(t, c)), -1))
NotesBuffer(c) ==
  BufferOf("notes", -1, Plain(BootNotesSize + AlignUp(c.cmdline, 4), 4, 0, UlongMax, 1))
ParamsBuffer == BufferOf("params", -1, Plain(FakedParamSize, 16, 0, UlongMax, 1))
MmapBuffer == BufferOf("mmap", -1, Plain(Len(Ranges) * MmapEntry, 4, 0, UlongMax, 1))
MbiBuffer(c) == BufferOf("mbi", -1, Plain(MbiBytes(c), 4, 0, UlongMax, 1))
ModuleBuffer(c, i) ==
  BufferOf(ModulePart(i), -1, Plain(c.modules[i].size, Page, 0, UlongMax, 1))
NbiSegment(f, i) ==
  SegmentAt("nbi", NbiFrom(f)[i],
    [bufsz |-> f.segs[i].imglen, base |-> NbiAddr(f)[i], memsz |-> f.segs[i].memlen])
NbiFirst(f) == SegmentAt("nbi", 0, [bufsz |-> NbiHeader, base |-> f.base, memsz |-> NbiHeader])

(* The setup code as a buffer, or with the address of an old kernel's.     *)
LEMMA SetupFacts ==
  ASSUME NEW t, NEW c
  PROVE  LET s == SetupStep(t, c)
         IN /\ s.part = "setup" /\ s.from = -1
            /\ s.request.bufsz = SetupSize(t, c) /\ s.request.memsz = SetupSize(t, c)
            /\ \/ /\ KernelOf(t, c).protocol >= 512 /\ s.op = "buffer"
                  /\ s.request = Plain(SetupSize(t, c), 16, LowMin, LowMax, -1)
               \/ /\ ~(KernelOf(t, c).protocol >= 512) /\ s.op = "segment"
                  /\ s.request.base = SetupBase
<1>1. CASE KernelOf(t, c).protocol >= 512
  <2>1. SetupStep(t, c) = BufferOf("setup", -1, Plain(SetupSize(t, c), 16, LowMin, LowMax, -1))
    BY <1>1, Zenon DEF SetupStep
  <2> QED
    BY <1>1, <2>1 DEF BufferOf, Plain
<1>2. CASE ~(KernelOf(t, c).protocol >= 512)
  <2>1. SetupStep(t, c) = SegmentAt("setup", -1,
          [bufsz |-> SetupSize(t, c), base |-> SetupBase, memsz |-> SetupSize(t, c)])
    BY <1>2, Zenon DEF SetupStep
  <2> QED
    BY <1>2, <2>1 DEF SegmentAt
<1> QED
  BY <1>1, <1>2

(* The kernel is whole.                                                    *)
Whole(k) == k.len >= LinuxHeaderSize /\ k.len >= Kern16Size(k)

Asked(t, c) ==
  {s \in {PurgatoryBuffer(t, c), SetupStep(t, c), KernelSegment(t, c), InitrdBuffer(t, c)} :
     t \in BzLoaders /\ Whole(KernelOf(t, c)) /\ (s.part = "initrd" => RamdiskOf(t, c) >= 0)}
  \cup {s \in {PurgatoryBuffer(t, c), NotesBuffer(c), ParamsBuffer} : t = "elf-x86"}
  \cup {s \in {PurgatoryBuffer(t, c), MmapBuffer, MbiBuffer(c)} : t = "multiboot-x86"}
  \cup {ModuleBuffer(c, i) : i \in {j \in DOMAIN c.modules : t = "multiboot-x86"}}
  \cup {s \in {NbiFirst(c.file)} : t = "nbi-x86"}
  \cup {NbiSegment(c.file, i) : i \in {j \in DOMAIN c.file.segs : t = "nbi-x86"}}

ExecLoad(p) == [op |-> "load", part |-> "exec", from |-> p.offset, phdr |-> p]
ExecLoads(t, c) ==
  {ExecLoad(c.file.phdrs[i]) :
     i \in {j \in DOMAIN c.file.phdrs : t \in {"elf-x86", "multiboot-x86"}}}

Checks ==
  {[op |-> x] : x \in {"fail", "die", "hole", "purgatory info", "relocate", "above", "sort",
                       "symbols"}}

Steps(t, c) ==
  Asked(t, c) \cup ExecLoads(t, c)
    \cup {s \in Checks : s.op = "hole" => t \in {"elf-x86", "multiboot-x86"}}

Placing(s) == s.op \in {"segment", "buffer"}
Puts(s, part) == Placing(s) /\ s.part = part

(* What a kernel of each kind is told of has to be there.                  *)
Needs(t, c) ==
  {p \in {"purgatory", "setup", "kernel", "initrd"} :
     t \in BzLoaders /\ (p = "initrd" => RamdiskOf(t, c) >= 0)}
  \cup {p \in {"purgatory", "notes"} : t = "elf-x86" /\ c.style = "elf"}
  \cup {p \in {"purgatory", "params"} : t = "elf-x86" /\ c.style # "elf"}
  \cup {p \in {"purgatory", "mbi"} : t = "multiboot-x86"}
  \cup {p \in {"mmap"} : t = "multiboot-x86" /\ c.file.multiboot = "memory"}
  \cup {ModulePart(i) : i \in {j \in DOMAIN c.modules : t = "multiboot-x86"}}

(* The order the loaders keep to: everything a kernel is told of is placed *)
(* before the symbols are set and nothing after, and the setup code is     *)
(* compared with purgatory once purgatory is placed and neither will be    *)
(* any more.                                                               *)
Ordered(P, needs) ==
  /\ \A i \in DOMAIN P : P[i].op = "symbols" =>
       /\ \A p \in needs : \E j \in 1..i - 1 : Puts(P[j], p)
       /\ \A j \in DOMAIN P : j > i => ~Placing(P[j])
  /\ \A i \in DOMAIN P : Puts(P[i], "setup") =>
       \E j \in DOMAIN P : j > i /\ P[j].op = "above"
  /\ \A i, j \in DOMAIN P : P[i].op = "above" /\ i < j =>
       ~Puts(P[j], "setup") /\ ~Puts(P[j], "purgatory")
  /\ \A i \in DOMAIN P : P[i].op = "above" /\ "purgatory" \in needs =>
       \E j \in 1..i - 1 : Puts(P[j], "purgatory")

(* Steps that come before any of that.                                     *)
LEMMA OrderedAfter ==
  ASSUME NEW S, NEW A \in Seq(S), NEW B \in Seq(S), NEW needs, NEW rest,
         \A i \in DOMAIN A : A[i].op \notin {"symbols", "above"} /\ ~Puts(A[i], "setup"),
         \A p \in needs : p \in rest \/ \E i \in DOMAIN A : Puts(A[i], p),
         Ordered(B, rest)
  PROVE  Ordered(A \o B, needs)
<1> DEFINE P == A \o B
           m == Len(A)
           n == Len(B)
<1>1. m \in Nat /\ n \in Nat /\ DOMAIN A = 1..m /\ DOMAIN B = 1..n /\ DOMAIN P = 1..(m + n)
  OBVIOUS
<1>2. \A i \in 1..m : P[i] = A[i]
  OBVIOUS
<1>3. \A i \in 1..n : P[m + i] = B[i]
  OBVIOUS
<1>4. \A i \in DOMAIN P : i \in 1..m \/ \E k \in 1..n : i = m + k
  <2>1. \A i \in 1..(m + n) : i \in 1..m \/ (i - m \in 1..n /\ i = m + (i - m))
    BY <1>1
  <2> QED
    BY <1>1, <2>1
<1> HIDE DEF P, m, n
<1>5. ASSUME NEW i \in DOMAIN P, P[i].op \in {"symbols", "above"} \/ Puts(P[i], "setup")
      PROVE  \E k \in 1..n : i = m + k /\ P[i] = B[k]
  <2>1. i \notin 1..m
    BY <1>1, <1>2, <1>5, Zenon
  <2> QED
    BY <1>3, <1>4, <2>1, Zenon
<1>6. ASSUME NEW i \in DOMAIN P, NEW p \in needs,
             P[i].op = "symbols" \/ (P[i].op = "above" /\ p = "purgatory")
      PROVE  \E j \in 1..i - 1 : Puts(P[j], p)
  <2>1. PICK k \in 1..n : i = m + k /\ P[i] = B[k]
    BY <1>5, <1>6
  <2>2. CASE p \in rest
    <3>1. PICK j \in 1..k - 1 : Puts(B[j], p)
      <4>1. B[k].op = "symbols" \/ (B[k].op = "above" /\ p = "purgatory")
        BY <1>6, <2>1, Zenon
      <4> QED
        BY <1>1, <2>2, <4>1, Zenon DEF Ordered
    <3>2. j \in 1..n /\ m + j \in 1..i - 1
      BY <1>1, <2>1
    <3> QED
      BY <1>3, <3>1, <3>2, Zenon
  <2>3. ASSUME NEW j \in DOMAIN A, Puts(A[j], p)
        PROVE  \E j_1 \in 1..i - 1 : Puts(P[j_1], p)
    <3>1. j \in 1..m /\ j \in 1..i - 1
      BY <1>1, <2>1
    <3> QED
      BY <1>2, <2>3, <3>1, Zenon
  <2> QED
    BY <2>2, <2>3, Zenon
<1>7. ASSUME NEW i \in DOMAIN P, P[i].op = "symbols", NEW j \in DOMAIN P, j > i
      PROVE  ~Placing(P[j])
  <2>1. PICK k \in 1..n : i = m + k /\ P[i] = B[k]
    BY <1>5, <1>7
  <2>2. PICK l \in 1..n : j = m + l /\ l > k
    <3>1. j - m \in 1..n /\ j = m + (j - m) /\ j - m > k
      BY <1>1, <1>7, <2>1
    <3> QED
      BY <3>1, Zenon
  <2> QED
    BY <1>1, <1>3, <1>7, <2>1, <2>2, Zenon DEF Ordered
<1>8. ASSUME NEW i \in DOMAIN P, Puts(P[i], "setup")
      PROVE  \E j \in DOMAIN P : j > i /\ P[j].op = "above"
  <2>1. PICK k \in 1..n : i = m + k /\ P[i] = B[k]
    BY <1>5, <1>8
  <2>4. PICK l \in 1..n : l > k /\ B[l].op = "above"
    BY <1>1, <1>8, <2>1, Zenon DEF Ordered
  <2>5. m + l \in DOMAIN P /\ m + l > i
    BY <1>1, <2>1, <2>4
  <2> QED
    BY <1>3, <2>4, <2>5, Zenon
<1>9. ASSUME NEW i \in DOMAIN P, NEW j \in DOMAIN P, P[i].op = "above", i < j
      PROVE  ~Puts(P[j], "setup") /\ ~Puts(P[j], "purgatory")
  <2>1. PICK k \in 1..n : i = m + k /\ P[i] = B[k]
    BY <1>5, <1>9
  <2>2. PICK l \in 1..n : j = m + l /\ k < l
    <3>1. j - m \in 1..n /\ j = m + (j - m) /\ k < j - m
      BY <1>1, <1>9, <2>1
    <3> QED
      BY <3>1, Zenon
  <2>3. \A a, b \in 1..n : B[a].op = "above" /\ a < b =>
          ~Puts(B[b], "setup") /\ ~Puts(B[b], "purgatory")
    BY <1>1, Zenon DEF Ordered
  <2>4. P[j] = B[l] /\ B[k].op = "above"
    BY <1>3, <1>9, <2>1, <2>2, Zenon
  <2> QED
    BY <2>2, <2>3, <2>4, Zenon
<1>10. Ordered(P, needs)
  BY <1>6, <1>7, <1>8, <1>9, Zenon DEF Ordered
<1> QED
  BY <1>10 DEF P

CheckStep(x) == [op |-> x]

LEMMA CheckSteps ==
  /\ \A x : Check(x) = <<CheckStep(x)>> /\ CheckStep(x).op = x
  /\ \A t, c : \A x \in {"fail", "die", "purgatory info", "relocate", "above", "sort",
                         "symbols"} : CheckStep(x) \in Steps(t, c)
  /\ \A t \in {"elf-x86", "multiboot-x86"} : \A c : CheckStep("hole") \in Steps(t, c)
  /\ \A x, p : x \notin {"segment", "buffer"} => ~Puts(CheckStep(x), p) /\ ~Placing(CheckStep(x))
<1>1. \A x : Check(x) = <<CheckStep(x)>> /\ CheckStep(x).op = x
  BY DEF Check, CheckStep
<1>2. ASSUME NEW t, NEW c,
             NEW x \in {"fail", "die", "hole", "purgatory info", "relocate", "above", "sort",
                        "symbols"}, x = "hole" => t \in {"elf-x86", "multiboot-x86"}
      PROVE  CheckStep(x) \in Steps(t, c)
  <2>1. CheckStep(x) \in Checks
    BY DEF Checks, CheckStep
  <2>2. CheckStep(x).op = x
    BY <1>1
  <2> QED
    BY <1>2, <2>1, <2>2, Zenon DEF Steps
<1> QED
  BY <1>1, <1>2 DEF Puts, Placing

(* Nothing is in the way of a list that places and tells nothing.          *)
LEMMA OneCheck ==
  ASSUME NEW x, x # "symbols", x \notin {"segment", "buffer"}, x # "above", NEW needs
  PROVE  Ordered(Check(x), needs)
<1>1. \A i \in DOMAIN Check(x) : Check(x)[i] = CheckStep(x)
  BY DEF Check, CheckStep
<1>2. CheckStep(x).op = x /\ \A p : ~Puts(CheckStep(x), p) /\ ~Placing(CheckStep(x))
  BY CheckSteps
<1> HIDE DEF Check
<1> QED
  BY <1>1, <1>2, Zenon DEF Ordered

(* The order of do_bzImage_load, with and without a ramdisk.               *)
LEMMA BzOrder ==
  ASSUME NEW p, NEW n \in {7, 8}, DOMAIN p = 1..n, NEW needs,
         needs \subseteq {"purgatory", "setup", "kernel"} \cup {x \in {"initrd"} : n = 8},
         \A i \in {1, 3} : p[i].op \notin {"symbols", "above", "segment", "buffer"},
         p[2].op = "buffer", p[2].part = "purgatory", p[4].op \in {"buffer", "segment"}, p[4].part = "setup",
         p[5].op = "above", p[6].op = "segment", p[6].part = "kernel",
         n = 8 => p[7].op = "buffer" /\ p[7].part = "initrd", p[n].op = "symbols"
  PROVE  Ordered(p, needs)
<1>1. \A i \in 1..n : i \in {1, 2, 3, 4, 5, 6, 7, 8} /\ (i = 8 => n = 8)
  OBVIOUS
<1>2. \A i \in 1..n : p[i].op = "symbols" => i = n
  BY <1>1
<1>3. \A i \in 1..n : p[i].op = "above" => i = 5
  BY <1>1
<1>4. \A i \in 1..n : Puts(p[i], "setup") => i = 4
  BY <1>1 DEF Puts, Placing
<1>5. \A i \in 1..n : Puts(p[i], "purgatory") => i = 2
  BY <1>1 DEF Puts, Placing
<1>6. Puts(p[2], "purgatory") /\ Puts(p[4], "setup") /\ Puts(p[6], "kernel")
      /\ (n = 8 => Puts(p[7], "initrd"))
  BY DEF Puts, Placing
<1>7. \A x \in needs : \E j \in 1..n - 1 : Puts(p[j], x)
  <2>1. 2 \in 1..n - 1 /\ 4 \in 1..n - 1 /\ 6 \in 1..n - 1 /\ (n = 8 => 7 \in 1..n - 1)
    OBVIOUS
  <2>2. \A x \in needs : x \in {"purgatory", "setup", "kernel"} \/ (x = "initrd" /\ n = 8)
    OBVIOUS
  <2> QED
    BY <1>6, <2>1, <2>2
<1>8. \A i \in 1..n : p[i].op = "symbols" =>
        /\ \A x \in needs : \E j \in 1..i - 1 : Puts(p[j], x)
        /\ \A j \in 1..n : j > i => ~Placing(p[j])
  <2>1. \A j \in 1..n : ~(j > n)
    OBVIOUS
  <2> QED
    BY <1>2, <1>7, <2>1, Zenon
<1>9. \A i \in 1..n : Puts(p[i], "setup") =>
        \E j \in 1..n : j > i /\ p[j].op = "above"
  <2>1. 5 \in 1..n /\ 5 > 4
    OBVIOUS
  <2> QED
    BY <1>4, <1>6, <2>1, Zenon
<1>10. \A i, j \in 1..n : p[i].op = "above" /\ i < j =>
         ~Puts(p[j], "setup") /\ ~Puts(p[j], "purgatory")
  <2>1. ~(5 < 4) /\ ~(5 < 2)
    OBVIOUS
  <2> QED
    BY <1>3, <1>4, <1>5, <2>1, Zenon
<1>11. \A i \in 1..n : p[i].op = "above" /\ "purgatory" \in needs =>
         \E j \in 1..i - 1 : Puts(p[j], "purgatory")
  <2>1. 2 \in 1..5 - 1
    OBVIOUS
  <2> QED
    BY <1>3, <1>6, <2>1, Zenon
<1> QED
  BY <1>8, <1>9, <1>10, <1>11, Zenon DEF Ordered

LEMMA BzShape ==
  ASSUME NEW t \in BzLoaders, NEW c, RamdiskOf(t, c) \in Int,
         KernelOf(t, c).len \in Int, Kern16Size(KernelOf(t, c)) \in Int,
         NEW P, P = BzSteps(c, KernelOf(t, c), KernelAt(t, c), LineOf(t, c), RamdiskOf(t, c),
                            RamdiskAt(t, c))
  PROVE  P \in Seq(Steps(t, c)) /\ Ordered(P, Needs(t, c))
<1> DEFINE k == KernelOf(t, c)
           S == Steps(t, c)
           initrd == RamdiskOf(t, c)
           b1 == CheckStep("purgatory info")
           b2 == PurgatoryBuffer(t, c)
           b3 == CheckStep("relocate")
           b4 == SetupStep(t, c)
           b5 == CheckStep("above")
           b6 == KernelSegment(t, c)
           b7 == InitrdBuffer(t, c)
           b8 == CheckStep("symbols")
<1>1. b1 \in S /\ b3 \in S /\ b5 \in S /\ b8 \in S
  BY CheckSteps
<1>2. CASE ~Whole(k)
  <2>1. P = Check("fail")
    <3>1. k.len < LinuxHeaderSize \/ k.len < Kern16Size(k)
      BY <1>2 DEF Whole, LinuxHeaderSize
    <3> HIDE DEF k
    <3> QED
      BY <3>1, Zenon DEF BzSteps, k
  <2>2. P = <<CheckStep("fail")>> /\ CheckStep("fail") \in S
    BY <2>1, CheckSteps
  <2>3. P \in Seq(S)
    <3> HIDE DEF S
    <3> QED
      BY <2>2
  <2>4. Ordered(P, Needs(t, c))
    BY <2>1, OneCheck
  <2> QED
    BY <2>3, <2>4
<1>3. CASE Whole(k)
  <2>1. b2 \in S /\ b4 \in S /\ b6 \in S
    <3>1. /\ b2.part = "purgatory" /\ b4.part = "setup" /\ b6.part = "kernel"
      BY SetupFacts DEF PurgatoryBuffer, KernelSegment, BufferOf, SegmentAt
    <3> QED
      BY <1>3, <3>1, Zenon DEF Steps, Asked
  <2>2. initrd >= 0 => b7 \in S
    BY <1>3, Zenon DEF Steps, Asked
  <2>3. /\ b2.op = "buffer" /\ b2.part = "purgatory" /\ b4.part = "setup"
        /\ b4.op \in {"buffer", "segment"}
        /\ b6.op = "segment" /\ b6.part = "kernel" /\ b7.op = "buffer" /\ b7.part = "initrd"
    BY SetupFacts DEF PurgatoryBuffer, KernelSegment, InitrdBuffer, BufferOf, SegmentAt
  <2>4. b1.op = "purgatory info" /\ b3.op = "relocate" /\ b5.op = "above" /\ b8.op = "symbols"
    BY CheckSteps
  <2>5. P = (<<b1>> \o <<b2>> \o <<b3>>) \o <<b4>> \o <<b5>> \o <<b6>>
              \o InitrdStep(k, initrd, RamdiskAt(t, c)) \o <<b8>>
    <3>1. PurgatoryStep(c, LowMin, LowMax, -1) = <<b1>> \o <<b2>> \o <<b3>>
      BY CheckSteps, Zenon DEF PurgatoryStep, PurgatoryBuffer, PurgatoryRequest
    <3>2. Check("above") = <<b5>> /\ Check("symbols") = <<b8>>
      BY CheckSteps
    <3>3. (IF k.protocol >= 512
           THEN BufferOf("setup", -1, Plain(Kern16Size(k) + LineOf(t, c), 16, LowMin, LowMax, -1))
           ELSE SegmentAt("setup", -1, [bufsz |-> Kern16Size(k) + LineOf(t, c),
                                        base |-> SetupBase,
                                        memsz |-> Kern16Size(k) + LineOf(t, c)])) = b4
      BY Zenon DEF SetupStep, SetupSize
    <3>4. ~(k.len < LinuxHeaderSize \/ k.len < Kern16Size(k))
      BY <1>3 DEF Whole, LinuxHeaderSize
    <3>5. SegmentAt("kernel", KernelAt(t, c) + Kern16Size(k),
            [bufsz |-> k.len - Kern16Size(k), base |-> Kern32Base,
             memsz |-> k.len - Kern16Size(k)]) = b6
      BY Zenon DEF KernelSegment, Kern32Size
    <3> HIDE DEF b1, b2, b3, b4, b5, b6, b8, k, initrd
    <3> QED
      BY <3>1, <3>2, <3>3, <3>4, <3>5, Zenon DEF BzSteps, k, initrd
  <2>6. Needs(t, c) \subseteq {"purgatory", "setup", "kernel"} \cup {x \in {"initrd"} : initrd >= 0}
    BY DEF Needs, BzLoaders
  <2>7. CASE initrd < 0
    <3>1. InitrdStep(k, initrd, RamdiskAt(t, c)) = <<>>
      BY <2>7 DEF InitrdStep, Unless
    <3>2. ~(initrd >= 0)
      BY <2>7
    <3> HIDE DEF b1, b2, b3, b4, b5, b6, b7, b8, S, initrd, k
    <3>3. P = (<<b1>> \o <<b2>> \o <<b3>>) \o <<b4>> \o <<b5>> \o <<b6>> \o <<>> \o <<b8>>
      BY <2>5, <3>1
    <3>4. /\ P \in Seq(S) /\ DOMAIN P = 1..7
          /\ P[1] = b1 /\ P[2] = b2 /\ P[3] = b3 /\ P[4] = b4 /\ P[5] = b5 /\ P[6] = b6
          /\ P[7] = b8
      <4>1. b1 \in S /\ b2 \in S /\ b3 \in S /\ b4 \in S /\ b5 \in S /\ b6 \in S /\ b8 \in S
        BY <1>1, <2>1, Zenon
      <4>2. LET p == (<<b1>> \o <<b2>> \o <<b3>>) \o <<b4>> \o <<b5>> \o <<b6>> \o <<>> \o <<b8>>
            IN /\ p \in Seq(S) /\ DOMAIN p = 1..7
               /\ p[1] = b1 /\ p[2] = b2 /\ p[3] = b3 /\ p[4] = b4 /\ p[5] = b5 /\ p[6] = b6
               /\ p[7] = b8
        BY <4>1
      <4> QED
        BY <3>3, <4>2, Zenon
    <3>5. Ordered(P, Needs(t, c))
      <4>1. Needs(t, c) \subseteq {"purgatory", "setup", "kernel"} \cup {x \in {"initrd"} : 7 = 8}
        BY <2>6, <3>2
      <4>2. \A i \in {1, 3} : P[i].op \notin {"symbols", "above", "segment", "buffer"}
        BY <2>4, <3>4
      <4>3. 7 \in {7, 8} /\ 7 # 8
        OBVIOUS
      <4> QED
        BY <2>3, <2>4, <3>4, <4>1, <4>2, <4>3, BzOrder, Zenon
    <3> QED
      BY <3>4, <3>5 DEF S
  <2>8. CASE initrd >= 0
    <3>1. InitrdStep(k, initrd, RamdiskAt(t, c)) = <<b7>>
      BY <2>8 DEF InitrdStep, Unless, InitrdBuffer
    <3> HIDE DEF b1, b2, b3, b4, b5, b6, b7, b8, S, initrd, k
    <3>3. P = (<<b1>> \o <<b2>> \o <<b3>>) \o <<b4>> \o <<b5>> \o <<b6>> \o <<b7>> \o <<b8>>
      BY <2>5, <3>1
    <3>4. /\ P \in Seq(S) /\ DOMAIN P = 1..8
          /\ P[1] = b1 /\ P[2] = b2 /\ P[3] = b3 /\ P[4] = b4 /\ P[5] = b5 /\ P[6] = b6
          /\ P[7] = b7 /\ P[8] = b8
      <4>1. /\ b1 \in S /\ b2 \in S /\ b3 \in S /\ b4 \in S /\ b5 \in S /\ b6 \in S
            /\ b7 \in S /\ b8 \in S
        BY <1>1, <2>1, <2>2, <2>8, Zenon
      <4>2. LET p == (<<b1>> \o <<b2>> \o <<b3>>) \o <<b4>> \o <<b5>> \o <<b6>> \o <<b7>> \o <<b8>>
            IN /\ p \in Seq(S) /\ DOMAIN p = 1..8
               /\ p[1] = b1 /\ p[2] = b2 /\ p[3] = b3 /\ p[4] = b4 /\ p[5] = b5 /\ p[6] = b6
               /\ p[7] = b7 /\ p[8] = b8
        BY <4>1
      <4> QED
        BY <3>3, <4>2, Zenon
    <3>5. Ordered(P, Needs(t, c))
      <4>1. Needs(t, c) \subseteq {"purgatory", "setup", "kernel"} \cup {x \in {"initrd"} : 8 = 8}
        BY <2>6
      <4>2. \A i \in {1, 3} : P[i].op \notin {"symbols", "above", "segment", "buffer"}
        BY <2>4, <3>4
      <4>3. 8 \in {7, 8}
        OBVIOUS
      <4> QED
        BY <2>3, <2>4, <3>4, <4>1, <4>2, <4>3, BzOrder, ZenonT(30)
    <3> QED
      BY <3>4, <3>5 DEF S
  <2> QED
    BY <2>7, <2>8
<1> QED
  BY <1>2, <1>3

(* The segments of an executable come first.                               *)
LEMMA ExecShape ==
  ASSUME NEW t \in {"elf-x86", "multiboot-x86"}, NEW c, Table(c.file.phdrs)
  PROVE  /\ ExecSteps(c.file) \in Seq(Steps(t, c))
         /\ \A i \in DOMAIN ExecSteps(c.file) : ExecSteps(c.file)[i].op \in {"hole", "load"}
<1> DEFINE f == c.file
           S == {s \in Steps(t, c) : s.op \in {"hole", "load"}}
           L == LoadSegments(f)
           H == Unless(~DynamicMoves(f), Check("hole"))
           F == [i \in DOMAIN L |-> [op |-> "load", part |-> "exec", from |-> L[i].offset,
                                     phdr |-> L[i]]]
<1>1. L \in Seq({f.phdrs[i] : i \in DOMAIN f.phdrs})
  BY LoadSegmentsFrom
<1>2. \A p \in {f.phdrs[i] : i \in DOMAIN f.phdrs} : ExecLoad(p) \in S
  <2>1. \A p \in {f.phdrs[i] : i \in DOMAIN f.phdrs} : ExecLoad(p) \in Steps(t, c)
    BY Zenon DEF Steps, ExecLoads
  <2>2. \A p : ExecLoad(p).op = "load"
    BY DEF ExecLoad
  <2> QED
    BY <2>1, <2>2
<1>3. F = [i \in DOMAIN L |-> ExecLoad(L[i])]
  BY Zenon DEF ExecLoad
<1>4. CheckStep("hole") \in S
  BY CheckSteps
<1>5. H \in Seq(S)
  <2>1. Check("hole") = <<CheckStep("hole")>>
    BY CheckSteps
  <2>2. H = <<>> \/ H = <<CheckStep("hole")>>
    BY <2>1, Zenon DEF Unless
  <2>3. PICK x \in S : x = CheckStep("hole")
    BY <1>4
  <2> HIDE DEF S, H
  <2>4. <<>> \in Seq(S) /\ <<x>> \in Seq(S)
    OBVIOUS
  <2> QED
    BY <2>2, <2>3, <2>4, Zenon
<1>6. ExecSteps(f) = H \o F
  BY Zenon DEF ExecSteps
<1> HIDE DEF S, L, H, F, f
<1>7. F \in Seq(S)
  <2>1. \A i \in DOMAIN L : ExecLoad(L[i]) \in S
    BY <1>1, <1>2
  <2>2. DOMAIN L = 1..Len(L) /\ Len(L) \in Nat
    BY <1>1
  <2> QED
    BY <1>3, <2>1, <2>2
<1>8. H \o F \in Seq(S)
  BY <1>5, <1>7
<1>9. ExecSteps(f) \in Seq(S)
  BY <1>6, <1>8
<1>10. \A x \in S : x \in Steps(t, c) /\ x.op \in {"hole", "load"}
  BY DEF S
<1> QED
  BY <1>9, <1>10 DEF f

(* The steps of a list before anything is compared or told.                *)
Early(t, c) ==
  {s \in Steps(t, c) : s.op \notin {"symbols", "above"} /\ ~Puts(s, "setup")}
PutsAmong(P, part) == \E i \in DOMAIN P : Puts(P[i], part)

LEMMA Joined ==
  ASSUME NEW S, NEW A \in Seq(S), NEW B \in Seq(S)
  PROVE  /\ A \o B \in Seq(S)
         /\ \A p : PutsAmong(A, p) \/ PutsAmong(B, p) => PutsAmong(A \o B, p)
<1> DEFINE P == A \o B
           m == Len(A)
           n == Len(B)
<1>1. P \in Seq(S)
  OBVIOUS
<1>2. m \in Nat /\ n \in Nat /\ DOMAIN A = 1..m /\ DOMAIN B = 1..n /\ DOMAIN P = 1..(m + n)
  OBVIOUS
<1>3. \A i \in 1..m : P[i] = A[i]
  OBVIOUS
<1>4. \A i \in 1..n : P[m + i] = B[i]
  OBVIOUS
<1> HIDE DEF P, m, n
<1>5. \A i \in 1..m : i \in DOMAIN P
  BY <1>2
<1>6. \A i \in 1..n : m + i \in DOMAIN P
  BY <1>2
<1>7. \A p : PutsAmong(A, p) \/ PutsAmong(B, p) => PutsAmong(P, p)
  BY <1>2, <1>3, <1>4, <1>5, <1>6, Zenon DEF PutsAmong
<1> QED
  BY <1>1, <1>7, Zenon DEF P

LEMMA OneStep ==
  ASSUME NEW S, NEW x \in S
  PROVE  <<x>> \in Seq(S) /\ \A p : Puts(x, p) => PutsAmong(<<x>>, p)
<1>1. <<x>> \in Seq(S) /\ 1 \in DOMAIN <<x>> /\ <<x>>[1] = x
  OBVIOUS
<1> QED
  BY <1>1, Zenon DEF PutsAmong

(* The symbols are set last.                                               *)
LEMMA SymbolsLast ==
  ASSUME NEW t, NEW c, NEW A \in Seq(Early(t, c)), NEW needs, \A p \in needs : PutsAmong(A, p)
  PROVE  A \o Check("symbols") \in Seq(Steps(t, c)) /\ Ordered(A \o Check("symbols"), needs)
<1> DEFINE S == Steps(t, c)
           B == Check("symbols")
<1>1. A \in Seq(S) /\ \A i \in DOMAIN A : A[i] \in Early(t, c)
  <2>1. Early(t, c) \subseteq S
    BY Zenon DEF Early
  <2> HIDE DEF S
  <2> QED
    BY <2>1
<1>2. \A i \in DOMAIN A : A[i].op \notin {"symbols", "above"} /\ ~Puts(A[i], "setup")
  BY <1>1, Zenon DEF Early
<1>3. PICK x \in S : x = CheckStep("symbols")
  BY CheckSteps
<1>4. B = <<x>> /\ x.op = "symbols" /\ \A p : ~Puts(x, p) /\ ~Placing(x)
  BY <1>3, CheckSteps
<1> HIDE DEF S, B
<1>5. B \in Seq(S) /\ DOMAIN B = {1} /\ B[1] = x
  BY <1>4
<1>6. Ordered(B, {})
  <2>1. ~(1 > 1)
    OBVIOUS
  <2> QED
    BY <1>4, <1>5, <2>1, Zenon DEF Ordered
<1>7. \A p \in needs : p \in {} \/ \E i \in DOMAIN A : Puts(A[i], p)
  BY Zenon DEF PutsAmong
<1>8. Ordered(A \o B, needs)
  BY <1>1, <1>2, <1>5, <1>6, <1>7, OrderedAfter, Zenon
<1>9. A \o B \in Seq(S)
  BY <1>1, <1>5
<1> QED
  BY <1>8, <1>9 DEF S, B

LEMMA ExecEarly ==
  ASSUME NEW t \in {"elf-x86", "multiboot-x86"}, NEW c, Table(c.file.phdrs)
  PROVE  ExecSteps(c.file) \in Seq(Early(t, c))
<1>1. /\ ExecSteps(c.file) \in Seq(Steps(t, c))
      /\ \A i \in DOMAIN ExecSteps(c.file) : ExecSteps(c.file)[i].op \in {"hole", "load"}
  BY ExecShape
<1>2. \A s \in Steps(t, c) : s.op \in {"hole", "load"} => s \in Early(t, c)
  BY DEF Early, Puts, Placing
<1> DEFINE E == ExecSteps(c.file)
           S == Steps(t, c)
           T == Early(t, c)
<1> HIDE DEF E, S, T
<1>3. \A i \in DOMAIN E : E[i] \in T
  <2>1. \A i \in DOMAIN E : E[i] \in S
    BY <1>1 DEF E, S
  <2> QED
    BY <1>1, <1>2, <2>1, Zenon DEF E, S, T
<1>4. E \in Seq(S)
  BY <1>1, Zenon DEF E, S
<1>5. E \in Seq(T)
  BY <1>3, <1>4
<1> QED
  BY <1>5 DEF E, T

LEMMA PurgatoryEarly ==
  ASSUME NEW t \in {"elf-x86", "multiboot-x86"}, NEW c
  PROVE  /\ PurgatoryStep(c, 0, UlongMax, 1) \in Seq(Early(t, c))
         /\ PutsAmong(PurgatoryStep(c, 0, UlongMax, 1), "purgatory")
<1> DEFINE T == Early(t, c)
           P == PurgatoryStep(c, 0, UlongMax, 1)
           b1 == CheckStep("purgatory info")
           b2 == PurgatoryBuffer(t, c)
           b3 == CheckStep("relocate")
<1>1. P = <<b1>> \o <<b2>> \o <<b3>>
  <2>1. t \notin BzLoaders
    BY DEF BzLoaders
  <2> QED
    BY <2>1, CheckSteps, Zenon DEF PurgatoryStep, PurgatoryBuffer, PurgatoryRequest
<1>2. b1 \in T /\ b3 \in T
  BY CheckSteps DEF Early
<1>3. b2 \in T /\ Puts(b2, "purgatory")
  <2>1. b2.op = "buffer" /\ b2.part = "purgatory"
    BY DEF PurgatoryBuffer, BufferOf
  <2>2. b2 \in Steps(t, c)
    BY Zenon DEF Steps, Asked
  <2> QED
    BY <2>1, <2>2 DEF Early, Puts, Placing
<1> HIDE DEF T, P, b1, b2, b3
<1>4. LET p == <<b1>> \o <<b2>> \o <<b3>> IN p \in Seq(T) /\ 2 \in DOMAIN p /\ p[2] = b2
  BY <1>2, <1>3
<1>5. P \in Seq(T) /\ 2 \in DOMAIN P /\ P[2] = b2
  BY <1>1, <1>4, Zenon
<1>6. PutsAmong(P, "purgatory")
  BY <1>3, <1>5, Zenon DEF PutsAmong
<1> QED
  BY <1>5, <1>6 DEF P, T

LEMMA ElfShape ==
  ASSUME NEW c, Table(c.file.phdrs)
  PROVE  ElfSteps(c) \in Seq(Steps("elf-x86", c)) /\ Ordered(ElfSteps(c), Needs("elf-x86", c))
<1> DEFINE t == "elf-x86"
           S == Steps(t, c)
           T == Early(t, c)
           E == ExecSteps(c.file)
           P == PurgatoryStep(c, 0, UlongMax, 1)
           N == Needs(t, c)
<1>1. CASE c.style = "none"
  <2>1. ElfSteps(c) = Check("die")
    BY <1>1, Zenon DEF ElfSteps
  <2>2. PICK x \in S : x = CheckStep("die")
    BY CheckSteps
  <2>3. Check("die") = <<x>>
    BY <2>2, CheckSteps
  <2>4. <<x>> \in Seq(S)
    <3> HIDE DEF S
    <3> QED
      OBVIOUS
  <2>5. Ordered(Check("die"), N)
    BY OneCheck
  <2> QED
    BY <2>1, <2>3, <2>4, <2>5, Zenon
<1>2. CASE c.style # "none"
  <2>1. E \in Seq(T) /\ P \in Seq(T) /\ PutsAmong(P, "purgatory")
    BY ExecEarly, PurgatoryEarly, Zenon
  <2> DEFINE A == E \o P
  <2>2. A \in Seq(T) /\ PutsAmong(A, "purgatory")
    BY <2>1, Joined, Zenon
  <2>3. A \in Seq(S) /\ \A i \in DOMAIN A : A[i].op \notin {"symbols", "above"} /\ ~Puts(A[i], "setup")
    <3>1. T \subseteq S /\ \A x \in T : x.op \notin {"symbols", "above"} /\ ~Puts(x, "setup")
      BY Zenon DEF Early
    <3> HIDE DEF S, T, A
    <3>2. \A i \in DOMAIN A : A[i] \in T
      BY <2>2
    <3> QED
      BY <2>2, <3>1, <3>2
  <2>4. ASSUME NEW B \in Seq(S), NEW b \in S, Puts(b, "notes") \/ Puts(b, "params"),
               NEW n \in {2, 3}, DOMAIN B = 1..n, B[1] = b,
               B[2] = CheckStep("symbols"), n = 3 => B[3] = CheckStep("die"),
               ElfSteps(c) = A \o B, \A p \in N : p = "purgatory" \/ Puts(b, p)
        PROVE  ElfSteps(c) \in Seq(S) /\ Ordered(ElfSteps(c), N)
    <3>1. A \o B \in Seq(S)
      <4> HIDE DEF A, S
      <4> QED
        BY <2>3, <2>4
    <3> DEFINE rest == {p \in N : p # "purgatory"}
    <3>2. Ordered(B, rest)
      <4>1. /\ \A i \in DOMAIN B : B[i].op = "symbols" => i = 2
            /\ \A i \in DOMAIN B : B[i].op # "above" /\ ~Puts(B[i], "setup")
            /\ \A i \in DOMAIN B : i > 2 => ~Placing(B[i])
        <5>1. b.op \in {"segment", "buffer"} /\ b.part \in {"notes", "params"}
          BY <2>4 DEF Puts, Placing
        <5>2. /\ CheckStep("symbols").op = "symbols" /\ CheckStep("die").op = "die"
              /\ \A p : ~Puts(CheckStep("symbols"), p) /\ ~Puts(CheckStep("die"), p)
              /\ ~Placing(CheckStep("die"))
          BY CheckSteps
        <5>3. \A i \in DOMAIN B : i = 1 \/ i = 2 \/ (i = 3 /\ n = 3)
          BY <2>4
        <5>4. b.op # "symbols" /\ b.op # "above" /\ ~Puts(b, "setup")
          BY <5>1 DEF Puts
        <5>5. ~(1 > 2) /\ ~(2 > 2)
          OBVIOUS
        <5>6. "symbols" # "die" /\ "symbols" # "above" /\ "die" # "above"
          OBVIOUS
        <5> QED
          BY <2>4, <5>2, <5>3, <5>4, <5>5, <5>6, Zenon
      <4>2. 1 \in 1..2 - 1
        OBVIOUS
      <4>3. \A p \in rest : \E j \in 1..2 - 1 : Puts(B[j], p)
        BY <2>4, <4>2, Zenon
      <4> QED
        BY <4>1, <4>3, Zenon DEF Ordered
    <3>3. \A p \in N : p \in rest \/ \E i \in DOMAIN A : Puts(A[i], p)
      <4>1. \E i \in DOMAIN A : Puts(A[i], "purgatory")
        BY <2>2, Zenon DEF PutsAmong
      <4> QED
        BY <4>1, Zenon
    <3>4. Ordered(A \o B, N)
      <4> HIDE DEF A, S, rest, N
      <4> QED
        BY <2>3, <2>4, <3>2, <3>3, OrderedAfter, Zenon
    <3> QED
      BY <2>4, <3>1, <3>4, Zenon
  <2>5. PICK x2 \in S : x2 = CheckStep("symbols")
    BY CheckSteps
  <2>6. PICK x3 \in S : x3 = CheckStep("die")
    BY CheckSteps
  <2>7. CASE c.style = "elf"
    <3>1. PICK b \in S : b = NotesBuffer(c)
      BY Zenon DEF Steps, Asked
    <3>2. Puts(b, "notes")
      BY <3>1 DEF NotesBuffer, BufferOf, Puts, Placing
    <3>3. \A p \in N : p = "purgatory" \/ Puts(b, p)
      BY <2>7, <3>2 DEF Needs, BzLoaders
    <3> DEFINE D == Unless(c.ramdisk < 0, Check("die"))
    <3>4. ElfSteps(c) = A \o ((<<b>> \o <<x2>>) \o D)
      BY <1>2, <2>5, <2>7, <3>1, CheckSteps, Zenon DEF ElfSteps, NotesBuffer
    <3>5. CASE c.ramdisk < 0
      <4>1. D = <<>>
        BY <3>5, Zenon DEF Unless
      <4> HIDE DEF S, D
      <4>2. PICK B \in Seq(S) : B = (<<b>> \o <<x2>>) \o <<>> /\ DOMAIN B = 1..2 /\ B[1] = b /\ B[2] = x2
        <5>1. LET B == (<<b>> \o <<x2>>) \o <<>>
              IN B \in Seq(S) /\ DOMAIN B = 1..2 /\ B[1] = b /\ B[2] = x2
          OBVIOUS
        <5> QED
          BY <5>1, Zenon
      <4>3. 2 \in {2, 3} /\ 2 # 3
        OBVIOUS
      <4> QED
        BY <2>4, <2>5, <3>2, <3>3, <3>4, <4>1, <4>2, <4>3, Zenon DEF S
    <3>6. CASE ~(c.ramdisk < 0)
      <4>1. D = <<x3>>
        BY <2>6, <3>6, CheckSteps, Zenon DEF Unless
      <4> HIDE DEF S, D
      <4>2. PICK B \in Seq(S) : B = (<<b>> \o <<x2>>) \o <<x3>> /\ DOMAIN B = 1..3 /\ B[1] = b /\ B[2] = x2 /\ B[3] = x3
        <5>1. LET B == (<<b>> \o <<x2>>) \o <<x3>>
              IN B \in Seq(S) /\ DOMAIN B = 1..3 /\ B[1] = b /\ B[2] = x2 /\ B[3] = x3
          OBVIOUS
        <5> QED
          BY <5>1, Zenon
      <4>3. 3 \in {2, 3}
        OBVIOUS
      <4> QED
        BY <2>4, <2>5, <2>6, <3>2, <3>3, <3>4, <4>1, <4>2, <4>3, Zenon DEF S
    <3> QED
      BY <3>5, <3>6
  <2>8. CASE c.style # "elf"
    <3>1. PICK b \in S : b = ParamsBuffer
      BY Zenon DEF Steps, Asked
    <3>2. Puts(b, "params")
      BY <3>1 DEF ParamsBuffer, BufferOf, Puts, Placing
    <3>3. \A p \in N : p = "purgatory" \/ Puts(b, p)
      BY <2>8, <3>2 DEF Needs, BzLoaders
    <3>4. ElfSteps(c) = A \o (<<b>> \o <<x2>>)
      BY <1>2, <2>5, <2>8, <3>1, CheckSteps, Zenon DEF ElfSteps, ParamsBuffer
    <3> HIDE DEF S
    <3>5. PICK B \in Seq(S) : B = <<b>> \o <<x2>> /\ DOMAIN B = 1..2 /\ B[1] = b /\ B[2] = x2
      <4>1. LET B == <<b>> \o <<x2>>
            IN B \in Seq(S) /\ DOMAIN B = 1..2 /\ B[1] = b /\ B[2] = x2
        OBVIOUS
      <4> QED
        BY <4>1, Zenon
    <3>6. 2 \in {2, 3} /\ 2 # 3
      OBVIOUS
    <3> QED
      BY <2>4, <2>5, <3>2, <3>3, <3>4, <3>5, <3>6, Zenon DEF S
  <2> QED
    BY <2>7, <2>8
<1> QED
  BY <1>1, <1>2

LEMMA ModuleNames ==
  ASSUME NEW i \in 1..3
  PROVE  /\ ModulePart(i) \in {"module 1", "module 2", "module 3"}
         /\ \A a, b \in 1..3 : ModulePart(a) = ModulePart(b) => a = b
<1>1. i = 1 \/ i = 2 \/ i = 3
  OBVIOUS
<1>2. ModulePart(1) = "module 1" /\ ModulePart(2) = "module 2" /\ ModulePart(3) = "module 3"
  BY DEF ModulePart
<1>3. \A a, b \in 1..3 : ModulePart(a) = ModulePart(b) => a = b
  <2>1. \A a \in 1..3 : a = 1 \/ a = 2 \/ a = 3
    OBVIOUS
  <2>2. /\ "module 1" # "module 2" /\ "module 1" # "module 3" /\ "module 2" # "module 3"
    OBVIOUS
  <2> QED
    BY <1>2, <2>1, <2>2, Zenon
<1> QED
  BY <1>1, <1>2, <1>3, Zenon

(* A buffer or segment of a part other than the setup code.                *)
LEMMA EarlyPart ==
  ASSUME NEW t, NEW c, NEW s \in Asked(t, c), Placing(s), s.part # "setup"
  PROVE  s \in Early(t, c)
<1>1. s \in Steps(t, c)
  BY Zenon DEF Steps
<1>2. s.op \notin {"symbols", "above"} /\ ~Puts(s, "setup")
  BY DEF Placing, Puts
<1> QED
  BY <1>1, <1>2, Zenon DEF Early

LEMMA MultibootShape ==
  ASSUME NEW c, Table(c.file.phdrs), Table(c.modules), Len(c.modules) <= 3
  PROVE  /\ MultibootSteps(c) \in Seq(Steps("multiboot-x86", c))
         /\ Ordered(MultibootSteps(c), Needs("multiboot-x86", c))
<1> DEFINE t == "multiboot-x86"
           T == Early(t, c)
           E == ExecSteps(c.file)
           P == PurgatoryStep(c, 0, UlongMax, 1)
           U == Unless(c.file.multiboot # "memory", <<MmapBuffer>>)
           M == [i \in DOMAIN c.modules |-> ModuleBuffer(c, i)]
           X == Check("sort")
           I == <<MbiBuffer(c)>>
           N == Needs(t, c)
<1>1. E \in Seq(T) /\ P \in Seq(T) /\ PutsAmong(P, "purgatory")
  BY ExecEarly, PurgatoryEarly, Zenon
<1>2. U \in Seq(T) /\ (c.file.multiboot = "memory" => PutsAmong(U, "mmap"))
  <2>1. MmapBuffer \in T /\ Puts(MmapBuffer, "mmap")
    <3>1. MmapBuffer \in Asked(t, c)
      BY Zenon DEF Asked
    <3>2. MmapBuffer.op = "buffer" /\ MmapBuffer.part = "mmap"
      BY DEF MmapBuffer, BufferOf
    <3>3. Placing(MmapBuffer) /\ Puts(MmapBuffer, "mmap") /\ MmapBuffer.part # "setup"
      BY <3>2 DEF Placing, Puts
    <3> QED
      BY <3>1, <3>3, EarlyPart
  <2>2. <<MmapBuffer>> \in Seq(T) /\ PutsAmong(<<MmapBuffer>>, "mmap")
    BY <2>1, OneStep, Zenon
  <2>3. <<>> \in Seq(T)
    <3> HIDE DEF T
    <3> QED
      OBVIOUS
  <2> QED
    BY <2>2, <2>3, Zenon DEF Unless
<1>3. M \in Seq(T) /\ \A i \in DOMAIN c.modules : PutsAmong(M, ModulePart(i))
  <2>1. DOMAIN c.modules = 1..Len(c.modules) /\ Len(c.modules) \in Nat
    BY DEF Table
  <2>2. ASSUME NEW i \in DOMAIN c.modules
        PROVE  ModuleBuffer(c, i) \in T /\ Puts(ModuleBuffer(c, i), ModulePart(i))
    <3>1. ModuleBuffer(c, i) \in Asked(t, c)
      BY Zenon DEF Asked
    <3>2. ModuleBuffer(c, i).op = "buffer" /\ ModuleBuffer(c, i).part = ModulePart(i)
      BY DEF ModuleBuffer, BufferOf
    <3>3. i \in 1..3
      BY <2>1
    <3>4. ModulePart(i) # "setup"
      BY <3>3, ModuleNames
    <3>5. Placing(ModuleBuffer(c, i)) /\ Puts(ModuleBuffer(c, i), ModulePart(i))
      BY <3>2 DEF Placing, Puts
    <3> QED
      BY <3>1, <3>2, <3>4, <3>5, EarlyPart, Zenon
  <2>3. \A i \in DOMAIN c.modules : M[i] = ModuleBuffer(c, i) /\ i \in DOMAIN M
    BY Zenon
  <2>4. M \in Seq(T)
    <3>1. \A i \in DOMAIN c.modules : ModuleBuffer(c, i) \in T
      BY <2>2
    <3> HIDE DEF T
    <3> QED
      BY <2>1, <3>1
  <2> HIDE DEF M
  <2> QED
    BY <2>2, <2>3, <2>4, Zenon DEF PutsAmong
<1>4. X \in Seq(T)
  <2>1. PICK x \in T : x = CheckStep("sort")
    BY CheckSteps DEF Early
  <2>2. X = <<x>>
    BY <2>1, CheckSteps
  <2> HIDE DEF T, X
  <2> QED
    BY <2>2
<1>5. I \in Seq(T) /\ PutsAmong(I, "mbi")
  <2>1. MbiBuffer(c) \in T /\ Puts(MbiBuffer(c), "mbi")
    <3>1. MbiBuffer(c) \in Asked(t, c)
      BY Zenon DEF Asked
    <3>2. MbiBuffer(c).op = "buffer" /\ MbiBuffer(c).part = "mbi"
      BY DEF MbiBuffer, BufferOf
    <3>3. Placing(MbiBuffer(c)) /\ Puts(MbiBuffer(c), "mbi") /\ MbiBuffer(c).part # "setup"
      BY <3>2 DEF Placing, Puts
    <3> QED
      BY <3>1, <3>3, EarlyPart
  <2> QED
    BY <2>1, OneStep, Zenon
<1> DEFINE A2 == E \o P
           A3 == A2 \o U
           A4 == A3 \o M
           A5 == A4 \o X
           A6 == A5 \o I
<1>6. MultibootSteps(c) = A6 \o Check("symbols")
  BY Zenon DEF MultibootSteps, MmapBuffer, MbiBuffer, ModuleBuffer
<1> HIDE DEF E, P, U, M, X, I, T, t, N
<1>7. A2 \in Seq(T) /\ PutsAmong(A2, "purgatory")
  BY <1>1, Joined, Zenon
<1> HIDE DEF A2
<1>8. /\ A3 \in Seq(T) /\ PutsAmong(A3, "purgatory")
      /\ c.file.multiboot = "memory" => PutsAmong(A3, "mmap")
  BY <1>2, <1>7, Joined, Zenon
<1> HIDE DEF A3
<1>9. /\ A4 \in Seq(T) /\ PutsAmong(A4, "purgatory")
      /\ c.file.multiboot = "memory" => PutsAmong(A4, "mmap")
      /\ \A i \in DOMAIN c.modules : PutsAmong(A4, ModulePart(i))
  BY <1>3, <1>8, Joined, Zenon
<1> HIDE DEF A4
<1>10. /\ A5 \in Seq(T) /\ PutsAmong(A5, "purgatory")
       /\ c.file.multiboot = "memory" => PutsAmong(A5, "mmap")
       /\ \A i \in DOMAIN c.modules : PutsAmong(A5, ModulePart(i))
  BY <1>4, <1>9, Joined, Zenon
<1> HIDE DEF A5
<1>11. /\ A6 \in Seq(T) /\ PutsAmong(A6, "purgatory") /\ PutsAmong(A6, "mbi")
       /\ c.file.multiboot = "memory" => PutsAmong(A6, "mmap")
       /\ \A i \in DOMAIN c.modules : PutsAmong(A6, ModulePart(i))
  BY <1>5, <1>10, Joined, Zenon
<1> HIDE DEF A6
<1>12. \A p \in N : PutsAmong(A6, p)
  <2>1. \A p \in N : \/ p \in {"purgatory", "mbi"}
                     \/ p = "mmap" /\ c.file.multiboot = "memory"
                     \/ \E i \in DOMAIN c.modules : p = ModulePart(i)
    BY DEF N, t, Needs, BzLoaders
  <2> QED
    BY <1>11, <2>1, Zenon
<1>13. A6 \o Check("symbols") \in Seq(Steps(t, c)) /\ Ordered(A6 \o Check("symbols"), N)
  BY <1>11, <1>12, SymbolsLast, Zenon DEF T
<1> QED
  BY <1>6, <1>13, Zenon DEF N, t

LEMMA NbiShape ==
  ASSUME NEW c, Table(c.file.segs)
  PROVE  /\ NbiSteps(c.file) \in Seq(Steps("nbi-x86", c))
         /\ Ordered(NbiSteps(c.file), Needs("nbi-x86", c))
<1> DEFINE t == "nbi-x86"
           f == c.file
           T == Early(t, c)
           F == <<NbiFirst(f)>>
           M == [i \in DOMAIN f.segs |-> NbiSegment(f, i)]
           N == Needs(t, c)
           A == F \o M
<1>1. F \in Seq(T)
  <2>1. NbiFirst(f) \in Asked(t, c)
    BY Zenon DEF Asked
  <2>2. Placing(NbiFirst(f)) /\ NbiFirst(f).part # "setup"
    BY DEF NbiFirst, SegmentAt, Placing
  <2> QED
    BY <2>1, <2>2, EarlyPart, OneStep, Zenon
<1>2. M \in Seq(T)
  <2>1. DOMAIN f.segs = 1..Len(f.segs) /\ Len(f.segs) \in Nat
    BY DEF Table
  <2>2. ASSUME NEW i \in DOMAIN f.segs PROVE NbiSegment(f, i) \in T
    <3>1. NbiSegment(f, i) \in Asked(t, c)
      BY Zenon DEF Asked
    <3>2. Placing(NbiSegment(f, i)) /\ NbiSegment(f, i).part # "setup"
      BY DEF NbiSegment, SegmentAt, Placing
    <3> QED
      BY <3>1, <3>2, EarlyPart, Zenon
  <2> HIDE DEF T
  <2> QED
    BY <2>1, <2>2
<1>3. NbiSteps(f) = A \o Check("symbols")
  BY Zenon DEF NbiSteps, NbiFirst, NbiSegment
<1>4. \A p \in N : PutsAmong(A, p)
  BY DEF Needs, BzLoaders
<1>5. A \in Seq(T)
  <2> HIDE DEF F, M, T
  <2> QED
    BY <1>1, <1>2
<1>6. A \o Check("symbols") \in Seq(Steps(t, c)) /\ Ordered(A \o Check("symbols"), N)
  <2> HIDE DEF A, N
  <2> QED
    BY <1>4, <1>5, SymbolsLast, Zenon
<1> QED
  BY <1>3, <1>6, Zenon

(* The file type a probe accepts says of what kind the file is.            *)
Loaders == {"multiboot-x86", "elf-x86", "nbi-x86"} \cup BzLoaders

LEMMA Accepted ==
  ASSUME NEW c \in Cases, NEW t, Accepts(t, c.file)
  PROVE  /\ t \in Loaders /\ WellLinked(c.purgatory)
         /\ t \in {"elf-x86", "multiboot-x86"} => c.file.kind = "elf" /\ ExecInfo(c.file) = "ok"
         /\ t = "nbi-x86" => c.file.kind = "nbi" /\ NbiProbe(c.file)
         /\ t \in BzLoaders => KernelNumbers(KernelOf(t, c), LineOf(t, c), RamdiskOf(t, c))
         /\ FileNumbers(c)
<1>1. FileNumbers(c) /\ WellLinked(c.purgatory)
  BY CasesAssumption, Zenon
<1>2. t \in Loaders
  BY Zenon DEF Accepts, Loaders, BzLoaders
<1>3. t \in {"elf-x86", "multiboot-x86"} => c.file.kind = "elf" /\ ExecInfo(c.file) = "ok"
  BY DEF Accepts, ElfProbe, MultibootProbe
<1>4. t = "nbi-x86" => c.file.kind = "nbi" /\ NbiProbe(c.file)
  BY DEF Accepts, NbiProbe
<1>5. CASE t = "bzImage"
  <2>1. c.file.kind = "bzImage"
    BY <1>5 DEF Accepts, BzProbe
  <2>2. KernelNumbers(c.file, c.cmdline, c.ramdisk)
    BY <1>1, <2>1 DEF FileNumbers
  <2>3. KernelOf(t, c) = c.file /\ LineOf(t, c) = c.cmdline /\ RamdiskOf(t, c) = c.ramdisk
    BY <1>5 DEF KernelOf, LineOf, RamdiskOf
  <2> QED
    BY <1>1, <1>2, <1>3, <1>4, <2>2, <2>3, Zenon
<1>6. CASE t = "beoboot-x86"
  <2>1. c.file.kind = "beoboot"
    BY <1>6 DEF Accepts, BeobootProbe
  <2>2. KernelNumbers(c.file.kernel, c.file.cmdline, c.file.initrd)
    BY <1>1, <2>1 DEF FileNumbers
  <2>3. /\ KernelOf(t, c) = c.file.kernel /\ LineOf(t, c) = c.file.cmdline
        /\ RamdiskOf(t, c) = c.file.initrd
    BY <1>6 DEF KernelOf, LineOf, RamdiskOf
  <2> QED
    BY <1>1, <1>2, <1>3, <1>4, <2>2, <2>3, Zenon
<1>7. CASE t = "monoimage-x86"
  <2>1. c.file.kind = "monoimage"
    BY <1>7 DEF Accepts, MonoimageProbe
  <2>2. KernelNumbers(MonoKernel(c.file), c.cmdline, c.file.rootfs - c.file.ramdisk)
    BY <1>1, <2>1 DEF FileNumbers
  <2>3. /\ KernelOf(t, c) = MonoKernel(c.file) /\ LineOf(t, c) = c.cmdline
        /\ RamdiskOf(t, c) = c.file.rootfs - c.file.ramdisk
    BY <1>7 DEF KernelOf, LineOf, RamdiskOf
  <2> QED
    BY <1>1, <1>2, <1>3, <1>4, <2>2, <2>3, Zenon
<1>8. CASE t \notin BzLoaders
  BY <1>1, <1>2, <1>3, <1>4, <1>8
<1> QED
  BY <1>5, <1>6, <1>7, <1>8 DEF BzLoaders

LEMMA ProgramShape ==
  ASSUME NEW c \in Cases, NEW t, Accepts(t, c.file)
  PROVE  Program(t, c) \in Seq(Steps(t, c)) /\ Ordered(Program(t, c), Needs(t, c))
<1>1. CASE t \in BzLoaders
  <2>1. KernelNumbers(KernelOf(t, c), LineOf(t, c), RamdiskOf(t, c))
    BY <1>1, Accepted
  <2>2. /\ KernelOf(t, c).len \in Int /\ RamdiskOf(t, c) \in Int
        /\ Kern16Size(KernelOf(t, c)) \in Int
    <3>1. KernelOf(t, c).len \in Int /\ RamdiskOf(t, c) \in Int /\ KernelOf(t, c).sects \in Int
      BY <2>1, PageAssumption DEF KernelNumbers, ULong
    <3> QED
      BY <3>1 DEF Kern16Size
  <2>3. Program(t, c) = BzSteps(c, KernelOf(t, c), KernelAt(t, c), LineOf(t, c),
                                RamdiskOf(t, c), RamdiskAt(t, c))
    BY <1>1 DEF Program, BzLoaders
  <2> QED
    BY <1>1, <2>1, <2>2, <2>3, BzShape, Zenon
<1>2. CASE t = "elf-x86"
  <2>1. c.file.kind = "elf" /\ FileNumbers(c)
    BY <1>2, Accepted
  <2>2. Table(c.file.phdrs)
    BY <2>1 DEF FileNumbers
  <2>3. Program(t, c) = ElfSteps(c)
    BY <1>2 DEF Program, BzLoaders
  <2> QED
    BY <1>2, <2>2, <2>3, ElfShape, Zenon
<1>3. CASE t = "multiboot-x86"
  <2>1. c.file.kind = "elf" /\ FileNumbers(c)
    BY <1>3, Accepted
  <2>2. Table(c.file.phdrs) /\ Table(c.modules) /\ Len(c.modules) <= 3
    BY <2>1 DEF FileNumbers, MaxModules
  <2>3. Program(t, c) = MultibootSteps(c)
    BY <1>3 DEF Program, BzLoaders
  <2> QED
    BY <1>3, <2>2, <2>3, MultibootShape, Zenon
<1>4. CASE t = "nbi-x86"
  <2>1. c.file.kind = "nbi" /\ FileNumbers(c)
    BY <1>4, Accepted
  <2>2. Table(c.file.segs)
    BY <2>1 DEF FileNumbers
  <2>3. Program(t, c) = NbiSteps(c.file)
    BY <1>4 DEF Program, BzLoaders
  <2> QED
    BY <1>4, <2>2, <2>3, NbiShape, Zenon
<1> QED
  BY <1>1, <1>2, <1>3, <1>4, Accepted DEF Loaders, BzLoaders

-----------------------------------------------------------------------------
(* What the steps ask for is in range *)

(* The addresses of a net boot image are numbers.                          *)
LEMMA NbiAddrType ==
  ASSUME NEW f, Table(f.segs), f.base \in Int,
         \A i \in DOMAIN f.segs : /\ f.segs[i].mode \in {"absolute", "append", "prepend"}
                                  /\ f.segs[i].addr \in Int /\ f.segs[i].memlen \in Int
  PROVE  \A i \in DOMAIN f.segs : NbiAddr(f)[i] \in Int
<1> DEFINE n == Len(f.segs)
           Size(i) == IF i = 1 THEN NbiHeader ELSE f.segs[i - 1].memlen
           Next_(i, y) == NbiPlace(f, i, y)
           C(h) == [i \in 0..Len(f.segs) |-> IF i = 0 THEN f.base ELSE Next_(i, h[i - 1])]
           g == [i \in 1..n |-> [y \in Int |-> Next_(i, y)]]
<1>1. n \in Nat /\ DOMAIN f.segs = 1..n
  BY DEF Table
<1>2. ASSUME NEW i \in 1..n, NEW y \in Int PROVE Next_(i, y) \in Int
  <2>1. f.segs[i].addr \in Int /\ f.segs[i].mode \in {"absolute", "append", "prepend"}
    BY <1>1
  <2>2. Size(i) \in Int
    <3>1. CASE i = 1
      BY <3>1 DEF NbiHeader
    <3>2. CASE i # 1
      <4>1. i - 1 \in DOMAIN f.segs
        BY <1>1, <3>2
      <4>2. f.segs[i - 1].memlen \in Int
        BY <4>1
      <4> QED
        BY <3>2, <4>2
    <3> QED
      BY <3>1, <3>2
  <2>3. PICK z \in Int : z = Size(i)
    BY <2>2
  <2>4. PICK a \in Int : a = f.segs[i].addr
    BY <2>1
  <2> HIDE DEF Size
  <2>5. Cut(y + Size(i) + f.segs[i].addr) \in Int
    <3>1. y + z + a \in Int /\ Word \in Nat /\ Word > 0
      BY PageAssumption
    <3>2. (y + z + a) % Word \in Int
      BY <3>1
    <3> QED
      BY <2>3, <2>4, <3>2 DEF Cut
  <2>6. Wrap(y - f.segs[i].addr) \in Int
    BY <2>4, PageAssumption DEF Wrap
  <2>7. CASE f.segs[i].mode = "absolute"
    BY <2>1, <2>7 DEF NbiPlace
  <2>8. CASE f.segs[i].mode = "append"
    <3>1. Next_(i, y) = Cut(y + Size(i) + f.segs[i].addr)
      BY <2>8 DEF NbiPlace, Size
    <3> QED
      BY <2>5, <3>1
  <2>9. CASE f.segs[i].mode = "prepend"
    <3>1. Next_(i, y) = Wrap(y - f.segs[i].addr)
      BY <2>9 DEF NbiPlace
    <3> QED
      BY <2>6, <3>1
  <2> QED
    BY <2>1, <2>7, <2>8, <2>9
<1> HIDE DEF Next_
<1>3. \A i \in 1..n : \A y \in Int : g[i][y] = Next_(i, y) /\ g[i][y] \in Int
  BY <1>2
<1> HIDE DEF g, n
<1>4. PICK h \in [0..n -> Int] : Follows(h, g, f.base, n)
  BY <1>1, <1>3, RecursionExists, Zenon
<1>5. h[0] = f.base /\ \A i \in 1..n : h[i] = Next_(i, h[i - 1])
  <2>1. h[0] = f.base /\ \A i \in 1..n : h[i] = g[i][h[i - 1]]
    BY <1>4, Zenon DEF Follows
  <2>2. \A i \in 1..n : h[i - 1] \in Int
    BY <1>1
  <2> QED
    BY <1>3, <2>1, <2>2, Zenon
<1>6. h = C(h)
  <2>1. \A i \in 0..n : h[i] = IF i = 0 THEN f.base ELSE Next_(i, h[i - 1])
    <3>1. \A i \in 0..n : i # 0 => i \in 1..n
      BY <1>1
    <3> QED
      BY <1>5, <3>1, Zenon
  <2> QED
    BY <2>1, Zenon DEF n
<1>7. \E h_1 : h_1 = C(h_1)
  BY <1>6
<1>8. PICK k : k = C(k) /\ NbiAddr(f) = k
  BY <1>7, Zenon DEF NbiAddr, Next_
<1>9. \A i \in 0..n : k[i] = IF i = 0 THEN f.base ELSE Next_(i, k[i - 1])
  BY <1>8, Zenon DEF n
<1>10. k[0] \in Int
  <2>1. 0 \in 0..n
    BY <1>1
  <2> QED
    BY <1>9, <2>1, Zenon
<1>11. ASSUME NEW i \in 0..n - 1, k[i] \in Int PROVE k[i + 1] \in Int
  <2>1. i + 1 \in 0..n /\ i + 1 \in 1..n /\ i + 1 # 0 /\ (i + 1) - 1 = i
    BY <1>1
  <2>2. k[i + 1] = Next_(i + 1, k[i])
    BY <1>9, <2>1, Zenon
  <2> QED
    BY <1>2, <1>11, <2>1, <2>2, Zenon
<1>12. \A i \in 0..n : k[i] \in Int
  BY <1>1, <1>10, <1>11, AllStay, Zenon
<1>13. \A i \in 1..n : i \in 0..n
  BY <1>1
<1> QED
  BY <1>1, <1>8, <1>12, <1>13, Zenon

SegmentRequest(r) == r.bufsz \in ULong /\ r.memsz \in ULong /\ r.base \in Int

LEMMA PlainRequest ==
  ASSUME NEW size \in ULong, NEW align \in Nat, NEW min \in Nat, NEW max \in ULong, NEW dir,
         min = 0 \/ RoundsUp(min, align)
  PROVE  BufferRequest(Plain(size, align, min, max, dir))
BY DEF BufferRequest, Plain

(* No hole of a bzImage is sought where rounding its start up would wrap.  *)
LEMMA LowRounds == RoundsUp(LowMin, 16) /\ RoundsUp(InitrdBase, 4096)
<1>1. RoundsUp(InitrdBase, 4096)
  BY WordAssumption
<1>2. PICK a \in Nat : a = Greater(16, Page)
  BY PageAssumption DEF Greater
<1>3. PICK b \in Nat : b = Greater(4096, Page) /\ a <= b
  BY <1>2, PageAssumption DEF Greater
<1>4. \A n \in {MemMin, InitrdBase} \cup {MEnd(i) : i \in Ram} : n + b <= Word
  <2>1. \A n \in {MemMin, InitrdBase} \cup {MEnd(i) : i \in Ram} :
          n + Greater(4096, Page) <= Word
    BY <1>1, Zenon DEF RoundsUp
  <2> QED
    BY <1>3, <2>1
<1>5. Word \in Nat /\ MemMin \in Nat /\ \A i \in Ram : MEnd(i) \in Nat
  BY PageAssumption, LimitsAssumption, RamBounds
<1>6. LowMin + a <= Word
  <2>1. InitrdBase + b <= Word
    BY <1>4
  <2> QED
    BY <1>3, <1>5, <2>1 DEF LowMin, InitrdBase
<1>7. ASSUME NEW n \in {MemMin} \cup {MEnd(i) : i \in Ram} PROVE n + a <= Word
  <2>1. n \in Nat
    BY <1>5
  <2>2. n + b <= Word
    BY <1>4
  <2> QED
    BY <1>3, <1>5, <2>1, <2>2
<1>8. RoundsUp(LowMin, 16)
  <2>1. \A n \in {MemMin, LowMin} \cup {MEnd(i) : i \in Ram} : n + a <= Word
    BY <1>6, <1>7, Zenon
  <2> QED
    BY <1>2, <2>1 DEF RoundsUp
<1> QED
  BY <1>1, <1>8

LEMMA PurgatoryRequestType ==
  ASSUME NEW c, WellLinked(c.purgatory), NEW t
  PROVE  LET r == PurgatoryRequest(t, c)
             o == c.purgatory
         IN /\ BufferRequest(r) /\ r.align = Greater(Room(o).align, Room(o).bssAlign)
            /\ r.memsz = RelRequest(o, 0, 0, 1).memsz /\ r.bufsz = RelRequest(o, 0, 0, 1).bufsz
            /\ r.bufsz <= r.memsz
            /\ t \in BzLoaders => r.min = LowMin /\ r.max = LowMax
<1> DEFINE o == c.purgatory
           r == PurgatoryRequest(t, c)
           room == Room(o)
<1>1. Sections(o)
  BY LinkedSections, Zenon
<1>2. room \in Rooms /\ room.buf \in Nat /\ BssPad(room) \in Nat /\ room.bss \in Nat
  BY <1>1, RoomType, Zenon
<1>3. room.align \in Nat /\ room.bssAlign \in Nat
  BY <1>2 DEF Rooms
<1>4. RelRequest(o, 0, 0, 1).memsz < Word
  BY DEF WellLinked
<1>5. /\ RelRequest(o, 0, 0, 1).memsz = room.buf + BssPad(room) + room.bss
      /\ RelRequest(o, 0, 0, 1).bufsz = room.buf
  BY DEF RelRequest
<1>6. Word \in Nat /\ Word > InitrdAddrMax
  BY PageAssumption, WordAssumption
<1>7. /\ LowMax < Word - 1 /\ LowMax \in Nat /\ LowMin \in Nat
  BY <1>6 DEF LowMax, LowMin, InitrdAddrMax
<1>8. CASE t \in BzLoaders
  <2>1. r = RelRequest(o, LowMin, LowMax, -1)
    BY <1>8 DEF PurgatoryRequest
  <2>2. /\ r.bufsz = room.buf /\ r.memsz = room.buf + BssPad(room) + room.bss
        /\ r.align = Greater(room.align, room.bssAlign) /\ r.min = LowMin
        /\ r.max = Lesser(LowMax, UlongMax)
    BY <2>1 DEF RelRequest
  <2>3. Lesser(LowMax, UlongMax) = LowMax
    BY <1>6, <1>7 DEF Lesser, UlongMax
  <2> HIDE DEF room, r
  <2>4. Greater(room.align, room.bssAlign) \in Nat
    BY <1>3 DEF Greater
  <2>5. r.bufsz \in ULong /\ r.memsz \in ULong /\ r.bufsz <= r.memsz
    BY <1>2, <1>4, <1>5, <1>6, <2>2 DEF ULong
  <2>6. LowMax \in ULong
    BY <1>6, <1>7 DEF ULong
  <2>7. RoundsUp(r.min, r.align)
    <3>1. RoundsUp(LowMin, RelRequest(o, 0, 0, 1).align)
      BY DEF WellLinked
    <3>2. RelRequest(o, 0, 0, 1).align = Greater(room.align, room.bssAlign)
      BY DEF RelRequest, room
    <3> QED
      BY <2>2, <3>1, <3>2, Zenon
  <2> QED
    BY <1>5, <1>7, <2>2, <2>3, <2>4, <2>5, <2>6, <2>7 DEF BufferRequest, r, room
<1>9. CASE t \notin BzLoaders
  <2>1. r = RelRequest(o, 0, UlongMax, 1)
    BY <1>9 DEF PurgatoryRequest
  <2>2. /\ r.bufsz = room.buf /\ r.memsz = room.buf + BssPad(room) + room.bss
        /\ r.align = Greater(room.align, room.bssAlign) /\ r.min = 0
        /\ r.max = Lesser(UlongMax, UlongMax)
    BY <2>1 DEF RelRequest
  <2>3. Lesser(UlongMax, UlongMax) = UlongMax
    BY DEF Lesser
  <2> HIDE DEF room, r
  <2>4. Greater(room.align, room.bssAlign) \in Nat
    BY <1>3 DEF Greater
  <2>5. r.bufsz \in ULong /\ r.memsz \in ULong /\ r.bufsz <= r.memsz
    BY <1>2, <1>4, <1>5, <1>6, <2>2 DEF ULong
  <2>6. UlongMax \in ULong
    BY <1>6, PageAssumption DEF ULong, UlongMax
  <2> QED
    BY <1>5, <1>7, <1>9, <2>2, <2>3, <2>4, <2>5, <2>6 DEF BufferRequest, r, room
<1> QED
  BY <1>8, <1>9

(* What Asked holds, loader by loader.                                     *)
LEMMA AskedSplit ==
  ASSUME NEW t, NEW c, NEW s \in Asked(t, c)
  PROVE  \/ /\ t \in BzLoaders /\ Whole(KernelOf(t, c))
            /\ \/ s \in {PurgatoryBuffer(t, c), SetupStep(t, c), KernelSegment(t, c)}
               \/ s = InitrdBuffer(t, c) /\ RamdiskOf(t, c) >= 0
         \/ t = "elf-x86" /\ s \in {PurgatoryBuffer(t, c), NotesBuffer(c), ParamsBuffer}
         \/ t = "multiboot-x86" /\ \/ s \in {PurgatoryBuffer(t, c), MmapBuffer, MbiBuffer(c)}
                                   \/ \E i \in DOMAIN c.modules : s = ModuleBuffer(c, i)
         \/ t = "nbi-x86" /\ \/ s = NbiFirst(c.file)
                             \/ \E i \in DOMAIN c.file.segs : s = NbiSegment(c.file, i)
<1>1. InitrdBuffer(t, c).part = "initrd"
  BY DEF InitrdBuffer, BufferOf
<1>2. CASE s \in {x \in {PurgatoryBuffer(t, c), SetupStep(t, c), KernelSegment(t, c),
                         InitrdBuffer(t, c)} :
                    t \in BzLoaders /\ Whole(KernelOf(t, c)) /\ (x.part = "initrd" => RamdiskOf(t, c) >= 0)}
  BY <1>1, <1>2, Zenon
<1>3. CASE s \in {x \in {PurgatoryBuffer(t, c), NotesBuffer(c), ParamsBuffer} : t = "elf-x86"}
  BY <1>3, Zenon
<1>4. CASE s \in {x \in {PurgatoryBuffer(t, c), MmapBuffer, MbiBuffer(c)} : t = "multiboot-x86"}
  BY <1>4, Zenon
<1>5. CASE s \in {ModuleBuffer(c, i) : i \in {j \in DOMAIN c.modules : t = "multiboot-x86"}}
  BY <1>5, Zenon
<1>6. CASE s \in {x \in {NbiFirst(c.file)} : t = "nbi-x86"}
  BY <1>6, Zenon
<1>7. CASE s \in {NbiSegment(c.file, i) : i \in {j \in DOMAIN c.file.segs : t = "nbi-x86"}}
  BY <1>7, Zenon
<1> QED
  BY <1>2, <1>3, <1>4, <1>5, <1>6, <1>7, Zenon DEF Asked

Typed(s) ==
  \/ s.op = "segment" /\ SegmentRequest(s.request)
  \/ s.op = "buffer" /\ BufferRequest(s.request)

LEMMA BufferTyped ==
  ASSUME NEW p, NEW from, NEW r, BufferRequest(r)
  PROVE  Typed(BufferOf(p, from, r))
<1>1. BufferOf(p, from, r).op = "buffer" /\ BufferOf(p, from, r).request = r
  BY DEF BufferOf
<1> QED
  BY <1>1, Zenon DEF Typed

LEMMA SegmentTyped ==
  ASSUME NEW p, NEW from, NEW bufsz \in ULong, NEW at \in Int, NEW memsz \in ULong
  PROVE  Typed(SegmentAt(p, from, [bufsz |-> bufsz, base |-> at, memsz |-> memsz]))
<1>1. PICK r : r = [bufsz |-> bufsz, base |-> at, memsz |-> memsz]
  OBVIOUS
<1>2. SegmentRequest(r)
  BY <1>1 DEF SegmentRequest
<1>3. SegmentAt(p, from, r).op = "segment" /\ SegmentAt(p, from, r).request = r
  BY DEF SegmentAt
<1> QED
  BY <1>1, <1>2, <1>3, Zenon DEF Typed

LEMMA WordFacts ==
  /\ Word \in Nat /\ UlongMax \in ULong /\ LowMax \in ULong /\ LowMin \in ULong
  /\ InitrdAddrMax \in ULong /\ InitrdBase \in ULong /\ 4096 \in ULong /\ 16 \in ULong
  /\ NbiHeader \in ULong /\ FakedParamSize \in ULong /\ 4 \in ULong /\ 0 \in ULong
  /\ Kern32Base \in Nat /\ ULong \subseteq Nat /\ ULong \subseteq Int
<1>1. Word \in Nat /\ Word > InitrdAddrMax
  BY PageAssumption, WordAssumption
<1> QED
  BY <1>1 DEF ULong, UlongMax, LowMax, LowMin, InitrdAddrMax, InitrdBase, NbiHeader,
              FakedParamSize, Kern32Base

(* The numbers of a kernel, and of its two parts.                          *)
LEMMA KernelType ==
  ASSUME NEW c \in Cases, NEW t \in BzLoaders, Accepts(t, c.file)
  PROVE  LET k == KernelOf(t, c)
         IN /\ k.len \in ULong /\ LineOf(t, c) \in ULong /\ k.protocol \in Nat
            /\ Kern16Size(k) \in Nat /\ Kern16Size(k) > 0
            /\ Kern16Size(k) + LineOf(t, c) \in ULong /\ InitrdMax(k) \in ULong
            /\ RamdiskOf(t, c) \in Int /\ (RamdiskOf(t, c) >= 0 => RamdiskOf(t, c) \in ULong)
            /\ Whole(k) => Kern32Size(k) \in ULong
<1> DEFINE k == KernelOf(t, c)
<1>1. KernelNumbers(k, LineOf(t, c), RamdiskOf(t, c))
  BY Accepted
<1> HIDE DEF k
<1>2. /\ k.len \in ULong /\ k.sects \in ULong /\ k.protocol \in ULong /\ k.initrdMax \in ULong
      /\ LineOf(t, c) \in ULong /\ Kern16Size(k) + LineOf(t, c) \in ULong
      /\ RamdiskOf(t, c) \in ULong \/ RamdiskOf(t, c) = -1
  BY <1>1 DEF KernelNumbers
<1>n. \A x \in ULong : x \in Nat /\ x \in Int
  BY PageAssumption DEF ULong
<1>3. Kern16Size(k) \in Nat /\ Kern16Size(k) > 0
  <2>1. k.sects \in Nat
    BY <1>2, <1>n
  <2> QED
    BY <2>1 DEF Kern16Size
<1>4. InitrdMax(k) \in ULong
  BY <1>2, WordFacts DEF InitrdMax
<1>5. RamdiskOf(t, c) \in Int /\ (RamdiskOf(t, c) >= 0 => RamdiskOf(t, c) \in ULong)
  <2>1. ~(-1 >= 0) /\ -1 \in Int
    OBVIOUS
  <2> QED
    BY <1>2, <1>n, <2>1, Zenon
<1>6. Whole(k) => Kern32Size(k) \in ULong
  BY <1>2, <1>3, WordFacts DEF Whole, Kern32Size, ULong
<1> QED
  BY <1>2, <1>3, <1>4, <1>5, <1>6, <1>n, Zenon DEF k

LEMMA AskedTyped ==
  ASSUME NEW c \in Cases, NEW t, Accepts(t, c.file), NEW s \in Asked(t, c)
  PROVE  Typed(s)
<1>1. WellLinked(c.purgatory) /\ FileNumbers(c)
  BY Accepted, Zenon
<1>2. Typed(PurgatoryBuffer(t, c))
  <2>1. BufferRequest(PurgatoryRequest(t, c))
    BY <1>1, PurgatoryRequestType, Zenon
  <2> QED
    BY <2>1, BufferTyped, Zenon DEF PurgatoryBuffer
<1>3. CASE t \in BzLoaders /\ Whole(KernelOf(t, c))
  <2> DEFINE k == KernelOf(t, c)
  <2>1. /\ Kern16Size(k) + LineOf(t, c) \in ULong /\ InitrdMax(k) \in ULong
        /\ RamdiskOf(t, c) >= 0 => RamdiskOf(t, c) \in ULong
        /\ Kern32Size(k) \in ULong
    BY <1>3, KernelType, Zenon
  <2>2. Typed(SetupStep(t, c))
    <3>1. 16 \in Nat /\ LowMin \in Nat /\ LowMax \in ULong /\ SetupBase \in Int
      BY WordFacts DEF SetupBase
    <3>2. SetupSize(t, c) \in ULong
      BY <2>1, Zenon DEF SetupSize
    <3>3. Typed(BufferOf("setup", -1, Plain(SetupSize(t, c), 16, LowMin, LowMax, -1)))
      <4>1. BufferRequest(Plain(SetupSize(t, c), 16, LowMin, LowMax, -1))
        BY <3>1, <3>2, LowRounds, PlainRequest
      <4> QED
        BY <4>1, BufferTyped, Zenon
    <3>4. Typed(SegmentAt("setup", -1,
            [bufsz |-> SetupSize(t, c), base |-> SetupBase, memsz |-> SetupSize(t, c)]))
      BY <3>1, <3>2, SegmentTyped, Zenon
    <3> QED
      BY <3>3, <3>4, Zenon DEF SetupStep
  <2>3. Typed(KernelSegment(t, c))
    <3>1. Kern32Base \in Int
      BY DEF Kern32Base
    <3> QED
      BY <2>1, <3>1, SegmentTyped, Zenon DEF KernelSegment
  <2>4. RamdiskOf(t, c) >= 0 => Typed(InitrdBuffer(t, c))
    <3>1. 4096 \in Nat /\ InitrdBase \in Nat
      BY WordFacts
    <3>2. SUFFICES ASSUME RamdiskOf(t, c) >= 0 PROVE Typed(InitrdBuffer(t, c))
      OBVIOUS
    <3> HIDE DEF k
    <3>3. RamdiskOf(t, c) \in ULong
      BY <2>1, <3>2
    <3>4. PICK r : r = Plain(RamdiskOf(t, c), 4096, InitrdBase, InitrdMax(k), -1)
      OBVIOUS
    <3>5. BufferRequest(r)
      BY <2>1, <3>1, <3>3, <3>4, LowRounds, PlainRequest
    <3>6. InitrdBuffer(t, c) = BufferOf("initrd", RamdiskAt(t, c), r)
      BY <3>4 DEF InitrdBuffer, k
    <3> QED
      BY <3>5, <3>6, BufferTyped, Zenon
  <2>5. t # "elf-x86" /\ t # "multiboot-x86" /\ t # "nbi-x86"
    BY <1>3 DEF BzLoaders
  <2> QED
    BY <1>2, <2>2, <2>3, <2>4, <2>5, AskedSplit, Zenon
<1>4. CASE t = "elf-x86"
  <2>1. BootNotesSize + AlignUp(c.cmdline, 4) \in ULong
    <3>1. c.file.kind = "elf"
      BY <1>4, Accepted, Zenon
    <3> QED
      BY <1>1, <3>1 DEF FileNumbers
  <2>2. 4 \in Nat /\ 16 \in Nat /\ 0 \in Nat /\ UlongMax \in ULong /\ FakedParamSize \in ULong
    BY WordFacts
  <2>3. Typed(NotesBuffer(c))
    BY <2>1, <2>2, PlainRequest, BufferTyped, Zenon DEF NotesBuffer
  <2>4. Typed(ParamsBuffer)
    BY <2>2, PlainRequest, BufferTyped, Zenon DEF ParamsBuffer
  <2>5. t \notin BzLoaders /\ t # "multiboot-x86" /\ t # "nbi-x86"
    BY <1>4 DEF BzLoaders
  <2> QED
    BY <1>2, <2>3, <2>4, <2>5, AskedSplit, Zenon
<1>5. CASE t = "multiboot-x86"
  <2>1. c.file.kind = "elf"
    BY <1>5, Accepted, Zenon
  <2>2. /\ MbiBytes(c) \in ULong
        /\ \A i \in DOMAIN c.modules : c.modules[i].size \in ULong
    BY <1>1, <2>1 DEF FileNumbers
  <2>3. 4 \in Nat /\ 0 \in Nat /\ UlongMax \in ULong /\ Page \in Nat
    BY WordFacts, PageAssumption
  <2>4. Len(Ranges) * MmapEntry \in ULong
    BY RangesAssumption, WordAssumption, PageAssumption DEF ULong, MmapEntry
  <2>5. Typed(MmapBuffer)
    BY <2>3, <2>4, PlainRequest, BufferTyped, Zenon DEF MmapBuffer
  <2>6. Typed(MbiBuffer(c))
    BY <2>2, <2>3, PlainRequest, BufferTyped, Zenon DEF MbiBuffer
  <2>7. \A i \in DOMAIN c.modules : Typed(ModuleBuffer(c, i))
    BY <2>2, <2>3, PlainRequest, BufferTyped, Zenon DEF ModuleBuffer
  <2>8. t \notin BzLoaders /\ t # "elf-x86" /\ t # "nbi-x86"
    BY <1>5 DEF BzLoaders
  <2> QED
    BY <1>2, <2>5, <2>6, <2>7, <2>8, AskedSplit, Zenon
<1>6. CASE t = "nbi-x86"
  <2> DEFINE f == c.file
  <2>1. f.kind = "nbi" /\ NbiProbe(f)
    BY <1>6, Accepted, Zenon
  <2>2. /\ Table(f.segs) /\ f.base \in ULong
        /\ \A i \in DOMAIN f.segs :
             /\ f.segs[i].mode \in {"absolute", "append", "prepend", "negative"}
             /\ f.segs[i].addr \in ULong /\ f.segs[i].imglen \in ULong
             /\ f.segs[i].memlen \in ULong
    BY <1>1, <2>1 DEF FileNumbers
  <2>3. \A i \in DOMAIN f.segs : f.segs[i].mode \in {"absolute", "append", "prepend"}
    BY <2>1, <2>2 DEF NbiProbe
  <2>4. f.base \in Int /\ \A i \in DOMAIN f.segs : f.segs[i].addr \in Int /\ f.segs[i].memlen \in Int
    <3>1. \A x \in ULong : x \in Int
      BY PageAssumption DEF ULong
    <3> QED
      BY <2>2, <3>1, Zenon
  <2> HIDE DEF f
  <2>5. \A i \in DOMAIN f.segs : NbiAddr(f)[i] \in Int
    BY <2>2, <2>3, <2>4, NbiAddrType, Zenon
  <2>6. \A i \in DOMAIN f.segs : Typed(NbiSegment(f, i))
    BY <2>2, <2>5, SegmentTyped, Zenon DEF NbiSegment
  <2>7. Typed(NbiFirst(f))
    <3>1. NbiHeader \in ULong
      BY WordFacts
    <3> QED
      BY <2>4, <3>1, SegmentTyped, Zenon DEF NbiFirst
  <2>8. t \notin BzLoaders /\ t # "elf-x86" /\ t # "multiboot-x86"
    BY <1>6 DEF BzLoaders
  <2>9. /\ Typed(NbiFirst(c.file))
        /\ \A i \in DOMAIN c.file.segs : Typed(NbiSegment(c.file, i))
    BY <2>6, <2>7, Zenon DEF f
  <2>10. s = NbiFirst(c.file) \/ \E i \in DOMAIN c.file.segs : s = NbiSegment(c.file, i)
    BY <2>8, AskedSplit
  <2> QED
    BY <2>9, <2>10, Zenon
<1> QED
  BY <1>3, <1>4, <1>5, <1>6, AskedSplit, Zenon

-----------------------------------------------------------------------------
(* An executable *)

(* The program headers of a file elf_x86_probe accepts.                    *)
LEMMA PhdrFacts ==
  ASSUME NEW c \in Cases, NEW t \in {"elf-x86", "multiboot-x86"}, Accepts(t, c.file)
  PROVE  /\ Table(c.file.phdrs) /\ c.file.len \in Nat
         /\ \A i \in DOMAIN c.file.phdrs :
              LET p == c.file.phdrs[i]
              IN /\ PhdrOk(c.file, p)
                 /\ p.offset \in ULong /\ p.filesz \in ULong /\ p.memsz \in ULong
                 /\ p.paddr \in ULong /\ p.align \in ULong
<1> DEFINE f == c.file
<1>1. f.kind = "elf" /\ ExecInfo(f) = "ok" /\ FileNumbers(c)
  BY Accepted
<1>2. /\ Table(f.phdrs) /\ f.len \in Nat
      /\ \A i \in DOMAIN f.phdrs :
           /\ f.phdrs[i].offset \in Nat /\ f.phdrs[i].filesz \in Nat /\ f.phdrs[i].memsz \in Nat
           /\ f.phdrs[i].paddr \in Nat /\ f.phdrs[i].align \in Nat
  BY <1>1 DEF FileNumbers
<1>3. HasPhdrs(f) /\ PhdrsOk(f)
  <2>1. ElfInfo(f) = "ok"
    BY <1>1 DEF ExecInfo
  <2>2. HasPhdrs(f)
    BY <1>1, <2>1 DEF ExecInfo
  <2>3. PhdrsOk(f)
    BY <2>1 DEF ElfInfo
  <2> QED
    BY <2>2, <2>3
<1> HIDE DEF f
<1>4. \A i \in DOMAIN f.phdrs : PhdrOk(f, f.phdrs[i])
  BY <1>3, Zenon DEF PhdrsOk
<1>5. ASSUME NEW i \in DOMAIN f.phdrs
      PROVE  LET p == f.phdrs[i]
             IN /\ PhdrOk(f, p)
                /\ p.offset \in ULong /\ p.filesz \in ULong /\ p.memsz \in ULong
                /\ p.paddr \in ULong /\ p.align \in ULong
  <2> DEFINE p == f.phdrs[i]
  <2>1. InWord({p.filesz, p.memsz, p.offset, p.paddr, p.vaddr, p.align})
    BY <1>4, Zenon DEF PhdrOk, PhdrRead, Elf32Phdr, Elf64Phdr
  <2>2. \A x : x \in Nat /\ x <= UlongMax => x \in ULong
    BY PageAssumption DEF UlongMax, ULong
  <2>3. /\ p.offset \in Nat /\ p.filesz \in Nat /\ p.memsz \in Nat /\ p.paddr \in Nat
        /\ p.align \in Nat /\ PhdrOk(f, p)
    BY <1>2, <1>4, Zenon
  <2> HIDE DEF p
  <2>4. /\ p.filesz <= UlongMax /\ p.memsz <= UlongMax /\ p.offset <= UlongMax
        /\ p.paddr <= UlongMax /\ p.align <= UlongMax
    BY <2>1, Zenon DEF InWord
  <2>5. /\ PhdrOk(f, p)
        /\ p.offset \in ULong /\ p.filesz \in ULong /\ p.memsz \in ULong
        /\ p.paddr \in ULong /\ p.align \in ULong
    BY <2>2, <2>3, <2>4, Zenon
  <2> QED
    BY <2>5, Zenon DEF p
<1> QED
  BY <1>2, <1>5, Zenon DEF f

LEMMA CutType ==
  ASSUME NEW n \in Nat
  PROVE  Cut(n) \in ULong
BY PageAssumption DEF Cut, ULong

(* The greatest of a set of unsigned longs.                                *)
LEMMA GreatestWord ==
  ASSUME NEW T, T \subseteq ULong, T # {}
  PROVE  \E m \in T : \A y \in T : y <= m
<1>1. T \subseteq Nat /\ Word \in Nat /\ \A y \in T : y <= Word
  BY PageAssumption DEF ULong
<1> QED
  BY <1>1, Greatest, Zenon

Used(f) == {i \in DOMAIN f.phdrs : f.phdrs[i].type = "LOAD" /\ f.phdrs[i].memsz > 0}

LEMMA DynamicType ==
  ASSUME NEW f,
         \A i \in DOMAIN f.phdrs :
           f.phdrs[i].paddr \in ULong /\ f.phdrs[i].memsz \in ULong /\ f.phdrs[i].align \in ULong
  PROVE  BufferRequest(DynamicRequest(f))
<1> DEFINE last(i) == Cut(f.phdrs[i].paddr + f.phdrs[i].memsz)
           align(i) == f.phdrs[i].align
<1>1. ASSUME NEW i \in Used(f) PROVE last(i) \in ULong /\ align(i) \in ULong
  <2>1. i \in DOMAIN f.phdrs
    BY DEF Used
  <2>2. f.phdrs[i].paddr + f.phdrs[i].memsz \in Nat
    BY <2>1, PageAssumption DEF ULong
  <2> QED
    BY <2>1, <2>2, CutType
<1> HIDE DEF last, align
<1>2. DynamicSpan(f).last =
        IF Used(f) = {} THEN 0
        ELSE CHOOSE m \in {last(i) : i \in Used(f)} : \A i \in Used(f) : last(i) <= m
  BY DEF DynamicSpan, Used, last
<1>3. DynamicSpan(f).align =
        IF Used(f) = {} THEN 0
        ELSE CHOOSE m \in {align(i) : i \in Used(f)} : \A i \in Used(f) : align(i) <= m
  BY DEF DynamicSpan, Used, align
<1>4. DynamicSpan(f).last \in ULong
  <2>1. CASE Used(f) = {}
    BY <1>2, <2>1, WordFacts
  <2>2. CASE Used(f) # {}
    <3> DEFINE T == {last(i) : i \in Used(f)}
    <3>1. T \subseteq ULong /\ T # {}
      BY <1>1, <2>2
    <3>2. \E m \in T : \A y \in T : y <= m
      <4> HIDE DEF T
      <4> QED
        BY <3>1, GreatestWord
    <3>3. \E m \in T : \A i \in Used(f) : last(i) <= m
      BY <3>2
    <3>4. DynamicSpan(f).last \in T
      BY <1>2, <2>2, <3>3, Zenon
    <3> QED
      BY <3>1, <3>4
  <2> QED
    BY <2>1, <2>2
<1>5. DynamicSpan(f).align \in ULong
  <2>1. CASE Used(f) = {}
    BY <1>3, <2>1, WordFacts
  <2>2. CASE Used(f) # {}
    <3> DEFINE T == {align(i) : i \in Used(f)}
    <3>1. T \subseteq ULong /\ T # {}
      BY <1>1, <2>2
    <3>2. \E m \in T : \A y \in T : y <= m
      <4> HIDE DEF T
      <4> QED
        BY <3>1, GreatestWord
    <3>3. \E m \in T : \A i \in Used(f) : align(i) <= m
      BY <3>2
    <3>4. DynamicSpan(f).align \in T
      BY <1>3, <2>2, <3>3, Zenon
    <3> QED
      BY <3>1, <3>4
  <2> QED
    BY <2>1, <2>2
<1>6. PICK r : r = DynamicRequest(f)
  OBVIOUS
<1>7. /\ r.bufsz = 0 /\ r.memsz = Wrap(DynamicSpan(f).last - UlongMax + 1)
      /\ r.align = DynamicSpan(f).align /\ r.min = 0 /\ r.max = UlongMax
  BY <1>6 DEF DynamicRequest, DynamicFirst
<1>8. PICK l \in ULong : l = DynamicSpan(f).last
  BY <1>4
<1>9. Wrap(l - UlongMax + 1) \in ULong
  BY <1>8, PageAssumption DEF Wrap, ULong, UlongMax
<1>10. BufferRequest(r)
  <2>1. 0 \in ULong /\ 0 \in Nat /\ UlongMax \in ULong
    BY WordFacts
  <2>2. DynamicSpan(f).align \in Nat
    BY <1>5, PageAssumption DEF ULong
  <2> QED
    BY <1>7, <1>8, <1>9, <2>1, <2>2, Zenon DEF BufferRequest
<1> QED
  BY <1>6, <1>10

LEMMA NewSegmentType ==
  ASSUME NEW bufsz \in ULong, NEW at \in Int, NEW memsz \in ULong,
         ValidMemorySegment(NewSegment(bufsz, at, memsz))
  PROVE  NewSegment(bufsz, at, memsz) \in Segment
<1>1. PICK size \in Nat : size = RoundedSize(memsz)
  BY RoundedSizeFacts
<1>2. PICK n : n = NewSegment(bufsz, at, memsz)
  OBVIOUS
<1>3. n.mem = at
  BY <1>2 DEF NewSegment
<1>4. ValidMemorySegment(n)
  BY <1>2
<1>5. at \in Nat
  BY <1>3, <1>4, LimitsAssumption DEF ValidMemoryRange, ValidMemorySegment
<1>6. Lesser(bufsz, memsz) \in Nat
  BY PageAssumption DEF Lesser, ULong
<1> QED
  BY <1>1, <1>2, <1>5, <1>6 DEF NewSegment, Segment

(* The tail of add_segment and add_buffer, when the process goes on.       *)
LEMMA PlaceType ==
  ASSUME NEW t \in Seq(Segment), NEW bufsz \in ULong, NEW at \in Int, NEW memsz \in ULong,
         NEW reason, Place(t, bufsz, at, memsz, reason)
  PROVE  /\ segment' \in Seq(Segment)
         /\ phase' # "ended" =>
              \/ memsz = 0 /\ segment' = t
              \/ /\ memsz > 0 /\ at % Page = 0
                 /\ ValidMemorySegment(NewSegment(bufsz, at, memsz))
                 /\ segment' = Append(t, NewSegment(bufsz, at, memsz))
<1>1. CASE memsz = 0 /\ segment' = t /\ UNCHANGED <<phase, died>>
  BY <1>1
<1>2. CASE segment' = t /\ phase' = "ended"
  BY <1>2
<1>3. CASE /\ memsz > 0 /\ at % Page = 0
           /\ ValidMemorySegment(NewSegment(bufsz, at, memsz))
           /\ segment' = Append(t, NewSegment(bufsz, at, memsz))
           /\ UNCHANGED <<phase, died>>
  <2>1. PICK n \in Segment : n = NewSegment(bufsz, at, memsz)
    BY <1>3, NewSegmentType
  <2>2. segment' = Append(t, n)
    BY <1>3, <2>1
  <2>3. segment' \in Seq(Segment)
    BY <2>2
  <2> QED
    BY <1>3, <2>3
<1> QED
  BY <1>1, <1>2, <1>3 DEF Place, Die

(* Sorting loses nothing: an injection of a finite set into itself is onto.*)
LEMMA SortedKeeps ==
  ASSUME NEW s \in Seq(Segment), NEW t \in SortedForms(s)
  PROVE  /\ t \in Seq(Segment) /\ Len(t) = Len(s)
         /\ \A i \in DOMAIN s : \E j \in DOMAIN t : t[j] = s[i]
         /\ \A j \in DOMAIN t : \E i \in DOMAIN s : t[j] = s[i]
<1>1. PICK p \in Arrangements(s) : t = [i \in DOMAIN s |-> s[p[i]]]
  BY DEF SortedForms
<1>2. p \in [DOMAIN s -> DOMAIN s] /\ \A i, j \in DOMAIN s : p[i] = p[j] => i = j
  BY DEF Arrangements
<1>3. /\ t \in Seq(Segment) /\ Len(t) = Len(s)
      /\ \A j \in DOMAIN t : \E i \in DOMAIN s : t[j] = s[i]
  BY SortedFormsFacts
<1>4. IsFiniteSet(DOMAIN s)
  <2>1. DOMAIN s = 1..Len(s) /\ Len(s) \in Nat
    OBVIOUS
  <2> QED
    BY <2>1, FS_Interval
<1> DEFINE D == DOMAIN s
<1>5. p \in Bijection(D, D)
  <2>1. p \in Injection(D, D)
    BY <1>2, Zenon DEF Injection, IsInjective
  <2>2. p \in Surjection(D, D)
    BY <1>4, <2>1, FS_Injection
  <2> QED
    BY <2>1, <2>2 DEF Bijection
<1>6. \A i \in D : \E j \in D : p[j] = i
  BY <1>5, Zenon DEF Bijection, Surjection
<1>7. \A j \in D : t[j] = s[p[j]] /\ j \in DOMAIN t
  BY <1>1, Zenon
<1>8. ASSUME NEW i \in D PROVE \E j \in DOMAIN t : t[j] = s[i]
  <2>1. PICK j \in D : p[j] = i
    BY <1>6, Zenon
  <2>2. j \in DOMAIN t /\ t[j] = s[p[j]]
    BY <1>7, Zenon
  <2>3. t[j] = s[i]
    BY <2>1, <2>2, Zenon
  <2> QED
    BY <2>2, <2>3, Zenon
<1> QED
  BY <1>3, <1>8, Zenon

-----------------------------------------------------------------------------
(* What holds while a loader runs *)

(* Where a step has put its part: where it asked to be, or in a hole that  *)
(* meets its limits.                                                       *)
HoleAt(r, at) == at \in Nat /\ at % HoleAlign(r) = 0 /\ r.min <= at /\ at + r.memsz <= r.max
Settled(s, at) ==
  /\ s.op = "segment" => at = s.request.base
  /\ s.op = "buffer" => HoleAt(s.request, at)

(* What the loaders have done so far, whatever became of it.               *)
FileBytes(x) == loader \in {"elf-x86", "multiboot-x86", "bzImage"} =>
                  ((case.file.kind = "elf" => Sums(case.file)) => x.from + x.size <= case.file.len)
LoadInv ==
  /\ case \in Cases /\ segment \in Seq(Segment) /\ base \in Int
  /\ IF loader = "" THEN todo = <<>> /\ DOMAIN where = {} /\ taken = {}
     ELSE Accepts(loader, case.file) /\ todo \in Seq(Steps(loader, case))
  /\ \A p \in DOMAIN where :
       \E s \in Asked(loader, case) : s.part = p /\ Settled(s, where[p])
  /\ \A x \in taken : FileBytes(x)

LEMMA HeadAndTail ==
  ASSUME NEW S, NEW q \in Seq(S), q # <<>>
  PROVE  /\ Head(q) \in S /\ Tail(q) \in Seq(S) /\ Head(q) = q[1]
         /\ Len(q) \in Nat \ {0} /\ DOMAIN q = 1..Len(q) /\ DOMAIN Tail(q) = 1..Len(q) - 1
         /\ \A i \in DOMAIN Tail(q) : Tail(q)[i] = q[i + 1] /\ i + 1 \in DOMAIN q
OBVIOUS

LEMMA StepOf ==
  ASSUME LoadInv, NEW op, Step(op)
  PROVE  /\ loader # "" /\ Accepts(loader, case.file) /\ case \in Cases
         /\ Head(todo) \in Steps(loader, case) /\ Head(todo).op = op
         /\ todo' \in Seq(Steps(loader, case)) /\ case' = case /\ loader' = loader
<1>1. loader # "" /\ todo # <<>> /\ Head(todo).op = op /\ todo' = Tail(todo)
      /\ case' = case /\ loader' = loader
  BY DEF Step
<1>2. Accepts(loader, case.file) /\ todo \in Seq(Steps(loader, case)) /\ case \in Cases
  BY <1>1 DEF LoadInv
<1> DEFINE S == Steps(loader, case)
<1> HIDE DEF S
<1>3. Head(todo) \in S /\ Tail(todo) \in Seq(S)
  <2>1. todo \in Seq(S)
    BY <1>2 DEF S
  <2> QED
    BY <1>1, <2>1, HeadAndTail, Zenon
<1> QED
  BY <1>1, <1>2, <1>3 DEF S

(* A step with one of these names is one of those asked for.               *)
LEMMA StepAsked ==
  ASSUME NEW t, NEW c, NEW s \in Steps(t, c)
  PROVE  /\ s.op \in {"segment", "buffer"} => s \in Asked(t, c)
         /\ s.op = "load" => s \in ExecLoads(t, c)
<1>1. ASSUME s \in Checks PROVE s.op \notin {"segment", "buffer", "load"}
  <2>1. PICK x \in {"fail", "die", "hole", "purgatory info", "relocate", "above", "sort",
                    "symbols"} : s = [op |-> x]
    BY <1>1 DEF Checks
  <2>2. s.op = x
    BY <2>1
  <2> QED
    BY <2>2
<1>2. s \in ExecLoads(t, c) => s.op = "load"
  BY DEF ExecLoads, ExecLoad
<1>3. s \in Asked(t, c) => s.op \in {"segment", "buffer"}
  BY AskedSplit DEF PurgatoryBuffer, SetupStep, KernelSegment, InitrdBuffer, NotesBuffer,
     ParamsBuffer, MmapBuffer, MbiBuffer, ModuleBuffer, NbiFirst, NbiSegment, BufferOf, SegmentAt
<1> QED
  BY <1>1, <1>2, <1>3 DEF Steps

(* Settling a part leaves the others where they are.                       *)
LEMMA SettlesKeeps ==
  ASSUME NEW s, NEW at, Settles(s.part, at), case' = case, loader' = loader,
         s \in Asked(loader, case), phase' # "ended" => Settled(s, at),
         \A p \in DOMAIN where :
           \E x \in Asked(loader, case) : x.part = p /\ Settled(x, where[p])
  PROVE  \A p \in DOMAIN where' :
           \E x \in Asked(loader', case') : x.part = p /\ Settled(x, where'[p])
<1>1. CASE phase' = "ended"
  <2>1. where' = where
    BY <1>1, Zenon DEF Settles
  <2> QED
    BY <2>1, Zenon
<1>2. CASE phase' # "ended"
  <2>1. where' = [p \in DOMAIN where \cup {s.part} |-> IF p = s.part THEN at ELSE where[p]]
    BY <1>2, Zenon DEF Settles
  <2>2. ASSUME NEW p \in DOMAIN where'
        PROVE  \E x \in Asked(loader, case) : x.part = p /\ Settled(x, where'[p])
    <3>1. p \in DOMAIN where \cup {s.part}
          /\ where'[p] = IF p = s.part THEN at ELSE where[p]
      BY <2>1, Zenon
    <3>2. CASE p = s.part
      BY <1>2, <3>1, <3>2, Zenon
    <3>3. CASE p # s.part
      BY <3>1, <3>3, Zenon
    <3> QED
      BY <3>2, <3>3, Zenon
  <2> QED
    BY <2>2, Zenon
<1> QED
  BY <1>1, <1>2

(* What add_buffer does to the list, and where the buffer is.              *)
BufferAt(r) ==
  IF Len(segment') > Len(segment) THEN segment'[Len(segment')].mem
  ELSE CHOOSE b \in LocateHole(segment', r) : TRUE
Appended(s, r, at) ==
  /\ at % Page = 0 /\ ValidMemorySegment(NewSegment(r.bufsz, at, r.memsz))
  /\ segment' = Append(s, NewSegment(r.bufsz, at, r.memsz))

LEMMA BufferEffect ==
  ASSUME segment \in Seq(Segment), NEW r, BufferRequest(r), AddBuffer(r)
  PROVE  /\ segment' \in Seq(Segment)
         /\ phase' # "ended" =>
              /\ HoleAt(r, BufferAt(r))
              /\ \E t \in SortedForms(segment) :
                   (r.memsz = 0 /\ segment' = t) \/ (r.memsz > 0 /\ Appended(t, r, BufferAt(r)))
<1>1. PICK t \in SortedForms(segment) :
        \/ segment' = t /\ phase' = "ended"
        \/ \E at \in LocateHole(t, r) : Place(t, r.bufsz, at, r.memsz, "bad hole")
  BY DEF AddBuffer, Die
<1>2. t \in Seq(Segment) /\ Len(t) = Len(segment)
  BY SortedFormsFacts
<1>3. r.bufsz \in ULong /\ r.memsz \in ULong
  BY DEF BufferRequest
<1>4. CASE segment' = t /\ phase' = "ended"
  BY <1>2, <1>4
<1>5. ASSUME NEW at \in LocateHole(t, r), Place(t, r.bufsz, at, r.memsz, "bad hole")
      PROVE  /\ segment' \in Seq(Segment)
             /\ phase' # "ended" =>
                  /\ HoleAt(r, BufferAt(r))
                  /\ \/ r.memsz = 0 /\ segment' = t
                     \/ r.memsz > 0 /\ Appended(t, r, BufferAt(r))
  <2>1. HoleAt(r, at)
    BY <1>2, HoleFacts, Zenon DEF HoleAt
  <2>2. at \in Int
    BY <2>1 DEF HoleAt
  <2>3. /\ segment' \in Seq(Segment)
        /\ phase' # "ended" =>
              \/ r.memsz = 0 /\ segment' = t
              \/ /\ r.memsz > 0 /\ at % Page = 0
                 /\ ValidMemorySegment(NewSegment(r.bufsz, at, r.memsz))
                 /\ segment' = Append(t, NewSegment(r.bufsz, at, r.memsz))
    BY <1>2, <1>3, <1>5, <2>2, PlaceType
  <2>4. CASE r.memsz = 0 /\ segment' = t
    <3>1. ~(Len(segment') > Len(segment))
      BY <1>2, <2>4
    <3>2. BufferAt(r) = CHOOSE b \in LocateHole(t, r) : TRUE
      BY <2>4, <3>1, Zenon DEF BufferAt
    <3>3. BufferAt(r) \in LocateHole(t, r)
      BY <3>2, Zenon
    <3>4. HoleAt(r, BufferAt(r))
      BY <1>2, <3>3, HoleFacts, Zenon DEF HoleAt
    <3> QED
      BY <2>3, <2>4, <3>4
  <2>5. CASE /\ r.memsz > 0 /\ at % Page = 0
             /\ ValidMemorySegment(NewSegment(r.bufsz, at, r.memsz))
             /\ segment' = Append(t, NewSegment(r.bufsz, at, r.memsz))
    <3>1. PICK n \in Segment : n = NewSegment(r.bufsz, at, r.memsz)
      BY <1>3, <2>2, <2>5, NewSegmentType
    <3>2. n.mem = at
      BY <3>1 DEF NewSegment
    <3>3. Len(segment') = Len(segment) + 1 /\ segment'[Len(segment) + 1] = n
      BY <1>2, <2>5, <3>1
    <3>4. Len(segment) \in Nat
      OBVIOUS
    <3>5. Len(segment') > Len(segment)
      BY <3>3, <3>4
    <3>6. BufferAt(r) = at
      BY <3>2, <3>3, <3>5, Zenon DEF BufferAt
    <3> QED
      BY <2>1, <2>3, <2>5, <3>6, Zenon DEF Appended
  <2> QED
    BY <2>3, <2>4, <2>5
<1> QED
  BY <1>1, <1>4, <1>5, Zenon

LEMMA HoleStep ==
  ASSUME NEW t, NEW c, NEW s \in Steps(t, c), s.op = "hole"
  PROVE  t \in {"elf-x86", "multiboot-x86"}
<1>1. s \notin Asked(t, c)
  BY AskedSplit DEF PurgatoryBuffer, SetupStep, KernelSegment, InitrdBuffer, NotesBuffer,
     ParamsBuffer, MmapBuffer, MbiBuffer, ModuleBuffer, NbiFirst, NbiSegment, BufferOf, SegmentAt
<1>2. s \notin ExecLoads(t, c)
  BY DEF ExecLoads, ExecLoad
<1> QED
  BY <1>1, <1>2, Zenon DEF Steps

(* What elf_exec_load asks for and takes from the file.                    *)
LEMMA ExecFacts ==
  ASSUME NEW c \in Cases, NEW t, Accepts(t, c.file), NEW s \in ExecLoads(t, c), NEW b \in Int
  PROVE  /\ SegmentRequest(ExecRequest(s.phdr, b))
         /\ Sums(c.file) => s.from + ExecRequest(s.phdr, b).bufsz <= c.file.len
         /\ t \in {"elf-x86", "multiboot-x86"} /\ s.part = "exec"
<1> DEFINE f == c.file
<1>1. PICK i \in DOMAIN f.phdrs : s = ExecLoad(f.phdrs[i]) /\ t \in {"elf-x86", "multiboot-x86"}
  BY Zenon DEF ExecLoads
<1> DEFINE p == f.phdrs[i]
<1>2. /\ PhdrOk(f, p) /\ f.len \in Nat
      /\ p.offset \in ULong /\ p.filesz \in ULong /\ p.memsz \in ULong
      /\ p.paddr \in ULong /\ p.align \in ULong
  BY <1>1, PhdrFacts, Zenon
<1>3. s.from = p.offset /\ s.phdr = p /\ s.part = "exec"
  BY <1>1 DEF ExecLoad
<1>4. Sums(f) => p.offset + p.filesz <= UlongMax
  BY Zenon DEF Sums
<1> HIDE DEF p, f
<1>5. PICK o \in Nat : o = p.offset
  BY <1>2, PageAssumption DEF ULong
<1>6. PICK z \in Nat : z = p.filesz
  BY <1>2, PageAssumption DEF ULong
<1>7. PICK m \in Nat : m = p.memsz
  BY <1>2, PageAssumption DEF ULong
<1>8. PICK a \in Nat : a = p.paddr
  BY <1>2, PageAssumption DEF ULong
<1>9. PICK r : r = ExecRequest(p, b)
  OBVIOUS
<1>10. r.bufsz = Lesser(z, m) /\ r.base = Wrap(a + b) /\ r.memsz = m
  BY <1>6, <1>7, <1>8, <1>9 DEF ExecRequest
<1>11. Lesser(z, m) \in {z, m} /\ Lesser(z, m) <= z
  BY DEF Lesser
<1>12. Wrap(a + b) \in Int
  BY PageAssumption DEF Wrap
<1>13. SegmentRequest(r)
  <2>1. Lesser(z, m) \in ULong
    BY <1>2, <1>6, <1>7, <1>11
  <2> QED
    BY <1>2, <1>7, <1>10, <1>12, <2>1, Zenon DEF SegmentRequest
<1>14. Sums(f) => o + Lesser(z, m) <= f.len
  <2>1. SUFFICES ASSUME Sums(f) PROVE o + Lesser(z, m) <= f.len
    OBVIOUS
  <2>2. o + z \in Nat /\ o + z < Word /\ Word \in Nat
    BY <1>4, <1>5, <1>6, <2>1, PageAssumption DEF UlongMax
  <2>3. Cut(o + z) = o + z
    BY <2>2, SmallMod DEF Cut
  <2>4. Cut(o + z) <= f.len
    BY <1>2, <1>5, <1>6 DEF PhdrOk
  <2>5. Lesser(z, m) \in Nat
    BY <1>11
  <2> QED
    BY <1>2, <1>11, <2>3, <2>4, <2>5
<1> QED
  BY <1>1, <1>3, <1>5, <1>9, <1>10, <1>13, <1>14, Zenon DEF f

(* What the other steps take from the file.                                *)
LEMMA AskedBytes ==
  ASSUME NEW c \in Cases, NEW t \in {"elf-x86", "multiboot-x86", "bzImage"},
         Accepts(t, c.file), NEW s \in Asked(t, c)
  PROVE  s.from < 0 \/ s.from + s.request.bufsz <= c.file.len
<1>1. -1 < 0
  OBVIOUS
<1>2. /\ PurgatoryBuffer(t, c).from = -1 /\ SetupStep(t, c).from = -1
      /\ NotesBuffer(c).from = -1 /\ ParamsBuffer.from = -1 /\ MmapBuffer.from = -1
      /\ MbiBuffer(c).from = -1 /\ InitrdBuffer(t, c).from = RamdiskAt(t, c)
      /\ \A i : ModuleBuffer(c, i).from = -1
  BY SetupFacts DEF PurgatoryBuffer, InitrdBuffer, NotesBuffer,
         ParamsBuffer, MmapBuffer, MbiBuffer, ModuleBuffer, BufferOf
<1>3. CASE t = "bzImage"
  <2> DEFINE k == c.file
  <2>1. KernelOf(t, c) = k /\ KernelAt(t, c) = 0 /\ RamdiskAt(t, c) = -1 /\ t \in BzLoaders
    BY <1>3 DEF KernelOf, KernelAt, RamdiskAt, BzLoaders
  <2>2. k.len \in Int /\ Kern16Size(k) \in Int
    <3>1. KernelOf(t, c).len \in ULong /\ Kern16Size(KernelOf(t, c)) \in Nat
      BY <2>1, KernelType, Zenon
    <3> QED
      BY <2>1, <3>1, PageAssumption DEF ULong
  <2>3. /\ KernelSegment(t, c).from = 0 + Kern16Size(k)
        /\ KernelSegment(t, c).request.bufsz = k.len - Kern16Size(k)
    <3> HIDE DEF k
    <3> QED
      BY <2>1 DEF KernelSegment, SegmentAt, Kern32Size
  <2>4. KernelSegment(t, c).from + KernelSegment(t, c).request.bufsz <= k.len
    <3> HIDE DEF k
    <3> QED
      BY <2>2, <2>3
  <2>5. \/ s \in {PurgatoryBuffer(t, c), SetupStep(t, c), KernelSegment(t, c)}
        \/ s = InitrdBuffer(t, c)
    BY <1>3, AskedSplit
  <2> QED
    BY <1>1, <1>2, <2>1, <2>4, <2>5, Zenon
<1>4. CASE t = "elf-x86"
  <2>1. s \in {PurgatoryBuffer(t, c), NotesBuffer(c), ParamsBuffer}
    BY <1>4, AskedSplit DEF BzLoaders
  <2> QED
    BY <1>1, <1>2, <2>1, Zenon
<1>5. CASE t = "multiboot-x86"
  <2>1. \/ s \in {PurgatoryBuffer(t, c), MmapBuffer, MbiBuffer(c)}
        \/ \E i \in DOMAIN c.modules : s = ModuleBuffer(c, i)
    BY <1>5, AskedSplit DEF BzLoaders
  <2> QED
    BY <1>1, <1>2, <2>1, Zenon
<1> QED
  BY <1>3, <1>4, <1>5

LEMMA TakesKeeps ==
  ASSUME NEW from, NEW size, Takes(from, size), case' = case, loader' = loader,
         \A x \in taken : FileBytes(x),
         from < 0 \/ FileBytes([from |-> from, size |-> size])
  PROVE  \A x \in taken' : FileBytes(x)'
<1>1. \A x : FileBytes(x)' <=> FileBytes(x)
  BY DEF FileBytes
<1>2. CASE taken' = taken
  BY <1>1, <1>2, Zenon
<1>3. CASE ~(from < 0) /\ taken' = taken \cup {[from |-> from, size |-> size]}
  <2>1. \A x \in taken' : x \in taken \/ x = [from |-> from, size |-> size]
    BY <1>3, Zenon
  <2> QED
    BY <1>1, <1>3, <2>1, Zenon
<1> QED
  BY <1>2, <1>3, Zenon DEF Takes

(* A part is asked for by one step, except of a net boot image.            *)
LEMMA AskedPart ==
  ASSUME NEW c \in Cases, NEW t, Accepts(t, c.file), NEW s \in Asked(t, c)
  PROVE  /\ s.part = "purgatory" => s = PurgatoryBuffer(t, c)
         /\ s.part = "setup" => s = SetupStep(t, c) /\ t \in BzLoaders
         /\ s.part = "kernel" => s = KernelSegment(t, c) /\ t \in BzLoaders
         /\ s.part = "initrd" => s = InitrdBuffer(t, c) /\ t \in BzLoaders /\ RamdiskOf(t, c) >= 0
         /\ s.part = "notes" => s = NotesBuffer(c)
         /\ s.part = "params" => s = ParamsBuffer
         /\ s.part = "mmap" => s = MmapBuffer
         /\ s.part = "mbi" => s = MbiBuffer(c)
         /\ \A i \in 1..3 : s.part = ModulePart(i) => s = ModuleBuffer(c, i)
<1>1. /\ PurgatoryBuffer(t, c).part = "purgatory" /\ SetupStep(t, c).part = "setup"
      /\ KernelSegment(t, c).part = "kernel" /\ InitrdBuffer(t, c).part = "initrd"
      /\ NotesBuffer(c).part = "notes" /\ ParamsBuffer.part = "params"
      /\ MmapBuffer.part = "mmap" /\ MbiBuffer(c).part = "mbi" /\ NbiFirst(c.file).part = "nbi"
      /\ \A i : NbiSegment(c.file, i).part = "nbi"
      /\ \A i : ModuleBuffer(c, i).part = ModulePart(i)
  BY SetupFacts DEF PurgatoryBuffer, KernelSegment, InitrdBuffer, NotesBuffer, ParamsBuffer,
     MmapBuffer, MbiBuffer, ModuleBuffer, NbiFirst, NbiSegment, BufferOf, SegmentAt
<1>2. ASSUME t = "multiboot-x86" PROVE DOMAIN c.modules \subseteq 1..3
  <2>1. c.file.kind = "elf" /\ FileNumbers(c)
    BY <1>2, Accepted
  <2>2. Table(c.modules) /\ Len(c.modules) <= 3
    BY <2>1 DEF FileNumbers, MaxModules
  <2> QED
    BY <2>2 DEF Table
<1>3. /\ \A i \in 1..3 : ModulePart(i) \in {"module 1", "module 2", "module 3"}
      /\ \A a, b \in 1..3 : ModulePart(a) = ModulePart(b) => a = b
  BY ModuleNames
<1>4. ASSUME NEW j \in DOMAIN c.modules, t = "multiboot-x86", s = ModuleBuffer(c, j)
      PROVE  /\ s.part \in {"module 1", "module 2", "module 3"}
             /\ \A i \in 1..3 : s.part = ModulePart(i) => s = ModuleBuffer(c, i)
  <2>1. s.part = ModulePart(j) /\ j \in 1..3
    BY <1>1, <1>2, <1>4, Zenon
  <2> QED
    BY <1>3, <1>4, <2>1, Zenon
<1>5. ASSUME s.part \notin {"module 1", "module 2", "module 3"}
      PROVE  \A i \in 1..3 : s.part = ModulePart(i) => s = ModuleBuffer(c, i)
  BY <1>3, <1>5, Zenon
<1>6. \/ /\ t \in BzLoaders
         /\ \/ s \in {PurgatoryBuffer(t, c), SetupStep(t, c), KernelSegment(t, c)}
            \/ s = InitrdBuffer(t, c) /\ RamdiskOf(t, c) >= 0
      \/ s \in {PurgatoryBuffer(t, c), NotesBuffer(c), ParamsBuffer, MmapBuffer, MbiBuffer(c)}
      \/ \E j \in DOMAIN c.modules : t = "multiboot-x86" /\ s = ModuleBuffer(c, j)
      \/ s = NbiFirst(c.file)
      \/ \E j \in DOMAIN c.file.segs : s = NbiSegment(c.file, j)
  BY AskedSplit
<1>7. CASE \E j \in DOMAIN c.modules : t = "multiboot-x86" /\ s = ModuleBuffer(c, j)
  <2>1. /\ s.part \in {"module 1", "module 2", "module 3"}
        /\ \A i \in 1..3 : s.part = ModulePart(i) => s = ModuleBuffer(c, i)
    BY <1>4, <1>7, Zenon
  <2> QED
    BY <2>1
<1>8. CASE s = NbiFirst(c.file) \/ \E j \in DOMAIN c.file.segs : s = NbiSegment(c.file, j)
  <2>1. s.part = "nbi"
    BY <1>1, <1>8, Zenon
  <2> QED
    BY <1>5, <2>1
<1>9. CASE /\ t \in BzLoaders
           /\ \/ s \in {PurgatoryBuffer(t, c), SetupStep(t, c), KernelSegment(t, c)}
              \/ s = InitrdBuffer(t, c) /\ RamdiskOf(t, c) >= 0
  BY <1>1, <1>5, <1>9
<1>10. CASE s \in {PurgatoryBuffer(t, c), NotesBuffer(c), ParamsBuffer, MmapBuffer, MbiBuffer(c)}
  BY <1>1, <1>5, <1>10
<1> QED
  BY <1>6, <1>7, <1>8, <1>9, <1>10, Zenon

LEMMA LoadInit == LInit => LoadInv
<1> SUFFICES ASSUME LInit PROVE LoadInv
  OBVIOUS
<1>1. /\ case \in Cases /\ segment = <<>> /\ base = 0 /\ loader = "" /\ todo = <<>>
      /\ where = << >> /\ taken = {}
  BY DEF LInit, Init
<1>2. <<>> \in Seq(Segment) /\ 0 \in Int /\ DOMAIN << >> = {}
  OBVIOUS
<1> QED
  BY <1>1, <1>2, Zenon DEF LoadInv

(* A step that leaves the parts and the file alone.                        *)
LEMMA LooksOnly ==
  ASSUME LoadInv, NEW op, Step(op), UNCHANGED <<where, taken>>, base' \in Int,
         segment' \in Seq(Segment)
  PROVE  LoadInv'
<1>1. /\ loader # "" /\ Accepts(loader, case.file) /\ case \in Cases
      /\ todo' \in Seq(Steps(loader, case)) /\ case' = case /\ loader' = loader
  BY StepOf
<1>2. where' = where /\ taken' = taken
  OBVIOUS
<1>3. \A p \in DOMAIN where' :
        \E s \in Asked(loader', case') : s.part = p /\ Settled(s, where'[p])
  BY <1>1, <1>2, Zenon DEF LoadInv
<1>4. \A x \in taken' : FileBytes(x)'
  <2>1. \A x : FileBytes(x)' <=> FileBytes(x)
    BY <1>1 DEF FileBytes
  <2> QED
    BY <1>2, <2>1, Zenon DEF LoadInv
<1>5. Accepts(loader', case'.file) /\ todo' \in Seq(Steps(loader', case')) /\ loader' # ""
      /\ case' \in Cases
  BY <1>1, Zenon
<1> QED
  BY <1>3, <1>4, <1>5, Zenon DEF LoadInv

(* A step after which only the list or the phase is different.             *)
LEMMA LoadSame ==
  ASSUME LoadInv, UNCHANGED <<case, loader, todo, where, base, taken>>, segment' \in Seq(Segment)
  PROVE  LoadInv'
<1>1. /\ case' = case /\ loader' = loader /\ todo' = todo /\ where' = where /\ base' = base
      /\ taken' = taken
  OBVIOUS
<1>2. \A x : FileBytes(x)' <=> FileBytes(x)
  BY <1>1 DEF FileBytes
<1> QED
  BY <1>1, <1>2, Zenon DEF LoadInv

LEMMA LoadNext == LoadInv /\ [LNext]_lvars => LoadInv'
<1> SUFFICES ASSUME LoadInv, [LNext]_lvars PROVE LoadInv'
  OBVIOUS
<1>0. case \in Cases /\ segment \in Seq(Segment) /\ base \in Int
  BY DEF LoadInv
<1>1. CASE Probe
  <2>1. /\ loader = "" /\ loader' \in Chosen(case) /\ todo' = Program(loader', case)
        /\ case' = case /\ where' = where /\ base' = base /\ taken' = taken /\ segment' = segment
    BY <1>1 DEF Probe, vars
  <2>2. Accepts(loader', case.file)
    BY <2>1, Zenon DEF Chosen
  <2>3. loader' # ""
    BY <2>2 DEF Accepts
  <2>4. todo' \in Seq(Steps(loader', case))
    BY <1>0, <2>1, <2>2, ProgramShape, Zenon
  <2>5. DOMAIN where' = {} /\ taken' = {}
    BY <2>1, Zenon DEF LoadInv
  <2> QED
    BY <1>0, <2>1, <2>2, <2>3, <2>4, <2>5, Zenon DEF LoadInv
<1>2. CASE LoadSegment
  <2> DEFINE s == Head(todo)
             r == s.request
  <2>1. Step("segment") /\ AddSegment(r) /\ Settles(s.part, r.base) /\ Takes(s.from, r.bufsz)
        /\ base' = base
    BY <1>2 DEF LoadSegment
  <2>2. /\ loader # "" /\ Accepts(loader, case.file) /\ s \in Steps(loader, case)
        /\ s.op = "segment" /\ todo' \in Seq(Steps(loader, case)) /\ case' = case
        /\ loader' = loader
    BY <2>1, StepOf, Zenon
  <2> HIDE DEF s
  <2>3. s \in Asked(loader, case)
    BY <2>2, StepAsked
  <2>4. SegmentRequest(r)
    <3>1. Typed(s)
      BY <1>0, <2>2, <2>3, AskedTyped, Zenon
    <3>2. "segment" # "buffer"
      OBVIOUS
    <3> QED
      BY <2>2, <3>1, <3>2, Zenon DEF Typed
  <2> HIDE DEF r
  <2>5. segment' \in Seq(Segment)
    <3>1. r.bufsz \in ULong /\ r.memsz \in ULong /\ r.base \in Int
      BY <2>4 DEF SegmentRequest
    <3>2. Place(segment, r.bufsz, r.base, r.memsz, "invalid")
      BY <2>1 DEF AddSegment
    <3> QED
      BY <1>0, <3>1, <3>2, PlaceType
  <2>6. Settled(s, r.base)
    BY <2>2 DEF Settled, r
  <2>7. \A p \in DOMAIN where' :
          \E x \in Asked(loader', case') : x.part = p /\ Settled(x, where'[p])
    BY <2>1, <2>2, <2>3, <2>6, SettlesKeeps, Zenon DEF LoadInv
  <2>8. s.from < 0 \/ FileBytes([from |-> s.from, size |-> r.bufsz])
    <3>1. CASE loader \in {"elf-x86", "multiboot-x86", "bzImage"}
      <4>1. s.from < 0 \/ s.from + r.bufsz <= case.file.len
        BY <1>0, <2>2, <2>3, <3>1, AskedBytes DEF r
      <4> QED
        BY <4>1 DEF FileBytes
    <3>2. CASE loader \notin {"elf-x86", "multiboot-x86", "bzImage"}
      BY <3>2, Zenon DEF FileBytes
    <3> QED
      BY <3>1, <3>2
  <2>9. \A x \in taken' : FileBytes(x)'
    BY <2>1, <2>2, <2>8, TakesKeeps, Zenon DEF LoadInv
  <2> QED
    BY <1>0, <2>1, <2>2, <2>5, <2>7, <2>9, Zenon DEF LoadInv
<1>3. CASE LoadBuffer
  <2> DEFINE s == Head(todo)
             r == s.request
  <2>1. /\ Step("buffer") /\ AddBuffer(r) /\ Settles(s.part, BufferAt(r)) /\ Takes(s.from, r.bufsz)
        /\ base' = base
    BY <1>3, Zenon DEF LoadBuffer, BufferAt
  <2>2. /\ loader # "" /\ Accepts(loader, case.file) /\ s \in Steps(loader, case)
        /\ s.op = "buffer" /\ todo' \in Seq(Steps(loader, case)) /\ case' = case
        /\ loader' = loader
    BY <2>1, StepOf, Zenon
  <2> HIDE DEF s
  <2>3. s \in Asked(loader, case)
    BY <2>2, StepAsked
  <2>4. BufferRequest(r)
    <3>1. Typed(s)
      BY <1>0, <2>2, <2>3, AskedTyped, Zenon
    <3>2. "segment" # "buffer"
      OBVIOUS
    <3> QED
      BY <2>2, <3>1, <3>2, Zenon DEF Typed
  <2> HIDE DEF r
  <2>5. segment' \in Seq(Segment) /\ (phase' # "ended" => HoleAt(r, BufferAt(r)))
    BY <1>0, <2>1, <2>4, BufferEffect, Zenon
  <2>6. phase' # "ended" => Settled(s, BufferAt(r))
    BY <2>2, <2>5 DEF Settled, r
  <2>7. \A p \in DOMAIN where' :
          \E x \in Asked(loader', case') : x.part = p /\ Settled(x, where'[p])
    BY <2>1, <2>2, <2>3, <2>6, SettlesKeeps, Zenon DEF LoadInv
  <2>8. s.from < 0 \/ FileBytes([from |-> s.from, size |-> r.bufsz])
    <3>1. CASE loader \in {"elf-x86", "multiboot-x86", "bzImage"}
      <4>1. s.from < 0 \/ s.from + r.bufsz <= case.file.len
        BY <1>0, <2>2, <2>3, <3>1, AskedBytes DEF r
      <4> QED
        BY <4>1 DEF FileBytes
    <3>2. CASE loader \notin {"elf-x86", "multiboot-x86", "bzImage"}
      BY <3>2, Zenon DEF FileBytes
    <3> QED
      BY <3>1, <3>2
  <2>9. \A x \in taken' : FileBytes(x)'
    BY <2>1, <2>2, <2>8, TakesKeeps, Zenon DEF LoadInv
  <2> QED
    BY <1>0, <2>1, <2>2, <2>5, <2>7, <2>9, Zenon DEF LoadInv
<1>4. CASE FindHole
  <2>1. /\ Step("hole") /\ UNCHANGED <<where, taken>> /\ segment' = segment
        /\ \/ base' = base
           \/ \E hole \in LocateHole(segment, DynamicRequest(case.file)) :
                base' = Wrap(hole - DynamicFirst)
    BY <1>4 DEF FindHole
  <2>2. Accepts(loader, case.file) /\ Head(todo) \in Steps(loader, case) /\ Head(todo).op = "hole"
    BY <2>1, StepOf, Zenon
  <2>3. loader \in {"elf-x86", "multiboot-x86"}
    BY <2>2, HoleStep, Zenon
  <2>4. \A i \in DOMAIN case.file.phdrs :
          /\ case.file.phdrs[i].paddr \in ULong /\ case.file.phdrs[i].memsz \in ULong
          /\ case.file.phdrs[i].align \in ULong
    BY <1>0, <2>2, <2>3, PhdrFacts, Zenon
  <2>5. BufferRequest(DynamicRequest(case.file))
    BY <2>4, DynamicType, Zenon
  <2>6. ASSUME NEW hole \in LocateHole(segment, DynamicRequest(case.file))
        PROVE  Wrap(hole - DynamicFirst) \in Int
    <3>1. hole \in Nat
      BY <1>0, <2>5, HoleFacts, Zenon
    <3> QED
      BY <3>1, PageAssumption DEF Wrap, DynamicFirst, UlongMax
  <2>7. base' \in Int
    BY <1>0, <2>1, <2>6, Zenon
  <2> QED
    BY <1>0, <2>1, <2>7, LooksOnly, Zenon
<1>5. CASE LoadExec
  <2> DEFINE s == Head(todo)
             r == ExecRequest(s.phdr, base)
  <2>1. Step("load") /\ AddSegment(r) /\ Takes(s.from, r.bufsz) /\ UNCHANGED <<where, base>>
    BY <1>5 DEF LoadExec
  <2>2. /\ loader # "" /\ Accepts(loader, case.file) /\ s \in Steps(loader, case)
        /\ s.op = "load" /\ todo' \in Seq(Steps(loader, case)) /\ case' = case
        /\ loader' = loader
    BY <2>1, StepOf, Zenon
  <2> HIDE DEF s
  <2>3. s \in ExecLoads(loader, case)
    BY <2>2, StepAsked
  <2>4. /\ SegmentRequest(r) /\ (Sums(case.file) => s.from + r.bufsz <= case.file.len)
        /\ loader \in {"elf-x86", "multiboot-x86"}
    BY <1>0, <2>2, <2>3, ExecFacts, Zenon
  <2> HIDE DEF r
  <2>5. segment' \in Seq(Segment)
    <3>1. r.bufsz \in ULong /\ r.memsz \in ULong /\ r.base \in Int
      BY <2>4 DEF SegmentRequest
    <3>2. Place(segment, r.bufsz, r.base, r.memsz, "invalid")
      BY <2>1 DEF AddSegment
    <3> QED
      BY <1>0, <3>1, <3>2, PlaceType
  <2>6. FileBytes([from |-> s.from, size |-> r.bufsz])
    <3>1. case.file.kind = "elf"
      BY <1>0, <2>2, <2>4, Accepted, Zenon
    <3> QED
      BY <2>4, <3>1 DEF FileBytes
  <2>7. \A x \in taken' : FileBytes(x)'
    BY <2>1, <2>2, <2>6, TakesKeeps, Zenon DEF LoadInv
  <2>8. \A p \in DOMAIN where' :
          \E x \in Asked(loader', case') : x.part = p /\ Settled(x, where'[p])
    BY <2>1, <2>2, Zenon DEF LoadInv
  <2> QED
    BY <1>0, <2>1, <2>2, <2>5, <2>7, <2>8, Zenon DEF LoadInv
<1>6. ASSUME NEW op, NEW good, NEW reason, Inspect(op, good, reason) PROVE LoadInv'
  <2>1. Step(op) /\ UNCHANGED <<where, taken>> /\ segment' = segment /\ base' = base
    BY <1>6 DEF Inspect
  <2> QED
    BY <1>0, <2>1, LooksOnly, Zenon
<1>7. CASE PurgatoryInfo \/ Relocate \/ CheckAbove \/ SetSymbols \/ Refuse
  BY <1>6, <1>7, Zenon DEF PurgatoryInfo, Relocate, CheckAbove, SetSymbols, Refuse
<1>8. CASE SortNow
  <2>1. /\ Step("sort") /\ segment' \in SortedForms(segment) /\ UNCHANGED <<where, taken>>
        /\ base' = base
    BY <1>8 DEF SortNow
  <2>2. segment' \in Seq(Segment)
    BY <1>0, <2>1, SortedFormsFacts
  <2> QED
    BY <1>0, <2>1, <2>2, LooksOnly, Zenon
<1>9. CASE GiveUp
  <2>1. Step("fail") /\ UNCHANGED <<where, taken>> /\ segment' = segment /\ base' = base
    BY <1>9 DEF GiveUp, LoaderFails
  <2> QED
    BY <1>0, <2>1, LooksOnly, Zenon
<1>10. CASE \/ ProbeFails \/ ProbeEnds \/ BadOption \/ Loaded
            \/ /\ Verify \/ Sort \/ KexecLoad \/ KexecLoadFails
               /\ UNCHANGED <<case, loader, todo, where, base, taken, told, memory>>
            \/ UNCHANGED lvars
  <2>1. UNCHANGED <<case, loader, todo, where, base, taken>>
    BY <1>10 DEF ProbeFails, ProbeEnds, BadOption, Loaded, lvars
  <2>2. segment' = segment \/ segment' \in SortedForms(segment)
    BY <1>10 DEF ProbeFails, ProbeEnds, BadOption, Loaded, lvars, vars, LoaderFails,
                 LoaderReturns, Verify, Sort, KexecLoad, KexecLoadFails
  <2>3. segment' \in Seq(Segment)
    BY <1>0, <2>2, SortedFormsFacts
  <2> QED
    BY <2>1, <2>3, LoadSame
<1> QED
  BY <1>1, <1>2, <1>3, <1>4, <1>5, <1>7, <1>8, <1>9, <1>10, Zenon DEF LNext

(* What elf_exec_load and do_bzImage_load copy into a kernel that is       *)
(* staged was read from inside the file: build_mem_phdrs compares every    *)
(* segment with the length once, before elf_exec_build_load asks for       *)
(* memory, and a bzImage is as long as the real-mode part its header       *)
(* counts.                                                                 *)
THEOREM ReadFromFile == LSpec => []LoadedFromFile
<1>1. LoadInv => LoadedFromFile
  BY Zenon DEF LoadInv, LoadedFromFile, FileBytes
<1> QED
  BY <1>1, LoadInit, LoadNext, PTL DEF LSpec

LEMMA PurgatorySettled ==
  ASSUME LoadInv, "purgatory" \in DOMAIN where
  PROVE  /\ WellLinked(case.purgatory) /\ Holds(case.purgatory, where["purgatory"])
         /\ where["purgatory"] + RelRequest(case.purgatory, 0, 0, 1).memsz < Word
<1> DEFINE o == case.purgatory
           at == where["purgatory"]
           r == PurgatoryRequest(loader, case)
<1>1. PICK s \in Asked(loader, case) : s.part = "purgatory" /\ Settled(s, at)
  BY Zenon DEF LoadInv
<1>2. WellLinked(o)
  BY CasesAssumption, Zenon DEF LoadInv
<1>3. s = PurgatoryBuffer(loader, case)
  <2>1. case \in Cases /\ Accepts(loader, case.file)
    BY DEF LoadInv
  <2> QED
    BY <1>1, <2>1, AskedPart, Zenon
<1>4. s.op = "buffer" /\ s.request = r
  BY <1>3 DEF PurgatoryBuffer, BufferOf
<1>5. HoleAt(r, at)
  BY <1>1, <1>4, Zenon DEF Settled
<1>6. /\ BufferRequest(r) /\ r.align = Greater(Room(o).align, Room(o).bssAlign)
      /\ r.memsz = RelRequest(o, 0, 0, 1).memsz
  BY <1>2, PurgatoryRequestType, Zenon
<1>7. Sections(o) /\ Divides(o)
  BY <1>2, LinkedSections, Zenon
<1> HIDE DEF o, at, r
<1>8. Holds(o, at)
  BY <1>5, <1>6, <1>7, Zenon DEF Holds, HoleAt, HoleAlign
<1>9. at + r.memsz < Word
  BY <1>5, <1>6, PageAssumption DEF HoleAt, BufferRequest, ULong
<1> QED
  BY <1>2, <1>6, <1>8, <1>9 DEF o, at

(* elf_rel_load: wherever locate_hole puts purgatory, the second pass over *)
(* its sections gives each an address that is aligned, in the memory the   *)
(* first pass asked for and clear of the others, and the relocations and   *)
(* the entry land in a section that is there.                              *)
THEOREM PurgatoryWhole == LSpec => []PurgatoryPlaced
<1>1. ASSUME LoadInv PROVE PurgatoryPlaced
  <2> SUFFICES ASSUME "purgatory" \in DOMAIN where PROVE PurgatoryPlaced
    BY Zenon DEF PurgatoryPlaced
  <2> DEFINE o == case.purgatory
             rel == where["purgatory"]
             addr == SectionAddr(o, rel)
             end(i) == addr[i] + o.shdrs[i].size
             request_ == RelRequest(o, 0, 0, 1)
  <2>1. WellLinked(o) /\ Holds(o, rel) /\ rel + request_.memsz < Word
    BY <1>1, PurgatorySettled
  <2> HIDE DEF o, rel
  <2>2. ASSUME NEW i \in Loads(o)
        PROVE  /\ addr[i] % o.shdrs[i].align = 0
               /\ rel <= addr[i] /\ end(i) <= rel + request_.memsz
               /\ o.shdrs[i].type # "NOBITS" => end(i) <= rel + request_.bufsz
    <3>1. i \in DOMAIN o.shdrs /\ o.shdrs[i].alloc
      BY DEF Loads
    <3>2. Inside(o, rel, i)
      BY <2>1, <3>1, SectionInside, Zenon
    <3> QED
      BY <3>2, Zenon DEF Inside, EndOf
  <2>3. ASSUME NEW i \in Loads(o), NEW j \in Loads(o), i < j
        PROVE  end(i) <= addr[j] \/ end(j) <= addr[i]
    <3>1. /\ i \in DOMAIN o.shdrs /\ o.shdrs[i].alloc /\ j \in DOMAIN o.shdrs /\ o.shdrs[j].alloc
      BY DEF Loads
    <3> QED
      BY <2>1, <2>3, <3>1, SectionsApart, Zenon DEF EndOf
  <2>4. ASSUME NEW i \in DOMAIN o.relocs, ~RelocDies(o)
        PROVE  LET r == o.relocs[i]
                   j == o.symbols[r.symbol].shndx
                   target == IF r.type = "R_386_32" THEN Relocated(o, rel, r)
                             ELSE Cut(Relocated(o, rel, r) + addr[r.section] + r.offset + 4)
               IN j \in Loads(o) /\ addr[j] <= target /\ target <= end(j)
    BY <2>1, <2>4, TargetInside, Zenon DEF EndOf
  <2>5. Holding(o) # {} =>
          \E j \in Loads(o) : addr[j] <= RelEntry(o, rel) /\ RelEntry(o, rel) < end(j)
    BY <2>1, EntryInside, Zenon DEF EndOf
  <2> QED
    BY <2>2, <2>3, <2>4, <2>5, Zenon DEF PurgatoryPlaced, o, rel, Loads
<1> QED
  BY <1>1, LoadInit, LoadNext, PTL DEF LSpec

-----------------------------------------------------------------------------
(* The places a loader has given *)

(* The segments of a list, in whatever order.                              *)
Listed(l) == {l[i] : i \in DOMAIN l}

LEMMA ListedSorted ==
  ASSUME NEW s \in Seq(Segment), NEW t \in SortedForms(s)
  PROVE  Listed(t) = Listed(s)
<1>1. /\ \A i \in DOMAIN s : \E j \in DOMAIN t : t[j] = s[i]
      /\ \A j \in DOMAIN t : \E i \in DOMAIN s : t[j] = s[i]
  BY SortedKeeps
<1>2. \A x \in Listed(t) : x \in Listed(s)
  <2>1. SUFFICES ASSUME NEW j \in DOMAIN t PROVE t[j] \in Listed(s)
    BY Zenon DEF Listed
  <2>2. PICK i \in DOMAIN s : t[j] = s[i]
    BY <1>1, Zenon
  <2>3. s[i] \in Listed(s)
    BY Zenon DEF Listed
  <2> QED
    BY <2>2, <2>3, Zenon
<1>3. \A x \in Listed(s) : x \in Listed(t)
  <2>1. SUFFICES ASSUME NEW i \in DOMAIN s PROVE s[i] \in Listed(t)
    BY Zenon DEF Listed
  <2>2. PICK j \in DOMAIN t : t[j] = s[i]
    BY <1>1, Zenon
  <2>3. t[j] \in Listed(t)
    BY Zenon DEF Listed
  <2> QED
    BY <2>2, <2>3, Zenon
<1> QED
  BY <1>2, <1>3, Zenon

LEMMA ListedAppend ==
  ASSUME NEW t \in Seq(Segment), NEW n \in Segment
  PROVE  Listed(Append(t, n)) = Listed(t) \cup {n}
<1> DEFINE a == Append(t, n)
           m == Len(t)
<1>1. m \in Nat /\ DOMAIN t = 1..m /\ DOMAIN a = 1..m + 1
  OBVIOUS
<1>2. \A i \in 1..m : a[i] = t[i] /\ i \in 1..m + 1
  OBVIOUS
<1>3. a[m + 1] = n /\ m + 1 \in 1..m + 1
  OBVIOUS
<1>4. \A i \in 1..m + 1 : i \in 1..m \/ i = m + 1
  BY <1>1
<1> HIDE DEF a, m
<1>5. Listed(a) = Listed(t) \cup {n}
  BY <1>1, <1>2, <1>3, <1>4, Zenon DEF Listed
<1> QED
  BY <1>5 DEF a

(* What is left of a loader's steps keeps the order.                       *)
LEMMA OrderedTail ==
  ASSUME NEW S, NEW q \in Seq(S), q # <<>>, NEW needs, Ordered(q, needs),
         NEW rest, rest \subseteq needs, \A p \in rest : ~Puts(Head(q), p)
  PROVE  Ordered(Tail(q), rest)
<1> DEFINE u == Tail(q)
           n == Len(q)
<1>1. /\ n \in Nat \ {0} /\ DOMAIN q = 1..n /\ DOMAIN u = 1..n - 1 /\ Head(q) = q[1]
      /\ \A i \in DOMAIN u : u[i] = q[i + 1] /\ i + 1 \in DOMAIN q
  BY HeadAndTail
<1> HIDE DEF u, n
<1>2. ASSUME NEW i \in DOMAIN u, NEW p \in rest,
             u[i].op = "symbols" \/ (u[i].op = "above" /\ p = "purgatory")
      PROVE  \E j \in 1..i - 1 : Puts(u[j], p)
  <2>1. /\ i + 1 \in DOMAIN q /\ p \in needs
        /\ q[i + 1].op = "symbols" \/ (q[i + 1].op = "above" /\ p = "purgatory")
    BY <1>1, <1>2, Zenon
  <2>2. PICK j \in 1..(i + 1) - 1 : Puts(q[j], p)
    BY <2>1, Zenon DEF Ordered
  <2>3. j # 1
    BY <1>1, <2>2, Zenon
  <2>4. j - 1 \in 1..i - 1 /\ j - 1 \in DOMAIN u /\ (j - 1) + 1 = j
    BY <1>1, <2>3
  <2>5. u[j - 1] = q[j]
    BY <1>1, <2>4, Zenon
  <2> QED
    BY <2>2, <2>4, <2>5, Zenon
<1>3. ASSUME NEW i \in DOMAIN u, u[i].op = "symbols", NEW j \in DOMAIN u, j > i
      PROVE  ~Placing(u[j])
  <2>1. i + 1 \in DOMAIN q /\ j + 1 \in DOMAIN q /\ q[i + 1] = u[i] /\ q[j + 1] = u[j]
    BY <1>1, Zenon
  <2>2. j + 1 > i + 1
    BY <1>1, <1>3
  <2> QED
    BY <1>3, <2>1, <2>2, Zenon DEF Ordered
<1>4. ASSUME NEW i \in DOMAIN u, Puts(u[i], "setup")
      PROVE  \E j \in DOMAIN u : j > i /\ u[j].op = "above"
  <2>1. i + 1 \in DOMAIN q /\ q[i + 1] = u[i]
    BY <1>1, Zenon
  <2>2. PICK j \in DOMAIN q : j > i + 1 /\ q[j].op = "above"
    BY <1>4, <2>1, Zenon DEF Ordered
  <2>3. j - 1 \in DOMAIN u /\ j - 1 > i /\ (j - 1) + 1 = j
    BY <1>1, <2>2
  <2>4. u[j - 1] = q[j]
    BY <1>1, <2>3, Zenon
  <2> QED
    BY <2>2, <2>3, <2>4, Zenon
<1>5. ASSUME NEW i \in DOMAIN u, NEW j \in DOMAIN u, u[i].op = "above", i < j
      PROVE  ~Puts(u[j], "setup") /\ ~Puts(u[j], "purgatory")
  <2>1. i + 1 \in DOMAIN q /\ j + 1 \in DOMAIN q /\ q[i + 1] = u[i] /\ q[j + 1] = u[j]
    BY <1>1, Zenon
  <2>2. i + 1 < j + 1
    BY <1>1, <1>5
  <2>3. \A a, b \in DOMAIN q : q[a].op = "above" /\ a < b =>
          ~Puts(q[b], "setup") /\ ~Puts(q[b], "purgatory")
    BY Zenon DEF Ordered
  <2> QED
    BY <1>5, <2>1, <2>2, <2>3, Zenon
<1>6. Ordered(u, rest)
  BY <1>2, <1>3, <1>4, <1>5, Zenon DEF Ordered
<1> QED
  BY <1>6 DEF u

(* What the first step of an ordered list means for those that follow.     *)
LEMMA OrderedHead ==
  ASSUME NEW S, NEW q \in Seq(S), q # <<>>, NEW needs, Ordered(q, needs)
  PROVE  /\ Head(q).op = "symbols" =>
              needs = {} /\ \A j \in DOMAIN Tail(q) : ~Placing(Tail(q)[j])
         /\ Puts(Head(q), "setup") => \E j \in DOMAIN Tail(q) : Tail(q)[j].op = "above"
         /\ Head(q).op = "above" =>
              /\ "purgatory" \notin needs
              /\ \A j \in DOMAIN Tail(q) : ~Puts(Tail(q)[j], "setup") /\ ~Puts(Tail(q)[j], "purgatory")
<1> DEFINE u == Tail(q)
           n == Len(q)
<1>1. /\ n \in Nat \ {0} /\ DOMAIN q = 1..n /\ DOMAIN u = 1..n - 1 /\ Head(q) = q[1]
      /\ \A i \in DOMAIN u : u[i] = q[i + 1] /\ i + 1 \in DOMAIN q
  BY HeadAndTail
<1> HIDE DEF u, n
<1>2. 1 \in DOMAIN q /\ (\A j \in DOMAIN u : j + 1 > 1 /\ 1 < j + 1)
      /\ \A j \in DOMAIN q : j > 1 => j - 1 \in DOMAIN u /\ (j - 1) + 1 = j
  BY <1>1
<1>3. ASSUME Head(q).op = "symbols" PROVE needs = {} /\ \A j \in DOMAIN u : ~Placing(u[j])
  <2>1. \A p \in needs : \E j \in 1..1 - 1 : Puts(q[j], p)
    BY <1>1, <1>2, <1>3, Zenon DEF Ordered
  <2>2. 1..1 - 1 = {}
    OBVIOUS
  <2>3. needs = {}
    BY <2>1, <2>2, Zenon
  <2>4. \A j \in DOMAIN q : j > 1 => ~Placing(q[j])
    BY <1>1, <1>2, <1>3, Zenon DEF Ordered
  <2> QED
    BY <1>1, <1>2, <2>3, <2>4, Zenon
<1>4. ASSUME Puts(Head(q), "setup") PROVE \E j \in DOMAIN u : u[j].op = "above"
  <2>1. PICK j \in DOMAIN q : j > 1 /\ q[j].op = "above"
    BY <1>1, <1>2, <1>4, Zenon DEF Ordered
  <2>2. j - 1 \in DOMAIN u /\ (j - 1) + 1 = j
    BY <1>2, <2>1, Zenon
  <2> QED
    BY <1>1, <2>1, <2>2, Zenon
<1>5. ASSUME Head(q).op = "above"
      PROVE  /\ "purgatory" \notin needs
             /\ \A j \in DOMAIN u : ~Puts(u[j], "setup") /\ ~Puts(u[j], "purgatory")
  <2>1. "purgatory" \notin needs
    <3>1. "purgatory" \in needs => \E j \in 1..1 - 1 : Puts(q[j], "purgatory")
      BY <1>1, <1>2, <1>5, Zenon DEF Ordered
    <3>2. 1..1 - 1 = {}
      OBVIOUS
    <3> QED
      BY <3>1, <3>2, Zenon
  <2>2. \A a, b \in DOMAIN q : q[a].op = "above" /\ a < b =>
          ~Puts(q[b], "setup") /\ ~Puts(q[b], "purgatory")
    BY Zenon DEF Ordered
  <2> QED
    BY <1>1, <1>2, <1>5, <2>1, <2>2, Zenon
<1> QED
  BY <1>3, <1>4, <1>5, Zenon DEF u

(* The segment a step has asked for, where it was put.                     *)
SegmentOf(s, at) == NewSegment(s.request.bufsz, at, s.request.memsz)

(* Every segment was accepted by add_segment, and nobody but do_bzImage_   *)
(* load's own steps made those of a bzImage.                               *)
MadeBy(s, x) == Settled(s, x.mem) /\ x = SegmentOf(s, x.mem)
Proper(x) == WellPlaced(x) /\ (loader \in BzLoaders => \E s \in Asked(loader, case) : MadeBy(s, x))

(* A part is where a step put it, with its segment if it is not empty.     *)
Lies(p) ==
  \E s \in Asked(loader, case) :
    /\ s.part = p /\ Settled(s, where[p])
    /\ s.request.memsz > 0 => SegmentOf(s, where[p]) \in Listed(segment)

(* The setup code is still to be compared with purgatory, or was.          *)
SetupBelow ==
  "setup" \in DOMAIN where =>
    \/ \E j \in DOMAIN todo : todo[j].op = "above"
    \/ /\ "purgatory" \in DOMAIN where /\ where["purgatory"] >= where["setup"]
       /\ \A j \in DOMAIN todo : ~Puts(todo[j], "setup") /\ ~Puts(todo[j], "purgatory")

(* What the kernel was told still holds: nothing has been placed since.    *)
ToldOf ==
  told # {} =>
    /\ told = Handed /\ SymbolsFound /\ Needs(loader, case) \subseteq DOMAIN where
    /\ \A j \in DOMAIN todo : ~Placing(todo[j])

RunInv ==
  /\ \A x \in Listed(segment) : Proper(x)
  /\ \A p \in DOMAIN where : Lies(p)
  /\ Ordered(todo, Needs(loader, case) \ DOMAIN where)
  /\ SetupBelow /\ ToldOf
  /\ memory \in {NoMemory, MemoryTold}

(* Of a run that was not given up.                                         *)
Live == phase # "ended" \/ staged # <<>>
HandInv ==
  /\ staged # <<>> => phase = "ended"
  /\ Live =>
       /\ IF loader = "" THEN segment = <<>> /\ told = {} /\ memory = NoMemory /\ phase = "load"
          ELSE RunInv
       /\ phase # "load" => todo = <<>>
       /\ staged # <<>> => staged = segment

LEMMA HandInit == LInit => HandInv
BY DEF LInit, Init, HandInv, Live

(* A step of a loader that goes on.                                        *)
LEMMA StepRun ==
  ASSUME HandInv, NEW op, Step(op)
  PROVE  phase = "load" /\ staged = <<>> /\ RunInv
BY DEF HandInv, Live, Step

LEMMA StepGoes ==
  ASSUME HandInv, NEW op, Step(op), staged' = staged,
         phase' = "ended" \/ (phase' = "load" /\ RunInv')
  PROVE  HandInv'
<1>1. staged' = <<>> /\ loader' # ""
  BY StepRun DEF Step
<1> QED
  BY <1>1 DEF HandInv, Live

(* What the kernel is told depends on the file and the places only.        *)
LEMMA MemoryToldSame ==
  ASSUME UNCHANGED <<case, loader>>
  PROVE  MemoryTold' = MemoryTold
<1>1. case' = case /\ loader' = loader
  OBVIOUS
<1> QED
  BY <1>1, Zenon DEF MemoryTold

LEMMA HandedSame ==
  ASSUME UNCHANGED <<case, loader, where>>
  PROVE  Handed' = Handed /\ (SymbolsFound' <=> SymbolsFound)
<1>1. case' = case /\ loader' = loader /\ where' = where
  OBVIOUS
<1>2. \A k, cmdline, initrd : BzTold(k, cmdline, initrd)' = BzTold(k, cmdline, initrd)
  BY <1>1 DEF BzTold, LinuxTold, MapTold, EntryTold, DebugTold, At, Purgatory
<1>3. ElfTold' = ElfTold
  BY <1>1 DEF ElfTold, MapTold, At, Purgatory
<1>4. MultibootTold' = MultibootTold
  BY <1>1 DEF MultibootTold, At
<1>5. Handed' = Handed
  BY <1>1, <1>2, <1>3, <1>4 DEF Handed
<1>6. SymbolsFound' <=> SymbolsFound
  BY <1>1 DEF SymbolsFound
<1> QED
  BY <1>5, <1>6

LEMMA ProperSame ==
  ASSUME UNCHANGED <<case, loader>>, NEW x
  PROVE  Proper(x)' <=> Proper(x)
<1>1. case' = case /\ loader' = loader
  OBVIOUS
<1> QED
  BY <1>1, Zenon DEF Proper

(* A list that only grows keeps its parts.                                 *)
LEMMA LiesKeeps ==
  ASSUME UNCHANGED <<case, loader>>, NEW p, where'[p] = where[p],
         Listed(segment) \subseteq Listed(segment'), Lies(p)
  PROVE  Lies(p)'
<1>1. case' = case /\ loader' = loader
  OBVIOUS
<1>2. PICK s \in Asked(loader, case) :
        /\ s.part = p /\ Settled(s, where[p])
        /\ s.request.memsz > 0 => SegmentOf(s, where[p]) \in Listed(segment)
  BY Zenon DEF Lies
<1>3. /\ s.part = p /\ Settled(s, where'[p])
      /\ s.request.memsz > 0 => SegmentOf(s, where'[p]) \in Listed(segment')
  BY <1>2, Zenon
<1>4. s \in Asked(loader', case')
  BY <1>1, <1>2, Zenon
<1> QED
  BY <1>3, <1>4, Zenon DEF Lies

(* Only the list changes, and only its order.                              *)
LEMMA RunSame ==
  ASSUME RunInv, UNCHANGED <<case, loader, todo, where, told, memory>>,
         Listed(segment') = Listed(segment)
  PROVE  RunInv'
<1>1. /\ case' = case /\ loader' = loader /\ todo' = todo /\ where' = where /\ told' = told
      /\ memory' = memory
  OBVIOUS
<1>2. \A x \in Listed(segment') : Proper(x)'
  BY <1>1, ProperSame, Zenon DEF RunInv
<1>3. \A p \in DOMAIN where' : Lies(p)'
  BY <1>1, LiesKeeps, Zenon DEF RunInv
<1>4. Ordered(todo', Needs(loader', case') \ DOMAIN where')
  BY <1>1, Zenon DEF RunInv
<1>5. SetupBelow'
  BY <1>1, Zenon DEF RunInv, SetupBelow
<1>6. ToldOf'
  BY <1>1, HandedSame, Zenon DEF RunInv, ToldOf
<1>7. memory' \in {NoMemory, MemoryTold'}
  BY <1>1, MemoryToldSame, Zenon DEF RunInv
<1> QED
  BY <1>2, <1>3, <1>4, <1>5, <1>6, <1>7, Zenon DEF RunInv

(* What follows the first step.                                            *)
LEMMA Later ==
  ASSUME LoadInv, NEW op, Step(op)
  PROVE  /\ \A j \in DOMAIN todo' : \E i \in DOMAIN todo : todo'[j] = todo[i]
         /\ op # "above" => ((\E i \in DOMAIN todo : todo[i].op = "above") =>
                               \E j \in DOMAIN todo' : todo'[j].op = "above")
<1> DEFINE S == Steps(loader, case)
<1>1. loader # "" /\ todo # <<>> /\ Head(todo).op = op /\ todo' = Tail(todo)
  BY DEF Step
<1>2. todo \in Seq(S)
  BY <1>1 DEF LoadInv
<1> HIDE DEF S
<1>3. /\ Head(todo) = todo[1] /\ Len(todo) \in Nat \ {0} /\ DOMAIN todo = 1..Len(todo)
      /\ DOMAIN todo' = 1..Len(todo) - 1
      /\ \A i \in DOMAIN todo' : todo'[i] = todo[i + 1] /\ i + 1 \in DOMAIN todo
  BY <1>1, <1>2, HeadAndTail, Zenon
<1>4. ASSUME op # "above", NEW i \in DOMAIN todo, todo[i].op = "above"
      PROVE  \E j \in DOMAIN todo' : todo'[j].op = "above"
  <2>1. i # 1
    BY <1>1, <1>3, <1>4, Zenon
  <2>2. i - 1 \in DOMAIN todo' /\ (i - 1) + 1 = i
    BY <1>3, <2>1
  <2> QED
    BY <1>3, <1>4, <2>2, Zenon
<1> QED
  BY <1>3, <1>4, Zenon

(* A step that places nothing the kernel is told of.                       *)
LEMMA RunQuiet ==
  ASSUME LoadInv, RunInv, NEW op, Step(op), op \notin {"above", "segment", "buffer"},
         UNCHANGED <<where, told, memory>>, Listed(segment) \subseteq Listed(segment'),
         \A x \in Listed(segment') : x \in Listed(segment) \/ Proper(x)
  PROVE  RunInv'
<1>1. /\ loader # "" /\ Head(todo) \in Steps(loader, case) /\ Head(todo).op = op
      /\ case' = case /\ loader' = loader
  BY StepOf
<1>2. where' = where /\ told' = told /\ memory' = memory /\ todo # <<>> /\ todo' = Tail(todo)
  BY DEF Step
<1>3. \A x \in Listed(segment') : Proper(x)'
  BY <1>1, ProperSame, Zenon DEF RunInv
<1>4. \A p \in DOMAIN where' : Lies(p)'
  BY <1>1, <1>2, LiesKeeps, Zenon DEF RunInv
<1> DEFINE needs == Needs(loader, case) \ DOMAIN where
           S == Steps(loader, case)
<1>5. todo \in Seq(S) /\ Ordered(todo, needs)
  BY <1>1 DEF LoadInv, RunInv
<1> HIDE DEF needs, S
<1>6. \A p : ~Puts(Head(todo), p)
  BY <1>1 DEF Puts, Placing
<1>7. Ordered(todo', needs)
  BY <1>2, <1>5, <1>6, OrderedTail, Zenon
<1>8. Ordered(todo', Needs(loader', case') \ DOMAIN where')
  BY <1>1, <1>2, <1>7, Zenon DEF needs
<1>9. SetupBelow'
  BY <1>2, Later, Zenon DEF RunInv, SetupBelow
<1>10. ToldOf'
  <2>1. Handed' = Handed /\ (SymbolsFound' <=> SymbolsFound)
    BY <1>1, <1>2, HandedSame, Zenon
  <2> QED
    BY <1>1, <1>2, <2>1, Later, Zenon DEF RunInv, ToldOf
<1>11. memory' \in {NoMemory, MemoryTold'}
  BY <1>1, <1>2, MemoryToldSame, Zenon DEF RunInv
<1> QED
  BY <1>3, <1>4, <1>8, <1>9, <1>10, <1>11, Zenon DEF RunInv

(* A step that places its part.                                            *)
LEMMA RunPlaces ==
  ASSUME LoadInv, RunInv, NEW op \in {"segment", "buffer"}, Step(op),
         NEW at, Settles(Head(todo).part, at), phase' # "ended", UNCHANGED <<told, memory>>,
         Head(todo) \in Asked(loader, case), Settled(Head(todo), at),
         \/ Head(todo).request.memsz = 0 /\ Listed(segment') = Listed(segment)
         \/ /\ WellPlaced(SegmentOf(Head(todo), at))
            /\ Listed(segment') = Listed(segment) \cup {SegmentOf(Head(todo), at)}
  PROVE  RunInv'
<1> DEFINE s == Head(todo)
           x == SegmentOf(s, at)
<1>1. /\ loader # "" /\ s.op = op /\ case' = case /\ loader' = loader
  BY StepOf
<1>2. /\ told' = told /\ memory' = memory /\ todo # <<>> /\ todo' = Tail(todo)
      /\ where' = [p \in DOMAIN where \cup {s.part} |-> IF p = s.part THEN at ELSE where[p]]
  BY DEF Step, Settles
<1>3. x.mem = at
  BY DEF SegmentOf, NewSegment
<1> DEFINE needs == Needs(loader, case) \ DOMAIN where
           S == Steps(loader, case)
<1>4. todo \in Seq(S) /\ Ordered(todo, needs)
  BY <1>1 DEF LoadInv, RunInv
<1> HIDE DEF needs, S
<1>5. 0 > 0 <=> FALSE
  OBVIOUS
<1>6. \A y \in Listed(segment') : Proper(y)'
  <2>1. WellPlaced(x) => Proper(x)
    <3>1. MadeBy(s, x)
      BY <1>3, Zenon DEF MadeBy
    <3> QED
      BY <3>1, Zenon DEF Proper
  <2>2. \A y \in Listed(segment') : Proper(y)
    BY <2>1, Zenon DEF RunInv
  <2> QED
    BY <1>1, <2>2, ProperSame, Zenon
<1>7. Listed(segment) \subseteq Listed(segment')
  BY Zenon
<1>8. s.request.memsz > 0 => x \in Listed(segment')
  BY <1>5, Zenon
<1> HIDE DEF x
<1>9. ASSUME NEW p \in DOMAIN where' PROVE Lies(p)'
  <2>1. /\ p \in DOMAIN where \cup {s.part}
        /\ where'[p] = IF p = s.part THEN at ELSE where[p]
    BY <1>2, Zenon
  <2>2. CASE p = s.part
    <3>1. where'[p] = at
      BY <2>1, <2>2, Zenon
    <3>2. s.part = p /\ Settled(s, where'[p])
      BY <2>2, <3>1, Zenon
    <3>3. s.request.memsz > 0 => SegmentOf(s, where'[p]) \in Listed(segment')
      BY <1>8, <3>1, Zenon DEF x
    <3>4. s \in Asked(loader', case')
      BY <1>1, Zenon
    <3> QED
      BY <3>2, <3>3, <3>4, Zenon DEF Lies
  <2>3. CASE p # s.part
    <3>1. p \in DOMAIN where /\ where'[p] = where[p]
      BY <2>1, <2>3, Zenon
    <3>2. Lies(p)
      BY <3>1, Zenon DEF RunInv
    <3> QED
      BY <1>1, <1>7, <3>1, <3>2, LiesKeeps, Zenon
  <2> QED
    BY <2>2, <2>3, Zenon
<1>10. DOMAIN where' = DOMAIN where \cup {s.part}
  BY <1>2, Zenon
<1>11. Ordered(todo', Needs(loader', case') \ DOMAIN where')
  <2> DEFINE rest == Needs(loader, case) \ DOMAIN where'
  <2>1. rest \subseteq needs /\ \A p \in rest : ~Puts(Head(todo), p)
    BY <1>10, Zenon DEF needs, Puts
  <2> HIDE DEF rest
  <2>2. Ordered(todo', rest)
    BY <1>2, <1>4, <2>1, OrderedTail, Zenon
  <2> QED
    BY <1>1, <2>2, Zenon DEF rest
<1>12. Placing(s) /\ Puts(s, s.part)
  BY <1>1 DEF Placing, Puts
<1>13. todo[1] = s /\ 1 \in DOMAIN todo
  <2>1. Head(todo) = todo[1] /\ Len(todo) \in Nat \ {0} /\ DOMAIN todo = 1..Len(todo)
    BY <1>2, <1>4, HeadAndTail, Zenon
  <2> QED
    BY <2>1
<1>14. SetupBelow'
  <2>1. SUFFICES ASSUME "setup" \in DOMAIN where' PROVE SetupBelow'
    BY Zenon DEF SetupBelow
  <2>2. CASE s.part = "setup"
    <3>1. \E j \in DOMAIN Tail(todo) : Tail(todo)[j].op = "above"
      BY <1>2, <1>4, <1>12, <2>2, OrderedHead, Zenon
    <3> QED
      BY <1>2, <3>1, Zenon DEF SetupBelow
  <2>3. CASE s.part # "setup"
    <3>1. "setup" \in DOMAIN where /\ where'["setup"] = where["setup"]
      BY <1>2, <1>10, <2>1, <2>3, Zenon
    <3>2. CASE \E j \in DOMAIN todo : todo[j].op = "above"
      <4>1. op # "above"
        OBVIOUS
      <4> QED
        BY <3>2, <4>1, Later, Zenon DEF SetupBelow
    <3>3. CASE /\ "purgatory" \in DOMAIN where /\ where["purgatory"] >= where["setup"]
               /\ \A j \in DOMAIN todo : ~Puts(todo[j], "setup") /\ ~Puts(todo[j], "purgatory")
      <4>1. s.part # "purgatory"
        BY <1>12, <1>13, <3>3, Zenon
      <4>2. "purgatory" \in DOMAIN where' /\ where'["purgatory"] = where["purgatory"]
        BY <1>2, <1>10, <3>3, <4>1, Zenon
      <4>3. \A j \in DOMAIN todo' : ~Puts(todo'[j], "setup") /\ ~Puts(todo'[j], "purgatory")
        BY <3>3, Later, Zenon
      <4> QED
        BY <3>1, <3>3, <4>2, <4>3, Zenon DEF SetupBelow
    <3> QED
      BY <3>1, <3>2, <3>3, Zenon DEF RunInv, SetupBelow
  <2> QED
    BY <2>2, <2>3, Zenon
<1>15. ToldOf'
  <2>1. told = {}
    BY <1>12, <1>13, Zenon DEF RunInv, ToldOf
  <2> QED
    BY <1>2, <2>1, Zenon DEF ToldOf
<1>16. memory' \in {NoMemory, MemoryTold'}
  BY <1>1, <1>2, MemoryToldSame, Zenon DEF RunInv
<1> QED
  BY <1>6, <1>9, <1>11, <1>14, <1>15, <1>16, Zenon DEF RunInv

(* add_segment and add_buffer go on with the list as it was, or with one   *)
(* proper segment more.                                                    *)
Grown(t, bufsz, at, memsz) ==
  \/ memsz = 0 /\ Listed(segment') = Listed(t)
  \/ /\ WellPlaced(NewSegment(bufsz, at, memsz))
     /\ Listed(segment') = Listed(t) \cup {NewSegment(bufsz, at, memsz)}

LEMMA AppendGrows ==
  ASSUME RamFits, NEW t \in Seq(Segment), NEW bufsz \in ULong, NEW at \in Int,
         NEW memsz \in ULong, at % Page = 0,
         ValidMemorySegment(NewSegment(bufsz, at, memsz)),
         segment' = Append(t, NewSegment(bufsz, at, memsz))
  PROVE  Grown(t, bufsz, at, memsz)
<1>1. PICK n : n = NewSegment(bufsz, at, memsz)
  OBVIOUS
<1>2. WellPlaced(n)
  BY <1>1, NewSegmentPlaced
<1>3. n \in Segment
  BY <1>2 DEF WellPlaced
<1>4. Listed(segment') = Listed(t) \cup {n}
  BY <1>1, <1>3, ListedAppend
<1> QED
  BY <1>1, <1>2, <1>4, Zenon DEF Grown

LEMMA AddSegmentGrows ==
  ASSUME RamFits, segment \in Seq(Segment), NEW r, SegmentRequest(r), AddSegment(r)
  PROVE  /\ staged' = staged
         /\ phase' = "ended" \/ (phase' = "load" /\ Grown(segment, r.bufsz, r.base, r.memsz))
<1>1. r.bufsz \in ULong /\ r.memsz \in ULong /\ r.base \in Int
  BY DEF SegmentRequest
<1>2. phase = "load" /\ staged' = staged /\ Place(segment, r.bufsz, r.base, r.memsz, "invalid")
  BY DEF AddSegment
<1>3. phase' = "ended" \/ phase' = "load"
  BY <1>2 DEF Place, Die
<1>4. phase' # "ended" =>
        \/ r.memsz = 0 /\ segment' = segment
        \/ /\ r.memsz > 0 /\ r.base % Page = 0
           /\ ValidMemorySegment(NewSegment(r.bufsz, r.base, r.memsz))
           /\ segment' = Append(segment, NewSegment(r.bufsz, r.base, r.memsz))
  BY <1>1, <1>2, PlaceType
<1>5. phase' # "ended" => Grown(segment, r.bufsz, r.base, r.memsz)
  <2>1. CASE r.memsz = 0 /\ segment' = segment
    BY <2>1, Zenon DEF Grown
  <2>2. CASE /\ r.base % Page = 0
             /\ ValidMemorySegment(NewSegment(r.bufsz, r.base, r.memsz))
             /\ segment' = Append(segment, NewSegment(r.bufsz, r.base, r.memsz))
    BY <1>1, <2>2, AppendGrows, Zenon
  <2> QED
    BY <1>4, <2>1, <2>2, Zenon
<1> QED
  BY <1>2, <1>3, <1>5, Zenon

LEMMA AddBufferGrows ==
  ASSUME RamFits, segment \in Seq(Segment), NEW r, BufferRequest(r), AddBuffer(r)
  PROVE  /\ staged' = staged
         /\ \/ phase' = "ended"
            \/ /\ phase' = "load" /\ HoleAt(r, BufferAt(r))
               /\ Grown(segment, r.bufsz, BufferAt(r), r.memsz)
<1> DEFINE at == BufferAt(r)
<1>1. r.bufsz \in ULong /\ r.memsz \in ULong
  BY DEF BufferRequest
<1>2. phase = "load" /\ staged' = staged /\ (phase' = "ended" \/ phase' = "load")
  BY DEF AddBuffer, Place, Die
<1>3. phase' # "ended" =>
        /\ HoleAt(r, at)
        /\ \E t \in SortedForms(segment) :
             (r.memsz = 0 /\ segment' = t) \/ (r.memsz > 0 /\ Appended(t, r, at))
  BY BufferEffect, Zenon
<1> HIDE DEF at
<1>4. ASSUME phase' # "ended" PROVE Grown(segment, r.bufsz, at, r.memsz)
  <2>1. PICK t \in SortedForms(segment) :
          (r.memsz = 0 /\ segment' = t) \/ (r.memsz > 0 /\ Appended(t, r, at))
    BY <1>3, <1>4, Zenon
  <2>2. t \in Seq(Segment) /\ Listed(t) = Listed(segment)
    BY SortedFormsFacts, ListedSorted
  <2>3. at \in Int
    BY <1>3, <1>4 DEF HoleAt
  <2>4. Grown(t, r.bufsz, at, r.memsz)
    <3>1. CASE r.memsz = 0 /\ segment' = t
      BY <3>1, Zenon DEF Grown
    <3>2. CASE Appended(t, r, at)
      BY <1>1, <2>2, <2>3, <3>2, AppendGrows, Zenon DEF Appended
    <3> QED
      BY <2>1, <3>1, <3>2, Zenon
  <2> QED
    BY <2>2, <2>4, Zenon DEF Grown
<1> QED
  BY <1>2, <1>3, <1>4, Zenon DEF at

LEMMA HandNext ==
  ASSUME RamFits, LoadInv, HandInv, [LNext]_lvars
  PROVE  HandInv'
<1>0. case \in Cases /\ segment \in Seq(Segment)
  BY DEF LoadInv
<1>1. CASE Probe
  <2>1. /\ loader = "" /\ loader' \in Chosen(case) /\ todo' = Program(loader', case)
        /\ case' = case /\ where' = where /\ segment' = segment /\ phase = "load"
        /\ phase' = "load" /\ staged' = staged /\ told' = told /\ memory' = memory
    BY <1>1 DEF Probe, vars
  <2>2. Accepts(loader', case.file)
    BY <2>1, Zenon DEF Chosen
  <2>3. loader' # ""
    BY <2>2 DEF Accepts
  <2>4. Ordered(todo', Needs(loader', case))
    BY <1>0, <2>1, <2>2, ProgramShape, Zenon
  <2>5. DOMAIN where' = {}
    BY <2>1, Zenon DEF LoadInv
  <2>6. segment = <<>> /\ told = {} /\ memory = NoMemory /\ staged = <<>>
    BY <2>1 DEF HandInv, Live
  <2>7. RunInv'
    <3>1. \A x \in Listed(segment') : Proper(x)'
      <4>1. DOMAIN segment' = {}
        <5>1. segment' = <<>>
          BY <2>1, <2>6, Zenon
        <5>2. DOMAIN <<>> = {}
          OBVIOUS
        <5> QED
          BY <5>1, <5>2, Zenon
      <4>2. \A x \in Listed(segment') : \E i \in DOMAIN segment' : x = segment'[i]
        BY Zenon DEF Listed
      <4> QED
        BY <4>1, <4>2, Zenon
    <3>2. Needs(loader', case') \ DOMAIN where' = Needs(loader', case)
      BY <2>1, <2>5, Zenon
    <3>3. Ordered(todo', Needs(loader', case') \ DOMAIN where')
      BY <2>4, <3>2, Zenon
    <3>4. SetupBelow'
      BY <2>5, Zenon DEF SetupBelow
    <3>5. ToldOf'
      BY <2>1, <2>6, Zenon DEF ToldOf
    <3> QED
      BY <2>1, <2>5, <2>6, <3>1, <3>3, <3>4, <3>5, Zenon DEF RunInv
  <2> QED
    BY <2>1, <2>3, <2>6, <2>7, Zenon DEF HandInv
<1>2. CASE LoadSegment
  <2> DEFINE s == Head(todo)
             r == s.request
  <2>1. Step("segment") /\ AddSegment(r) /\ Settles(s.part, r.base) /\ UNCHANGED <<told, memory>>
    BY <1>2 DEF LoadSegment
  <2>2. /\ Accepts(loader, case.file) /\ s \in Steps(loader, case) /\ s.op = "segment"
    BY <2>1, StepOf, Zenon
  <2>3. s \in Asked(loader, case)
    <3> HIDE DEF s
    <3> QED
      BY <2>2, StepAsked
  <2>4. SegmentRequest(r)
    <3>1. Typed(s)
      BY <1>0, <2>2, <2>3, AskedTyped, Zenon
    <3>2. "segment" # "buffer"
      OBVIOUS
    <3> QED
      BY <2>2, <3>1, <3>2, Zenon DEF Typed
  <2>5. /\ staged' = staged
        /\ phase' = "ended" \/ (phase' = "load" /\ Grown(segment, r.bufsz, r.base, r.memsz))
    BY <1>0, <2>1, <2>4, AddSegmentGrows, Zenon
  <2>6. Settled(s, r.base)
    BY <2>2 DEF Settled
  <2>7. ASSUME phase' # "ended" PROVE RunInv'
    <3>1. RunInv
      BY <2>1, StepRun, Zenon
    <3>2. \/ s.request.memsz = 0 /\ Listed(segment') = Listed(segment)
          \/ /\ WellPlaced(SegmentOf(s, r.base))
             /\ Listed(segment') = Listed(segment) \cup {SegmentOf(s, r.base)}
      BY <2>5, <2>7, Zenon DEF Grown, SegmentOf
    <3> QED
      BY <2>1, <2>3, <2>6, <2>7, <3>1, <3>2, RunPlaces
  <2> QED
    BY <2>1, <2>5, <2>7, StepGoes, Zenon
<1>3. CASE LoadBuffer
  <2> DEFINE s == Head(todo)
             r == s.request
  <2>1. Step("buffer") /\ AddBuffer(r) /\ Settles(s.part, BufferAt(r)) /\ UNCHANGED <<told, memory>>
    BY <1>3, Zenon DEF LoadBuffer, BufferAt
  <2>2. /\ Accepts(loader, case.file) /\ s \in Steps(loader, case) /\ s.op = "buffer"
    BY <2>1, StepOf, Zenon
  <2>3. s \in Asked(loader, case)
    <3> HIDE DEF s
    <3> QED
      BY <2>2, StepAsked
  <2>4. BufferRequest(r)
    <3>1. Typed(s)
      BY <1>0, <2>2, <2>3, AskedTyped, Zenon
    <3>2. "segment" # "buffer"
      OBVIOUS
    <3> QED
      BY <2>2, <3>1, <3>2, Zenon DEF Typed
  <2>5. /\ staged' = staged
        /\ \/ phase' = "ended"
           \/ /\ phase' = "load" /\ HoleAt(r, BufferAt(r))
              /\ Grown(segment, r.bufsz, BufferAt(r), r.memsz)
    BY <1>0, <2>1, <2>4, AddBufferGrows, Zenon
  <2>6. HoleAt(r, BufferAt(r)) => Settled(s, BufferAt(r))
    BY <2>2 DEF Settled
  <2>7. ASSUME phase' # "ended" PROVE RunInv'
    <3>1. RunInv
      BY <2>1, StepRun, Zenon
    <3>2. \/ s.request.memsz = 0 /\ Listed(segment') = Listed(segment)
          \/ /\ WellPlaced(SegmentOf(s, BufferAt(r)))
             /\ Listed(segment') = Listed(segment) \cup {SegmentOf(s, BufferAt(r))}
      BY <2>5, <2>7, Zenon DEF Grown, SegmentOf
    <3>3. Settled(s, BufferAt(r))
      BY <2>5, <2>6, <2>7, Zenon
    <3> QED
      BY <2>1, <2>3, <2>7, <3>1, <3>2, <3>3, RunPlaces
  <2> QED
    BY <2>1, <2>5, <2>7, StepGoes, Zenon
<1>4. CASE LoadExec
  <2> DEFINE s == Head(todo)
             r == ExecRequest(s.phdr, base)
  <2>1. Step("load") /\ AddSegment(r) /\ UNCHANGED <<where, told, memory>>
    BY <1>4 DEF LoadExec
  <2>2. /\ Accepts(loader, case.file) /\ s \in Steps(loader, case) /\ s.op = "load"
    BY <2>1, StepOf, Zenon
  <2>3. s \in ExecLoads(loader, case)
    <3> HIDE DEF s
    <3> QED
      BY <2>2, StepAsked
  <2>4. SegmentRequest(r) /\ loader \in {"elf-x86", "multiboot-x86"}
    <3>1. base \in Int
      BY DEF LoadInv
    <3> QED
      BY <1>0, <2>2, <2>3, <3>1, ExecFacts, Zenon
  <2>5. /\ staged' = staged
        /\ phase' = "ended" \/ (phase' = "load" /\ Grown(segment, r.bufsz, r.base, r.memsz))
    BY <1>0, <2>1, <2>4, AddSegmentGrows, Zenon
  <2>6. loader \notin BzLoaders
    BY <2>4 DEF BzLoaders
  <2>7. ASSUME phase' # "ended" PROVE RunInv'
    <3>1. RunInv
      BY <2>1, StepRun, Zenon
    <3>2. Grown(segment, r.bufsz, r.base, r.memsz)
      BY <2>5, <2>7, Zenon
    <3>3. Listed(segment) \subseteq Listed(segment')
      BY <3>2, Zenon DEF Grown
    <3>4. \A x \in Listed(segment') : x \in Listed(segment) \/ Proper(x)
      BY <2>6, <3>2, Zenon DEF Grown, Proper
    <3>5. "load" \notin {"above", "segment", "buffer"}
      OBVIOUS
    <3> QED
      BY <2>1, <3>1, <3>3, <3>4, <3>5, RunQuiet, Zenon
  <2> QED
    BY <2>1, <2>5, <2>7, StepGoes, Zenon
<1>5. CASE FindHole \/ PurgatoryInfo \/ Relocate
  <2>1. PICK op \in {"hole", "purgatory info", "relocate"} :
          /\ Step(op) /\ UNCHANGED <<where, told, memory, segment, staged>>
          /\ phase' = phase \/ phase' = "ended"
    BY <1>5 DEF FindHole, PurgatoryInfo, Relocate, Inspect, Die
  <2>2. RunInv /\ phase = "load"
    BY <2>1, StepRun, Zenon
  <2>3. op \notin {"above", "segment", "buffer"}
    OBVIOUS
  <2>4. segment' = segment /\ UNCHANGED <<where, told, memory>> /\ staged' = staged
    BY <2>1
  <2>5. RunInv'
    BY <2>1, <2>2, <2>3, <2>4, RunQuiet, Zenon
  <2> QED
    BY <2>1, <2>2, <2>4, <2>5, StepGoes, Zenon
<1>6. CASE SortNow
  <2>1. /\ Step("sort") /\ segment' \in SortedForms(segment) /\ UNCHANGED <<where, told, memory>>
        /\ staged' = staged /\ (phase' = phase \/ phase' = "ended")
    BY <1>6 DEF SortNow
  <2>2. RunInv /\ phase = "load"
    BY <2>1, StepRun, Zenon
  <2>3. Listed(segment') = Listed(segment)
    BY <1>0, <2>1, ListedSorted
  <2>4. "sort" \notin {"above", "segment", "buffer"}
    OBVIOUS
  <2>5. RunInv'
    BY <2>1, <2>2, <2>3, <2>4, RunQuiet, Zenon
  <2> QED
    BY <2>1, <2>2, <2>5, StepGoes, Zenon
<1>7. CASE CheckAbove
  <2>1. /\ Step("above") /\ UNCHANGED <<where, told, memory, segment, staged>>
        /\ \/ phase' = "ended"
           \/ phase' = phase /\ where["purgatory"] >= where["setup"]
    BY <1>7 DEF CheckAbove, Inspect, Die, At
  <2>2. RunInv /\ phase = "load"
    BY <2>1, StepRun, Zenon
  <2>3. /\ where' = where /\ told' = told /\ memory' = memory /\ segment' = segment
        /\ staged' = staged
    BY <2>1
  <2>4. ASSUME phase' # "ended" PROVE RunInv'
    <3>1. /\ loader # "" /\ Head(todo).op = "above" /\ case' = case /\ loader' = loader
          /\ todo # <<>> /\ todo' = Tail(todo)
      BY <2>1 DEF Step
    <3> DEFINE needs == Needs(loader, case) \ DOMAIN where
               S == Steps(loader, case)
    <3>2. todo \in Seq(S) /\ Ordered(todo, needs)
      BY <2>2, <3>1 DEF LoadInv, RunInv
    <3> HIDE DEF needs, S
    <3>3. /\ "purgatory" \notin needs
          /\ \A j \in DOMAIN todo' : ~Puts(todo'[j], "setup") /\ ~Puts(todo'[j], "purgatory")
      BY <3>1, <3>2, OrderedHead, Zenon
    <3>4. \A x \in Listed(segment') : Proper(x)'
      BY <2>2, <2>3, <3>1, ProperSame, Zenon DEF RunInv
    <3>5. \A p \in DOMAIN where' : Lies(p)'
      BY <2>2, <2>3, <3>1, LiesKeeps, Zenon DEF RunInv
    <3>6. \A p : ~Puts(Head(todo), p)
      BY <3>1 DEF Puts, Placing
    <3>7. Ordered(todo', Needs(loader', case') \ DOMAIN where')
      <4>1. Ordered(todo', needs)
        BY <3>1, <3>2, <3>6, OrderedTail, Zenon
      <4> QED
        BY <2>3, <3>1, <4>1, Zenon DEF needs
    <3>8. SetupBelow'
      <4>1. SUFFICES ASSUME "setup" \in DOMAIN where PROVE SetupBelow'
        BY <2>3, Zenon DEF SetupBelow
      <4>2. loader \in BzLoaders
        <5>1. PICK s \in Asked(loader, case) : s.part = "setup"
          BY <2>2, <4>1, Zenon DEF RunInv, Lies
        <5>2. Accepts(loader, case.file)
          BY <3>1 DEF LoadInv
        <5> QED
          BY <1>0, <3>1, <5>1, <5>2, AskedPart, Zenon
      <4>3. "purgatory" \in DOMAIN where
        BY <3>3, <4>2 DEF needs, Needs
      <4> QED
        BY <2>1, <2>3, <2>4, <3>3, <4>3, Zenon DEF SetupBelow
    <3>9. ToldOf'
      <4>1. Handed' = Handed /\ (SymbolsFound' <=> SymbolsFound)
        BY <2>3, <3>1, HandedSame, Zenon
      <4> QED
        BY <2>1, <2>2, <2>3, <3>1, <4>1, Later, Zenon DEF RunInv, ToldOf
    <3>10. memory' \in {NoMemory, MemoryTold'}
      BY <2>2, <2>3, <3>1, MemoryToldSame, Zenon DEF RunInv
    <3> QED
      BY <3>4, <3>5, <3>7, <3>8, <3>9, <3>10, Zenon DEF RunInv
  <2> QED
    BY <2>1, <2>2, <2>3, <2>4, StepGoes, Zenon
<1>8. CASE SetSymbols
  <2>1. /\ Step("symbols") /\ UNCHANGED <<where, segment, staged>>
        /\ \/ phase' = "ended"
           \/ phase' = phase /\ SymbolsFound /\ told' = Handed /\ memory' = MemoryTold
    BY <1>8 DEF SetSymbols, Inspect, Die
  <2>2. RunInv /\ phase = "load"
    BY <2>1, StepRun, Zenon
  <2>3. where' = where /\ segment' = segment /\ staged' = staged
    BY <2>1
  <2>4. ASSUME phase' # "ended" PROVE RunInv'
    <3>1. /\ loader # "" /\ Head(todo).op = "symbols" /\ case' = case /\ loader' = loader
          /\ todo # <<>> /\ todo' = Tail(todo)
      BY <2>1 DEF Step
    <3> DEFINE needs == Needs(loader, case) \ DOMAIN where
               S == Steps(loader, case)
    <3>2. todo \in Seq(S) /\ Ordered(todo, needs)
      BY <2>2, <3>1 DEF LoadInv, RunInv
    <3> HIDE DEF needs, S
    <3>3. needs = {} /\ \A j \in DOMAIN todo' : ~Placing(todo'[j])
      BY <3>1, <3>2, OrderedHead, Zenon
    <3>4. \A x \in Listed(segment') : Proper(x)'
      BY <2>2, <2>3, <3>1, ProperSame, Zenon DEF RunInv
    <3>5. \A p \in DOMAIN where' : Lies(p)'
      BY <2>2, <2>3, <3>1, LiesKeeps, Zenon DEF RunInv
    <3>6. \A p : ~Puts(Head(todo), p)
      BY <3>1 DEF Puts, Placing
    <3>7. Ordered(todo', Needs(loader', case') \ DOMAIN where')
      <4>1. Ordered(todo', needs)
        BY <3>1, <3>2, <3>6, OrderedTail, Zenon
      <4> QED
        BY <2>3, <3>1, <4>1, Zenon DEF needs
    <3>8. SetupBelow'
      <4>1. "symbols" # "above"
        OBVIOUS
      <4> QED
        BY <2>1, <2>2, <2>3, <4>1, Later, Zenon DEF RunInv, SetupBelow
    <3>9. ToldOf'
      <4>1. Handed' = Handed /\ (SymbolsFound' <=> SymbolsFound)
        BY <2>3, <3>1, HandedSame, Zenon
      <4>2. Needs(loader', case') \subseteq DOMAIN where'
        BY <2>3, <3>1, <3>3, Zenon DEF needs
      <4> QED
        BY <2>1, <2>4, <3>3, <4>1, <4>2, Zenon DEF ToldOf
    <3>10. memory' \in {NoMemory, MemoryTold'}
      BY <2>1, <2>4, <3>1, MemoryToldSame, Zenon
    <3> QED
      BY <3>4, <3>5, <3>7, <3>8, <3>9, <3>10, Zenon DEF RunInv
  <2> QED
    BY <2>1, <2>2, <2>3, <2>4, StepGoes, Zenon
<1>9. CASE Refuse \/ GiveUp
  <2>1. PICK op : Step(op) /\ staged' = staged /\ phase' = "ended"
    BY <1>9 DEF Refuse, Inspect, Die, GiveUp, LoaderFails
  <2> QED
    BY <2>1, StepGoes, Zenon
<1>10. CASE ProbeFails \/ ProbeEnds \/ BadOption
  <2>1. phase = "load" /\ phase' = "ended" /\ staged' = staged
    BY <1>10 DEF ProbeFails, ProbeEnds, BadOption, LoaderFails, Die
  <2> QED
    BY <2>1 DEF HandInv, Live
<1>11. CASE Loaded
  <2>1. /\ phase = "load" /\ phase' = "verify" /\ staged' = staged /\ segment' = segment
        /\ loader # "" /\ todo = <<>> /\ UNCHANGED <<case, loader, todo, where, told, memory>>
    BY <1>11 DEF Loaded, LoaderReturns
  <2>2. RunInv /\ staged = <<>>
    BY <2>1 DEF HandInv, Live
  <2>3. RunInv'
    BY <2>1, <2>2, RunSame, Zenon
  <2> QED
    BY <2>1, <2>2, <2>3 DEF HandInv
<1>12. CASE /\ Verify \/ Sort \/ KexecLoad \/ KexecLoadFails
            /\ UNCHANGED <<case, loader, todo, where, base, taken, told, memory>>
  <2>1. /\ phase \in {"verify", "sort", "kexec_load"}
        /\ phase' \in {"sort", "kexec_load", "ended"}
        /\ UNCHANGED <<case, loader, todo, where, told, memory>>
        /\ segment' = segment \/ segment' \in SortedForms(segment)
        /\ staged' = staged \/ (staged' = segment /\ segment' = segment /\ phase' = "ended")
    BY <1>12 DEF Verify, Sort, KexecLoad, KexecLoadFails
  <2>2. loader # "" /\ RunInv /\ staged = <<>> /\ todo = <<>>
    BY <2>1 DEF HandInv, Live
  <2>3. Listed(segment') = Listed(segment)
    BY <1>0, <2>1, ListedSorted
  <2>4. RunInv'
    BY <2>1, <2>2, <2>3, RunSame, Zenon
  <2> QED
    BY <2>1, <2>2, <2>4 DEF HandInv, Live
<1>13. CASE UNCHANGED lvars
  <2>1. /\ UNCHANGED <<case, loader, todo, where, told, memory>> /\ segment' = segment
        /\ phase' = phase /\ staged' = staged
    BY <1>13 DEF lvars, vars
  <2>2. RunInv => RunInv'
    BY <2>1, RunSame, Zenon
  <2> QED
    BY <2>1, <2>2 DEF HandInv, Live
<1> QED
  BY <1>1, <1>2, <1>3, <1>4, <1>5, <1>6, <1>7, <1>8, <1>9, <1>10, <1>11, <1>12, <1>13, Zenon DEF LNext

-----------------------------------------------------------------------------
(* What the new kernel is handed *)

(* multiboot_x86_load: the command lines of the modules, one after         *)
(* another, end with the information.                                      *)
LEMMA LineSums ==
  ASSUME NEW c, Table(c.modules), \A i \in DOMAIN c.modules : c.modules[i].line \in Nat,
         MbiBase(c) \in Nat
  PROVE  /\ MbiBytes(c) \in Nat /\ MbiBase(c) + ModListSize * Len(c.modules) <= MbiBytes(c)
         /\ \A i \in DOMAIN c.modules :
              /\ LinesAt(c, i) \in Nat
              /\ MbiBase(c) + ModListSize * Len(c.modules) <= LinesAt(c, i)
              /\ LinesAt(c, i) + c.modules[i].line <= MbiBytes(c)
<1> DEFINE n == Len(c.modules)
           line(i) == c.modules[i].line
           M == MbiBase(c) + ModListSize * Len(c.modules)
           g == [i \in 1..n |-> [y \in Nat |-> y + line(i)]]
           C(h) == [i \in 0..n |-> IF i = 0 THEN 0 ELSE h[i - 1] + line(i)]
           D(h) == [j \in 1..n |-> IF j = 1 THEN M ELSE h[j - 1] + line(j - 1)]
<1>1. n \in Nat /\ DOMAIN c.modules = 1..n
  BY DEF Table
<1>2. \A i \in 1..n : line(i) \in Nat
  BY <1>1
<1>3. M \in Nat
  BY <1>1 DEF ModListSize
<1> HIDE DEF n, line, M
<1>4. \A i \in 1..n : \A y \in Nat : g[i][y] = y + line(i) /\ g[i][y] \in Nat
  BY <1>2
<1> HIDE DEF g
<1>5. PICK f \in [0..n -> Nat] : Follows(f, g, 0, n)
  <2>1. 0 \in Nat
    OBVIOUS
  <2> QED
    BY <1>1, <1>4, <2>1, RecursionExists, Zenon
<1>6. \A i \in 1..n : i - 1 \in 0..n /\ i \in 0..n
  BY <1>1
<1>7. f[0] = 0 /\ \A i \in 1..n : f[i] = f[i - 1] + line(i)
  <2>1. f[0] = 0 /\ \A i \in 1..n : f[i] = g[i][f[i - 1]]
    BY <1>5, Zenon DEF Follows
  <2>2. \A i \in 1..n : f[i - 1] \in Nat
    BY <1>5, <1>6, Zenon
  <2> QED
    BY <1>4, <2>1, <2>2, Zenon
<1>8. f = C(f)
  <2>1. \A i \in 0..n : f[i] = IF i = 0 THEN 0 ELSE f[i - 1] + line(i)
    <3>1. \A i \in 0..n : i # 0 => i \in 1..n
      BY <1>1
    <3> QED
      BY <1>7, <3>1, Zenon
  <2> QED
    BY <2>1, Zenon
<1>9. PICK k : k = C(k) /\ ModuleLines(c) = k[n]
  <2>1. \E k_1 : k_1 = C(k_1)
    BY <1>8
  <2> QED
    BY <2>1, Zenon DEF ModuleLines, n, line
<1>10. k[0] = 0 /\ \A i \in 1..n : k[i] = k[i - 1] + line(i)
  <2>1. \A i \in 0..n : k[i] = IF i = 0 THEN 0 ELSE k[i - 1] + line(i)
    BY <1>9, Zenon
  <2>2. 0 \in 0..n /\ \A i \in 1..n : i # 0
    BY <1>1
  <2> QED
    BY <1>6, <2>1, <2>2, Zenon
<1>11. \A i \in 0..n - 1 : i + 1 \in 1..n /\ (i + 1) - 1 = i
  BY <1>1
<1>12. \A i \in 0..n : k[i] \in Nat
  <2>1. ASSUME NEW i \in 0..n - 1, k[i] \in Nat PROVE k[i + 1] \in Nat
    <3>1. k[i + 1] = k[i] + line(i + 1) /\ line(i + 1) \in Nat
      BY <1>2, <1>10, <1>11, Zenon
    <3> QED
      BY <2>1, <3>1
  <2>2. k[0] \in Nat
    BY <1>10
  <2> QED
    BY <1>1, <2>1, <2>2, AllStay, Zenon
<1>13. \A a \in 0..n : k[a] <= k[n]
  <2> DEFINE T == {j \in 0..n : \A a \in 0..j : k[a] <= k[j]}
  <2>1. 0 \in T
    <3>1. 0 \in 0..n /\ \A a \in 0..0 : a = 0
      BY <1>1
    <3>2. k[0] <= k[0]
      BY <1>10
    <3> QED
      BY <3>1, <3>2, Zenon
  <2>2. ASSUME NEW i \in 0..n - 1, i \in T PROVE i + 1 \in T
    <3>1. k[i + 1] = k[i] + line(i + 1) /\ line(i + 1) \in Nat
      BY <1>2, <1>10, <1>11, Zenon
    <3>2. i + 1 \in 0..n /\ i \in 0..n /\ \A a \in 0..i + 1 : a \in 0..i \/ a = i + 1
      BY <1>1
    <3>3. \A a \in 0..i : a \in 0..n
      BY <1>1
    <3>4. ASSUME NEW a \in 0..i + 1 PROVE k[a] <= k[i + 1]
      <4>1. k[i] \in Nat /\ k[i + 1] \in Nat
        BY <1>12, <3>2, Zenon
      <4>2. CASE a \in 0..i
        <5>1. k[a] <= k[i] /\ k[a] \in Nat
          BY <1>12, <2>2, <3>3, <4>2, Zenon
        <5> QED
          BY <3>1, <4>1, <5>1
      <4>3. CASE a = i + 1
        BY <4>1, <4>3
      <4> QED
        BY <3>2, <4>2, <4>3, Zenon
    <3> QED
      BY <3>2, <3>4, Zenon
  <2> HIDE DEF T
  <2>3. n \in T
    BY <1>1, <2>1, <2>2, UpTo, Zenon
  <2> QED
    BY <2>3, Zenon DEF T
<1> DEFINE e == [j \in 1..n |-> M + f[j - 1]]
<1>14. e = D(e)
  <2>1. ASSUME NEW j \in 1..n PROVE e[j] = IF j = 1 THEN M ELSE e[j - 1] + line(j - 1)
    <3>1. CASE j = 1
      <4>1. f[j - 1] = 0
        BY <1>7, <3>1
      <4> QED
        BY <1>3, <3>1, <4>1
    <3>2. CASE j # 1
      <4>1. j - 1 \in 1..n /\ j - 1 \in 0..n
        BY <1>1, <3>2
      <4>2. f[j - 1] = f[(j - 1) - 1] + line(j - 1) /\ line(j - 1) \in Nat
        BY <1>2, <1>7, <4>1, Zenon
      <4>3. e[j - 1] = M + f[(j - 1) - 1] /\ e[j] = M + f[j - 1]
        BY <4>1
      <4>4. f[(j - 1) - 1] \in Nat
        <5>1. (j - 1) - 1 \in 0..n
          BY <1>1, <4>1
        <5> QED
          BY <1>5, <5>1, Zenon
      <4> QED
        BY <1>3, <3>2, <4>2, <4>3, <4>4
    <3> QED
      BY <3>1, <3>2
  <2> QED
    BY <2>1, Zenon
<1>15. PICK h : h = D(h) /\ \A i : LinesAt(c, i) = h[i]
  <2>1. \E h_1 : h_1 = D(h_1)
    BY <1>14
  <2> QED
    BY <2>1, Zenon DEF LinesAt, n, line, M
<1>16. \A j \in 1..n : h[j] = IF j = 1 THEN M ELSE h[j - 1] + line(j - 1)
  BY <1>15, Zenon
<1>17. \A m \in 1..n : h[m] = M + k[m - 1]
  <2> SUFFICES ASSUME NEW m \in 1..n PROVE h[m] = M + k[m - 1]
    OBVIOUS
  <2> DEFINE T == {j \in 0..m : j = 0 \/ h[j] = M + k[j - 1]}
  <2>1. m \in Nat /\ 0 \in T
    BY <1>1
  <2>2. ASSUME NEW i \in 0..m - 1, i \in T PROVE i + 1 \in T
    <3>1. i + 1 \in 1..n /\ i + 1 \in 0..m /\ (i + 1) - 1 = i
      BY <1>1
    <3>2. CASE i = 0
      <4>1. h[1] = M /\ k[0] = 0
        BY <1>10, <1>16, <3>1, <3>2
      <4>2. h[i + 1] = M + k[(i + 1) - 1]
        BY <1>3, <3>2, <4>1
      <4> QED
        BY <3>1, <4>2, Zenon
    <3>3. CASE i # 0
      <4>1. i \in 1..n /\ i + 1 # 1 /\ i - 1 \in 0..n
        BY <1>1, <3>3
      <4>2. h[i + 1] = h[i] + line(i)
        BY <1>16, <3>1, <4>1, Zenon
      <4>3. h[i] = M + k[i - 1]
        BY <2>2, <3>3, Zenon
      <4>4. k[i] = k[i - 1] + line(i) /\ k[i - 1] \in Nat /\ line(i) \in Nat
        BY <1>2, <1>10, <1>12, <4>1, Zenon
      <4>5. h[i + 1] = M + k[i]
        BY <1>3, <4>2, <4>3, <4>4
      <4>6. h[i + 1] = M + k[(i + 1) - 1]
        BY <3>1, <4>5, Zenon
      <4> QED
        BY <3>1, <4>6, Zenon
    <3> QED
      BY <3>2, <3>3
  <2> HIDE DEF T
  <2>3. m \in T
    BY <2>1, <2>2, UpTo, Zenon
  <2>4. m # 0
    OBVIOUS
  <2> QED
    BY <2>3, <2>4, Zenon DEF T
<1>18. ASSUME NEW i \in 1..n
       PROVE  LinesAt(c, i) \in Nat /\ M <= LinesAt(c, i) /\ LinesAt(c, i) + line(i) <= M + ModuleLines(c)
  <2>1. LinesAt(c, i) = M + k[i - 1]
    <3>1. LinesAt(c, i) = h[i]
      BY <1>15
    <3>2. h[i] = M + k[i - 1]
      BY <1>17, Zenon
    <3> QED
      BY <3>1, <3>2, Zenon
  <2>2. k[i] = k[i - 1] + line(i) /\ k[i] <= k[n]
    <3>1. i \in 0..n
      BY <1>6
    <3>2. k[i] = k[i - 1] + line(i)
      BY <1>10
    <3>3. k[i] <= k[n]
      BY <1>13, <3>1
    <3> QED
      BY <3>2, <3>3
  <2>3. n \in 0..n
    BY <1>1
  <2>4. k[i - 1] \in Nat /\ k[i] \in Nat /\ line(i) \in Nat /\ k[n] \in Nat
    BY <1>2, <1>6, <1>12, <2>3, Zenon
  <2>5. ModuleLines(c) = k[n]
    BY <1>9, Zenon
  <2> QED
    BY <1>3, <2>1, <2>2, <2>4, <2>5
<1>19. MbiBytes(c) = M + ModuleLines(c)
  BY DEF M, MbiBytes
<1>20. ModuleLines(c) \in Nat
  <2>1. n \in 0..n
    BY <1>1
  <2> QED
    BY <1>9, <1>12, <2>1, Zenon
<1>21. MbiBytes(c) \in Nat /\ M <= MbiBytes(c)
  BY <1>3, <1>19, <1>20
<1>22. \A i \in DOMAIN c.modules :
         LinesAt(c, i) \in Nat /\ M <= LinesAt(c, i) /\ LinesAt(c, i) + line(i) <= MbiBytes(c)
  BY <1>1, <1>18, <1>19, Zenon
<1> QED
  BY <1>21, <1>22, Zenon DEF M, line

(* The memory maps the kernels are given show every range as it is, when   *)
(* there are no more than the parameters of a Linux kernel have room for.  *)
Shown(s) ==
  \E j \in DOMAIN memory.map :
    LET m == memory.map[j]
    IN m.type = "RAM" /\ m.addr <= s.mem /\ End(s) <= m.addr + m.size

LEMMA ShownInMap ==
  ASSUME RamFits, MapFits, memory # NoMemory, memory = MemoryTold,
         NEW s, WellPlaced(s)
  PROVE  Shown(s)
<1>1. PICK i \in Ram : Ranges[i].start <= s.mem /\ End(s) <= Ranges[i].end
  BY PlacedInRam DEF InRam
<1>2. /\ Ranges[i].start \in Nat /\ Ranges[i].end \in Nat /\ Ranges[i].type = "RAM"
      /\ i \in DOMAIN Ranges /\ DOMAIN Ranges = 1..Len(Ranges) /\ Len(Ranges) \in Nat
  BY RangeFields, RangesAssumption DEF Ram
<1>3. SystemMemory.map = [j \in 1..Lesser(Len(Ranges), E820Max) |->
                            [addr |-> Ranges[j].start, size |-> Ranges[j].end - Ranges[j].start,
                             type |-> Ranges[j].type]]
  BY DEF SystemMemory, MapEntries
<1>4. MultibootMemory.map =
        [j \in DOMAIN Ranges |->
           [addr |-> Ranges[j].start, size |-> Ranges[j].end - Ranges[j].start,
            type |-> IF Ranges[j].type = "RAM" THEN "RAM" ELSE "not RAM"]]
  BY DEF MultibootMemory
<1>5. 1..Lesser(Len(Ranges), E820Max) = DOMAIN Ranges
  <2>1. Len(Ranges) \in Nat /\ E820Max \in Nat
    BY <1>2 DEF E820Max
  <2>2. Lesser(Len(Ranges), E820Max) = Len(Ranges)
    BY <2>1 DEF Lesser, MapFits
  <2> QED
    BY <1>2, <2>2, Zenon
<1>6. memory = SystemMemory \/ memory = MultibootMemory
  BY DEF MemoryTold
<1>7. /\ i \in DOMAIN memory.map /\ memory.map[i].type = "RAM"
      /\ memory.map[i].addr = Ranges[i].start
      /\ memory.map[i].size = Ranges[i].end - Ranges[i].start
  <2>1. CASE memory = SystemMemory
    <3>1. memory.map = [j \in DOMAIN Ranges |->
                          [addr |-> Ranges[j].start, size |-> Ranges[j].end - Ranges[j].start,
                           type |-> Ranges[j].type]]
      BY <1>3, <1>5, <2>1, Zenon
    <3> QED
      BY <1>2, <3>1
  <2>2. CASE memory = MultibootMemory
    <3>1. memory.map =
            [j \in DOMAIN Ranges |->
               [addr |-> Ranges[j].start, size |-> Ranges[j].end - Ranges[j].start,
                type |-> IF Ranges[j].type = "RAM" THEN "RAM" ELSE "not RAM"]]
      BY <1>4, <2>2, Zenon
    <3>2. memory.map[i] = [addr |-> Ranges[i].start, size |-> Ranges[i].end - Ranges[i].start,
                           type |-> IF Ranges[i].type = "RAM" THEN "RAM" ELSE "not RAM"]
      BY <1>2, <3>1, Zenon
    <3>3. memory.map[i] = [addr |-> Ranges[i].start, size |-> Ranges[i].end - Ranges[i].start,
                           type |-> "RAM"]
      BY <1>2, <3>2, Zenon
    <3>4. i \in DOMAIN memory.map
      BY <1>2, <3>1, Zenon
    <3> QED
      BY <3>3, <3>4
  <2> QED
    BY <1>6, <2>1, <2>2
<1>8. memory.map[i].addr + memory.map[i].size = Ranges[i].end
  BY <1>2, <1>7
<1> QED
  BY <1>1, <1>7, <1>8, Zenon DEF Shown

LEMMA AboveIsRam ==
  ASSUME RamFits, MapFits
  PROVE  \E j \in DOMAIN Ranges :
           Ranges[j].type = "RAM" /\ Ranges[j].start <= Kern32Base
             /\ Kern32Base + 1024 * MultibootMemory.above <= Ranges[j].end
<1> DEFINE low == {i \in Ram : Ranges[i].start <= Kern32Base}
           tops == {0} \cup {Ranges[i].end - Kern32Base : i \in low}
           top == CHOOSE x \in tops : \A t \in tops : t <= x
<1>1. \A i \in Ram : Ranges[i].start \in Nat /\ Ranges[i].end \in Nat /\ Ranges[i].end < Word
  BY RangeFields DEF RamFits
<1>2. MultibootMemory.above = top \div 1024
  BY DEF MultibootMemory
<1>3. Word \in Nat /\ Kern32Base \in Nat
  BY PageAssumption DEF Kern32Base
<1>4. \A x \in tops : x = 0 \/ \E i \in low : x = Ranges[i].end - Kern32Base
  OBVIOUS
<1>5. \E x \in tops : \A t \in tops : t <= x
  <2> DEFINE P == {x \in tops : x >= 0}
  <2>1. tops \subseteq Int /\ \A x \in tops : x <= Word
    <3>1. ASSUME NEW x \in tops PROVE x \in Int /\ x <= Word
      <4>1. CASE x = 0
        BY <1>3, <4>1
      <4>2. CASE \E i \in low : x = Ranges[i].end - Kern32Base
        <5>1. PICK i \in low : x = Ranges[i].end - Kern32Base
          BY <4>2
        <5>2. i \in Ram
          OBVIOUS
        <5>3. PICK e \in Nat : e = Ranges[i].end /\ e < Word
          BY <1>1, <5>2, Zenon
        <5> QED
          BY <1>3, <5>1, <5>3
      <4> QED
        BY <1>4, <4>1, <4>2, Zenon
    <3> QED
      BY <3>1, Zenon
  <2>2. 0 \in tops
    OBVIOUS
  <2> HIDE DEF tops
  <2>3. P \subseteq Nat /\ 0 \in P /\ \A x \in P : x <= Word
    <3>1. \A x \in Int : x >= 0 => x \in Nat
      OBVIOUS
    <3>2. 0 >= 0
      OBVIOUS
    <3> QED
      BY <2>1, <2>2, <3>1, <3>2, Zenon
  <2>4. PICK x \in P : \A y \in P : y <= x
    <3> HIDE DEF P
    <3>1. P # {}
      BY <2>3, Zenon
    <3> QED
      BY <1>3, <2>3, <3>1, Greatest, Zenon
  <2>5. x \in tops /\ x \in Nat
    BY <2>3, <2>4
  <2>6. \A y \in tops : y <= x
    BY <2>1, <2>4, <2>5
  <2> QED
    BY <2>5, <2>6, Zenon
<1>6. top \in tops /\ \A t \in tops : t <= top
  <2> HIDE DEF tops
  <2> QED
    BY <1>5, Zenon
<1> HIDE DEF top
<1>7. PICK i \in low : top = Ranges[i].end - Kern32Base /\ top >= 0
  <2>1. top >= 0
    BY <1>6
  <2>2. PICK h \in low : Kern32Base <= Ranges[h].end
    BY DEF MapFits
  <2>3. Ranges[h].end - Kern32Base \in tops
    BY <2>2
  <2>4. CASE top = 0
    <3>1. Ranges[h].end - Kern32Base <= 0
      <4> HIDE DEF tops
      <4> QED
        BY <1>6, <2>3, <2>4, Zenon
    <3>2. Ranges[h].end \in Nat
      BY <1>1, <2>2
    <3>3. Ranges[h].end - Kern32Base = 0
      BY <1>3, <2>2, <3>1, <3>2
    <3> QED
      BY <2>1, <2>2, <2>4, <3>3, Zenon
  <2>5. CASE top # 0
    BY <1>4, <1>6, <2>1, <2>5, Zenon
  <2> QED
    BY <2>4, <2>5
<1>8. Ranges[i].end \in Nat /\ i \in DOMAIN Ranges /\ Ranges[i].type = "RAM"
      /\ Ranges[i].start <= Kern32Base
  BY <1>1 DEF Ram
<1>9. PICK n \in Nat : n = top
  BY <1>3, <1>7, <1>8
<1>10. PICK k \in Nat \ {0} : k = 1024
  OBVIOUS
<1>11. n \div k \in Nat /\ (n \div k) * k <= n
  BY Quotient
<1>12. PICK m \in Nat : m = MultibootMemory.above /\ m * k <= n
  <2>1. MultibootMemory.above = n \div k
    BY <1>2, <1>9, <1>10
  <2> QED
    BY <1>11, <2>1, Zenon
<1>13. PICK e \in Nat : e = Ranges[i].end
  BY <1>8, Zenon
<1>14. Kern32Base + 1024 * m <= e
  <2>1. 1024 * m <= n
    BY <1>10, <1>12
  <2> QED
    BY <1>3, <1>7, <1>9, <1>13, <2>1
<1>15. Kern32Base + 1024 * MultibootMemory.above <= Ranges[i].end
  BY <1>12, <1>13, <1>14
<1> QED
  BY <1>8, <1>15

(* What a bzImage's segments are for shows in where they lie.              *)
LowSegment(x) == LowMin <= x.mem /\ x.mem <= LowMax /\ End(x) <= LowMax
RamdiskSegment(k, x) == InitrdBase <= x.mem /\ x.mem + x.bufsz <= InitrdMax(k)

LEMMA LowRequest ==
  ASSUME NEW r, BufferRequest(r), r.min = LowMin, r.max = LowMax, NEW x, WellPlaced(x),
         NEW mem, HoleAt(r, mem), x = NewSegment(r.bufsz, mem, r.memsz)
  PROVE  LowSegment(x)
<1>0. x.mem = mem
  BY DEF NewSegment
<1>1. PICK at \in Nat : at = mem /\ at = x.mem /\ at % Page = 0
  BY <1>0 DEF HoleAt, WellPlaced
<1>2. PICK size \in Nat : size = x.memsz /\ size % Page = 0 /\ size < r.memsz + Page
  <2>1. r.memsz \in ULong
    BY DEF BufferRequest
  <2>2. x.memsz = RoundedSize(r.memsz)
    BY DEF NewSegment
  <2>3. RoundedSize(r.memsz) \in Nat /\ RoundedSize(r.memsz) % Page = 0
        /\ RoundedSize(r.memsz) < r.memsz + Page
    BY <2>1, RoundedSizeFacts
  <2> QED
    BY <2>2, <2>3, Zenon
<1>3. r.memsz \in Nat /\ LowMax \in Nat /\ LowMin \in Nat
  <2>1. r.memsz \in ULong
    BY DEF BufferRequest
  <2> QED
    BY <2>1, PageAssumption DEF ULong, LowMax, LowMin
<1>4. LowMin <= at /\ at + r.memsz <= LowMax
  BY <1>1 DEF HoleAt
<1>5. LowMax % Page = 0 /\ Page \in Nat \ {0}
  BY WordAssumption, PageAssumption
<1>6. (at + size) % Page = 0 /\ at + size \in Nat
  <2>1. (at + size) % Page = 0
    BY <1>1, <1>2, <1>5, SumMod, Zenon
  <2>2. at + size \in Nat
    BY <1>1, <1>2
  <2> QED
    BY <2>1, <2>2, Zenon
<1>7. at + size < LowMax + Page
  BY <1>2, <1>3, <1>4, <1>5
<1>8. at + size <= LowMax
  BY <1>3, <1>5, <1>6, <1>7, MultipleOrder
<1>9. at <= LowMax
  BY <1>3, <1>4
<1>10. End(x) = at + size
  BY <1>1, <1>2 DEF End
<1> QED
  BY <1>1, <1>4, <1>8, <1>9, <1>10, Zenon DEF LowSegment

LEMMA BzSegment ==
  ASSUME NEW c \in Cases, NEW t \in BzLoaders, Accepts(t, c.file), NEW s \in Asked(t, c),
         NEW x, WellPlaced(x), MadeBy(s, x)
  PROVE  \/ LowSegment(x) \/ x.mem = Kern32Base \/ RamdiskSegment(KernelOf(t, c), x)
         \/ ~(KernelOf(t, c).protocol >= 512) /\ x.mem = SetupBase
<1>1. \/ s \in {PurgatoryBuffer(t, c), SetupStep(t, c), KernelSegment(t, c)}
      \/ s = InitrdBuffer(t, c) /\ RamdiskOf(t, c) >= 0
  <2>1. t # "elf-x86" /\ t # "multiboot-x86" /\ t # "nbi-x86"
    BY DEF BzLoaders
  <2> QED
    BY <2>1, AskedSplit, Zenon
<1>2. x = NewSegment(s.request.bufsz, x.mem, s.request.memsz)
  BY Zenon DEF MadeBy, SegmentOf
<1>3. CASE s = PurgatoryBuffer(t, c)
  <2> DEFINE r == PurgatoryRequest(t, c)
  <2>1. s.op = "buffer" /\ s.request = r
    BY <1>3 DEF PurgatoryBuffer, BufferOf
  <2>2. BufferRequest(r) /\ r.min = LowMin /\ r.max = LowMax
    <3>1. WellLinked(c.purgatory)
      BY Accepted, Zenon
    <3> QED
      BY <3>1, PurgatoryRequestType, Zenon
  <2> HIDE DEF r
  <2>3. HoleAt(r, x.mem) /\ x = NewSegment(r.bufsz, x.mem, r.memsz)
    BY <1>2, <2>1, Zenon DEF MadeBy, Settled
  <2> QED
    BY <2>2, <2>3, LowRequest, Zenon
<1>4. CASE s = SetupStep(t, c)
  <2> DEFINE r == Plain(SetupSize(t, c), 16, LowMin, LowMax, -1)
  <2>1. CASE KernelOf(t, c).protocol >= 512
    <3>1. s.op = "buffer" /\ s.request = r
      BY <1>4, <2>1, SetupFacts, Zenon
    <3>2. SetupSize(t, c) \in ULong
      BY KernelType, Zenon DEF SetupSize
    <3>3. 16 \in Nat /\ LowMin \in Nat /\ LowMax \in ULong
      BY WordFacts
    <3>4. BufferRequest(r) /\ r.min = LowMin /\ r.max = LowMax
      BY <3>2, <3>3, LowRounds, PlainRequest DEF Plain
    <3> HIDE DEF r
    <3>5. HoleAt(r, x.mem) /\ x = NewSegment(r.bufsz, x.mem, r.memsz)
      BY <1>2, <3>1, Zenon DEF MadeBy, Settled
    <3> QED
      BY <3>4, <3>5, LowRequest, Zenon
  <2>2. CASE ~(KernelOf(t, c).protocol >= 512)
    <3>1. s.op = "segment" /\ s.request.base = SetupBase
      BY <1>4, <2>2, SetupFacts, Zenon
    <3> QED
      BY <2>2, <3>1, Zenon DEF MadeBy, Settled
  <2> QED
    BY <2>1, <2>2
<1>5. CASE s = KernelSegment(t, c)
  <2>1. s.op = "segment" /\ s.request.base = Kern32Base
    BY <1>5 DEF KernelSegment, SegmentAt
  <2> QED
    BY <2>1, Zenon DEF MadeBy, Settled
<1>6. CASE s = InitrdBuffer(t, c) /\ RamdiskOf(t, c) >= 0
  <2> DEFINE size == RamdiskOf(t, c)
             max == InitrdMax(KernelOf(t, c))
             r == Plain(size, 4096, InitrdBase, max, -1)
  <2>1. s.op = "buffer" /\ s.request = r
    BY <1>6 DEF InitrdBuffer, BufferOf
  <2>2. size \in ULong /\ max \in ULong
    BY <1>6, KernelType, Zenon
  <2> HIDE DEF size, max
  <2>3. /\ r.bufsz = size /\ r.memsz = size /\ r.min = InitrdBase /\ r.max = max
    BY DEF Plain
  <2> HIDE DEF r
  <2>4. HoleAt(r, x.mem) /\ x.bufsz = Lesser(r.bufsz, r.memsz)
    <3>1. PICK at : at = x.mem
      OBVIOUS
    <3>2. x = NewSegment(r.bufsz, at, r.memsz)
      BY <1>2, <2>1, <3>1, Zenon
    <3>3. x.bufsz = Lesser(r.bufsz, r.memsz)
      BY <3>2 DEF NewSegment
    <3> QED
      BY <2>1, <3>3, Zenon DEF MadeBy, Settled
  <2>5. Lesser(size, size) = size
    BY DEF Lesser
  <2>6. InitrdBase <= x.mem /\ x.mem + x.bufsz <= max
    BY <2>3, <2>4, <2>5, Zenon DEF HoleAt
  <2> QED
    BY <2>6, Zenon DEF RamdiskSegment, max
<1> QED
  BY <1>1, <1>3, <1>4, <1>5, <1>6, Zenon

(* What the invariants say once a kernel is staged.                        *)
LEMMA StagedFacts ==
  ASSUME LoadInv, HandInv, staged # <<>>
  PROVE  /\ case \in Cases /\ Accepts(loader, case.file) /\ staged \in Seq(Segment)
         /\ staged = segment /\ todo = <<>> /\ RunInv
<1>1. Live /\ phase = "ended"
  BY DEF HandInv, Live
<1>2. staged = segment /\ todo = <<>>
  BY <1>1 DEF HandInv
<1>3. loader # ""
  BY <1>1, <1>2 DEF HandInv
<1>4. RunInv
  BY <1>1, <1>3 DEF HandInv
<1> QED
  BY <1>2, <1>3, <1>4 DEF LoadInv

LEMMA StagedListed ==
  ASSUME LoadInv, HandInv, staged # <<>>, NEW i \in DOMAIN staged
  PROVE  staged[i] \in Listed(segment) /\ Proper(staged[i]) /\ WellPlaced(staged[i])
<1>1. staged = segment /\ RunInv
  BY StagedFacts, Zenon
<1>2. staged[i] \in Listed(segment)
  BY <1>1, Zenon DEF Listed
<1> QED
  BY <1>1, <1>2, Zenon DEF RunInv, Proper

(* The step that gave a part its place.                                    *)
LEMMA PartOf ==
  ASSUME LoadInv, HandInv, staged # <<>>, NEW p \in DOMAIN where
  PROVE  \E s \in Asked(loader, case) :
           /\ s.part = p /\ Settled(s, where[p]) /\ Typed(s)
           /\ s.request.memsz > 0 => SegmentOf(s, where[p]) \in Listed(segment)
<1>1. RunInv /\ case \in Cases /\ Accepts(loader, case.file)
  BY StagedFacts, Zenon
<1>2. PICK s \in Asked(loader, case) :
        /\ s.part = p /\ Settled(s, where[p])
        /\ s.request.memsz > 0 => SegmentOf(s, where[p]) \in Listed(segment)
  BY <1>1, Zenon DEF RunInv, Lies
<1>3. Typed(s)
  BY <1>1, AskedTyped, Zenon
<1> QED
  BY <1>2, <1>3, Zenon

LEMMA LowPurgatory ==
  ASSUME LoadInv, HandInv, staged # <<>>, "purgatory" \in DOMAIN where, loader \in BzLoaders
  PROVE  LET at == where["purgatory"]
             memsz == RelRequest(case.purgatory, 0, 0, 1).memsz
         IN at \in Nat /\ LowMin <= at /\ memsz \in Nat /\ at + memsz <= LowMax
<1> DEFINE r == PurgatoryRequest(loader, case)
<1>0. case \in Cases /\ Accepts(loader, case.file)
  BY StagedFacts, Zenon
<1>1. PICK s \in Asked(loader, case) : s.part = "purgatory" /\ Settled(s, where["purgatory"])
  BY PartOf, Zenon
<1>2. s = PurgatoryBuffer(loader, case) /\ WellLinked(case.purgatory)
  BY <1>0, <1>1, AskedPart, Accepted, Zenon
<1>3. s.op = "buffer" /\ s.request = r
  BY <1>2 DEF PurgatoryBuffer, BufferOf
<1>4. /\ BufferRequest(r) /\ r.min = LowMin /\ r.max = LowMax
      /\ r.memsz = RelRequest(case.purgatory, 0, 0, 1).memsz
  BY <1>2, PurgatoryRequestType, Zenon
<1>5. HoleAt(r, where["purgatory"])
  BY <1>1, <1>3, Zenon DEF Settled
<1> HIDE DEF r
<1>6. r.memsz \in Nat
  BY <1>4, PageAssumption DEF BufferRequest, ULong
<1> QED
  BY <1>4, <1>5, <1>6, Zenon DEF HoleAt

LEMMA LowPart ==
  ASSUME LoadInv, HandInv, staged # <<>>, NEW p \in DOMAIN where, loader \in BzLoaders,
         p \in {"setup", "purgatory"}
  PROVE  where[p] \in Nat /\ LowMin <= where[p] /\ where[p] <= LowMax
<1>0. case \in Cases /\ Accepts(loader, case.file)
  BY StagedFacts, Zenon
<1>1. CASE p = "purgatory"
  <2>1. PICK m \in Nat : where[p] \in Nat /\ LowMin <= where[p] /\ where[p] + m <= LowMax
    BY <1>1, LowPurgatory, Zenon
  <2> QED
    BY <2>1 DEF LowMax
<1>2. CASE p = "setup"
  <2>1. PICK s \in Asked(loader, case) : s.part = p /\ Settled(s, where[p])
    BY PartOf, Zenon
  <2>2. s = SetupStep(loader, case)
    BY <1>0, <1>2, <2>1, AskedPart, Zenon
  <2>3. CASE KernelOf(loader, case).protocol >= 512
    <3> DEFINE size == SetupSize(loader, case)
    <3>1. s.op = "buffer" /\ s.request = Plain(size, 16, LowMin, LowMax, -1)
      BY <2>2, <2>3, SetupFacts, Zenon
    <3>2. size \in ULong
      BY <1>0, KernelType, Zenon DEF SetupSize
    <3>3. HoleAt(Plain(size, 16, LowMin, LowMax, -1), where[p])
      BY <2>1, <3>1, Zenon DEF Settled
    <3> HIDE DEF size
    <3>4. where[p] \in Nat /\ LowMin <= where[p] /\ where[p] + size <= LowMax
      BY <3>3 DEF HoleAt, Plain
    <3> QED
      BY <3>2, <3>4, PageAssumption DEF ULong, LowMax
  <2>4. CASE ~(KernelOf(loader, case).protocol >= 512)
    <3>1. where[p] = SetupBase
      BY <2>1, <2>2, <2>4, SetupFacts, Zenon DEF Settled
    <3> QED
      BY <3>1 DEF SetupBase, LowMin, LowMax
  <2> QED
    BY <2>3, <2>4
<1> QED
  BY <1>1, <1>2

LEMMA RamdiskPart ==
  ASSUME LoadInv, HandInv, staged # <<>>, "initrd" \in DOMAIN where
  PROVE  loader \in BzLoaders /\ where["initrd"] \in Nat /\ InitrdBase <= where["initrd"]
<1>0. case \in Cases /\ Accepts(loader, case.file)
  BY StagedFacts, Zenon
<1>1. PICK s \in Asked(loader, case) : s.part = "initrd" /\ Settled(s, where["initrd"])
  BY PartOf, Zenon
<1>2. s = InitrdBuffer(loader, case) /\ loader \in BzLoaders
  BY <1>0, <1>1, AskedPart, Zenon
<1>3. s.op = "buffer" /\ s.request.min = InitrdBase
  BY <1>2 DEF InitrdBuffer, BufferOf, Plain
<1> QED
  BY <1>1, <1>2, <1>3, Zenon DEF Settled, HoleAt

(* Real-mode code, purgatory and a ramdisk are where a Linux kernel looks  *)
(* for them.                                                               *)
LEMMA InLimits ==
  ASSUME LoadInv, HandInv, staged # <<>>
  PROVE  /\ "setup" \in DOMAIN where =>
              /\ where["setup"] <= where["purgatory"]
              /\ KernelOf(loader, case).protocol >= 512 =>
                   \A i \in StagedAt("setup") \cup StagedAt("purgatory") : LowSegment(staged[i])
         /\ "initrd" \in DOMAIN where =>
              \A i \in StagedAt("initrd") : RamdiskSegment(KernelOf(loader, case), staged[i])
<1>0. case \in Cases /\ Accepts(loader, case.file) /\ todo = <<>> /\ RunInv
  BY StagedFacts, Zenon
<1>1. ASSUME loader \in BzLoaders, NEW i \in DOMAIN staged
      PROVE  \/ LowSegment(staged[i]) \/ staged[i].mem = Kern32Base
             \/ RamdiskSegment(KernelOf(loader, case), staged[i])
             \/ ~(KernelOf(loader, case).protocol >= 512) /\ staged[i].mem = SetupBase
  <2>1. Proper(staged[i]) /\ WellPlaced(staged[i])
    BY StagedListed, Zenon
  <2>2. PICK s \in Asked(loader, case) : MadeBy(s, staged[i])
    BY <1>1, <2>1, Zenon DEF Proper
  <2> QED
    BY <1>0, <1>1, <2>1, <2>2, BzSegment, Zenon
<1>2. LowMax < Kern32Base /\ Kern32Base < InitrdBase /\ LowMax \in Nat /\ InitrdBase \in Nat
      /\ Kern32Base \in Nat /\ SetupBase \in Nat /\ SetupBase < InitrdBase
  BY DEF LowMax, Kern32Base, InitrdBase, SetupBase
<1>3. ASSUME "setup" \in DOMAIN where
      PROVE  /\ where["setup"] <= where["purgatory"]
             /\ KernelOf(loader, case).protocol >= 512 =>
                  \A i \in StagedAt("setup") \cup StagedAt("purgatory") : LowSegment(staged[i])
  <2>1. loader \in BzLoaders
    <3>1. PICK s \in Asked(loader, case) : s.part = "setup"
      BY <1>3, PartOf, Zenon
    <3> QED
      BY <1>0, <3>1, AskedPart, Zenon
  <2>2. "purgatory" \in DOMAIN where /\ where["purgatory"] >= where["setup"]
    <3>1. DOMAIN todo = {}
      BY <1>0
    <3> QED
      BY <1>0, <1>3, <3>1, Zenon DEF RunInv, SetupBelow
  <2>3. ASSUME NEW p \in {"setup", "purgatory"}, NEW i \in StagedAt(p),
               KernelOf(loader, case).protocol >= 512
        PROVE  LowSegment(staged[i])
    <3>1. p \in DOMAIN where
      BY <1>3, <2>2
    <3>2. i \in DOMAIN staged /\ staged[i].mem = where[p]
      BY DEF StagedAt
    <3>3. where[p] \in Nat /\ where[p] <= LowMax
      BY <2>1, <3>1, LowPart, Zenon
    <3>4. staged[i].mem # Kern32Base /\ ~(InitrdBase <= staged[i].mem)
      BY <1>2, <3>2, <3>3
    <3> QED
      BY <1>1, <2>1, <2>3, <3>2, <3>4, Zenon DEF RamdiskSegment
  <2>4. where["setup"] \in Nat /\ where["purgatory"] \in Nat
    BY <1>3, <2>1, <2>2, LowPart, Zenon
  <2>5. where["setup"] <= where["purgatory"]
    BY <2>2, <2>4
  <2> QED
    BY <2>3, <2>5, Zenon
<1>4. ASSUME "initrd" \in DOMAIN where, NEW i \in StagedAt("initrd")
      PROVE  RamdiskSegment(KernelOf(loader, case), staged[i])
  <2>1. loader \in BzLoaders /\ where["initrd"] \in Nat /\ InitrdBase <= where["initrd"]
    BY <1>4, RamdiskPart, Zenon
  <2>2. i \in DOMAIN staged /\ staged[i].mem = where["initrd"]
    BY DEF StagedAt
  <2>3. /\ staged[i].mem # Kern32Base /\ staged[i].mem # SetupBase
        /\ ~(staged[i].mem <= LowMax)
    BY <1>2, <2>1, <2>2
  <2> QED
    BY <1>1, <2>1, <2>2, <2>3, Zenon DEF LowSegment
<1> QED
  BY <1>3, <1>4, Zenon

(* What the kernel is told of lies in the data of a segment of its part.   *)
Found(t) ==
  t.len > 0 =>
    \E i \in StagedAt(t.part) :
      staged[i].mem <= t.ptr /\ t.ptr + t.len <= staged[i].mem + staged[i].bufsz
AllFound(T) == \A t \in T : Found(t)

LEMMA PartHolds ==
  ASSUME LoadInv, HandInv, staged # <<>>, NEW p \in DOMAIN where,
         NEW b, \A s \in Asked(loader, case) : s.part = p => s = b,
         NEW off \in Nat, NEW len \in Nat, NEW ptr, ptr = where[p] + off,
         off + len <= b.request.bufsz, b.request.bufsz <= b.request.memsz
  PROVE  AllFound(Told(ptr, len, p))
<1> DEFINE x == [ptr |-> ptr, len |-> len, part |-> p]
           at == where[p]
<1>1. b \in Asked(loader, case) /\ Settled(b, at) /\ Typed(b)
      /\ (b.request.memsz > 0 => SegmentOf(b, at) \in Listed(segment))
  <2>1. PICK s \in Asked(loader, case) :
          /\ s.part = p /\ Settled(s, where[p]) /\ Typed(s)
          /\ s.request.memsz > 0 => SegmentOf(s, where[p]) \in Listed(segment)
    BY PartOf, Zenon
  <2>2. s = b
    BY <2>1, Zenon
  <2> QED
    BY <2>1, <2>2, Zenon
<1>2. at \in Int
  <2>1. CASE b.op = "segment" /\ SegmentRequest(b.request)
    BY <1>1, <2>1, Zenon DEF Settled, SegmentRequest
  <2>2. CASE b.op = "buffer" /\ BufferRequest(b.request)
    <3>1. at \in Nat
      BY <1>1, <2>2, Zenon DEF Settled, HoleAt
    <3> HIDE DEF at
    <3> QED
      BY <3>1
  <2> QED
    BY <1>1, <2>1, <2>2, Zenon DEF Typed
<1>3. b.request.bufsz \in Nat /\ b.request.memsz \in Nat
  <2>1. b.request.bufsz \in ULong /\ b.request.memsz \in ULong
    BY <1>1, Zenon DEF Typed, SegmentRequest, BufferRequest
  <2> QED
    BY <2>1, PageAssumption DEF ULong
<1> HIDE DEF at
<1>4. ptr = at + off
  BY Zenon DEF at
<1>5. SUFFICES ASSUME len > 0
               PROVE  \E i \in StagedAt(p) : staged[i].mem <= ptr
                                             /\ ptr + len <= staged[i].mem + staged[i].bufsz
  <2>1. x.ptr = ptr /\ x.len = len /\ x.part = p
    OBVIOUS
  <2>2. Told(ptr, len, p) = {x}
    BY DEF Told
  <2> HIDE DEF x
  <2>3. Found(x)
    BY <1>5, <2>1, Zenon DEF Found
  <2> QED
    BY <2>2, <2>3, Zenon DEF AllFound
<1>6. b.request.memsz > 0
  BY <1>3, <1>5
<1>7. PICK y : y = SegmentOf(b, at)
  OBVIOUS
<1>8. y.mem = at /\ y.bufsz = b.request.bufsz
  <2>1. y = NewSegment(b.request.bufsz, at, b.request.memsz)
    BY <1>7 DEF SegmentOf
  <2>2. y.mem = at /\ y.bufsz = Lesser(b.request.bufsz, b.request.memsz)
    BY <2>1 DEF NewSegment
  <2>3. Lesser(b.request.bufsz, b.request.memsz) = b.request.bufsz
    BY <1>3 DEF Lesser
  <2> QED
    BY <2>2, <2>3, Zenon
<1>9. PICK i \in DOMAIN segment : segment[i] = y
  <2>1. y \in Listed(segment)
    BY <1>1, <1>6, <1>7, Zenon
  <2> QED
    BY <2>1, Zenon DEF Listed
<1>10. i \in DOMAIN staged /\ staged[i] = y
  <2>1. staged = segment
    BY StagedFacts, Zenon
  <2> QED
    BY <1>9, <2>1, Zenon
<1>11. i \in StagedAt(p)
  BY <1>8, <1>10, Zenon DEF StagedAt, at
<1>12. y.mem <= ptr /\ ptr + len <= y.mem + y.bufsz
  BY <1>2, <1>3, <1>4, <1>8
<1> QED
  BY <1>10, <1>11, <1>12, Zenon

LEMMA AllFoundUnion ==
  ASSUME NEW S, NEW T, AllFound(S), AllFound(T)
  PROVE  AllFound(S \cup T)
BY Zenon DEF AllFound

(* A place in purgatory that is part of its data.                          *)
LEMMA PurgatoryFound ==
  ASSUME LoadInv, HandInv, staged # <<>>, "purgatory" \in DOMAIN where,
         NEW name \in DOMAIN case.purgatory.symbols,
         \/ name \in Entries
         \/ CanSet(case.purgatory, name, 4)
  PROVE  AllFound(Purgatory(name))
<1> DEFINE o == case.purgatory
           at == where["purgatory"]
           j == o.symbols[name].shndx
           ptr == SymbolAddr(o, at, name)
           b == PurgatoryBuffer(loader, case)
           size == RelRequest(o, 0, 0, 1).bufsz
<1>0. case \in Cases /\ Accepts(loader, case.file)
  BY StagedFacts, Zenon
<1>1. WellLinked(o) /\ Holds(o, at)
  BY PurgatorySettled, Zenon
<1>2. /\ j \in Loads(o) /\ ptr \in Nat /\ SectionAddr(o, at)[j] <= ptr
      /\ ptr + o.symbols[name].size <= EndOf(o, at, j)
      /\ name \in Entries =>
           o.shdrs[j].type # "NOBITS" /\ ptr < EndOf(o, at, j)
  BY <1>1, SymbolInside, Zenon
<1>3. j \in DOMAIN o.shdrs /\ o.shdrs[j].alloc
  BY <1>2, Zenon DEF Loads
<1>4. Inside(o, at, j)
  BY <1>1, <1>3, SectionInside, Zenon
<1>5. o.shdrs[j].type # "NOBITS" /\ (ptr < EndOf(o, at, j) \/ ptr + 4 <= EndOf(o, at, j))
  <2>1. CASE name \in Entries
    BY <1>2, <2>1, Zenon
  <2>2. CASE CanSet(case.purgatory, name, 4)
    <3>1. o.symbols[name].size = 4 /\ o.shdrs[j].type # "NOBITS"
      BY <2>2, Zenon DEF CanSet
    <3> QED
      BY <1>2, <3>1, Zenon
  <2> QED
    BY <2>1, <2>2
<1>6. /\ SectionAddr(o, at)[j] \in Nat /\ at <= SectionAddr(o, at)[j]
      /\ EndOf(o, at, j) \in Nat /\ EndOf(o, at, j) <= at + size
  BY <1>4, <1>5, Zenon DEF Inside
<1>7. at \in Nat
  BY <1>1, Zenon DEF Holds
<1>8. b.request = PurgatoryRequest(loader, case)
  BY DEF PurgatoryBuffer, BufferOf
<1>9. b.request.bufsz = size /\ b.request.bufsz <= b.request.memsz
  BY <1>1, <1>8, PurgatoryRequestType, Zenon
<1>10. \A s \in Asked(loader, case) : s.part = "purgatory" => s = b
  BY <1>0, AskedPart, Zenon
<1>11. size \in Nat
  <2>1. b.request.bufsz \in ULong
    BY <1>1, <1>8, PurgatoryRequestType, Zenon DEF BufferRequest
  <2>2. size \in ULong
    BY <1>9, <2>1, Zenon
  <2> HIDE DEF size
  <2> QED
    BY <2>2, PageAssumption DEF ULong
<1>12. Purgatory(name) = Told(ptr, 1, "purgatory")
  BY Zenon DEF Purgatory, At
<1> HIDE DEF o, at, j, ptr, b, size
<1>13. PICK off \in Nat : ptr = at + off /\ off + 1 <= size
  <2>1. PICK a \in Nat : a = SectionAddr(o, at)[j]
    BY <1>6
  <2>2. PICK e \in Nat : e = EndOf(o, at, j)
    BY <1>6
  <2>3. ptr \in Nat /\ a <= ptr /\ at <= a /\ e <= at + size /\ (ptr < e \/ ptr + 4 <= e)
    BY <1>2, <1>5, <1>6, <2>1, <2>2, Zenon
  <2>4. ptr - at \in Nat /\ ptr = at + (ptr - at) /\ (ptr - at) + 1 <= size
    BY <1>7, <1>11, <2>3
  <2> QED
    BY <2>4
<1>14. ptr = where["purgatory"] + off
  BY <1>13, Zenon DEF at
<1>15. off + 1 <= b.request.bufsz /\ 1 \in Nat
  BY <1>9, <1>13
<1>16. AllFound(Told(ptr, 1, "purgatory"))
  BY <1>9, <1>10, <1>14, <1>15, PartHolds, Zenon
<1> QED
  BY <1>12, <1>16, Zenon

LEMMA NothingFound == AllFound({})
BY Zenon DEF AllFound

(* The far pointer to the hook of a debug start: its entry is on a         *)
(* paragraph below 1MB and the hook in the 64KB above.                     *)
LEMMA FarPointer ==
  ASSUME NEW e \in Nat, NEW p \in Nat, e % 16 = 0, e < 1048576, e <= p, p < e + 65536
  PROVE  16 * ((e \div 16) % 65536) + ((p - e) % 65536) = p
<1>1. PICK q \in Nat : q = e \div 16 /\ 16 * q = e /\ q < 65536
  BY Z3
<1>2. q % 65536 = q
  BY <1>1, Z3
<1>3. (p - e) % 65536 = p - e
  BY Z3
<1> QED
  BY <1>1, <1>2, <1>3

(* The entry is at the beginning of a paragraph, and its hook follows.     *)
LEMMA HookPlace ==
  ASSUME NEW o, WellLinked(o), NEW at, Holds(o, at),
         "entry16_debug" \in DOMAIN o.symbols, "entry16_debug_pre32" \in DOMAIN o.symbols
  PROVE  LET e == SymbolAddr(o, at, "entry16_debug")
             p == SymbolAddr(o, at, "entry16_debug_pre32")
         IN /\ e \in Nat /\ p \in Nat /\ e % 16 = 0 /\ e <= p /\ p < e + 65536
            /\ e <= at + RelRequest(o, 0, 0, 1).memsz
<1>1. PICK y : y = o.symbols["entry16_debug"]
  OBVIOUS
<1>2. PICK z : z = o.symbols["entry16_debug_pre32"]
  OBVIOUS
<1>3. SymbolLinked(o, "entry16_debug") /\ SymbolLinked(o, "entry16_debug_pre32")
  BY Zenon DEF WellLinked
<1>4. PICK j : j = y.shndx
  OBVIOUS
<1>5. /\ j \in DOMAIN o.shdrs /\ o.shdrs[j].alloc /\ y.value \in Nat
      /\ o.shdrs[j].align % 16 = 0 /\ y.value % 16 = 0 /\ y.value <= o.shdrs[j].size
  <2>1. y.size \in Nat /\ y.value \in Nat /\ y.value + y.size <= o.shdrs[j].size
        /\ j \in DOMAIN o.shdrs
    BY <1>1, <1>3, <1>4 DEF SymbolLinked
  <2>2. o.shdrs[j].size \in Nat
    BY <2>1 DEF WellLinked
  <2>3. o.shdrs[j].alloc /\ o.shdrs[j].align % 16 = 0 /\ y.value % 16 = 0
    BY <1>1, <1>3, <1>4 DEF SymbolLinked
  <2> QED
    BY <2>1, <2>2, <2>3
<1>6. z.shndx = j /\ z.value \in Nat /\ y.value <= z.value /\ z.value < y.value + 65536
  <2>1. "entry16_debug_pre32" \in DebugHooks
    BY DEF DebugHooks
  <2> QED
    BY <1>1, <1>2, <1>3, <1>4, <2>1 DEF SymbolLinked
<1>7. PICK a \in Nat : a = SectionAddr(o, at)[j] /\ a % o.shdrs[j].align = 0
  BY <1>5, SectionInside, Zenon DEF Inside
<1>8. SymbolAddr(o, at, "entry16_debug") = a + y.value
  BY <1>1, <1>4, <1>7, Zenon DEF SymbolAddr
<1>9. SymbolAddr(o, at, "entry16_debug_pre32") = a + z.value
  <2>1. SymbolAddr(o, at, "entry16_debug_pre32") = SectionAddr(o, at)[z.shndx] + z.value
    BY <1>2, Zenon DEF SymbolAddr
  <2> QED
    BY <1>6, <1>7, <2>1
<1>10. a % 16 = 0
  <2>1. 16 \in Nat \ {0} /\ o.shdrs[j].align \in Nat \ {0}
    BY <1>5 DEF WellLinked
  <2> QED
    BY <1>5, <1>7, <2>1, ModChain
<1>11. (a + y.value) % 16 = 0
  <2>1. 16 \in Nat \ {0}
    OBVIOUS
  <2> QED
    BY <1>5, <1>10, <2>1, SumMod
<1>12. a + y.value <= at + RelRequest(o, 0, 0, 1).memsz
  <2>1. EndOf(o, at, j) = a + o.shdrs[j].size
    BY <1>7 DEF EndOf
  <2>2. EndOf(o, at, j) \in Nat /\ EndOf(o, at, j) <= at + RelRequest(o, 0, 0, 1).memsz
    BY <1>5, SectionInside, Zenon DEF Inside
  <2>3. o.shdrs[j].size \in Nat
    BY <1>5 DEF WellLinked
  <2>4. at + RelRequest(o, 0, 0, 1).memsz \in Nat
    BY RoomType DEF RelRequest, Holds
  <2> QED
    BY <1>5, <2>1, <2>2, <2>3, <2>4
<1>13. /\ a + y.value \in Nat /\ a + z.value \in Nat /\ a + y.value <= a + z.value
       /\ a + z.value < a + y.value + 65536
  BY <1>5, <1>6
<1>14. PICK e : e = a + y.value
  OBVIOUS
<1>15. PICK p : p = a + z.value
  OBVIOUS
<1>16. /\ e \in Nat /\ p \in Nat /\ e % 16 = 0 /\ e <= p /\ p < e + 65536
       /\ e <= at + RelRequest(o, 0, 0, 1).memsz
  BY <1>11, <1>12, <1>13, <1>14, <1>15
<1>17. e = SymbolAddr(o, at, "entry16_debug") /\ p = SymbolAddr(o, at, "entry16_debug_pre32")
  BY <1>8, <1>9, <1>14, <1>15, Zenon
<1> QED
  BY <1>16, <1>17

LEMMA HookAddr ==
  ASSUME LoadInv, HandInv, staged # <<>>, "purgatory" \in DOMAIN where, loader \in BzLoaders,
         "entry16_debug" \in DOMAIN case.purgatory.symbols,
         "entry16_debug_pre32" \in DOMAIN case.purgatory.symbols
  PROVE  DebugTold = Purgatory("entry16_debug_pre32") \cup Purgatory("entry16_debug_first32")
<1>1. WellLinked(case.purgatory) /\ Holds(case.purgatory, where["purgatory"])
  BY PurgatorySettled, Zenon
<1>2. PICK e : e = SymbolAddr(case.purgatory, where["purgatory"], "entry16_debug")
  OBVIOUS
<1>3. PICK p : p = SymbolAddr(case.purgatory, where["purgatory"], "entry16_debug_pre32")
  OBVIOUS
<1>4. PICK top : top = where["purgatory"] + RelRequest(case.purgatory, 0, 0, 1).memsz
  OBVIOUS
<1>5. /\ e \in Nat /\ p \in Nat /\ e % 16 = 0 /\ e <= p /\ p < e + 65536 /\ e <= top
  <2>1. LET x == SymbolAddr(case.purgatory, where["purgatory"], "entry16_debug")
            y == SymbolAddr(case.purgatory, where["purgatory"], "entry16_debug_pre32")
        IN /\ x \in Nat /\ y \in Nat /\ x % 16 = 0 /\ x <= y /\ y < x + 65536
           /\ x <= where["purgatory"] + RelRequest(case.purgatory, 0, 0, 1).memsz
    BY <1>1, HookPlace
  <2> QED
    BY <1>2, <1>3, <1>4, <2>1
<1>6. top \in Nat /\ top <= LowMax
  BY <1>4, LowPurgatory
<1>7. e < 1048576
  BY <1>5, <1>6 DEF LowMax
<1>8. 16 * ((e \div 16) % 65536) + ((p - e) % 65536) = p
  BY <1>5, <1>7, FarPointer
<1>9. DebugTold = Told(16 * ((e \div 16) % 65536) + ((p - e) % 65536), 1, "purgatory")
                    \cup Purgatory("entry16_debug_first32")
  BY <1>2, <1>3 DEF DebugTold, At
<1>10. Purgatory("entry16_debug_pre32") = Told(p, 1, "purgatory")
  BY <1>3, Zenon DEF Purgatory, At
<1>11. Told(16 * ((e \div 16) % 65536) + ((p - e) % 65536), 1, "purgatory")
         = Purgatory("entry16_debug_pre32")
  BY <1>8, <1>10
<1> QED
  BY <1>9, <1>11

(* The kernel do_bzImage_load starts in 32-bit mode, or an entry of        *)
(* purgatory, with its hooks.                                              *)
LEMMA BzEntryFound ==
  ASSUME LoadInv, HandInv, staged # <<>>, loader \in BzLoaders, SymbolsFound,
         Needs(loader, case) \subseteq DOMAIN where
  PROVE  AllFound(EntryTold(KernelOf(loader, case)))
<1> DEFINE k == KernelOf(loader, case)
<1>0. case \in Cases /\ Accepts(loader, case.file)
  BY StagedFacts, Zenon
<1>1. {"purgatory", "kernel"} \subseteq DOMAIN where
  <2>1. {"purgatory", "kernel"} \subseteq Needs(loader, case)
    BY DEF Needs
  <2> QED
    BY <2>1, Zenon
<1>2. Referred(loader, case) \subseteq DOMAIN case.purgatory.symbols
  BY Zenon DEF SymbolsFound
<1>3. /\ case.realMode => "entry16" \in DOMAIN case.purgatory.symbols
      /\ case.debug =>
           {"entry16_debug", "entry16_debug_pre32", "entry16_debug_first32"}
             \subseteq DOMAIN case.purgatory.symbols
  <2>1. Referred(loader, case) =
          {"stack_end"} \cup {n \in {"entry16"} : case.realMode}
            \cup {n \in {"entry16_debug"} \cup DebugHooks : case.debug}
    BY DEF Referred, BzLoaders
  <2> QED
    BY <1>2, <2>1 DEF DebugHooks
<1>4. CASE ~case.debug /\ ~case.realMode
  <2> DEFINE b == KernelSegment(loader, case)
             size == Kern32Size(k)
  <2>1. \A s \in Asked(loader, case) : s.part = "kernel" => s = b
    BY <1>0, AskedPart, Zenon
  <2>2. PICK s \in Asked(loader, case) : s.part = "kernel" /\ Settled(s, where["kernel"])
    BY <1>1, PartOf, Zenon
  <2>3. Whole(k)
    <3>1. loader # "elf-x86" /\ loader # "multiboot-x86" /\ loader # "nbi-x86"
      BY DEF BzLoaders
    <3> QED
      BY <2>2, <3>1, AskedSplit, Zenon
  <2>4. size \in ULong
    BY <1>0, <2>3, KernelType, Zenon
  <2>5. /\ b.op = "segment" /\ b.request.base = Kern32Base
        /\ b.request.bufsz = size /\ b.request.memsz = size
    BY DEF KernelSegment, SegmentAt
  <2>6. where["kernel"] = Kern32Base
    BY <2>1, <2>2, <2>5, Zenon DEF Settled
  <2>7. EntryTold(k) = Told(Kern32Base, size, "kernel")
    BY <1>4, Zenon DEF EntryTold, Kern32Size
  <2> HIDE DEF b, size
  <2>8. size \in Nat /\ 0 \in Nat /\ 0 + size <= size /\ size <= size
    BY <2>4, PageAssumption DEF ULong
  <2>9. Kern32Base = where["kernel"] + 0
    BY <2>6 DEF Kern32Base
  <2>10. AllFound(Told(Kern32Base, size, "kernel"))
    BY <1>1, <2>1, <2>5, <2>8, <2>9, PartHolds, Zenon
  <2> QED
    BY <2>7, <2>10, Zenon
<1>5. CASE ~case.debug /\ case.realMode
  <2>1. AllFound(Purgatory("entry16"))
    <3>1. "entry16" \in Entries
      BY DEF Entries
    <3> QED
      BY <1>1, <1>3, <1>5, <3>1, PurgatoryFound, Zenon
  <2>2. EntryTold(k) = Purgatory("entry16")
    BY <1>5, Zenon DEF EntryTold
  <2> QED
    BY <2>1, <2>2, Zenon
<1>6. CASE case.debug
  <2>1. ASSUME NEW n \in {"entry16_debug", "entry16_debug_pre32", "entry16_debug_first32"}
        PROVE  AllFound(Purgatory(n))
    <3>1. n \in Entries
      BY DEF Entries, DebugHooks
    <3>2. n \in DOMAIN case.purgatory.symbols
      BY <1>3, <1>6
    <3> QED
      BY <1>1, <3>1, <3>2, PurgatoryFound, Zenon
  <2>2. DebugTold = Purgatory("entry16_debug_pre32") \cup Purgatory("entry16_debug_first32")
    <3>1. /\ "entry16_debug" \in DOMAIN case.purgatory.symbols
          /\ "entry16_debug_pre32" \in DOMAIN case.purgatory.symbols
      BY <1>3, <1>6
    <3> QED
      BY <1>1, <3>1, HookAddr, Zenon
  <2>3. EntryTold(k) = Purgatory("entry16_debug") \cup DebugTold
    BY <1>6, Zenon DEF EntryTold
  <2>4. /\ AllFound(Purgatory("entry16_debug")) /\ AllFound(Purgatory("entry16_debug_pre32"))
        /\ AllFound(Purgatory("entry16_debug_first32"))
    BY <2>1
  <2> QED
    BY <2>2, <2>3, <2>4, AllFoundUnion, Zenon
<1> QED
  BY <1>4, <1>5, <1>6, Zenon

LEMMA SetupFound ==
  ASSUME LoadInv, HandInv, staged # <<>>, loader \in BzLoaders, "setup" \in DOMAIN where,
         NEW off \in Nat, NEW len \in Nat, NEW ptr, ptr = where["setup"] + off,
         off + len <= Kern16Size(KernelOf(loader, case)) + LineOf(loader, case)
  PROVE  AllFound(Told(ptr, len, "setup"))
<1> DEFINE size == Kern16Size(KernelOf(loader, case)) + LineOf(loader, case)
           b == SetupStep(loader, case)
<1>0. case \in Cases /\ Accepts(loader, case.file)
  BY StagedFacts, Zenon
<1>1. \A s \in Asked(loader, case) : s.part = "setup" => s = b
  BY <1>0, AskedPart, Zenon
<1>2. b.request.bufsz = size /\ b.request.memsz = size
  BY SetupFacts, Zenon DEF SetupSize
<1>3. size \in ULong
  BY <1>0, KernelType, Zenon
<1>4. off + len <= size
  OBVIOUS
<1> HIDE DEF size, b
<1>5. size <= size
  BY <1>3, PageAssumption DEF ULong
<1>6. off + len <= b.request.bufsz /\ b.request.bufsz <= b.request.memsz
  BY <1>2, <1>4, <1>5, Zenon
<1> QED
  BY <1>1, <1>6, PartHolds, Zenon

(* The map in the parameters is no longer than they have room for.         *)
LEMMA MapLength ==
  /\ E820Entry * MapEntries \in Nat /\ E820Map \in Nat
  /\ E820Map + E820Entry * MapEntries <= FakedParamSize
<1>1. Len(Ranges) \in Nat
  BY RangesAssumption
<1> QED
  BY <1>1 DEF MapEntries, Lesser, E820Entry, E820Map, E820Max, FakedParamSize

LEMMA BzFound ==
  ASSUME LoadInv, HandInv, staged # <<>>, loader \in BzLoaders, SymbolsFound, SetupFits,
         Needs(loader, case) \subseteq DOMAIN where
  PROVE  AllFound(BzTold(KernelOf(loader, case), LineOf(loader, case), RamdiskOf(loader, case)))
<1> DEFINE k == KernelOf(loader, case)
           line == LineOf(loader, case)
           initrd == RamdiskOf(loader, case)
           head == Kern16Size(k)
           cmd == IF k.protocol < 514 THEN {}
                  ELSE Told(At("setup") + Kern16Size(k), Lesser(line, CommandLineSize), "setup")
           disk == IF initrd < 0 THEN {} ELSE Told(At("initrd"), initrd, "initrd")
           map == IF case.realMode THEN {} ELSE MapTold("setup")
<1>0. case \in Cases /\ Accepts(loader, case.file)
  BY StagedFacts, Zenon
<1>1. /\ "setup" \in DOMAIN where
      /\ initrd >= 0 => "initrd" \in DOMAIN where
  <2>1. "setup" \in Needs(loader, case) /\ (initrd >= 0 => "initrd" \in Needs(loader, case))
    BY DEF Needs
  <2> QED
    BY <2>1, Zenon
<1>2. /\ line \in ULong /\ head \in Nat /\ initrd \in Int
      /\ initrd >= 0 => initrd \in ULong
  BY <1>0, KernelType, Zenon
<1>3. BzTold(k, line, initrd) =
        Told(At("setup"), head, "setup") \cup (cmd \cup disk) \cup map \cup EntryTold(k)
  BY Zenon DEF BzTold, LinuxTold
<1>4. where["setup"] \in Nat
  BY <1>1, LowPart
<1> HIDE DEF line, initrd, head
<1>5. line \in Nat
  BY <1>2, PageAssumption DEF ULong
<1>6. AllFound(Told(At("setup"), head, "setup"))
  <2>1. At("setup") = where["setup"] + 0
    BY <1>4 DEF At
  <2>2. 0 \in Nat /\ 0 + head <= head + line
    BY <1>2, <1>5
  <2>3. 0 + head <= Kern16Size(KernelOf(loader, case)) + LineOf(loader, case)
    BY <2>2, Zenon DEF head, line
  <2> QED
    BY <1>1, <1>2, <2>1, <2>2, <2>3, SetupFound, Zenon
<1>7. AllFound(cmd)
  <2>1. CASE k.protocol < 514
    <3>1. cmd = {}
      BY <2>1
    <3> QED
      BY <3>1, NothingFound, Zenon
  <2>2. CASE ~(k.protocol < 514)
    <3> DEFINE len == Lesser(line, CommandLineSize)
    <3>1. cmd = Told(At("setup") + head, len, "setup")
      BY <2>2 DEF head
    <3>2. len \in Nat /\ head + len <= head + line
      BY <1>2, <1>5 DEF Lesser, CommandLineSize
    <3> HIDE DEF len
    <3>3. At("setup") + head = where["setup"] + head
      BY Zenon DEF At
    <3>4. head + len <= Kern16Size(KernelOf(loader, case)) + LineOf(loader, case)
      BY <3>2, Zenon DEF head, line
    <3>5. AllFound(Told(At("setup") + head, len, "setup"))
      BY <1>1, <1>2, <3>2, <3>3, <3>4, SetupFound, Zenon
    <3> QED
      BY <3>1, <3>5, Zenon
  <2> QED
    BY <2>1, <2>2
<1>8. AllFound(disk)
  <2>1. CASE initrd < 0
    <3>1. disk = {}
      BY <2>1
    <3> QED
      BY <3>1, NothingFound, Zenon
  <2>2. CASE ~(initrd < 0)
    <3> DEFINE b == InitrdBuffer(loader, case)
    <3>1. disk = Told(At("initrd"), initrd, "initrd")
      BY <2>2
    <3>2. initrd >= 0 /\ initrd \in Nat
      BY <1>2, <2>2
    <3>3. \A s \in Asked(loader, case) : s.part = "initrd" => s = b
      BY <1>0, AskedPart, Zenon
    <3>4. b.request.bufsz = initrd /\ b.request.memsz = initrd
      BY DEF InitrdBuffer, BufferOf, Plain, initrd
    <3>5. "initrd" \in DOMAIN where
      BY <1>1, <3>2
    <3>6. where["initrd"] \in Nat
      BY <3>5, RamdiskPart
    <3>7. At("initrd") = where["initrd"] + 0
      BY <3>6 DEF At
    <3> HIDE DEF b
    <3>8. 0 \in Nat /\ 0 + initrd <= b.request.bufsz /\ b.request.bufsz <= b.request.memsz
      BY <3>2, <3>4
    <3>9. AllFound(Told(At("initrd"), initrd, "initrd"))
      BY <3>2, <3>3, <3>5, <3>7, <3>8, PartHolds, Zenon
    <3> QED
      BY <3>1, <3>9, Zenon
  <2> QED
    BY <2>1, <2>2
<1>9. AllFound(EntryTold(k))
  BY BzEntryFound, Zenon
<1>10. AllFound(map)
  <2>1. CASE case.realMode
    <3>1. map = {}
      BY <2>1
    <3> QED
      BY <3>1, NothingFound, Zenon
  <2>2. CASE ~case.realMode
    <3> DEFINE len == E820Entry * MapEntries
    <3>1. map = Told(At("setup") + E820Map, len, "setup")
      BY <2>2, Zenon DEF MapTold
    <3>2. len \in Nat /\ E820Map \in Nat
      BY MapLength, Zenon
    <3>3. E820Map + len <= head
      BY <2>2, Zenon DEF SetupFits, head
    <3> HIDE DEF len
    <3>4. E820Map + len <= head + line
      BY <1>2, <1>5, <3>2, <3>3
    <3>5. E820Map + len <= Kern16Size(KernelOf(loader, case)) + LineOf(loader, case)
      BY <3>4, Zenon DEF head, line
    <3>6. At("setup") + E820Map = where["setup"] + E820Map
      BY Zenon DEF At
    <3>7. AllFound(Told(At("setup") + E820Map, len, "setup"))
      BY <1>1, <3>2, <3>5, <3>6, SetupFound, Zenon
    <3> QED
      BY <3>1, <3>7, Zenon
  <2> QED
    BY <2>1, <2>2
<1> HIDE DEF cmd, disk, map
<1>11. AllFound(BzTold(k, line, initrd))
  BY <1>3, <1>6, <1>7, <1>8, <1>9, <1>10, Zenon DEF AllFound
<1> QED
  BY <1>11, Zenon DEF line, initrd

(* A buffer as large in the file as in memory.                             *)
LEMMA BufferFound ==
  ASSUME LoadInv, HandInv, staged # <<>>, NEW p \in DOMAIN where,
         NEW b, \A s \in Asked(loader, case) : s.part = p => s = b, b.op = "buffer",
         NEW size \in Nat, b.request.bufsz = size, b.request.memsz = size
  PROVE  /\ where[p] \in Nat
         /\ \A off, len \in Nat : off + len <= size => AllFound(Told(where[p] + off, len, p))
         /\ \A len \in Nat : len <= size => AllFound(Told(where[p], len, p))
<1>1. where[p] \in Nat
  <2>1. PICK s \in Asked(loader, case) : s.part = p /\ Settled(s, where[p])
    BY PartOf, Zenon
  <2>2. s = b
    BY <2>1, Zenon
  <2> QED
    BY <2>1, <2>2, Zenon DEF Settled, HoleAt
<1>2. b.request.bufsz <= b.request.memsz
  OBVIOUS
<1>3. ASSUME NEW off \in Nat, NEW len \in Nat, off + len <= size, NEW ptr, ptr = where[p] + off
      PROVE  AllFound(Told(ptr, len, p))
  <2>1. off + len <= b.request.bufsz
    BY <1>3, Zenon
  <2> QED
    BY <1>2, <1>3, <2>1, PartHolds, Zenon
<1>4. \A len \in Nat : len <= size => 0 + len <= size
  OBVIOUS
<1>5. where[p] = where[p] + 0 /\ 0 \in Nat
  BY <1>1
<1>6. \A len \in Nat : len <= size => AllFound(Told(where[p], len, p))
  BY <1>3, <1>4, <1>5, Zenon
<1>7. \A off, len \in Nat : off + len <= size => AllFound(Told(where[p] + off, len, p))
  BY <1>3, Zenon
<1> QED
  BY <1>1, <1>6, <1>7, Zenon

(* elf_x86_load: the notes or the faked parameters.                        *)
LEMMA ElfFound ==
  ASSUME LoadInv, HandInv, staged # <<>>, loader = "elf-x86", SymbolsFound,
         Needs(loader, case) \subseteq DOMAIN where
  PROVE  AllFound(ElfTold)
<1>0. case \in Cases /\ Accepts(loader, case.file)
  BY StagedFacts, Zenon
<1>1. case.file.kind = "elf" /\ FileNumbers(case)
  BY <1>0, Accepted, Zenon
<1>2. case.cmdline \in Nat
  BY <1>1 DEF FileNumbers
<1>3. CASE case.style = "elf"
  <2> DEFINE b == NotesBuffer(case)
             size == BootNotesSize + AlignUp(case.cmdline, 4)
             len == BootNotesSize + case.cmdline
  <2>1. "notes" \in DOMAIN where /\ "purgatory" \in DOMAIN where
    <3>1. "notes" \in Needs(loader, case) /\ "purgatory" \in Needs(loader, case)
      BY <1>3 DEF Needs
    <3> QED
      BY <3>1, Zenon
  <2>2. \A s \in Asked(loader, case) : s.part = "notes" => s = b
    BY <1>0, AskedPart, Zenon
  <2>3. b.op = "buffer" /\ b.request.bufsz = size /\ b.request.memsz = size
    BY DEF NotesBuffer, BufferOf, Plain
  <2>4. size \in Nat /\ len \in Nat /\ len <= size
    <3>1. 4 \in Nat \ {0}
      OBVIOUS
    <3>2. AlignUp(case.cmdline, 4) \in Nat /\ case.cmdline <= AlignUp(case.cmdline, 4)
      BY <1>2, <3>1, AlignUpFacts, Zenon
    <3> QED
      BY <1>2, <3>2 DEF BootNotesSize
  <2>5. ElfTold = Told(where["notes"], len, "notes") \cup Purgatory("stack_arg32_2")
    BY <1>3, Zenon DEF ElfTold, At
  <2> HIDE DEF b, size, len
  <2>6. AllFound(Told(where["notes"], len, "notes"))
    BY <2>1, <2>2, <2>3, <2>4, BufferFound, Zenon
  <2>7. CanSet(case.purgatory, "stack_arg32_2", 4)
    <3>1. <<"stack_arg32_2", 4>> \in Written(loader, case)
      BY <1>3 DEF Written
    <3>2. PICK w : w = <<"stack_arg32_2", 4>>
      OBVIOUS
    <3>3. w[1] = "stack_arg32_2" /\ w[2] = 4
      BY <3>2
    <3>4. CanSet(case.purgatory, w[1], w[2])
      BY <3>1, <3>2, Zenon DEF SymbolsFound
    <3> QED
      BY <3>3, <3>4
  <2>8. "stack_arg32_2" \in DOMAIN case.purgatory.symbols
    BY <2>7, Zenon DEF CanSet
  <2>9. AllFound(Purgatory("stack_arg32_2"))
    BY <2>1, <2>7, <2>8, PurgatoryFound, Zenon
  <2> QED
    BY <2>5, <2>6, <2>9, AllFoundUnion, Zenon
<1>4. CASE case.style # "elf"
  <2> DEFINE b == ParamsBuffer
             len == Lesser(case.cmdline, CommandLineSize)
  <2>1. "params" \in DOMAIN where
    <3>1. "params" \in Needs(loader, case)
      BY <1>4 DEF Needs
    <3> QED
      BY <3>1, Zenon
  <2>2. \A s \in Asked(loader, case) : s.part = "params" => s = b
    BY <1>0, AskedPart, Zenon
  <2>3. b.op = "buffer" /\ b.request.bufsz = FakedParamSize /\ b.request.memsz = FakedParamSize
    BY DEF ParamsBuffer, BufferOf, Plain
  <2>4. /\ FakedParamSize \in Nat /\ len \in Nat /\ FakedCommandLine \in Nat
        /\ FakedParamSize <= FakedParamSize /\ FakedCommandLine + len <= FakedParamSize
    BY <1>2 DEF FakedParamSize, FakedCommandLine, Lesser, CommandLineSize
  <2>5. ElfTold = Told(where["params"], FakedParamSize, "params")
                    \cup Told(where["params"] + FakedCommandLine, len, "params")
                    \cup MapTold("params")
    BY <1>4, Zenon DEF ElfTold, At
  <2> HIDE DEF b, len
  <2>6. /\ AllFound(Told(where["params"], FakedParamSize, "params"))
        /\ AllFound(Told(where["params"] + FakedCommandLine, len, "params"))
    BY <2>1, <2>2, <2>3, <2>4, BufferFound, Zenon
  <2>7. AllFound(MapTold("params"))
    <3>1. MapTold("params") = Told(where["params"] + E820Map, E820Entry * MapEntries, "params")
      BY Zenon DEF MapTold, At
    <3> QED
      BY <2>1, <2>2, <2>3, <2>4, <3>1, MapLength, BufferFound, Zenon
  <2> QED
    BY <2>5, <2>6, <2>7, AllFoundUnion, Zenon
<1> QED
  BY <1>3, <1>4

(* multiboot_x86_load: the information, what its fields point to in it,    *)
(* the memory map and the modules.                                         *)
LEMMA MultibootFound ==
  ASSUME LoadInv, HandInv, staged # <<>>, loader = "multiboot-x86",
         Needs(loader, case) \subseteq DOMAIN where
  PROVE  AllFound(MultibootTold)
<1> DEFINE c == case
           n == Len(c.modules)
           line == c.cmdline
           head == MbiBase(c)
           size == MbiBytes(c)
           mbi == where["mbi"]
           mmap == IF c.file.multiboot # "memory" THEN {}
                   ELSE Told(At("mmap"), Len(Ranges) * MmapEntry, "mmap")
           module(i) == Told(mbi + head + ModListSize * (i - 1), ModListSize, "mbi")
                          \cup Told(mbi + LinesAt(c, i), c.modules[i].line, "mbi")
                          \cup Told(At(ModulePart(i)), c.modules[i].size, ModulePart(i))
<1>0. case \in Cases /\ Accepts(loader, case.file)
  BY StagedFacts, Zenon
<1>1. case.file.kind = "elf" /\ FileNumbers(case)
  BY <1>0, Accepted, Zenon
<1>2. /\ line \in Nat /\ Table(c.modules) /\ n <= 3
      /\ \A i \in DOMAIN c.modules : c.modules[i].size \in ULong /\ c.modules[i].line \in Nat
  BY <1>1 DEF FileNumbers, MaxModules
<1>3. n \in Nat /\ DOMAIN c.modules = 1..n
  BY <1>2 DEF Table
<1>4. head \in Nat /\ MbiSize + line + BootloaderName <= head
  <2>1. 4 \in Nat \ {0}
    OBVIOUS
  <2>2. MbiSize + line + BootloaderName \in Nat
    BY <1>2 DEF MbiSize, BootloaderName
  <2> QED
    BY <2>1, <2>2, AlignUpFacts, Zenon DEF MbiBase
<1>5. /\ size \in Nat /\ head + ModListSize * n <= size
      /\ \A i \in DOMAIN c.modules :
           LinesAt(c, i) \in Nat /\ LinesAt(c, i) + c.modules[i].line <= size
  BY <1>2, <1>4, LineSums, Zenon
<1>6. /\ "mbi" \in DOMAIN where
      /\ c.file.multiboot = "memory" => "mmap" \in DOMAIN where
      /\ \A i \in DOMAIN c.modules : ModulePart(i) \in DOMAIN where
  <2>1. "mbi" \in Needs(loader, case)
    BY DEF Needs
  <2>2. c.file.multiboot = "memory" => "mmap" \in Needs(loader, case)
    BY DEF Needs
  <2>3. \A i \in DOMAIN c.modules : ModulePart(i) \in Needs(loader, case)
    BY Zenon DEF Needs
  <2> QED
    BY <2>1, <2>2, <2>3, Zenon
<1>7. MultibootTold =
        Told(mbi, MbiSize, "mbi") \cup Told(mbi + MbiSize, line, "mbi")
          \cup Told(mbi + MbiSize + line, BootloaderName, "mbi") \cup mmap
          \cup UNION {module(i) : i \in DOMAIN c.modules}
  BY Zenon DEF MultibootTold, At
<1>8. /\ mbi \in Nat
      /\ \A off, len \in Nat : off + len <= size => AllFound(Told(mbi + off, len, "mbi"))
      /\ \A len \in Nat : len <= size => AllFound(Told(mbi, len, "mbi"))
  <2> DEFINE b == MbiBuffer(case)
  <2>1. \A s \in Asked(loader, case) : s.part = "mbi" => s = b
    BY <1>0, AskedPart, Zenon
  <2>2. b.op = "buffer" /\ b.request.bufsz = size /\ b.request.memsz = size
    BY DEF MbiBuffer, BufferOf, Plain
  <2> HIDE DEF b, size
  <2> QED
    BY <1>5, <1>6, <2>1, <2>2, BufferFound, Zenon
<1> HIDE DEF n, line, head, size, mbi, c
<1>9. /\ AllFound(Told(mbi, MbiSize, "mbi")) /\ AllFound(Told(mbi + MbiSize, line, "mbi"))
      /\ AllFound(Told(mbi + MbiSize + line, BootloaderName, "mbi"))
  <2>1. /\ MbiSize \in Nat /\ MbiSize <= size /\ MbiSize + line <= size
        /\ MbiSize + line \in Nat /\ BootloaderName \in Nat
        /\ (MbiSize + line) + BootloaderName <= size
        /\ mbi + MbiSize + line = mbi + (MbiSize + line)
    <3>1. line \in Nat /\ mbi \in Nat /\ head \in Nat /\ size \in Nat /\ n \in Nat
      BY <1>2, <1>3, <1>4, <1>5, <1>8, Zenon
    <3>2. head <= size
      BY <1>5, <3>1 DEF ModListSize
    <3>3. MbiSize + line + BootloaderName <= head
      BY <1>4, Zenon
    <3> QED
      BY <3>1, <3>2, <3>3 DEF MbiSize, BootloaderName
  <2>2. AllFound(Told(mbi + (MbiSize + line), BootloaderName, "mbi"))
    BY <1>8, <2>1, Zenon
  <2> QED
    BY <1>2, <1>8, <2>1, <2>2, Zenon
<1>10. AllFound(mmap)
  <2>1. CASE c.file.multiboot # "memory"
    <3>1. mmap = {}
      BY <2>1
    <3> QED
      BY <3>1, NothingFound, Zenon
  <2>2. CASE c.file.multiboot = "memory"
    <3> DEFINE b == MmapBuffer
               len == Len(Ranges) * MmapEntry
    <3>1. mmap = Told(where["mmap"], len, "mmap")
      BY <2>2 DEF At
    <3>2. \A s \in Asked(loader, case) : s.part = "mmap" => s = b
      BY <1>0, AskedPart, Zenon
    <3>3. b.op = "buffer" /\ b.request.bufsz = len /\ b.request.memsz = len
      BY DEF MmapBuffer, BufferOf, Plain
    <3>4. len \in Nat /\ len <= len
      BY RangesAssumption DEF MmapEntry
    <3> HIDE DEF b, len
    <3>5. AllFound(Told(where["mmap"], len, "mmap"))
      BY <1>6, <2>2, <3>2, <3>3, <3>4, BufferFound, Zenon
    <3> QED
      BY <3>1, <3>5, Zenon
  <2> QED
    BY <2>1, <2>2
<1>11. ASSUME NEW i \in DOMAIN c.modules PROVE AllFound(module(i))
  <2>1. i \in 1..3 /\ i \in Nat /\ i >= 1 /\ i <= n
    BY <1>2, <1>3
  <2>2. AllFound(Told(mbi + head + ModListSize * (i - 1), ModListSize, "mbi"))
    <3> DEFINE off == head + ModListSize * (i - 1)
    <3>1. off \in Nat /\ ModListSize \in Nat /\ off + ModListSize <= size
      BY <1>3, <1>4, <1>5, <2>1 DEF ModListSize
    <3>2. mbi + head + ModListSize * (i - 1) = mbi + off
      BY <1>4, <1>8, <2>1 DEF ModListSize
    <3> HIDE DEF off
    <3>3. AllFound(Told(mbi + off, ModListSize, "mbi"))
      BY <1>8, <3>1, Zenon
    <3> QED
      BY <3>2, <3>3, Zenon
  <2>3. AllFound(Told(mbi + LinesAt(c, i), c.modules[i].line, "mbi"))
    BY <1>2, <1>5, <1>8, Zenon
  <2>4. AllFound(Told(At(ModulePart(i)), c.modules[i].size, ModulePart(i)))
    <3> DEFINE b == ModuleBuffer(case, i)
               len == c.modules[i].size
               p == ModulePart(i)
    <3>1. \A s \in Asked(loader, case) : s.part = p => s = b
      BY <1>0, <2>1, AskedPart, Zenon
    <3>2. b.op = "buffer" /\ b.request.bufsz = len /\ b.request.memsz = len
      BY DEF ModuleBuffer, BufferOf, Plain, c
    <3>3. len \in ULong
      BY <1>2
    <3>4. At(p) = where[p] /\ p \in DOMAIN where
      BY <1>6, Zenon DEF At
    <3> HIDE DEF b, len, p
    <3>5. len \in Nat /\ len <= len
      BY <3>3, PageAssumption DEF ULong
    <3>6. AllFound(Told(At(p), len, p))
      BY <3>1, <3>2, <3>4, <3>5, BufferFound, Zenon
    <3> QED
      BY <3>6, Zenon DEF len, p
  <2> QED
    BY <2>2, <2>3, <2>4, AllFoundUnion, Zenon
<1> HIDE DEF mmap, module
<1>12. AllFound(UNION {module(i) : i \in DOMAIN c.modules})
  BY <1>11, Zenon DEF AllFound
<1> QED
  BY <1>7, <1>9, <1>10, <1>12, AllFoundUnion, Zenon

(* Everything the kernel was told of is where it was told.                 *)
LEMMA HandedFound ==
  ASSUME LoadInv, HandInv, staged # <<>>, SetupFits
  PROVE  AllFound(told)
<1>0. case \in Cases /\ Accepts(loader, case.file) /\ RunInv
  BY StagedFacts, Zenon
<1>1. CASE told = {}
  BY <1>1, NothingFound, Zenon
<1>2. CASE told # {}
  <2>1. told = Handed /\ SymbolsFound /\ Needs(loader, case) \subseteq DOMAIN where
    BY <1>0, <1>2, Zenon DEF RunInv, ToldOf
  <2>2. loader # "nbi-x86"
    <3>1. SUFFICES ASSUME loader = "nbi-x86" PROVE FALSE
      OBVIOUS
    <3>2. "purgatory" \in DOMAIN where
      BY <2>1, Zenon DEF SymbolsFound
    <3>3. PICK s \in Asked(loader, case) : s.part = "purgatory"
      BY <3>2, PartOf, Zenon
    <3>4. loader \notin BzLoaders /\ loader # "elf-x86" /\ loader # "multiboot-x86"
      BY <3>1 DEF BzLoaders
    <3>5. s = NbiFirst(case.file) \/ \E i \in DOMAIN case.file.segs : s = NbiSegment(case.file, i)
      BY <3>4, AskedSplit, Zenon
    <3>6. s.part = "nbi"
      BY <3>5 DEF NbiFirst, NbiSegment, SegmentAt
    <3> QED
      BY <3>3, <3>6
  <2>3. CASE loader \in BzLoaders
    <3>1. Handed = BzTold(KernelOf(loader, case), LineOf(loader, case), RamdiskOf(loader, case))
      BY <2>3 DEF Handed, BzLoaders
    <3> QED
      BY <2>1, <2>3, <3>1, BzFound, Zenon
  <2>4. CASE loader = "elf-x86"
    <3>1. Handed = ElfTold
      BY <2>4 DEF Handed
    <3> QED
      BY <2>1, <2>4, <3>1, ElfFound, Zenon
  <2>5. CASE loader = "multiboot-x86"
    <3>1. Handed = MultibootTold
      BY <2>5 DEF Handed
    <3> QED
      BY <2>1, <2>5, <3>1, MultibootFound, Zenon
  <2>6. loader \in Loaders
    BY <1>0, Accepted, Zenon
  <2> QED
    BY <2>2, <2>3, <2>4, <2>5, <2>6 DEF Loaders, BzLoaders
<1> QED
  BY <1>1, <1>2

(* The loaders: once kexec_load has taken the kernel, every address the    *)
(* loader wrote into the kernel's parameters, the registers or purgatory   *)
(* points at data that is staged, whole, in the segment it was meant for;  *)
(* a bzImage's real-mode code lies below purgatory and, of any kernel that *)
(* can be moved, both below 640KB, its ramdisk between 16MB and the limit  *)
(* the kernel names; and a memory map that was handed over shows all of it *)
(* as RAM.  It holds for every file of CasesAssumption and every memory    *)
(* map kexec reads (RamFits) and passes on (MapFits) as it is and that     *)
(* fits the kernel's setup code (SetupFits, in the property).              *)
THEOREM HandoverSound ==
  ASSUME RamFits, MapFits
  PROVE  LSpec => []HandedOver
<1>1. ASSUME LoadInv, HandInv PROVE HandedOver
  <2>1. SUFFICES ASSUME staged # <<>>, SetupFits PROVE HandedOver
    BY Zenon DEF HandedOver
  <2>2. \A t \in told :
          t.len > 0 =>
            \E i \in StagedAt(t.part) :
              staged[i].mem <= t.ptr /\ t.ptr + t.len <= staged[i].mem + staged[i].bufsz
    BY <1>1, <2>1, HandedFound, Zenon DEF AllFound, Found
  <2>3. "setup" \in DOMAIN where =>
          /\ where["setup"] <= where["purgatory"]
          /\ KernelOf(loader, case).protocol >= 512 =>
               \A i \in StagedAt("setup") \cup StagedAt("purgatory") :
                 LowMin <= staged[i].mem /\ End(staged[i]) <= LowMax
    BY <1>1, <2>1, InLimits, Zenon DEF LowSegment
  <2>4. "initrd" \in DOMAIN where =>
          \A i \in StagedAt("initrd") :
            /\ InitrdBase <= staged[i].mem
            /\ staged[i].mem + staged[i].bufsz <= InitrdMax(KernelOf(loader, case))
    BY <1>1, <2>1, InLimits, Zenon DEF RamdiskSegment
  <2>5. ASSUME memory # NoMemory, NEW i \in DOMAIN staged
        PROVE  \E j \in DOMAIN memory.map :
                 LET m == memory.map[j]
                 IN m.type = "RAM" /\ m.addr <= staged[i].mem /\ End(staged[i]) <= m.addr + m.size
    <3>1. memory = MemoryTold
      BY <1>1, <2>1, <2>5, StagedFacts, Zenon DEF RunInv
    <3>2. WellPlaced(staged[i])
      BY <1>1, <2>1, StagedListed, Zenon
    <3> QED
      BY <2>5, <3>1, <3>2, ShownInMap, Zenon DEF Shown
  <2>6. ASSUME memory # NoMemory, loader = "multiboot-x86"
        PROVE  \E j \in DOMAIN Ranges :
                 Ranges[j].type = "RAM" /\ Ranges[j].start <= Kern32Base
                   /\ Kern32Base + 1024 * memory.above <= Ranges[j].end
    <3>1. memory = MemoryTold
      BY <1>1, <2>1, <2>6, StagedFacts, Zenon DEF RunInv
    <3>2. MemoryTold \in {MultibootMemory, NoMemory}
      BY <2>6 DEF MemoryTold, BzLoaders
    <3>3. memory = MultibootMemory
      BY <2>6, <3>1, <3>2, Zenon
    <3> QED
      BY <3>3, AboveIsRam
  <2> QED
    BY <2>2, <2>3, <2>4, <2>5, <2>6, Zenon DEF HandedOver
<1>2. LInit => LoadInv /\ HandInv
  BY LoadInit, HandInit
<1>3. LoadInv /\ HandInv /\ [LNext]_lvars => LoadInv' /\ HandInv'
  BY LoadNext, HandNext
<1> QED
  BY <1>1, <1>2, <1>3, PTL DEF LSpec
==============================================================================

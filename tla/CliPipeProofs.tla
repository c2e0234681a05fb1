----------------------------- MODULE CliPipeProofs -----------------------------
(* Proofs about CliPipe.                                                   *)
EXTENDS CliPipe, FiniteSetTheorems, WellFoundedInduction, TLAPS

-----------------------------------------------------------------------------
(* Numbers and finite sets *)

LEMMA Least ==
  ASSUME NEW T, T \subseteq Nat, T # {}
  PROVE  \E x \in T : \A y \in T : x <= y
<1>1. IsWellFoundedOn(OpToRel(<, Nat), Nat)
  BY NatLessThanWellFounded
<1>2. PICK x \in T : \A y \in T : ~(<<y, x>> \in OpToRel(<, Nat))
  BY <1>1, WFMin
<1>3. \A y \in T : ~(y < x)
  BY <1>2 DEF OpToRel
<1> QED
  BY <1>3

LEMMA UpTo ==
  ASSUME NEW n \in Nat, NEW T, 0 \in T, \A i \in 0..n - 1 : i \in T => i + 1 \in T
  PROVE  n \in T
<1> DEFINE U == {i \in 0..n : i \notin T}
<1>1. SUFFICES ASSUME U # {} PROVE FALSE
  <2>1. n \in 0..n
    OBVIOUS
  <2> QED
    BY <2>1
<1>2. U \subseteq Nat
  OBVIOUS
<1>3. PICK x \in U : \A y \in U : x <= y
  <2> HIDE DEF U
  <2> QED
    BY <1>1, <1>2, Least
<1>4. x # 0 /\ x - 1 \in 0..n - 1
  OBVIOUS
<1>5. x - 1 \in T
  BY <1>3, <1>4
<1> QED
  BY <1>4, <1>5

(* Adding one element to a finite set, and what a subset counts.           *)
LEMMA CountOneMore ==
  ASSUME NEW S, IsFiniteSet(S), NEW x, x \notin S
  PROVE  /\ IsFiniteSet(S \cup {x}) /\ Cardinality(S) \in Nat
         /\ Cardinality(S \cup {x}) = Cardinality(S) + 1
BY FS_AddElement, FS_CardinalityType

LEMMA CountSubset ==
  ASSUME NEW T, IsFiniteSet(T), NEW S, S \subseteq T
  PROVE  /\ IsFiniteSet(S) /\ Cardinality(S) \in Nat /\ Cardinality(T) \in Nat
         /\ Cardinality(S) <= Cardinality(T)
BY FS_Subset, FS_CardinalityType

-----------------------------------------------------------------------------
(* cli_parse_line *)

LineOK ==
  line \in Seq(Range(line)) /\ line # <<>> /\ Head(line) # " " /\ None \notin Range(line)

LEMMA LineFacts ==
  ASSUME LineOK
  PROVE  /\ Len(line) \in Nat \ {0} /\ DOMAIN line = 1..Len(line) /\ Head(line) = line[1]
         /\ line[1] # " " /\ \A i \in 1..Len(line) : line[i] # None /\ line[i] \in Range(line)
<1> DEFINE S == Range(line)
<1>1. line \in Seq(S) /\ line # <<>> /\ Head(line) # " " /\ None \notin S
  BY DEF LineOK
<1> HIDE DEF S
<1>2. /\ Len(line) \in Nat \ {0} /\ DOMAIN line = 1..Len(line) /\ Head(line) = line[1]
      /\ \A i \in 1..Len(line) : line[i] \in S
  <2>1. \A s \in Seq(S) : /\ Len(s) \in Nat /\ DOMAIN s = 1..Len(s)
                          /\ \A i \in 1..Len(s) : s[i] \in S
    OBVIOUS
  <2>2. \A s \in Seq(S) : s # <<>> => Len(s) # 0 /\ Head(s) = s[1]
    OBVIOUS
  <2> QED
    BY <1>1, <2>1, <2>2
<1>3. /\ line[1] # " " /\ \A i \in 1..Len(line) : line[i] # None
  BY <1>1, <1>2
<1> QED
  BY <1>2, <1>3, Zenon DEF S

LEMMA InsideStep ==
  /\ ~Inside(1)
  /\ \A i \in Nat \ {0} : Inside(i + 1) <=> (Inside(i) <=> line[i] \notin Quotes)
<1>1. ~Inside(1)
  <2>1. MarksBefore(1) = {}
    BY DEF MarksBefore
  <2> QED
    BY <2>1, FS_EmptySet DEF Inside
<1>2. ASSUME NEW i \in Nat \ {0} PROVE Inside(i + 1) <=> (Inside(i) <=> line[i] \notin Quotes)
  <2>1. IsFiniteSet(MarksBefore(i)) /\ i \notin MarksBefore(i)
    <3>1. IsFiniteSet(1..i - 1) /\ MarksBefore(i) \subseteq 1..i - 1
      BY FS_Interval DEF MarksBefore
    <3> QED
      BY <3>1, CountSubset
  <2>2. CASE line[i] \in Quotes
    <3>1. MarksBefore(i + 1) = MarksBefore(i) \cup {i}
      BY <2>2 DEF MarksBefore
    <3>2. Cardinality(MarksBefore(i)) \in Nat
          /\ Cardinality(MarksBefore(i + 1)) = Cardinality(MarksBefore(i)) + 1
      BY <2>1, <3>1, CountOneMore, Zenon
    <3>3. \A n \in Nat : (n + 1) % 2 = 1 <=> n % 2 # 1
      OBVIOUS
    <3> QED
      BY <2>2, <3>2, <3>3 DEF Inside
  <2>3. CASE line[i] \notin Quotes
    <3>1. MarksBefore(i + 1) = MarksBefore(i)
      BY <2>3 DEF MarksBefore
    <3> QED
      BY <2>3, <3>1, Zenon DEF Inside
  <2> QED
    BY <2>2, <2>3
<1> QED
  BY <1>1, <1>2

(* The words that begin before q.                                          *)
Below(q) == {i \in Starts : i < q}

LEMMA BelowFacts ==
  ASSUME LineOK
  PROVE  /\ Starts \subseteq 1..Len(line) /\ IsFiniteSet(Starts)
         /\ \A q \in Nat : IsFiniteSet(Below(q)) /\ Cardinality(Below(q)) \in Nat
         /\ \A q \in Nat : Below(q + 1) = IF q \in Starts THEN Below(q) \cup {q} ELSE Below(q)
         /\ Below(1) = {}
         /\ Below(Len(line) + 1) = Starts
<1>1. Starts \subseteq 1..Len(line) /\ Len(line) \in Nat
  BY LineFacts DEF Starts
<1>2. IsFiniteSet(Starts)
  <2>1. IsFiniteSet(1..Len(line))
    BY <1>1, FS_Interval
  <2> QED
    BY <1>1, <2>1, CountSubset, Zenon
<1>21. \A i \in Starts : i \in Nat /\ i >= 1 /\ i <= Len(line)
  BY <1>1
<1>3. \A q \in Nat : IsFiniteSet(Below(q)) /\ Cardinality(Below(q)) \in Nat
  <2> SUFFICES ASSUME NEW q \in Nat PROVE IsFiniteSet(Below(q)) /\ Cardinality(Below(q)) \in Nat
    OBVIOUS
  <2>1. Below(q) \subseteq Starts
    BY DEF Below
  <2> QED
    BY <1>2, <2>1, CountSubset, Zenon
<1>4. \A q \in Nat : Below(q + 1) = IF q \in Starts THEN Below(q) \cup {q} ELSE Below(q)
  <2> SUFFICES ASSUME NEW q \in Nat
               PROVE  Below(q + 1) = IF q \in Starts THEN Below(q) \cup {q} ELSE Below(q)
    OBVIOUS
  <2>1. \A i \in Starts : i < q + 1 <=> i < q \/ i = q
    BY <1>21
  <2> QED
    BY <2>1, Zenon DEF Below
<1>5. Below(1) = {}
  <2>1. \A i \in Starts : ~(i < 1)
    BY <1>21
  <2> QED
    BY <2>1, Zenon DEF Below
<1>6. Below(Len(line) + 1) = Starts
  <2>1. \A i \in Starts : i < Len(line) + 1
    BY <1>1, <1>21
  <2> QED
    BY <2>1, Zenon DEF Below
<1> QED
  BY <1>1, <1>2, <1>3, <1>4, <1>5, <1>6, Zenon

LEMMA PlaceIs ==
  ASSUME LineOK, NEW i \in Starts
  PROVE  Place(i) = Leading + Cardinality(Below(i)) + 1 /\ Leading \in {0, 1}
         /\ Place(i) \in Nat \ {0}
<1>1. i \in Nat /\ Starts \subseteq Nat /\ IsFiniteSet(Below(i))
  <2>1. Starts \subseteq 1..Len(line) /\ \A q \in Nat : IsFiniteSet(Below(q))
    BY BelowFacts, Zenon
  <2>2. Len(line) \in Nat
    BY LineFacts
  <2>3. i \in Nat /\ Starts \subseteq Nat
    BY <2>1, <2>2
  <2> QED
    BY <2>1, <2>3, Zenon
<1>2. {j \in Starts : j <= i} = Below(i) \cup {i} /\ i \notin Below(i)
  <2>1. ~(i < i) /\ \A j \in Starts : j <= i <=> j < i \/ j = i
    BY <1>1
  <2> QED
    BY <2>1, Zenon DEF Below
<1>3. Cardinality({j \in Starts : j <= i}) = Cardinality(Below(i)) + 1
      /\ Cardinality(Below(i)) \in Nat
  BY <1>1, <1>2, CountOneMore, Zenon
<1>4. Leading \in {0, 1}
  BY DEF Leading
<1> QED
  BY <1>3, <1>4 DEF Place

(* The words before q are in w.                                            *)
HoldsIn(w, q) ==
  /\ Len(w) = Leading + Cardinality(Below(q))
  /\ Leading = 1 => w[1] = <<>>
  /\ \A i \in Below(q) : IsWord(i, w[Place(i)])

LEMMA WordAdded ==
  ASSUME LineOK, NEW S, NEW w \in Seq(S), NEW x \in S, NEW i \in Starts, HoldsIn(w, i),
         IsWord(i, x), NEW q, Below(q) = Below(i) \cup {i}
  PROVE  HoldsIn(Append(w, x), q)
<1> DEFINE n == Cardinality(Below(i))
           v == Append(w, x)
<1>1. i \in Nat /\ Starts \subseteq Nat /\ IsFiniteSet(Below(i)) /\ i \notin Below(i) /\ n \in Nat
  <2>1. Starts \subseteq 1..Len(line) /\ \A k \in Nat : IsFiniteSet(Below(k)) /\ Cardinality(Below(k)) \in Nat
    BY BelowFacts, Zenon
  <2>2. Len(line) \in Nat
    BY LineFacts
  <2>3. i \in Nat /\ Starts \subseteq Nat /\ ~(i < i)
    BY <2>1, <2>2
  <2> QED
    BY <2>1, <2>3, Zenon DEF Below
<1>2. Cardinality(Below(q)) = n + 1
  BY <1>1, CountOneMore, Zenon
<1>3. Len(w) = Leading + n /\ Leading \in {0, 1} /\ Len(w) \in Nat
  BY PlaceIs DEF HoldsIn
<1>4. /\ Len(v) = Len(w) + 1 /\ v[Len(w) + 1] = x
      /\ \A k \in 1..Len(w) : v[k] = w[k]
  OBVIOUS
<1>5. ASSUME NEW j \in Below(i) PROVE Place(j) \in 1..Len(w)
  <2>1. j \in Starts /\ j \in Nat /\ j < i
    BY <1>1 DEF Below
  <2>2. IsFiniteSet(Below(j)) /\ j \notin Below(j) /\ Below(j) \cup {j} \subseteq Below(i)
    <3>1. IsFiniteSet(Below(j))
      BY <2>1, BelowFacts, Zenon
    <3>2. ~(j < j) /\ \A k \in Starts : k < j => k < i
      BY <1>1, <2>1
    <3> QED
      BY <2>1, <3>1, <3>2, Zenon DEF Below
  <2>3. Cardinality(Below(j) \cup {j}) = Cardinality(Below(j)) + 1 /\ Cardinality(Below(j)) \in Nat
    BY <2>2, CountOneMore, Zenon
  <2>4. Cardinality(Below(j) \cup {j}) <= n
    BY <1>1, <2>2, CountSubset, Zenon
  <2>5. Place(j) = Leading + Cardinality(Below(j)) + 1
    BY <2>1, PlaceIs, Zenon
  <2> QED
    BY <1>1, <1>3, <2>3, <2>4, <2>5
<1>6. Place(i) = Len(w) + 1
  BY <1>1, <1>3, PlaceIs
<1> HIDE DEF n, v
<1>7. Len(v) = Leading + Cardinality(Below(q))
  BY <1>1, <1>2, <1>3, <1>4
<1>8. ASSUME Leading = 1 PROVE v[1] = <<>>
  <2>1. 1 \in 1..Len(w)
    BY <1>1, <1>3, <1>8
  <2> QED
    BY <1>4, <1>8, <2>1, Zenon DEF HoldsIn
<1>9. ASSUME NEW j \in Below(q) PROVE IsWord(j, v[Place(j)])
  <2>1. CASE j = i
    BY <1>4, <1>6, <2>1, Zenon
  <2>2. CASE j \in Below(i)
    <3>1. v[Place(j)] = w[Place(j)]
      BY <1>4, <1>5, <2>2, Zenon
    <3> QED
      BY <2>2, <3>1, Zenon DEF HoldsIn
  <2> QED
    BY <2>1, <2>2
<1>10. HoldsIn(v, q)
  BY <1>7, <1>8, <1>9, Zenon DEF HoldsIn
<1> QED
  BY <1>10 DEF v

(* Where the scan may stand: nothing read yet, between two words, in a     *)
(* word that began at b, or in a quotation whose first character is b; w   *)
(* are the words so far, q the next character, m the open mark.            *)
AtStart(w, q, b, m) == q = 1 /\ b = 1 /\ m = None /\ w = <<>>
Between(w, q, b, m) ==
  /\ b = None /\ m = None /\ ~Inside(q) /\ HoldsIn(w, q)
  /\ q = 1 => line[1] = "|"
  /\ q > 1 => line[q - 1] \in Breaks \/ (q <= Len(line) => line[q] \in {" ", "|"})
InWord(w, q, b, m) ==
  /\ m = None /\ b \in Starts /\ b < q /\ ~Inside(q)
  /\ \A k \in b..q - 1 : line[k] \notin Breaks
  /\ HoldsIn(w, b) /\ Below(q) = Below(b) \cup {b}
InQuote(w, q, b, m) ==
  /\ m \in Quotes /\ b \in 2..q /\ b - 1 \in Starts /\ line[b - 1] = m /\ Inside(q)
  /\ \A k \in b..q - 1 : line[k] \notin Quotes
  /\ HoldsIn(w, b - 1) /\ Below(q) = Below(b - 1) \cup {b - 1}
Scan(w, q, b, m) ==
  AtStart(w, q, b, m) \/ Between(w, q, b, m) \/ InWord(w, q, b, m) \/ InQuote(w, q, b, m)

ParseTypes ==
  /\ LineOK /\ p \in 1..Len(line) + 1 /\ word_start \in {None} \cup 1..p
  /\ inquote \in {None} \cup Quotes /\ words \in Seq(Seq(Range(line)))

(* What one turn does when it does not end the line.                       *)
Turned == Scan(words', p', word_start', inquote')
Finished == HoldsIn(words', Len(line) + 1)

LEMMA MarkFacts ==
  /\ None \notin Nat /\ None \notin Quotes /\ "|" \notin Quotes /\ " " \notin Quotes
  /\ Breaks = {" ", "|"} \cup Quotes
BY WordsAssumption DEF Quotes, Breaks

(* The characters around p.                                                *)
LEMMA Here ==
  ASSUME ParseTypes
  PROVE  /\ p \in Nat \ {0} /\ Len(line) \in Nat \ {0} /\ p <= Len(line) + 1
         /\ (AtEnd <=> p = Len(line) + 1) /\ (~AtEnd <=> p \in 1..Len(line))
         /\ p <= Len(line) => p \in DOMAIN line /\ line[p] # None /\ line[p] \in Range(line)
<1>1. p \in 1..Len(line) + 1 /\ LineOK
  BY DEF ParseTypes
<1>2. Len(line) \in Nat \ {0} /\ DOMAIN line = 1..Len(line)
      /\ \A i \in 1..Len(line) : line[i] # None /\ line[i] \in Range(line)
  BY <1>1, LineFacts, Zenon
<1>3. p \in Nat \ {0} /\ p <= Len(line) + 1 /\ (AtEnd <=> p = Len(line) + 1)
      /\ (~AtEnd <=> p \in 1..Len(line)) /\ (p <= Len(line) => p \in 1..Len(line))
  BY <1>1, <1>2 DEF AtEnd
<1> QED
  BY <1>2, <1>3, Zenon

LEMMA StartTurn ==
  ASSUME ParseTypes, AtStart(words, p, word_start, inquote), EndWord \/ OpenQuote \/ Advance
  PROVE  ~AtEnd /\ Turned
<1>1. /\ p = 1 /\ word_start = 1 /\ inquote = None /\ words = <<>> /\ word_start # None
      /\ LineOK
  <2>1. 1 # None
    <3>1. 1 \in Nat
      OBVIOUS
    <3> QED
      BY <3>1, MarkFacts, Zenon
  <2> QED
    BY <2>1, Zenon DEF AtStart, ParseTypes
<1>2. /\ ~AtEnd /\ 1 \in DOMAIN line /\ line[1] # None /\ line[1] # " " /\ Len(line) \in Nat \ {0}
      /\ Head(line) = line[1] /\ line[1] \in Range(line)
  <2>1. Len(line) \in Nat \ {0} /\ line[1] # " " /\ Head(line) = line[1]
    BY <1>1, LineFacts, Zenon
  <2>2. 1 <= Len(line) /\ 1 # Len(line) + 1
    <3>1. \A n \in Nat \ {0} : 1 <= n /\ 1 # n + 1
      OBVIOUS
    <3> QED
      BY <2>1, <3>1, Zenon
  <2> QED
    BY <1>1, <2>1, <2>2, Here
<1>3. ~Inside(1) /\ Below(1) = {} /\ Cardinality(Below(1)) = 0
  BY <1>1, InsideStep, BelowFacts, FS_EmptySet
<1>4. Ends <=> line[1] = "|"
  BY <1>1, <1>2 DEF Ends
<1>5. Leading = IF line[1] = "|" THEN 1 ELSE 0
  BY <1>2 DEF Leading
<1>6. CASE EndWord
  <2>1. line[1] = "|" /\ Leading = 1
    BY <1>4, <1>5, <1>6 DEF EndWord
  <2>2. words' = <<<<>>>> /\ p' = 1 /\ inquote' = None /\ word_start' = None
    <3>1. SubSeq(line, 1, 1 - 1) = <<>> /\ Append(<<>>, <<>>) = <<<<>>>>
      <4>1. ASSUME NEW S, NEW s \in Seq(S) PROVE SubSeq(s, 1, 1 - 1) = <<>>
        OBVIOUS
      <4>2. line \in Seq(Range(line))
        BY <1>1, Zenon DEF LineOK
      <4>3. Append(<<>>, <<>>) = <<<<>>>>
        OBVIOUS
      <4> QED
        BY <4>1, <4>2, <4>3, Zenon
    <3>2. words' = Append(words, SubSeq(line, word_start, p - 1))
      BY <1>1, <1>6, Zenon DEF EndWord
    <3>3. p' = 1 /\ inquote' = None /\ word_start' = None
      BY <1>1, <1>2, <1>6, Zenon DEF EndWord
    <3> QED
      BY <1>1, <3>1, <3>2, <3>3, Zenon
  <2>3. HoldsIn(<<<<>>>>, 1)
    BY <1>3, <2>1 DEF HoldsIn
  <2>4. Between(<<<<>>>>, 1, None, None)
    BY <1>3, <2>1, <2>3 DEF Between
  <2> QED
    BY <1>2, <2>2, <2>4, Zenon DEF Turned, Scan
<1>7. ASSUME line[1] # "|" PROVE /\ 1 \in Starts /\ HoldsIn(<<>>, 1) /\ Below(2) = Below(1) \cup {1}
                                 /\ Inside(2) <=> line[1] \in Quotes
  <2>1. 1 \in Starts
    BY <1>2, <1>3 DEF Starts
  <2>2. HoldsIn(<<>>, 1)
    BY <1>3, <1>5, <1>7 DEF HoldsIn
  <2>3. 1 \in Nat \ {0} /\ 1 + 1 = 2
    OBVIOUS
  <2>4. Below(1 + 1) = Below(1) \cup {1}
    BY <1>1, <2>1, <2>3, BelowFacts
  <2>5. Inside(1 + 1) <=> line[1] \in Quotes
    BY <1>3, <2>3, InsideStep, Zenon
  <2> QED
    BY <2>1, <2>2, <2>3, <2>4, <2>5
<1>8. CASE OpenQuote
  <2>1. line[1] # "|" /\ line[1] \in Quotes
    BY <1>1, <1>4, <1>8 DEF OpenQuote
  <2>2. words' = <<>> /\ p' = 2 /\ inquote' = line[1] /\ word_start' = 2
    BY <1>1, <1>8 DEF OpenQuote
  <2>3. 2 \in 2..2 /\ 2 - 1 = 1 /\ 2..2 - 1 = {}
    OBVIOUS
  <2>4. InQuote(<<>>, 2, 2, line[1])
    BY <1>7, <2>1, <2>3 DEF InQuote
  <2> QED
    BY <1>2, <2>2, <2>4, Zenon DEF Turned, Scan
<1>9. CASE Advance
  <2>1. line[1] # "|" /\ line[1] \notin Quotes /\ line[1] \notin Breaks
    BY <1>1, <1>2, <1>4, <1>9, MarkFacts DEF Advance
  <2>2. words' = <<>> /\ p' = 2 /\ inquote' = None /\ word_start' = 1
    BY <1>1, <1>9 DEF Advance
  <2>3. 1 < 2 /\ 1..2 - 1 = {1}
    OBVIOUS
  <2>4. InWord(<<>>, 2, 1, None)
    BY <1>7, <2>1, <2>3 DEF InWord
  <2> QED
    BY <1>2, <2>2, <2>4, Zenon DEF Turned, Scan
<1> QED
  BY <1>6, <1>8, <1>9

LEMMA BetweenTurn ==
  ASSUME ParseTypes, Between(words, p, word_start, inquote), EndWord \/ OpenQuote \/ Advance
  PROVE  IF AtEnd THEN Finished ELSE Turned
<1>1. /\ word_start = None /\ inquote = None /\ ~Inside(p) /\ HoldsIn(words, p) /\ LineOK
      /\ (p = 1 => line[1] = "|")
      /\ (p > 1 => line[p - 1] \in Breaks \/ (p <= Len(line) => line[p] \in {" ", "|"}))
      /\ words \in Seq(Seq(Range(line)))
  BY DEF Between, ParseTypes
<1>2. Ends <=> AtEnd
  <2>1. ~AtEnd => line[p] # None
    BY Here DEF AtEnd
  <2> QED
    BY <1>1, <2>1, Zenon DEF Ends
<1>3. CASE AtEnd
  <2>1. EndWord
    BY <1>2, <1>3 DEF OpenQuote, Advance
  <2>2. words' = words /\ p = Len(line) + 1
    BY <1>1, <1>3, <2>1, Here DEF EndWord
  <2> QED
    BY <1>1, <1>3, <2>2, Zenon DEF Finished
<1>4. CASE ~AtEnd
  <2>1. /\ p \in Nat \ {0} /\ p \in DOMAIN line /\ p <= Len(line) /\ p + 1 > 1 /\ (p + 1) - 1 = p
        /\ p + 1 # 1 /\ line[p] \in Range(line) /\ p < p + 1 /\ p..(p + 1) - 1 = {p}
    <3>1. p \in Nat \ {0} /\ p \in DOMAIN line /\ p <= Len(line) /\ line[p] \in Range(line)
      BY <1>4, Here DEF AtEnd
    <3> QED
      BY <3>1
  <2>2. /\ Inside(p + 1) <=> line[p] \in Quotes
        /\ Below(p + 1) = IF p \in Starts THEN Below(p) \cup {p} ELSE Below(p)
    <3>1. p \in Nat
      BY <2>1
    <3> QED
      BY <1>1, <2>1, <3>1, InsideStep, BelowFacts, Zenon
  <2>3. CASE OpenQuote
    <3>1. line[p] \in Quotes /\ words' = words /\ p' = p + 1 /\ word_start' = p + 1 /\ inquote' = line[p]
      BY <2>3 DEF OpenQuote
    <3>2. p \in Starts
      BY <1>1, <2>1, <3>1 DEF Starts
    <3>3. p + 1 \in 2..p + 1 /\ p + 1..(p + 1) - 1 = {}
      BY <2>1
    <3>4. InQuote(words, p + 1, p + 1, line[p])
      <4>1. \A k \in p + 1..(p + 1) - 1 : line[k] \notin Quotes
        BY <3>3
      <4> QED
        BY <1>1, <2>1, <2>2, <3>1, <3>2, <3>3, <4>1, Zenon DEF InQuote
    <3> QED
      BY <1>4, <3>1, <3>4, Zenon DEF Turned, Scan
  <2>4. CASE Advance
    <3>1. line[p] \notin Quotes /\ p' = p + 1 /\ inquote' = None
      BY <1>1, <2>4 DEF Advance
    <3>2. CASE line[p] = "|"
      <4>1. words' = Append(words, <<"|">>) /\ word_start' = None
        BY <1>1, <2>4, <3>2 DEF Advance
      <4>2. p \in Starts /\ IsWord(p, <<"|">>)
        BY <1>1, <2>1, <3>2 DEF Starts, IsWord
      <4>3. <<"|">> \in Seq(Range(line))
        BY <2>1, <3>2
      <4>4. Below(p + 1) = Below(p) \cup {p}
        BY <2>2, <4>2
      <4>5. HoldsIn(Append(words, <<"|">>), p + 1)
        BY <1>1, <4>2, <4>3, <4>4, WordAdded, Zenon
      <4>6. line[p] \in Breaks
        BY <3>2, MarkFacts
      <4>7. Between(Append(words, <<"|">>), p + 1, None, None)
        BY <2>1, <2>2, <3>1, <4>5, <4>6, Zenon DEF Between
      <4> QED
        BY <1>4, <3>1, <4>1, <4>7, Zenon DEF Turned, Scan
    <3>3. CASE line[p] = " "
      <4>1. words' = words /\ word_start' = None
        BY <1>1, <2>4, <3>3 DEF Advance
      <4>2. p \notin Starts
        BY <3>1, <3>3 DEF Starts
      <4>3. Below(p + 1) = Below(p)
        BY <2>2, <4>2
      <4>4. HoldsIn(words, p + 1)
        BY <1>1, <4>3, Zenon DEF HoldsIn
      <4>5. line[p] \in Breaks
        BY <3>3, MarkFacts
      <4>6. Between(words, p + 1, None, None)
        BY <2>1, <2>2, <3>1, <4>4, <4>5, Zenon DEF Between
      <4> QED
        BY <1>4, <3>1, <4>1, <4>6, Zenon DEF Turned, Scan
    <3>4. CASE line[p] \notin {" ", "|"}
      <4>1. words' = words /\ word_start' = p
        BY <1>1, <2>4, <3>4 DEF Advance
      <4>2. p # 1 /\ line[p - 1] \in Breaks
        <5>1. p # 1
          BY <1>1, <3>4
        <5>2. p > 1
          BY <2>1, <5>1
        <5> QED
          BY <1>1, <2>1, <3>4, <5>1, <5>2, Zenon
      <4>3. p \in Starts
        BY <1>1, <2>1, <3>4, <4>2 DEF Starts
      <4>4. Below(p + 1) = Below(p) \cup {p} /\ line[p] \notin Breaks
        BY <2>2, <3>1, <3>4, <4>3, MarkFacts
      <4>5. \A k \in p..(p + 1) - 1 : line[k] \notin Breaks
        BY <2>1, <4>4, Zenon
      <4>6. InWord(words, p + 1, p, None)
        BY <1>1, <2>1, <2>2, <3>1, <4>3, <4>4, <4>5, Zenon DEF InWord
      <4> QED
        BY <1>4, <3>1, <4>1, <4>6, Zenon DEF Turned, Scan
    <3> QED
      BY <3>2, <3>3, <3>4
  <2> QED
    BY <1>2, <1>4, <2>3, <2>4 DEF EndWord
<1> QED
  BY <1>3, <1>4

(* The word from the first character to e.                                 *)
LEMMA WordPart ==
  ASSUME ParseTypes, NEW b \in 1..p
  PROVE  SubSeq(line, b, p - 1) \in Seq(Range(line))
<1> DEFINE S == Range(line)
<1>1. line \in Seq(S) /\ p \in Nat \ {0} /\ p <= Len(line) + 1
  BY Here DEF ParseTypes, LineOK
<1> HIDE DEF S
<1>2. b \in Nat /\ b >= 1 /\ p - 1 \in Nat /\ p - 1 <= Len(line)
  BY <1>1
<1>3. SubSeq(line, b, p - 1) \in Seq(S)
  BY <1>1, <1>2
<1> QED
  BY <1>3 DEF S

LEMMA WordTurn ==
  ASSUME ParseTypes, WellQuoted, InWord(words, p, word_start, inquote),
         EndWord \/ OpenQuote \/ Advance
  PROVE  IF AtEnd THEN Finished ELSE Turned
<1> DEFINE b == word_start
           x == SubSeq(line, b, p - 1)
<1>1. /\ inquote = None /\ b \in Starts /\ b < p /\ ~Inside(p) /\ LineOK
      /\ \A k \in b..p - 1 : line[k] \notin Breaks
      /\ HoldsIn(words, b) /\ Below(p) = Below(b) \cup {b} /\ words \in Seq(Seq(Range(line)))
  BY DEF InWord, ParseTypes
<1>2. /\ p \in Nat \ {0} /\ p - 1 \in b..p - 1 /\ p # 1 /\ b \in b..p - 1 /\ b \in Nat \ {0}
      /\ p \in b + 1..Len(line) + 1 /\ b \in 1..p /\ Len(line) \in Nat \ {0}
  <2>1. Starts \subseteq 1..Len(line) /\ Len(line) \in Nat
    BY <1>1, BelowFacts, LineFacts
  <2>2. p \in Nat \ {0} /\ p <= Len(line) + 1 /\ Len(line) \in Nat \ {0}
    BY Here
  <2>3. b \in Nat /\ b >= 1
    BY <1>1, <2>1
  <2> QED
    BY <1>1, <2>2, <2>3
<1>3. b # None
  BY <1>2, MarkFacts
<1>4. line[b] \notin Breaks /\ line[p - 1] \notin Breaks
  BY <1>1, <1>2, Zenon
<1>5. Ends <=> AtEnd \/ line[p] \in {" ", "|"}
  <2>1. ~AtEnd => line[p] # None
    BY Here DEF AtEnd
  <2> QED
    BY <1>1, <1>3, <2>1, Zenon DEF Ends
<1>6. line[b] # "|" /\ line[b] \notin Quotes /\ Closes(b) = {" ", "|"}
  BY <1>4, MarkFacts DEF Closes
<1>7. ASSUME EndWord PROVE words' = Append(words, x) /\ HoldsIn(words', p)
  <2>1. words' = Append(words, x) /\ (AtEnd \/ line[p] \in {" ", "|"})
    BY <1>3, <1>5, <1>7 DEF EndWord
  <2>2. p <= Len(line) => line[p] \in {" ", "|"}
    <3>1. p <= Len(line) => ~AtEnd
      BY <1>2 DEF AtEnd
    <3> QED
      BY <2>1, <3>1, Zenon
  <2>3. \A k \in b + 1..p - 1 : line[k] \notin {" ", "|"}
    <3>1. \A k \in b + 1..p - 1 : k \in b..p - 1
      BY <1>2
    <3> QED
      BY <1>1, <3>1, MarkFacts
  <2>4. IsWord(b, x)
    BY <1>2, <1>6, <2>2, <2>3, Zenon DEF IsWord
  <2>5. x \in Seq(Range(line))
    BY <1>2, WordPart, Zenon
  <2> HIDE DEF b, x
  <2>6. HoldsIn(Append(words, x), p)
    BY <1>1, <2>4, <2>5, WordAdded, Zenon
  <2> QED
    BY <2>1, <2>6, Zenon
<1>8. CASE AtEnd
  <2>1. EndWord
    BY <1>5, <1>8 DEF OpenQuote, Advance
  <2>2. p = Len(line) + 1
    BY <1>8, Here
  <2> QED
    BY <1>7, <1>8, <2>1, <2>2, Zenon DEF Finished
<1>9. CASE ~AtEnd
  <2>0. p \in DOMAIN line
    BY <1>9, Here DEF AtEnd
  <2>1. CASE EndWord
    <3>1. line[p] \in {" ", "|"}
      BY <1>5, <1>9, <2>1 DEF EndWord
    <3>2. p' = p /\ inquote' = None /\ word_start' = None
      BY <1>1, <1>9, <2>1, Zenon DEF EndWord
    <3>3. Between(words', p, None, None)
      BY <1>1, <1>2, <1>7, <2>1, <3>1, Zenon DEF Between
    <3> QED
      BY <1>9, <3>2, <3>3, Zenon DEF Turned, Scan
  <2>2. CASE OpenQuote
    <3>1. line[p] \in Quotes
      BY <2>2 DEF OpenQuote
    <3>2. FALSE
      BY <1>1, <1>2, <1>4, <2>0, <3>1, Zenon DEF WellQuoted
    <3> QED
      BY <3>2
  <2>3. CASE Advance
    <3>1. line[p] \notin Quotes /\ line[p] \notin {" ", "|"}
      BY <1>5, <1>9, <2>3 DEF Advance
    <3>2. words' = words /\ word_start' = b /\ p' = p + 1 /\ inquote' = None
      BY <1>1, <1>3, <2>3, Zenon DEF Advance
    <3>3. line[p] \notin Breaks
      BY <3>1, MarkFacts
    <3>4. p \notin Starts
      BY <1>2, <1>4, <3>1 DEF Starts
    <3>5. Below(p + 1) = Below(p)
      BY <1>1, <1>2, <3>4, BelowFacts
    <3>6. ~Inside(p + 1)
      BY <1>1, <1>2, <3>1, InsideStep, Zenon
    <3>7. b < p + 1 /\ \A k \in b..(p + 1) - 1 : k \in b..p - 1 \/ k = p
      BY <1>1, <1>2
    <3>8. \A k \in b..(p + 1) - 1 : line[k] \notin Breaks
      BY <1>1, <3>3, <3>7, Zenon
    <3>9. InWord(words, p + 1, b, None)
      BY <1>1, <3>5, <3>6, <3>7, <3>8, Zenon DEF InWord
    <3> QED
      BY <1>9, <3>2, <3>9, Zenon DEF Turned, Scan
  <2> QED
    BY <2>1, <2>2, <2>3
<1> QED
  BY <1>8, <1>9

LEMMA QuoteTurn ==
  ASSUME ParseTypes, WellQuoted, InQuote(words, p, word_start, inquote),
         EndWord \/ OpenQuote \/ Advance
  PROVE  IF AtEnd THEN Finished ELSE Turned
<1> DEFINE b == word_start
           s == b - 1
           x == SubSeq(line, b, p - 1)
<1>1. /\ inquote \in Quotes /\ b \in 2..p /\ s \in Starts /\ line[s] = inquote /\ Inside(p) /\ LineOK
      /\ \A k \in b..p - 1 : line[k] \notin Quotes
      /\ HoldsIn(words, s) /\ Below(p) = Below(s) \cup {s} /\ words \in Seq(Seq(Range(line)))
  BY DEF InQuote, ParseTypes
<1>2. /\ p \in Nat \ {0} /\ p # 1 /\ b \in Nat \ {0} /\ s \in Nat \ {0} /\ s + 1 = b /\ s < p
      /\ p \in s + 1..Len(line) + 1 /\ b \in 1..p /\ Len(line) \in Nat \ {0} /\ s \in 1..p - 1
  <2>1. p \in Nat \ {0} /\ p <= Len(line) + 1 /\ Len(line) \in Nat \ {0}
    BY Here
  <2> QED
    BY <1>1, <2>1
<1>3. b # None /\ inquote # None
  BY <1>1, <1>2, MarkFacts
<1>4. Ends <=> AtEnd \/ line[p] = inquote
  BY <1>3, Zenon DEF Ends
<1>5. line[s] # "|" /\ line[s] \in Quotes /\ Closes(s) = {inquote}
  BY <1>1, MarkFacts DEF Closes
<1>6. ASSUME EndWord PROVE words' = Append(words, x) /\ HoldsIn(words', p)
  <2>1. words' = Append(words, x) /\ (AtEnd \/ line[p] = inquote)
    BY <1>3, <1>4, <1>6 DEF EndWord
  <2>2. p <= Len(line) => line[p] \in {inquote}
    <3>1. p <= Len(line) => ~AtEnd
      BY <1>2 DEF AtEnd
    <3> QED
      BY <2>1, <3>1, Zenon
  <2>3. \A k \in s + 1..p - 1 : line[k] \notin {inquote}
    BY <1>1, <1>2
  <2>4. IsWord(s, x)
    BY <1>2, <1>5, <2>2, <2>3, Zenon DEF IsWord
  <2>5. x \in Seq(Range(line))
    BY <1>2, WordPart, Zenon
  <2> HIDE DEF b, x, s
  <2>6. HoldsIn(Append(words, x), p)
    BY <1>1, <2>4, <2>5, WordAdded, Zenon
  <2> QED
    BY <2>1, <2>6, Zenon
<1>7. CASE AtEnd
  <2>1. EndWord
    BY <1>4, <1>7 DEF OpenQuote, Advance
  <2>2. p = Len(line) + 1
    BY <1>7, Here
  <2> QED
    BY <1>6, <1>7, <2>1, <2>2, Zenon DEF Finished
<1>8. CASE ~AtEnd
  <2>0. p \in DOMAIN line /\ p \notin Starts
    <3>1. p \notin Starts
      BY <1>1 DEF Starts
    <3> QED
      BY <1>8, <3>1, Here DEF AtEnd
  <2>1. Below(p + 1) = Below(p) /\ (Inside(p + 1) <=> line[p] \notin Quotes)
    <3>1. Below(p + 1) = Below(p)
      BY <1>1, <1>2, <2>0, BelowFacts
    <3> QED
      BY <1>1, <1>2, <3>1, InsideStep, Zenon
  <2>2. CASE EndWord
    <3>1. line[p] = inquote /\ line[p] \in Breaks
      BY <1>1, <1>4, <1>8, <2>2, MarkFacts DEF EndWord
    <3>2. p' = p + 1 /\ inquote' = None /\ word_start' = None
      BY <1>3, <1>8, <2>2, Zenon DEF EndWord
    <3>3. HoldsIn(words', p + 1)
      BY <1>6, <2>1, <2>2, Zenon DEF HoldsIn
    <3>4. p + 1 # 1 /\ (p + 1) - 1 = p
      BY <1>2
    <3>5. Between(words', p + 1, None, None)
      BY <1>1, <2>1, <3>1, <3>3, <3>4, Zenon DEF Between
    <3> QED
      BY <1>8, <3>2, <3>5, Zenon DEF Turned, Scan
  <2>3. CASE OpenQuote
    <3>1. line[p] \in Quotes /\ line[p] # inquote
      BY <1>4, <2>3, Zenon DEF OpenQuote
    <3>2. s \in MarksBefore(p)
      BY <1>2, <1>5 DEF MarksBefore
    <3>3. ASSUME NEW k \in MarksBefore(p) PROVE k <= s
      <4>1. k \in 1..p - 1 /\ line[k] \in Quotes
        BY DEF MarksBefore
      <4>2. k \notin b..p - 1
        BY <1>1, <4>1, Zenon
      <4> QED
        BY <1>2, <4>1, <4>2
    <3>4. line[p] = line[s]
      BY <1>1, <2>0, <3>1, <3>2, <3>3, Zenon DEF WellQuoted
    <3> QED
      BY <1>1, <3>1, <3>4, Zenon
  <2>4. CASE Advance
    <3>1. line[p] \notin Quotes
      BY <2>4 DEF Advance
    <3>2. words' = words /\ word_start' = b /\ p' = p + 1 /\ inquote' = inquote
      BY <1>3, <2>4, Zenon DEF Advance
    <3>3. b \in 2..p + 1 /\ \A k \in b..(p + 1) - 1 : k \in b..p - 1 \/ k = p
      BY <1>1, <1>2
    <3>4. \A k \in b..(p + 1) - 1 : line[k] \notin Quotes
      BY <1>1, <3>1, <3>3, Zenon
    <3>5. InQuote(words, p + 1, b, inquote)
      BY <1>1, <2>1, <3>1, <3>3, <3>4, Zenon DEF InQuote
    <3> QED
      BY <1>8, <3>2, <3>5, Zenon DEF Turned, Scan
  <2> QED
    BY <2>2, <2>3, <2>4
<1> QED
  BY <1>7, <1>8

(* The words of the line as far as they fit, in w.                         *)
Tokenised(w) ==
  LET all == Leading + Cardinality(Starts)
  IN /\ Len(w) = IF all < MaxWords THEN all ELSE MaxWords - 1
     /\ Leading = 1 /\ w # <<>> => w[1] = <<>>
     /\ \A i \in Starts : Place(i) < MaxWords => IsWord(i, w[Place(i)])

LEMMA ScanStops ==
  ASSUME LineOK, NEW w, NEW q \in Nat, HoldsIn(w, q), Len(w) <= MaxWords - 1,
         q = Len(line) + 1 \/ Len(w) = MaxWords - 1
  PROVE  Tokenised(w)
<1> DEFINE n == Cardinality(Below(q))
           a == Cardinality(Starts)
<1>1. MaxWords \in Nat \ {0} /\ Leading \in {0, 1}
  BY WordsAssumption DEF Leading
<1>2. /\ Starts \subseteq Nat /\ IsFiniteSet(Starts) /\ Below(q) \subseteq Starts
      /\ \A i \in Starts : i < Len(line) + 1
  <2>1. Starts \subseteq 1..Len(line) /\ IsFiniteSet(Starts)
    BY BelowFacts, Zenon
  <2>2. Len(line) \in Nat
    BY LineFacts
  <2>3. Below(q) \subseteq Starts
    BY DEF Below
  <2> QED
    BY <2>1, <2>2, <2>3
<1>3. n \in Nat /\ a \in Nat /\ n <= a
  BY <1>2, CountSubset, Zenon
<1>4. Len(w) = Leading + n /\ (Leading = 1 => w[1] = <<>>)
      /\ \A i \in Below(q) : IsWord(i, w[Place(i)])
  BY DEF HoldsIn
<1>5. q = Len(line) + 1 => n = a
  <2>1. q = Len(line) + 1 => Below(q) = Starts
    BY BelowFacts
  <2> QED
    BY <2>1
<1> HIDE DEF a
<1>6. Len(w) = IF Leading + a < MaxWords THEN Leading + a ELSE MaxWords - 1
  <2> HIDE DEF n
  <2> QED
    BY <1>1, <1>3, <1>4, <1>5
<1>7. ASSUME NEW i \in Starts, Place(i) < MaxWords PROVE IsWord(i, w[Place(i)])
  <2>1. CASE i \in Below(q)
    BY <1>4, <2>1, Zenon
  <2>2. CASE i \notin Below(q)
    <3>1. ~(i < q) /\ i \in Nat
      BY <1>2, <2>2 DEF Below
    <3>2. q # Len(line) + 1
      BY <1>2, <3>1
    <3>3. Below(q) \subseteq Below(i)
      <4>1. \A k \in Starts : k < q => k < i
        BY <1>2, <3>1
      <4> QED
        BY <4>1, Zenon DEF Below
    <3>4. IsFiniteSet(Below(i)) /\ Cardinality(Below(i)) \in Nat
      BY <3>1, BelowFacts, Zenon
    <3>5. n <= Cardinality(Below(i))
      BY <3>3, <3>4, CountSubset, Zenon
    <3>6. Place(i) = Leading + Cardinality(Below(i)) + 1
      BY PlaceIs, Zenon
    <3>7. Len(w) = MaxWords - 1
      BY <3>2
    <3> HIDE DEF n
    <3>8. FALSE
      BY <1>1, <1>3, <1>4, <1>7, <3>4, <3>5, <3>6, <3>7
    <3> QED
      BY <3>8
  <2> QED
    BY <2>1, <2>2
<1> QED
  BY <1>4, <1>6, <1>7, Zenon DEF Tokenised, a

LEMMA NoWords ==
  ASSUME LineOK, MaxWords = 1
  PROVE  Tokenised(<<>>)
<1>1. Leading \in {0, 1} /\ Cardinality(Starts) \in Nat
  BY BelowFacts, FS_CardinalityType DEF Leading
<1>2. \A i \in Starts : ~(Place(i) < MaxWords)
  <2> SUFFICES ASSUME NEW i \in Starts PROVE ~(Place(i) < MaxWords)
    OBVIOUS
  <2>1. Place(i) \in Nat \ {0}
    BY PlaceIs, Zenon
  <2> QED
    BY <2>1
<1> QED
  BY <1>1, <1>2 DEF Tokenised

LEMMA TruncatedStops ==
  ASSUME ParseTypes, Scan(words, p, word_start, inquote), Len(words) = MaxWords - 1
  PROVE  Tokenised(words)
<1>1. LineOK /\ p \in Nat /\ MaxWords \in Nat /\ Len(words) <= MaxWords - 1
  BY Here, WordsAssumption DEF ParseTypes
<1>2. Starts \subseteq Nat
  <2>1. Starts \subseteq 1..Len(line)
    BY <1>1, BelowFacts, Zenon
  <2> QED
    BY <2>1
<1>3. CASE AtStart(words, p, word_start, inquote)
  <2>1. words = <<>> /\ MaxWords = 1
    BY <1>1, <1>3 DEF AtStart
  <2> QED
    BY <1>1, <2>1, NoWords, Zenon
<1>4. CASE Between(words, p, word_start, inquote)
  BY <1>1, <1>4, ScanStops, Zenon DEF Between
<1>5. CASE InWord(words, p, word_start, inquote)
  <2>1. HoldsIn(words, word_start) /\ word_start \in Nat
    BY <1>2, <1>5 DEF InWord
  <2> QED
    BY <1>1, <2>1, ScanStops, Zenon
<1>6. CASE InQuote(words, p, word_start, inquote)
  <2>1. HoldsIn(words, word_start - 1) /\ word_start - 1 \in Nat
    BY <1>2, <1>6 DEF InQuote
  <2> QED
    BY <1>1, <2>1, ScanStops, Zenon
<1> QED
  BY <1>3, <1>4, <1>5, <1>6 DEF Scan

(* The types hold for every line.                                          *)
LEMMA TurnTypes ==
  ASSUME ParseTypes, EndWord \/ OpenQuote \/ Advance, line' = line
  PROVE  /\ ParseTypes' /\ Len(words') \in {Len(words), Len(words) + 1}
<1> DEFINE W == Seq(Range(line))
<1>1. /\ LineOK /\ p \in 1..Len(line) + 1 /\ word_start \in {None} \cup 1..p
      /\ inquote \in {None} \cup Quotes /\ words \in Seq(W)
  BY DEF ParseTypes
<1>2. /\ p \in Nat \ {0} /\ Len(line) \in Nat \ {0}
      /\ (~AtEnd => line[p] \in Range(line) /\ p + 1 \in 1..Len(line) + 1)
  BY Here DEF AtEnd
<1>3. ~Ends => ~AtEnd
  BY DEF Ends
<1>4. words' = words \/ \E x \in W : words' = Append(words, x)
  <2>1. CASE EndWord
    <3>1. CASE word_start = None
      BY <2>1, <3>1, Zenon DEF EndWord
    <3>2. CASE word_start # None
      <4>1. word_start \in 1..p
        BY <1>1, <3>2, Zenon
      <4>2. SubSeq(line, word_start, p - 1) \in W
        BY <4>1, WordPart, Zenon
      <4> QED
        BY <2>1, <3>2, <4>2, Zenon DEF EndWord
    <3> QED
      BY <3>1, <3>2
  <2>2. CASE OpenQuote
    BY <2>2 DEF OpenQuote
  <2>3. CASE Advance
    <3>1. CASE line[p] = "|"
      <4>1. ~AtEnd
        BY <1>3, <2>3 DEF Advance
      <4>2. "|" \in Range(line)
        BY <1>2, <3>1, <4>1, Zenon
      <4>3. <<"|">> \in W
        <5>1. \A S : \A y \in S : <<y>> \in Seq(S)
          OBVIOUS
        <5> QED
          BY <4>2, <5>1, Zenon
      <4> QED
        BY <2>3, <4>3, Zenon DEF Advance
    <3>2. CASE line[p] # "|"
      BY <2>3, <3>2, Zenon DEF Advance
    <3> QED
      BY <3>1, <3>2
  <2> QED
    BY <2>1, <2>2, <2>3
<1>5. words' \in Seq(W) /\ Len(words') \in {Len(words), Len(words) + 1}
  <2> HIDE DEF W
  <2> QED
    BY <1>1, <1>4
<1>6. /\ p' \in 1..Len(line) + 1 /\ word_start' \in {None} \cup 1..p'
      /\ inquote' \in {None} \cup Quotes
  <2>1. CASE EndWord
    <3>1. CASE AtEnd
      BY <1>1, <2>1, <3>1 DEF EndWord
    <3>2. CASE ~AtEnd
      BY <1>1, <1>2, <2>1, <3>2 DEF EndWord
    <3> QED
      BY <3>1, <3>2
  <2>2. CASE OpenQuote
    <3>1. p' = p + 1 /\ word_start' = p + 1 /\ inquote' = line[p] /\ line[p] \in Quotes /\ ~AtEnd
      BY <1>3, <2>2 DEF OpenQuote
    <3> QED
      BY <1>2, <3>1
  <2>3. CASE Advance
    <3>1. p' = p + 1 /\ inquote' = inquote /\ ~AtEnd
          /\ (word_start' = p \/ word_start' = word_start)
      BY <1>3, <2>3 DEF Advance
    <3>2. \A k \in 1..p : k \in 1..p + 1
      BY <1>2
    <3>3. p \in 1..p
      BY <1>2
    <3>4. word_start' \in {None} \cup 1..p + 1
      BY <1>1, <3>1, <3>2, <3>3, Zenon
    <3> QED
      BY <1>1, <1>2, <3>1, <3>4, Zenon
  <2> QED
    BY <2>1, <2>2, <2>3
<1> QED
  BY <1>1, <1>5, <1>6, Zenon DEF ParseTypes, LineOK

(* What depends on the line alone does not change.                         *)
LEMMA SameLine ==
  ASSUME line' = line
  PROVE  /\ \A i : MarksBefore(i)' = MarksBefore(i) /\ (Inside(i)' <=> Inside(i))
         /\ WellQuoted' <=> WellQuoted
         /\ Starts' = Starts /\ Leading' = Leading
         /\ \A q : Below(q)' = Below(q) /\ Place(q)' = Place(q)
         /\ \A i, w : IsWord(i, w)' <=> IsWord(i, w)
<1>1. \A i : MarksBefore(i)' = MarksBefore(i)
  BY Zenon DEF MarksBefore
<1>2. \A i : Inside(i)' <=> Inside(i)
  BY <1>1, Zenon DEF Inside
<1>3. WellQuoted' <=> WellQuoted
  BY <1>1, <1>2, Zenon DEF WellQuoted
<1>4. Starts' = Starts
  BY <1>2, Zenon DEF Starts
<1>5. Leading' = Leading
  BY Zenon DEF Leading
<1>6. \A q : Below(q)' = Below(q) /\ Place(q)' = Place(q)
  BY <1>4, <1>5, Zenon DEF Below, Place
<1>7. \A i : Closes(i)' = Closes(i)
  BY Zenon DEF Closes
<1>8. \A i, w : IsWord(i, w)' <=> IsWord(i, w)
  BY <1>7, Zenon DEF IsWord
<1> QED
  BY <1>1, <1>2, <1>3, <1>4, <1>5, <1>6, <1>8, Zenon

LEMMA SameScan ==
  ASSUME line' = line
  PROVE  /\ Turned => Scan(words, p, word_start, inquote)'
         /\ Tokenised(words') => Tokenised(words)'
<1>1. /\ \A i : Inside(i)' <=> Inside(i)
      /\ Starts' = Starts /\ Leading' = Leading
      /\ \A q : Below(q)' = Below(q) /\ Place(q)' = Place(q)
      /\ \A i, w : IsWord(i, w)' <=> IsWord(i, w)
  BY SameLine, Zenon
<1>2. \A w, q : HoldsIn(w, q) => HoldsIn(w, q)'
  BY <1>1, Zenon DEF HoldsIn
<1>3. AtStart(words', p', word_start', inquote') => AtStart(words, p, word_start, inquote)'
  BY Zenon DEF AtStart
<1>4. Between(words', p', word_start', inquote') => Between(words, p, word_start, inquote)'
  BY <1>1, <1>2, Zenon DEF Between
<1>5. InWord(words', p', word_start', inquote') => InWord(words, p, word_start, inquote)'
  BY <1>1, <1>2, Zenon DEF InWord
<1>6. InQuote(words', p', word_start', inquote') => InQuote(words, p, word_start, inquote)'
  BY <1>1, <1>2, Zenon DEF InQuote
<1>7. Tokenised(words') => Tokenised(words)'
  BY <1>1, Zenon DEF Tokenised
<1> QED
  BY <1>3, <1>4, <1>5, <1>6, <1>7, Zenon DEF Turned, Scan

(* While the line is parsed, the scan is where Scan says.                  *)
ParseInv ==
  /\ ParseTypes /\ Len(words) <= MaxWords - 1
  /\ WellQuoted => IF stage = "parse" THEN Scan(words, p, word_start, inquote)
                                      ELSE Tokenised(words)

LEMMA ParseInvInit == Init => ParseInv
<1> SUFFICES ASSUME Init PROVE ParseInv
  OBVIOUS
<1>1. LineOK /\ Len(line) \in Nat \ {0}
  <2>1. LineOK
    BY LinesAssumption, Zenon DEF Init, LineOK
  <2> QED
    BY <2>1, LineFacts, Zenon
<1>2. /\ p = 1 /\ word_start = 1 /\ inquote = None /\ words = <<>> /\ stage = "parse"
  BY DEF Init
<1>3. 1 \in 1..Len(line) + 1 /\ 1 \in 1..1
  BY <1>1
<1>4. ParseTypes
  <2>1. <<>> \in Seq(Seq(Range(line)))
    OBVIOUS
  <2> QED
    BY <1>1, <1>2, <1>3, <2>1, Zenon DEF ParseTypes
<1>5. Len(words) <= MaxWords - 1
  <2>1. Len(<<>>) = 0 /\ 0 <= MaxWords - 1
    BY WordsAssumption
  <2> QED
    BY <1>2, <2>1, Zenon
<1>6. Scan(words, p, word_start, inquote)
  BY <1>2, Zenon DEF Scan, AtStart
<1> QED
  BY <1>2, <1>4, <1>5, <1>6, Zenon DEF ParseInv

(* A step that leaves the words alone.                                     *)
LEMMA ParseInvKept ==
  ASSUME ParseInv, UNCHANGED parsevars, stage = "parse" <=> stage' = "parse"
  PROVE  ParseInv'
<1>1. line' = line /\ p' = p /\ word_start' = word_start /\ inquote' = inquote /\ words' = words
  BY DEF parsevars
<1>2. ParseTypes' /\ Len(words') <= MaxWords - 1
  BY <1>1, Zenon DEF ParseInv, ParseTypes, LineOK
<1>3. WellQuoted' <=> WellQuoted
  BY <1>1, SameLine, Zenon
<1>4. /\ Turned => Scan(words, p, word_start, inquote)'
      /\ Tokenised(words') => Tokenised(words)'
  BY <1>1, SameScan, Zenon
<1>5. Scan(words, p, word_start, inquote) => Turned
  BY <1>1, Zenon DEF Turned
<1>6. Tokenised(words) => Tokenised(words')
  BY <1>1, Zenon
<1> QED
  BY <1>2, <1>3, <1>4, <1>5, <1>6, Zenon DEF ParseInv

LEMMA ParseInvTurn ==
  ASSUME ParseInv, stage = "parse", Len(words) < MaxWords - 1, line' = line,
         EndWord \/ OpenQuote \/ Advance
  PROVE  ParseInv'
<1>1. ParseTypes /\ LineOK /\ words \in Seq(Seq(Range(line)))
  BY DEF ParseInv, ParseTypes
<1>2. ParseTypes' /\ Len(words') \in {Len(words), Len(words) + 1}
  BY <1>1, TurnTypes, Zenon
<1>3. Len(words') <= MaxWords - 1
  <2>1. Len(words) \in Nat /\ MaxWords \in Nat
    BY <1>1, WordsAssumption
  <2> QED
    BY <1>2, <2>1
<1>4. IF AtEnd THEN stage' = "init" ELSE stage' = "parse"
  <2>1. ~Ends => ~AtEnd
    BY DEF Ends
  <2> QED
    BY <2>1, Zenon DEF EndWord, OpenQuote, Advance
<1>5. ASSUME WellQuoted' PROVE IF stage' = "parse" THEN Scan(words, p, word_start, inquote)' ELSE Tokenised(words)'
  <2>1. WellQuoted
    BY <1>5, SameLine, Zenon
  <2>2. Scan(words, p, word_start, inquote)
    BY <2>1, Zenon DEF ParseInv
  <2>3. IF AtEnd THEN Finished ELSE Turned
    <3>1. CASE AtStart(words, p, word_start, inquote)
      BY <1>1, <3>1, StartTurn, Zenon
    <3>2. CASE Between(words, p, word_start, inquote)
      BY <1>1, <3>2, BetweenTurn, Zenon
    <3>3. CASE InWord(words, p, word_start, inquote)
      BY <1>1, <2>1, <3>3, WordTurn, Zenon
    <3>4. CASE InQuote(words, p, word_start, inquote)
      BY <1>1, <2>1, <3>4, QuoteTurn, Zenon
    <3> QED
      BY <2>2, <3>1, <3>2, <3>3, <3>4, Zenon DEF Scan
  <2>4. CASE AtEnd
    <3>1. HoldsIn(words', Len(line) + 1)
      BY <2>3, <2>4, Zenon DEF Finished
    <3>2. Len(line) + 1 \in Nat
      <4>1. Len(line) \in Nat \ {0}
        BY <1>1, LineFacts, Zenon
      <4> QED
        BY <4>1
    <3>3. Tokenised(words')
      BY <1>1, <1>3, <3>1, <3>2, ScanStops, Zenon
    <3>4. Tokenised(words)'
      BY <3>3, SameScan, Zenon
    <3>5. stage' # "parse"
      BY <1>4, <2>4
    <3> QED
      BY <3>4, <3>5, Zenon
  <2>5. CASE ~AtEnd
    <3>1. stage' = "parse" /\ Turned
      BY <1>4, <2>3, <2>5, Zenon
    <3> QED
      BY <3>1, SameScan, Zenon
  <2> QED
    BY <2>4, <2>5
<1> QED
  BY <1>2, <1>3, <1>5, Zenon DEF ParseInv

LEMMA ParseInvNext == ParseInv /\ [Next]_vars => ParseInv'
<1> SUFFICES ASSUME ParseInv, [Next]_vars PROVE ParseInv'
  OBVIOUS
<1>1. CASE Parse
  <2>1. stage = "parse" /\ line' = line
    BY <1>1 DEF Parse
  <2>2. CASE Len(words) < MaxWords - 1 /\ (EndWord \/ OpenQuote \/ Advance)
    BY <2>1, <2>2, ParseInvTurn, Zenon
  <2>3. CASE /\ Len(words) = MaxWords - 1 /\ stage' = "init"
             /\ UNCHANGED <<p, word_start, inquote, words>>
    <3>1. p' = p /\ word_start' = word_start /\ inquote' = inquote /\ words' = words
          /\ stage' # "parse"
      BY <2>3
    <3>2. ParseTypes' /\ Len(words') <= MaxWords - 1
      BY <2>1, <3>1, Zenon DEF ParseInv, ParseTypes, LineOK
    <3>3. WellQuoted => Tokenised(words)
      BY <2>1, <2>3, TruncatedStops, Zenon DEF ParseInv
    <3>4. WellQuoted' => Tokenised(words)'
      <4>1. WellQuoted' <=> WellQuoted
        BY <2>1, SameLine, Zenon
      <4>2. Tokenised(words') => Tokenised(words)'
        BY <2>1, SameScan, Zenon
      <4>3. Tokenised(words) => Tokenised(words')
        BY <3>1, Zenon
      <4> QED
        BY <3>3, <4>1, <4>2, <4>3, Zenon
    <3> QED
      BY <3>1, <3>2, <3>4, Zenon DEF ParseInv
  <2> QED
    BY <1>1, <2>2, <2>3, Zenon DEF Parse
<1>2. CASE ~Parse
  <2>1. UNCHANGED parsevars /\ (stage = "parse" <=> stage' = "parse")
    <3>1. CASE InitFilter
      <4>1. stage = "init" /\ stage' \in {"done", "cleanup", "init"} /\ UNCHANGED parsevars
        BY <3>1, Zenon DEF InitFilter
      <4> QED
        BY <4>1
    <3>2. CASE CallCallback
      <4>1. stage = "init" /\ stage' \in {"done", "print"} /\ UNCHANGED parsevars
        BY <3>2 DEF CallCallback
      <4> QED
        BY <4>1
    <3>3. CASE PrintLine
      BY <3>3, Zenon DEF PrintLine
    <3>4. CASE CallbackReturns
      BY <3>4 DEF CallbackReturns
    <3>5. CASE CleanUp
      <4>1. stage = "cleanup" /\ stage' \in {"done", "cleanup"} /\ UNCHANGED parsevars
        BY <3>5, Zenon DEF CleanUp
      <4> QED
        BY <4>1
    <3>6. CASE UNCHANGED vars
      BY <3>6, Zenon DEF vars, parsevars
    <3> QED
      BY <1>2, <3>1, <3>2, <3>3, <3>4, <3>5, <3>6, Zenon DEF Next
  <2> QED
    BY <2>1, ParseInvKept, Zenon
<1> QED
  BY <1>1, <1>2

(* cli_parse_line: the words of every well quoted line are those of the    *)
(* line, in order and whole, as many as words[] has room for, whatever the *)
(* lines and the room.                                                     *)
THEOREM LineCutIntoWords == Spec => []WordsAreTokens
<1>1. Init => ParseInv
  BY ParseInvInit
<1>2. ParseInv /\ [Next]_vars => ParseInv'
  BY ParseInvNext
<1>3. ParseInv => WordsAreTokens
  BY Zenon DEF ParseInv, WordsAreTokens, Tokenised
<1> QED
  BY <1>1, <1>2, <1>3, PTL DEF Spec

(* f[0] is x, and g says how each value follows from the last one.         *)
Follows(f, g, x, n) == f[0] = x /\ \A i \in 1..n : f[i] = g[i][f[i - 1]]

LEMMA RecursionExists ==
  ASSUME NEW n \in Nat, NEW S, NEW x \in S, NEW g,
         \A i \in 1..n : \A y \in S : g[i][y] \in S
  PROVE  \E f \in [0..n -> S] : Follows(f, g, x, n)
<1> DEFINE E == {k \in 0..n : \E f \in [0..k -> S] : Follows(f, g, x, k)}
<1>1. 0 \in E
  <2> DEFINE f == [i \in 0..0 |-> x]
  <2>1. f \in [0..0 -> S] /\ Follows(f, g, x, 0)
    BY DEF Follows
  <2>2. 0 \in 0..n
    OBVIOUS
  <2> HIDE DEF f
  <2> QED
    BY <2>1, <2>2
<1>2. ASSUME NEW k \in 0..n - 1, k \in E PROVE k + 1 \in E
  <2>1. PICK f \in [0..k -> S] : Follows(f, g, x, k)
    BY <1>2
  <2> DEFINE next == g[k + 1][f[k]]
             h == [i \in 0..k + 1 |-> IF i <= k THEN f[i] ELSE next]
  <2>2. k \in 0..k /\ k + 1 \in 1..n /\ k + 1 \in 0..n /\ (k + 1) - 1 = k
    OBVIOUS
  <2>3. f[k] \in S
    BY <2>2
  <2>4. next \in S
    BY <2>2, <2>3
  <2>5. h \in [0..k + 1 -> S] /\ h[0] = f[0]
    <3> HIDE DEF next
    <3> QED
      BY <2>4
  <2>6. ASSUME NEW i \in 1..k + 1 PROVE h[i] = g[i][h[i - 1]]
    <3>1. h[i - 1] = f[i - 1]
      OBVIOUS
    <3>2. CASE i = k + 1
      <4>1. h[i] = next
        BY <3>2
      <4> QED
        BY <2>2, <3>1, <3>2, <4>1, Zenon
    <3>3. CASE i # k + 1
      <4>1. i \in 1..k /\ h[i] = f[i]
        BY <3>3
      <4> QED
        BY <2>1, <3>1, <4>1, Zenon DEF Follows
    <3> QED
      BY <3>2, <3>3
  <2> HIDE DEF h
  <2>7. Follows(h, g, x, k + 1)
    BY <2>1, <2>5, <2>6, Zenon DEF Follows
  <2> QED
    BY <2>2, <2>5, <2>7
<1>3. n \in E
  <2>1. \A k \in 0..n - 1 : k \in E => k + 1 \in E
    BY <1>2
  <2> HIDE DEF E
  <2> QED
    BY <1>1, <2>1, UpTo, Zenon
<1> QED
  BY <1>3


-----------------------------------------------------------------------------
(* Sequences *)

IsSeq(s) == \E S : s \in Seq(S)

LEMMA SeqFacts ==
  ASSUME NEW s, IsSeq(s)
  PROVE  /\ Len(s) \in Nat /\ DOMAIN s = 1..Len(s)
         /\ (s = <<>> <=> Len(s) = 0)
         /\ s # <<>> => Head(s) = s[1]
<1>1. PICK S : s \in Seq(S)
  BY DEF IsSeq
<1> QED
  BY <1>1

LEMMA AppendFacts ==
  ASSUME NEW s, IsSeq(s), NEW x
  PROVE  /\ IsSeq(Append(s, x)) /\ Len(Append(s, x)) = Len(s) + 1
         /\ Append(s, x)[Len(s) + 1] = x /\ \A i \in 1..Len(s) : Append(s, x)[i] = s[i]
<1>1. PICK S : s \in Seq(S)
  BY DEF IsSeq
<1> DEFINE T == S \cup {x}
<1>2. x \in T /\ s \in Seq(T)
  <2>1. \A i \in 1..Len(s) : s[i] \in T
    BY <1>1
  <2> QED
    BY <1>1, <2>1
<1> HIDE DEF T
<1>3. /\ Append(s, x) \in Seq(T) /\ Len(Append(s, x)) = Len(s) + 1
      /\ Append(s, x)[Len(s) + 1] = x /\ \A i \in 1..Len(s) : Append(s, x)[i] = s[i]
  BY <1>2
<1> QED
  BY <1>3, Zenon DEF IsSeq

LEMMA TailFacts ==
  ASSUME NEW s, IsSeq(s), s # <<>>
  PROVE  /\ IsSeq(Tail(s)) /\ Len(Tail(s)) = Len(s) - 1
         /\ \A i \in 1..Len(s) - 1 : Tail(s)[i] = s[i + 1]
<1>1. PICK S : s \in Seq(S)
  BY DEF IsSeq
<1>2. /\ Tail(s) \in Seq(S) /\ Len(Tail(s)) = Len(s) - 1
      /\ \A i \in 1..Len(s) - 1 : Tail(s)[i] = s[i + 1]
  BY <1>1
<1> QED
  BY <1>2, Zenon DEF IsSeq

(* A sequence with another first element.                                  *)
LEMMA ReplacedHead ==
  ASSUME NEW s, IsSeq(s), s # <<>>, NEW x
  PROVE  /\ IsSeq(<<x>> \o Tail(s)) /\ Len(<<x>> \o Tail(s)) = Len(s)
         /\ (<<x>> \o Tail(s))[1] = x
         /\ \A i \in 2..Len(s) : (<<x>> \o Tail(s))[i] = s[i]
<1>1. PICK S : s \in Seq(S)
  BY DEF IsSeq
<1> DEFINE T == S \cup {x}
<1>2. <<x>> \in Seq(T) /\ s \in Seq(T)
  <2>1. \A i \in 1..Len(s) : s[i] \in T
    BY <1>1
  <2> QED
    BY <1>1, <2>1
<1> HIDE DEF T
<1>3. /\ <<x>> \o Tail(s) \in Seq(T) /\ Len(<<x>> \o Tail(s)) = Len(s)
      /\ (<<x>> \o Tail(s))[1] = x
      /\ \A i \in 2..Len(s) : (<<x>> \o Tail(s))[i] = s[i]
  BY <1>2
<1> QED
  BY <1>3, Zenon DEF IsSeq

LEMMA SubSeqFacts ==
  ASSUME NEW s, IsSeq(s), NEW i \in 1..Len(s) + 1, NEW j \in i - 1..Len(s)
  PROVE  /\ IsSeq(SubSeq(s, i, j)) /\ Len(SubSeq(s, i, j)) = j - i + 1
         /\ \A k \in 1..j - i + 1 : SubSeq(s, i, j)[k] = s[i + k - 1]
<1>1. PICK S : s \in Seq(S)
  BY DEF IsSeq
<1>2. /\ SubSeq(s, i, j) \in Seq(S) /\ Len(SubSeq(s, i, j)) = j - i + 1
      /\ \A k \in 1..j - i + 1 : SubSeq(s, i, j)[k] = s[i + k - 1]
  BY <1>1
<1> QED
  BY <1>2, Zenon DEF IsSeq

LEMMA SameSeq ==
  ASSUME NEW s, IsSeq(s), NEW t, IsSeq(t), Len(s) = Len(t), \A i \in 1..Len(t) : s[i] = t[i]
  PROVE  s = t
<1>1. PICK S : s \in Seq(S)
  BY DEF IsSeq
<1>2. PICK T : t \in Seq(T)
  BY DEF IsSeq
<1> DEFINE U == S \cup T
<1>3. s \in Seq(U) /\ t \in Seq(U)
  <2>1. (\A i \in 1..Len(s) : s[i] \in U) /\ \A i \in 1..Len(t) : t[i] \in U
    BY <1>1, <1>2
  <2> QED
    BY <1>1, <1>2, <2>1
<1> HIDE DEF U
<1> QED
  BY <1>3

LEMMA WholeSeq ==
  ASSUME NEW s, IsSeq(s)
  PROVE  s = SubSeq(s, 1, Len(s))
<1> DEFINE m == Len(s)
           t == SubSeq(s, 1, m)
<1>1. m \in Nat
  BY SeqFacts, Zenon
<1>2. 1 \in 1..m + 1 /\ m \in 1 - 1..m /\ m - 1 + 1 = m /\ \A k \in 1..m : 1 + k - 1 = k
  BY <1>1
<1>3. IsSeq(t) /\ Len(t) = m - 1 + 1 /\ \A k \in 1..m - 1 + 1 : t[k] = s[1 + k - 1]
  BY <1>2, SubSeqFacts, Zenon
<1> HIDE DEF t
<1>4. Len(s) = Len(t) /\ \A k \in 1..Len(t) : s[k] = t[k]
  <2> HIDE DEF m
  <2>1. Len(t) = m /\ \A k \in 1..m : t[k] = s[k]
    BY <1>2, <1>3
  <2> QED
    BY <2>1, Zenon DEF m
<1>5. s = t
  BY <1>3, <1>4, SameSeq, Zenon
<1> QED
  BY <1>5, Zenon DEF t, m

(* A part of a tail, and a tail of a tail.                                 *)
LEMMA PartOfTail ==
  ASSUME NEW s, IsSeq(s), NEW a \in 1..Len(s) + 1, NEW m \in 0..Len(s) - a + 1
  PROVE  /\ SubSeq(SubSeq(s, a, Len(s)), 1, m) = SubSeq(s, a, a + m - 1)
         /\ m < Len(s) - a + 1 =>
              SubSeq(SubSeq(s, a, Len(s)), m + 1 + 1, Len(s) - a + 1) = SubSeq(s, a + m + 1, Len(s))
<1> DEFINE n == Len(s)
           t == SubSeq(s, a, n)
           u == SubSeq(t, 1, m)
           v == SubSeq(s, a, a + m - 1)
           x == SubSeq(t, m + 1 + 1, n - a + 1)
           y == SubSeq(s, a + m + 1, n)
<1>0. n \in Nat /\ a \in Nat /\ a >= 1 /\ a <= n + 1 /\ m \in Nat /\ m <= n - a + 1
  BY SeqFacts
<1>1. /\ IsSeq(t) /\ Len(t) = n - a + 1 /\ \A k \in 1..n - a + 1 : t[k] = s[a + k - 1]
  <2>1. n \in a - 1..n /\ a \in 1..n + 1
    BY <1>0
  <2> QED
    BY <2>1, SubSeqFacts, Zenon
<1>2. /\ IsSeq(u) /\ Len(u) = m /\ \A k \in 1..m : u[k] = t[k]
  <2> HIDE DEF t, n
  <2>1. 1 \in 1..Len(t) + 1 /\ m \in 1 - 1..Len(t) /\ m - 1 + 1 = m /\ \A k \in 1..m : 1 + k - 1 = k
    BY <1>0, <1>1
  <2>2. /\ IsSeq(u) /\ Len(u) = m - 1 + 1 /\ \A k \in 1..m - 1 + 1 : u[k] = t[1 + k - 1]
    BY <1>1, <2>1, SubSeqFacts, ZenonT(30)
  <2> HIDE DEF u
  <2> QED
    BY <2>1, <2>2
<1>3. /\ IsSeq(v) /\ Len(v) = m /\ \A k \in 1..m : v[k] = s[a + k - 1]
  <2>1. a \in 1..n + 1 /\ a + m - 1 \in a - 1..n /\ (a + m - 1) - a + 1 = m
    BY <1>0
  <2>2. /\ IsSeq(v) /\ Len(v) = (a + m - 1) - a + 1
        /\ \A k \in 1..(a + m - 1) - a + 1 : v[k] = s[a + k - 1]
    BY <2>1, SubSeqFacts, Zenon
  <2> HIDE DEF v, n
  <2> QED
    BY <2>1, <2>2
<1>4. u = v
  <2>1. \A k \in 1..Len(v) : u[k] = v[k]
    <3>1. \A k \in 1..m : k \in 1..n - a + 1
      BY <1>0
    <3> HIDE DEF u, v, t, n
    <3>2. \A k \in 1..m : u[k] = v[k]
      BY <1>1, <1>2, <1>3, <3>1, Zenon
    <3> QED
      BY <1>3, <3>2, Zenon
  <2> HIDE DEF u, v
  <2> QED
    BY <1>2, <1>3, <2>1, SameSeq, Zenon
<1>5. ASSUME m < n - a + 1 PROVE x = y
  <2> DEFINE j == n - a - m
  <2>0. j \in Nat
    BY <1>0, <1>5
  <2>1. /\ IsSeq(x) /\ Len(x) = j /\ \A k \in 1..j : x[k] = t[m + 1 + k]
    <3> HIDE DEF t, n
    <3>1. /\ m + 1 + 1 \in 1..Len(t) + 1 /\ n - a + 1 \in (m + 1 + 1) - 1..Len(t)
          /\ (n - a + 1) - (m + 1 + 1) + 1 = j /\ \A k \in 1..j : (m + 1 + 1) + k - 1 = m + 1 + k
      BY <1>0, <1>1, <1>5
    <3>2. PICK f, l : f = m + 1 + 1 /\ l = n - a + 1
      OBVIOUS
    <3>3. f \in 1..Len(t) + 1 /\ l \in f - 1..Len(t) /\ x = SubSeq(t, f, l)
      BY <3>1, <3>2, Zenon
    <3> HIDE DEF x, j
    <3>4. /\ IsSeq(x) /\ Len(x) = l - f + 1 /\ \A k \in 1..l - f + 1 : x[k] = t[f + k - 1]
      BY <1>1, <3>3, SubSeqFacts, ZenonT(30)
    <3> QED
      BY <3>1, <3>2, <3>4
  <2>2. /\ IsSeq(y) /\ Len(y) = j /\ \A k \in 1..j : y[k] = s[a + m + k]
    <3>1. /\ a + m + 1 \in 1..n + 1 /\ n \in (a + m + 1) - 1..n
          /\ n - (a + m + 1) + 1 = j /\ \A k \in 1..j : (a + m + 1) + k - 1 = a + m + k
      BY <1>0, <1>5
    <3>2. /\ IsSeq(y) /\ Len(y) = n - (a + m + 1) + 1
          /\ \A k \in 1..n - (a + m + 1) + 1 : y[k] = s[(a + m + 1) + k - 1]
      BY <3>1, SubSeqFacts, ZenonT(30)
    <3> HIDE DEF y, j, n
    <3> QED
      BY <3>1, <3>2
  <2>3. \A k \in 1..Len(y) : x[k] = y[k]
    <3>1. \A k \in 1..j : m + 1 + k \in 1..n - a + 1 /\ a + (m + 1 + k) - 1 = a + m + k
      BY <1>0, <1>5
    <3> HIDE DEF x, y, t, n, j
    <3>2. ASSUME NEW k \in 1..j PROVE x[k] = y[k]
      <4>1. m + 1 + k \in 1..n - a + 1 /\ a + (m + 1 + k) - 1 = a + m + k
        BY <3>1, Zenon
      <4>2. x[k] = t[m + 1 + k] /\ y[k] = s[a + m + k]
        BY <2>1, <2>2, Zenon
      <4>3. t[m + 1 + k] = s[a + (m + 1 + k) - 1]
        BY <1>1, <4>1, Zenon
      <4> QED
        BY <4>1, <4>2, <4>3, Zenon
    <3> QED
      BY <2>2, <3>2, Zenon
  <2> HIDE DEF x, y, j
  <2> QED
    BY <2>1, <2>2, <2>3, SameSeq, Zenon
<1> QED
  BY <1>4, <1>5

-----------------------------------------------------------------------------
(* The lines of the output *)

PrintedOK == IsSeq(printed) /\ \A n \in DOMAIN printed : IsSeq(printed[n])

(* x is line <<n, a>> and ends before the e-th character.                  *)
IsLine(n, a) ==
  /\ n \in 1..Len(printed) /\ a \in 1..Len(printed[n]) + 1
  /\ a = 1 \/ printed[n][a - 1] = "nl"
EndsAt(n, a, e) ==
  /\ e \in a..Len(printed[n]) + 1
  /\ \A i \in a..e - 1 : printed[n][i] # "nl"
  /\ e <= Len(printed[n]) => printed[n][e] = "nl"

LEMMA LineIs ==
  ASSUME PrintedOK
  PROVE  \A x : x \in OutputLines <=> \E n, a : x = <<n, a>> /\ IsLine(n, a)
<1>1. DOMAIN printed = 1..Len(printed)
  BY SeqFacts, Zenon DEF PrintedOK
<1>2. ASSUME NEW x \in OutputLines PROVE \E n, a : x = <<n, a>> /\ IsLine(n, a)
  <2>1. PICK n \in DOMAIN printed :
          x \in {n} \X {a \in 1..Len(printed[n]) + 1 : a = 1 \/ printed[n][a - 1] = "nl"}
    BY Zenon DEF OutputLines
  <2>2. PICK a \in {a \in 1..Len(printed[n]) + 1 : a = 1 \/ printed[n][a - 1] = "nl"} :
          x = <<n, a>>
    BY <2>1
  <2> QED
    BY <1>1, <2>1, <2>2, Zenon DEF IsLine
<1>3. ASSUME NEW n, NEW a, IsLine(n, a) PROVE <<n, a>> \in OutputLines
  <2>1. a \in {b \in 1..Len(printed[n]) + 1 : b = 1 \/ printed[n][b - 1] = "nl"}
    BY <1>3, Zenon DEF IsLine
  <2>2. <<n, a>> \in {n} \X {b \in 1..Len(printed[n]) + 1 : b = 1 \/ printed[n][b - 1] = "nl"}
    BY <2>1
  <2>3. n \in DOMAIN printed
    BY <1>1, <1>3, Zenon DEF IsLine
  <2> QED
    BY <2>2, <2>3, Zenon DEF OutputLines
<1> QED
  BY <1>2, <1>3, Zenon

LEMMA LineNumbers ==
  ASSUME PrintedOK, NEW n, NEW a, IsLine(n, a)
  PROVE  /\ n \in Nat \ {0} /\ a \in Nat \ {0} /\ n <= Len(printed) /\ a <= Len(printed[n]) + 1
         /\ Len(printed) \in Nat /\ Len(printed[n]) \in Nat /\ IsSeq(printed[n])
         /\ DOMAIN printed[n] = 1..Len(printed[n]) /\ n \in DOMAIN printed
<1>1. n \in 1..Len(printed) /\ a \in 1..Len(printed[n]) + 1
  BY DEF IsLine
<1>2. Len(printed) \in Nat /\ DOMAIN printed = 1..Len(printed)
  BY SeqFacts, Zenon DEF PrintedOK
<1>3. IsSeq(printed[n])
  BY <1>1, <1>2, Zenon DEF PrintedOK
<1>4. Len(printed[n]) \in Nat /\ DOMAIN printed[n] = 1..Len(printed[n])
  BY <1>3, SeqFacts, Zenon
<1>5. n \in Nat \ {0} /\ a \in Nat \ {0} /\ n <= Len(printed) /\ a <= Len(printed[n]) + 1
  BY <1>1, <1>2, <1>4
<1> QED
  BY <1>1, <1>2, <1>3, <1>4, <1>5, Zenon

LEMMA LineParts ==
  ASSUME PrintedOK, NEW y \in OutputLines
  PROVE  \E m, b \in Nat : /\ y = <<m, b>> /\ y[1] = m /\ y[2] = b /\ IsLine(m, b)
                            /\ m <= Len(printed) /\ b >= 1 /\ b <= Len(printed[m]) + 1
<1>1. PICK m, b : y = <<m, b>> /\ IsLine(m, b)
  BY LineIs, Zenon
<1>2. m \in Nat /\ b \in Nat /\ m <= Len(printed) /\ b >= 1 /\ b <= Len(printed[m]) + 1
  BY <1>1, LineNumbers
<1>3. y[1] = m /\ y[2] = b
  BY <1>1
<1> QED
  BY <1>1, <1>2, <1>3, Zenon

(* Before is an order of the lines.                                        *)
LEMMA BeforeOrder ==
  ASSUME PrintedOK
  PROVE  /\ \A x, y \in OutputLines : x = y \/ Before(x, y) \/ Before(y, x)
         /\ \A x, y \in OutputLines : Before(x, y) => ~Before(y, x)
         /\ \A x \in OutputLines : ~Before(x, x)
         /\ \A x, y, z \in OutputLines : Before(x, y) /\ Before(y, z) => Before(x, z)
<1>1. ASSUME NEW x \in OutputLines PROVE \E n, a \in Nat : x = <<n, a>> /\ x[1] = n /\ x[2] = a
  BY LineParts, Zenon
<1>2. ASSUME NEW x \in OutputLines, NEW y \in OutputLines
      PROVE  (x = y \/ Before(x, y) \/ Before(y, x)) /\ (Before(x, y) => ~Before(y, x))
             /\ ~Before(x, x)
  <2>1. PICK n, a \in Nat : x = <<n, a>> /\ x[1] = n /\ x[2] = a
    BY <1>1, Zenon
  <2>2. PICK m, b \in Nat : y = <<m, b>> /\ y[1] = m /\ y[2] = b
    BY <1>1, Zenon
  <2> QED
    BY <2>1, <2>2 DEF Before
<1>3. ASSUME NEW x \in OutputLines, NEW y \in OutputLines, NEW z \in OutputLines,
             Before(x, y), Before(y, z)
      PROVE  Before(x, z)
  <2>1. PICK n, a \in Nat : x = <<n, a>> /\ x[1] = n /\ x[2] = a
    BY <1>1, Zenon
  <2>2. PICK m, b \in Nat : y = <<m, b>> /\ y[1] = m /\ y[2] = b
    BY <1>1, Zenon
  <2>3. PICK k, c \in Nat : z = <<k, c>> /\ z[1] = k /\ z[2] = c
    BY <1>1, Zenon
  <2> QED
    BY <1>3, <2>1, <2>2, <2>3 DEF Before
<1> QED
  BY <1>2, <1>3, Zenon

(* The end of a line, and its text.                                        *)
LEMMA EndIs ==
  ASSUME PrintedOK, NEW n, NEW a, IsLine(n, a), NEW e, EndsAt(n, a, e)
  PROVE  LineEnd(<<n, a>>) = e /\ Text(<<n, a>>) = SubSeq(printed[n], a, e - 1)
<1> DEFINE t == printed[n]
           E == {k \in a..Len(t) + 1 : (\A i \in a..k - 1 : t[i] # "nl") /\ (k <= Len(t) => t[k] = "nl")}
<1>1. <<n, a>>[1] = n /\ <<n, a>>[2] = a
  OBVIOUS
<1>2. a \in Nat \ {0} /\ Len(t) \in Nat
  BY LineNumbers, Zenon
<1>3. e \in E
  BY DEF EndsAt
<1>4. ASSUME NEW k \in E PROVE k = e
  <2>1. k \in a..Len(t) + 1 /\ (\A i \in a..k - 1 : t[i] # "nl") /\ (k <= Len(t) => t[k] = "nl")
    OBVIOUS
  <2>2. e \in a..Len(t) + 1 /\ (\A i \in a..e - 1 : t[i] # "nl") /\ (e <= Len(t) => t[e] = "nl")
    BY DEF EndsAt
  <2> HIDE DEF t
  <2>3. ~(k < e)
    <3> SUFFICES ASSUME k < e PROVE FALSE
      OBVIOUS
    <3>1. k \in a..e - 1 /\ k <= Len(t)
      BY <1>2, <2>1, <2>2
    <3> QED
      BY <2>1, <2>2, <3>1, Zenon
  <2>4. ~(e < k)
    <3> SUFFICES ASSUME e < k PROVE FALSE
      OBVIOUS
    <3>1. e \in a..k - 1 /\ e <= Len(t)
      BY <1>2, <2>1, <2>2
    <3> QED
      BY <2>1, <2>2, <3>1, Zenon
  <2> QED
    BY <1>2, <2>1, <2>2, <2>3, <2>4
<1>5. LineEnd(<<n, a>>) = CHOOSE k \in a..Len(t) + 1 :
        (\A i \in a..k - 1 : t[i] # "nl") /\ (k <= Len(t) => t[k] = "nl")
  BY <1>1, Zenon DEF LineEnd
<1>6. LineEnd(<<n, a>>) = e
  <2>1. LineEnd(<<n, a>>) \in E
    BY <1>3, <1>5, Zenon
  <2> HIDE DEF E
  <2> QED
    BY <1>4, <2>1, Zenon
<1> QED
  BY <1>1, <1>6, Zenon DEF Text

LEMMA EndExists ==
  ASSUME PrintedOK, NEW n, NEW a, IsLine(n, a)
  PROVE  \E e : EndsAt(n, a, e)
<1> DEFINE t == printed[n]
           E == {k \in a..Len(t) + 1 : k = Len(t) + 1 \/ t[k] = "nl"}
<1>1. a \in Nat \ {0} /\ Len(t) \in Nat /\ a <= Len(t) + 1
  BY LineNumbers, Zenon
<1> HIDE DEF t
<1>2. E \subseteq Nat /\ Len(t) + 1 \in E
  BY <1>1
<1>3. PICK e \in E : \A k \in E : e <= k
  <2> HIDE DEF E
  <2> QED
    BY <1>2, Least
<1>4. e \in a..Len(t) + 1 /\ (e <= Len(t) => t[e] = "nl")
  BY <1>1
<1>5. ASSUME NEW i \in a..e - 1 PROVE t[i] # "nl"
  <2>1. i \in a..Len(t) + 1 /\ ~(e <= i)
    BY <1>1, <1>4
  <2> QED
    BY <1>3, <2>1
<1> QED
  BY <1>4, <1>5, Zenon DEF EndsAt, t

(* The line that follows, and what lies before it.                         *)
LEMMA NextLine ==
  ASSUME PrintedOK, NEW n, NEW a, IsLine(n, a), NEW e, EndsAt(n, a, e)
  PROVE  /\ e <= Len(printed[n]) =>
              /\ IsLine(n, e + 1)
              /\ \A y \in OutputLines : Before(y, <<n, e + 1>>) <=> Before(y, <<n, a>>) \/ y = <<n, a>>
         /\ e > Len(printed[n]) /\ n < Len(printed) =>
              /\ IsLine(n + 1, 1)
              /\ \A y \in OutputLines : Before(y, <<n + 1, 1>>) <=> Before(y, <<n, a>>) \/ y = <<n, a>>
         /\ e > Len(printed[n]) /\ n = Len(printed) =>
              \A y \in OutputLines : Before(y, <<n, a>>) \/ y = <<n, a>>
<1>1. /\ n \in Nat \ {0} /\ a \in Nat \ {0} /\ n <= Len(printed) /\ Len(printed) \in Nat
      /\ Len(printed[n]) \in Nat /\ n \in 1..Len(printed)
  BY LineNumbers, Zenon DEF IsLine
<1>2. /\ e \in a..Len(printed[n]) + 1 /\ (e <= Len(printed[n]) => printed[n][e] = "nl")
      /\ \A i \in a..e - 1 : printed[n][i] # "nl"
  BY DEF EndsAt
<1>3. ASSUME NEW y \in OutputLines
      PROVE  \E m, b \in Nat : /\ y = <<m, b>> /\ y[1] = m /\ y[2] = b /\ m <= Len(printed)
                               /\ m = n => b <= a \/ b >= e + 1
                               /\ m = n => b <= Len(printed[n]) + 1
                               /\ b >= 1
  <2>1. PICK m, b \in Nat : /\ y = <<m, b>> /\ y[1] = m /\ y[2] = b /\ IsLine(m, b)
                            /\ m <= Len(printed) /\ b >= 1 /\ b <= Len(printed[m]) + 1
    BY LineParts, Zenon
  <2>2. m \in Nat /\ b \in Nat /\ m <= Len(printed) /\ b >= 1 /\ b <= Len(printed[m]) + 1
    BY <2>1
  <2>3. ASSUME m = n, ~(b <= a), ~(b >= e + 1) PROVE FALSE
    <3>1. b - 1 \in a..e - 1 /\ b # 1
      BY <1>1, <1>2, <2>2, <2>3
    <3>2. printed[n][b - 1] = "nl"
      BY <2>1, <2>3, <3>1, Zenon DEF IsLine
    <3> QED
      BY <1>2, <3>1, <3>2, Zenon
  <2>5. m = n => b <= Len(printed[n]) + 1
    BY <2>2
  <2> QED
    BY <2>1, <2>2, <2>3, <2>5, Zenon
<1>4. <<n, a>>[1] = n /\ <<n, a>>[2] = a
  OBVIOUS
<1>5. ASSUME e <= Len(printed[n])
      PROVE  /\ IsLine(n, e + 1)
             /\ \A y \in OutputLines : Before(y, <<n, e + 1>>) <=> Before(y, <<n, a>>) \/ y = <<n, a>>
  <2>1. IsLine(n, e + 1)
    <3>1. e + 1 \in 1..Len(printed[n]) + 1 /\ (e + 1) - 1 = e
      BY <1>1, <1>2, <1>5
    <3> QED
      BY <1>1, <1>2, <1>5, <3>1, Zenon DEF IsLine
  <2>2. ASSUME NEW y \in OutputLines
        PROVE  Before(y, <<n, e + 1>>) <=> Before(y, <<n, a>>) \/ y = <<n, a>>
    <3>1. PICK m, b \in Nat : y = <<m, b>> /\ y[1] = m /\ y[2] = b /\ (m = n => b <= a \/ b >= e + 1)
      BY <1>3, Zenon
    <3>2. <<n, e + 1>>[1] = n /\ <<n, e + 1>>[2] = e + 1 /\ e \in Nat /\ a <= e
      BY <1>1, <1>2
    <3> QED
      BY <1>1, <1>4, <3>1, <3>2 DEF Before
  <2> QED
    BY <2>1, <2>2
<1>6. ASSUME e > Len(printed[n]), n < Len(printed)
      PROVE  /\ IsLine(n + 1, 1)
             /\ \A y \in OutputLines : Before(y, <<n + 1, 1>>) <=> Before(y, <<n, a>>) \/ y = <<n, a>>
  <2>1. IsLine(n + 1, 1)
    <3>1. n + 1 \in 1..Len(printed)
      BY <1>1, <1>6
    <3>2. IsSeq(printed[n + 1])
      BY <3>1, SeqFacts, Zenon DEF PrintedOK
    <3>3. 1 \in 1..Len(printed[n + 1]) + 1
      BY <3>2, SeqFacts
    <3> QED
      BY <3>1, <3>3, Zenon DEF IsLine
  <2>2. ASSUME NEW y \in OutputLines
        PROVE  Before(y, <<n + 1, 1>>) <=> Before(y, <<n, a>>) \/ y = <<n, a>>
    <3>1. PICK m, b \in Nat :
            /\ y = <<m, b>> /\ y[1] = m /\ y[2] = b /\ (m = n => b <= a \/ b >= e + 1) /\ b >= 1
            /\ (m = n => b <= Len(printed[n]) + 1)
      BY <1>3, Zenon
    <3>2. <<n + 1, 1>>[1] = n + 1 /\ <<n + 1, 1>>[2] = 1 /\ e \in Nat
      BY <1>1, <1>2
    <3>3. m = n => b <= a
      BY <1>1, <1>6, <3>1, <3>2
    <3> QED
      BY <1>1, <1>4, <3>1, <3>2, <3>3 DEF Before
  <2> QED
    BY <2>1, <2>2
<1>7. ASSUME e > Len(printed[n]), n = Len(printed), NEW y \in OutputLines
      PROVE  Before(y, <<n, a>>) \/ y = <<n, a>>
  <2>1. PICK m, b \in Nat :
          /\ y = <<m, b>> /\ y[1] = m /\ y[2] = b /\ (m = n => b <= a \/ b >= e + 1)
          /\ m <= Len(printed) /\ (m = n => b <= Len(printed[n]) + 1)
    BY <1>3, Zenon
  <2>2. e \in Nat
    BY <1>1, <1>2
  <2>3. m = n => b <= a
    BY <1>1, <1>7, <2>1, <2>2
  <2>4. CASE m = n
    <3>1. b < a \/ b = a
      BY <1>1, <2>3, <2>4
    <3> QED
      BY <1>4, <2>1, <2>4, <3>1, Zenon DEF Before
  <2>5. CASE m # n
    <3>1. m < n
      BY <1>1, <1>7, <2>1, <2>5
    <3> QED
      BY <1>4, <2>1, <3>1, Zenon DEF Before
  <2> QED
    BY <2>4, <2>5
<1> QED
  BY <1>5, <1>6, <1>7

-----------------------------------------------------------------------------
(* The filters *)

LEMMA ThroughFacts ==
  ASSUME IsSeq(made)
  PROVE  /\ Through(0) = OutputLines
         /\ \A k \in 1..Len(made) :
              Through(k) = {x \in Through(k - 1) : Keeps(made[k], Through(k - 1), x)}
         /\ \A k \in 0..Len(made) : Through(k) \subseteq OutputLines
<1> DEFINE n == Len(made)
           S == SUBSET OutputLines
           Rest(k, R) == {x \in R : Keeps(made[k], R, x)}
           C(h) == [k \in 0..n |-> IF k = 0 THEN OutputLines
                                   ELSE {x \in h[k - 1] : Keeps(made[k], h[k - 1], x)}]
           g == [k \in 1..n |-> [R \in S |-> Rest(k, R)]]
<1>1. n \in Nat
  BY SeqFacts, Zenon
<1>2. OutputLines \in S
  BY Zenon
<1>3. \A k \in 1..n : \A R \in S : g[k][R] = Rest(k, R) /\ Rest(k, R) \in S
  <2>1. \A k, R : R \in S => Rest(k, R) \in S
    BY Zenon
  <2> HIDE DEF Rest, S
  <2> QED
    BY <2>1, Zenon
<1> HIDE DEF n, S, g
<1>4. PICK h \in [0..n -> S] : Follows(h, g, OutputLines, n)
  <2>1. \A k \in 1..n : \A R \in S : g[k][R] \in S
    BY <1>3, Zenon
  <2> QED
    BY <1>1, <1>2, <2>1, RecursionExists, Zenon
<1>5. h[0] = OutputLines /\ \A k \in 1..n : h[k] = Rest(k, h[k - 1])
  <2> HIDE DEF Rest
  <2>1. h[0] = OutputLines /\ \A k \in 1..n : h[k] = g[k][h[k - 1]]
    BY <1>4, Zenon DEF Follows
  <2>2. \A k \in 1..n : k - 1 \in 0..n
    BY <1>1
  <2>3. \A k \in 1..n : h[k - 1] \in S
    BY <2>2, Zenon
  <2> QED
    BY <1>3, <2>1, <2>3, Zenon
<1>6. h = C(h)
  <2>1. \A k \in 0..n : h[k] = IF k = 0 THEN OutputLines
                               ELSE {x \in h[k - 1] : Keeps(made[k], h[k - 1], x)}
    <3>1. \A k \in 0..n : k # 0 => k \in 1..n
      BY <1>1
    <3> QED
      BY <1>5, <3>1, Zenon
  <2> QED
    BY <2>1, Zenon
<1>7. \E f : f = C(f)
  BY <1>6
<1>8. PICK f : f = C(f) /\ \A k : Through(k) = f[k]
  BY <1>7, Zenon DEF Through, n
<1>9. \A k \in 0..n : f[k] = IF k = 0 THEN OutputLines
                             ELSE {x \in f[k - 1] : Keeps(made[k], f[k - 1], x)}
  BY <1>8, Zenon
<1>10. Through(0) = OutputLines
  <2>1. 0 \in 0..n
    BY <1>1
  <2> QED
    BY <1>8, <1>9, <2>1, Zenon
<1>11. ASSUME NEW k \in 1..n
       PROVE  Through(k) = {x \in Through(k - 1) : Keeps(made[k], Through(k - 1), x)}
  <2>1. k \in 0..n /\ k # 0
    BY <1>1
  <2> QED
    BY <1>8, <1>9, <2>1, Zenon
<1>12. ASSUME NEW k \in 0..n PROVE Through(k) \subseteq OutputLines
  <2> DEFINE T == {i \in 0..k : Through(i) \subseteq OutputLines}
  <2>1. 0 \in T /\ k \in Nat
    BY <1>1, <1>10
  <2>2. ASSUME NEW i \in 0..k - 1, i \in T PROVE i + 1 \in T
    <3>1. i + 1 \in 1..n /\ (i + 1) - 1 = i /\ i + 1 \in 0..k
      BY <1>1
    <3>2. Through(i + 1) = {x \in Through((i + 1) - 1) : Keeps(made[i + 1], Through((i + 1) - 1), x)}
      BY <1>11, <3>1, Zenon
    <3>3. Through(i + 1) \subseteq Through(i)
      BY <3>1, <3>2, Zenon
    <3> QED
      BY <2>2, <3>1, <3>3, Zenon
  <2>3. k \in T
    <3>1. \A i \in 0..k - 1 : i \in T => i + 1 \in T
      BY <2>2
    <3> HIDE DEF T
    <3> QED
      BY <2>1, <3>1, UpTo, Zenon
  <2> QED
    BY <2>3
<1> QED
  BY <1>10, <1>11, <1>12, Zenon DEF n

(* A filter as it was made, and after some lines.                          *)
After(f, open, n) ==
  [kind |-> f.kind, pattern |-> f.pattern, to |-> f.to, invert |-> f.invert, fold |-> f.fold,
   matched |-> open, count |-> n]
Clean(f) == f = After(f, FALSE, 0)

(* What filter k remembers once it was given the lines in ls; its state    *)
(* after the lines in D.                                                   *)
Open(k, ls) ==
  /\ made[k].kind = "range"
  /\ \E y \in ls :
       /\ Has(Text(y), made[k].pattern)
       /\ made[k].to # None => \A z \in ls : ~Before(z, y) => ~Has(Text(z), made[k].to)
Num(k, ls) == IF made[k].kind = "count" THEN Cardinality({x \in ls : NonBlank(x)}) ELSE 0
State(k, D) == After(made[k], Open(k, Through(k - 1) \cap D), Num(k, Through(k - 1) \cap D))

(* D are the lines before x.                                               *)
Prefix(x, D) == x \in OutputLines /\ D = {y \in OutputLines : Before(y, x)}

LEMMA PassesIs ==
  ASSUME NEW f, NEW o \in BOOLEAN, NEW n, NEW s
  PROVE  Passes(After(f, o, n), s) <=> \/ f.kind = "match" /\ Matches(f, s) # f.invert
                                       \/ f.kind = "range" /\ (o \/ Has(s, f.pattern))
<1> DEFINE a == After(f, o, n)
<1>1. a.kind = f.kind /\ a.pattern = f.pattern /\ a.invert = f.invert /\ a.fold = f.fold /\ a.matched = o
  BY DEF After
<1> HIDE DEF a
<1>2. Matches(a, s) = Matches(f, s)
  BY <1>1, Zenon DEF Matches
<1>3. Passes(a, s) <=> \/ f.kind = "match" /\ Matches(f, s) # f.invert
                       \/ f.kind = "range" /\ (o \/ Has(s, f.pattern))
  BY <1>1, <1>2, Zenon DEF Passes
<1> QED
  BY <1>3, Zenon DEF a

(* A filter f that was open, or not, and had counted n lines is q and has  *)
(* counted m after the line s.                                             *)
Becomes(f, o, n, s, q, m) ==
  /\ q = (/\ Passes(After(f, o, n), s) /\ f.kind = "range" /\ ~(f.to # None /\ Has(s, f.to)))
  /\ m = IF f.kind = "count" /\ \E i \in DOMAIN s : s[i] # " " THEN n + 1 ELSE n

ThenIs(f, o, n, s, q, m) == Seen(After(f, o, n), s) = After(f, q, m)

LEMMA SeenIs ==
  ASSUME NEW f, NEW o \in BOOLEAN, NEW n, NEW s, NEW q, NEW m, Becomes(f, o, n, s, q, m)
  PROVE  ThenIs(f, o, n, s, q, m)
<1> DEFINE a == After(f, o, n)
<1>1. a.kind = f.kind /\ a.to = f.to /\ a.count = n
  BY DEF After
<1>2. [a EXCEPT !.matched = q, !.count = m] = After(f, q, m)
  <2>1. [a EXCEPT !.matched = q] = After(f, q, n)
    BY DEF After
  <2>2. [After(f, q, n) EXCEPT !.count = m] = After(f, q, m)
    BY DEF After
  <2> QED
    BY <2>1, <2>2, Zenon
<1>0. /\ q = (/\ Passes(a, s) /\ f.kind = "range" /\ ~(f.to # None /\ Has(s, f.to)))
      /\ m = IF f.kind = "count" /\ \E i \in DOMAIN s : s[i] # " " THEN n + 1 ELSE n
  BY Zenon DEF Becomes
<1> HIDE DEF a
<1>3. (/\ Passes(a, s) /\ a.kind = "range" /\ ~(a.to # None /\ Has(s, a.to))) = q
  BY <1>0, <1>1, Zenon
<1>4. (IF a.kind = "count" /\ \E i \in DOMAIN s : s[i] # " " THEN a.count + 1 ELSE a.count) = m
  BY <1>0, <1>1, Zenon
<1>5. Seen(a, s) = [a EXCEPT !.matched = q, !.count = m]
  BY <1>3, <1>4, Zenon DEF Seen
<1> QED
  BY <1>2, <1>5, Zenon DEF a, ThenIs

LEMMA PrefixFacts ==
  ASSUME PrintedOK, NEW x, NEW D, Prefix(x, D), NEW ls, ls \subseteq OutputLines
  PROVE  /\ x \in OutputLines /\ D \subseteq OutputLines /\ x \notin D
         /\ ~Before(x, x) /\ \A y \in D : Before(y, x) /\ ~Before(x, y)
         /\ \A y \in ls : y = x \/ y \in D \/ Before(x, y)
         /\ \A y \in ls : Before(y, x) => y \in ls \cap D
<1>1. x \in OutputLines /\ D = {y \in OutputLines : Before(y, x)}
  BY DEF Prefix
<1>2. ~Before(x, x)
  BY <1>1, BeforeOrder, Zenon
<1>3. \A y \in D : Before(y, x) /\ ~Before(x, y)
  BY <1>1, BeforeOrder, Zenon
<1>4. \A y \in ls : y = x \/ y \in D \/ Before(x, y)
  BY <1>1, BeforeOrder, Zenon
<1> QED
  BY <1>1, <1>2, <1>3, <1>4, Zenon

(* A filter passes a line as it stands exactly when its state lets it.     *)
LEMMA StatePasses ==
  ASSUME PrintedOK, IsSeq(made), NEW k \in 1..Len(made), NEW x, NEW D, Prefix(x, D),
         x \in Through(k - 1)
  PROVE  Passes(State(k, D), Text(x)) <=> Keeps(made[k], Through(k - 1), x)
<1> DEFINE f == made[k]
           L == Through(k - 1)
           M == L \cap D
           o == Open(k, M)
           n == Num(k, M)
           s == Text(x)
<1>1. L \subseteq OutputLines
  <2>1. k - 1 \in 0..Len(made)
    BY SeqFacts
  <2> QED
    BY <2>1, ThroughFacts, Zenon
<1> HIDE DEF L
<1>2. /\ x \notin D /\ ~Before(x, x) /\ \A y \in M : Before(y, x) /\ ~Before(x, y)
      /\ \A y \in L : y = x \/ y \in M \/ Before(x, y)
      /\ \A y \in L : Before(y, x) => y \in M
  BY <1>1, PrefixFacts, Zenon
<1>3. x \in L /\ M \subseteq L
  BY DEF L
<1>4. o \in BOOLEAN
  BY Zenon DEF Open
<1>5. Passes(After(f, o, n), s) <=> \/ f.kind = "match" /\ Matches(f, s) # f.invert
                                    \/ f.kind = "range" /\ (o \/ Has(s, f.pattern))
  <2> HIDE DEF o, n, f, s
  <2> QED
    BY <1>4, PassesIs, Zenon
<1> HIDE DEF M
<1>6. ASSUME f.kind = "range"
      PROVE  o \/ Has(s, f.pattern)
             <=> \E y \in L : /\ ~Before(x, y) /\ Has(Text(y), f.pattern)
                              /\ f.to # None => \A z \in L : ~Before(z, y) /\ Before(z, x) => ~Has(Text(z), f.to)
  <2>1. ASSUME o
        PROVE  \E y \in L : /\ ~Before(x, y) /\ Has(Text(y), f.pattern)
                            /\ f.to # None => \A z \in L : ~Before(z, y) /\ Before(z, x) => ~Has(Text(z), f.to)
    <3>1. PICK y \in M : /\ Has(Text(y), f.pattern)
                         /\ f.to # None => \A z \in M : ~Before(z, y) => ~Has(Text(z), f.to)
      BY <2>1, Zenon DEF Open
    <3>2. y \in L /\ ~Before(x, y)
      BY <1>2, <1>3, Zenon
    <3>3. f.to # None => \A z \in L : ~Before(z, y) /\ Before(z, x) => ~Has(Text(z), f.to)
      BY <1>2, <3>1, Zenon
    <3> QED
      BY <3>1, <3>2, <3>3, Zenon
  <2>2. ASSUME Has(s, f.pattern)
        PROVE  \E y \in L : /\ ~Before(x, y) /\ Has(Text(y), f.pattern)
                            /\ f.to # None => \A z \in L : ~Before(z, y) /\ Before(z, x) => ~Has(Text(z), f.to)
    BY <1>2, <1>3, <2>2, Zenon
  <2>3. ASSUME NEW y \in L, ~Before(x, y), Has(Text(y), f.pattern),
               f.to # None => \A z \in L : ~Before(z, y) /\ Before(z, x) => ~Has(Text(z), f.to)
        PROVE  o \/ Has(s, f.pattern)
    <3>1. CASE y = x
      BY <2>3, <3>1, Zenon
    <3>2. CASE y # x
      <4>1. y \in M
        BY <1>2, <2>3, <3>2, Zenon
      <4>2. f.to # None => \A z \in M : ~Before(z, y) => ~Has(Text(z), f.to)
        BY <1>2, <1>3, <2>3, Zenon
      <4> QED
        BY <1>6, <2>3, <4>1, <4>2, Zenon DEF Open
    <3> QED
      BY <3>1, <3>2
  <2> QED
    BY <2>1, <2>2, <2>3, Zenon
<1>7. Passes(State(k, D), s) <=> Passes(After(f, o, n), s)
  BY Zenon DEF State, L, M
<1>8. Keeps(f, L, x) <=> \/ f.kind = "match" /\ Matches(f, s) # f.invert
                         \/ /\ f.kind = "range"
                            /\ \E y \in L : /\ ~Before(x, y) /\ Has(Text(y), f.pattern)
                                            /\ f.to # None => \A z \in L : ~Before(z, y) /\ Before(z, x) => ~Has(Text(z), f.to)
  BY Zenon DEF Keeps
<1> HIDE DEF o, n, f, s
<1>9. Passes(State(k, D), s) <=> Keeps(f, L, x)
  BY <1>5, <1>6, <1>7, <1>8, Zenon
<1> QED
  BY <1>9, Zenon DEF f, L, s

(* So the lines that reach a filter are those that all before it pass.     *)
LEMMA ThroughPasses ==
  ASSUME PrintedOK, IsSeq(made), NEW k \in 0..Len(made), NEW x, NEW D, Prefix(x, D)
  PROVE  x \in Through(k) <=> \A j \in 1..k : Passes(State(j, D), Text(x))
<1> DEFINE n == Len(made)
           All(i) == \A j \in 1..i : Passes(State(j, D), Text(x))
           T == {i \in 0..k : x \in Through(i) <=> All(i)}
<1>1. n \in Nat /\ k \in Nat /\ k <= n
  BY SeqFacts
<1>2. 0 \in T
  <2>1. x \in Through(0)
    BY ThroughFacts, Zenon DEF Prefix
  <2>2. 0 \in 0..k /\ \A j \in 1..0 : FALSE
    BY <1>1
  <2> QED
    BY <2>1, <2>2, Zenon
<1>3. ASSUME NEW i \in 0..k - 1, i \in T PROVE i + 1 \in T
  <2>1. i + 1 \in 1..n /\ (i + 1) - 1 = i /\ i + 1 \in 0..k
    BY <1>1
  <2>2. \A j \in 1..i + 1 : j \in 1..i \/ j = i + 1
    BY <1>1
  <2>3. i + 1 \in 1..i + 1 /\ \A j \in 1..i : j \in 1..i + 1
    BY <1>1
  <2>4. PICK m : m = i + 1
    OBVIOUS
  <2>5. m \in 1..Len(made) /\ m - 1 = i
    BY <2>1, <2>4, Zenon
  <2>6. Through(m) = {y \in Through(i) : Keeps(made[m], Through(i), y)}
    <3>1. Through(m) = {y \in Through(m - 1) : Keeps(made[m], Through(m - 1), y)}
      BY <2>5, ThroughFacts, Zenon
    <3> QED
      BY <2>5, <3>1, Zenon
  <2>7. x \in Through(i) => (Passes(State(m, D), Text(x)) <=> Keeps(made[m], Through(i), x))
    <3>1. x \in Through(m - 1) => (Passes(State(m, D), Text(x)) <=> Keeps(made[m], Through(m - 1), x))
      BY <2>5, StatePasses, Zenon
    <3> QED
      BY <2>5, <3>1, Zenon
  <2>8. All(m) <=> All(i) /\ Passes(State(m, D), Text(x))
    BY <2>2, <2>3, <2>4, Zenon
  <2>9. x \in Through(i) <=> All(i)
    BY <1>3, Zenon
  <2> HIDE DEF All
  <2>10. x \in Through(m) <=> All(m)
    BY <2>6, <2>7, <2>8, <2>9, Zenon
  <2> QED
    BY <2>1, <2>4, <2>10, Zenon
<1>4. k \in T
  <2>1. \A i \in 0..k - 1 : i \in T => i + 1 \in T
    BY <1>3
  <2> HIDE DEF T
  <2> QED
    BY <1>1, <1>2, <2>1, UpTo, Zenon
<1> QED
  BY <1>4, Zenon

(* What a filter remembers after one line more.                            *)
LEMMA OpenMore ==
  ASSUME NEW k, NEW ls, NEW x, ~Before(x, x), \A y \in ls : Before(y, x) /\ ~Before(x, y)
  PROVE  Open(k, ls \cup {x})
         <=> /\ made[k].kind = "range" /\ (Open(k, ls) \/ Has(Text(x), made[k].pattern))
             /\ ~(made[k].to # None /\ Has(Text(x), made[k].to))
<1> DEFINE f == made[k]
           M == ls \cup {x}
<1>0. /\ Open(k, ls) <=>
           /\ f.kind = "range"
           /\ \E y \in ls : /\ Has(Text(y), f.pattern)
                            /\ f.to # None => \A z \in ls : ~Before(z, y) => ~Has(Text(z), f.to)
      /\ Open(k, M) <=>
           /\ f.kind = "range"
           /\ \E y \in M : /\ Has(Text(y), f.pattern)
                           /\ f.to # None => \A z \in M : ~Before(z, y) => ~Has(Text(z), f.to)
  BY Zenon DEF Open
<1>1. x \in M /\ (\A y \in ls : y \in M) /\ \A y \in M : y \in ls \/ y = x
  BY Zenon
<1> HIDE DEF f, M
<1>2. ASSUME Open(k, M)
      PROVE  /\ f.kind = "range" /\ (Open(k, ls) \/ Has(Text(x), f.pattern))
             /\ ~(f.to # None /\ Has(Text(x), f.to))
  <2>1. PICK y \in M : /\ Has(Text(y), f.pattern)
                       /\ f.to # None => \A z \in M : ~Before(z, y) => ~Has(Text(z), f.to)
    BY <1>0, <1>2, Zenon
  <2>2. ~Before(x, y)
    BY <1>1, Zenon
  <2>3. ~(f.to # None /\ Has(Text(x), f.to))
    BY <1>1, <2>1, <2>2, Zenon
  <2>4. y \in ls => Open(k, ls)
    BY <1>0, <1>1, <1>2, <2>1, Zenon
  <2> QED
    BY <1>0, <1>1, <1>2, <2>1, <2>3, <2>4, Zenon
<1>3. ASSUME f.kind = "range", ~(f.to # None /\ Has(Text(x), f.to)), Open(k, ls)
      PROVE  Open(k, M)
  <2>1. PICK y \in ls : /\ Has(Text(y), f.pattern)
                        /\ f.to # None => \A z \in ls : ~Before(z, y) => ~Has(Text(z), f.to)
    BY <1>0, <1>3, Zenon
  <2>2. f.to # None => \A z \in M : ~Before(z, y) => ~Has(Text(z), f.to)
    BY <1>1, <1>3, <2>1, Zenon
  <2> QED
    BY <1>0, <1>1, <1>3, <2>1, <2>2, Zenon
<1>4. ASSUME f.kind = "range", ~(f.to # None /\ Has(Text(x), f.to)), Has(Text(x), f.pattern)
      PROVE  Open(k, M)
  <2>1. f.to # None => \A z \in M : ~Before(z, x) => ~Has(Text(z), f.to)
    BY <1>1, <1>4, Zenon
  <2> QED
    BY <1>0, <1>1, <1>4, <2>1, Zenon
<1>5. Open(k, M) <=> /\ f.kind = "range" /\ (Open(k, ls) \/ Has(Text(x), f.pattern))
                     /\ ~(f.to # None /\ Has(Text(x), f.to))
  BY <1>2, <1>3, <1>4, Zenon
<1> QED
  BY <1>5, Zenon DEF f, M

LEMMA NumMore ==
  ASSUME NEW k, NEW ls, IsFiniteSet(ls), NEW x, x \notin ls
  PROVE  Num(k, ls \cup {x}) = IF made[k].kind = "count" /\ NonBlank(x) THEN Num(k, ls) + 1 ELSE Num(k, ls)
<1> DEFINE B == {y \in ls : NonBlank(y)}
           C == {y \in ls \cup {x} : NonBlank(y)}
<1>1. IsFiniteSet(B) /\ x \notin B
  BY CountSubset, Zenon
<1>2. NonBlank(x) => C = B \cup {x}
  BY Zenon
<1>3. ~NonBlank(x) => C = B
  BY Zenon
<1>4. Num(k, ls) = IF made[k].kind = "count" THEN Cardinality(B) ELSE 0
  BY Zenon DEF Num
<1>5. Num(k, ls \cup {x}) = IF made[k].kind = "count" THEN Cardinality(C) ELSE 0
  BY Zenon DEF Num
<1> HIDE DEF B, C
<1>6. Cardinality(B \cup {x}) = Cardinality(B) + 1
  BY <1>1, CountOneMore, Zenon
<1> QED
  BY <1>2, <1>3, <1>4, <1>5, <1>6, Zenon

LEMMA StateGrows ==
  ASSUME PrintedOK, IsSeq(made), NEW k \in 1..Len(made), NEW x, NEW D, Prefix(x, D), IsFiniteSet(D)
  PROVE  State(k, D \cup {x})
         = IF x \in Through(k - 1) THEN Seen(State(k, D), Text(x)) ELSE State(k, D)
<1> DEFINE f == made[k]
           L == Through(k - 1)
           M == L \cap D
           s == Text(x)
<1>1. L \subseteq OutputLines
  <2>1. k - 1 \in 0..Len(made)
    BY SeqFacts
  <2> QED
    BY <2>1, ThroughFacts, Zenon
<1>2. /\ State(k, D) = After(f, Open(k, M), Num(k, M))
      /\ State(k, D \cup {x}) = After(f, Open(k, L \cap (D \cup {x})), Num(k, L \cap (D \cup {x})))
  BY Zenon DEF State
<1> HIDE DEF L
<1>3. /\ x \notin M /\ ~Before(x, x) /\ \A y \in M : Before(y, x) /\ ~Before(x, y)
  BY <1>1, PrefixFacts, Zenon
<1>4. IsFiniteSet(M)
  BY CountSubset, Zenon
<1>5. CASE x \notin L
  <2>1. L \cap (D \cup {x}) = M
    BY <1>5, Zenon
  <2>2. State(k, D \cup {x}) = State(k, D)
    BY <1>2, <2>1, Zenon
  <2> QED
    BY <1>5, <2>2, Zenon DEF L
<1>6. CASE x \in L
  <2>1. L \cap (D \cup {x}) = M \cup {x}
    BY <1>6, Zenon
  <2>2. PICK N : N = M \cup {x}
    OBVIOUS
  <2>3. State(k, D \cup {x}) = After(f, Open(k, N), Num(k, N))
    BY <1>2, <2>1, <2>2, Zenon
  <2>4. Open(k, M) \in BOOLEAN /\ Open(k, N) \in BOOLEAN
    BY Zenon DEF Open
  <2> HIDE DEF M, f, s
  <2>5. Open(k, N) <=> /\ f.kind = "range" /\ (Open(k, M) \/ Has(s, f.pattern))
                       /\ ~(f.to # None /\ Has(s, f.to))
    <3>1. Open(k, M \cup {x})
            <=> /\ made[k].kind = "range" /\ (Open(k, M) \/ Has(Text(x), made[k].pattern))
                /\ ~(made[k].to # None /\ Has(Text(x), made[k].to))
      BY <1>3, OpenMore, Zenon
    <3> QED
      BY <2>2, <3>1, Zenon DEF f, s
  <2>6. Num(k, N) = IF f.kind = "count" /\ \E i \in DOMAIN s : s[i] # " " THEN Num(k, M) + 1 ELSE Num(k, M)
    <3>1. Num(k, M \cup {x}) = IF made[k].kind = "count" /\ NonBlank(x) THEN Num(k, M) + 1 ELSE Num(k, M)
      BY <1>3, <1>4, NumMore, Zenon
    <3>2. NonBlank(x) <=> \E i \in DOMAIN s : s[i] # " "
      BY Zenon DEF NonBlank, s
    <3> QED
      BY <2>2, <3>1, <3>2, Zenon DEF f
  <2>7. PICK o, q : o = Open(k, M) /\ q = Open(k, N)
    OBVIOUS
  <2>8. PICK n, m : n = Num(k, M) /\ m = Num(k, N)
    OBVIOUS
  <2>9. o \in BOOLEAN /\ q \in BOOLEAN
    BY <2>4, <2>7, Zenon
  <2>10. Passes(After(f, o, n), s) <=> \/ f.kind = "match" /\ Matches(f, s) # f.invert
                                       \/ f.kind = "range" /\ (o \/ Has(s, f.pattern))
    BY <2>9, PassesIs, Zenon
  <2>11. q = (/\ Passes(After(f, o, n), s) /\ f.kind = "range" /\ ~(f.to # None /\ Has(s, f.to)))
    <3>1. q <=> (/\ Passes(After(f, o, n), s) /\ f.kind = "range" /\ ~(f.to # None /\ Has(s, f.to)))
      BY <2>5, <2>7, <2>10
    <3> QED
      BY <2>9, <3>1, Zenon
  <2>12. m = IF f.kind = "count" /\ \E i \in DOMAIN s : s[i] # " " THEN n + 1 ELSE n
    BY <2>6, <2>8, Zenon
  <2>13. Seen(After(f, o, n), s) = After(f, q, m)
    <3>1. Becomes(f, o, n, s, q, m)
      BY <2>11, <2>12, Zenon DEF Becomes
    <3>2. ThenIs(f, o, n, s, q, m)
      BY <2>9, <3>1, SeenIs, Zenon
    <3> QED
      BY <3>2, Zenon DEF ThenIs
  <2>14. Seen(State(k, D), s) = After(f, q, m)
    BY <1>2, <2>7, <2>8, <2>13, Zenon
  <2>15. State(k, D \cup {x}) = After(f, q, m)
    BY <2>3, <2>7, <2>8, Zenon
  <2> QED
    BY <1>6, <2>14, <2>15, Zenon DEF L, s
<1> QED
  BY <1>5, <1>6

-----------------------------------------------------------------------------
(* One line through the pipe *)

LEMMA FunctionIsSeq ==
  ASSUME NEW n \in Nat, NEW f, f = [i \in 1..n |-> f[i]]
  PROVE  IsSeq(f) /\ Len(f) = n
<1> DEFINE S == {f[i] : i \in 1..n}
<1>1. f \in [1..n -> S]
  BY Zenon
<1> HIDE DEF S
<1>2. f \in Seq(S) /\ Len(f) = n
  BY <1>1
<1> QED
  BY <1>2, Zenon DEF IsSeq

(* The filters are as the lines in D leave them.                           *)
FiltersAt(fs, D) ==
  IsSeq(fs) /\ Len(fs) = Len(made) /\ \A k \in 1..Len(made) : fs[k] = State(k, D)

LEMMA FilteredIs ==
  ASSUME PrintedOK, IsSeq(made), NEW x, NEW D, Prefix(x, D), IsFiniteSet(D), FiltersAt(filters, D)
  PROVE  /\ FiltersAt(Filtered(Text(x)), D \cup {x})
         /\ (\A k \in DOMAIN filters : Passes(filters[k], Text(x))) <=> x \in Through(Len(made))
<1> DEFINE n == Len(made)
           s == Text(x)
           g == Filtered(s)
<1>1. n \in Nat /\ DOMAIN filters = 1..n
  BY SeqFacts, Zenon DEF FiltersAt
<1>2. \A k \in 1..n : filters[k] = State(k, D)
  BY Zenon DEF FiltersAt
<1>3. /\ g = [k \in 1..n |-> g[k]]
      /\ \A k \in 1..n : g[k] = IF \A j \in 1..k - 1 : Passes(filters[j], s) THEN Seen(filters[k], s) ELSE filters[k]
  BY <1>1, Zenon DEF Filtered
<1> HIDE DEF g
<1>4. IsSeq(g) /\ Len(g) = n
  <2> HIDE DEF n
  <2> QED
    BY <1>1, <1>3, FunctionIsSeq, Zenon
<1>5. ASSUME NEW k \in 1..n PROVE g[k] = State(k, D \cup {x})
  <2>1. k - 1 \in 0..n /\ \A j \in 1..k - 1 : j \in 1..n
    BY <1>1
  <2>2. PICK m : m = k - 1
    OBVIOUS
  <2>3. x \in Through(m) <=> \A j \in 1..m : Passes(State(j, D), s)
    BY <2>1, <2>2, ThroughPasses, Zenon
  <2>4. x \in Through(m) <=> \A j \in 1..m : Passes(filters[j], s)
    BY <1>2, <2>1, <2>2, <2>3, Zenon
  <2>5. State(k, D \cup {x}) = IF x \in Through(k - 1) THEN Seen(State(k, D), s) ELSE State(k, D)
    BY StateGrows, Zenon
  <2> HIDE DEF s
  <2>6. State(k, D \cup {x}) = IF x \in Through(m) THEN Seen(filters[k], s) ELSE filters[k]
    BY <1>2, <2>2, <2>5, Zenon
  <2>7. g[k] = IF \A j \in 1..m : Passes(filters[j], s) THEN Seen(filters[k], s) ELSE filters[k]
    BY <1>3, <2>2, Zenon
  <2>8. CASE x \in Through(m)
    <3>1. g[k] = Seen(filters[k], s)
      BY <2>4, <2>7, <2>8, Zenon
    <3> QED
      BY <2>6, <2>8, <3>1, Zenon
  <2>9. CASE x \notin Through(m)
    <3>1. g[k] = filters[k]
      BY <2>4, <2>7, <2>9, Zenon
    <3> QED
      BY <2>6, <2>9, <3>1, Zenon
  <2> QED
    BY <2>8, <2>9
<1>6. (\A k \in DOMAIN filters : Passes(filters[k], s)) <=> x \in Through(n)
  <2>1. n \in 0..n
    BY <1>1
  <2>2. x \in Through(n) <=> \A j \in 1..n : Passes(State(j, D), s)
    BY <2>1, ThroughPasses, Zenon
  <2> QED
    BY <1>1, <1>2, <2>2, Zenon
<1> QED
  BY <1>4, <1>5, <1>6, Zenon DEF FiltersAt, g

(* What the client has received when the lines in D have been printed.     *)
Kept(D) == Through(Len(made)) \cap D
OutIs(o, D) ==
  /\ IsSeq(o) /\ Len(o) = Cardinality(Kept(D))
  /\ \A x \in Kept(D) : o[Cardinality({y \in Kept(D) : ~Before(x, y)})] = Text(x)

LEMMA OutMore ==
  ASSUME PrintedOK, IsSeq(made), NEW x, NEW D, Prefix(x, D), IsFiniteSet(D), NEW o, OutIs(o, D)
  PROVE  OutIs(IF x \in Through(Len(made)) THEN Append(o, Text(x)) ELSE o, D \cup {x})
<1> DEFINE L == Through(Len(made))
           K == Kept(D)
           P == Kept(D \cup {x})
           s == Text(x)
<1>1. L \subseteq OutputLines
  <2>1. Len(made) \in 0..Len(made)
    BY SeqFacts
  <2> QED
    BY <2>1, ThroughFacts, Zenon
<1>2. K = L \cap D /\ P = L \cap (D \cup {x})
  BY Zenon DEF Kept
<1>3. /\ IsSeq(o) /\ Len(o) = Cardinality(K)
      /\ \A y \in K : o[Cardinality({z \in K : ~Before(y, z)})] = Text(y)
  BY Zenon DEF OutIs
<1>4. ASSUME NEW r, IsSeq(r), Len(r) = Cardinality(P),
             \A y \in P : r[Cardinality({z \in P : ~Before(y, z)})] = Text(y)
      PROVE  OutIs(r, D \cup {x})
  BY <1>4, Zenon DEF OutIs
<1> HIDE DEF L, K, P
<1>5. /\ x \notin K /\ ~Before(x, x) /\ \A y \in K : Before(y, x) /\ ~Before(x, y)
  BY <1>1, <1>2, PrefixFacts, Zenon
<1>6. IsFiniteSet(K) /\ Cardinality(K) \in Nat
  <2>1. K \subseteq D
    BY <1>2, Zenon
  <2> QED
    BY <2>1, CountSubset, Zenon
<1>7. CASE x \notin L
  <2>1. P = K
    BY <1>2, <1>7, Zenon
  <2>2. OutIs(o, D \cup {x})
    BY <1>3, <1>4, <2>1, Zenon
  <2> QED
    BY <1>7, <2>2, Zenon DEF L
<1>8. CASE x \in L
  <2>1. P = K \cup {x}
    BY <1>2, <1>8, Zenon
  <2>2. Cardinality(P) = Cardinality(K) + 1
    BY <1>5, <1>6, <2>1, CountOneMore, Zenon
  <2> DEFINE r == Append(o, s)
  <2>3. /\ IsSeq(r) /\ Len(r) = Len(o) + 1
        /\ r[Len(o) + 1] = s /\ \A i \in 1..Len(o) : r[i] = o[i]
    <3> HIDE DEF s
    <3> QED
      BY <1>3, AppendFacts, Zenon
  <2>4. ASSUME NEW y \in P PROVE r[Cardinality({z \in P : ~Before(y, z)})] = Text(y)
    <3> HIDE DEF r
    <3>1. CASE y = x
      <4>1. {z \in P : ~Before(x, z)} = P
        BY <1>5, <2>1, Zenon
      <4> QED
        BY <1>3, <2>2, <2>3, <3>1, <4>1, Zenon
    <3>2. CASE y # x
      <4>1. y \in K
        BY <2>1, <3>2, Zenon
      <4> DEFINE A == {z \in K : ~Before(y, z)}
      <4>2. {z \in P : ~Before(y, z)} = A
        BY <1>5, <2>1, <4>1, Zenon
      <4>3. A \subseteq K /\ y \in A
        <5>1. ~Before(y, y)
          <6>1. y \in OutputLines
            BY <1>1, <1>2, <4>1, Zenon
          <6> QED
            BY <6>1, BeforeOrder, Zenon
        <5> QED
          BY <4>1, <5>1, Zenon
      <4>4. o[Cardinality(A)] = Text(y)
        BY <1>3, <4>1, Zenon
      <4> HIDE DEF A
      <4>5. IsFiniteSet(A) /\ Cardinality(A) \in Nat /\ Cardinality(A) <= Cardinality(K)
        BY <1>6, <4>3, CountSubset, Zenon
      <4>6. Cardinality(A) # 0
        BY <4>3, <4>5, FS_EmptySet, Zenon
      <4>7. Cardinality(A) \in 1..Len(o)
        BY <1>3, <1>6, <4>5, <4>6
      <4> QED
        BY <2>3, <4>2, <4>4, <4>7, Zenon
    <3> QED
      BY <3>1, <3>2
  <2> HIDE DEF r
  <2>5. Len(r) = Cardinality(P)
    BY <1>3, <2>2, <2>3, Zenon
  <2>6. OutIs(r, D \cup {x})
    BY <1>4, <2>3, <2>4, <2>5, Zenon
  <2> QED
    BY <1>8, <2>6, Zenon DEF L, r
<1> QED
  BY <1>7, <1>8

-----------------------------------------------------------------------------
(* Where _print stands *)

LEMMA NewlineIs ==
  ASSUME NEW t, IsSeq(t), NEW e \in 1..Len(t) + 1, \A i \in 1..e - 1 : t[i] # "nl",
         e <= Len(t) => t[e] = "nl"
  PROVE  Newline(t) = IF e <= Len(t) THEN e ELSE 0
<1> DEFINE I == {i \in 1..Len(t) : t[i] = "nl"}
<1>1. Newline(t) = IF I # {} THEN Min(I) ELSE 0
  BY DEF Newline, SelectInSeq
<1>2. Len(t) \in Nat
  BY SeqFacts
<1>3. CASE e <= Len(t)
  <2>1. e \in I
    BY <1>2, <1>3
  <2>2. \A i \in I : e <= i
    <3> SUFFICES ASSUME NEW i \in I, ~(e <= i) PROVE FALSE
      OBVIOUS
    <3>1. i \in 1..e - 1
      BY <1>2
    <3> QED
      BY <3>1
  <2>3. I \subseteq Nat
    BY <1>2
  <2> HIDE DEF I
  <2>4. Min(I) \in I /\ \A i \in I : Min(I) <= i
    BY <2>1, <2>2, Zenon DEF Min
  <2>5. Min(I) = e
    <3>1. PICK c : c = Min(I)
      OBVIOUS
    <3>2. c \in Nat /\ e \in Nat /\ e <= c /\ c <= e
      BY <2>1, <2>2, <2>3, <2>4, <3>1, Zenon
    <3>3. c = e
      BY <3>2
    <3> QED
      BY <3>1, <3>3, Zenon
  <2> QED
    BY <1>1, <1>3, <2>1, <2>5, Zenon
<1>4. CASE ~(e <= Len(t))
  <2>1. I = {}
    <3> SUFFICES ASSUME NEW i \in I PROVE FALSE
      OBVIOUS
    <3>1. i \in 1..e - 1
      BY <1>2, <1>4
    <3> QED
      BY <3>1
  <2> QED
    BY <1>1, <1>4, <2>1, Zenon
<1> QED
  BY <1>3, <1>4

(* The line _print takes of a string, and what it leaves.                  *)
LineOf(t) == IF Newline(t) = 0 THEN t ELSE SubSeq(t, 1, Newline(t) - 1)
RestOf(ps) ==
  IF Newline(Head(ps)) = 0 THEN Tail(ps)
  ELSE <<SubSeq(Head(ps), Newline(Head(ps)) + 1, Len(Head(ps)))>> \o Tail(ps)

LEMMA LineOfIs ==
  ASSUME PrintedOK, NEW n, NEW a, IsLine(n, a), NEW e, EndsAt(n, a, e),
         NEW t, t = SubSeq(printed[n], a, Len(printed[n]))
  PROVE  /\ LineOf(t) = Text(<<n, a>>)
         /\ e <= Len(printed[n]) =>
              /\ Newline(t) # 0
              /\ SubSeq(t, Newline(t) + 1, Len(t)) = SubSeq(printed[n], e + 1, Len(printed[n]))
         /\ e > Len(printed[n]) => Newline(t) = 0
<1> DEFINE s == printed[n]
           l == Len(s)
           m == e - a
<1>1. /\ a \in Nat \ {0} /\ l \in Nat /\ a <= l + 1 /\ IsSeq(s)
  BY LineNumbers, Zenon
<1>2. /\ e \in a..l + 1 /\ (e <= l => s[e] = "nl") /\ \A i \in a..e - 1 : s[i] # "nl"
  BY DEF EndsAt
<1>3. Text(<<n, a>>) = SubSeq(s, a, e - 1)
  BY EndIs, Zenon
<1> HIDE DEF s, l
<1>4. t = SubSeq(s, a, l)
  BY Zenon DEF s, l
<1>5. /\ IsSeq(t) /\ Len(t) = l - a + 1 /\ \A k \in 1..l - a + 1 : t[k] = s[a + k - 1]
  <2>1. l \in a - 1..l /\ a \in 1..l + 1
    BY <1>1
  <2>2. l \in a - 1..Len(s) /\ a \in 1..Len(s) + 1
    BY <2>1, Zenon DEF l
  <2> QED
    BY <1>1, <1>4, <2>2, SubSeqFacts, ZenonT(30)
<1>6. m \in Nat /\ m \in 0..l - a + 1 /\ a + m - 1 = e - 1 /\ a + m + 1 = e + 1
  BY <1>1, <1>2
<1>7. Newline(t) = IF m + 1 <= Len(t) THEN m + 1 ELSE 0
  <2>1. m + 1 \in 1..Len(t) + 1
    BY <1>1, <1>5, <1>6
  <2>2. ASSUME NEW i \in 1..(m + 1) - 1 PROVE t[i] # "nl"
    <3>1. i \in 1..l - a + 1 /\ a + i - 1 \in a..e - 1
      BY <1>1, <1>2, <1>6
    <3> QED
      BY <1>2, <1>5, <3>1, Zenon
  <2>3. ASSUME m + 1 <= Len(t) PROVE t[m + 1] = "nl"
    <3>1. m + 1 \in 1..l - a + 1 /\ a + (m + 1) - 1 = e /\ e <= l
      BY <1>1, <1>2, <1>5, <1>6, <2>3
    <3>2. t[m + 1] = s[a + (m + 1) - 1]
      BY <1>5, <3>1, Zenon
    <3> QED
      BY <1>2, <3>1, <3>2, Zenon
  <2>4. PICK j : j = m + 1
    OBVIOUS
  <2>5. /\ j \in 1..Len(t) + 1 /\ (\A i \in 1..j - 1 : t[i] # "nl") /\ (j <= Len(t) => t[j] = "nl")
    BY <2>1, <2>2, <2>3, <2>4, Zenon
  <2>6. Newline(t) = IF j <= Len(t) THEN j ELSE 0
    BY <1>5, <2>5, NewlineIs, Zenon
  <2> QED
    BY <2>4, <2>6, Zenon
<1>8. m + 1 <= Len(t) <=> e <= l
  BY <1>1, <1>2, <1>5, <1>6
<1>9. ASSUME e <= l
      PROVE  /\ LineOf(t) = SubSeq(s, a, e - 1) /\ Newline(t) # 0
             /\ SubSeq(t, Newline(t) + 1, Len(t)) = SubSeq(s, e + 1, l)
  <2>1. Newline(t) = m + 1
    BY <1>7, <1>8, <1>9, Zenon
  <2>2. m + 1 # 0 /\ (m + 1) - 1 = m /\ m < l - a + 1
    BY <1>1, <1>2, <1>6, <1>9
  <2>3. /\ SubSeq(t, 1, m) = SubSeq(s, a, a + m - 1)
        /\ SubSeq(t, m + 1 + 1, l - a + 1) = SubSeq(s, a + m + 1, l)
    <3>1. a \in 1..l + 1
      BY <1>1
    <3>2. PICK w : w = m
      OBVIOUS
    <3>3. w \in 0..Len(s) - a + 1 /\ w < Len(s) - a + 1 /\ a \in 1..Len(s) + 1
      BY <1>6, <2>2, <3>1, <3>2, Zenon DEF l
    <3>4. /\ SubSeq(SubSeq(s, a, Len(s)), 1, w) = SubSeq(s, a, a + w - 1)
          /\ SubSeq(SubSeq(s, a, Len(s)), w + 1 + 1, Len(s) - a + 1) = SubSeq(s, a + w + 1, Len(s))
      BY <1>1, <3>3, PartOfTail, Zenon
    <3> HIDE DEF m
    <3> QED
      BY <1>4, <3>2, <3>4, Zenon DEF l
  <2> HIDE DEF m
  <2>4. LineOf(t) = SubSeq(t, 1, m)
    BY <2>1, <2>2, Zenon DEF LineOf
  <2>5. SubSeq(t, Newline(t) + 1, Len(t)) = SubSeq(t, m + 1 + 1, l - a + 1)
    BY <1>5, <2>1, Zenon
  <2> QED
    BY <1>6, <2>1, <2>2, <2>3, <2>4, <2>5, Zenon
<1>10. ASSUME ~(e <= l)
       PROVE  LineOf(t) = SubSeq(s, a, e - 1) /\ Newline(t) = 0
  <2>1. Newline(t) = 0
    BY <1>7, <1>8, <1>10, Zenon
  <2>2. e - 1 = l
    BY <1>1, <1>2, <1>10
  <2> QED
    BY <1>4, <2>1, <2>2, Zenon DEF LineOf
<1>11. e > l <=> ~(e <= l)
  BY <1>1, <1>2
<1> QED
  BY <1>3, <1>9, <1>10, <1>11, Zenon DEF s, l

(* ps is what is left to print once the lines in D have been printed.      *)
StandsAt(ps, n, a) ==
  /\ IsLine(n, a) /\ IsSeq(ps) /\ Len(ps) = Len(printed) - n + 1
  /\ ps[1] = SubSeq(printed[n], a, Len(printed[n]))
  /\ \A i \in 2..Len(ps) : ps[i] = printed[n + i - 1]
Position(ps, D) ==
  \/ ps = <<>> /\ D = OutputLines
  \/ \E n, a : StandsAt(ps, n, a) /\ Prefix(<<n, a>>, D)

LEMMA StartPosition ==
  ASSUME PrintedOK
  PROVE  Position(printed, {}) /\ (printed = <<>> => OutputLines = {})
<1>1. IsSeq(printed) /\ Len(printed) \in Nat
  BY SeqFacts, Zenon DEF PrintedOK
<1>2. CASE printed = <<>>
  <2>1. \A n : n \notin 1..Len(printed)
    BY <1>2
  <2>2. OutputLines = {}
    <3>1. \A x : x \notin OutputLines
      BY <2>1, LineIs, Zenon DEF IsLine
    <3> QED
      BY <3>1, Zenon
  <2> QED
    BY <1>2, <2>2, Zenon DEF Position
<1>3. CASE printed # <<>>
  <2> DEFINE l == Len(printed)
  <2>1. l # 0
    BY <1>1, <1>3, SeqFacts, Zenon
  <2>2. 1 \in 1..l /\ l = l - 1 + 1 /\ \A i \in 2..l : 1 + i - 1 = i
    BY <1>1, <2>1
  <2>3. IsSeq(printed[1])
    BY <1>1, <2>2, SeqFacts, Zenon DEF PrintedOK
  <2> DEFINE s == printed[1]
             m == Len(s)
             t == SubSeq(s, 1, m)
  <2>4. m \in Nat
    BY <2>3, SeqFacts, Zenon
  <2>5. IsLine(1, 1)
    <3>1. 1 \in 1..m + 1
      BY <2>4
    <3> QED
      BY <2>2, <3>1, Zenon DEF IsLine
  <2>6. s = t
    BY <2>3, WholeSeq, Zenon
  <2>7. StandsAt(printed, 1, 1)
    <3>1. \A i \in 2..l : printed[i] = printed[1 + i - 1]
      BY <2>2, Zenon
    <3> QED
      BY <1>1, <2>2, <2>5, <2>6, <3>1, Zenon DEF StandsAt
  <2>8. Prefix(<<1, 1>>, {})
    <3>1. <<1, 1>> \in OutputLines
      BY <2>5, LineIs, Zenon
    <3>2. ASSUME NEW y \in OutputLines PROVE ~Before(y, <<1, 1>>)
      <4>1. PICK k, b \in Nat : y = <<k, b>> /\ y[1] = k /\ y[2] = b /\ b >= 1 /\ IsLine(k, b)
        BY LineParts, Zenon
      <4>2. k \in Nat \ {0}
        BY <4>1, LineNumbers, Zenon
      <4>3. <<1, 1>>[1] = 1 /\ <<1, 1>>[2] = 1
        OBVIOUS
      <4> QED
        BY <4>1, <4>2, <4>3 DEF Before
    <3> QED
      BY <3>1, <3>2, Zenon DEF Prefix
  <2> QED
    BY <1>3, <2>7, <2>8, Zenon DEF Position
<1> QED
  BY <1>2, <1>3

(* One turn of the loop of _print: the next line, and where it leads.      *)
LEMMA NextPosition ==
  ASSUME PrintedOK, NEW ps, ps # <<>>, NEW D, Position(ps, D)
  PROVE  \E x : /\ Prefix(x, D) /\ LineOf(Head(ps)) = Text(x)
                /\ Position(RestOf(ps), D \cup {x})
<1>1. PICK n, a : StandsAt(ps, n, a) /\ Prefix(<<n, a>>, D)
  BY Zenon DEF Position
<1>2. /\ IsLine(n, a) /\ IsSeq(ps) /\ Len(ps) = Len(printed) - n + 1
      /\ ps[1] = SubSeq(printed[n], a, Len(printed[n]))
      /\ \A i \in 2..Len(ps) : ps[i] = printed[n + i - 1]
  BY <1>1, Zenon DEF StandsAt
<1>3. PICK e : EndsAt(n, a, e)
  BY <1>2, EndExists, Zenon
<1>4. /\ n \in Nat \ {0} /\ n <= Len(printed) /\ Len(printed) \in Nat /\ Len(printed[n]) \in Nat
      /\ a \in Nat \ {0}
  BY <1>2, LineNumbers, Zenon
<1>5. e \in Nat
  BY <1>3, <1>4 DEF EndsAt
<1> DEFINE t == Head(ps)
           x == <<n, a>>
           E == D \cup {x}
<1>6. t = SubSeq(printed[n], a, Len(printed[n]))
  BY <1>2, SeqFacts, Zenon
<1>7. /\ LineOf(t) = Text(x)
      /\ e <= Len(printed[n]) =>
           /\ Newline(t) # 0
           /\ SubSeq(t, Newline(t) + 1, Len(t)) = SubSeq(printed[n], e + 1, Len(printed[n]))
      /\ e > Len(printed[n]) => Newline(t) = 0
  <2>1. IsLine(n, a)
    BY <1>2, Zenon
  <2> HIDE DEF t
  <2> QED
    BY <1>3, <1>6, <2>1, LineOfIs, ZenonT(30)
<1>8. D = {y \in OutputLines : Before(y, x)} /\ x \in OutputLines
  BY <1>1, Zenon DEF Prefix
<1> HIDE DEF t, x
<1>9. CASE e <= Len(printed[n])
  <2> DEFINE u == SubSeq(printed[n], e + 1, Len(printed[n]))
             qs == <<u>> \o Tail(ps)
  <2>1. RestOf(ps) = qs
    BY <1>7, <1>9, Zenon DEF RestOf, t
  <2>2. /\ IsSeq(qs) /\ Len(qs) = Len(ps) /\ qs[1] = u
        /\ \A i \in 2..Len(ps) : qs[i] = ps[i]
    <3>1. IsSeq(ps)
      BY <1>2, Zenon
    <3> HIDE DEF u
    <3> QED
      BY <3>1, ReplacedHead, ZenonT(30)
  <2>3. /\ IsLine(n, e + 1)
        /\ \A y \in OutputLines : Before(y, <<n, e + 1>>) <=> Before(y, x) \/ y = x
    BY <1>2, <1>3, <1>9, NextLine, Zenon DEF x
  <2>4. E = {y \in OutputLines : Before(y, <<n, e + 1>>)}
    BY <1>8, <2>3, Zenon
  <2>5. <<n, e + 1>> \in OutputLines
    BY <2>3, LineIs, Zenon
  <2> HIDE DEF qs
  <2>6. StandsAt(qs, n, e + 1)
    BY <1>2, <2>2, <2>3, Zenon DEF StandsAt
  <2>7. Position(qs, E)
    BY <2>4, <2>5, <2>6, Zenon DEF Position, Prefix
  <2> QED
    BY <1>1, <1>7, <2>1, <2>7, Zenon DEF x, t
<1>10. CASE ~(e <= Len(printed[n])) /\ n < Len(printed)
  <2> DEFINE qs == Tail(ps)
  <2>0. e > Len(printed[n])
    BY <1>4, <1>5, <1>10
  <2>1. RestOf(ps) = qs
    BY <1>7, <2>0, Zenon DEF RestOf, t
  <2>2. /\ IsSeq(qs) /\ Len(qs) = Len(ps) - 1 /\ \A i \in 1..Len(ps) - 1 : qs[i] = ps[i + 1]
    BY <1>2, TailFacts, Zenon
  <2> HIDE DEF qs
  <2>3. /\ IsLine(n + 1, 1)
        /\ \A y \in OutputLines : Before(y, <<n + 1, 1>>) <=> Before(y, x) \/ y = x
    BY <1>2, <1>3, <1>10, <2>0, NextLine, Zenon DEF x
  <2>4. E = {y \in OutputLines : Before(y, <<n + 1, 1>>)}
    BY <1>8, <2>3, Zenon
  <2>5. <<n + 1, 1>> \in OutputLines
    BY <2>3, LineIs, Zenon
  <2>6. Len(qs) = Len(printed) - (n + 1) + 1 /\ Len(ps) \in Nat
    BY <1>2, <1>4, <1>10, <2>2
  <2>7. ASSUME NEW i \in 1..Len(qs) PROVE qs[i] = printed[(n + 1) + i - 1]
    <3>1. i \in 1..Len(ps) - 1 /\ i + 1 \in 2..Len(ps) /\ n + (i + 1) - 1 = (n + 1) + i - 1
      BY <1>4, <2>2, <2>6
    <3>2. qs[i] = ps[i + 1]
      BY <2>2, <3>1, Zenon
    <3>3. ps[i + 1] = printed[n + (i + 1) - 1]
      BY <1>2, <3>1, Zenon
    <3> QED
      BY <3>1, <3>2, <3>3, Zenon
  <2>8. qs[1] = SubSeq(printed[n + 1], 1, Len(printed[n + 1]))
    <3>1. 1 \in 1..Len(qs) /\ (n + 1) + 1 - 1 = n + 1
      BY <1>4, <1>10, <2>6
    <3>2. PICK i : i = n + 1
      OBVIOUS
    <3>3. qs[1] = printed[i]
      BY <2>7, <3>1, <3>2, Zenon
    <3>4. IsLine(i, 1)
      BY <2>3, <3>2, Zenon
    <3>5. IsSeq(printed[i])
      BY <3>4, LineNumbers, Zenon
    <3>6. printed[i] = SubSeq(printed[i], 1, Len(printed[i]))
      BY <3>5, WholeSeq, Zenon
    <3> QED
      BY <3>2, <3>3, <3>6, Zenon
  <2>9. StandsAt(qs, n + 1, 1)
    <3>1. \A i \in 2..Len(qs) : i \in 1..Len(qs)
      BY <2>6, <2>2
    <3> QED
      BY <2>2, <2>3, <2>6, <2>7, <2>8, <3>1, Zenon DEF StandsAt
  <2>10. Position(qs, E)
    BY <2>4, <2>5, <2>9, Zenon DEF Position, Prefix
  <2> QED
    BY <1>1, <1>7, <2>1, <2>10, Zenon DEF x, t
<1>11. CASE ~(e <= Len(printed[n])) /\ ~(n < Len(printed))
  <2>0. e > Len(printed[n]) /\ n = Len(printed)
    BY <1>4, <1>5, <1>11
  <2>1. RestOf(ps) = Tail(ps)
    BY <1>7, <2>0, Zenon DEF RestOf, t
  <2>2. IsSeq(Tail(ps)) /\ Len(Tail(ps)) = Len(ps) - 1
    BY <1>2, TailFacts, Zenon
  <2>3. Len(Tail(ps)) = 0
    BY <1>2, <1>4, <2>0, <2>2
  <2>4. Tail(ps) = <<>>
    BY <2>2, <2>3, SeqFacts, Zenon
  <2>5. \A y \in OutputLines : Before(y, x) \/ y = x
    BY <1>2, <1>3, <2>0, NextLine, Zenon DEF x
  <2>6. E = OutputLines
    BY <1>8, <2>5, Zenon
  <2> QED
    BY <1>1, <1>7, <2>1, <2>4, <2>6, Zenon DEF x, t, Position
<1> QED
  BY <1>9, <1>10, <1>11

-----------------------------------------------------------------------------
(* The counts, once the callback has returned *)

CountersTo(r) == {k \in Counters : k <= r}

(* The first r filters have been cleaned up.                               *)
CleanedTo(r, fs, o) ==
  /\ r \in 0..Len(made) /\ IsFiniteSet(OutputLines)
  /\ IsSeq(fs) /\ Len(fs) = Len(made) - r
  /\ \A k \in 1..Len(fs) : fs[k] = State(r + k, OutputLines)
  /\ IsSeq(o) /\ Len(o) = Cardinality(Through(Len(made))) + Cardinality(CountersTo(r))
  /\ \A x \in Through(Len(made)) : o[Cardinality({y \in Through(Len(made)) : ~Before(x, y)})] = Text(x)
  /\ \A k \in CountersTo(r) :
       o[Cardinality(Through(Len(made))) + Cardinality({j \in Counters : j <= k})]
         = <<"count", Cardinality({x \in Through(k - 1) : NonBlank(x)})>>

LEMMA CounterFacts ==
  ASSUME IsSeq(made), NEW r \in 0..Len(made)
  PROVE  /\ IsFiniteSet(CountersTo(r)) /\ Cardinality(CountersTo(r)) \in Nat
         /\ \A k \in Counters : k \in 1..Len(made)
         /\ CountersTo(0) = {} /\ CountersTo(Len(made)) = Counters
         /\ r < Len(made) =>
              /\ r + 1 \notin CountersTo(r)
              /\ made[r + 1].kind = "count" => CountersTo(r + 1) = CountersTo(r) \cup {r + 1}
              /\ made[r + 1].kind # "count" => CountersTo(r + 1) = CountersTo(r)
<1> DEFINE n == Len(made)
<1>1. n \in Nat /\ DOMAIN made = 1..n
  BY SeqFacts, Zenon
<1> HIDE DEF n
<1>2. \A k : k \in Counters <=> k \in 1..n /\ made[k].kind = "count"
  BY <1>1, Zenon DEF Counters
<1>3. \A i, k : k \in CountersTo(i) <=> k \in Counters /\ k <= i
  BY Zenon DEF CountersTo
<1>4. IsFiniteSet(CountersTo(r)) /\ Cardinality(CountersTo(r)) \in Nat
  <2>1. IsFiniteSet(1..n)
    BY <1>1, FS_Interval
  <2>2. CountersTo(r) \subseteq 1..n
    BY <1>2, <1>3, Zenon
  <2> QED
    BY <2>1, <2>2, CountSubset, Zenon
<1>5. CountersTo(0) = {}
  <2>1. \A k \in 1..n : ~(k <= 0)
    BY <1>1
  <2> QED
    BY <1>2, <1>3, <2>1, Zenon
<1>6. CountersTo(n) = Counters
  <2>1. \A k \in 1..n : k <= n
    BY <1>1
  <2> QED
    BY <1>2, <1>3, <2>1, Zenon
<1>7. ASSUME r < n
      PROVE  /\ r + 1 \notin CountersTo(r)
             /\ made[r + 1].kind = "count" => CountersTo(r + 1) = CountersTo(r) \cup {r + 1}
             /\ made[r + 1].kind # "count" => CountersTo(r + 1) = CountersTo(r)
  <2>1. r \in Nat
    BY <1>1, SMT DEF n
  <2>2. r + 1 \in 1..n /\ ~(r + 1 <= r) /\ r + 1 <= r + 1
    BY <1>1, <1>7, <2>1
  <2>3. \A k \in 1..n : k <= r + 1 <=> k <= r \/ k = r + 1
    BY <1>1, <2>1
  <2>4. \A k : k \in CountersTo(r + 1) <=> k \in CountersTo(r) \/ (k = r + 1 /\ r + 1 \in Counters)
    BY <1>2, <1>3, <2>2, <2>3, Zenon
  <2> QED
    BY <1>2, <1>3, <2>2, <2>4, Zenon
<1> QED
  BY <1>2, <1>4, <1>5, <1>6, <1>7, Zenon DEF n

LEMMA CleanedStart ==
  ASSUME PrintedOK, IsSeq(made), IsFiniteSet(OutputLines), NEW fs, NEW o,
         FiltersAt(fs, OutputLines), OutIs(o, OutputLines)
  PROVE  CleanedTo(0, fs, o)
<1> DEFINE n == Len(made)
           K == Through(n)
<1>1. n \in Nat
  BY SeqFacts, Zenon
<1>2. 0 \in 0..n /\ n \in 0..n /\ n = n - 0
  BY <1>1
<1>3. K \subseteq OutputLines
  BY <1>2, ThroughFacts, Zenon
<1>4. Kept(OutputLines) = K
  BY <1>3, Zenon DEF Kept
<1>5. IsSeq(fs) /\ Len(fs) = n /\ \A k \in 1..n : fs[k] = State(k, OutputLines)
  BY Zenon DEF FiltersAt
<1>6. /\ IsSeq(o) /\ Len(o) = Cardinality(K)
      /\ \A x \in K : o[Cardinality({y \in K : ~Before(x, y)})] = Text(x)
  BY <1>4, Zenon DEF OutIs
<1>7. CountersTo(0) = {}
  BY <1>2, CounterFacts, Zenon
<1>8. Len(o) = Cardinality(K) + Cardinality(CountersTo(0))
  <2>1. Cardinality(K) \in Nat
    BY <1>3, CountSubset, Zenon
  <2>2. Cardinality(CountersTo(0)) = 0
    BY <1>7, FS_EmptySet, Zenon
  <2> HIDE DEF K
  <2>3. Cardinality(K) = Cardinality(K) + 0
    BY <2>1
  <2> QED
    BY <1>6, <2>2, <2>3, Zenon
<1>9. \A k \in 1..Len(fs) : fs[k] = State(0 + k, OutputLines)
  <2>1. \A k \in 1..n : 0 + k = k
    BY <1>1
  <2> QED
    BY <1>5, <2>1, Zenon
<1> QED
  BY <1>2, <1>5, <1>6, <1>7, <1>8, <1>9, Zenon DEF CleanedTo

(* The last call of one filter.                                            *)
LEMMA CleanedStep ==
  ASSUME PrintedOK, IsSeq(made), NEW r, NEW fs, NEW o, CleanedTo(r, fs, o), fs # <<>>
  PROVE  CleanedTo(r + 1, Tail(fs),
                   IF Head(fs).kind # "count" THEN o ELSE Append(o, <<"count", Head(fs).count>>))
<1> DEFINE n == Len(made)
           K == Through(n)
           C == CountersTo(r)
           Rank(x) == Cardinality({y \in K : ~Before(x, y)})
           Upto(k) == {j \in Counters : j <= k}
           Count(k) == <<"count", Cardinality({x \in Through(k - 1) : NonBlank(x)})>>
           gs == Tail(fs)
<1>1. /\ r \in 0..n /\ IsFiniteSet(OutputLines) /\ IsSeq(fs) /\ Len(fs) = n - r
      /\ \A k \in 1..Len(fs) : fs[k] = State(r + k, OutputLines)
      /\ IsSeq(o) /\ Len(o) = Cardinality(K) + Cardinality(C)
      /\ \A x \in K : o[Rank(x)] = Text(x)
      /\ \A k \in C : o[Cardinality(K) + Cardinality(Upto(k))] = Count(k)
  BY Zenon DEF CleanedTo
<1>2. n \in Nat /\ Len(fs) \in Nat /\ Len(fs) # 0 /\ Head(fs) = fs[1]
  BY <1>1, SeqFacts, Zenon
<1>3. /\ r \in Nat /\ r < n /\ r + 1 \in 0..n /\ r + 1 \in 1..n /\ 1 \in 1..Len(fs) /\ (r + 1) - 1 = r
      /\ r \in 0..n /\ n \in 0..n
  BY <1>1, <1>2
<1>4. K \subseteq OutputLines /\ Through(r) \subseteq OutputLines
  BY <1>3, ThroughFacts, Zenon
<1>5. IsFiniteSet(K) /\ Cardinality(K) \in Nat
  BY <1>1, <1>4, CountSubset, Zenon
<1>6. /\ IsFiniteSet(C) /\ Cardinality(C) \in Nat /\ r + 1 \notin C
      /\ made[r + 1].kind = "count" => CountersTo(r + 1) = C \cup {r + 1}
      /\ made[r + 1].kind # "count" => CountersTo(r + 1) = C
  BY <1>3, CounterFacts, Zenon
<1>7. /\ Head(fs).kind = made[r + 1].kind
      /\ made[r + 1].kind = "count" => <<"count", Head(fs).count>> = Count(r + 1)
  <2>1. Head(fs) = State(r + 1, OutputLines)
    BY <1>1, <1>2, <1>3, Zenon
  <2>2. Through((r + 1) - 1) \cap OutputLines = Through(r)
    BY <1>3, <1>4, Zenon
  <2>3. Head(fs) = After(made[r + 1], Open(r + 1, Through(r)), Num(r + 1, Through(r)))
    BY <2>1, <2>2, Zenon DEF State
  <2>5. Head(fs).kind = made[r + 1].kind /\ Head(fs).count = Num(r + 1, Through(r))
    <3>1. PICK q, m : q = Open(r + 1, Through(r)) /\ m = Num(r + 1, Through(r))
      OBVIOUS
    <3>2. Head(fs) = After(made[r + 1], q, m)
      BY <2>3, <3>1, Zenon
    <3>3. Head(fs).kind = made[r + 1].kind /\ Head(fs).count = m
      BY <3>2 DEF After
    <3> QED
      BY <3>1, <3>3, Zenon
  <2>6. made[r + 1].kind = "count" =>
          Num(r + 1, Through(r)) = Cardinality({x \in Through(r) : NonBlank(x)})
    BY Zenon DEF Num
  <2> QED
    BY <1>3, <2>5, <2>6, Zenon
<1>8. /\ IsSeq(gs) /\ Len(gs) = n - (r + 1)
      /\ \A k \in 1..Len(gs) : gs[k] = State((r + 1) + k, OutputLines)
  <2>1. /\ IsSeq(gs) /\ Len(gs) = Len(fs) - 1 /\ \A i \in 1..Len(fs) - 1 : gs[i] = fs[i + 1]
    BY <1>1, TailFacts, Zenon
  <2> HIDE DEF gs, n
  <2>2. Len(gs) = n - (r + 1)
    BY <1>1, <1>2, <1>3, <2>1
  <2>3. ASSUME NEW k \in 1..Len(gs) PROVE gs[k] = State((r + 1) + k, OutputLines)
    <3>1. k \in 1..Len(fs) - 1 /\ k + 1 \in 1..Len(fs) /\ r + (k + 1) = (r + 1) + k
      BY <1>1, <1>2, <1>3, <2>1
    <3>2. gs[k] = fs[k + 1]
      BY <2>1, <3>1, Zenon
    <3>3. fs[k + 1] = State(r + (k + 1), OutputLines)
      BY <1>1, <3>1, Zenon
    <3> QED
      BY <3>1, <3>2, <3>3, Zenon
  <2> QED
    BY <2>1, <2>2, <2>3, Zenon
<1>9. ASSUME NEW s, IsSeq(s), Len(s) = Cardinality(K) + Cardinality(CountersTo(r + 1)),
             \A x \in K : s[Rank(x)] = Text(x),
             \A k \in CountersTo(r + 1) : s[Cardinality(K) + Cardinality(Upto(k))] = Count(k)
      PROVE  CleanedTo(r + 1, gs, s)
  BY <1>1, <1>3, <1>8, <1>9, Zenon DEF CleanedTo
<1>10. \A k : k \in C <=> k \in Upto(r)
  BY Zenon DEF CountersTo
<1>11. CASE made[r + 1].kind # "count"
  <2>1. CountersTo(r + 1) = C
    BY <1>6, <1>11, Zenon
  <2> HIDE DEF K, C, Rank, Upto, Count, gs
  <2>2. CleanedTo(r + 1, gs, o)
    BY <1>1, <1>9, <2>1, Zenon
  <2> QED
    BY <1>7, <1>11, <2>2, Zenon DEF gs
<1>12. CASE made[r + 1].kind = "count"
  <2>1. CountersTo(r + 1) = C \cup {r + 1}
    BY <1>6, <1>12, Zenon
  <2>2. Cardinality(CountersTo(r + 1)) = Cardinality(C) + 1
    BY <1>6, <2>1, CountOneMore, Zenon
  <2>3. PICK c : c = <<"count", Head(fs).count>>
    OBVIOUS
  <2>4. c = Count(r + 1)
    BY <1>7, <1>12, <2>3, Zenon
  <2> DEFINE s == Append(o, c)
  <2>5. /\ IsSeq(s) /\ Len(s) = Len(o) + 1
        /\ s[Len(o) + 1] = c /\ \A i \in 1..Len(o) : s[i] = o[i]
    <3>1. IsSeq(o)
      BY <1>1, Zenon
    <3> QED
      BY <3>1, AppendFacts, ZenonT(30)
  <2> HIDE DEF s
  <2>6. ASSUME NEW x \in K PROVE s[Rank(x)] = Text(x)
    <3> DEFINE A == {y \in K : ~Before(x, y)}
    <3>1. A \subseteq K /\ x \in A
      <4>1. ~Before(x, x)
        BY <1>4, BeforeOrder, Zenon
      <4> QED
        BY <4>1, Zenon
    <3>2. o[Cardinality(A)] = Text(x)
      BY <1>1, Zenon
    <3>3. Rank(x) = Cardinality(A)
      OBVIOUS
    <3> HIDE DEF A, K, C, Rank
    <3>4. IsFiniteSet(A) /\ Cardinality(A) \in Nat /\ Cardinality(A) <= Cardinality(K)
      BY <1>5, <3>1, CountSubset, Zenon
    <3>5. Cardinality(A) # 0
      BY <3>1, <3>4, FS_EmptySet, Zenon
    <3>6. Cardinality(A) \in 1..Len(o)
      BY <1>1, <1>5, <1>6, <3>4, <3>5
    <3> QED
      BY <2>5, <3>2, <3>3, <3>6, Zenon
  <2>7. ASSUME NEW k \in CountersTo(r + 1) PROVE s[Cardinality(K) + Cardinality(Upto(k))] = Count(k)
    <3>1. CASE k = r + 1
      <4>1. Upto(r + 1) = CountersTo(r + 1)
        BY Zenon DEF CountersTo
      <4>2. Cardinality(K) + (Cardinality(C) + 1) = Len(o) + 1
        <5> HIDE DEF K, C
        <5> QED
          BY <1>1, <1>5, <1>6
      <4> HIDE DEF K, C, Upto, Count
      <4>3. s[Cardinality(K) + Cardinality(Upto(r + 1))] = c
        BY <2>2, <2>5, <4>1, <4>2, Zenon
      <4> QED
        BY <2>4, <3>1, <4>3, Zenon
    <3>2. CASE k # r + 1
      <4>1. k \in C
        BY <2>1, <3>2, Zenon
      <4>2. k \in Counters /\ k <= r /\ k \in 1..n
        BY <1>3, <4>1, CounterFacts, Zenon DEF CountersTo
      <4>3. ASSUME NEW j \in Upto(k) PROVE j \in C
        <5>1. j \in Counters /\ j <= k /\ j \in 1..n
          BY <1>3, CounterFacts, Zenon
        <5>2. j <= r
          BY <1>3, <1>2, <4>2, <5>1
        <5> QED
          BY <5>1, <5>2, Zenon DEF CountersTo
      <4>4. k \in Upto(k)
        <5>1. k <= k
          BY <1>2, <4>2
        <5> QED
          BY <4>2, <5>1, Zenon
      <4>5. o[Cardinality(K) + Cardinality(Upto(k))] = Count(k)
        BY <1>1, <4>1, Zenon
      <4> HIDE DEF K, C, Upto, Count
      <4>6. /\ IsFiniteSet(Upto(k)) /\ Cardinality(Upto(k)) \in Nat
            /\ Cardinality(Upto(k)) <= Cardinality(C)
        <5>1. Upto(k) \subseteq C
          BY <4>3, Zenon
        <5> QED
          BY <1>6, <5>1, CountSubset, Zenon
      <4>7. Cardinality(Upto(k)) # 0
        BY <4>4, <4>6, FS_EmptySet, Zenon
      <4>8. Cardinality(K) + Cardinality(Upto(k)) \in 1..Len(o)
        BY <1>1, <1>5, <1>6, <4>6, <4>7
      <4> QED
        BY <2>5, <4>5, <4>8, Zenon
    <3> QED
      BY <3>1, <3>2
  <2>8. Len(s) = Cardinality(K) + Cardinality(CountersTo(r + 1))
    <3> HIDE DEF K, C
    <3>1. (Cardinality(K) + Cardinality(C)) + 1 = Cardinality(K) + (Cardinality(C) + 1)
      BY <1>5, <1>6
    <3> QED
      BY <1>1, <2>2, <2>5, <3>1, Zenon
  <2> HIDE DEF K, C, Rank, Upto, Count, gs
  <2>9. CleanedTo(r + 1, gs, s)
    BY <1>9, <2>5, <2>6, <2>7, <2>8, Zenon
  <2> QED
    BY <1>7, <1>12, <2>3, <2>9, Zenon DEF gs, s
<1> QED
  BY <1>11, <1>12

-----------------------------------------------------------------------------
(* The filters as they are made *)

Filter(kind, pattern, to, invert, fold, matched, count) ==
  [kind |-> kind, pattern |-> pattern, to |-> to, invert |-> invert, fold |-> fold,
   matched |-> matched, count |-> count]
Unused(f, no) == \E k, pat, t, i, fo : f = Filter(k, pat, t, i, fo, no, 0)

LEMMA UnusedWith ==
  ASSUME NEW f, NEW no, Unused(f, no), NEW v
  PROVE  /\ Unused([f EXCEPT !.kind = v], no) /\ Unused([f EXCEPT !.pattern = v], no)
         /\ Unused([f EXCEPT !.to = v], no) /\ Unused([f EXCEPT !.invert = v], no)
         /\ Unused([f EXCEPT !.fold = v], no)
<1>1. PICK k, pat, t, i, fo : f = Filter(k, pat, t, i, fo, no, 0)
  BY Zenon DEF Unused
<1>2. [f EXCEPT !.kind = v] = Filter(v, pat, t, i, fo, no, 0)
  BY <1>1 DEF Filter
<1>3. [f EXCEPT !.pattern = v] = Filter(k, v, t, i, fo, no, 0)
  BY <1>1 DEF Filter
<1>4. [f EXCEPT !.to = v] = Filter(k, pat, v, i, fo, no, 0)
  BY <1>1 DEF Filter
<1>5. [f EXCEPT !.invert = v] = Filter(k, pat, t, v, fo, no, 0)
  BY <1>1 DEF Filter
<1>6. [f EXCEPT !.fold = v] = Filter(k, pat, t, i, v, no, 0)
  BY <1>1 DEF Filter
<1>7. Unused([f EXCEPT !.kind = v], no)
  BY <1>2, Zenon DEF Unused
<1>8. Unused([f EXCEPT !.pattern = v], no)
  BY <1>3, Zenon DEF Unused
<1>9. Unused([f EXCEPT !.to = v], no)
  BY <1>4, Zenon DEF Unused
<1>10. Unused([f EXCEPT !.invert = v], no)
  BY <1>5, Zenon DEF Unused
<1>11. Unused([f EXCEPT !.fold = v], no)
  BY <1>6, Zenon DEF Unused
<1> QED
  BY <1>7, <1>8, <1>9, <1>10, <1>11

LEMMA MadeClean ==
  ASSUME NEW argv, MakeFilter(argv) # None
  PROVE  Clean(MakeFilter(argv))
<1> DEFINE f == MakeFilter(argv)
<1>1. PICK z, e : z = FALSE /\ e = ""
  BY Zenon
<1>2. PICK g : g = Fresh /\ Unused(g, z)
  BY <1>1, Zenon DEF Fresh, Filter, Unused
<1>3. ASSUME Unused(f, z) PROVE Clean(f)
  <2> HIDE DEF f
  <2>1. PICK k, pat, t, i, fo : f = Filter(k, pat, t, i, fo, z, 0)
    BY <1>3, Zenon DEF Unused
  <2>2. f.kind = k /\ f.pattern = pat /\ f.to = t /\ f.invert = i /\ f.fold = fo
    BY <2>1 DEF Filter
  <2>3. f = After(f, z, 0)
    BY <2>1, <2>2, Zenon DEF After, Filter
  <2> QED
    BY <1>1, <2>3, Zenon DEF Clean
<1>4. \/ \E k, pat, i : f = [g EXCEPT !.kind = k, !.pattern = pat, !.invert = i]
      \/ f = Grep(argv)
      \/ \E k, pat : f = [g EXCEPT !.kind = k, !.pattern = pat]
      \/ \E k, pat, t : f = [g EXCEPT !.kind = k, !.pattern = pat, !.to = t]
      \/ \E k : f = [g EXCEPT !.kind = k]
  BY <1>2, Zenon DEF MakeFilter
<1>5. \E k, pat, i, fo : Grep(argv) = [g EXCEPT !.kind = k, !.pattern = pat, !.invert = i, !.fold = fo]
  BY <1>2, Zenon DEF Grep
<1> HIDE DEF f
<1>6. \A k : Unused([g EXCEPT !.kind = k], z)
  BY <1>2, UnusedWith, Zenon
<1>7. \A k, pat : Unused([g EXCEPT !.kind = k, !.pattern = pat], z)
  BY <1>6, UnusedWith, Zenon
<1>8. \A k, pat, t : Unused([g EXCEPT !.kind = k, !.pattern = pat, !.to = t], z)
  BY <1>7, UnusedWith, Zenon
<1>9. \A k, pat, i : Unused([g EXCEPT !.kind = k, !.pattern = pat, !.invert = i], z)
  BY <1>7, UnusedWith, Zenon
<1>10. \A k, pat, i, fo : Unused([g EXCEPT !.kind = k, !.pattern = pat, !.invert = i, !.fold = fo], z)
  BY <1>9, UnusedWith, Zenon
<1>11. Unused(f, z)
  <2>1. CASE \E k, pat, i : f = [g EXCEPT !.kind = k, !.pattern = pat, !.invert = i]
    <3>1. PICK k, pat, i : f = [g EXCEPT !.kind = k, !.pattern = pat, !.invert = i]
      BY <2>1
    <3>2. Unused([g EXCEPT !.kind = k, !.pattern = pat, !.invert = i], z)
      BY <1>9, Zenon
    <3> QED
      BY <3>1, <3>2
  <2>2. CASE f = Grep(argv)
    <3>1. PICK k, pat, i, fo : f = [g EXCEPT !.kind = k, !.pattern = pat, !.invert = i, !.fold = fo]
      BY <1>5, <2>2
    <3>2. Unused([g EXCEPT !.kind = k, !.pattern = pat, !.invert = i, !.fold = fo], z)
      BY <1>10, Zenon
    <3> QED
      BY <3>1, <3>2
  <2>3. CASE \E k, pat : f = [g EXCEPT !.kind = k, !.pattern = pat]
    <3>1. PICK k, pat : f = [g EXCEPT !.kind = k, !.pattern = pat]
      BY <2>3
    <3>2. Unused([g EXCEPT !.kind = k, !.pattern = pat], z)
      BY <1>7, Zenon
    <3> QED
      BY <3>1, <3>2
  <2>4. CASE \E k, pat, t : f = [g EXCEPT !.kind = k, !.pattern = pat, !.to = t]
    <3>1. PICK k, pat, t : f = [g EXCEPT !.kind = k, !.pattern = pat, !.to = t]
      BY <2>4
    <3>2. Unused([g EXCEPT !.kind = k, !.pattern = pat, !.to = t], z)
      BY <1>8, Zenon
    <3> QED
      BY <3>1, <3>2
  <2>5. CASE \E k : f = [g EXCEPT !.kind = k]
    BY <1>6, <2>5, Zenon
  <2> QED
    BY <1>4, <2>1, <2>2, <2>3, <2>4, <2>5
<1> QED
  BY <1>3, <1>11, Zenon DEF f

-----------------------------------------------------------------------------
(* The invariant of the pipe *)

(* _print has sent the lines in D through the filters.                     *)
Printing(fs, ps, o) ==
  \E D : IsFiniteSet(D) /\ Position(ps, D) /\ FiltersAt(fs, D) /\ OutIs(o, D)
Cleaned(fs, o) == \E r : CleanedTo(r, fs, o)
AllClean == \A k \in 1..Len(made) : Clean(made[k])

LEMMA BeginPrinting ==
  ASSUME PrintedOK, IsSeq(made), AllClean
  PROVE  /\ Printing(made, printed, <<>>)
         /\ printed = <<>> => CleanedTo(0, made, <<>>)
<1>1. ASSUME NEW k \in 1..Len(made) PROVE made[k] = State(k, {})
  <2> DEFINE M == Through(k - 1) \cap {}
  <2>1. M = {} /\ {x \in M : NonBlank(x)} = {}
    BY Zenon
  <2>2. Num(k, M) = 0
    BY <2>1, FS_EmptySet, Zenon DEF Num
  <2>3. State(k, {}) = After(made[k], Open(k, M), Num(k, M))
    BY Zenon DEF State
  <2> HIDE DEF M
  <2>4. ~Open(k, M) /\ Open(k, M) \in BOOLEAN
    BY <2>1, Zenon DEF Open
  <2>5. PICK q : q = Open(k, M)
    OBVIOUS
  <2>6. q = FALSE
    BY <2>4, <2>5, Zenon
  <2>7. State(k, {}) = After(made[k], q, 0)
    BY <2>2, <2>3, <2>5, Zenon
  <2>8. made[k] = After(made[k], FALSE, 0)
    BY Zenon DEF AllClean, Clean
  <2> QED
    BY <2>6, <2>7, <2>8, Zenon
<1>2. FiltersAt(made, {})
  BY <1>1, Zenon DEF FiltersAt
<1>3. OutIs(<<>>, {})
  <2>1. Kept({}) = {}
    BY Zenon DEF Kept
  <2>2. Len(<<>>) = 0 /\ IsSeq(<<>>)
    <3>1. <<>> \in Seq({}) /\ Len(<<>>) = 0
      OBVIOUS
    <3> QED
      BY <3>1, Zenon DEF IsSeq
  <2>3. Cardinality({}) = 0
    BY FS_EmptySet, Zenon
  <2> QED
    BY <2>1, <2>2, <2>3, Zenon DEF OutIs
<1>4. Position(printed, {}) /\ (printed = <<>> => OutputLines = {}) /\ IsFiniteSet({})
  BY StartPosition, FS_EmptySet, Zenon
<1>5. Printing(made, printed, <<>>)
  BY <1>2, <1>3, <1>4, Zenon DEF Printing
<1>6. ASSUME printed = <<>> PROVE CleanedTo(0, made, <<>>)
  <2>1. OutputLines = {}
    BY <1>4, <1>6, Zenon
  <2>2. IsFiniteSet(OutputLines) /\ FiltersAt(made, OutputLines) /\ OutIs(<<>>, OutputLines)
    BY <1>2, <1>3, <1>4, <2>1, Zenon
  <2> QED
    BY <2>2, CleanedStart, Zenon
<1> QED
  BY <1>5, <1>6

(* The callback has returned.                                              *)
LEMMA EndPrinting ==
  ASSUME PrintedOK, IsSeq(made), NEW fs, NEW o, Printing(fs, <<>>, o)
  PROVE  CleanedTo(0, fs, o)
<1>1. PICK D : IsFiniteSet(D) /\ Position(<<>>, D) /\ FiltersAt(fs, D) /\ OutIs(o, D)
  BY Zenon DEF Printing
<1>2. D = OutputLines
  <2> SUFFICES ASSUME NEW n, NEW a, StandsAt(<<>>, n, a) PROVE FALSE
    BY <1>1, Zenon DEF Position
  <2>1. IsLine(n, a) /\ Len(<<>>) = Len(printed) - n + 1
    BY Zenon DEF StandsAt
  <2>2. n \in Nat /\ n <= Len(printed) /\ Len(printed) \in Nat
    BY <2>1, LineNumbers, Zenon
  <2> QED
    BY <2>1, <2>2
<1> QED
  BY <1>1, <1>2, CleanedStart, Zenon

(* What depends on the output and on the filters as made does not change.  *)
LEMMA SameOutput ==
  ASSUME printed' = printed, made' = made
  PROVE  /\ PrintedOK => PrintedOK'
         /\ AllClean => AllClean'
         /\ Printing(filters', prints', out') => Printing(filters, prints, out)'
         /\ Cleaned(filters', out') => Cleaned(filters, out)'
<1>1. PrintedOK => PrintedOK'
  BY Zenon DEF PrintedOK
<1>2. AllClean => AllClean'
  BY Zenon DEF AllClean
<1> DEFINE L(pr) ==
             UNION {{n} \X {a \in 1..Len(pr[n]) + 1 : a = 1 \/ pr[n][a - 1] = "nl"} : n \in DOMAIN pr}
           S(pr, x) ==
             SubSeq(pr[x[1]], x[2],
                    (CHOOSE e \in x[2]..Len(pr[x[1]]) + 1 :
                       /\ \A i \in x[2]..e - 1 : pr[x[1]][i] # "nl"
                       /\ e <= Len(pr[x[1]]) => pr[x[1]][e] = "nl") - 1)
           K(pr, f, ls, x) ==
             \/ f.kind = "match" /\ Matches(f, S(pr, x)) # f.invert
             \/ /\ f.kind = "range"
                /\ \E y \in ls :
                     /\ ~Before(x, y) /\ Has(S(pr, y), f.pattern)
                     /\ f.to # None =>
                          \A z \in ls : ~Before(z, y) /\ Before(z, x) => ~Has(S(pr, z), f.to)
           T(pr, md, n) ==
             LET through[k \in 0..Len(md)] ==
                   IF k = 0 THEN L(pr)
                   ELSE {x \in through[k - 1] : K(pr, md[k], through[k - 1], x)}
             IN through[n]
<1>3. OutputLines' = OutputLines
  <2>1. OutputLines = L(printed) /\ OutputLines' = L(printed')
    BY Zenon DEF OutputLines
  <2> HIDE DEF L
  <2> QED
    BY <2>1, Zenon
<1>4. \A x : LineEnd(x)' = LineEnd(x)
  BY Zenon DEF LineEnd
<1>5. \A x : Text(x)' = Text(x)
  BY <1>4, Zenon DEF Text
<1>7. \A k : Through(k)' = Through(k)
  <2>1. \A k : Through(k) = T(printed, made, k) /\ Through(k)' = T(printed', made', k)
    BY Zenon DEF Through, Keeps, Text, LineEnd, OutputLines
  <2> HIDE DEF T
  <2> QED
    BY <2>1, Zenon
<1>8. \A x : NonBlank(x)' <=> NonBlank(x)
  BY <1>5, Zenon DEF NonBlank
<1>9. \A k, ls : Open(k, ls)' = Open(k, ls)
  BY <1>5, Zenon DEF Open
<1>10. \A k, ls : Num(k, ls)' = Num(k, ls)
  BY <1>8, Zenon DEF Num
<1>11. \A k, D : State(k, D)' = State(k, D)
  BY <1>7, <1>9, <1>10, Zenon DEF State
<1>12. \A fs, D : FiltersAt(fs, D) => FiltersAt(fs, D)'
  BY <1>11, Zenon DEF FiltersAt
<1>13. \A D : Kept(D)' = Kept(D)
  BY <1>7, Zenon DEF Kept
<1>14. \A o, D : OutIs(o, D) => OutIs(o, D)'
  BY <1>5, <1>13, Zenon DEF OutIs
<1>15. \A n, a : IsLine(n, a) => IsLine(n, a)'
  BY Zenon DEF IsLine
<1>16. \A ps, n, a : StandsAt(ps, n, a) => StandsAt(ps, n, a)'
  BY <1>15, Zenon DEF StandsAt
<1>17. \A ps, D : Position(ps, D) => Position(ps, D)'
  BY <1>3, <1>16, Zenon DEF Position, Prefix
<1>18. Printing(filters', prints', out') => Printing(filters, prints, out)'
  BY <1>12, <1>14, <1>17, Zenon DEF Printing
<1>19. Counters' = Counters /\ \A r : CountersTo(r)' = CountersTo(r)
  BY Zenon DEF Counters, CountersTo
<1>20. \A k : Cardinality({x \in Through(k - 1) : NonBlank(x)})' = Cardinality({x \in Through(k - 1) : NonBlank(x)})
  BY <1>7, <1>8, Zenon
<1>21. \A r, fs, o : CleanedTo(r, fs, o) => CleanedTo(r, fs, o)'
  BY <1>3, <1>5, <1>7, <1>11, <1>19, <1>20, ZenonT(60) DEF CleanedTo
<1>22. Cleaned(filters', out') => Cleaned(filters, out)'
  BY <1>21, Zenon DEF Cleaned
<1> QED
  BY <1>1, <1>2, <1>18, <1>22

PipeInv ==
  /\ PrintedOK /\ IsSeq(made)
  /\ stage \in {"parse", "init"} => prints = printed /\ out = <<>> /\ filters = made /\ AllClean
  /\ stage = "print" => Printing(filters, prints, out)
  /\ stage = "cleanup" /\ prints = <<>> => Cleaned(filters, out)
  /\ stage = "done" /\ prints = <<>> /\ filters = <<>> => Cleaned(filters, out)

LEMMA PipeInvInit == Init => PipeInv
<1> SUFFICES ASSUME Init PROVE PipeInv
  OBVIOUS
<1>1. /\ stage = "parse" /\ prints \in Prints /\ printed = prints /\ out = <<>> /\ filters = <<>> /\ made = <<>>
  BY Zenon DEF Init
<1>2. stage # "print" /\ stage # "cleanup" /\ stage # "done"
  BY <1>1
<1>3. PrintedOK
  BY <1>1, PrintsAssumption, Zenon DEF PrintedOK, IsSeq
<1>4. Len(<<>>) = 0 /\ IsSeq(<<>>) /\ \A k : k \notin 1..0
  <2>1. <<>> \in Seq({}) /\ Len(<<>>) = 0 /\ \A k : k \notin 1..0
    OBVIOUS
  <2> QED
    BY <2>1, Zenon DEF IsSeq
<1>5. IsSeq(made) /\ AllClean
  BY <1>1, <1>4, Zenon DEF AllClean
<1> QED
  BY <1>1, <1>2, <1>3, <1>5, Zenon DEF PipeInv

(* A step of the parser, and the call of the callback.                     *)
LEMMA PipeInvBefore ==
  ASSUME PipeInv, stage \in {"parse", "init"}, stage' \in {"parse", "init", "print", "cleanup", "done"},
         printed' = printed, made' = made, prints' = prints, filters' = filters, out' = out
  PROVE  PipeInv'
<1>1. PrintedOK /\ IsSeq(made) /\ prints = printed /\ out = <<>> /\ filters = made /\ AllClean
  BY DEF PipeInv
<1>2. PrintedOK' /\ AllClean'
  BY <1>1, SameOutput, Zenon
<1>3. Printing(filters, prints, out)'
  <2>1. Printing(filters', prints', out')
    BY <1>1, BeginPrinting, Zenon
  <2> QED
    BY <2>1, SameOutput, Zenon
<1>4. prints' = <<>> => Cleaned(filters, out)'
  <2>1. prints' = <<>> => Cleaned(filters', out')
    BY <1>1, BeginPrinting, Zenon DEF Cleaned
  <2> QED
    BY <2>1, SameOutput, Zenon
<1> QED
  BY <1>1, <1>2, <1>3, <1>4, Zenon DEF PipeInv

LEMMA PipeInvFilter ==
  ASSUME PipeInv, InitFilter
  PROVE  PipeInv'
<1> DEFINE m == MakeFilter(Argv(Len(filters) + 1))
<1>1. /\ stage = "init" /\ made' = filters' /\ prints' = prints /\ printed' = printed /\ out' = out
      /\ \/ stage' \in {"done", "cleanup"} /\ filters' = filters
         \/ m # None /\ filters' = Append(filters, m) /\ stage' = "init"
  BY Zenon DEF InitFilter
<1>2. PrintedOK /\ IsSeq(made) /\ prints = printed /\ out = <<>> /\ filters = made /\ AllClean
  BY <1>1, Zenon DEF PipeInv
<1>3. CASE stage' \in {"done", "cleanup"} /\ filters' = filters
  BY <1>1, <1>2, <1>3, PipeInvBefore, Zenon
<1>4. CASE m # None /\ filters' = Append(filters, m) /\ stage' = "init"
  <2>1. Clean(m)
    BY <1>4, MadeClean, Zenon
  <2> HIDE DEF m
  <2>2. made' = Append(made, m)
    BY <1>1, <1>2, <1>4, Zenon
  <2>3. /\ IsSeq(made') /\ Len(made') = Len(made) + 1
        /\ made'[Len(made) + 1] = m /\ \A i \in 1..Len(made) : made'[i] = made[i]
    BY <1>2, <2>2, AppendFacts, Zenon
  <2>4. \A k \in 1..Len(made) + 1 : k \in 1..Len(made) \/ k = Len(made) + 1
    BY <1>2, SeqFacts
  <2>5. \A k \in 1..Len(made') : Clean(made'[k])
    BY <1>2, <2>1, <2>3, <2>4, Zenon DEF AllClean
  <2>6. AllClean'
    BY <2>5, Zenon DEF AllClean
  <2>7. PrintedOK'
    BY <1>1, <1>2, Zenon DEF PrintedOK
  <2>8. stage' = "init" /\ stage' # "print" /\ stage' # "cleanup" /\ stage' # "done"
    BY <1>4
  <2> QED
    BY <1>1, <1>2, <2>3, <2>6, <2>7, <2>8, Zenon DEF PipeInv
<1> QED
  BY <1>1, <1>3, <1>4, Zenon

LEMMA PipeInvLine ==
  ASSUME PipeInv, PrintLine
  PROVE  PipeInv'
<1> DEFINE t == Head(prints)
           s == LineOf(t)
<1>1. /\ stage = "print" /\ stage' = "print" /\ made' = made /\ printed' = printed /\ prints # <<>>
      /\ filters' = Filtered(s)
      /\ out' = IF \A k \in DOMAIN filters : Passes(filters[k], s) THEN Append(out, s) ELSE out
      /\ prints' = RestOf(prints)
  BY Zenon DEF PrintLine, LineOf, RestOf
<1>2. PrintedOK /\ IsSeq(made) /\ Printing(filters, prints, out)
  BY <1>1, Zenon DEF PipeInv
<1>3. PICK D : IsFiniteSet(D) /\ Position(prints, D) /\ FiltersAt(filters, D) /\ OutIs(out, D)
  BY <1>2, Zenon DEF Printing
<1>4. PICK x : Prefix(x, D) /\ s = Text(x) /\ Position(RestOf(prints), D \cup {x})
  BY <1>1, <1>2, <1>3, NextPosition, Zenon
<1> HIDE DEF s
<1>5. IsFiniteSet(D \cup {x})
  BY <1>3, FS_AddElement, Zenon
<1>6. /\ FiltersAt(Filtered(s), D \cup {x})
      /\ (\A k \in DOMAIN filters : Passes(filters[k], s)) <=> x \in Through(Len(made))
  <2>1. /\ FiltersAt(Filtered(Text(x)), D \cup {x})
        /\ (\A k \in DOMAIN filters : Passes(filters[k], Text(x))) <=> x \in Through(Len(made))
    BY <1>2, <1>3, <1>4, FilteredIs, Zenon
  <2> QED
    BY <1>4, <2>1, Zenon
<1>7. OutIs(out', D \cup {x})
  <2>1. OutIs(IF x \in Through(Len(made)) THEN Append(out, Text(x)) ELSE out, D \cup {x})
    BY <1>2, <1>3, <1>4, OutMore, Zenon
  <2>2. CASE x \in Through(Len(made))
    <3>1. out' = Append(out, s)
      BY <1>1, <1>6, <2>2, Zenon
    <3> QED
      BY <1>4, <2>1, <2>2, <3>1, Zenon
  <2>3. CASE x \notin Through(Len(made))
    <3>1. out' = out
      BY <1>1, <1>6, <2>3, Zenon
    <3> QED
      BY <2>1, <2>3, <3>1, Zenon
  <2> QED
    BY <2>2, <2>3
<1>8. FiltersAt(filters', D \cup {x}) /\ Position(prints', D \cup {x})
  BY <1>1, <1>4, <1>6, Zenon
<1>9. Printing(filters, prints, out)'
  <2>1. Printing(filters', prints', out')
    BY <1>5, <1>7, <1>8, Zenon DEF Printing
  <2> QED
    BY <1>1, <2>1, SameOutput, Zenon
<1>10. PrintedOK' /\ IsSeq(made')
  BY <1>1, <1>2, SameOutput, Zenon
<1>11. stage' \notin {"parse", "init"} /\ stage' # "cleanup" /\ stage' # "done"
  BY <1>1
<1> QED
  BY <1>9, <1>10, <1>11, Zenon DEF PipeInv

LEMMA PipeInvReturns ==
  ASSUME PipeInv, CallbackReturns
  PROVE  PipeInv'
<1>1. /\ stage = "print" /\ stage' = "cleanup" /\ made' = made /\ printed' = printed
      /\ prints = <<>> /\ filters' = filters /\ out' = out
  BY Zenon DEF CallbackReturns
<1>2. PrintedOK /\ IsSeq(made) /\ Printing(filters, <<>>, out)
  BY <1>1, Zenon DEF PipeInv
<1>3. CleanedTo(0, filters', out')
  BY <1>1, <1>2, EndPrinting, Zenon
<1>4. Cleaned(filters, out)'
  <2>1. Cleaned(filters', out')
    BY <1>3, Zenon DEF Cleaned
  <2> QED
    BY <1>1, <2>1, SameOutput, Zenon
<1>5. PrintedOK' /\ IsSeq(made')
  BY <1>1, <1>2, SameOutput, Zenon
<1>6. stage' \notin {"parse", "init"} /\ stage' # "print" /\ stage' # "done"
  BY <1>1
<1> QED
  BY <1>4, <1>5, <1>6, Zenon DEF PipeInv

LEMMA PipeInvCleanUp ==
  ASSUME PipeInv, CleanUp
  PROVE  PipeInv'
<1>1. /\ stage = "cleanup" /\ made' = made /\ printed' = printed /\ prints' = prints
      /\ \/ stage' = "done" /\ filters' = filters /\ out' = out
         \/ /\ stage' = "cleanup" /\ filters # <<>> /\ filters' = Tail(filters)
            /\ out' = IF Head(filters).kind # "count" THEN out
                      ELSE Append(out, <<"count", Head(filters).count>>)
  BY Zenon DEF CleanUp
<1>2. PrintedOK /\ IsSeq(made) /\ (prints = <<>> => Cleaned(filters, out))
  BY <1>1, Zenon DEF PipeInv
<1>3. ASSUME prints' = <<>> PROVE Cleaned(filters, out)'
  <2>1. PICK r : CleanedTo(r, filters, out)
    BY <1>1, <1>2, <1>3, Zenon DEF Cleaned
  <2>2. Cleaned(filters', out')
    <3>1. CASE filters' = filters /\ out' = out
      BY <2>1, <3>1, Zenon DEF Cleaned
    <3>2. CASE /\ filters # <<>> /\ filters' = Tail(filters)
               /\ out' = IF Head(filters).kind # "count" THEN out
                         ELSE Append(out, <<"count", Head(filters).count>>)
      <4>1. CleanedTo(r + 1, Tail(filters), IF Head(filters).kind # "count" THEN out
                         ELSE Append(out, <<"count", Head(filters).count>>))
        BY <1>2, <2>1, <3>2, CleanedStep, Zenon
      <4>2. CleanedTo(r + 1, filters', out')
        BY <3>2, <4>1, Zenon
      <4> QED
        BY <4>2, Zenon DEF Cleaned
    <3> QED
      BY <1>1, <3>1, <3>2, Zenon
  <2> QED
    BY <1>1, <2>2, SameOutput, Zenon
<1>4. PrintedOK' /\ IsSeq(made')
  BY <1>1, <1>2, SameOutput, Zenon
<1>5. stage' \notin {"parse", "init"} /\ stage' # "print"
  BY <1>1
<1> QED
  BY <1>3, <1>4, <1>5, Zenon DEF PipeInv

LEMMA PipeInvStutter ==
  ASSUME PipeInv, stage' = stage, made' = made, printed' = printed, prints' = prints,
         filters' = filters, out' = out
  PROVE  PipeInv'
<1>1. /\ PrintedOK => PrintedOK'
      /\ AllClean => AllClean'
      /\ Printing(filters', prints', out') => Printing(filters, prints, out)'
      /\ Cleaned(filters', out') => Cleaned(filters, out)'
  BY SameOutput, Zenon
<1>2. /\ Printing(filters, prints, out) => Printing(filters', prints', out')
      /\ Cleaned(filters, out) => Cleaned(filters', out')
  BY Zenon
<1> QED
  BY <1>1, <1>2, Zenon DEF PipeInv

LEMMA PipeInvNext == PipeInv /\ [Next]_vars => PipeInv'
<1> SUFFICES ASSUME PipeInv, [Next]_vars PROVE PipeInv'
  OBVIOUS
<1>1. CASE Parse
  <2>1. /\ stage = "parse" /\ stage' \in {"parse", "init"} /\ filters' = filters /\ made' = made
        /\ prints' = prints /\ printed' = printed /\ out' = out
    BY <1>1, Zenon DEF Parse, EndWord, OpenQuote, Advance
  <2> QED
    BY <2>1, PipeInvBefore, Zenon
<1>2. CASE InitFilter
  BY <1>2, PipeInvFilter, Zenon
<1>3. CASE CallCallback
  <2>1. /\ stage = "init" /\ stage' \in {"done", "print"} /\ filters' = filters /\ made' = made
        /\ prints' = prints /\ printed' = printed /\ out' = out
    BY <1>3, Zenon DEF CallCallback
  <2> QED
    BY <2>1, PipeInvBefore, Zenon
<1>4. CASE PrintLine
  BY <1>4, PipeInvLine, Zenon
<1>5. CASE CallbackReturns
  BY <1>5, PipeInvReturns, Zenon
<1>6. CASE CleanUp
  BY <1>6, PipeInvCleanUp, Zenon
<1>7. CASE UNCHANGED vars
  <2>1. /\ stage' = stage /\ filters' = filters /\ made' = made
        /\ prints' = prints /\ printed' = printed /\ out' = out
    BY <1>7, Zenon DEF vars
  <2> QED
    BY <2>1, PipeInvStutter, Zenon
<1> QED
  BY <1>1, <1>2, <1>3, <1>4, <1>5, <1>6, <1>7, Zenon DEF Next

LEMMA PipeDone == PipeInv => OutputIsPipe
<1> SUFFICES ASSUME PipeInv, stage = "done", prints = <<>>, filters = <<>> PROVE OutputIsPipe
  BY Zenon DEF OutputIsPipe
<1>1. PICK r : CleanedTo(r, filters, out)
  BY Zenon DEF PipeInv, Cleaned
<1>2. IsSeq(made) /\ r \in 0..Len(made) /\ Len(filters) = Len(made) - r
  BY <1>1, Zenon DEF PipeInv, CleanedTo
<1>3. r = Len(made)
  <2>1. Len(filters) = 0
    OBVIOUS
  <2> QED
    BY <1>2, <2>1, SeqFacts
<1>4. CountersTo(r) = Counters
  BY <1>2, <1>3, CounterFacts, Zenon
<1> QED
  BY <1>1, <1>4, Zenon DEF CleanedTo, OutputIsPipe

(* _print and the filters: when all filters have been cleaned up, the      *)
(* client has received the lines that each filter in turn keeps of the     *)
(* output of the one before, in their order, and then the counts, whatever *)
(* the callback prints and however many filters the line asks for.         *)
THEOREM OutputThroughPipe == Spec => []OutputIsPipe
<1>1. Init => PipeInv
  BY PipeInvInit
<1>2. PipeInv /\ [Next]_vars => PipeInv'
  BY PipeInvNext
<1>3. PipeInv => OutputIsPipe
  BY PipeDone
<1> QED
  BY <1>1, <1>2, <1>3, PTL DEF Spec
===============================================================================

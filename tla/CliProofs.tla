------------------------------- MODULE CliProofs -------------------------------
(***************************************************************************)
(* Proofs about the command shell: the tree of commands and the session.   *)
(*                                                                         *)
(* What a word typed stands for, in a tree of any size with any names and  *)
(* after any sequence of registrations and removals.  A registration       *)
(* measures again the commands from one of them on, among themselves, and  *)
(* a removal measures nothing.  What survives is that no command is taken  *)
(* for a later one of its list, and that suffices for full names, because  *)
(* the first acceptable command is taken.                                  *)
(*                                                                         *)
(* What a session guarantees for every table of commands, every            *)
(* configuration of its passwords and whatever is entered.                 *)
(***************************************************************************)
EXTENDS CliTree, CliSession, WellFoundedInduction, TLAPS

-----------------------------------------------------------------------------
(* The tree of commands *)

(* Within f's unique_len, n's name differs from it.                        *)
Tells(list, f, n) ==
  list[f].command # list[n].command =>
    ~SameUpTo(list[n].command, list[f].command, list[f].unique_len)

ToldFromLater(list) == \A f, n \in DOMAIN list : f < n => Tells(list, f, n)
ToldFromAll(list) == \A f, n \in DOMAIN list : Tells(list, f, n)

TreeInv ==
  /\ commands \in Seq(Node)
  /\ ToldFromLater(commands)
  /\ complete => ToldFromAll(commands)
  /\ \A n \in DOMAIN commands : ToldFromAll(commands[n].children)

-----------------------------------------------------------------------------
(* Strings *)

IsString(s) == s \in Seq(Range(s)) /\ \A i \in DOMAIN s : s[i] # Nul
Prefix(s, t, n) == n <= Len(s) /\ n <= Len(t) /\ \A i \in 1..n : s[i] = t[i]

LEMMA NameIsString ==
  ASSUME NEW s \in Names PROVE IsString(s) /\ Folded(s) = s
  BY NamesAssumption DEF IsString, Folded

LEMMA WordIsString ==
  ASSUME NEW w \in Words PROVE IsString(Folded(w)) /\ Len(Folded(w)) = Len(w)
<1> DEFINE t == Folded(w)
<1>1. w \in Seq(Range(w)) /\ \A i \in DOMAIN w : Lower(w[i]) # Nul
  BY WordsAssumption
<1>2. Len(w) \in Nat /\ DOMAIN w = 1..Len(w)
  BY <1>1
<1>3. t = [i \in 1..Len(w) |-> Lower(w[i])]
  BY <1>2 DEF Folded
<1>4. \A i \in 1..Len(w) : t[i] \in Range(t) /\ t[i] # Nul
  BY <1>1, <1>2, <1>3 DEF Range
<1>5. t \in Seq(Range(t)) /\ Len(t) = Len(w)
  BY <1>2, <1>3, <1>4
<1> QED
  BY <1>2, <1>3, <1>4, <1>5 DEF IsString

LEMMA SameReflexive ==
  ASSUME NEW s, NEW n \in Nat PROVE SameUpTo(s, s, n)
  BY DEF SameUpTo

LEMMA SameSymmetric ==
  ASSUME NEW s, NEW t, NEW n \in Nat, SameUpTo(s, t, n) PROVE SameUpTo(t, s, n)
  BY DEF SameUpTo

(* strncmp finds no difference in n bytes: the strings are the same, or    *)
(* both have n bytes and the same ones.                                    *)
LEMMA SameMeans ==
  ASSUME NEW s, NEW t, IsString(s), IsString(t), NEW n \in Nat
  PROVE  SameUpTo(s, t, n) <=> s = t \/ Prefix(s, t, n)
<1>1. /\ Len(s) \in Nat /\ DOMAIN s = 1..Len(s)
      /\ Len(t) \in Nat /\ DOMAIN t = 1..Len(t)
  BY DEF IsString
<1>2. \A i \in 1..n : At(s, i) = Nul <=> i > Len(s)
  BY <1>1 DEF At, IsString
<1>3. \A i \in 1..n : At(t, i) = Nul <=> i > Len(t)
  BY <1>1 DEF At, IsString
<1>4. ASSUME SameUpTo(s, t, n), ~Prefix(s, t, n) PROVE s = t
  <2>1. \A i \in 1..n : i <= Len(s) \/ i <= Len(t) => At(s, i) = At(t, i)
    <3> SUFFICES ASSUME NEW i \in 1..n, i <= Len(s) \/ i <= Len(t), At(s, i) # At(t, i)
                 PROVE  FALSE
      OBVIOUS
    <3>1. PICK j \in 1..i - 1 : At(s, j) = Nul /\ At(t, j) = Nul
      BY <1>4 DEF SameUpTo
    <3>2. j \in 1..n /\ j < i
      OBVIOUS
    <3> QED
      BY <1>1, <1>2, <1>3, <3>1, <3>2
  <2>2. \A i \in 1..n : i <= Len(s) /\ i <= Len(t) => s[i] = t[i]
    BY <1>1, <2>1 DEF At
  <2>3. n > Len(s) \/ n > Len(t)
    BY <1>1, <1>4, <2>2 DEF Prefix
  <2>4. Len(s) = Len(t)
    <3>1. ~(Len(s) < Len(t))
      <4> SUFFICES ASSUME Len(s) < Len(t) PROVE FALSE
        OBVIOUS
      <4>1. CASE Len(s) < n
        <5>1. Len(s) + 1 \in 1..n /\ Len(s) + 1 <= Len(t)
          BY <1>1, <4>1
        <5> QED
          BY <1>1, <1>2, <1>3, <2>1, <5>1
      <4> QED
        BY <1>1, <2>3, <4>1
    <3>2. ~(Len(t) < Len(s))
      <4> SUFFICES ASSUME Len(t) < Len(s) PROVE FALSE
        OBVIOUS
      <4>1. CASE Len(t) < n
        <5>1. Len(t) + 1 \in 1..n /\ Len(t) + 1 <= Len(s)
          BY <1>1, <4>1
        <5> QED
          BY <1>1, <1>2, <1>3, <2>1, <5>1
      <4> QED
        BY <1>1, <2>3, <4>1
    <3>3. \A a, b \in Nat : ~(a < b) /\ ~(b < a) => a = b
      OBVIOUS
    <3> QED
      BY <1>1, <3>1, <3>2, <3>3, Zenon
  <2>5. \A i \in 1..Len(s) : s[i] = t[i]
    BY <1>1, <2>2, <2>3, <2>4
  <2>6. s = [i \in 1..Len(s) |-> s[i]] /\ t = [i \in 1..Len(t) |-> t[i]]
    BY <1>1 DEF IsString
  <2> QED
    BY <2>4, <2>5, <2>6
<1>5. ASSUME Prefix(s, t, n) PROVE SameUpTo(s, t, n)
  BY <1>1, <1>5 DEF Prefix, SameUpTo, At
<1> QED
  BY <1>4, <1>5, SameReflexive

-----------------------------------------------------------------------------
(* cli_build_shortest *)

LEMMA Least ==
  ASSUME NEW T, T \subseteq Nat, T # {}
  PROVE  \E x \in T : \A y \in T : x <= y
<1>1. IsWellFoundedOn(OpToRel(<, Nat), Nat)
  BY NatLessThanWellFounded
<1>2. PICK x \in T : \A y \in T : ~(<<y, x>> \in OpToRel(<, Nat))
  BY <1>1, WFMin
<1>3. \A y \in T : ~(y < x)
  BY <1>2 DEF OpToRel
<1> QED
  BY <1>3

(* A list of commands, or of children.                                     *)
IsList(list) ==
  /\ Len(list) \in Nat /\ DOMAIN list = 1..Len(list)
  /\ \A k \in DOMAIN list : list[k].command \in Names

LEMMA ShortestTells ==
  ASSUME NEW list, IsList(list), NEW k \in DOMAIN list, NEW p \in DOMAIN list,
         list[k].command # list[p].command
  PROVE  ~SameUpTo(list[p].command, list[k].command, Shortest(list, k))
<1> DEFINE name == list[k].command
           alone == {n \in 1..Len(name) :
                       \A q \in DOMAIN list \ {k} : ~SameUpTo(list[q].command, name, n)}
<1>1. name \in Names /\ list[p].command \in Names /\ p # k
  BY DEF IsList
<1>2. IsString(name) /\ IsString(list[p].command) /\ Len(name) \in Nat
  BY <1>1, NameIsString DEF IsString
<1>3. CASE alone = {}
  <2>1. Shortest(list, k) = Len(name) + 1
    BY <1>3 DEF Shortest
  <2>2. ~Prefix(list[p].command, name, Len(name) + 1)
    BY <1>2 DEF Prefix
  <2> QED
    BY <1>2, <2>1, <2>2, SameMeans
<1>4. CASE alone # {}
  <2>1. Shortest(list, k) = CHOOSE n \in alone : \A j \in alone : n <= j
    BY <1>4 DEF Shortest
  <2>2. alone \subseteq Nat
    BY <1>2
  <2> HIDE DEF alone
  <2>3. \E n \in alone : \A j \in alone : n <= j
    BY <1>4, <2>2, Least
  <2>4. Shortest(list, k) \in alone
    BY <2>1, <2>3
  <2> QED
    BY <1>1, <2>4 DEF alone
<1> QED
  BY <1>3, <1>4

LEMMA ShortestNat ==
  ASSUME NEW list, IsList(list), NEW k \in DOMAIN list
  PROVE  Shortest(list, k) \in Nat
<1> DEFINE name == list[k].command
           alone == {n \in 1..Len(name) :
                       \A q \in DOMAIN list \ {k} : ~SameUpTo(list[q].command, name, n)}
<1>1. Len(name) \in Nat
  BY NameIsString DEF IsList, IsString
<1>2. CASE alone = {}
  BY <1>1, <1>2 DEF Shortest
<1>3. CASE alone # {}
  <2>1. Shortest(list, k) = CHOOSE n \in alone : \A j \in alone : n <= j
    BY <1>3 DEF Shortest
  <2>2. alone \subseteq Nat
    BY <1>1
  <2> HIDE DEF alone
  <2>3. \E n \in alone : \A j \in alone : n <= j
    BY <1>3, <2>2, Least
  <2> QED
    BY <2>1, <2>2, <2>3
<1> QED
  BY <1>2, <1>3

(* What Measured leaves alone, and what it establishes.                    *)
LEMMA MeasuredFacts ==
  ASSUME NEW list, IsList(list),
         NEW new, DOMAIN new = DOMAIN list,
         \A k \in DOMAIN list : /\ new[k].command = list[k].command
                                /\ new[k].unique_len = Shortest(list, k)
  PROVE  ToldFromAll(new)
<1> SUFFICES ASSUME NEW f \in DOMAIN list, NEW n \in DOMAIN list,
                    list[f].command # list[n].command
             PROVE  ~SameUpTo(list[n].command, list[f].command, Shortest(list, f))
  BY DEF ToldFromAll, Tells
<1> QED
  BY ShortestTells

LEMMA LeafList ==
  ASSUME NEW kids \in Seq(Child)
  PROVE  IsList(kids) /\ \A k \in DOMAIN kids : kids[k].unique_len \in Nat
<1>1. Len(kids) \in Nat /\ DOMAIN kids = 1..Len(kids) /\ \A k \in DOMAIN kids : kids[k] \in Child
  OBVIOUS
<1>2. \A x \in Child : x.command \in Names /\ x.unique_len \in Nat
  BY DEF Child
<1> QED
  BY <1>1, <1>2 DEF IsList

LEMMA CommandList ==
  ASSUME NEW list \in Seq(Node)
  PROVE  /\ IsList(list)
         /\ \A k \in DOMAIN list : list[k].unique_len \in Nat /\ list[k].children \in Seq(Child)
<1>1. Len(list) \in Nat /\ DOMAIN list = 1..Len(list)
      /\ \A k \in DOMAIN list : list[k] \in Node
  OBVIOUS
<1>2. \A c \in Node : c.command \in Names /\ c.unique_len \in Nat /\ c.children \in Seq(Child)
  BY DEF Node
<1> QED
  BY <1>1, <1>2 DEF IsList

LEMMA MeasuredLeaves ==
  ASSUME NEW kids \in Seq(Child)
  PROVE  Measured(kids) \in Seq(Child) /\ ToldFromAll(Measured(kids))
<1>1. IsList(kids) /\ Len(kids) \in Nat /\ DOMAIN kids = 1..Len(kids)
  BY LeafList
<1>2. \A k \in DOMAIN kids : kids[k] \in Child /\ Shortest(kids, k) \in Nat
  BY <1>1, ShortestNat
<1> DEFINE new == Measured(kids)
<1>3. new = [k \in 1..Len(kids) |-> [kids[k] EXCEPT !.unique_len = Shortest(kids, k)]]
  BY <1>1 DEF Measured
<1>4. \A k \in 1..Len(kids) :
        /\ new[k] \in Child
        /\ new[k].command = kids[k].command /\ new[k].unique_len = Shortest(kids, k)
  BY <1>1, <1>2, <1>3 DEF Child
<1> HIDE DEF new
<1>5. new \in Seq(Child)
  BY <1>1, <1>3, <1>4
<1>6. ToldFromAll(new)
  BY <1>1, <1>3, <1>4, MeasuredFacts
<1> QED
  BY <1>5, <1>6 DEF new

LEMMA BuildShortestFacts ==
  ASSUME NEW list \in Seq(Node)
  PROVE  LET new == BuildShortest(list) IN
         /\ new \in Seq(Node) /\ Len(new) = Len(list)
         /\ \A k \in DOMAIN list : new[k].command = list[k].command
         /\ ToldFromAll(new)
         /\ \A k \in DOMAIN list : ToldFromAll(new[k].children)
<1>1. IsList(list) /\ Len(list) \in Nat /\ DOMAIN list = 1..Len(list)
  BY CommandList
<1>2. \A k \in DOMAIN list : list[k] \in Node /\ Shortest(list, k) \in Nat
  BY <1>1, ShortestNat
<1>3. \A k \in DOMAIN list : list[k].children \in Seq(Child)
  BY CommandList
<1>4. \A k \in DOMAIN list : /\ Measured(list[k].children) \in Seq(Child)
                             /\ ToldFromAll(Measured(list[k].children))
  BY <1>3, MeasuredLeaves
<1> DEFINE new == BuildShortest(list)
           own(k) == [list[k] EXCEPT !.unique_len = Shortest(list, k)]
<1>5. new = [k \in 1..Len(list) |-> [own(k) EXCEPT !.children = Measured(@)]]
  <2>1. Measured(list) = [k \in 1..Len(list) |-> own(k)]
    BY <1>1 DEF Measured
  <2> HIDE DEF own
  <2> QED
    BY <2>1 DEF BuildShortest
<1>6. \A k \in 1..Len(list) :
        /\ own(k) \in Node /\ own(k).children = list[k].children
        /\ own(k).command = list[k].command /\ own(k).unique_len = Shortest(list, k)
  BY <1>1, <1>2 DEF Node
<1> HIDE DEF own
<1>7. \A k \in 1..Len(list) :
        /\ new[k] \in Node
        /\ new[k].command = list[k].command /\ new[k].unique_len = Shortest(list, k)
        /\ new[k].children = Measured(list[k].children)
  <2> DEFINE with(c, kids) == [c EXCEPT !.children = kids]
  <2>1. \A c \in Node : \A kids \in Seq(Child) :
          /\ with(c, kids) \in Node /\ with(c, kids).children = kids
          /\ with(c, kids).command = c.command /\ with(c, kids).unique_len = c.unique_len
    BY DEF Node
  <2>2. \A k \in 1..Len(list) :
          new[k] = with(own(k), Measured(list[k].children))
    BY <1>5, <1>6
  <2> HIDE DEF new, with
  <2> SUFFICES ASSUME NEW k \in 1..Len(list)
               PROVE  /\ new[k] \in Node /\ new[k].command = list[k].command
                      /\ new[k].unique_len = Shortest(list, k)
                      /\ new[k].children = Measured(list[k].children)
    OBVIOUS
  <2>3. Measured(list[k].children) \in Seq(Child)
    BY <1>1, <1>4
  <2> QED
    BY <1>6, <2>1, <2>2, <2>3
<1>8. DOMAIN new = 1..Len(list) /\ new = [k \in 1..Len(list) |-> new[k]]
  BY <1>5
<1> HIDE DEF new
<1>9. new \in Seq(Node) /\ Len(new) = Len(list)
  BY <1>1, <1>7, <1>8
<1>10. ToldFromAll(new)
  BY <1>1, <1>7, <1>8, MeasuredFacts
<1> QED
  BY <1>1, <1>4, <1>7, <1>9, <1>10 DEF new

-----------------------------------------------------------------------------
(* The operations *)

LEMMA Concatenation ==
  ASSUME NEW S, NEW a \in Seq(S), NEW b \in Seq(S)
  PROVE  /\ a \o b \in Seq(S) /\ Len(a \o b) = Len(a) + Len(b)
         /\ \A k \in 1..Len(a) : (a \o b)[k] = a[k]
         /\ \A k \in Len(a) + 1..Len(a) + Len(b) : (a \o b)[k] = b[k - Len(a)]
  OBVIOUS

LEMMA TreeInvStarts == TreeInit => TreeInv
  BY DEF TreeInit, TreeInv, ToldFromLater, ToldFromAll

(* A list all of whose commands are told from all the others.              *)
LEMMA AllTold ==
  ASSUME NEW list, ToldFromAll(list) PROVE ToldFromLater(list)
  BY DEF ToldFromAll, ToldFromLater

LEMMA RegisterKeeps ==
  ASSUME TreeInv, NEW name \in Names, NEW right \in Rights, Register(name, right)
  PROVE  TreeInv'
<1> DEFINE new == [command |-> name, unique_len |-> 0, right |-> right, children |-> <<>>]
           list == Append(commands, new)
<1>1. new \in Node
  BY DEF Node
<1> HIDE DEF new
<1>2. list \in Seq(Node)
  BY <1>1 DEF TreeInv
<1>3. commands' = BuildShortest(list)
  BY DEF Register, new
<1> HIDE DEF list
<1>4. /\ commands' \in Seq(Node) /\ Len(commands') = Len(list) /\ ToldFromAll(commands')
      /\ \A k \in DOMAIN list : ToldFromAll(commands'[k].children)
  BY <1>2, <1>3, BuildShortestFacts
<1>5. DOMAIN commands' = DOMAIN list
  BY <1>2, <1>4
<1>6. ToldFromLater(commands')
  BY <1>4, AllTold
<1> QED
  BY <1>4, <1>5, <1>6 DEF TreeInv, ToldFromAll, ToldFromLater, Tells

(* The commands before the parent keep their length, the others are        *)
(* measured among themselves: each is told from the later ones.            *)
LEMMA RegisterChildKeeps ==
  ASSUME TreeInv, NEW n \in DOMAIN commands, NEW name \in Names, NEW right \in Rights,
         RegisterChild(n, name, right)
  PROVE  TreeInv'
<1> DEFINE leaf == [command |-> name, unique_len |-> 0, right |-> right]
           grown == [commands[n] EXCEPT !.children = Append(@, leaf)]
           before == SubSeq(commands, 1, n - 1)
           after == SubSeq(commands, n + 1, Len(commands))
           rest == <<grown>> \o after
           built == BuildShortest(rest)
<1>1. /\ commands \in Seq(Node) /\ Len(commands) \in Nat /\ n \in 1..Len(commands)
      /\ commands[n] \in Node
  BY DEF TreeInv
<1>2. grown \in Node /\ grown.command = commands[n].command
  <2>1. leaf \in Child
    BY DEF Child
  <2>2. Append(commands[n].children, leaf) \in Seq(Child)
    <3>1. commands[n].children \in Seq(Child)
      BY <1>1, CommandList
    <3> QED
      BY <2>1, <3>1
  <2> QED
    BY <1>1, <2>2 DEF Node
<1> HIDE DEF grown
<1>3. /\ before \in Seq(Node) /\ Len(before) = n - 1
      /\ \A k \in 1..n - 1 : before[k] = commands[k]
  BY <1>1
<1>4. /\ after \in Seq(Node) /\ Len(after) = Len(commands) - n
      /\ \A k \in 1..Len(commands) - n : after[k] = commands[n + k]
  BY <1>1
<1> HIDE DEF before, after
<1>5. /\ rest \in Seq(Node) /\ Len(rest) = Len(commands) - n + 1
      /\ rest[1] = grown /\ \A k \in 1..Len(commands) - n : rest[1 + k] = after[k]
  BY <1>1, <1>2, <1>4
<1> HIDE DEF rest
<1>6. /\ built \in Seq(Node) /\ Len(built) = Len(rest)
      /\ \A k \in DOMAIN rest : built[k].command = rest[k].command
      /\ ToldFromAll(built)
      /\ \A k \in DOMAIN rest : ToldFromAll(built[k].children)
  BY <1>5, BuildShortestFacts
<1> HIDE DEF built
<1>7. commands' = before \o built /\ complete' = (n = 1)
  BY DEF RegisterChild, before, built, rest, after, grown
<1>8. /\ commands' \in Seq(Node) /\ Len(commands') = Len(commands)
      /\ \A k \in 1..n - 1 : commands'[k] = commands[k]
      /\ \A k \in n..Len(commands) : commands'[k] = built[k - n + 1]
  <2>1. commands' \in Seq(Node) /\ Len(commands') = Len(before) + Len(built)
    BY <1>3, <1>6, <1>7, Concatenation
  <2>2. Len(commands') = Len(commands)
    BY <1>1, <1>3, <1>5, <1>6, <2>1
  <2>3. \A k \in 1..Len(before) : commands'[k] = before[k]
    BY <1>3, <1>6, <1>7, Concatenation
  <2>4. \A k \in Len(before) + 1..Len(before) + Len(built) :
          commands'[k] = built[k - Len(before)]
    BY <1>3, <1>6, <1>7, Concatenation
  <2>5. \A k \in 1..n - 1 : commands'[k] = commands[k]
    BY <1>1, <1>3, <2>3
  <2>6. \A k \in n..Len(commands) : k \in Len(before) + 1..Len(before) + Len(built)
                                  /\ k - Len(before) = k - n + 1
    BY <1>1, <1>3, <1>5, <1>6
  <2> QED
    BY <2>1, <2>2, <2>4, <2>5, <2>6
<1>9. \A k \in n..Len(commands) : k - n + 1 \in DOMAIN rest /\ k - n + 1 \in DOMAIN built
  BY <1>1, <1>5, <1>6
<1>10. \A k \in n..Len(commands) : built[k - n + 1].command = commands[k].command
  <2> SUFFICES ASSUME NEW k \in n..Len(commands)
               PROVE  rest[k - n + 1].command = commands[k].command
    BY <1>6, <1>9
  <2>1. CASE k = n
    BY <1>1, <1>2, <1>5, <2>1
  <2>2. CASE k # n
    <3>1. k - n \in 1..Len(commands) - n /\ 1 + (k - n) = k - n + 1 /\ n + (k - n) = k
      BY <1>1, <2>2
    <3> QED
      BY <1>4, <1>5, <3>1
  <2> QED
    BY <2>1, <2>2
<1>11. \A k \in 1..Len(commands) : commands'[k].command = commands[k].command
  BY <1>1, <1>8, <1>10
<1>12. \A f, j \in n..Len(commands) : Tells(commands', f, j)
  <2> SUFFICES ASSUME NEW f \in n..Len(commands), NEW j \in n..Len(commands)
               PROVE  Tells(commands', f, j)
    OBVIOUS
  <2>1. Tells(built, f - n + 1, j - n + 1)
    BY <1>6, <1>9 DEF ToldFromAll
  <2> QED
    BY <1>8, <2>1 DEF Tells
<1>13. \A f \in 1..n - 1 : \A j \in 1..Len(commands) : f < j => Tells(commands', f, j)
  <2> SUFFICES ASSUME NEW f \in 1..n - 1, NEW j \in 1..Len(commands), f < j
               PROVE  Tells(commands', f, j)
    OBVIOUS
  <2>1. f \in DOMAIN commands /\ j \in DOMAIN commands
    BY <1>1
  <2>2. Tells(commands, f, j)
    BY <2>1 DEF TreeInv, ToldFromLater
  <2> QED
    BY <1>8, <1>11, <2>1, <2>2 DEF Tells
<1>14. ToldFromLater(commands')
  <2> SUFFICES ASSUME NEW f \in 1..Len(commands), NEW j \in 1..Len(commands), f < j
               PROVE  Tells(commands', f, j)
    <3>1. DOMAIN commands' = 1..Len(commands)
      BY <1>1, <1>8
    <3> QED
      BY <3>1 DEF ToldFromLater
  <2>1. CASE f < n
    BY <1>1, <1>13, <2>1
  <2>2. CASE f >= n
    <3>1. f \in n..Len(commands) /\ j \in n..Len(commands)
      BY <1>1, <2>2
    <3> QED
      BY <1>12, <3>1
  <2> QED
    BY <1>1, <2>1, <2>2
<1>15. complete' => ToldFromAll(commands')
  <2> SUFFICES ASSUME n = 1 PROVE ToldFromAll(commands')
    BY <1>7
  <2>1. DOMAIN commands' = n..Len(commands)
    BY <1>1, <1>8
  <2> QED
    BY <1>12, <2>1 DEF ToldFromAll
<1>16. \A k \in DOMAIN commands' : ToldFromAll(commands'[k].children)
  <2> SUFFICES ASSUME NEW k \in 1..Len(commands)
               PROVE  ToldFromAll(commands'[k].children)
    BY <1>1, <1>8
  <2>1. CASE k < n
    <3>1. k \in DOMAIN commands /\ k \in 1..n - 1
      BY <1>1, <2>1
    <3>2. commands'[k] = commands[k]
      BY <1>8, <3>1
    <3> QED
      BY <3>1, <3>2 DEF TreeInv
  <2>2. CASE k >= n
    <3>1. k \in n..Len(commands)
      BY <1>1, <2>2
    <3>2. commands'[k] = built[k - n + 1] /\ k - n + 1 \in DOMAIN rest
      BY <1>8, <1>9, <3>1
    <3> QED
      BY <1>6, <3>2
  <2> QED
    BY <1>1, <2>1, <2>2
<1> QED
  BY <1>8, <1>14, <1>15, <1>16 DEF TreeInv, ToldFromAll, ToldFromLater, Tells

(* A command that goes leaves the others in their order.                   *)
LEMMA UnregisterKeeps ==
  ASSUME TreeInv, NEW name \in Names, Unregister(name)
  PROVE  TreeInv'
<1>1. PICK n \in DOMAIN commands : commands' = RemoveAt(commands, n)
  BY DEF Unregister
<1>2. commands \in Seq(Node) /\ Len(commands) \in Nat /\ n \in 1..Len(commands)
  BY DEF TreeInv
<1> DEFINE old(k) == IF k < n THEN k ELSE k + 1
<1>3. /\ commands' \in Seq(Node) /\ Len(commands') = Len(commands) - 1
      /\ \A k \in 1..Len(commands) - 1 : commands'[k] = commands[old(k)]
  <2> DEFINE before == SubSeq(commands, 1, n - 1)
             after == SubSeq(commands, n + 1, Len(commands))
  <2>1. /\ before \in Seq(Node) /\ Len(before) = n - 1
        /\ \A k \in 1..n - 1 : before[k] = commands[k]
    BY <1>2
  <2>2. /\ after \in Seq(Node) /\ Len(after) = Len(commands) - n
        /\ \A k \in 1..Len(commands) - n : after[k] = commands[n + k]
    BY <1>2
  <2>3. commands' = before \o after
    BY <1>1 DEF RemoveAt
  <2> HIDE DEF before, after
  <2>4. commands' \in Seq(Node) /\ Len(commands') = Len(before) + Len(after)
    BY <2>1, <2>2, <2>3, Concatenation
  <2>5. Len(commands') = Len(commands) - 1
    BY <1>2, <2>1, <2>2, <2>4
  <2>6. \A k \in 1..Len(before) : commands'[k] = before[k]
    BY <2>1, <2>2, <2>3, Concatenation
  <2>7. \A k \in Len(before) + 1..Len(before) + Len(after) :
          commands'[k] = after[k - Len(before)]
    BY <2>1, <2>2, <2>3, Concatenation
  <2>8. ASSUME NEW k \in 1..Len(commands) - 1 PROVE commands'[k] = commands[old(k)]
    <3>1. CASE k < n
      <4>1. k \in 1..n - 1
        BY <1>2, <3>1
      <4> QED
        BY <2>1, <2>6, <3>1, <4>1
    <3>2. CASE ~(k < n)
      <4>1. /\ k \in Len(before) + 1..Len(before) + Len(after)
            /\ k - Len(before) \in 1..Len(commands) - n /\ n + (k - Len(before)) = k + 1
        BY <1>2, <2>1, <2>2, <3>2, SMTT(30)
      <4> QED
        BY <2>2, <2>7, <3>2, <4>1
    <3> QED
      BY <3>1, <3>2
  <2> QED
    BY <2>4, <2>5, <2>8
<1>4. \A k \in 1..Len(commands) - 1 : old(k) \in DOMAIN commands
  BY <1>2
<1>5. \A j, k \in 1..Len(commands) - 1 : j < k => old(j) < old(k)
  BY <1>2
<1>6. DOMAIN commands' = 1..Len(commands) - 1
  BY <1>2, <1>3
<1> HIDE DEF old
<1>7. \A j, k \in DOMAIN commands' : Tells(commands, old(j), old(k)) => Tells(commands', j, k)
  BY <1>3, <1>6, SMTT(30) DEF Tells
<1>8. ToldFromLater(commands')
  BY <1>4, <1>5, <1>6, <1>7 DEF TreeInv, ToldFromLater
<1>9. complete' => ToldFromAll(commands')
  BY <1>4, <1>6, <1>7 DEF TreeInv, ToldFromAll, Unregister
<1>10. \A k \in DOMAIN commands' : ToldFromAll(commands'[k].children)
  BY <1>3, <1>4, <1>6 DEF TreeInv
<1> QED
  BY <1>3, <1>8, <1>9, <1>10 DEF TreeInv, ToldFromAll, ToldFromLater, Tells

LEMMA TreeInvKept == TreeInv /\ [TreeNext]_treevars => TreeInv'
<1> SUFFICES ASSUME TreeInv, [TreeNext]_treevars PROVE TreeInv'
  OBVIOUS
<1>1. ASSUME NEW name \in Names, NEW right \in Rights, Register(name, right) PROVE TreeInv'
  BY <1>1, RegisterKeeps
<1>2. ASSUME NEW name \in Names, NEW right \in Rights, NEW n \in DOMAIN commands,
             RegisterChild(n, name, right)
      PROVE TreeInv'
  BY <1>2, RegisterChildKeeps
<1>3. ASSUME NEW name \in Names, Unregister(name) PROVE TreeInv'
  BY <1>3, UnregisterKeeps
<1>4. CASE UNCHANGED treevars
  BY <1>4 DEF treevars, TreeInv, ToldFromAll, ToldFromLater, Tells
<1> QED
  BY <1>1, <1>2, <1>3, <1>4 DEF TreeNext

-----------------------------------------------------------------------------
(* Lookup *)

(* The first command that accepts a word.                                  *)
LEMMA SomeFound ==
  ASSUME NEW list, IsList(list), NEW w, NEW user,
         NEW n \in DOMAIN list, Answers(list[n], w, user)
  PROVE  \E f \in Found(list, w, user) : f <= n
<1> DEFINE T == {k \in DOMAIN list : Answers(list[k], w, user)}
<1>1. T \subseteq Nat /\ n \in T
  BY DEF IsList
<1> HIDE DEF T
<1>2. PICK f \in T : \A k \in T : f <= k
  BY <1>1, Least
<1>3. f \in DOMAIN list /\ Answers(list[f], w, user) /\ f \in Nat
  BY <1>1, <1>2 DEF T
<1>4. \A k \in 1..f - 1 : ~Answers(list[k], w, user)
  <2> SUFFICES ASSUME NEW k \in 1..f - 1, Answers(list[k], w, user) PROVE FALSE
    OBVIOUS
  <2>1. k \in DOMAIN list /\ k < f
    BY <1>3 DEF IsList
  <2>2. k \in T
    BY <2>1 DEF T
  <2> QED
    BY <1>2, <1>3, <2>1, <2>2
<1>5. f \in Found(list, w, user)
  BY <1>3, <1>4 DEF Found
<1> QED
  BY <1>1, <1>2, <1>5

LEMMA FullNameIn ==
  ASSUME NEW list, IsList(list), ToldFromLater(list),
         \A k \in DOMAIN list : list[k].unique_len \in Nat,
         NEW n \in DOMAIN list, NEW user \in Users, MayRun(user, list[n])
  PROVE  \E f \in Found(list, list[n].command, user) : list[f].command = list[n].command
<1> DEFINE t == list[n].command
<1>1. t \in Names /\ Folded(t) = t /\ Len(t) \in Nat
  BY NameIsString DEF IsList, IsString
<1>2. Answers(list[n], t, user)
  BY <1>1, SameReflexive DEF Answers, StandsFor, Begins
<1>3. PICK f \in Found(list, t, user) : f <= n
  BY <1>2, SomeFound
<1>4. f \in DOMAIN list /\ SameUpTo(list[f].command, t, list[f].unique_len)
  BY <1>1, <1>3 DEF Found, Answers, StandsFor
<1>5. list[f].command = t
  <2> SUFFICES ASSUME list[f].command # t PROVE FALSE
    OBVIOUS
  <2>1. f < n
    BY <1>3, <1>4 DEF IsList
  <2>2. ~SameUpTo(t, list[f].command, list[f].unique_len)
    BY <1>4, <2>1 DEF ToldFromLater, Tells
  <2> QED
    BY <1>4, <2>2, SameSymmetric
<1> QED
  BY <1>3, <1>5

(* A word that a command accepts short of its name is not the beginning of *)
(* another name, if the command is told from all.                          *)
LEMMA AbbreviationIn ==
  ASSUME NEW list, IsList(list), ToldFromAll(list),
         \A k \in DOMAIN list : list[k].unique_len \in Nat,
         NEW w \in Words, NEW n \in DOMAIN list, StandsFor(list[n], w),
         Folded(w) # list[n].command,
         NEW o \in DOMAIN list, Begins(w, list[o].command)
  PROVE  list[o].command = list[n].command
<1> DEFINE t == Folded(w)
           s == list[n].command
           r == list[o].command
           u == list[n].unique_len
<1>1. IsString(t) /\ Len(t) = Len(w) /\ Len(t) \in Nat
  BY WordIsString DEF IsString
<1>2. IsString(s) /\ IsString(r) /\ Len(s) \in Nat /\ Len(r) \in Nat
  BY NameIsString DEF IsList, IsString
<1>3. SameUpTo(s, t, u) /\ SameUpTo(s, t, Len(t)) /\ SameUpTo(r, t, Len(t))
  BY <1>1 DEF StandsFor, Begins
<1>4. u \in Nat
  OBVIOUS
<1>5. Tells(list, n, o)
  BY DEF ToldFromAll
<1>6. s # t
  OBVIOUS
<1>7. s # r => ~SameUpTo(r, s, u)
  BY <1>5 DEF Tells
<1> HIDE DEF t, s, r, u
<1>8. Prefix(s, t, u) /\ Prefix(s, t, Len(t))
  BY <1>1, <1>2, <1>3, <1>4, <1>6, SameMeans
<1>9. Prefix(r, s, u)
  <2>1. CASE r = t
    BY <1>1, <1>2, <1>4, <1>8, <2>1 DEF Prefix
  <2>2. CASE r # t
    <3>1. Prefix(r, t, Len(t))
      BY <1>1, <1>2, <1>3, <2>2, SameMeans
    <3> QED
      BY <1>1, <1>2, <1>4, <1>8, <3>1 DEF Prefix
  <2> QED
    BY <2>1, <2>2
<1>10. SameUpTo(r, s, u)
  BY <1>2, <1>4, <1>9, SameMeans
<1>11. s = r
  BY <1>7, <1>10
<1> QED
  BY <1>11 DEF s, r

LEMMA ListFacts ==
  ASSUME TreeInv
  PROVE  /\ IsList(commands) /\ \A k \in DOMAIN commands : commands[k].unique_len \in Nat
         /\ \A n \in DOMAIN commands :
              /\ IsList(commands[n].children)
              /\ \A k \in DOMAIN commands[n].children : commands[n].children[k].unique_len \in Nat
<1>1. commands \in Seq(Node)
  BY DEF TreeInv
<1>2. IsList(commands)
  BY <1>1, CommandList
<1>3. \A k \in DOMAIN commands : commands[k].unique_len \in Nat
  BY <1>1, CommandList
<1>4. \A n \in DOMAIN commands : commands[n].children \in Seq(Child)
  BY <1>1, CommandList
<1> QED
  BY <1>2, <1>3, <1>4, LeafList

(* The full name of a command or of a child finds a command of that name,  *)
(* whatever was registered and removed before, for everyone who may run    *)
(* the one that is named.                                                  *)
THEOREM FullNameAlwaysFinds == TreeSpec => []FullNameFinds
<1>1. TreeInv => FullNameFinds
  <2> SUFFICES ASSUME TreeInv PROVE FullNameFinds
    OBVIOUS
  <2>1. FindsByName(commands)
    BY ListFacts, FullNameIn DEF TreeInv, FindsByName
  <2>2. ASSUME NEW n \in DOMAIN commands PROVE FindsByName(commands[n].children)
    <3> DEFINE kids == commands[n].children
    <3>1. IsList(kids) /\ ToldFromAll(kids) /\ \A k \in DOMAIN kids : kids[k].unique_len \in Nat
      BY ListFacts DEF TreeInv
    <3> HIDE DEF kids
    <3>2. FindsByName(kids)
      BY <3>1, AllTold, FullNameIn DEF FindsByName
    <3> QED
      BY <3>2 DEF kids
  <2> QED
    BY <2>1, <2>2 DEF FullNameFinds
<1> QED
  BY <1>1, TreeInvStarts, TreeInvKept, PTL DEF TreeSpec

LEMMA AloneIn ==
  ASSUME NEW list, IsList(list), ToldFromAll(list),
         \A k \in DOMAIN list : list[k].unique_len \in Nat
  PROVE  TakenAlone(list)
<1> SUFFICES ASSUME NEW w \in Words, NEW user \in Users, NEW n \in Found(list, w, user),
                    Folded(w) # list[n].command,
                    NEW u \in Users, NEW other \in Completions(list, w, u)
             PROVE  list[other].command = list[n].command
  BY DEF TakenAlone
<1>1. n \in DOMAIN list /\ StandsFor(list[n], w)
  BY DEF Found, Answers
<1>2. other \in DOMAIN list /\ Begins(w, list[other].command)
  BY DEF Completions
<1> QED
  BY <1>1, <1>2, AbbreviationIn

(* An abbreviation is taken only where Tab would offer nothing else: among *)
(* children always, among commands when the last measure began at the      *)
(* first of them.                                                          *)
THEOREM AbbreviationNeverAmbiguous == TreeSpec => []AbbreviationUnambiguous
<1>1. TreeInv => AbbreviationUnambiguous
  <2> SUFFICES ASSUME TreeInv PROVE AbbreviationUnambiguous
    OBVIOUS
  <2>1. complete => TakenAlone(commands)
    BY ListFacts, AloneIn DEF TreeInv
  <2>2. \A n \in DOMAIN commands : TakenAlone(commands[n].children)
    BY ListFacts, AloneIn DEF TreeInv
  <2> QED
    BY <2>1, <2>2 DEF AbbreviationUnambiguous
<1> QED
  BY <1>1, TreeInvStarts, TreeInvKept, PTL DEF TreeSpec

-----------------------------------------------------------------------------
(* The session *)

PrivilegeLevels == {Unprivileged, Privileged}
Modes == 0..2

(* The types the scan of the commands relies on, in cli_file and after it. *)
ScanType ==
  /\ privilege \in PrivilegeLevels /\ oldpriv \in PrivilegeLevels
  /\ mode \in Modes /\ oldmode \in Modes

(* cli_find_command's way out of a submode never leads into a              *)
(* configuration mode.                                                     *)
LEMMA DropsOnly ==
  ASSUME NEW c, NEW md \in Modes
  PROVE  Dropped(c, md) \in Modes /\ (md = Exec => Dropped(c, md) = Exec)
BY DEF Dropped, Modes, Exec, Config

(* A command that the scan stops at is one the privilege suffices for.     *)
LEMMA FirstTakes ==
  ASSUME NEW cs, NEW word, NEW md, NEW n \in First(cs, word, md)
  PROVE  n \in DOMAIN cs /\ privilege >= cs[n].privilege
BY DEF First, Takes

(* What cli_find_command has established when it comes to a callback.      *)
LEMMA RunnableAllowed ==
  ASSUME ScanType, NEW line, NEW r \in Runnable(line)
  PROVE  /\ r.md \in Modes /\ (mode = Exec => r.md = Exec)
         /\ r.cmd.effect \in {"configure", "net"} => privilege = Privileged
<1>1. r \in Resolved(line)
  BY DEF Runnable
<1>2. ASSUME NEW t \in Top(line)
      PROVE  \E n \in DOMAIN Commands : t = Commands[n] /\ privilege >= t.privilege
  BY <1>2, FirstTakes DEF Top
<1>3. CASE \E c \in Top(line) : r = [cmd |-> c, md |-> Dropped(c, mode)]
  <2>1. PICK c \in Top(line) : r = [cmd |-> c, md |-> Dropped(c, mode)]
    BY <1>3
  <2>2. r.cmd = c /\ r.md = Dropped(c, mode)
    BY <2>1
  <2>3. PICK n \in DOMAIN Commands : c = Commands[n] /\ privilege >= c.privilege
    BY <1>2
  <2>4. c.effect \in {"configure", "net"} => privilege = Privileged
    BY <2>3, ConfigurersPrivileged DEF ScanType, PrivilegeLevels, Privileged, Unprivileged
  <2> QED
    BY <2>2, <2>4, DropsOnly DEF ScanType
<1>4. CASE \E t \in Top(line) : \E k \in First(t.children, line.words[2], Dropped(t, mode)) :
             r = [cmd |-> t.children[k], md |-> Dropped(t.children[k], Dropped(t, mode))]
  <2>1. PICK t \in Top(line) : \E k \in First(t.children, line.words[2], Dropped(t, mode)) :
          r = [cmd |-> t.children[k], md |-> Dropped(t.children[k], Dropped(t, mode))]
    BY <1>4
  <2>2. PICK k \in First(t.children, line.words[2], Dropped(t, mode)) :
          r = [cmd |-> t.children[k], md |-> Dropped(t.children[k], Dropped(t, mode))]
    BY <2>1
  <2>3. r.cmd = t.children[k] /\ r.md = Dropped(t.children[k], Dropped(t, mode))
    BY <2>2
  <2>4. PICK n \in DOMAIN Commands : t = Commands[n]
    BY <1>2
  <2>5. k \in DOMAIN t.children /\ privilege >= t.children[k].privilege
    BY FirstTakes
  <2>6. t.children[k].effect \in {"configure", "net"} => privilege = Privileged
    BY <2>4, <2>5, ConfigurersPrivileged DEF ScanType, PrivilegeLevels, Privileged, Unprivileged
  <2>7. Dropped(t, mode) \in Modes /\ (mode = Exec => Dropped(t, mode) = Exec)
    BY DropsOnly DEF ScanType
  <2> QED
    BY <2>3, <2>6, <2>7, DropsOnly
<1> QED
  BY <1>1, <1>3, <1>4 DEF Resolved

(* What one command, from the prompt or from a file, may do to the session. *)
CommandStep ==
  /\ privilege' \in PrivilegeLevels /\ mode' \in Modes
  /\ privilege' = Privileged => privilege = Privileged \/ "enable" \in granted'
  /\ mode' # Exec => privilege' = Privileged \/ (mode # Exec /\ privilege' = privilege)
  /\ granted \subseteq granted'
  /\ state' \in {state, "enable_password"}

LEMMA CommandKeeps ==
  ASSUME ScanType, NEW line, RunCommand(line)
  PROVE  CommandStep
<1>1. CASE NotRun(line)
  <2>1. \A r \in Resolved(line) : r.md \in Modes /\ (mode = Exec => r.md = Exec)
    BY DropsOnly DEF Resolved, ScanType
  <2>2. \A t \in Top(line) : Dropped(t, mode) \in Modes /\ (mode = Exec => Dropped(t, mode) = Exec)
    BY DropsOnly DEF ScanType
  <2>3. mode' \in Modes /\ (mode = Exec => mode' = Exec)
    BY <1>1, <2>1, <2>2 DEF NotRun, ScanType
  <2> QED
    BY <1>1, <2>3 DEF NotRun, CommandStep, ScanType
<1>2. ASSUME NEW r \in Runnable(line), FilterReturns(line, r) \/ FilterFails(line, r)
      PROVE  CommandStep
  BY <1>2, RunnableAllowed DEF FilterReturns, FilterFails, CommandStep, ScanType
<1>3. ASSUME NEW r \in Runnable(line), Runs(line, r)
      PROVE  CommandStep
  <2>1. r.md \in Modes /\ (mode = Exec => r.md = Exec)
    BY RunnableAllowed
  <2>2. CASE r.cmd.effect = "enable" /\ IntEnable(r.md)
    BY <2>1, <2>2 DEF IntEnable, CommandStep, ScanType, PrivilegeLevels, Modes, Exec
  <2>3. CASE privilege' = Unprivileged /\ mode' = Exec /\ UNCHANGED <<state, granted>>
    BY <2>3 DEF CommandStep, PrivilegeLevels, Modes, Exec, Privileged, Unprivileged
  <2>4. CASE /\ UNCHANGED <<state, privilege, granted>>
             /\ \/ r.cmd.effect = "print" /\ mode' = r.md
                \/ r.cmd.effect = "configure" /\ mode' = Config
                \/ r.cmd.effect = "net" /\ mode' = 2
                \/ r.cmd.effect = "exit" /\ mode' = IF r.md > Config THEN Config ELSE Exec
    <3>1. CASE r.cmd.effect = "print"
      BY <2>1, <2>4, <3>1 DEF CommandStep, ScanType
    <3>2. CASE r.cmd.effect \in {"configure", "net"}
      <4>1. privilege = Privileged
        BY <3>2, RunnableAllowed
      <4>2. mode' \in Modes
        BY <2>4, <3>2 DEF Modes, Config
      <4> QED
        BY <2>4, <4>1, <4>2 DEF CommandStep, ScanType
    <3>3. CASE r.cmd.effect = "exit"
      <4>1. mode' \in Modes /\ (mode = Exec => mode' = Exec)
        BY <2>1, <2>4, <3>3 DEF Modes, Config, Exec
      <4> QED
        BY <2>4, <4>1 DEF CommandStep, ScanType
    <3> QED
      BY <2>4, <3>1, <3>2, <3>3
  <2> QED
    BY <1>3, <2>2, <2>3, <2>4 DEF Runs, Callback
<1> QED
  BY <1>1, <1>2, <1>3 DEF RunCommand

-----------------------------------------------------------------------------
(* The invariant: the session's privilege, its login and its mode each     *)
(* imply what led to it.  ConfigIsPrivileged needs the privilege a command *)
(* asked for, PrivilegeEarned that only enable raises it.                  *)
SessionInv == ScanType /\ PrivilegeEarned /\ LoginEarned /\ ConfigIsPrivileged

LEMMA SessionInit == Init => SessionInv
BY DEF Init, SessionInv, ScanType, PrivilegeEarned, LoginEarned, ConfigIsPrivileged,
       PrivilegeLevels, Modes, Exec

LEMMA SessionStep == SessionInv /\ [Next]_vars => SessionInv'
<1> SUFFICES ASSUME SessionInv, [Next]_vars PROVE SessionInv'
  OBVIOUS
<1> USE DEF SessionInv, PrivilegeEarned, LoginEarned, ConfigIsPrivileged
<1>1. CASE LoopStart
  BY <1>1 DEF LoopStart, filevars, ScanType, PrivilegeLevels, Modes, Exec, Privileged,
     Unprivileged, NoLogin
<1>2. CASE FileEnd
  BY <1>2 DEF FileEnd, FileDone, filevars, ScanType
<1>3. CASE Disconnect
  BY <1>3 DEF Disconnect, filevars, ScanType
<1>4. CASE CtrlZ
  BY <1>4 DEF CtrlZ, filevars, authvars, ScanType, Modes, Exec, NoLogin
<1>5. ASSUME NEW call \in FileCalls, FileStart(call[1], call[2]) PROVE SessionInv'
  <2>1. call[1] \in PrivilegeLevels /\ call[2] \in Modes
    BY <1>5, FileCallsAssumption DEF PrivilegeLevels, Modes, Exec, Config
  <2> QED
    BY <1>5, <2>1 DEF FileStart, ScanType
<1>6. ASSUME NEW line \in Lines, FileLine(line) PROVE SessionInv'
  <2>1. CommandStep
    BY <1>6, CommandKeeps DEF FileLine
  <2> QED
    BY <1>6, <2>1 DEF FileLine, CommandStep, filevars, ScanType
<1>7. ASSUME NEW line \in Lines, FileQuits(line) PROVE SessionInv'
  BY <1>7 DEF FileQuits, FileDone, filevars, ScanType
<1>8. ASSUME NEW line \in Lines, EnterLogin(line) PROVE SessionInv'
  BY <1>8 DEF EnterLogin, filevars, ScanType
<1>9. ASSUME NEW line \in Lines, EnterPassword(line) PROVE SessionInv'
  <2>1. ScanType' /\ PrivilegeEarned' /\ ConfigIsPrivileged'
    BY <1>9 DEF EnterPassword, filevars, ScanType
  <2>2. LoginEarned'
    BY <1>9 DEF EnterPassword, UserAllowed, NoLogin
  <2> QED
    BY <2>1, <2>2
<1>10. ASSUME NEW line \in Lines, EnterEnable(line) PROVE SessionInv'
  BY <1>10 DEF EnterEnable, filevars, ScanType, PrivilegeLevels, NoLogin
<1>11. ASSUME NEW line \in Lines, EnterCommand(line) PROVE SessionInv'
  <2>1. CommandStep
    BY <1>11, CommandKeeps DEF EnterCommand
  <2>2. ScanType'
    BY <1>11, <2>1 DEF EnterCommand, CommandStep, filevars, ScanType
  <2>3. PrivilegeEarned' /\ ConfigIsPrivileged'
    BY <1>11, <2>1 DEF EnterCommand, CommandStep
  <2>4. LoginEarned'
    BY <1>11, <2>1 DEF EnterCommand, CommandStep, NoLogin
  <2> QED
    BY <2>2, <2>3, <2>4
<1>12. CASE UNCHANGED vars
  BY <1>12 DEF vars, ScanType, NoLogin
<1> QED
  BY <1>1, <1>2, <1>3, <1>4, <1>5, <1>6, <1>7, <1>8, <1>9, <1>10, <1>11, <1>12 DEF Next

(* Only cli_int_enable and an accepted enable password make a session      *)
(* privileged, whatever ran in cli_file before it.                         *)
THEOREM PrivilegeAlwaysEarned == Spec => []PrivilegeEarned
<1>1. SessionInv => PrivilegeEarned
  BY DEF SessionInv
<1> QED
  BY <1>1, SessionInit, SessionStep, PTL DEF Spec

(* No command is run before the login that cli_loop asks for.              *)
THEOREM LoginAlwaysEarned == Spec => []LoginEarned
<1>1. SessionInv => LoginEarned
  BY DEF SessionInv
<1> QED
  BY <1>1, SessionInit, SessionStep, PTL DEF Spec

(* A session is only in a configuration mode while it is privileged, for   *)
(* every table of commands whose ways into these modes are privileged.     *)
THEOREM ConfigAlwaysPrivileged == Spec => []ConfigIsPrivileged
<1>1. SessionInv => ConfigIsPrivileged
  BY DEF SessionInv
<1> QED
  BY <1>1, SessionInit, SessionStep, PTL DEF Spec

-----------------------------------------------------------------------------
(* The array as the lines of the session stand in it.                      *)
Entries(s) == [i \in Slots |-> IF i <= Len(s) THEN s[i] ELSE None]

HistoryInv ==
  /\ entered \in Seq(Line) /\ Len(entered) <= MaxHistory
  /\ history = Entries(entered)

(* cli_add_history keeps the order of the lines, below the limit and at it. *)
LEMMA HistoryAdd ==
  ASSUME HistoryInv, NEW line \in Line
  PROVE  LET e == LastOf(Append(entered, line), MaxHistory)
         IN  e \in Seq(Line) /\ Len(e) <= MaxHistory /\ AddHistory(line) = Entries(e)
<1> DEFINE n == Len(entered)
           free == {i \in Slots : history[i] = None}
           app == Append(entered, line)
           e == LastOf(app, MaxHistory)
<1>1. n \in Nat /\ n <= MaxHistory /\ MaxHistory \in Nat \ {0} /\ None \notin Line
  BY HistoryAssumption DEF HistoryInv
<1>2. free = {i \in Slots : i > n}
  <2>1. ASSUME NEW i \in Slots PROVE history[i] = None <=> i > n
    <3>1. history[i] = IF i <= n THEN entered[i] ELSE None
      BY DEF HistoryInv, Entries
    <3>2. i <= n => entered[i] \in Line
      BY <1>1 DEF HistoryInv, Slots
    <3> QED
      BY <1>1, <3>1, <3>2 DEF Slots
  <2> QED
    BY <2>1
<1>3. /\ app \in Seq(Line) /\ Len(app) = n + 1 /\ app[n + 1] = line
      /\ \A i \in 1..n : app[i] = entered[i]
  BY DEF HistoryInv
<1>4. CASE n < MaxHistory
  <2>1. e = app
    BY <1>1, <1>3, <1>4 DEF LastOf
  <2>2. n + 1 \in free /\ \A j \in free : n + 1 <= j
    BY <1>1, <1>2, <1>4 DEF Slots
  <2>3. (CHOOSE i \in free : \A j \in free : i <= j) = n + 1
    BY <1>1, <1>2, <2>2 DEF Slots
  <2>4. AddHistory(line) = [history EXCEPT ![n + 1] = line]
    BY <2>2, <2>3 DEF AddHistory
  <2>5. [history EXCEPT ![n + 1] = line] = Entries(app)
    BY <1>1, <1>3, <2>2 DEF HistoryInv, Entries, Slots
  <2> QED
    BY <1>1, <1>3, <1>4, <2>1, <2>4, <2>5
<1>5. CASE n = MaxHistory
  <2>1. e = SubSeq(app, 2, n + 1)
    BY <1>1, <1>3, <1>5 DEF LastOf
  <2>2. e \in Seq(Line) /\ Len(e) = n /\ \A i \in 1..n : e[i] = app[i + 1]
    BY <1>1, <1>3, <2>1
  <2>3. free = {}
    BY <1>1, <1>2, <1>5 DEF Slots
  <2>4. AddHistory(line) = [i \in Slots |-> IF i < MaxHistory THEN history[i + 1] ELSE line]
    BY <2>3 DEF AddHistory
  <2>5. ASSUME NEW i \in Slots
        PROVE  (IF i < MaxHistory THEN history[i + 1] ELSE line) = e[i]
    <3>1. i \in 1..n /\ e[i] = app[i + 1]
      BY <1>5, <2>2 DEF Slots
    <3>2. CASE i < MaxHistory
      BY <1>1, <1>3, <1>5, <3>1, <3>2 DEF HistoryInv, Entries, Slots
    <3>3. CASE i = MaxHistory
      BY <1>1, <1>3, <1>5, <3>1, <3>3
    <3> QED
      BY <1>1, <3>2, <3>3 DEF Slots
  <2>6. Entries(e) = [i \in Slots |-> e[i]]
    BY <1>1, <1>5, <2>2 DEF Entries, Slots
  <2> QED
    BY <1>1, <2>2, <2>4, <2>5, <2>6, <1>5
<1> QED
  BY <1>1, <1>4, <1>5

(* The history holds the last lines entered, oldest first, for every       *)
(* length of the array.                                                    *)
THEOREM HistoryAlwaysLast == Spec => []HistoryKeepsLast
<1>1. Init => HistoryInv
  BY HistoryAssumption DEF Init, HistoryInv, Entries, Slots
<1>2. HistoryInv /\ [Next]_vars => HistoryInv'
  <2> SUFFICES ASSUME HistoryInv, [Next]_vars PROVE HistoryInv'
    OBVIOUS
  <2>1. CASE LoopStart
    BY <2>1, HistoryAssumption DEF LoopStart, HistoryInv, Entries, Slots
  <2>2. CASE UNCHANGED linevars
    BY <2>2 DEF linevars, HistoryInv
  <2>3. ASSUME NEW line \in Lines, EnterCommand(line) PROVE HistoryInv'
    <3>1. CASE line \in HistoryLines
      BY <2>3, <3>1 DEF EnterCommand, HistoryInv
    <3>2. CASE line \notin HistoryLines
      <4>1. line \in Line
        BY LinesAssumption
      <4>2. /\ entered' = LastOf(Append(entered, line), MaxHistory)
            /\ history' = AddHistory(line)
        BY <2>3, <3>2 DEF EnterCommand
      <4> QED
        BY <4>1, <4>2, HistoryAdd DEF HistoryInv
    <3> QED
      BY <3>1, <3>2
  <2> QED
    BY <2>1, <2>2, <2>3 DEF Next, vars, linevars, FileEnd, FileDone, Disconnect, CtrlZ, FileStart,
       FileLine, FileQuits, EnterLogin, EnterPassword, EnterEnable
<1>3. HistoryInv => HistoryKeepsLast
  BY DEF HistoryInv, HistoryKeepsLast, Entries
<1> QED
  BY <1>1, <1>2, <1>3, PTL DEF Spec
===============================================================================

------------------------------ MODULE LineEditor ------------------------------
(***************************************************************************)
(* What the line editor of the command shell promises: a line is a         *)
(* sequence of characters with a point in it, every key edits it at the    *)
(* point, and what is submitted leaves an empty line behind, or, after a   *)
(* question mark, the same one.  An editor may lose its line (lost); it    *)
(* then has it back, empty, when the line is submitted.                    *)
(***************************************************************************)
EXTENDS Integers, Sequences

CONSTANTS Chars, Blank, Names
VARIABLES text, point, lost, kept

vars == <<text, point, lost, kept>>

Before == SubSeq(text, 1, point)
After == SubSeq(text, point + 1, Len(text))

Init == text = <<>> /\ point = 0 /\ ~lost /\ kept \subseteq Seq(Chars)

Insert(c) == text' = Before \o <<c>> \o After /\ point' = point + 1
Erase(n) ==
  /\ n \in 1..point
  /\ text' = SubSeq(text, 1, point - n) \o After /\ point' = point - n
(* A word and the blanks after it: no blank comes before a character of    *)
(* it, and it goes as far back from the point as that allows.              *)
IsWord(n) ==
  \A i, j \in (point - n + 1)..point : i < j /\ text[i] = Blank => text[j] = Blank
EraseWord ==
  \E n \in 1..point : Erase(n) /\ IsWord(n) /\ \A m \in n + 1..point : ~IsWord(m)
KillRest == text' = Before /\ point' = point
Clear == text' = <<>> /\ point' = 0
Move(p) == p \in 0..Len(text) /\ point' = p /\ text' = text
Recall == text' \in kept /\ point' = Len(text')
(* The last word gives way to a name, and a blank follows.                 *)
Complete(name) ==
  /\ point = Len(text)
  /\ \E k \in 0..Len(text) :
       /\ \A i \in k + 1..Len(text) : text[i] # Blank
       /\ \/ text' = SubSeq(text, 1, k) \o name \o <<Blank>>
          \/ /\ \A i \in 1..k : text[i] = Blank
             /\ text' = name \o <<Blank>>
  /\ point' = Len(text')

Edit ==
  /\ ~lost /\ ~lost' /\ UNCHANGED kept
  /\ \/ \E c \in Chars : Insert(c)
     \/ Erase(1)
     \/ \E p \in 0..Len(text) : Move(p)
     \/ \E name \in Names : Complete(name)
     \/ EraseWord \/ KillRest \/ Clear \/ Recall

(* At most one line is added to the ones kept.                             *)
KeepsOne == \A s, t \in kept' \ kept : s = t

Submit ==
  /\ ~lost'
  /\ \/ text' = <<>> /\ point' = 0
     \/ ~lost /\ text' = text /\ point' = Len(text)
     \/ lost /\ point' = Len(text')
  /\ KeepsOne

Lose == lost' /\ text' = <<>> /\ point' = 0 /\ KeepsOne

Next == Edit \/ Submit \/ Lose
Spec == Init /\ [][Next]_vars
===============================================================================

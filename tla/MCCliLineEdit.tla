---------------------------- MODULE MCCliLineEdit ----------------------------
(* A buffer of six bytes, a history of two lines, commands AA and A?, and   *)
(* a quote mark, behind which a word may begin.                             *)
EXTENDS CliLineEdit

MCChars == {"A", " ", "?", "q"}
MCNames == {<<"A", "A">>, <<"A", "?">>}
Quotes(t) == {i \in 1..Len(t) : t[i] = "q"}
(* Where the last word of t begins and ends: at a blank outside quotes, at *)
(* a quote mark, or between the last two when nothing follows them.        *)
WordFrom(t) ==
  LET closed == Quotes(t) # {} /\ Cardinality(Quotes(t)) % 2 = 0
      ends == IF closed /\ t[Len(t)] = "q" THEN Quotes(t) \ {Len(t)}
              ELSE IF Quotes(t) # {} /\ ~closed THEN Quotes(t)
              ELSE {i \in 1..Len(t) : t[i] \in {" ", "q"}}
  IN IF ends = {} THEN 0 ELSE CHOOSE i \in ends : \A j \in ends : j <= i
LastWord(t) == SelectSeq(SubSeq(t, WordFrom(t) + 1, Len(t)), LAMBDA c : c # "q")
MCCompletes ==
  {<<t, name>> \in Text \X MCNames : t # <<>> /\ LastWord(t) # <<>> /\ IsPrefix(LastWord(t), name)}
MCQuit == <<"A", " ", "A">>
MCHistoryText == <<"?", "A">>
MCHistories ==
  {[i \in Slots |-> None],
   [i \in Slots |-> IF i = 0 THEN <<"A">> ELSE <<"A", "A">>]}
===============================================================================

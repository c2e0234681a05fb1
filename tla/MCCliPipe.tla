------------------------------- MODULE MCCliPipe -------------------------------
(* All lines of four characters, and lines with every kind of filter.       *)
EXTENDS CliPipe

Short == {l \in UNION {[1..n -> {"x", " ", "|", "dq", "sq"}] : n \in 1..4} : Head(l) # " "}
FilterLines ==
  {<<"x", "|", "i", " ", "a">>, <<"x", "|", "ex", " ", "a", " ", "b">>,
   <<"x", "|", "g", " ", "-", "v", " ", "a">>, <<"x", "|", "g", " ", "-", "i", "e", " ", "-", "v">>,
   <<"x", "|", "beg", " ", "a">>, <<"x", "|", "bet", " ", "a", " ", "b">>,
   <<"x", "|", "bet", " ", "a", "|", "c">>, <<"x", "|", "c">>,
   <<"x", "|", "ex", " ", "b", "|", "c">>, <<"x", "|", "beg", " ", "a", "|", "ex", " ", "b">>,
   <<"x", "|", "bet", " ", "a", " ", "b", "|", "c">>, <<"x", "|", "c", "|", "i", " ", "a">>,
   <<"x", "|", "i", " ", "a", "|", "bet", " ", "b", " ", "b">>, <<"x", "|", "i">>,
   <<"x", "|", "b", " ", "a">>, <<"x", "|", "i", " ", "?">>,
   <<"x", "|", "dq", "dq", " ", "a">>, <<"x", "|", "g", " ", "-", "i", " ", "A">>,
   <<"x", "|", "|", "|", "|", "|", "|", "|", "|">>}
MCLines == Short \cup FilterLines
Texts == {<<>>, <<"a">>, <<"b">>, <<"a", "nl", "b">>, <<"a", " ", "b">>, <<" ", "nl">>}
MCPrints == UNION {[1..n -> Texts] : n \in 0..3}
MCFilterName ==
  [w \in {<<>>, <<"i">>, <<"ex">>, <<"g">>, <<"beg">>, <<"bet">>, <<"c">>, <<"b">>} |->
     CASE w = <<"i">> -> "include" [] w = <<"ex">> -> "exclude"
       [] w \in {<<>>, <<"g">>} -> "grep"   \* strncmp over no characters finds a match filter
       [] w = <<"beg">> -> "begin" [] w = <<"bet">> -> "between" [] w = <<"c">> -> "count"
       [] OTHER -> "ambiguous"]
MCFold(c) == IF c = "A" THEN "a" ELSE c
(* A line that is only parsed is run with one output.                       *)
MCInit == Init /\ (line \in Short => prints = <<<<"a">>>>)
MCSpec == MCInit /\ [][Next]_vars
===============================================================================

-------------------------------- MODULE CliPipe --------------------------------
(***************************************************************************)
(* A command line from its characters to its output (libcli.c):            *)
(* cli_parse_line cuts it into words, cli_run_command and cli_find_command *)
(* make filters of what follows the bars, _print sends every line of the   *)
(* callback's output through them, and a last call cleans each of them up. *)
(*                                                                         *)
(* Characters are model symbols.  The first word always names a command    *)
(* (module CliTree has the lookup); a regular expression is a plain        *)
(* pattern.  The output of a callback is a sequence of strings, each with  *)
(* the newlines that the callback put into it.                             *)
(***************************************************************************)
EXTENDS Integers, Sequences, FiniteSets, SequencesExt

CONSTANTS
  Lines,         \* the command lines
  Prints,        \* what the callback may pass to cli_print, call by call
  FilterName,    \* the filter a word names: a function; a word outside it names none
  MaxWords,      \* the entries of words[]
  Fold(_),       \* tolower, for a pattern that ignores the case
  None           \* NULL, and 0 for inquote

Quotes == {"dq", "sq"}

(* cli_run_command skips blanks and drops an empty line.                   *)
ASSUME LinesAssumption ==
  \A l \in Lines : l \in Seq(Range(l)) /\ l # <<>> /\ Head(l) # " " /\ None \notin Range(l)
ASSUME PrintsAssumption ==
  \A ps \in Prints : ps \in Seq(Range(ps)) /\ \A n \in DOMAIN ps : ps[n] \in Seq(Range(ps[n]))
ASSUME WordsAssumption == MaxWords \in Nat \ {0} /\ None \notin Nat \cup Quotes

VARIABLES
  stage,                          \* "parse", "init", "print", "cleanup" or "done"
  line, p, word_start, inquote,   \* cli_parse_line
  words,
  filters,                        \* cli->filters, with the state of each
  made,                           \* history: the filters as they were made
  prints,                         \* what the callback has still to print
  printed,                        \* history: all it prints
  out                             \* what the client has received

parsevars == <<line, p, word_start, inquote, words>>
vars == <<stage, parsevars, filters, made, prints, printed, out>>

Init ==
  /\ stage = "parse" /\ line \in Lines /\ p = 1 /\ word_start = 1 /\ inquote = None
  /\ words = <<>> /\ filters = <<>> /\ made = <<>>
  /\ prints \in Prints /\ printed = prints /\ out = <<>>

-----------------------------------------------------------------------------
(* cli_parse_line: one turn of its loop *)

AtEnd == p > Len(line)
Ends ==
  \/ AtEnd
  \/ ~AtEnd /\ line[p] = inquote
  \/ ~AtEnd /\ word_start # None /\ inquote = None /\ line[p] \in {" ", "|"}

(* The end of the line, of a quotation or of a word.                       *)
EndWord ==
  /\ Ends
  /\ words' = IF word_start = None THEN words
              ELSE Append(words, SubSeq(line, word_start, p - 1))
  /\ IF AtEnd
     THEN stage' = "init" /\ UNCHANGED <<p, word_start, inquote>>
     ELSE /\ p' = IF inquote # None THEN p + 1 ELSE p
          /\ inquote' = None /\ word_start' = None /\ stage' = stage

(* Seeded fault: the opening quotation mark is kept.                       *)
OpenQuoteKept ==
  /\ ~Ends /\ line[p] \in Quotes
  /\ inquote' = line[p] /\ p' = p + 1 /\ word_start' = p
  /\ UNCHANGED <<stage, words>>

OpenQuote ==
  /\ ~Ends /\ line[p] \in Quotes
  /\ inquote' = line[p] /\ p' = p + 1 /\ word_start' = p + 1
  /\ UNCHANGED <<stage, words>>

Advance ==
  /\ ~Ends /\ line[p] \notin Quotes
  /\ words' = IF word_start = None /\ line[p] = "|" THEN Append(words, <<"|">>) ELSE words
  /\ word_start' = IF word_start = None /\ line[p] \notin {" ", "|"} THEN p ELSE word_start
  /\ p' = p + 1 /\ UNCHANGED <<stage, inquote>>

Parse ==
  /\ stage = "parse" /\ UNCHANGED <<line, filters, made, prints, printed, out>>
  /\ \/ Len(words) < MaxWords - 1 /\ (EndWord \/ OpenQuote \/ Advance)
     \/ /\ Len(words) = MaxWords - 1
        /\ stage' = "init" /\ UNCHANGED <<p, word_start, inquote, words>>

-----------------------------------------------------------------------------
(* Filters *)

(* The words that begin with a bar, in order; an entry 0 ends the list.    *)
Bars ==
  LET bars == {n \in DOMAIN words : words[n] # <<>> /\ Head(words[n]) = "|"}
  IN IF 1 \in bars THEN <<>> ELSE SetToSortSeq(bars, <)
Argv(f) == SubSeq(words, Bars[f] + 1, IF f < Len(Bars) THEN Bars[f + 1] - 1 ELSE Len(words))
Name(argv) == IF argv[1] \in DOMAIN FilterName THEN FilterName[argv[1]] ELSE "invalid"

(* join_words.                                                             *)
Join(ws) ==
  IF ws = <<>> THEN <<>> ELSE FoldLeft(LAMBDA s, w : s \o <<" ">> \o w, Head(ws), Tail(ws))

(* The options of grep: never the last word, and none after one with e.    *)
IsOption(w) == Len(w) > 1 /\ w[1] = "-" /\ \A i \in 2..Len(w) : w[i] \in {"v", "i", "e"}
Options(argv) ==
  LET runs == {n \in 0..Len(argv) - 2 : \A i \in 2..n + 1 :
                 IsOption(argv[i]) /\ (i <= n => ~Contains(argv[i], "e"))}
  IN CHOOSE n \in runs : \A m \in runs : m <= n

(* cli_match_filter_init, cli_range_filter_init, cli_count_filter_init.    *)
Fresh == [kind |-> "", pattern |-> None, to |-> None, invert |-> FALSE, fold |-> FALSE,
          matched |-> FALSE, count |-> 0]
Grep(argv) ==
  LET n == Options(argv)
      Given(c) == \E i \in 2..n + 1 : Contains(argv[i], c)
  IN [Fresh EXCEPT !.kind = "match", !.pattern = Join(SubSeq(argv, n + 2, Len(argv))),
                   !.invert = Given("v"), !.fold = Given("i")]
MakeFilter(argv) ==
  LET name == Name(argv)
      rest == Join(Tail(argv))
  IN IF name \in {"include", "exclude"} /\ Len(argv) > 1
     THEN [Fresh EXCEPT !.kind = "match", !.pattern = rest, !.invert = name = "exclude"]
     ELSE IF name = "grep" /\ Len(argv) > 1 THEN Grep(argv)
     ELSE IF name = "begin" /\ Len(argv) > 1
     THEN [Fresh EXCEPT !.kind = "range", !.pattern = rest]
     ELSE IF name = "between" /\ Len(argv) > 2
     THEN [Fresh EXCEPT !.kind = "range", !.pattern = argv[2],
                        !.to = Join(SubSeq(argv, 3, Len(argv)))]
     ELSE IF name = "count" /\ Len(argv) = 1 THEN [Fresh EXCEPT !.kind = "count"]
     ELSE None

(* One turn of the loop over the filters.                                  *)
Returns(argv) ==
  argv # <<>> => \/ Last(argv) # <<>> /\ Last(Last(argv)) = "?"
                 \/ Name(argv) = "ambiguous"
InitFilter ==
  LET f == Len(filters) + 1 IN
  /\ stage = "init" /\ words # <<>> /\ f <= Len(Bars)
  /\ \/ Returns(Argv(f)) /\ stage' = "done" /\ UNCHANGED filters
     \/ /\ ~Returns(Argv(f)) /\ MakeFilter(Argv(f)) = None
        /\ stage' = "cleanup" /\ UNCHANGED filters
     \/ /\ ~Returns(Argv(f)) /\ MakeFilter(Argv(f)) # None
        /\ filters' = Append(filters, MakeFilter(Argv(f))) /\ stage' = stage
  /\ made' = filters' /\ UNCHANGED <<parsevars, prints, printed, out>>
CallCallback ==
  /\ stage = "init" /\ (words = <<>> \/ Len(filters) = Len(Bars))
  /\ stage' = IF words = <<>> THEN "done" ELSE "print"
  /\ UNCHANGED <<parsevars, filters, made, prints, printed, out>>

-----------------------------------------------------------------------------
(* Output *)

(* strstr, or regexec with REG_ICASE.                                      *)
Has(s, pat) == \E i \in 0..Len(s) - Len(pat) : SubSeq(s, i + 1, i + Len(pat)) = pat
FoldAll(s) == [i \in DOMAIN s |-> Fold(s[i])]
Matches(flt, s) ==
  IF flt.fold THEN Has(FoldAll(s), FoldAll(flt.pattern)) ELSE Has(s, flt.pattern)

(* Whether a filter lets a line through, and its state after it.           *)
Passes(flt, s) ==
  \/ flt.kind = "match" /\ Matches(flt, s) # flt.invert
  \/ flt.kind = "range" /\ (flt.matched \/ Has(s, flt.pattern))
Seen(flt, s) ==
  [flt EXCEPT !.matched = /\ Passes(flt, s) /\ flt.kind = "range"
                          /\ ~(flt.to # None /\ Has(s, flt.to)),
              !.count = IF flt.kind = "count" /\ \E i \in DOMAIN s : s[i] # " " THEN @ + 1 ELSE @]

(* Seeded fault: a filter sees the lines an earlier one has dropped.       *)
FilteredAll(s) == [k \in DOMAIN filters |-> Seen(filters[k], s)]

(* Each filter is called as long as those before it let the line through.  *)
Filtered(s) ==
  [k \in DOMAIN filters |->
     IF \A j \in 1..k - 1 : Passes(filters[j], s) THEN Seen(filters[k], s) ELSE filters[k]]

(* One turn of the loop of _print: a line of what the callback prints.     *)
Newline(s) == SelectInSeq(s, LAMBDA c : c = "nl")
PrintLine ==
  /\ stage = "print" /\ prints # <<>>
  /\ LET text == Head(prints)
         n == Newline(text)
         s == IF n = 0 THEN text ELSE SubSeq(text, 1, n - 1)
     IN /\ filters' = Filtered(s)
        /\ out' = IF \A k \in DOMAIN filters : Passes(filters[k], s) THEN Append(out, s) ELSE out
        /\ prints' = IF n = 0 THEN Tail(prints)
                     ELSE <<SubSeq(text, n + 1, Len(text))>> \o Tail(prints)
  /\ UNCHANGED <<stage, parsevars, made, printed>>
CallbackReturns ==
  /\ stage = "print" /\ prints = <<>>
  /\ stage' = "cleanup" /\ UNCHANGED <<parsevars, filters, made, prints, printed, out>>

(* The last call of a filter, with no line: a count is printed now.        *)
CleanUp ==
  /\ stage = "cleanup"
  /\ IF filters = <<>> THEN stage' = "done" /\ UNCHANGED <<filters, out>>
     ELSE /\ out' = IF Head(filters).kind # "count" THEN out
                    ELSE Append(out, <<"count", Head(filters).count>>)
          /\ filters' = Tail(filters) /\ stage' = stage
  /\ UNCHANGED <<parsevars, made, prints, printed>>

Next == Parse \/ InitFilter \/ CallCallback \/ PrintLine \/ CallbackReturns \/ CleanUp

Spec == Init /\ [][Next]_vars

-----------------------------------------------------------------------------
(* Properties *)

(* What ends a word, other than the end of the line.                       *)
Breaks == {" ", "|"} \cup Quotes

(* Inside a quotation: an odd number of marks comes before.                *)
MarksBefore(i) == {j \in 1..i - 1 : line[j] \in Quotes}
Inside(i) == Cardinality(MarksBefore(i)) % 2 = 1

(* A quotation begins a word, and holds no mark but the one that ends it.  *)
WellQuoted ==
  \A i \in DOMAIN line : line[i] \in Quotes =>
    IF Inside(i)
    THEN \A j \in MarksBefore(i) : (\A k \in MarksBefore(i) : k <= j) => line[i] = line[j]
    ELSE i = 1 \/ line[i - 1] \in Breaks

(* Where the words of a line begin: at a bar, at a quotation, and between  *)
(* blanks; and the word that begins at i.                                  *)
Starts ==
  {i \in DOMAIN line :
     /\ ~Inside(i)
     /\ \/ line[i] \in {"|"} \cup Quotes
        \/ line[i] # " " /\ (i = 1 \/ line[i - 1] \in Breaks)}
Closes(i) == IF line[i] \in Quotes THEN {line[i]} ELSE {" ", "|"}
IsWord(i, w) ==
  IF line[i] = "|" THEN w = <<"|">>
  ELSE \E e \in i + 1..Len(line) + 1 :
         /\ w = SubSeq(line, IF line[i] \in Quotes THEN i + 1 ELSE i, e - 1)
         /\ \A k \in i + 1..e - 1 : line[k] \notin Closes(i)
         /\ e <= Len(line) => line[e] \in Closes(i)

(* A line that begins with a bar has an empty first word.                  *)
Leading == IF Head(line) = "|" THEN 1 ELSE 0
Place(i) == Leading + Cardinality({j \in Starts : j <= i})

(* cli_parse_line finds words with one pass, three variables and a limit:  *)
(* the words are those of the line as far as they fit, in their order,     *)
(* quotations whole and bars on their own.                                 *)
WordsAreTokens ==
  stage # "parse" /\ WellQuoted =>
    LET all == Leading + Cardinality(Starts)
    IN /\ Len(words) = IF all < MaxWords THEN all ELSE MaxWords - 1
       /\ Leading = 1 /\ words # <<>> => words[1] = <<>>
       /\ \A i \in Starts : Place(i) < MaxWords => IsWord(i, words[Place(i)])

(* The lines of the output: <<n, a>> begins at the a-th character of the   *)
(* n-th string.  Their order, and their text.                              *)
OutputLines ==
  UNION {{n} \X {a \in 1..Len(printed[n]) + 1 : a = 1 \/ printed[n][a - 1] = "nl"} :
           n \in DOMAIN printed}
Before(x, y) == x[1] < y[1] \/ (x[1] = y[1] /\ x[2] < y[2])
LineEnd(x) ==
  LET text == printed[x[1]]
  IN CHOOSE e \in x[2]..Len(text) + 1 :
       /\ \A i \in x[2]..e - 1 : text[i] # "nl"
       /\ e <= Len(text) => text[e] = "nl"
Text(x) == SubSeq(printed[x[1]], x[2], LineEnd(x) - 1)

(* A filter that is given the lines ls lets x through.  Those that the     *)
(* first n filters let through.                                            *)
Keeps(flt, ls, x) ==
  \/ flt.kind = "match" /\ Matches(flt, Text(x)) # flt.invert
  \/ /\ flt.kind = "range"
     /\ \E y \in ls :
          /\ ~Before(x, y) /\ Has(Text(y), flt.pattern)
          /\ flt.to # None => \A z \in ls : ~Before(z, y) /\ Before(z, x) => ~Has(Text(z), flt.to)
Through(n) ==
  LET through[k \in 0..Len(made)] ==
        IF k = 0 THEN OutputLines
        ELSE {x \in through[k - 1] : Keeps(made[k], through[k - 1], x)}
  IN through[n]
Counters == {k \in DOMAIN made : made[k].kind = "count"}
NonBlank(x) == \E i \in DOMAIN Text(x) : Text(x)[i] # " "

(* _print works line by line, with a state in every filter and a chain     *)
(* that is cut short; the outcome is that of each filter applied to the    *)
(* whole output of the one before, in its order, with the counts at the    *)
(* end.  (A command that is not run at all may leave filters behind.)      *)
OutputIsPipe ==
  stage = "done" /\ prints = <<>> /\ filters = <<>> =>
    LET kept == Through(Len(made))
    IN /\ Len(out) = Cardinality(kept) + Cardinality(Counters)
       /\ \A x \in kept : out[Cardinality({y \in kept : ~Before(x, y)})] = Text(x)
       /\ \A k \in Counters :
            out[Cardinality(kept) + Cardinality({j \in Counters : j <= k})]
              = <<"count", Cardinality({x \in Through(k - 1) : NonBlank(x)})>>
===============================================================================

------------------------------ MODULE CliLineEdit ------------------------------
(***************************************************************************)
(* The inner loop of cli_loop (libcli.c): the bytes of a terminal or of a  *)
(* telnet client become keys, and every key edits the line in cmd and      *)
(* repeats the edit on the screen.  A line that is entered goes to the     *)
(* session (module CliSession), of which only what the editor reads is     *)
(* kept here: its state, its mode and its history.                         *)
(*                                                                         *)
(* cmd is the array of 4096 bytes, here Size; the screen is the current    *)
(* row of a terminal that never wraps, from the last prompt on.  What C    *)
(* leaves undefined ends the behaviour in pc = "undefined".  spoilt names  *)
(* what the code itself has put out of step on the current line.           *)
(***************************************************************************)
EXTENDS Integers, Sequences, FiniteSets, SequencesExt

CONSTANTS
  Size,          \* the bytes of cmd
  MaxHistory,    \* MAX_HISTORY
  Chars,         \* the printable characters, one cell each; Blank and Help are two
  Blank, Help,   \* the space and the question mark
  Ordinary,      \* any other character: the byte 255 for one
  Nul,           \* the byte 0
  Names,         \* what cli_get_completions may return, as sequences of characters
  Completes,     \* <<text, name>>: the name is a completion of the text
  QuitText, HistoryText,   \* "quit" and "history"
  Histories,     \* what the history may hold when the editor is first entered
  MaxEntered,    \* bound: the lines entered in a behaviour
  MaxLater,      \* bound: the length typed into a line after the first
  MaxSubmit,     \* bound: their length, and that of a line with an escape sequence
  None           \* NULL

Text == UNION {[1..n -> Chars] : n \in 0..Size - 1}
Bytes == 0..Size - 1
Slots == 0..MaxHistory - 1

ASSUME EditorAssumption ==
  /\ Size \in Nat /\ Size > Len(QuitText) /\ MaxHistory \in Nat \ {0}
  /\ {Blank, Help, Ordinary} \subseteq Chars /\ Nul \notin Chars /\ None \notin Text
  /\ Histories \subseteq [Slots -> Text \cup {None}] /\ QuitText \in Text
  /\ Blank # "P"
ASSUME CompletesAssumption == Names \subseteq Seq(Chars) /\ Completes \subseteq Text \X Names

VARIABLES
  pc,                 \* "read" (in the inner loop), "done" or "undefined"
  cmd, l, cursor,     \* the line
  in_history, lastchar, is_telnet_option, esc,
  state, mode,        \* cli->state, and whether cli->mode is MODE_EXEC
  history,            \* cli->history
  screen,             \* the terminal: cells of the row, column, prompt not at its start
  spoilt,             \* history: "line", "screen"
  entered             \* history: how many lines were entered

line == <<cmd, l, cursor>>
input == <<is_telnet_option, esc>>
session == <<state, mode, history, entered>>
vars == <<pc, line, in_history, lastchar, input, session, screen, spoilt>>

Passwords == {"password", "enable_password"}
Echo == state \notin Passwords
Contents == [i \in 1..l |-> cmd[i - 1]]

(* Every variable keeps its type.                                          *)
TypeOK ==
  /\ pc \in {"read", "done", "undefined"}
  /\ cmd \in [Bytes -> Chars \cup {Nul}] /\ l \in 0..Size - 1 /\ cursor \in 0..l
  /\ in_history \in -1..MaxHistory + 1 /\ lastchar \in {"tab", "other"}
  /\ is_telnet_option \in 0..2 /\ esc \in 0..2
  /\ state \in {"login", "normal"} \cup Passwords /\ mode \in {"exec", "config"}
  /\ history \in [Slots -> Text \cup {None}]
  /\ screen \in [cells: Seq(Chars \cup {"P"}), col: Nat, indent: BOOLEAN]
  /\ spoilt \subseteq {"line", "screen"} /\ entered \in 0..MaxEntered

-----------------------------------------------------------------------------
(* The terminal *)

Trim(s) == SubSeq(s, 1, CHOOSE n \in 0..Len(s) : /\ \A i \in n + 1..Len(s) : s[i] = Blank
                                                 /\ n > 0 => s[n] # Blank)
Over(s, at, t) ==
  Trim([i \in 1..(IF Len(s) > at + Len(t) THEN Len(s) ELSE at + Len(t)) |->
          IF i > at /\ i <= at + Len(t) THEN t[i - at]
          ELSE IF i <= Len(s) THEN s[i] ELSE Blank])

(* write(out, t); a line with a byte 0 in it is out of step, and is not    *)
(* followed on the screen.                                                 *)
Write(s, t) == [s EXCEPT !.cells = Over(@, s.col, t), !.col = @ + Len(t)]
Back(s, n) == [s EXCEPT !.col = IF @ > n THEN @ - n ELSE 0]
Blanks(n) == [i \in 1..n |-> Blank]
NewRow == [cells |-> <<>>, col |-> 0, indent |-> FALSE]

(* The prompt, with the line after it where the line is shown.             *)
Prompted(s, t, back) ==
  Back(Write([cells |-> Over(SubSeq(s.cells, s.col + 1, Len(s.cells)), 0, <<"P">>),
              col |-> 1, indent |-> s.indent \/ s.col > 0], t), back)
ShowPrompt(s, st, t, cur) ==
  IF st = "normal" THEN Prompted(s, t, Len(t) - cur) ELSE Prompted(s, <<>>, 0)

(* Seeded fault: the line is wiped from the cursor, wherever it is.        *)
WipedFromCursor(s) == Back(Write(Back(s, l), Blanks(l)), l)

(* What cli_clear_line writes: to the end of the line and back over it.    *)
Wiped(s) == Back(Write(Back(Write(s, Blanks(l - cursor)), l), Blanks(l)), l)

-----------------------------------------------------------------------------
(* The buffer *)

(* t copied to cmd + at, with its terminator.                              *)
Strcpy(b, at, t) ==
  [i \in Bytes |-> IF i >= at /\ i < at + Len(t) THEN t[i - at + 1]
                   ELSE IF i = at + Len(t) THEN Nul ELSE b[i]]
Zeroed(b, from, to) == [i \in Bytes |-> IF i >= from /\ i < to THEN Nul ELSE b[i]]
Empty == [i \in Bytes |-> Nul]
Terminated(b) == \E i \in Bytes : b[i] = Nul
(* The string at cmd.                                                      *)
String(b) == LET n == CHOOSE n \in Bytes : b[n] = Nul /\ \A i \in 0..n - 1 : b[i] # Nul
             IN [i \in 1..n |-> b[i - 1]]

(* Nothing is left of the line, its screen and the session.                *)
Gone(how) ==
  /\ pc' = how /\ cmd' = Empty /\ l' = 0 /\ cursor' = 0 /\ in_history' = 0 /\ lastchar' = "other"
  /\ state' = "login" /\ mode' = "exec" /\ history' = [i \in Slots |-> None]
  /\ screen' = NewRow /\ spoilt' = {} /\ entered' = 0
Undefined == Gone("undefined")

(* The screen is followed as long as nothing is out of step.               *)
Show(s, sp) == spoilt' = sp /\ screen' = IF sp = {} THEN s ELSE NewRow

(* An edit: the buffer, its length, the cursor, the screen and the flaws.  *)
Edit(b, n, cur, s, sp) ==
  /\ cmd' = b /\ l' = n /\ cursor' = cur /\ Show(s, sp)
  /\ UNCHANGED <<pc, in_history, lastchar, session>>

Init ==
  /\ pc = "read" /\ cmd = Empty /\ l = 0 /\ cursor = 0
  /\ in_history = 0 /\ lastchar = "other" /\ is_telnet_option = 0 /\ esc = 0
  /\ history \in Histories /\ mode = "exec"
  /\ state \in IF \A i \in Slots : history[i] = None THEN {"login", "normal"} ELSE {"normal"}
  /\ spoilt = {} /\ entered = 0
  /\ screen = ShowPrompt(NewRow, state, <<>>, 0)

-----------------------------------------------------------------------------
(* The end of a line *)

AddHistory(t) ==
  LET free == {i \in Slots : history[i] = None}
  IN IF free # {} THEN [history EXCEPT ![CHOOSE i \in free : \A j \in free : i <= j] = t]
     ELSE [i \in Slots |-> IF i < MaxHistory - 1 THEN history[i + 1] ELSE t]

(* What the session makes of a line of length n: its next state and mode,  *)
(* and whether it prints.                                                  *)
Outcomes(n) ==
  IF state = "login"
  THEN [state: {IF n = 0 THEN "login" ELSE "password"}, mode: {mode}, prints: {FALSE}]
  ELSE IF state = "password" THEN [state: {"normal", "login"}, mode: {mode}, prints: {TRUE}]
  ELSE IF state = "enable_password" THEN [state: {"normal"}, mode: {mode}, prints: BOOLEAN]
  ELSE IF n = 0 THEN [state: {"normal"}, mode: {mode}, prints: {FALSE}]
  ELSE [state: {"normal"}, mode: {"exec", "config"}, prints: BOOLEAN]
       \cup [state: {"enable_password"}, mode: {mode}, prints: {FALSE}]

(* The inner loop is left with buffer b, length n and screen s; after a    *)
(* question mark (again) the line is edited further, without it.           *)
EndLine(b, n, s, sp, again) ==
  \/ ~Terminated(b) /\ Undefined
  \/ /\ Terminated(b) /\ entered < MaxEntered
     /\ LET t == String(b) IN
        \/ /\ t = QuitText \/ (state = "normal" /\ n > 0)
           /\ Gone("done")
        \/ /\ t # QuitText /\ n <= MaxSubmit
           /\ \E o \in Outcomes(n) :
                LET row == IF o.prints THEN NewRow ELSE s IN
                /\ state' = o.state /\ mode' = o.mode
                /\ l' = IF again THEN n - 1 ELSE 0
                /\ cmd' = IF again THEN [b EXCEPT ![n - 1] = Nul] ELSE Empty
                /\ cursor' = l'
                /\ Show(ShowPrompt(row, o.state, [i \in 1..l' |-> cmd'[i - 1]], l'),
                        (IF again THEN sp \cap {"line"} ELSE {})
                        \cup IF Len(row.cells) > row.col THEN {"screen"} ELSE {})
           /\ history' = IF state # "normal" \/ n = 0 \/ b[n - 1] = Help \/ t = HistoryText
                         THEN history ELSE AddHistory(t)
           /\ in_history' = 0 /\ lastchar' = "other" /\ entered' = entered + 1
           /\ UNCHANGED pc

Newline == EndLine(cmd, l, IF Echo THEN NewRow ELSE screen, spoilt, FALSE)

(* Ctrl-D: in a password as a newline, on an empty line as "quit".         *)
Eot ==
  \/ ~Echo /\ EndLine(cmd, l, screen, spoilt, FALSE)
  \/ Echo /\ l = 0 /\ EndLine(Strcpy(cmd, 0, QuitText), Len(QuitText), NewRow, spoilt, FALSE)
  \/ Echo /\ l # 0 /\ Edit(cmd, l, cursor, screen, spoilt)

(* The flaws after the prompt is shown again: a user name typed so far is  *)
(* not shown with it.                                                      *)
Reshown == IF state = "login" /\ l > 0 THEN spoilt \cup {"screen"} ELSE spoilt \ {"screen"}

(* A second passes: regular_callback may fail, and the line is entered as  *)
(* it is, or print something and have the prompt shown again.              *)
CallbackFails == EndLine(cmd, l, screen, spoilt, FALSE) /\ UNCHANGED input
CallbackPrints ==
  /\ Edit(cmd, l, cursor, ShowPrompt(NewRow, state, Contents, cursor), Reshown)
  /\ UNCHANGED input

(* The end of the input, or an error of select or read.                    *)
Disconnect == Gone("done") /\ is_telnet_option' = 0 /\ esc' = 0

-----------------------------------------------------------------------------
(* The keys *)

(* Backspace, n times: at the end of the line, in it, and in a password.   *)
(* The shift reads one byte beyond the terminator; g is what it finds      *)
(* beyond the buffer.                                                      *)
Shifted(n, g) ==
  LET At(i) == IF i < Size THEN cmd[i] ELSE g
  IN [i \in Bytes |-> IF i \in cursor - n..l
                      THEN At(IF i + n <= l + 1 THEN i + n ELSE l + 1) ELSE cmd[i]]
Rest(b, from, to) == [i \in 1..to - from |-> b[from + i - 1]]
Rubbed(n) ==
  \/ /\ l = cursor
     /\ Edit(Zeroed(cmd, cursor - n, cursor), l - n, cursor - n,
             IF Echo THEN Back(Write(Back(screen, n), Blanks(n)), n) ELSE screen, spoilt)
  \/ /\ l # cursor /\ Echo
     /\ \E g \in IF l = Size - 1 THEN Chars \cup {Nul} ELSE {Nul} :
          Edit(Shifted(n, g), l - n, cursor - n,
               Back(Write(Back(screen, n), Rest(cmd, cursor, l) \o Blanks(n)), l - cursor + n),
               IF l = Size - 1 THEN spoilt \cup {"line"} ELSE spoilt)
  \/ l # cursor /\ ~Echo /\ Edit(cmd, l - n, cursor - n, screen, spoilt \cup {"line"})

Ignored == Edit(cmd, l, cursor, screen, spoilt)

Backspace == IF cursor = 0 THEN Ignored ELSE Rubbed(1)

(* Seeded fault: only the blanks before the cursor are passed over.        *)
WordStartBlanks ==
  CHOOSE n \in 0..cursor : /\ \A i \in n..cursor - 1 : cmd[i] = Blank
                           /\ n > 0 => cmd[n - 1] # Blank

(* The blanks before the cursor, then what is not blank before them.       *)
WordStart ==
  LET nb == CHOOSE n \in 0..cursor : /\ \A i \in n..cursor - 1 : cmd[i] = Blank
                                     /\ n > 0 => cmd[n - 1] # Blank
  IN CHOOSE n \in 0..nb : /\ \A i \in n..nb - 1 : cmd[i] # Blank
                          /\ n > 0 => cmd[n - 1] = Blank
EraseWord == IF cursor = 0 THEN Ignored ELSE Rubbed(cursor - WordStart)

Redraw ==
  IF ~Echo THEN Ignored
  ELSE Edit(cmd, l, cursor, Prompted(NewRow, Contents, l - cursor), spoilt \ {"screen"})

(* cli_clear_line fills and writes three times the length of the line.     *)
TooLong == 3 * l > Size

ClearLine ==
  \/ Echo /\ TooLong /\ Undefined
  \/ Echo /\ ~TooLong /\ Edit(Zeroed(cmd, 0, 3 * l), 0, 0, Wiped(screen), spoilt)
  \/ ~Echo /\ Edit(Zeroed(cmd, 0, l), 0, 0, screen, spoilt)

(* Seeded fault: the killed bytes stay in the buffer.                      *)
KillKept ==
  IF cursor = l THEN Ignored
  ELSE Edit(cmd, cursor, cursor,
            IF Echo THEN Back(Write(screen, Blanks(l - cursor)), l - cursor) ELSE screen, spoilt)
Kill ==
  IF cursor = l THEN Ignored
  ELSE Edit(Zeroed(cmd, cursor, l), cursor, cursor,
            IF Echo THEN Back(Write(screen, Blanks(l - cursor)), l - cursor) ELSE screen, spoilt)

(* Ctrl-Z: the line is cleared, on the screen and in the buffer, but its   *)
(* length and the cursor stay.                                             *)
CtrlZ ==
  \/ mode = "exec" /\ Ignored
  \/ mode # "exec" /\ TooLong /\ Undefined
  \/ /\ mode # "exec" /\ ~TooLong
     /\ cmd' = Zeroed(cmd, 0, 3 * l) /\ mode' = "exec"
     /\ Show(ShowPrompt(Wiped(screen), state, <<>>, 0),
             IF l > 0 THEN {"line", "screen"} ELSE spoilt)
     /\ UNCHANGED <<pc, l, cursor, in_history, lastchar, state, history, entered>>

(* Tab *)

(* Where the last word starts: behind the last blank that is not the       *)
(* first byte, whose blank is not looked at.                               *)
LastBlank == CHOOSE i \in 0..l : /\ i > 0 => cmd[i] = Blank
                                 /\ \A j \in i + 1..l : cmd[j] # Blank
(* The name is written over the word and a blank after it: behind a quote  *)
(* mark it may be shorter than what stands there, whose end then stays on  *)
(* the screen, and beyond the terminator in cmd.                           *)
CompleteOne(name) ==
  LET at == IF LastBlank > 0 THEN LastBlank + 1 ELSE 0
      end == at + Len(name)
      blank == Blanks(at - LastBlank)
  IN IF end + 1 >= Size THEN Undefined
     ELSE Edit(Strcpy(Strcpy(cmd, LastBlank, blank \o name), end, <<Blank>>), end + 1, end + 1,
               Write(Back(screen, l - LastBlank), blank \o name \o <<Blank>>),
               spoilt \cup (IF l > end + 1 THEN {"screen"} ELSE {})
                      \cup (IF l > end + 2 THEN {"line"} ELSE {}))

(* A list of completions ends its row unless their number is 3 modulo 4.   *)
ListAll(n) ==
  Edit(cmd, l, cursor, ShowPrompt([NewRow EXCEPT !.col = IF n % 4 = 3 THEN 1 ELSE 0],
                                  state, Contents, cursor), Reshown)

(* On an empty line the byte before the buffer is read; whatever it is,    *)
(* nothing happens.                                                        *)
Tab ==
  LET comps == {name \in Names : <<String(cmd), name>> \in Completes}
  IN IF ~Echo \/ cursor # l \/ l = 0 THEN Ignored
     ELSE IF cmd[cursor - 1] = Blank THEN Ignored
     ELSE IF ~Terminated(cmd) THEN Undefined
     ELSE \/ comps = {} /\ Ignored
          \/ Cardinality(comps) = 1 /\ \E name \in comps : CompleteOne(name)
          \/ Cardinality(comps) > 1 /\ lastchar = "tab" /\ ListAll(Cardinality(comps))
          \/ /\ Cardinality(comps) > 1 /\ lastchar # "tab" /\ lastchar' = "tab"
             /\ UNCHANGED <<pc, line, in_history, session, screen, spoilt>>

(* Up and Down *)

Held == {i \in Slots : history[i] # None}

(* The entry a key moves to: itself when it is held, else the last (Up) or *)
(* the first (Down) that is; with an empty history, none.                  *)
Previous ==
  IF in_history - 1 >= 0 THEN in_history - 1
  ELSE IF Held = {} THEN -1 ELSE CHOOSE i \in Held : \A j \in Held : j <= i
Following ==
  LET next == in_history + 1
  IN IF (next < MaxHistory /\ history[next] # None) \/ Held = {} THEN next
     ELSE CHOOSE i \in Held : \A j \in Held : i <= j

Recall(i) ==
  \/ i >= MaxHistory /\ Undefined
  \/ i \in Held /\ TooLong /\ Undefined
  \/ /\ i \in Held /\ ~TooLong
     /\ cmd' = Strcpy(Empty, 0, history[i]) /\ l' = Len(history[i]) /\ cursor' = l'
     /\ Show(Write(Wiped(screen), history[i]), IF spoilt = {} THEN {} ELSE {"screen"})
     /\ in_history' = i /\ UNCHANGED <<pc, lastchar, session>>
  \/ /\ i < MaxHistory /\ i \notin Held /\ in_history' = i
     /\ UNCHANGED <<pc, line, lastchar, session, screen, spoilt>>

Up == IF ~Echo THEN Ignored ELSE Recall(Previous)
(* Down reads an entry beyond the last only after its test of the index.   *)
Down ==
  \/ ~Echo /\ Ignored
  \/ Echo /\ Following < MaxHistory /\ Recall(Following)
  \/ /\ Echo /\ Following >= MaxHistory /\ in_history <= MaxHistory
     /\ in_history' = Following /\ UNCHANGED <<pc, line, lastchar, session, screen, spoilt>>

Left ==
  IF cursor = 0 THEN Ignored
  ELSE Edit(cmd, l, cursor - 1, IF Echo THEN Back(screen, 1) ELSE screen, spoilt)
(* Seeded fault: what the cursor passes is shown in a password too.        *)
RightShown ==
  IF cursor = l THEN Ignored
  ELSE Edit(cmd, l, cursor + 1, Write(screen, <<cmd[cursor]>>), spoilt)
Right ==
  IF cursor = l THEN Ignored
  ELSE Edit(cmd, l, cursor + 1, IF Echo THEN Write(screen, <<cmd[cursor]>>) ELSE screen, spoilt)
(* A carriage return and the prompt: the start of the row, wherever the    *)
(* line's own prompt is.                                                   *)
Home ==
  IF cursor = 0 THEN Ignored
  ELSE Edit(cmd, l, 0, IF Echo THEN [screen EXCEPT !.col = 1] ELSE screen,
            IF Echo /\ screen.indent THEN spoilt \cup {"screen"} ELSE spoilt)
End ==
  IF cursor = l THEN Ignored
  ELSE Edit(cmd, l, l, IF Echo THEN Write(screen, Rest(cmd, cursor, l)) ELSE screen, spoilt)

(* A character, with the buffer, length, screen and flaws it leaves.       *)
Put(c, b, n, s, sp) ==
  \/ Echo /\ c = Help /\ cursor + 1 = n /\ EndLine(b, n, NewRow, sp, TRUE)
  \/ /\ ~(Echo /\ c = Help /\ cursor + 1 = n)
     /\ cmd' = b /\ l' = n /\ cursor' = cursor + 1 /\ lastchar' = "other"
     /\ Show(IF Echo THEN Write(s, <<c>>) ELSE s, sp) /\ UNCHANGED <<pc, in_history, session>>

(* At the end of a full line the character replaces the terminator.        *)
AppendChar(c) ==
  /\ cursor = l
  /\ \/ l < Size - 1 /\ Put(c, [cmd EXCEPT ![l] = c], l + 1, screen, spoilt)
     \/ l = Size - 1 /\ Edit([cmd EXCEPT ![l] = c], l, cursor, screen, spoilt \cup {"line"})

(* In the line the rest moves up, and is written whatever the state; the   *)
(* last character of an almost full line makes room but stays in cmd.      *)
InsertChar(c) ==
  LET n == IF l >= Size - 2 THEN l - 1 ELSE l
      b == [i \in Bytes |-> IF i = cursor THEN c
                            ELSE IF i > cursor /\ i <= n + 1 THEN cmd[i - 1] ELSE cmd[i]]
  IN /\ cursor < l
     /\ Put(c, b, n + 1, Back(Write(screen, Rest(b, cursor, n + 1)), n - cursor + 1),
            spoilt \cup (IF n < l THEN {"line"} ELSE {}) \cup (IF Echo THEN {} ELSE {"screen"}))

-----------------------------------------------------------------------------
(* From bytes to keys *)

Iac == "iac"
Keys == {"nul", "ctrl-c", "newline", "eot", "backspace", "word", "redraw", "clear", "kill",
         "ctrl-z", "tab", "up", "down", "left", "right", "home", "end"}
(* The bytes of an escape sequence or of a telnet option come together.    *)
(* Bound: a line out of step is entered, asked help on or recalled over,   *)
(* and not edited further.                                                 *)
Input ==
  IF "line" \in spoilt THEN {"newline", "up", Help}
  ELSE IF is_telnet_option # 0 THEN {Iac, "verb", Ordinary}
  ELSE IF esc = 1 THEN {"[", Ordinary}
  ELSE IF esc = 2 THEN {"A", "B", "C", "D", "["}
  ELSE Keys \cup (IF l <= MaxSubmit THEN {Iac, "esc"} ELSE {})
       \cup (IF entered = 0 \/ l < MaxLater THEN Chars ELSE {})

(* The bytes of a telnet option are dropped; a doubled 255 is one.         *)
Option(b) ==
  /\ \/ is_telnet_option = 0 /\ b = Iac /\ is_telnet_option' = 1
     \/ is_telnet_option # 0 /\ b # Iac /\ is_telnet_option' = IF b = "verb" THEN 2 ELSE 0
  /\ UNCHANGED <<pc, line, in_history, lastchar, esc, session, screen, spoilt>>
Data(b) == (is_telnet_option = 0) <=> (b # Iac)

Escape(b) ==
  /\ Data(b)
  /\ \/ esc = 0 /\ b = "esc" /\ esc' = 1
     \/ esc = 1 /\ esc' = IF b = "[" THEN 2 ELSE 0
  /\ is_telnet_option' = 0
  /\ UNCHANGED <<pc, line, in_history, lastchar, session, screen, spoilt>>

Arrow(b) == IF b = "A" THEN "up" ELSE IF b = "B" THEN "down"
            ELSE IF b = "C" THEN "right" ELSE IF b = "D" THEN "left" ELSE "nul"

Press(k) ==
  \/ k \in {"nul", "ctrl-c"} /\ Ignored
  \/ k = "newline" /\ Newline
  \/ k = "eot" /\ Eot
  \/ k = "backspace" /\ Backspace
  \/ k = "word" /\ EraseWord
  \/ k = "redraw" /\ Redraw
  \/ k = "clear" /\ ClearLine
  \/ k = "kill" /\ Kill
  \/ k = "ctrl-z" /\ CtrlZ
  \/ k = "tab" /\ Tab
  \/ k = "up" /\ Up
  \/ k = "down" /\ Down
  \/ k = "left" /\ Left
  \/ k = "right" /\ Right
  \/ k = "home" /\ Home
  \/ k = "end" /\ End
  \/ k \in Chars /\ (AppendChar(k) \/ InsertChar(k))
Read(b) ==
  \/ Option(b)
  \/ Escape(b)
  \/ /\ Data(b) /\ ((esc = 0 /\ b # "esc") \/ esc = 2)
     /\ is_telnet_option' = 0 /\ esc' = 0
     /\ Press(IF esc = 2 THEN Arrow(b) ELSE IF b = Iac THEN Ordinary ELSE b)

Next == pc = "read" /\ (CallbackFails \/ CallbackPrints \/ Disconnect \/ \E b \in Input : Read(b))

Spec == Init /\ [][Next]_vars

-----------------------------------------------------------------------------
(* Properties *)

(* A character at the end of the line is stored without a terminator, and  *)
(* strcasecmp, cli_add_history and cli_run_command read cmd as a string:   *)
(* whatever was erased, killed, recalled or completed before, the bytes of *)
(* the line are its characters and all the others are 0, except on a line  *)
(* the code is known to put out of step (a full one, one left by Ctrl-Z, a *)
(* password erased in the middle, a completion shorter than its word).     *)
BufferIsLine ==
  pc = "read" /\ "line" \notin spoilt =>
    \A i \in Bytes : (cmd[i] # Nul) <=> (i < l)

(* Every key repeats its edit on the terminal by its own sequence of       *)
(* characters, blanks and backspaces: what stands behind the prompt is the *)
(* line that Enter would run, and the terminal's cursor is at the editor's. *)
ScreenShowsLine ==
  pc = "read" /\ state = "normal" /\ spoilt = {} =>
    screen.cells = Trim(<<"P">> \o Contents) /\ screen.col = 1 + cursor

(* At a password prompt no key, and no prompt shown again, displays a      *)
(* character that was typed; an insertion before the last one does.        *)
PasswordNotShown ==
  pc = "read" /\ ~Echo /\ spoilt = {} => screen.cells = <<"P">>

Lost == pc # "read" \/ "line" \in spoilt
Editor == INSTANCE LineEditor WITH
  text <- IF Lost THEN <<>> ELSE Contents, point <- IF Lost THEN 0 ELSE cursor,
  lost <- Lost, kept <- {history[i] : i \in Held}

(* The keys of the inner loop, worked on bytes, terminators and lengths,   *)
(* each do to the line what an editor of a sequence of characters does.    *)
EditorPromise == Editor!Spec
===============================================================================

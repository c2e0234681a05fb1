------------------------------ MODULE CliSession ------------------------------
(***************************************************************************)
(* A session of the command shell (libcli.c): login, privileges and modes, *)
(* the lookup and the running of commands with their filters, the history, *)
(* and commands read from a file before the session (cli_file).  One       *)
(* cli_def serves one session, as in monoboot and in clitest.              *)
(*                                                                         *)
(* Abstractions.  A line is a sequence of words and the kinds of its       *)
(* filters; it is entered by a newline or by whatever else ends the inner  *)
(* loop of cli_loop.  The two comparisons of a word with a command's name  *)
(* are the relation Accepts.  The tree of commands is two levels deep, as  *)
(* in monoboot.  Callbacks are reduced to what they do to the session.     *)
(***************************************************************************)
EXTENDS Integers, Sequences

CONSTANTS
  Commands,       \* cli->commands, in the order of their registration
  Accepts,        \* <<word, name>>: the word stands for the command
  HelpWords,      \* words that end with a question mark
  Lines,          \* what may be entered
  QuitLine,       \* the line "quit"
  HistoryLines,   \* the lines that are not kept: "history" and those ending in "?"
  Setups,         \* how a program may configure authentication
  FileCalls,      \* <<privilege, mode>>: how a program may call cli_file
  MaxHistory,     \* MAX_HISTORY
  None            \* NULL

ModeAny == -1
Exec == 0
Config == 1
Unprivileged == 0
Privileged == 15

Effects == {"none", "print", "enable", "disable", "quit", "exit", "configure", "net"}
Leaf == [name: STRING, effect: Effects, privilege: {Unprivileged, Privileged}, mode: Int]
Command == [name: STRING, effect: Effects, privilege: {Unprivileged, Privileged}, mode: Int,
            children: Seq(Leaf)]

(* What becomes of a filter: it works, its initialisation fails, or the    *)
(* loop over the filters returns (missing, ambiguous or a question mark).  *)
Good == {"include", "begin", "count"}
Bad == {"invalid"}
Returning == {"missing", "ambiguous", "help"}
Line == [words: Seq(STRING), filters: Seq(Good \cup Bad \cup Returning)]
EmptyLine == [words |-> <<>>, filters |-> <<>>]

(* Passwords are lines; a callback is the set of what it answers with a    *)
(* non-zero value, or None.                                                *)
Setup == [users: SUBSET (Line \X Line), auth: (SUBSET (Line \X Line)) \cup {None},
          enable: Line \cup {None}, enable_callback: (SUBSET Line) \cup {None}]

ASSUME CommandsAssumption == Commands \in Seq(Command)
ASSUME LinesAssumption ==
  /\ Lines \subseteq Line /\ QuitLine \in Line /\ HistoryLines \subseteq Line
  /\ \A line \in Lines \ {EmptyLine} : line.words # <<>>
ASSUME SetupsAssumption == Setups \subseteq Setup
ASSUME HistoryAssumption ==
  MaxHistory \in Nat \ {0} /\ None \notin Line
ASSUME FileCallsAssumption == FileCalls \subseteq {Unprivileged, Privileged} \X {Exec, Config}
(* Only a privileged command leads into a configuration mode.              *)
ASSUME ConfigurersPrivileged ==
  \A n \in DOMAIN Commands :
    /\ Commands[n].effect \in {"configure", "net"} => Commands[n].privilege = Privileged
    /\ \A k \in DOMAIN Commands[n].children :
         Commands[n].children[k].effect \in {"configure", "net"} =>
           Commands[n].children[k].privilege = Privileged

VARIABLES
  setup,     \* how the program has configured authentication
  pc,        \* "start", "file" (in cli_file), "ready", "prompt" (in cli_loop) or "done"
  state, privilege, mode, filters,          \* fields of cli_def
  history,                                  \* cli->history
  username,
  oldpriv, oldmode,                         \* locals of cli_file
  granted,   \* history: what the session has shown the password for
  entered,   \* history: the last lines the session has entered
  output     \* history: the filters the last callback printed through, and its own

vars == <<setup, pc, state, privilege, mode, filters, history, username, oldpriv, oldmode,
          granted, entered, output>>
filevars == <<oldpriv, oldmode>>
authvars == <<username, granted>>
linevars == <<history, entered>>

Slots == 1..MaxHistory
States == {"login", "password", "normal", "enable_password", "enable"}

(* Every variable keeps its type.                                          *)
TypeOK ==
  /\ setup \in Setups
  /\ pc \in {"start", "file", "ready", "prompt", "done"}
  /\ state \in States
  /\ privilege \in {Unprivileged, Privileged} /\ oldpriv \in {Unprivileged, Privileged}
  /\ mode \in 0..2 /\ oldmode \in 0..2
  /\ filters \in Seq(Good)
  /\ history \in [Slots -> Line \cup {None}]
  /\ username \in Line \cup {None}
  /\ granted \subseteq {"login", "enable"}
  /\ entered \in Seq(Line)
  /\ output \in [applied: Seq(Good), own: Seq(Good)]

(* After cli_init.                                                         *)
Init ==
  /\ setup \in Setups /\ pc = "start" /\ state = "login"
  /\ privilege = Unprivileged /\ mode = Exec /\ filters = <<>>
  /\ history = [i \in Slots |-> None] /\ username = None
  /\ oldpriv = Unprivileged /\ oldmode = Exec
  /\ granted = {} /\ entered = <<>>
  /\ output = [applied |-> <<>>, own |-> <<>>]

-----------------------------------------------------------------------------
(* cli_find_command *)

Dropped(c, md) == IF md > Config /\ c.mode = Config THEN Config ELSE md

(* Seeded fault: the privilege of a command is not looked at.              *)
TakesAny(c, word, md) ==
  /\ <<word, c.name>> \in Accepts
  /\ c.mode \in {Dropped(c, md), ModeAny}

(* The tests that let the scan stop at a command; one of them may leave a  *)
(* configuration submode.                                                  *)
Takes(c, word, md) ==
  /\ privilege >= c.privilege
  /\ <<word, c.name>> \in Accepts
  /\ c.mode \in {Dropped(c, md), ModeAny}

First(cs, word, md) ==
  {n \in DOMAIN cs : Takes(cs[n], word, md) /\ \A k \in 1..n - 1 : ~Takes(cs[k], word, md)}

(* The command at the first level, unless help is asked for.               *)
Top(line) ==
  IF line.words[1] \in HelpWords THEN {}
  ELSE {Commands[n] : n \in First(Commands, line.words[1], mode)}

(* The leaf a line comes to, with the mode the scan leaves behind.         *)
Resolved(line) ==
  {[cmd |-> c, md |-> Dropped(c, mode)] : c \in {t \in Top(line) : t.children = <<>>}}
  \cup UNION {{[cmd |-> t.children[k], md |-> Dropped(t.children[k], Dropped(t, mode))] :
                 k \in First(t.children, line.words[2], Dropped(t, mode))} :
              t \in {t \in Top(line) : /\ t.children # <<>> /\ Len(line.words) > 1
                                       /\ line.words[2] \notin HelpWords}}
Runnable(line) == {r \in Resolved(line) : r.cmd.effect # "none"}

(* Help, an unknown or incomplete command, or one without a callback.      *)
NotRun(line) ==
  /\ Runnable(line) = {}
  /\ mode' \in IF Resolved(line) # {} THEN {r.md : r \in Resolved(line)}
               ELSE IF Top(line) # {} THEN {Dropped(t, mode) : t \in Top(line)}
               ELSE {mode}
  /\ UNCHANGED <<state, privilege, filters, granted, output>>

(* Where the loop over the filters stops, 0 if it does not.                *)
Stops(fs) ==
  {k \in DOMAIN fs : fs[k] \notin Good /\ \A j \in 1..k - 1 : fs[j] \in Good}

(* The list in cli->filters once those of the line are built: the first of *)
(* them replaces whatever was there.                                       *)
Built(fs) == IF fs = <<>> THEN filters ELSE fs

(* An early return leaves the filters built so far in cli->filters.        *)
FilterReturns(line, r) ==
  /\ \E k \in Stops(line.filters) :
       /\ line.filters[k] \in Returning
       /\ filters' = Built(SubSeq(line.filters, 1, k - 1))
  /\ mode' = r.md
  /\ UNCHANGED <<state, privilege, granted, output>>

(* A filter whose initialisation fails: all of them are freed, and the     *)
(* callback is not called.                                                 *)
FilterFails(line, r) ==
  /\ \E k \in Stops(line.filters) : line.filters[k] \in Bad
  /\ filters' = <<>> /\ mode' = r.md
  /\ UNCHANGED <<state, privilege, granted, output>>

NeedsPassword == setup.enable # None \/ setup.enable_callback # None

(* cli_int_enable.                                                         *)
IntEnable(md) ==
  \/ /\ privilege = Privileged
     /\ mode' = md /\ UNCHANGED <<state, privilege, granted>>
  \/ /\ privilege # Privileged /\ ~NeedsPassword
     /\ privilege' = Privileged /\ mode' = Exec
     /\ granted' = granted \cup {"enable"} /\ UNCHANGED state
  \/ /\ privilege # Privileged /\ NeedsPassword
     /\ state' = "enable_password" /\ mode' = md /\ UNCHANGED <<privilege, granted>>

Quits(e, md) == e = "quit" \/ (e = "exit" /\ md = Exec)

(* The callbacks of libcli and of monoboot, from the mode the scan left.   *)
Callback(e, md) ==
  \/ e = "enable" /\ IntEnable(md)
  \/ /\ e = "disable" \/ Quits(e, md)
     /\ privilege' = Unprivileged /\ mode' = Exec /\ UNCHANGED <<state, granted>>
  \/ /\ ~Quits(e, md)
     /\ \/ e = "print" /\ mode' = md
        \/ e = "configure" /\ mode' = Config
        \/ e = "net" /\ mode' = 2
        \/ e = "exit" /\ mode' = IF md > Config THEN Config ELSE Exec
     /\ UNCHANGED <<state, privilege, granted>>

(* The callback prints through cli->filters, which are freed after it.     *)
Runs(line, r) ==
  /\ Stops(line.filters) = {}
  /\ output' = [applied |-> Built(line.filters), own |-> line.filters]
  /\ filters' = <<>>
  /\ Callback(r.cmd.effect, r.md)

(* Whether cli_run_command returns CLI_QUIT.                               *)
RunQuits(line) ==
  Stops(line.filters) = {} /\ \E r \in Runnable(line) : Quits(r.cmd.effect, r.md)

RunCommand(line) ==
  \/ NotRun(line)
  \/ \E r \in Runnable(line) : FilterReturns(line, r) \/ FilterFails(line, r) \/ Runs(line, r)

-----------------------------------------------------------------------------
(* cli_file *)

(* A program may have a file of commands run before the session.           *)
FileStart(p, md) ==
  /\ pc = "start"
  /\ pc' = "file" /\ oldpriv' = privilege /\ oldmode' = mode
  /\ privilege' = p /\ mode' = md
  /\ UNCHANGED <<setup, state, filters, authvars, linevars, output>>

FileLine(line) ==
  /\ pc = "file" /\ line \notin {QuitLine, EmptyLine} /\ ~RunQuits(line)
  /\ RunCommand(line)
  /\ UNCHANGED <<setup, pc, username, linevars, filevars>>

FileDone ==
  /\ pc' = "ready" /\ privilege' = oldpriv /\ mode' = oldmode
  /\ UNCHANGED <<setup, state, authvars, linevars, filevars>>

(* A command that quits; the filters of its line are freed after it.       *)
FileQuits(line) ==
  /\ pc = "file" /\ line \notin {QuitLine, EmptyLine} /\ RunQuits(line)
  /\ output' = [applied |-> Built(line.filters), own |-> line.filters]
  /\ filters' = <<>>
  /\ FileDone

(* The end of the file, or the line "quit".                                *)
FileEnd ==
  /\ pc = "file"
  /\ FileDone
  /\ UNCHANGED <<filters, output>>

-----------------------------------------------------------------------------
(* cli_loop *)

NoLogin == setup.users = {} /\ setup.auth = None

(* The history of a fresh cli_def is empty, from calloc.                   *)
LoopStart ==
  /\ pc \in {"start", "ready"}
  /\ pc' = "prompt"
  /\ state' = IF NoLogin THEN "normal" ELSE "login"
  /\ privilege' = Unprivileged /\ mode' = Exec
  /\ history' = [i \in Slots |-> None]
  /\ username' = None /\ granted' = {} /\ entered' = <<>>
  /\ UNCHANGED <<setup, filters, filevars, output>>

(* The line "quit" at any prompt, the end of the input, or an error.  What *)
(* is freed on the way out is not used again.                              *)
Disconnect ==
  /\ pc = "prompt"
  /\ pc' = "done"
  /\ UNCHANGED <<setup, state, privilege, mode, filters, authvars, linevars, filevars, output>>

(* Ctrl-Z, which leaves the line to be entered alone.                      *)
CtrlZ ==
  /\ pc = "prompt" /\ mode # Exec
  /\ mode' = Exec
  /\ UNCHANGED <<setup, pc, state, privilege, filters, authvars, linevars, filevars, output>>

EnterLogin(line) ==
  /\ pc = "prompt" /\ state = "login" /\ line \notin {QuitLine, EmptyLine}
  /\ username' = line /\ state' = "password"
  /\ UNCHANGED <<setup, pc, privilege, mode, filters, granted, linevars, filevars, output>>

(* Seeded fault: a known user is let in whatever the password.             *)
UserAllowedByName(name, password) ==
  \/ setup.auth # None /\ <<name, password>> \in setup.auth
  \/ \E u \in setup.users : u[1] = name

(* The callback first, then the list of users.                             *)
UserAllowed(name, password) ==
  \/ setup.auth # None /\ <<name, password>> \in setup.auth
  \/ <<name, password>> \in setup.users

EnterPassword(line) ==
  /\ pc = "prompt" /\ state = "password" /\ line # QuitLine
  /\ IF UserAllowed(username, line)
     THEN /\ state' = "normal" /\ username' = username
          /\ granted' = IF <<username, line>> \in setup.users
                             \/ (setup.auth # None /\ <<username, line>> \in setup.auth)
                        THEN granted \cup {"login"} ELSE granted
     ELSE state' = "login" /\ username' = None /\ granted' = granted
  /\ UNCHANGED <<setup, pc, privilege, mode, filters, linevars, filevars, output>>

EnableAllowed(password) ==
  \/ setup.enable # None /\ password = setup.enable
  \/ setup.enable_callback # None /\ password \in setup.enable_callback

(* Seeded fault: a refused password leaves the session in the enabled state. *)
EnterEnableRefused(line) ==
  /\ pc = "prompt" /\ state = "enable_password" /\ line # QuitLine
  /\ state' = "enable" /\ privilege' = Privileged
  /\ granted' = IF EnableAllowed(line) THEN granted \cup {"enable"} ELSE granted
  /\ UNCHANGED <<setup, pc, mode, filters, username, linevars, filevars, output>>

EnterEnable(line) ==
  /\ pc = "prompt" /\ state = "enable_password" /\ line # QuitLine
  /\ IF EnableAllowed(line)
     THEN state' = "enable" /\ privilege' = Privileged /\ granted' = granted \cup {"enable"}
     ELSE state' = "normal" /\ UNCHANGED <<privilege, granted>>
  /\ UNCHANGED <<setup, pc, mode, filters, username, linevars, filevars, output>>

(* Seeded fault: a full history is not shifted.                            *)
AddHistoryShort(line) ==
  LET free == {i \in Slots : history[i] = None}
  IN IF free # {}
     THEN [history EXCEPT ![CHOOSE i \in free : \A j \in free : i <= j] = line]
     ELSE [history EXCEPT ![MaxHistory] = line]

(* cli_add_history: the first empty entry, or everything moves down one.   *)
AddHistory(line) ==
  LET free == {i \in Slots : history[i] = None}
  IN IF free # {}
     THEN [history EXCEPT ![CHOOSE i \in free : \A j \in free : i <= j] = line]
     ELSE [i \in Slots |-> IF i < MaxHistory THEN history[i + 1] ELSE line]

LastOf(s, n) == IF Len(s) > n THEN SubSeq(s, Len(s) - n + 1, Len(s)) ELSE s

EnterCommand(line) ==
  /\ pc = "prompt" /\ state \in {"normal", "enable"} /\ line \notin {QuitLine, EmptyLine}
  /\ RunCommand(line)
  /\ entered' = IF line \in HistoryLines THEN entered ELSE LastOf(Append(entered, line), MaxHistory)
  /\ history' = IF line \in HistoryLines THEN history ELSE AddHistory(line)
  /\ pc' = IF RunQuits(line) THEN "done" ELSE "prompt"
  /\ UNCHANGED <<setup, username, filevars>>

Next ==
  \/ LoopStart \/ FileEnd \/ Disconnect \/ CtrlZ
  \/ \E call \in FileCalls : FileStart(call[1], call[2])
  \/ \E line \in Lines :
       \/ FileLine(line) \/ FileQuits(line)
       \/ EnterLogin(line) \/ EnterPassword(line) \/ EnterEnable(line) \/ EnterCommand(line)

Spec == Init /\ [][Next]_vars

-----------------------------------------------------------------------------
(* Properties *)

(* cli_int_enable and the password states: whatever commands, files and    *)
(* passwords come in whatever order, a session is only privileged once an  *)
(* enable password has been accepted in it, or where none is configured.   *)
PrivilegeEarned == pc = "prompt" /\ privilege = Privileged => "enable" \in granted

(* The login states: no command is run in a session that has not given a   *)
(* user name and the password that goes with it, unless none is needed.    *)
LoginEarned ==
  pc = "prompt" /\ state \notin {"login", "password"} => NoLogin \/ "login" \in granted

(* exit, disable, quit, enable and Ctrl-Z each change the mode or the      *)
(* privilege: a session in a configuration mode is a privileged one.       *)
ConfigIsPrivileged == pc = "prompt" /\ mode # Exec => privilege = Privileged

(* cli_add_history at its limit: the entries are the last lines entered,   *)
(* oldest first.                                                           *)
HistoryKeepsLast ==
  pc = "prompt" =>
    \A i \in Slots : history[i] = IF i <= Len(entered) THEN entered[i] ELSE None
===============================================================================

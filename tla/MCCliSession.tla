----------------------------- MODULE MCCliSession -----------------------------
(* The commands of libcli and monoboot that change the session, and two    *)
(* that print.                                                             *)
EXTENDS CliSession

CmdR(n, e, p, m, ch) == [name |-> n, effect |-> e, privilege |-> p, mode |-> m, children |-> ch]
LeafR(n, e, p, m) == [name |-> n, effect |-> e, privilege |-> p, mode |-> m]

MCCommands ==
  <<CmdR("quit", "quit", 0, ModeAny, <<>>), CmdR("exit", "exit", 0, ModeAny, <<>>),
    CmdR("enable", "enable", 0, Exec, <<>>), CmdR("disable", "disable", 15, Exec, <<>>),
    CmdR("configure", "none", 15, Exec, <<LeafR("terminal", "configure", 15, Exec)>>),
    CmdR("boot", "print", 0, Exec, <<>>),
    CmdR("show", "none", 0, Exec, <<LeafR("disk", "print", 0, Exec)>>),
    CmdR("copy", "none", 0, Exec, <<>>),
    CmdR("image", "configure", 15, Config, <<>>), CmdR("network", "net", 15, Config, <<>>),
    CmdR("exit", "configure", 15, 2, <<>>)>>

(* An abbreviation, a word no command has, and the full names.             *)
MCAccepts ==
  {<<MCCommands[n].name, MCCommands[n].name>> : n \in DOMAIN MCCommands}
  \cup {<<"terminal", "terminal">>, <<"disk", "disk">>, <<"net", "network">>}
MCHelpWords == {"sh?"}

L(ws, fs) == [words |-> ws, filters |-> fs]
MCQuitLine == L(<<"quit">>, <<>>)
MCHistoryLines == {L(<<"sh?">>, <<>>)}
MCLines ==
  {EmptyLine, MCQuitLine, L(<<"sh?">>, <<>>), L(<<"exit">>, <<>>), L(<<"enable">>, <<>>),
   L(<<"disable">>, <<>>), L(<<"configure", "terminal">>, <<>>), L(<<"net">>, <<>>),
   L(<<"configure">>, <<>>), L(<<"image">>, <<>>), L(<<"copy">>, <<>>),
   L(<<"show", "disk">>, <<"include", "ambiguous">>), L(<<"boot">>, <<"count", "invalid">>),
   L(<<"show", "disk">>, <<"begin">>), L(<<"quit">>, <<"count">>)}

(* A name and two passwords.                                               *)
Name == L(<<"net">>, <<>>)
Good1 == L(<<"exit">>, <<>>)
Good2 == L(<<"enable">>, <<>>)
MCSetups ==
  {[users |-> {}, auth |-> None, enable |-> None, enable_callback |-> None],
   [users |-> {<<Name, Good1>>}, auth |-> None, enable |-> Good2, enable_callback |-> None],
   [users |-> {}, auth |-> {<<Name, Good2>>}, enable |-> None, enable_callback |-> {Good1}]}

(* clitest's call, and one that configures.                                *)
MCFileCalls == {<<Unprivileged, Exec>>, <<Privileged, Config>>}
===============================================================================

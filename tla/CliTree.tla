-------------------------------- MODULE CliTree --------------------------------
(***************************************************************************)
(* The tree of commands (libcli.c): registration, the shortest length by   *)
(* which a name can be told from its siblings, what a word typed stands    *)
(* for and what Tab offers.  Module CliSession takes the outcome as its    *)
(* relation Accepts.                                                       *)
(*                                                                         *)
(* A name is a sequence of lower-case letters, as programs register them;  *)
(* a word typed may hold capitals.  The tree is two levels deep.           *)
(***************************************************************************)
EXTENDS Integers, Sequences, SequencesExt

CONSTANTS
  Names,         \* what may be registered
  Words,         \* what may be typed
  Lower(_),      \* tolower
  Rights,        \* the privilege and mode a command may be registered for
  Users,         \* the privilege and mode of who types
  MaxNodes,      \* bound: commands and children
  Nul            \* the byte 0

(* Strings: sequences of bytes other than the one that ends them.          *)
ASSUME NamesAssumption ==
  \A name \in Names : /\ name \in Seq(Range(name))
                      /\ \A i \in DOMAIN name : name[i] # Nul /\ Lower(name[i]) = name[i]
ASSUME WordsAssumption ==
  \A w \in Words : w \in Seq(Range(w)) /\ \A i \in DOMAIN w : Lower(w[i]) # Nul

AnyMode == -1     \* MODE_ANY
ConfigMode == 1   \* MODE_CONFIG; what is above it is a submode
ASSUME RightsAssumption == Rights \cup Users \subseteq [privilege: 0..15, mode: Int]

Child == [command: Names, unique_len: Nat, right: Rights]
Node == [command: Names, unique_len: Nat, right: Rights, children: Seq(Child)]

VARIABLES
  commands,   \* cli->commands
  complete    \* history: the last cli_build_shortest began at the first command

treevars == <<commands, complete>>

TreeInit == commands = <<>> /\ complete = TRUE

-----------------------------------------------------------------------------
(* Strings *)

At(s, i) == IF i <= Len(s) THEN s[i] ELSE Nul
(* strncmp(s, t, n) = 0, and strncasecmp for a name s and a word t.        *)
SameUpTo(s, t, n) ==
  \A i \in 1..n : At(s, i) = At(t, i) \/ \E j \in 1..i - 1 : At(s, j) = Nul /\ At(t, j) = Nul
Folded(w) == [i \in DOMAIN w |-> Lower(w[i])]
Begins(w, name) == SameUpTo(name, Folded(w), Len(w))

-----------------------------------------------------------------------------
(* cli_build_shortest *)

(* Seeded fault: a command is only compared with those after it.           *)
ShortestLater(list, k) ==
  LET name == list[k].command
      alone == {n \in 1..Len(name) :
                  \A p \in DOMAIN list : p > k => ~SameUpTo(list[p].command, name, n)}
  IN IF alone = {} THEN Len(name) + 1 ELSE CHOOSE n \in alone : \A m \in alone : n <= m

(* The first length at which no sibling of the list agrees, one more than  *)
(* the name's if there is none.                                            *)
Shortest(list, k) ==
  LET name == list[k].command
      alone == {n \in 1..Len(name) :
                  \A p \in DOMAIN list \ {k} : ~SameUpTo(list[p].command, name, n)}
  IN IF alone = {} THEN Len(name) + 1 ELSE CHOOSE n \in alone : \A m \in alone : n <= m
Measured(list) == [k \in DOMAIN list |-> [list[k] EXCEPT !.unique_len = Shortest(list, k)]]

(* The list from a command on, with the children of each of them.          *)
BuildShortest(list) ==
  LET own == Measured(list)
  IN [k \in DOMAIN own |-> [own[k] EXCEPT !.children = Measured(@)]]

-----------------------------------------------------------------------------
(* Operations *)

Room == FoldSeq(LAMBDA c, n : n + 1 + Len(c.children), 0, commands) < MaxNodes

(* Seeded fault: only the new command is measured.                         *)
RegisterAlone(name, right) ==
  /\ Room
  /\ LET new == [command |-> name, unique_len |-> 0, right |-> right, children |-> <<>>]
         list == Append(commands, new)
     IN commands' = [list EXCEPT ![Len(list)].unique_len = Shortest(list, Len(list))]
  /\ complete' = TRUE

(* cli_register_command with no parent: the whole tree is measured.        *)
Register(name, right) ==
  /\ Room
  /\ commands' = BuildShortest(Append(commands,
       [command |-> name, unique_len |-> 0, right |-> right, children |-> <<>>]))
  /\ complete' = TRUE

(* With a parent: cli_build_shortest is given the parent, and so measures  *)
(* the commands from it on, among themselves.                              *)
RegisterChild(n, name, right) ==
  /\ n \in DOMAIN commands /\ Room
  /\ LET grown == [commands[n] EXCEPT !.children =
                     Append(@, [command |-> name, unique_len |-> 0, right |-> right])]
         rest == <<grown>> \o SubSeq(commands, n + 1, Len(commands))
     IN commands' = SubSeq(commands, 1, n - 1) \o BuildShortest(rest)
  /\ complete' = (n = 1)

(* The first command of that name goes; nothing is measured again.         *)
Unregister(name) ==
  /\ \E n \in DOMAIN commands :
       /\ commands[n].command = name /\ \A k \in 1..n - 1 : commands[k].command # name
       /\ commands' = RemoveAt(commands, n)
  /\ UNCHANGED complete

TreeNext ==
  \E name \in Names :
    \/ \E right \in Rights : Register(name, right)
    \/ \E right \in Rights, n \in DOMAIN commands : RegisterChild(n, name, right)
    \/ Unregister(name)

TreeSpec == TreeInit /\ [][TreeNext]_treevars

-----------------------------------------------------------------------------
(* Lookup and completion *)

(* The two comparisons of cli_find_command.                                *)
StandsFor(c, w) == SameUpTo(c.command, Folded(w), c.unique_len) /\ Begins(w, c.command)

(* Its tests of the privilege and of the mode, between which a command of  *)
(* the configuration mode takes the user out of a submode.                 *)
MayRun(user, c) ==
  /\ c.right.privilege <= user.privilege
  /\ \/ c.right.mode \in {user.mode, AnyMode}
     \/ user.mode > ConfigMode /\ c.right.mode = ConfigMode
Answers(c, w, user) == MayRun(user, c) /\ StandsFor(c, w)

(* The command of a list that cli_find_command comes to first.             *)
Found(list, w, user) ==
  {n \in DOMAIN list : Answers(list[n], w, user) /\ \A k \in 1..n - 1 : ~Answers(list[k], w, user)}

(* cli_find_completions, for the last word; no submode is left for it.     *)
Completions(list, w, user) ==
  {n \in DOMAIN list :
     /\ list[n].right.privilege <= user.privilege /\ list[n].right.mode \in {user.mode, AnyMode}
     /\ Begins(w, list[n].command)}

-----------------------------------------------------------------------------
(* Properties *)

(* cli_build_shortest is run on different parts of the tree by different   *)
(* registrations, and not by cli_unregister_command: whatever was          *)
(* registered and removed before, the full name of a command or of a child *)
(* finds a command of that name, never one that it only begins, for        *)
(* everyone who may run the one named.                                     *)
FindsByName(list) ==
  \A n \in DOMAIN list, user \in Users : MayRun(user, list[n]) =>
    \E f \in Found(list, list[n].command, user) : list[f].command = list[n].command
FullNameFinds ==
  /\ FindsByName(commands)
  /\ \A n \in DOMAIN commands : FindsByName(commands[n].children)

(* An abbreviation is only taken where it can mean nothing else: what a    *)
(* word that is no full name stands for, for someone, is all that Tab      *)
(* would offer for it to anyone.  True of children at all times, and of    *)
(* the first level from a registration there to the next one under a later *)
(* command.                                                                *)
TakenAlone(list) ==
  \A w \in Words, user \in Users : \A n \in Found(list, w, user) : Folded(w) # list[n].command =>
    \A u \in Users : \A other \in Completions(list, w, u) : list[other].command = list[n].command
AbbreviationUnambiguous ==
  /\ complete => TakenAlone(commands)
  /\ \A n \in DOMAIN commands : TakenAlone(commands[n].children)
===============================================================================

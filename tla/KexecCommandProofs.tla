-------------------------- MODULE KexecCommandProofs --------------------------
(***************************************************************************)
(* Proofs about the kexec command and purgatory, for every command line,   *)
(* kernel and list of interfaces, and about the digest, for every message, *)
(* way of cutting it, block and word size.                                 *)
(***************************************************************************)
EXTENDS KexecCommand, WellFoundedInduction, TLAPS

-----------------------------------------------------------------------------
(* What main's flags say of the options read so far *)

Flags == [load: BOOLEAN, exec: BOOLEAN, shutdown: BOOLEAN, sync: BOOLEAN,
          ifdown: BOOLEAN, unload: BOOLEAN, crash: BOOLEAN]

(* Of the first n options, the last of these is one of those.              *)
LastRead(n, these, those) ==
  \E i \in 1..n : opts[i].opt \in those /\ \A j \in i + 1..n : opts[j].opt \notin these

FlagsInv ==
  /\ opts \in Seq(Option) /\ parsed \in 0..Len(opts) /\ flags \in Flags
  /\ flags.exec /\ ~flags.sync => LastRead(parsed, {"e", "f", "u"}, {"u"})
  /\ flags.exec /\ ~flags.ifdown => LastRead(parsed, {"e", "f", "x"}, {"x"})
  /\ flags.crash <=> LastRead(parsed, {}, {"p"})
  /\ pc = "prompt" => parsed = 0 /\ flags = Defaults

(* Where main is when it carries the flags out, and the machine has left.  *)
Acting == {"unload", "load", "shutdown", "sync", "ifdown", "visit", "exec"}
Left == {"purgatory", "started", "stuck"}

(* An interface ifdown is to take down has been, or could not be.          *)
Down(i) == i \in 1..MaxIfs \cap DOMAIN Interfaces /\ Interfaces[i] \notin {"lo", "alias"}
             => i \notin up \/ i \in refused

Loaded == kernel # None /\ staged[Slot].name = kernel.name
HelpAsked == LastRead(Len(opts), {}, {"h"})

ActInv ==
  /\ pc \in {"prompt", "parse", "ended"} \cup Acting \cup Left
  /\ pc \in {"prompt", "parse"} => result = 0
  /\ pc \in Acting => parsed = Len(opts)
  /\ pc \in {"sync", "ifdown", "visit", "exec"} => result = 0
  /\ pc \in {"ifdown", "visit", "exec"} /\ flags.sync => synced
  /\ pc = "visit" => \A i : i \in queue \/ Down(i)
  /\ pc = "exec" => flags.exec /\ (flags.ifdown => \A i : Down(i))
  /\ pc \in {"shutdown", "sync", "ifdown", "visit", "exec"} /\ flags.load => Loaded
  /\ pc = "ended" /\ result = 0 /\ flags.load /\ ~HelpAsked => parsed = Len(opts) /\ Loaded
  /\ by = "exec" => pc \in Left /\ JumpPrepared
  /\ by \in {"", "exec", "panic"}

SlotsInv == staged = [s \in Slots |-> staged[s]]
CommandInv == FlagsInv /\ ActInv /\ SlotsInv

LEMMA OnwardFacts ==
  ASSUME NEW n \in 1..7, NEW status, Onward(Steps[n], status)
  PROVE  /\ result' = status
         /\ pc' \in {"unload", "load", "shutdown", "sync", "ifdown", "exec", "ended"}
         /\ pc' \in {Steps[m] : m \in n + 1..8}
         /\ pc' \in {"load", "shutdown", "sync", "ifdown", "exec"} => status = 0
         /\ pc' = "exec" => flags.exec
         /\ n < 3 /\ status = 0 /\ flags.load => pc' \in {"unload", "load"}
         /\ n < 5 /\ status = 0 /\ flags.sync => pc' \notin {"ifdown", "exec", "ended"}
         /\ n < 6 /\ status = 0 /\ flags.ifdown => pc' \notin {"exec", "ended"}
<1>1. PICK i, j \in 1..8 : /\ Steps[i] = Steps[n] /\ i < j /\ Wanted(Steps[j], status)
                           /\ \A k \in i + 1..j - 1 : ~Wanted(Steps[k], status)
                           /\ pc' = Steps[j]
  BY DEF Onward, Steps
<1>2. i = n
  BY <1>1 DEF Steps
<1>3. result' = status
  BY DEF Onward
<1>4. pc' \in {Steps[m] : m \in n + 1..8}
  BY <1>1, <1>2
<1>5. pc' \in {"unload", "load", "shutdown", "sync", "ifdown", "exec", "ended"}
  BY <1>1, <1>2 DEF Steps
<1>6. /\ pc' \in {"load", "shutdown", "sync", "ifdown", "exec"} => status = 0
      /\ pc' = "exec" => flags.exec
  BY <1>1 DEF Wanted
<1>7. n < 3 /\ status = 0 /\ flags.load => j <= 3
  BY <1>1, <1>2 DEF Wanted, Steps
<1>8. n < 5 /\ status = 0 /\ flags.sync => j <= 5
  BY <1>1, <1>2 DEF Wanted, Steps
<1>9. n < 6 /\ status = 0 /\ flags.ifdown => j <= 6
  BY <1>1, <1>2 DEF Wanted, Steps
<1> QED
  BY <1>1, <1>2, <1>3, <1>4, <1>5, <1>6, <1>7, <1>8, <1>9 DEF Steps

(* The switch, one option at a time.                                       *)
LEMMA FlagsSwitch ==
  ASSUME NEW f
  PROVE  /\ FlagsAfter(f, "x") = [f EXCEPT !.ifdown = FALSE]
         /\ FlagsAfter(f, "f") = [f EXCEPT !.load = TRUE, !.shutdown = FALSE, !.sync = TRUE,
                                           !.ifdown = TRUE, !.exec = TRUE]
         /\ FlagsAfter(f, "l") = [f EXCEPT !.load = TRUE, !.exec = FALSE, !.shutdown = FALSE]
         /\ FlagsAfter(f, "u") = [f EXCEPT !.load = FALSE, !.shutdown = FALSE, !.sync = FALSE,
                                           !.unload = TRUE]
         /\ FlagsAfter(f, "e") = [f EXCEPT !.load = FALSE, !.shutdown = FALSE, !.sync = TRUE,
                                           !.ifdown = TRUE, !.exec = TRUE]
         /\ FlagsAfter(f, "p") = [f EXCEPT !.load = TRUE, !.exec = FALSE, !.shutdown = FALSE,
                                           !.sync = FALSE, !.crash = TRUE]
         /\ \A o : o \notin {"x", "f", "l", "u", "e", "p"} => FlagsAfter(f, o) = f
  BY Zenon DEF FlagsAfter

LEMMA FlagsFields ==
  ASSUME NEW f \in Flags, NEW o
  PROVE  /\ FlagsAfter(f, o) \in Flags
         /\ FlagsAfter(f, o).sync <=> o \notin {"u", "p"} /\ (o \in {"e", "f"} \/ f.sync)
         /\ FlagsAfter(f, o).ifdown <=> o # "x" /\ (o \in {"e", "f"} \/ f.ifdown)
         /\ FlagsAfter(f, o).exec <=> o \notin {"l", "p"} /\ (o \in {"e", "f"} \/ f.exec)
         /\ FlagsAfter(f, o).crash <=> o = "p" \/ f.crash
<1>1. CASE o = "x"
  <2> DEFINE g == [f EXCEPT !.ifdown = FALSE]
  <2>1. FlagsAfter(f, o) = g
    BY <1>1, FlagsSwitch, Zenon
  <2>2. g \in Flags
    BY DEF Flags
  <2>3. /\ g.sync <=> o \notin {"u", "p"} /\ (o \in {"e", "f"} \/ f.sync)
        /\ g.ifdown <=> o # "x" /\ (o \in {"e", "f"} \/ f.ifdown)
        /\ g.exec <=> o \notin {"l", "p"} /\ (o \in {"e", "f"} \/ f.exec)
        /\ g.crash <=> o = "p" \/ f.crash
    BY <1>1 DEF Flags
  <2> QED
    BY <2>1, <2>2, <2>3, Zenon
<1>2. CASE o = "f"
  <2> DEFINE g == [f EXCEPT !.load = TRUE, !.shutdown = FALSE, !.sync = TRUE,
                       !.ifdown = TRUE, !.exec = TRUE]
  <2>1. FlagsAfter(f, o) = g
    BY <1>2, FlagsSwitch, Zenon
  <2>2. g \in Flags
    BY DEF Flags
  <2>3. /\ g.sync <=> o \notin {"u", "p"} /\ (o \in {"e", "f"} \/ f.sync)
        /\ g.ifdown <=> o # "x" /\ (o \in {"e", "f"} \/ f.ifdown)
        /\ g.exec <=> o \notin {"l", "p"} /\ (o \in {"e", "f"} \/ f.exec)
        /\ g.crash <=> o = "p" \/ f.crash
    BY <1>2 DEF Flags
  <2> QED
    BY <2>1, <2>2, <2>3, Zenon
<1>3. CASE o = "l"
  <2> DEFINE g == [f EXCEPT !.load = TRUE, !.exec = FALSE, !.shutdown = FALSE]
  <2>1. FlagsAfter(f, o) = g
    BY <1>3, FlagsSwitch, Zenon
  <2>2. g \in Flags
    BY DEF Flags
  <2>3. /\ g.sync <=> o \notin {"u", "p"} /\ (o \in {"e", "f"} \/ f.sync)
        /\ g.ifdown <=> o # "x" /\ (o \in {"e", "f"} \/ f.ifdown)
        /\ g.exec <=> o \notin {"l", "p"} /\ (o \in {"e", "f"} \/ f.exec)
        /\ g.crash <=> o = "p" \/ f.crash
    BY <1>3 DEF Flags
  <2> QED
    BY <2>1, <2>2, <2>3, Zenon
<1>4. CASE o = "u"
  <2> DEFINE g == [f EXCEPT !.load = FALSE, !.shutdown = FALSE, !.sync = FALSE,
                       !.unload = TRUE]
  <2>1. FlagsAfter(f, o) = g
    BY <1>4, FlagsSwitch, Zenon
  <2>2. g \in Flags
    BY DEF Flags
  <2>3. /\ g.sync <=> o \notin {"u", "p"} /\ (o \in {"e", "f"} \/ f.sync)
        /\ g.ifdown <=> o # "x" /\ (o \in {"e", "f"} \/ f.ifdown)
        /\ g.exec <=> o \notin {"l", "p"} /\ (o \in {"e", "f"} \/ f.exec)
        /\ g.crash <=> o = "p" \/ f.crash
    BY <1>4 DEF Flags
  <2> QED
    BY <2>1, <2>2, <2>3, Zenon
<1>5. CASE o = "e"
  <2> DEFINE g == [f EXCEPT !.load = FALSE, !.shutdown = FALSE, !.sync = TRUE,
                       !.ifdown = TRUE, !.exec = TRUE]
  <2>1. FlagsAfter(f, o) = g
    BY <1>5, FlagsSwitch, Zenon
  <2>2. g \in Flags
    BY DEF Flags
  <2>3. /\ g.sync <=> o \notin {"u", "p"} /\ (o \in {"e", "f"} \/ f.sync)
        /\ g.ifdown <=> o # "x" /\ (o \in {"e", "f"} \/ f.ifdown)
        /\ g.exec <=> o \notin {"l", "p"} /\ (o \in {"e", "f"} \/ f.exec)
        /\ g.crash <=> o = "p" \/ f.crash
    BY <1>5 DEF Flags
  <2> QED
    BY <2>1, <2>2, <2>3, Zenon
<1>6. CASE o = "p"
  <2> DEFINE g == [f EXCEPT !.load = TRUE, !.exec = FALSE, !.shutdown = FALSE,
                       !.sync = FALSE, !.crash = TRUE]
  <2>1. FlagsAfter(f, o) = g
    BY <1>6, FlagsSwitch, Zenon
  <2>2. g \in Flags
    BY DEF Flags
  <2>3. /\ g.sync <=> o \notin {"u", "p"} /\ (o \in {"e", "f"} \/ f.sync)
        /\ g.ifdown <=> o # "x" /\ (o \in {"e", "f"} \/ f.ifdown)
        /\ g.exec <=> o \notin {"l", "p"} /\ (o \in {"e", "f"} \/ f.exec)
        /\ g.crash <=> o = "p" \/ f.crash
    BY <1>6 DEF Flags
  <2> QED
    BY <2>1, <2>2, <2>3, Zenon
<1>7. CASE o \notin {"x", "f", "l", "u", "e", "p"}
  <2>1. FlagsAfter(f, o) = f
    BY <1>7, FlagsSwitch, Zenon
  <2> QED
    BY <1>7, <2>1
<1> QED
  BY <1>1, <1>2, <1>3, <1>4, <1>5, <1>6, <1>7

LEMMA FlagsParsed ==
  ASSUME FlagsInv, ParseOption
  PROVE  FlagsInv'
<1> DEFINE o == opts[parsed + 1].opt
           n == parsed + 1
<1>01. parsed < Len(opts) /\ opts' = opts /\ parsed' = n /\ flags' = FlagsAfter(flags, o)
  BY DEF ParseOption
<1>02. opts \in Seq(Option) /\ parsed \in 0..Len(opts) /\ flags \in Flags
  BY DEF FlagsInv
<1>1. /\ opts' = opts /\ opts \in Seq(Option) /\ n \in 1..Len(opts) /\ parsed' = n
      /\ parsed \in 0..Len(opts) /\ flags' = FlagsAfter(flags, o) /\ flags \in Flags
  BY <1>01, <1>02
<1>0. pc' # "prompt"
  BY DEF ParseOption, Exit
<1>11. opts[n] \in Option
  BY <1>1
<1>2. o \in {"x", "f", "l", "u", "e", "p", "t", "h", "bad mem", "bad serial"}
  BY <1>11 DEF Option
<1>3. /\ flags' \in Flags
      /\ flags'.sync <=> o \notin {"u", "p"} /\ (o \in {"e", "f"} \/ flags.sync)
      /\ flags'.ifdown <=> o # "x" /\ (o \in {"e", "f"} \/ flags.ifdown)
      /\ flags'.exec <=> o \notin {"l", "p"} /\ (o \in {"e", "f"} \/ flags.exec)
      /\ flags'.crash <=> o = "p" \/ flags.crash
  BY <1>1, FlagsFields
<1>4. ASSUME NEW these, NEW those
      PROVE  /\ o \in those => LastRead(n, these, those)
             /\ o \notin these /\ LastRead(parsed, these, those) => LastRead(n, these, those)
  BY <1>1 DEF LastRead
<1>5. LastRead(n, {}, {"p"}) => o = "p" \/ LastRead(parsed, {}, {"p"})
  BY <1>1 DEF LastRead
<1>6. flags'.exec /\ ~flags'.sync => LastRead(n, {"e", "f", "u"}, {"u"})
  <2>1. CASE o = "u"
    BY <2>1, <1>4
  <2>2. CASE o # "u"
    BY <2>2, <1>3, <1>4 DEF FlagsInv
  <2> QED
    BY <2>1, <2>2
<1>7. flags'.exec /\ ~flags'.ifdown => LastRead(n, {"e", "f", "x"}, {"x"})
  <2>1. CASE o = "x"
    BY <2>1, <1>4
  <2>2. CASE o # "x"
    BY <2>2, <1>3, <1>4 DEF FlagsInv
  <2> QED
    BY <2>1, <2>2
<1>8. flags'.crash <=> LastRead(n, {}, {"p"})
  <2>1. CASE o = "p"
    BY <2>1, <1>3, <1>4
  <2>2. CASE o # "p"
    BY <2>2, <1>3, <1>4, <1>5 DEF FlagsInv
  <2> QED
    BY <2>1, <2>2
<1>9. \A these, those : LastRead(parsed, these, those)' = LastRead(n, these, those)
  BY <1>1 DEF LastRead
<1> QED
  BY <1>0, <1>1, <1>3, <1>6, <1>7, <1>8, <1>9 DEF FlagsInv

(* A fresh process has read nothing.                                       *)
LEMMA FlagsFresh ==
  ASSUME opts' \in Seq(Option), parsed' = 0, flags' = Defaults
  PROVE  FlagsInv'
<1>1. ~LastRead(parsed, {}, {"p"})'
  BY DEF LastRead
<1>2. Len(opts)' \in Nat
  OBVIOUS
<1> QED
  BY <1>1, <1>2 DEF FlagsInv, Defaults, Flags

LEMMA FlagsKept ==
  ASSUME FlagsInv, UNCHANGED <<opts, parsed, flags>>, pc' # "prompt"
  PROVE  FlagsInv'
<1>1. \A these, those : LastRead(parsed, these, those)' = LastRead(parsed, these, those)
  BY DEF LastRead
<1> QED
  BY <1>1 DEF FlagsInv

LEMMA FlagsNext ==
  ASSUME FlagsInv, [Next]_vars
  PROVE  FlagsInv'
<1>1. CASE Invoke
  <2>1. opts' \in Seq(Option)
    BY <1>1, CommandAssumption DEF Invoke
  <2> QED
    BY <1>1, <2>1, FlagsFresh DEF Invoke, FlagsInv
<1>2. CASE ParseOption
  BY <1>2, FlagsParsed
<1>3. CASE Wait \/ Boot
  <2>1. opts' = <<>>
    BY <1>3 DEF Wait, Boot, NoProcess
  <2>2. <<>> \in Seq(Option)
    OBVIOUS
  <2> QED
    BY <1>3, <2>1, <2>2, FlagsFresh DEF Wait, Boot, NoProcess
<1>4. CASE ArchOptions \/ Unload \/ Load \/ LoadFails \/ LoadDies \/ Shutdown \/ Sync
           \/ IfdownStarts \/ IfdownVisits \/ IfdownEnds
  <2>1. \A n \in 1..7 : \A status : Onward(Steps[n], status) => pc' # "prompt"
    BY OnwardFacts
  <2>2. \A status : /\ Onward("arch", status) => pc' # "prompt"
                    /\ Onward("unload", status) => pc' # "prompt"
                    /\ Onward("load", status) => pc' # "prompt"
                    /\ Onward("shutdown", status) => pc' # "prompt"
                    /\ Onward("sync", status) => pc' # "prompt"
                    /\ Onward("ifdown", status) => pc' # "prompt"
    BY <2>1 DEF Steps
  <2>3. pc' # "prompt" /\ UNCHANGED <<opts, parsed, flags>>
    BY <1>4, <2>2 DEF ArchOptions, Unload, Load, LoadFails, LoadDies, Shutdown, Sync, Exit,
       IfdownStarts, IfdownVisits, IfdownEnds, command
  <2> QED
    BY <2>3, FlagsKept
<1>5. CASE Exec \/ ExecFails \/ Panic \/ Purgatory
  BY <1>5, FlagsKept DEF Exec, ExecFails, Panic, Purgatory, JumpTo, Exit, command
<1>6. CASE UNCHANGED vars
  <2>1. \A these, those : LastRead(parsed, these, those)' = LastRead(parsed, these, those)
    BY <1>6 DEF LastRead, vars
  <2> QED
    BY <1>6, <2>1 DEF FlagsInv, vars
<1> QED
  BY <1>1, <1>2, <1>3, <1>4, <1>5, <1>6 DEF Next

-----------------------------------------------------------------------------
(* What main has done at each of its steps *)

LEMMA LastOfRead ==
  ASSUME opts \in Seq(Option), NEW these, NEW those
  PROVE  LastOf(these, those) <=> LastRead(Len(opts), these, those)
<1>1. DOMAIN opts = 1..Len(opts) /\ Len(opts) \in Nat
  OBVIOUS
<1> QED
  BY <1>1 DEF LastOf, LastRead

(* The steps of main, where Onward may lead from each.                     *)
LEMMA StepFacts ==
  ASSUME NEW status
  PROVE  /\ Onward("arch", status) => Onward(Steps[1], status)
         /\ Onward("unload", status) => Onward(Steps[2], status)
         /\ Onward("load", status) => Onward(Steps[3], status)
         /\ Onward("shutdown", status) => Onward(Steps[4], status)
         /\ Onward("sync", status) => Onward(Steps[5], status)
         /\ Onward("ifdown", status) => Onward(Steps[6], status)
  BY DEF Steps

(* After a failure there is nothing left but k_unload, which comes first.  *)
LEMMA OnwardStops ==
  ASSUME NEW n \in 2..7, NEW status, status # 0, Onward(Steps[n], status)
  PROVE  pc' = "ended" /\ result' # 0
<1>1. /\ result' = status
      /\ pc' \in {"unload", "load", "shutdown", "sync", "ifdown", "exec", "ended"}
      /\ pc' \in {Steps[m] : m \in n + 1..8}
      /\ pc' \in {"load", "shutdown", "sync", "ifdown", "exec"} => status = 0
  BY OnwardFacts
<1>2. pc' # "unload"
  BY <1>1 DEF Steps
<1> QED
  BY <1>1, <1>2

(* A command that ends in failure promises nothing.                        *)
LEMMA ActFails ==
  ASSUME pc' = "ended", result' # 0, by' # "exec", by' \in {"", "exec", "panic"}
  PROVE  ActInv'
  BY DEF ActInv, Acting, Left

LEMMA ActParse ==
  ASSUME CommandInv, ParseOption
  PROVE  ActInv'
<1> DEFINE o == opts[parsed + 1].opt
<1>0. parsed < Len(opts) /\ opts \in Seq(Option) /\ parsed \in 0..Len(opts)
  BY DEF CommandInv, FlagsInv, ParseOption
<1>1. pc = "parse" /\ by' = by /\ opts' = opts
  BY DEF ParseOption, hardware
<1>2. result = 0 /\ by # "exec" /\ by \in {"", "exec", "panic"}
  BY <1>1 DEF CommandInv, ActInv, Left
<1>3. \/ o = "h" /\ pc' = "ended" /\ result' = 0
      \/ pc' = "ended" /\ result' = 1
      \/ pc' = pc /\ result' = result
  BY DEF ParseOption, Exit
<1>4. CASE pc' = "ended" /\ result' = 1
  <2>1. result' # 0
    BY <1>4
  <2> QED
    BY <1>1, <1>2, <1>4, <2>1, ActFails
<1>5. CASE pc' = pc /\ result' = result
  BY <1>1, <1>2, <1>5 DEF ActInv, Acting, Left
<1>6. CASE o = "h" /\ pc' = "ended" /\ result' = 0
  <2>1. parsed + 1 \in 1..Len(opts)
    BY <1>0
  <2>2. \E i \in 1..Len(opts) : opts[i].opt = "h"
    BY <1>6, <2>1
  <2>3. HelpAsked'
    BY <1>1, <2>2 DEF HelpAsked, LastRead
  <2> QED
    BY <1>1, <1>2, <1>6, <2>3 DEF ActInv, Acting, Left
<1> QED
  BY <1>3, <1>4, <1>5, <1>6

LEMMA ActArch ==
  ASSUME CommandInv, ArchOptions
  PROVE  ActInv'
<1>1. PICK status \in {0, -1} : Onward("arch", status)
  BY DEF ArchOptions
<1>2. /\ pc = "parse" /\ parsed = Len(opts) /\ Onward(Steps[1], status)
      /\ UNCHANGED <<opts, parsed, flags, kernel, staged, by, synced, up, refused>>
  BY <1>1, StepFacts DEF ArchOptions, hardware, command, network
<1>3. by # "exec" /\ by \in {"", "exec", "panic"}
  BY <1>2 DEF CommandInv, ActInv, Left
<1>4. /\ result' = status
      /\ pc' \in {"unload", "load", "shutdown", "sync", "ifdown", "exec", "ended"}
      /\ pc' \in {"load", "shutdown", "sync", "ifdown", "exec"} => status = 0
      /\ pc' = "exec" => flags.exec
      /\ status = 0 /\ flags.load => pc' \in {"unload", "load"}
      /\ status = 0 /\ flags.sync => pc' \notin {"ifdown", "exec", "ended"}
      /\ status = 0 /\ flags.ifdown => pc' \notin {"exec", "ended"}
  BY <1>2, OnwardFacts
<1> QED
  BY <1>2, <1>3, <1>4 DEF ActInv, Acting, Left

LEMMA ActUnload ==
  ASSUME CommandInv, Unload
  PROVE  ActInv'
<1>1. /\ pc = "unload" /\ (Onward(Steps[2], 0) \/ Onward(Steps[2], -1))
      /\ UNCHANGED <<opts, parsed, flags, kernel, by, synced, up, refused>>
  BY StepFacts DEF Unload, hardware, command, network
<1>2. by # "exec" /\ by \in {"", "exec", "panic"} /\ parsed = Len(opts)
  BY <1>1 DEF CommandInv, ActInv, Left, Acting
<1>3. \E status \in {0, -1} :
      /\ result' = status
      /\ pc' \in {"unload", "load", "shutdown", "sync", "ifdown", "exec", "ended"}
      /\ pc' \in {Steps[m] : m \in 2 + 1..8}
      /\ pc' \in {"load", "shutdown", "sync", "ifdown", "exec"} => status = 0
      /\ pc' = "exec" => flags.exec
      /\ status = 0 /\ flags.load => pc' \in {"unload", "load"}
      /\ status = 0 /\ flags.sync => pc' \notin {"ifdown", "exec", "ended"}
      /\ status = 0 /\ flags.ifdown => pc' \notin {"exec", "ended"}
  BY <1>1, OnwardFacts
<1>4. pc' # "unload"
  BY <1>3 DEF Steps
<1> QED
  BY <1>1, <1>2, <1>3, <1>4 DEF ActInv, Acting, Left

(* my_load: the kernel is staged when it succeeds, and nothing follows     *)
(* when it fails.                                                          *)
LEMMA ActLoad ==
  ASSUME CommandInv, Load \/ LoadFails \/ LoadDies
  PROVE  ActInv'
<1>1. /\ pc = "load" /\ UNCHANGED <<opts, parsed, flags, kernel, by, synced, up, refused>>
  BY DEF Load, LoadFails, LoadDies, hardware, command, network
<1>2. by # "exec" /\ by \in {"", "exec", "panic"} /\ parsed = Len(opts)
  BY <1>1 DEF CommandInv, ActInv, Left, Acting
<1>3. \/ pc' = "ended" /\ result' = 1
      \/ Onward(Steps[3], -1)
      \/ /\ Onward(Steps[3], 0) /\ kernel # None
         /\ staged' = [staged EXCEPT ![Slot] = Updated(kernel)]
  BY StepFacts DEF Load, LoadFails, LoadDies, Exit
<1>4. CASE pc' = "ended" /\ result' = 1
  <2>1. result' # 0
    BY <1>4
  <2> QED
    BY <1>1, <1>2, <1>4, <2>1, ActFails
<1>5. CASE Onward(Steps[3], -1)
  <2>1. pc' = "ended" /\ result' # 0
    BY <1>5, OnwardStops
  <2> QED
    BY <1>1, <1>2, <2>1, ActFails
<1>6. CASE /\ Onward(Steps[3], 0) /\ kernel # None
           /\ staged' = [staged EXCEPT ![Slot] = Updated(kernel)]
  <2>1. /\ result' = 0
        /\ pc' \in {"unload", "load", "shutdown", "sync", "ifdown", "exec", "ended"}
        /\ pc' \in {Steps[m] : m \in 3 + 1..8}
        /\ pc' = "exec" => flags.exec
        /\ flags.sync => pc' \notin {"ifdown", "exec", "ended"}
        /\ flags.ifdown => pc' \notin {"exec", "ended"}
    BY <1>6, OnwardFacts
  <2>2. pc' \notin {"unload", "load"}
    BY <2>1 DEF Steps
  <2>3. staged'[Slot] = Updated(kernel)
    BY <1>6 DEF CommandInv, SlotsInv, Slot, Slots
  <2>4. Slot' = Slot /\ kernel' = kernel
    BY <1>1 DEF Slot
  <2>5. Loaded'
    BY <1>6, <2>3, <2>4 DEF Loaded, Updated, None
  <2> QED
    BY <1>1, <1>2, <2>1, <2>2, <2>5 DEF ActInv, Acting, Left
<1> QED
  BY <1>3, <1>4, <1>5, <1>6

(* shutdown and sync; what has been loaded stays so.                       *)
LEMMA ActShutdown ==
  ASSUME CommandInv, Shutdown
  PROVE  ActInv'
<1>1. /\ pc = "shutdown"
      /\ UNCHANGED <<opts, parsed, flags, kernel, staged, by, synced, up, refused>>
  BY DEF Shutdown, hardware, command, network
<1>2. by # "exec" /\ by \in {"", "exec", "panic"} /\ parsed = Len(opts)
      /\ (flags.load => Loaded)
  BY <1>1 DEF CommandInv, ActInv, Left, Acting
<1>3. flags.load => Loaded'
  BY <1>1, <1>2 DEF Loaded, Slot
<1>4. (pc' = "ended" /\ result' = 0) \/ Onward(Steps[4], -1)
  BY StepFacts DEF Shutdown, Exit
<1>5. CASE pc' = "ended" /\ result' = 0
  BY <1>1, <1>2, <1>3, <1>5 DEF ActInv, Acting, Left
<1>6. CASE Onward(Steps[4], -1)
  <2>1. pc' = "ended" /\ result' # 0
    BY <1>6, OnwardStops
  <2> QED
    BY <1>1, <1>2, <2>1, ActFails
<1> QED
  BY <1>4, <1>5, <1>6

LEMMA ActSync ==
  ASSUME CommandInv, Sync
  PROVE  ActInv'
<1>1. /\ pc = "sync" /\ Onward(Steps[5], result) /\ synced'
      /\ UNCHANGED <<opts, parsed, flags, kernel, staged, by, up, refused>>
  BY StepFacts DEF Sync, hardware, command, network
<1>2. by # "exec" /\ by \in {"", "exec", "panic"} /\ parsed = Len(opts)
      /\ (flags.load => Loaded) /\ result = 0
  BY <1>1 DEF CommandInv, ActInv, Left, Acting
<1>3. flags.load => Loaded'
  BY <1>1, <1>2 DEF Loaded, Slot
<1>0. Onward(Steps[5], 0)
  BY <1>1, <1>2, Zenon
<1>4. /\ result' = 0
      /\ pc' \in {"unload", "load", "shutdown", "sync", "ifdown", "exec", "ended"}
      /\ pc' \in {Steps[m] : m \in 5 + 1..8}
      /\ pc' = "exec" => flags.exec
      /\ flags.ifdown => pc' \notin {"exec", "ended"}
  BY <1>0, OnwardFacts
<1>5. pc' \in {"ifdown", "exec", "ended"}
  BY <1>4 DEF Steps
<1> QED
  BY <1>1, <1>2, <1>3, <1>4, <1>5 DEF ActInv, Acting, Left

(* ifdown leaves every interface it lists down or refused.                 *)
LEMMA ActIfdown ==
  ASSUME CommandInv, pc \in {"ifdown", "visit"}, Onward(Steps[6], result),
         UNCHANGED <<opts, parsed, flags, kernel, staged, by, synced>>,
         \A i : Down(i)'
  PROVE  ActInv'
<1>1. by # "exec" /\ by \in {"", "exec", "panic"} /\ parsed = Len(opts)
      /\ (flags.load => Loaded) /\ result = 0 /\ (flags.sync => synced)
  BY DEF CommandInv, ActInv, Left, Acting
<1>2. flags.load => Loaded'
  BY <1>1 DEF Loaded, Slot
<1>0. Onward(Steps[6], 0)
  BY <1>1, Zenon
<1>3. /\ result' = 0
      /\ pc' \in {"unload", "load", "shutdown", "sync", "ifdown", "exec", "ended"}
      /\ pc' \in {Steps[m] : m \in 6 + 1..8}
      /\ pc' = "exec" => flags.exec
  BY <1>0, OnwardFacts
<1>4. pc' \in {"exec", "ended"}
  BY <1>3 DEF Steps
<1> QED
  BY <1>1, <1>2, <1>3, <1>4 DEF ActInv, Acting, Left

LEMMA ActVisiting ==
  ASSUME CommandInv, pc \in {"ifdown", "visit"}, pc' = "visit",
         UNCHANGED <<opts, parsed, flags, kernel, staged, by, synced, result>>,
         \A i : i \in queue' \/ Down(i)'
  PROVE  ActInv'
<1>1. by # "exec" /\ by \in {"", "exec", "panic"} /\ parsed = Len(opts)
      /\ (flags.load => Loaded) /\ result = 0 /\ (flags.sync => synced)
  BY DEF CommandInv, ActInv, Left, Acting
<1>2. flags.load => Loaded'
  BY <1>1 DEF Loaded, Slot
<1> QED
  BY <1>1, <1>2 DEF ActInv, Acting, Left

LEMMA ActIfdownStarts ==
  ASSUME CommandInv, IfdownStarts
  PROVE  ActInv'
<1>1. pc = "ifdown" /\ UNCHANGED <<opts, parsed, flags, kernel, staged, by, synced, up>>
  BY DEF IfdownStarts, hardware, command
<1>2. CASE /\ queue' = {i \in DOMAIN Interfaces : Visited(i)}
           /\ pc' = "visit" /\ UNCHANGED <<result, refused>>
  <2>1. \A i : i \in queue' \/ Down(i)'
    BY <1>2, CommandAssumption DEF Down, Visited
  <2> QED
    BY <1>1, <1>2, <2>1, ActVisiting
<1>3. CASE refused' = DOMAIN Interfaces /\ Onward("ifdown", result)
  <2>1. \A i : Down(i)'
    BY <1>3 DEF Down
  <2> QED
    BY <1>1, <1>3, <2>1, ActIfdown, StepFacts
<1> QED
  BY <1>2, <1>3 DEF IfdownStarts

LEMMA ActIfdownVisits ==
  ASSUME CommandInv, IfdownVisits
  PROVE  ActInv'
<1>1. /\ pc = "visit" /\ pc' = pc /\ queue' = queue \ {First(queue)}
      /\ UNCHANGED <<opts, parsed, flags, kernel, staged, by, synced, result>>
      /\ \/ up' = up \ {First(queue)} /\ refused' = refused
         \/ refused' = refused \cup {First(queue)} /\ up' = up
  BY DEF IfdownVisits, hardware, command
<1>2. \A i : i \in queue \/ Down(i)
  BY <1>1 DEF CommandInv, ActInv
<1>3. \A i : i \in queue' \/ Down(i)'
  <2> HIDE DEF First
  <2> QED
    BY <1>1, <1>2 DEF Down
<1> QED
  BY <1>1, <1>3, ActVisiting

LEMMA ActIfdownEnds ==
  ASSUME CommandInv, IfdownEnds
  PROVE  ActInv'
<1>1. /\ pc = "visit" /\ queue = {} /\ Onward(Steps[6], result)
      /\ UNCHANGED <<opts, parsed, flags, kernel, staged, by, synced, up, refused>>
  BY StepFacts DEF IfdownEnds, hardware, command, network
<1>2. \A i : Down(i)'
  BY <1>1 DEF CommandInv, ActInv, Down
<1> QED
  BY <1>1, <1>2, ActIfdown

(* kexec -e leaves Linux with everything done that its flags asked for.    *)
LEMMA ActExec ==
  ASSUME CommandInv, Exec
  PROVE  ActInv'
<1>1. /\ pc = "exec" /\ pc' = "purgatory" /\ by' = "exec"
      /\ UNCHANGED <<opts, synced, up, refused>>
  BY DEF Exec, JumpTo, command, network
<1>2. opts \in Seq(Option) /\ parsed = Len(opts) /\ flags \in Flags
  BY <1>1 DEF CommandInv, ActInv, FlagsInv, Acting
<1>3. flags.exec /\ (flags.sync => synced) /\ (flags.ifdown => \A i : Down(i))
  BY <1>1 DEF CommandInv, ActInv
<1>4. /\ ~flags.sync => LastRead(Len(opts), {"e", "f", "u"}, {"u"})
      /\ ~flags.ifdown => LastRead(Len(opts), {"e", "f", "x"}, {"x"})
  BY <1>2, <1>3 DEF CommandInv, FlagsInv
<1>6. JumpPrepared'
  <2>1. \A these, those : LastOf(these, those)' = LastOf(these, those)
    BY <1>1 DEF LastOf
  <2>2. synced \/ LastOf({"e", "f", "u"}, {"u"})
    BY <1>2, <1>3, <1>4, LastOfRead
  <2>3. LastOf({"e", "f", "x"}, {"x"}) \/ \A i : Down(i)
    BY <1>2, <1>3, <1>4, LastOfRead
  <2> QED
    BY <1>1, <2>1, <2>2, <2>3 DEF JumpPrepared, Down
<1> QED
  BY <1>1, <1>6 DEF ActInv, Acting, Left

LEMMA ActExecFails ==
  ASSUME CommandInv, ExecFails
  PROVE  ActInv'
<1>1. pc = "exec" /\ pc' = "ended" /\ by' = by
  BY DEF ExecFails, Exit, hardware
<1>2. by # "exec" /\ by \in {"", "exec", "panic"}
  BY <1>1 DEF CommandInv, ActInv, Left
<1>3. result' # 0
  <2>1. result' = -1
    BY DEF ExecFails, Exit
  <2> QED
    BY <2>1
<1> QED
  BY <1>1, <1>2, <1>3, ActFails

LEMMA ActPanic ==
  ASSUME CommandInv, Panic
  PROVE  ActInv'
<1>1. pc' = "purgatory" /\ by' = "panic"
  BY DEF Panic, JumpTo
<1> QED
  BY <1>1 DEF ActInv, Acting, Left

LEMMA ActPurgatory ==
  ASSUME CommandInv, Purgatory
  PROVE  ActInv'
<1>1. /\ pc = "purgatory" /\ pc' \in {"started", "stuck"}
      /\ UNCHANGED <<opts, by, synced, up, refused>>
  BY DEF Purgatory, hardware, command, network
<1>2. by \in {"", "exec", "panic"} /\ (by = "exec" => JumpPrepared)
  BY DEF CommandInv, ActInv
<1>3. JumpPrepared' = JumpPrepared
  BY <1>1 DEF JumpPrepared, LastOf
<1> QED
  BY <1>1, <1>2, <1>3 DEF ActInv, Acting, Left

LEMMA ActPrompt ==
  ASSUME CommandInv, Invoke \/ Wait \/ Boot
  PROVE  ActInv'
<1>1. pc' \in {"prompt", "parse"} /\ result' = 0 /\ by' # "exec" /\ by' \in {"", "panic"}
  <2>1. CASE Invoke
    BY <2>1 DEF Invoke, CommandInv, ActInv, Left, hardware
  <2>2. CASE Wait
    BY <2>2 DEF Wait, NoProcess, CommandInv, ActInv, Left, hardware
  <2>3. CASE Boot
    BY <2>3 DEF Boot, NoProcess
  <2> QED
    BY <2>1, <2>2, <2>3
<1> QED
  BY <1>1 DEF ActInv, Acting, Left

LEMMA ActStutter ==
  ASSUME CommandInv, UNCHANGED vars
  PROVE  ActInv'
<1>1. /\ JumpPrepared' = JumpPrepared /\ HelpAsked' = HelpAsked /\ Loaded' = Loaded
      /\ \A i : Down(i)' = Down(i)
  BY DEF vars, JumpPrepared, LastOf, HelpAsked, LastRead, Loaded, Slot, Down
<1> QED
  BY <1>1 DEF CommandInv, ActInv, vars

LEMMA SlotsNext ==
  ASSUME SlotsInv, [Next]_vars
  PROVE  SlotsInv'
<1>1. staged' = staged \/ \E x : staged' = [staged EXCEPT ![Slot] = x]
      \/ staged' = [s \in Slots |-> None]
  BY DEF Next, vars, Invoke, ParseOption, ArchOptions, Unload, Load, LoadFails, LoadDies,
     Shutdown, Sync, IfdownStarts, IfdownVisits, IfdownEnds, Exec, ExecFails, Panic, JumpTo,
     Purgatory, Wait, Boot
<1> QED
  BY <1>1 DEF SlotsInv

LEMMA CommandInvariant == Spec => []CommandInv
<1>1. Init => CommandInv
  <2> SUFFICES ASSUME Init PROVE CommandInv
    OBVIOUS
  <2>1. FlagsInv
    <3>0. parsed = 0
      BY DEF Init
    <3>1. ~LastRead(parsed, {}, {"p"})
      BY <3>0 DEF LastRead
    <3>2. opts = <<>> /\ parsed = 0 /\ flags = Defaults
      BY DEF Init
    <3>3. opts \in Seq(Option) /\ parsed \in 0..Len(opts)
      BY <3>2
    <3>4. flags \in Flags /\ ~flags.exec /\ ~flags.crash
      BY <3>2 DEF Defaults, Flags
    <3> QED
      BY <3>1, <3>2, <3>3, <3>4 DEF FlagsInv
  <2>2. ActInv
    BY DEF Init, ActInv, Acting, Left
  <2>3. SlotsInv
    BY DEF Init, SlotsInv
  <2> QED
    BY <2>1, <2>2, <2>3 DEF CommandInv
<1>2. CommandInv /\ [Next]_vars => CommandInv'
  <2> SUFFICES ASSUME CommandInv, [Next]_vars PROVE CommandInv'
    OBVIOUS
  <2>1. FlagsInv' /\ SlotsInv'
    BY FlagsNext, SlotsNext DEF CommandInv
  <2>2. ActInv'
    BY ActParse, ActArch, ActUnload, ActLoad, ActShutdown, ActSync, ActIfdownStarts,
       ActIfdownVisits, ActIfdownEnds, ActExec, ActExecFails, ActPanic, ActPurgatory,
       ActPrompt, ActStutter DEF Next
  <2> QED
    BY <2>1, <2>2 DEF CommandInv
<1> QED
  BY <1>1, <1>2, PTL DEF Spec

(* main: whatever the command line and however ifdown goes, kexec jumps    *)
(* with the disks synced and the listed interfaces down, unless an option  *)
(* that came last took that back.                                          *)
THEOREM JumpsPrepared == Spec => []JumpPrepared
<1>1. CommandInv => JumpPrepared
  BY DEF CommandInv, ActInv, JumpPrepared
<1> QED
  BY <1>1, CommandInvariant, PTL

(* main and my_load: a command that was to load a file and returns 0 has   *)
(* staged it in the slot -p or its absence names.                          *)
THEOREM SuccessIsStaged == Spec => []StatusTells
<1>1. CommandInv => StatusTells
  <2> SUFFICES ASSUME CommandInv, pc = "ended" /\ result = 0 /\ flags.load,
                      ~LastOf({}, {"h"})
               PROVE  LET slot == IF LastOf({}, {"p"}) THEN "crash" ELSE "default"
                      IN kernel # None /\ staged[slot].name = kernel.name
    BY DEF StatusTells
  <2>1. opts \in Seq(Option)
    BY DEF CommandInv, FlagsInv
  <2>2. ~HelpAsked
    BY <2>1, LastOfRead DEF HelpAsked
  <2>3. parsed = Len(opts) /\ Loaded
    BY <2>2 DEF CommandInv, ActInv
  <2>4. flags.crash <=> LastOf({}, {"p"})
    BY <2>1, <2>3, LastOfRead DEF CommandInv, FlagsInv
  <2> QED
    BY <2>3, <2>4 DEF Loaded, Slot
<1> QED
  BY <1>1, CommandInvariant, PTL

-----------------------------------------------------------------------------
(* Induction, over sets of numbers, and FlattenSeq *)

LEMMA Least ==
  ASSUME NEW T, T \subseteq Nat, T # {}
  PROVE  \E x \in T : \A y \in T : x <= y
<1>1. IsWellFoundedOn(OpToRel(<, Nat), Nat)
  BY NatLessThanWellFounded
<1>2. PICK x \in T : \A y \in T : ~(<<y, x>> \in OpToRel(<, Nat))
  BY <1>1, WFMin
<1>3. \A y \in T : ~(y < x)
  BY <1>2 DEF OpToRel
<1> QED
  BY <1>3

LEMMA UpTo ==
  ASSUME NEW n \in Nat, NEW T, 0 \in T, \A i \in 0..n - 1 : i \in T => i + 1 \in T
  PROVE  n \in T
<1> DEFINE U == {i \in 0..n : i \notin T}
<1>1. SUFFICES ASSUME U # {} PROVE FALSE
  <2>1. n \in 0..n
    OBVIOUS
  <2> QED
    BY <2>1
<1>2. U \subseteq Nat
  OBVIOUS
<1>3. PICK x \in U : \A y \in U : x <= y
  <2> HIDE DEF U
  <2> QED
    BY <1>1, <1>2, Least
<1>4. x # 0 /\ x - 1 \in 0..n - 1
  OBVIOUS
<1>5. x - 1 \in T
  BY <1>3, <1>4
<1> QED
  BY <1>4, <1>5

(* g[i] is the first i of these sequences, one after the other.            *)
Running(g, s, n, S) ==
  /\ g \in [0..n -> Seq(S)] /\ g[0] = <<>>
  /\ \A i \in 0..n - 1 : g[i + 1] = g[i] \o s[i + 1]

LEMMA EmptyIs ==
  ASSUME NEW S, NEW s \in Seq(S), Len(s) = 0
  PROVE  s = <<>>
  OBVIOUS

LEMMA RunningExists ==
  ASSUME NEW S, NEW s, NEW n \in Nat, \A i \in 1..n : s[i] \in Seq(S)
  PROVE  \E g : Running(g, s, n, S)
<1> DEFINE T == {m \in 0..n : \E g : Running(g, s, m, S)}
<1>1. 0 \in T
  <2>1. Running([i \in 0..0 |-> <<>>], s, 0, S)
    BY DEF Running
  <2> QED
    BY <2>1
<1>2. ASSUME NEW m \in 0..n - 1, m \in T PROVE m + 1 \in T
  <2>1. PICK g : Running(g, s, m, S)
    BY <1>2
  <2> DEFINE last == g[m] \o s[m + 1]
             h == [i \in 0..m + 1 |-> IF i <= m THEN g[i] ELSE last]
  <2>2. g \in [0..m -> Seq(S)] /\ g[0] = <<>>
    BY <2>1 DEF Running
  <2>3. last \in Seq(S)
    BY <2>2
  <2>4. \A i \in 0..m - 1 : g[i + 1] = g[i] \o s[i + 1]
    BY <2>1 DEF Running
  <2>5. h \in [0..m + 1 -> Seq(S)] /\ h[0] = <<>>
    <3> HIDE DEF last
    <3> QED
      BY <2>2, <2>3
  <2>6. ASSUME NEW i \in 0..(m + 1) - 1 PROVE h[i + 1] = h[i] \o s[i + 1]
    <3>1. h[i] = g[i]
      OBVIOUS
    <3>2. CASE i = m
      <4>1. h[i + 1] = last
        BY <3>2
      <4> QED
        BY <3>1, <3>2, <4>1, Zenon
    <3>3. CASE i # m
      <4>1. i \in 0..m - 1 /\ h[i + 1] = g[i + 1]
        BY <3>3
      <4> QED
        BY <2>4, <3>1, <4>1, Zenon
    <3> QED
      BY <3>2, <3>3
  <2>7. Running(h, s, m + 1, S)
    <3> HIDE DEF h
    <3> QED
      BY <2>5, <2>6, Zenon DEF Running
  <2> HIDE DEF h
  <2> QED
    BY <2>7
<1>3. n \in T
  <2>1. \A m \in 0..n - 1 : m \in T => m + 1 \in T
    BY <1>2
  <2> HIDE DEF T
  <2> QED
    BY <1>1, <2>1, UpTo, Zenon
<1> QED
  BY <1>3

(* FlattenSeq computes them.                                               *)
LEMMA FlattenIs ==
  ASSUME NEW S, NEW s \in Seq(Seq(S)), NEW n, n = Len(s), NEW g, Running(g, s, n, S)
  PROVE  FlattenSeq(s) = g[n]
<1> DEFINE G(f) == [i \in 1..n |-> IF i = 1 THEN s[i] ELSE f[i - 1] \o s[i]]
           g1 == [i \in 1..n |-> g[i]]
<1>0. n \in Nat /\ \A i \in 1..n : s[i] \in Seq(S)
  OBVIOUS
<1>1. /\ g \in [0..n -> Seq(S)] /\ g[0] = <<>>
      /\ \A i \in 0..n - 1 : g[i + 1] = g[i] \o s[i + 1]
  BY Zenon DEF Running
<1>2. CASE n = 0
  <2>1. s = <<>>
    BY <1>2, EmptyIs, Zenon
  <2> QED
    BY <1>1, <1>2, <2>1 DEF FlattenSeq
<1>3. CASE n # 0
  <2>1. g[1] = s[1]
    <3>1. 0 \in 0..n - 1 /\ 1 \in 1..n /\ 0 + 1 = 1
      BY <1>0, <1>3
    <3>2. g[1] = <<>> \o s[1] /\ s[1] \in Seq(S)
      BY <1>0, <1>1, <3>1, Zenon
    <3> QED
      BY <3>2
  <2>2. \A i \in 1..n : i # 1 => g[i] = g[i - 1] \o s[i]
    <3> SUFFICES ASSUME NEW i \in 1..n, i # 1 PROVE g[i] = g[i - 1] \o s[i]
      OBVIOUS
    <3>1. i - 1 \in 0..n - 1 /\ (i - 1) + 1 = i
      BY <1>0
    <3> QED
      BY <1>1, <3>1, Zenon
  <2>3. g1 = G(g1)
    <3>1. ASSUME NEW i \in 1..n
          PROVE  g1[i] = IF i = 1 THEN s[i] ELSE g1[i - 1] \o s[i]
      <4>1. g1[i] = g[i] /\ (i # 1 => g1[i - 1] = g[i - 1])
        BY <1>0
      <4> QED
        BY <2>1, <2>2, <4>1, Zenon
    <3> HIDE DEF g1
    <3>2. g1 = [i \in 1..n |-> g1[i]]
      BY DEF g1
    <3> QED
      BY <3>1, <3>2, Zenon
  <2>4. PICK f : f = G(f) /\ FlattenSeq(s) = f[n]
    BY <1>3, <2>3, Zenon DEF FlattenSeq
  <2>5. \A i \in 1..n : f[i] = IF i = 1 THEN s[i] ELSE f[i - 1] \o s[i]
    BY <2>4
  <2> HIDE DEF G, g1
  <2> DEFINE U == {i \in 0..n : i # 0 => f[i] = g[i]}
  <2>6. ASSUME NEW i \in 0..n - 1, i \in U PROVE i + 1 \in U
    <3>0. i + 1 \in 1..n /\ i + 1 \in 0..n /\ (i + 1) - 1 = i /\ (i # 0 => i + 1 # 1)
      BY <1>0
    <3>1. f[i + 1] = g[i + 1]
      <4>1. CASE i = 0
        <5>1. i + 1 = 1
          BY <4>1
        <5> QED
          BY <2>1, <2>5, <3>0, <5>1, Zenon
      <4>2. CASE i # 0
        <5>1. f[i + 1] = f[i] \o s[i + 1]
          BY <2>5, <3>0, <4>2, Zenon
        <5> QED
          BY <1>1, <2>6, <4>2, <5>1, Zenon
      <4> QED
        BY <4>1, <4>2
    <3> QED
      BY <3>0, <3>1, Zenon
  <2>7. 0 \in U
    BY <1>0
  <2>8. n \in U
    <3> HIDE DEF U
    <3>1. \A i \in 0..n - 1 : i \in U => i + 1 \in U
      BY <2>6
    <3> QED
      BY <1>0, <2>7, <3>1, UpTo, Zenon
  <2> QED
    BY <1>3, <2>4, <2>8
<1> QED
  BY <1>2, <1>3

(* Sequences by their prefixes.                                            *)
LEMMA PrefixFacts ==
  ASSUME NEW S, NEW s \in Seq(S)
  PROVE  /\ Len(s) \in Nat /\ SubSeq(s, 1, 0) = <<>> /\ SubSeq(s, 1, Len(s)) = s
         /\ \A i \in 0..Len(s) : SubSeq(s, 1, i) \in Seq(S)
         /\ \A i \in 0..Len(s) - 1 :
              s[i + 1] \in S /\ SubSeq(s, 1, i + 1) = Append(SubSeq(s, 1, i), s[i + 1])
  OBVIOUS

LEMMA FlattenType ==
  ASSUME NEW S, NEW s \in Seq(Seq(S))
  PROVE  FlattenSeq(s) \in Seq(S)
<1>1. Len(s) \in Nat /\ \A i \in 1..Len(s) : s[i] \in Seq(S)
  OBVIOUS
<1>2. PICK g : Running(g, s, Len(s), S)
  BY <1>1, RunningExists
<1>3. FlattenSeq(s) = g[Len(s)]
  BY <1>2, FlattenIs, Zenon
<1>4. g \in [0..Len(s) -> Seq(S)]
  BY <1>2 DEF Running
<1>5. Len(s) \in 0..Len(s)
  BY <1>1
<1> QED
  BY <1>3, <1>4, <1>5, Zenon

LEMMA FlattenEmpty == FlattenSeq(<<>>) = <<>>
  BY DEF FlattenSeq

LEMMA FlattenAppend ==
  ASSUME NEW S, NEW s \in Seq(Seq(S)), NEW x \in Seq(S)
  PROVE  FlattenSeq(Append(s, x)) = FlattenSeq(s) \o x
<1> DEFINE t == Append(s, x)
           n == Len(s)
<1>1. /\ n \in Nat /\ t \in Seq(Seq(S)) /\ Len(t) = n + 1
      /\ \A i \in 1..n : t[i] = s[i]
      /\ t[n + 1] = x
  OBVIOUS
<1>2. \A i \in 1..Len(t) : t[i] \in Seq(S)
  <2> HIDE DEF t
  <2> QED
    BY <1>1
<1>3. PICK g : Running(g, t, Len(t), S)
  <2> HIDE DEF t
  <2>1. Len(t) \in Nat
    BY <1>1
  <2> QED
    BY <2>1, <1>2, RunningExists, Zenon
<1>4. FlattenSeq(t) = g[Len(t)]
  <2> HIDE DEF t
  <2> QED
    BY <1>1, <1>3, FlattenIs, Zenon
<1> DEFINE h == [i \in 0..n |-> g[i]]
<1> HIDE DEF t, n
<1>5. /\ g \in [0..n + 1 -> Seq(S)] /\ g[0] = <<>>
      /\ \A i \in 0..(n + 1) - 1 : g[i + 1] = g[i] \o t[i + 1]
  BY <1>1, <1>3, Zenon DEF Running
<1>6. h \in [0..n -> Seq(S)] /\ h[0] = <<>>
  BY <1>1, <1>5
<1>7. ASSUME NEW i \in 0..n - 1 PROVE h[i + 1] = h[i] \o s[i + 1]
  <2>1. i \in 0..(n + 1) - 1 /\ i + 1 \in 1..n
    BY <1>1
  <2>2. h[i + 1] = g[i + 1] /\ h[i] = g[i]
    BY <1>1
  <2>3. g[i + 1] = g[i] \o t[i + 1] /\ t[i + 1] = s[i + 1]
    BY <1>1, <1>5, <2>1, Zenon
  <2> QED
    BY <2>2, <2>3, Zenon
<1>8. h[n] = g[n]
  BY <1>1
<1> HIDE DEF h
<1>9. FlattenSeq(s) = h[n]
  <2>1. Running(h, s, n, S)
    BY <1>6, <1>7, Zenon DEF Running
  <2>2. n = Len(s)
    BY DEF n
  <2> QED
    BY <2>1, <2>2, FlattenIs, Zenon
<1>10. g[n + 1] = g[n] \o x
  <2>1. n \in 0..(n + 1) - 1
    BY <1>1
  <2> QED
    BY <2>1, <1>1, <1>5, Zenon
<1> QED
  BY <1>1, <1>4, <1>8, <1>9, <1>10, Zenon DEF t

LEMMA ConcatAssoc ==
  ASSUME NEW S, NEW a \in Seq(S), NEW b \in Seq(S), NEW c \in Seq(S)
  PROVE  (a \o b) \o c = a \o (b \o c)
  OBVIOUS

LEMMA ConcatAppend ==
  ASSUME NEW S, NEW a \in Seq(S), NEW b \in Seq(S), NEW x \in S
  PROVE  a \o Append(b, x) = Append(a \o b, x) /\ a \o b \in Seq(S)
  OBVIOUS

LEMMA FlattenConcat ==
  ASSUME NEW S, NEW a \in Seq(Seq(S)), NEW b \in Seq(Seq(S))
  PROVE  FlattenSeq(a \o b) = FlattenSeq(a) \o FlattenSeq(b)
<1> DEFINE n == Len(b)
           p(i) == SubSeq(b, 1, i)
           T == {i \in 0..n : FlattenSeq(a \o p(i)) = FlattenSeq(a) \o FlattenSeq(p(i))}
<1>1. /\ n \in Nat /\ p(0) = <<>> /\ p(n) = b
      /\ \A i \in 0..n : p(i) \in Seq(Seq(S))
      /\ \A i \in 0..n - 1 : b[i + 1] \in Seq(S) /\ p(i + 1) = Append(p(i), b[i + 1])
  BY PrefixFacts, Zenon
<1> HIDE DEF n, p
<1>2. FlattenSeq(a) \in Seq(S)
  BY FlattenType, Zenon
<1>3. 0 \in T
  <2>1. a \o p(0) = a
    BY <1>1
  <2>2. FlattenSeq(a) \o FlattenSeq(p(0)) = FlattenSeq(a)
    <3>1. FlattenSeq(p(0)) = <<>>
      BY <1>1, FlattenEmpty, Zenon
    <3> QED
      BY <1>2, <3>1
  <2>3. 0 \in 0..n
    BY <1>1
  <2> QED
    BY <2>1, <2>2, <2>3, Zenon
<1>4. ASSUME NEW i \in 0..n - 1, i \in T PROVE i + 1 \in T
  <2>1. i \in 0..n /\ i + 1 \in 0..n
    BY <1>1
  <2>2. p(i) \in Seq(Seq(S)) /\ b[i + 1] \in Seq(S) /\ p(i + 1) = Append(p(i), b[i + 1])
    BY <1>1, <2>1, Zenon
  <2>3. a \o p(i + 1) = Append(a \o p(i), b[i + 1]) /\ a \o p(i) \in Seq(Seq(S))
    <3>1. \A x, y \in Seq(Seq(S)), z \in Seq(S) :
            x \o Append(y, z) = Append(x \o y, z) /\ x \o y \in Seq(Seq(S))
      BY ConcatAppend
    <3>2. /\ a \o Append(p(i), b[i + 1]) = Append(a \o p(i), b[i + 1])
          /\ a \o p(i) \in Seq(Seq(S))
      BY <2>2, <3>1, Zenon
    <3> QED
      BY <2>2, <3>2, Zenon
  <2>4. FlattenSeq(a \o p(i + 1)) = FlattenSeq(a \o p(i)) \o b[i + 1]
    BY <2>2, <2>3, FlattenAppend, Zenon
  <2>5. FlattenSeq(p(i + 1)) = FlattenSeq(p(i)) \o b[i + 1]
    BY <2>2, FlattenAppend, Zenon
  <2>6. FlattenSeq(p(i)) \in Seq(S)
    BY <2>2, FlattenType, Zenon
  <2>7. (FlattenSeq(a) \o FlattenSeq(p(i))) \o b[i + 1]
        = FlattenSeq(a) \o (FlattenSeq(p(i)) \o b[i + 1])
    <3>1. \A x, y, z \in Seq(S) : (x \o y) \o z = x \o (y \o z)
      BY ConcatAssoc
    <3> QED
      BY <1>2, <2>2, <2>6, <3>1, Zenon
  <2>8. FlattenSeq(a \o p(i)) = FlattenSeq(a) \o FlattenSeq(p(i))
    BY <1>4
  <2>9. FlattenSeq(a \o p(i + 1)) = FlattenSeq(a) \o FlattenSeq(p(i + 1))
    BY <2>4, <2>5, <2>7, <2>8, Zenon
  <2> QED
    BY <2>1, <2>9, Zenon
<1>5. n \in T
  <2>1. \A i \in 0..n - 1 : i \in T => i + 1 \in T
    BY <1>4
  <2> HIDE DEF T
  <2> QED
    BY <1>1, <1>3, <2>1, UpTo, Zenon
<1> QED
  BY <1>1, <1>5, Zenon

(* Flattening twice, or once when the inner lists are flattened already.   *)
LEMMA FlattenTwice ==
  ASSUME NEW S, NEW a \in Seq(Seq(Seq(S))), NEW b \in Seq(Seq(S)), Len(b) = Len(a),
         \A i \in 1..Len(a) : b[i] = FlattenSeq(a[i])
  PROVE  FlattenSeq(FlattenSeq(a)) = FlattenSeq(b)
<1> DEFINE n == Len(a)
           p(i) == SubSeq(a, 1, i)
           q(i) == SubSeq(b, 1, i)
           T == {i \in 0..n : FlattenSeq(FlattenSeq(p(i))) = FlattenSeq(q(i))}
<1>1. /\ n \in Nat /\ p(0) = <<>> /\ p(n) = a
      /\ \A i \in 0..n : p(i) \in Seq(Seq(Seq(S)))
      /\ \A i \in 0..n - 1 : a[i + 1] \in Seq(Seq(S)) /\ p(i + 1) = Append(p(i), a[i + 1])
  BY PrefixFacts, Zenon
<1>2. /\ q(0) = <<>> /\ q(n) = b
      /\ \A i \in 0..n : q(i) \in Seq(Seq(S))
      /\ \A i \in 0..n - 1 : b[i + 1] \in Seq(S) /\ q(i + 1) = Append(q(i), b[i + 1])
  <2>1. /\ SubSeq(b, 1, 0) = <<>> /\ SubSeq(b, 1, Len(b)) = b
        /\ \A i \in 0..Len(b) : SubSeq(b, 1, i) \in Seq(Seq(S))
        /\ \A i \in 0..Len(b) - 1 :
             b[i + 1] \in Seq(S) /\ SubSeq(b, 1, i + 1) = Append(SubSeq(b, 1, i), b[i + 1])
    BY PrefixFacts, Zenon
  <2>2. Len(b) = n
    OBVIOUS
  <2> HIDE DEF n
  <2> QED
    BY <2>1, <2>2, Zenon
<1>21. \A i \in 1..n : b[i] = FlattenSeq(a[i])
  BY Zenon
<1> HIDE DEF n, p, q
<1>3. 0 \in T
  <2>1. 0 \in 0..n
    BY <1>1
  <2> QED
    BY <1>1, <1>2, <2>1, FlattenEmpty, Zenon
<1>4. ASSUME NEW i \in 0..n - 1, i \in T PROVE i + 1 \in T
  <2>1. i \in 0..n /\ i + 1 \in 0..n /\ i + 1 \in 1..n
    BY <1>1
  <2>2. /\ p(i) \in Seq(Seq(Seq(S))) /\ a[i + 1] \in Seq(Seq(S))
        /\ p(i + 1) = Append(p(i), a[i + 1])
        /\ q(i) \in Seq(Seq(S)) /\ b[i + 1] \in Seq(S) /\ q(i + 1) = Append(q(i), b[i + 1])
        /\ b[i + 1] = FlattenSeq(a[i + 1])
    BY <1>1, <1>2, <1>21, <2>1, Zenon
  <2>3. FlattenSeq(p(i + 1)) = FlattenSeq(p(i)) \o a[i + 1]
    BY <2>2, FlattenAppend, Zenon
  <2>4. FlattenSeq(p(i)) \in Seq(Seq(S))
    BY <2>2, FlattenType, Zenon
  <2>5. FlattenSeq(FlattenSeq(p(i + 1)))
        = FlattenSeq(FlattenSeq(p(i))) \o FlattenSeq(a[i + 1])
    BY <2>2, <2>3, <2>4, FlattenConcat, Zenon
  <2>6. FlattenSeq(q(i + 1)) = FlattenSeq(q(i)) \o b[i + 1]
    BY <2>2, FlattenAppend, Zenon
  <2>7. FlattenSeq(FlattenSeq(p(i))) = FlattenSeq(q(i))
    BY <1>4
  <2>8. FlattenSeq(FlattenSeq(p(i + 1))) = FlattenSeq(q(i + 1))
    BY <2>2, <2>5, <2>6, <2>7, Zenon
  <2> QED
    BY <2>1, <2>8, Zenon
<1>5. n \in T
  <2>1. \A i \in 0..n - 1 : i \in T => i + 1 \in T
    BY <1>4
  <2> HIDE DEF T
  <2> QED
    BY <1>1, <1>3, <2>1, UpTo, Zenon
<1> QED
  BY <1>1, <1>2, <1>5, Zenon

-----------------------------------------------------------------------------
(* sha256_update and sha256_finish *)

(* The message m has been cut into these blocks, and its last r bytes are  *)
(* in the buffer.                                                          *)
Held(blocks, buffer, r, m, S) ==
  /\ m \in Seq(S) /\ blocks \in Seq(Seq(S)) /\ buffer \in [1..Block -> S] /\ r \in 0..Block
  /\ Len(m) = Len(blocks) * Block + r
  /\ \A b \in 1..Len(blocks) :
       /\ Len(blocks[b]) = Block
       /\ \A i \in 1..Block : blocks[b][i] = m[(b - 1) * Block + i]
  /\ \A i \in 1..r : buffer[i] = m[Len(blocks) * Block + i]

LEMMA BlockBound ==
  ASSUME NEW q \in Nat, NEW b \in 1..q, NEW i \in 1..Block
  PROVE  (b - 1) * Block + i \in 1..q * Block /\ q * Block \in Nat
<1>1. Block \in Nat
  BY ShaAssumption
<1>2. /\ (b - 1) * Block \in Nat /\ q * Block \in Nat /\ (q - b) * Block \in Nat
  BY <1>1
<1>3. q * Block = (b - 1) * Block + Block + (q - b) * Block
  BY <1>1
<1> QED
  BY <1>1, <1>2, <1>3

LEMMA ConcatAt ==
  ASSUME NEW S, NEW m \in Seq(S), NEW x \in Seq(S)
  PROVE  /\ m \o x \in Seq(S) /\ Len(m \o x) = Len(m) + Len(x)
         /\ Len(m) \in Nat /\ Len(x) \in Nat
         /\ \A i \in 1..Len(m) : (m \o x)[i] = m[i]
         /\ \A i \in 1..Len(x) : (m \o x)[Len(m) + i] = x[i]
  OBVIOUS

(* memcpy behind what the buffer holds.                                    *)
LEMMA ToppedUp ==
  ASSUME NEW S, NEW blocks, NEW buffer, NEW r, NEW m, Held(blocks, buffer, r, m, S),
         NEW x \in Seq(S), r + Len(x) <= Block
  PROVE  Held(blocks, Overwritten(buffer, r, x), r + Len(x), m \o x, S)
<1> DEFINE q == Len(blocks)
           w == q * Block
           new == Overwritten(buffer, r, x)
           mx == m \o x
<1>1. Block \in Nat /\ q \in Nat /\ w \in Nat
  BY ShaAssumption DEF Held
<1>2. /\ m \in Seq(S) /\ blocks \in Seq(Seq(S)) /\ buffer \in [1..Block -> S] /\ r \in 0..Block
      /\ Len(m) = w + r
  BY DEF Held
<1>21. m \in Seq(S)
  BY DEF Held
<1>3. /\ mx \in Seq(S) /\ Len(mx) = Len(m) + Len(x) /\ Len(x) \in Nat
      /\ \A i \in 1..Len(m) : mx[i] = m[i]
      /\ \A i \in 1..Len(x) : mx[Len(m) + i] = x[i]
  BY <1>21, ConcatAt
<1>4. new \in [1..Block -> S] /\ r + Len(x) \in 0..Block
  BY <1>1, <1>2, <1>3 DEF Overwritten
<1>5. ASSUME NEW b \in 1..q
      PROVE  /\ Len(blocks[b]) = Block
             /\ \A i \in 1..Block : blocks[b][i] = mx[(b - 1) * Block + i]
  <2>1. Len(blocks[b]) = Block /\ \A i \in 1..Block : blocks[b][i] = m[(b - 1) * Block + i]
    BY DEF Held
  <2>2. ASSUME NEW i \in 1..Block PROVE blocks[b][i] = mx[(b - 1) * Block + i]
    <3> DEFINE j == (b - 1) * Block + i
    <3>1. j \in 1..w
      BY <1>1, BlockBound
    <3>2. blocks[b][i] = m[j]
      BY <2>1, Zenon
    <3> HIDE DEF j, w, mx
    <3>3. j \in 1..Len(m)
      BY <1>1, <1>2, <3>1
    <3> QED
      BY <1>3, <3>2, <3>3, Zenon DEF j
  <2> QED
    BY <2>1, <2>2, Zenon
<1>6. ASSUME NEW i \in 1..r + Len(x) PROVE new[i] = mx[w + i]
  <2>0. i \in 1..Block /\ (i <= r \/ i > r)
    <3> HIDE DEF w, mx, new
    <3> QED
      BY <1>1, <1>2, <1>3
  <2>1. CASE i <= r
    <3>1. new[i] = buffer[i]
      BY <1>2, <2>0, <2>1 DEF Overwritten
    <3>2. i \in 1..r
      BY <1>2, <2>1
    <3>3. buffer[i] = m[w + i]
      BY <3>2, Zenon DEF Held
    <3> HIDE DEF w, mx, new
    <3>4. w + i \in 1..Len(m)
      BY <1>1, <1>2, <3>2
    <3> QED
      BY <1>3, <3>1, <3>3, <3>4, Zenon
  <2>2. CASE i > r
    <3> HIDE DEF w, mx
    <3>1. i - r \in 1..Len(x) /\ w + i = Len(m) + (i - r)
      BY <1>1, <1>2, <1>3, <2>2
    <3>2. new[i] = x[i - r]
      BY <1>2, <1>3, <2>0, <2>2, <3>1 DEF Overwritten
    <3> QED
      BY <1>3, <3>1, <3>2, Zenon
  <2> QED
    BY <2>0, <2>1, <2>2, Zenon
<1>7. Len(mx) = w + (r + Len(x))
  <2> HIDE DEF w, mx
  <2> QED
    BY <1>1, <1>2, <1>3
<1> QED
  <2> HIDE DEF new, mx
  <2>1. Held(blocks, new, r + Len(x), mx, S)
    BY <1>2, <1>3, <1>4, <1>5, <1>6, <1>7, Zenon DEF Held
  <2> QED
    BY <2>1 DEF new, mx

(* sha256_process on a full buffer.                                        *)
LEMMA Flushed ==
  ASSUME NEW S, NEW blocks, NEW buffer, NEW m, Held(blocks, buffer, Block, m, S)
  PROVE  Held(blocks \o <<buffer>>, buffer, 0, m, S)
<1> DEFINE q == Len(blocks)
           more == blocks \o <<buffer>>
<1>1. Block \in Nat /\ q \in Nat /\ q * Block \in Nat
  BY ShaAssumption DEF Held
<1>2. /\ m \in Seq(S) /\ blocks \in Seq(Seq(S)) /\ buffer \in [1..Block -> S]
      /\ Len(m) = q * Block + Block
  BY DEF Held
<1>3. buffer \in Seq(S) /\ Len(buffer) = Block
  BY <1>1, <1>2
<1>4. /\ more \in Seq(Seq(S)) /\ Len(more) = q + 1
      /\ \A b \in 1..q : more[b] = blocks[b]
      /\ more[q + 1] = buffer
  BY <1>2, <1>3
<1> HIDE DEF more
<1>5. Len(m) = Len(more) * Block + 0
  BY <1>1, <1>2, <1>4
<1>6. ASSUME NEW b \in 1..Len(more)
      PROVE  /\ Len(more[b]) = Block
             /\ \A i \in 1..Block : more[b][i] = m[(b - 1) * Block + i]
  <2>0. b \in 1..q \/ (b = q + 1 /\ b - 1 = q)
    BY <1>1, <1>4
  <2>1. CASE b \in 1..q
    BY <1>4, <2>1, ZenonT(30) DEF Held
  <2>2. CASE b = q + 1 /\ b - 1 = q
    <3>1. \A i \in 1..Block : buffer[i] = m[q * Block + i]
      BY DEF Held
    <3> QED
      BY <1>3, <1>4, <2>2, <3>1, Zenon
  <2> QED
    BY <2>0, <2>1, <2>2, Zenon
<1>7. 0 \in 0..Block /\ \A i \in 1..0 : buffer[i] = m[Len(more) * Block + i]
  BY <1>1
<1>8. Held(more, buffer, 0, m, S)
  BY <1>2, <1>4, <1>5, <1>6, <1>7, Zenon DEF Held
<1> QED
  BY <1>8 DEF more

LEMMA SubSeqAt ==
  ASSUME NEW S, NEW x \in Seq(S), NEW i \in 1..Len(x) + 1, NEW j \in i - 1..Len(x)
  PROVE  /\ SubSeq(x, i, j) \in Seq(S) /\ Len(SubSeq(x, i, j)) = j - i + 1
         /\ \A k \in 1..j - i + 1 : SubSeq(x, i, j)[k] = x[i + k - 1]
  OBVIOUS

(* sha256_process on block after block of the input.                       *)
LEMMA BodyHashed ==
  ASSUME NEW S, NEW blocks, NEW buffer, NEW m, Held(blocks, buffer, 0, m, S),
         NEW x \in Seq(S), NEW n \in Nat, n * Block <= Len(x)
  PROVE  Held(blocks \o [i \in 1..n |-> SubSeq(x, (i - 1) * Block + 1, i * Block)],
              buffer, 0, m \o SubSeq(x, 1, n * Block), S)
<1> DEFINE q == Len(blocks)
           body == [i \in 1..n |-> SubSeq(x, (i - 1) * Block + 1, i * Block)]
           more == blocks \o body
           y == SubSeq(x, 1, n * Block)
           my == m \o y
<1>1. Block \in Nat /\ q \in Nat /\ q * Block \in Nat /\ n * Block \in Nat /\ Len(x) \in Nat
  BY ShaAssumption DEF Held
<1>2. /\ m \in Seq(S) /\ blocks \in Seq(Seq(S)) /\ buffer \in [1..Block -> S]
      /\ Len(m) = q * Block
  BY <1>1 DEF Held
<1>3. /\ y \in Seq(S) /\ Len(y) = n * Block
      /\ \A k \in 1..n * Block : y[k] = x[k]
  BY <1>1
<1>4. ASSUME NEW i \in 1..n
      PROVE  /\ body[i] \in Seq(S) /\ Len(body[i]) = Block
             /\ \A k \in 1..Block : body[i][k] = x[(i - 1) * Block + k]
  <2> DEFINE f == (i - 1) * Block
             l == i * Block
  <2>1. f \in Nat /\ l = f + Block /\ l <= n * Block
    <3>1. f \in Nat /\ l = f + Block
      BY <1>1
    <3>2. (n - i) * Block \in Nat /\ n * Block = l + (n - i) * Block
      BY <1>1
    <3> HIDE DEF f, l
    <3> QED
      BY <1>1, <3>1, <3>2
  <2>2. body[i] = SubSeq(x, f + 1, l)
    OBVIOUS
  <2> HIDE DEF body, f, l
  <2>3. f + 1 \in 1..Len(x) + 1 /\ l \in (f + 1) - 1..Len(x) /\ l - (f + 1) + 1 = Block
    BY <1>1, <2>1
  <2>4. /\ body[i] \in Seq(S) /\ Len(body[i]) = Block
        /\ \A k \in 1..Block : body[i][k] = x[(f + 1) + k - 1]
    BY <2>2, <2>3, SubSeqAt, ZenonT(30)
  <2>5. \A k \in 1..Block : (f + 1) + k - 1 = f + k
    BY <2>1
  <2> QED
    BY <2>4, <2>5, Zenon DEF f
<1>5. body \in Seq(Seq(S)) /\ Len(body) = n
  <2>1. body \in [1..n -> Seq(S)]
    <3>1. body = [i \in 1..n |-> body[i]]
      BY Zenon
    <3> HIDE DEF body
    <3> QED
      BY <1>4, <3>1, Zenon
  <2> HIDE DEF body
  <2> QED
    BY <2>1
<1> HIDE DEF body, y
<1>6. /\ more \in Seq(Seq(S)) /\ Len(more) = q + n
      /\ \A b \in 1..q : more[b] = blocks[b]
      /\ \A b \in q + 1..q + n : more[b] = body[b - q]
  BY <1>2, <1>5
<1>7. /\ my \in Seq(S) /\ Len(my) = Len(m) + Len(y)
      /\ \A i \in 1..Len(m) : my[i] = m[i]
      /\ \A i \in 1..Len(y) : my[Len(m) + i] = y[i]
  <2>1. m \in Seq(S) /\ y \in Seq(S)
    BY <1>2, <1>3
  <2> QED
    BY <2>1, ConcatAt
<1> HIDE DEF more, my
<1>8. Len(my) = Len(more) * Block + 0
  <2>1. (q + n) * Block = q * Block + n * Block
    BY <1>1
  <2> QED
    BY <1>1, <1>2, <1>3, <1>6, <1>7, <2>1
<1>9. ASSUME NEW b \in 1..Len(more)
      PROVE  /\ Len(more[b]) = Block
             /\ \A i \in 1..Block : more[b][i] = my[(b - 1) * Block + i]
  <2>0. b \in 1..q \/ (b \in q + 1..q + n /\ b - q \in 1..n)
    BY <1>1, <1>6
  <2>1. CASE b \in 1..q
    <3>1. /\ more[b] = blocks[b] /\ Len(blocks[b]) = Block
          /\ \A i \in 1..Block : blocks[b][i] = m[(b - 1) * Block + i]
      BY <1>6, <2>1, Zenon DEF Held
    <3>2. \A i \in 1..Block : (b - 1) * Block + i \in 1..Len(m)
      BY <1>1, <1>2, <2>1, BlockBound
    <3> QED
      BY <1>7, <3>1, <3>2, Zenon
  <2>2. CASE b \in q + 1..q + n /\ b - q \in 1..n
    <3>1. more[b] = body[b - q]
      BY <1>6, <2>2, Zenon
    <3>2. /\ Len(more[b]) = Block
          /\ \A k \in 1..Block : more[b][k] = x[((b - q) - 1) * Block + k]
      BY <1>4, <2>2, <3>1, Zenon
    <3>3. ASSUME NEW i \in 1..Block PROVE more[b][i] = my[(b - 1) * Block + i]
      <4> DEFINE k == ((b - q) - 1) * Block + i
      <4>1. k \in 1..n * Block
        BY <2>2, BlockBound
      <4>2. (b - 1) * Block + i = q * Block + k
        BY <1>1, <2>2
      <4>3. more[b][i] = x[k]
        BY <3>2, Zenon
      <4> HIDE DEF k
      <4>4. y[k] = x[k] /\ my[Len(m) + k] = y[k]
        BY <1>3, <1>7, <4>1, Zenon
      <4> QED
        BY <1>2, <4>2, <4>3, <4>4, Zenon
    <3> QED
      BY <3>2, <3>3, Zenon
  <2> QED
    BY <2>0, <2>1, <2>2, Zenon
<1>10. 0 \in 0..Block /\ \A i \in 1..0 : buffer[i] = my[Len(more) * Block + i]
  BY <1>1
<1>11. Held(more, buffer, 0, my, S)
  BY <1>2, <1>6, <1>7, <1>8, <1>9, <1>10, Zenon DEF Held
<1> QED
  BY <1>11 DEF more, my, body, y

LEMMA DivMod ==
  ASSUME NEW d \in Nat \ {0}, NEW q \in Int, NEW r \in 0..d - 1
  PROVE  (q * d + r) % d = r /\ (q * d + r) \div d = q
<1> DEFINE a == q * d + r
           e == a \div d
           s == a % d
<1>1. a \in Int /\ e \in Int /\ s \in 0..d - 1 /\ a = d * e + s
  OBVIOUS
<1>2. a = q * d + r /\ d * (q - e) = s - r
  BY <1>1
<1> HIDE DEF a, e, s
<1>3. q - e = 0
  <2>1. CASE q - e >= 1
    <3>1. d * (q - e) >= d
      BY <1>1, <2>1
    <3> QED
      BY <1>1, <1>2, <3>1
  <2>2. CASE q - e <= -1
    <3>1. d * (q - e) <= -d
      BY <1>1, <2>2
    <3> QED
      BY <1>1, <1>2, <3>1
  <2> QED
    BY <1>1, <2>1, <2>2
<1>4. e = q /\ s = r
  <2>1. e = q
    BY <1>1, <1>3
  <2> QED
    BY <1>1, <1>2, <2>1
<1> QED
  BY <1>4 DEF a, e, s

LEMMA Divided ==
  ASSUME NEW d \in Nat \ {0}, NEW a \in Nat
  PROVE  a \div d \in Nat /\ a % d \in 0..d - 1 /\ a = (a \div d) * d + (a % d)
  OBVIOUS

(* The context after the message m.                                        *)
IsCtx(c, m, S) ==
  /\ Held(c.blocks, c.buffer, Len(m) - Len(c.blocks) * Block, m, S)
  /\ Len(m) - Len(c.blocks) * Block < Block
  /\ c.total[1] \in 0..TotalWord - 1 /\ c.total[2] \in Nat
  /\ c.total[2] * TotalWord + c.total[1] = Len(m)

LEMMA LeftIs ==
  ASSUME NEW S, NEW c, NEW m, IsCtx(c, m, S)
  PROVE  c.total[1] % Block = Len(m) - Len(c.blocks) * Block
<1> DEFINE q == Len(c.blocks)
           r == Len(m) - q * Block
           k == TotalWord \div Block
           a == c.total[1]
           b == c.total[2]
<1>1. Block \in Nat \ {0} /\ TotalWord \in Nat /\ TotalWord % Block = 0
  BY ShaAssumption
<1>2. k \in Nat /\ TotalWord = k * Block
  BY <1>1, Divided
<1>3. q \in Nat /\ Len(m) \in Nat /\ q * Block \in Nat
  BY <1>1 DEF IsCtx, Held
<1>4. r \in 0..Block - 1 /\ Len(m) = q * Block + r
  <2>1. r \in 0..Block /\ r < Block
    BY DEF IsCtx, Held
  <2> QED
    BY <1>1, <1>3, <2>1
<1>5. a \in Nat /\ b \in Nat /\ b * TotalWord + a = Len(m)
  BY DEF IsCtx
<1> HIDE DEF q, r, k, a, b
<1>6. a = (q - b * k) * Block + r /\ q - b * k \in Int
  <2>1. b * TotalWord = (b * k) * Block
    BY <1>1, <1>2, <1>5
  <2>2. (q - b * k) * Block = q * Block - (b * k) * Block
    BY <1>1, <1>2, <1>3, <1>5
  <2>3. (b * k) * Block \in Nat /\ b * k \in Nat
    BY <1>1, <1>2, <1>5
  <2>4. q - b * k \in Int
    BY <1>3, <2>3
  <2> DEFINE z == (q - b * k) * Block
             p == (b * k) * Block
             w == q * Block
             v == b * TotalWord
  <2>5. /\ v = p /\ z = w - p /\ p \in Nat /\ w \in Nat /\ v + a = Len(m)
        /\ Len(m) = w + r
    BY <1>3, <1>4, <1>5, <2>1, <2>2, <2>3, Zenon
  <2> HIDE DEF z, p, w, v
  <2>6. a = z + r
    BY <1>4, <1>5, <2>5
  <2> QED
    BY <2>4, <2>6 DEF z
<1>7. a % Block = r
  BY <1>1, <1>4, <1>6, DivMod
<1> QED
  BY <1>7 DEF a, r, q

LEMMA CountedIs ==
  ASSUME NEW total, NEW n, NEW length \in 1..TotalWord - 1,
         total[1] \in 0..TotalWord - 1, total[2] \in Nat,
         total[2] * TotalWord + total[1] = n
  PROVE  /\ Counted(total, length)[1] \in 0..TotalWord - 1
         /\ Counted(total, length)[2] \in Nat
         /\ Counted(total, length)[2] * TotalWord + Counted(total, length)[1] = n + length
<1> DEFINE a == total[1]
           b == total[2]
           low == (a + length) % TotalWord
<1>1. TotalWord \in Nat \ {0}
  BY ShaAssumption
<1>2. Counted(total, length) = <<low, IF low < length THEN b + 1 ELSE b>>
  BY DEF Counted
<1>3. a \in 0..TotalWord - 1 /\ b \in Nat /\ b * TotalWord + a = n /\ b * TotalWord \in Nat
  BY <1>1
<1> HIDE DEF a, b
<1>4. CASE a + length < TotalWord
  <2>1. low = a + length
    <3>1. a + length \in 0..TotalWord - 1 /\ a + length = 0 * TotalWord + (a + length)
      BY <1>1, <1>3, <1>4
    <3>2. \A q \in Int, r \in 0..TotalWord - 1 : (q * TotalWord + r) % TotalWord = r
      BY <1>1, DivMod, Zenon
    <3>3. 0 \in Int
      OBVIOUS
    <3> QED
      BY <3>1, <3>2, <3>3, Zenon
  <2> HIDE DEF low
  <2> QED
    BY <1>1, <1>2, <1>3, <1>4, <2>1
<1>5. CASE ~(a + length < TotalWord)
  <2>1. low = a + length - TotalWord
    <3>1. /\ a + length - TotalWord \in 0..TotalWord - 1
          /\ a + length = 1 * TotalWord + (a + length - TotalWord)
      BY <1>1, <1>3, <1>5
    <3>2. \A q \in Int, r \in 0..TotalWord - 1 : (q * TotalWord + r) % TotalWord = r
      BY <1>1, DivMod, Zenon
    <3>3. 1 \in Int
      OBVIOUS
    <3> QED
      BY <3>1, <3>2, <3>3, Zenon
  <2>2. (b + 1) * TotalWord = b * TotalWord + TotalWord
    BY <1>1, <1>3
  <2> HIDE DEF low
  <2> QED
    BY <1>1, <1>2, <1>3, <1>5, <2>1, <2>2
<1> QED
  BY <1>4, <1>5

LEMMA SameSeq ==
  ASSUME NEW S, NEW s \in Seq(S), NEW t \in Seq(S), Len(s) = Len(t),
         \A i \in 1..Len(t) : s[i] = t[i]
  PROVE  s = t
  OBVIOUS

LEMMA PrefixAll ==
  ASSUME NEW S, NEW x \in Seq(S)
  PROVE  SubSeq(x, 0 + 1, Len(x)) = x
  OBVIOUS

LEMMA SplitAt ==
  ASSUME NEW S, NEW x \in Seq(S), NEW n \in 0..Len(x)
  PROVE  /\ SubSeq(x, 1, n) \in Seq(S) /\ Len(SubSeq(x, 1, n)) = n
         /\ SubSeq(x, n + 1, Len(x)) \in Seq(S) /\ Len(SubSeq(x, n + 1, Len(x))) = Len(x) - n
         /\ SubSeq(x, 1, n) \o SubSeq(x, n + 1, Len(x)) = x
<1> DEFINE a == SubSeq(x, 1, n)
           b == SubSeq(x, n + 1, Len(x))
<1>1. /\ Len(x) \in Nat /\ a \in Seq(S) /\ Len(a) = n /\ b \in Seq(S) /\ Len(b) = Len(x) - n
      /\ \A i \in 1..n : a[i] = x[i]
      /\ \A i \in 1..Len(x) - n : b[i] = x[n + i]
  OBVIOUS
<1> HIDE DEF a, b
<1>2. /\ a \o b \in Seq(S) /\ Len(a \o b) = Len(x)
      /\ \A i \in 1..n : (a \o b)[i] = a[i]
      /\ \A i \in 1..Len(x) - n : (a \o b)[n + i] = b[i]
  BY <1>1
<1>3. ASSUME NEW i \in 1..Len(x) PROVE (a \o b)[i] = x[i]
  <2>1. i \in 1..n \/ (i - n \in 1..Len(x) - n /\ n + (i - n) = i)
    BY <1>1
  <2>2. CASE i \in 1..n
    BY <1>1, <1>2, <2>2, Zenon
  <2>3. CASE i - n \in 1..Len(x) - n /\ n + (i - n) = i
    <3>1. (a \o b)[n + (i - n)] = x[n + (i - n)]
      BY <1>1, <1>2, <2>3, Zenon
    <3> QED
      BY <2>3, <3>1, Zenon
  <2> QED
    BY <2>1, <2>2, <2>3
<1>4. a \o b = x
  BY <1>2, <1>3, SameSeq, Zenon
<1> QED
  BY <1>1, <1>4 DEF a, b

(* Whole blocks from the input and the rest into the buffer, once the      *)
(* buffer holds nothing.                                                   *)
LEMMA RestHashed ==
  ASSUME NEW S, NEW blocks, NEW buffer, NEW m, Held(blocks, buffer, 0, m, S),
         NEW rest \in Seq(S)
  PROVE  LET whole == Len(rest) \div Block
             body == [i \in 1..whole |-> SubSeq(rest, (i - 1) * Block + 1, i * Block)]
             tail == SubSeq(rest, whole * Block + 1, Len(rest))
         IN /\ Held(blocks \o body, Overwritten(buffer, 0, tail), Len(tail), m \o rest, S)
            /\ Len(tail) < Block
<1> DEFINE whole == Len(rest) \div Block
           body == [i \in 1..whole |-> SubSeq(rest, (i - 1) * Block + 1, i * Block)]
           head == SubSeq(rest, 1, whole * Block)
           tail == SubSeq(rest, whole * Block + 1, Len(rest))
<1>1. Block \in Nat \ {0} /\ Len(rest) \in Nat /\ m \in Seq(S)
  BY ShaAssumption DEF Held
<1>2. /\ whole \in Nat /\ whole * Block \in 0..Len(rest)
      /\ Len(rest) - whole * Block \in 0..Block - 1
  <2>1. /\ whole \in Nat /\ (Len(rest) % Block) \in 0..Block - 1
        /\ Len(rest) = whole * Block + (Len(rest) % Block)
    BY <1>1, Divided
  <2>2. whole * Block \in Nat
    BY <1>1, <2>1
  <2> DEFINE w == whole * Block
             r == Len(rest) % Block
  <2> HIDE DEF w, r, whole
  <2>3. w \in Nat /\ r \in 0..Block - 1 /\ Len(rest) = w + r
    BY <2>1, <2>2 DEF w, r
  <2>4. w \in 0..Len(rest) /\ Len(rest) - w \in 0..Block - 1
    BY <1>1, <2>3
  <2> QED
    BY <2>1, <2>4 DEF w
<1> HIDE DEF whole
<1>3. /\ head \in Seq(S) /\ tail \in Seq(S) /\ Len(tail) = Len(rest) - whole * Block
      /\ head \o tail = rest
  BY <1>2, SplitAt
<1>4. whole * Block <= Len(rest)
  BY <1>1, <1>2
<1>5. Held(blocks \o body, buffer, 0, m \o head, S)
  BY <1>2, <1>4, BodyHashed, Zenon
<1> HIDE DEF body, head, tail
<1>6. Len(tail) \in Nat /\ Len(tail) < Block /\ 0 + Len(tail) = Len(tail) /\ 0 + Len(tail) <= Block
  BY <1>1, <1>2, <1>3
<1>7. Held(blocks \o body, Overwritten(buffer, 0, tail), 0 + Len(tail), (m \o head) \o tail, S)
  BY <1>3, <1>5, <1>6, ToppedUp, Zenon
<1>8. (m \o head) \o tail = m \o (head \o tail)
  <2>1. m \in Seq(S) /\ head \in Seq(S) /\ tail \in Seq(S)
    BY <1>1, <1>3
  <2> QED
    BY <2>1, ConcatAssoc
<1>9. Held(blocks \o body, Overwritten(buffer, 0, tail), Len(tail), m \o rest, S)
  BY <1>3, <1>6, <1>7, <1>8, Zenon
<1> QED
  BY <1>6, <1>9 DEF body, tail, whole

(* sha256_update adds its input to the message.                            *)
LEMMA UpdateIs ==
  ASSUME NEW S, NEW c, NEW m, IsCtx(c, m, S), NEW x \in Seq(S), Len(x) < TotalWord
  PROVE  IsCtx(Update(c, x), m \o x, S)
<1> DEFINE left == c.total[1] % Block
           fill == Block - left
           filled == left > 0 /\ Len(x) >= fill
           buffer == IF filled THEN Overwritten(c.buffer, left, SubSeq(x, 1, fill)) ELSE c.buffer
           rest == IF filled THEN SubSeq(x, fill + 1, Len(x)) ELSE x
           whole == Len(rest) \div Block
           body == [i \in 1..whole |-> SubSeq(rest, (i - 1) * Block + 1, i * Block)]
           tail == SubSeq(rest, whole * Block + 1, Len(rest))
           d == Update(c, x)
           mx == m \o x
<1>1. /\ Block \in Nat \ {0} /\ Len(x) \in Nat /\ Len(m) \in Nat /\ m \in Seq(S)
      /\ c.blocks \in Seq(Seq(S)) /\ Len(c.blocks) \in Nat /\ Len(c.blocks) * Block \in Nat
  BY ShaAssumption, SMTT(30) DEF IsCtx, Held
<1>2. Held(c.blocks, c.buffer, left, m, S) /\ left \in 0..Block - 1
  <2>1. left = Len(m) - Len(c.blocks) * Block
    BY LeftIs, Zenon
  <2>2. Held(c.blocks, c.buffer, left, m, S) /\ left < Block
    BY <2>1, Zenon DEF IsCtx
  <2>3. left \in 0..Block
    BY <2>2 DEF Held
  <2> HIDE DEF left
  <2> QED
    BY <1>1, <2>2, <2>3
<1>3. CASE x = <<>>
  <2>1. d = c
    BY <1>3 DEF Update
  <2>2. mx = m
    BY <1>1, <1>3
  <2> QED
    BY <2>1, <2>2, Zenon
<1>4. CASE x # <<>>
  <2>1. d = [total |-> Counted(c.total, Len(x)),
             buffer |-> Overwritten(buffer, RestAt(filled, left), tail),
             blocks |-> c.blocks \o (IF filled THEN <<buffer>> ELSE <<>>) \o body]
    BY <1>4, Zenon DEF Update
  <2>2. Len(x) \in 1..TotalWord - 1
    <3>1. Len(x) # 0
      BY <1>4, SameSeq
    <3> QED
      BY <1>1, <3>1, ShaAssumption
  <2>3. /\ Len(mx) = Len(m) + Len(x) /\ mx \in Seq(S)
    BY <1>1
  <2> HIDE DEF left, mx
  <2>4. /\ d.total[1] \in 0..TotalWord - 1 /\ d.total[2] \in Nat
        /\ d.total[2] * TotalWord + d.total[1] = Len(mx)
    <3>1. d.total = Counted(c.total, Len(x))
      BY <2>1
    <3>2. /\ c.total[1] \in 0..TotalWord - 1 /\ c.total[2] \in Nat
          /\ c.total[2] * TotalWord + c.total[1] = Len(m)
      BY DEF IsCtx
    <3>3. /\ Counted(c.total, Len(x))[1] \in 0..TotalWord - 1
          /\ Counted(c.total, Len(x))[2] \in Nat
          /\ Counted(c.total, Len(x))[2] * TotalWord + Counted(c.total, Len(x))[1]
             = Len(m) + Len(x)
      <4>1. \A total, n : /\ total[1] \in 0..TotalWord - 1 /\ total[2] \in Nat
                          /\ total[2] * TotalWord + total[1] = n
                          => /\ Counted(total, Len(x))[1] \in 0..TotalWord - 1
                             /\ Counted(total, Len(x))[2] \in Nat
                             /\ Counted(total, Len(x))[2] * TotalWord
                                + Counted(total, Len(x))[1] = n + Len(x)
        BY <2>2, CountedIs
      <4> QED
        BY <3>2, <4>1, Zenon
    <3> QED
      BY <2>3, <3>1, <3>3, Zenon
  <2>5. SUFFICES \E r \in 0..Block - 1 : Held(d.blocks, d.buffer, r, mx, S)
    <3>1. PICK r \in 0..Block - 1 : Held(d.blocks, d.buffer, r, mx, S)
      BY <2>5
    <3>2. Len(mx) = Len(d.blocks) * Block + r /\ Len(d.blocks) \in Nat
      BY <3>1 DEF Held
    <3>3. Len(d.blocks) * Block \in Nat
      BY <1>1, <3>2
    <3> DEFINE w == Len(d.blocks) * Block
    <3>4. r = Len(mx) - w /\ r < Block
      <4> HIDE DEF w
      <4>1. w \in Nat /\ Len(mx) = w + r
        BY <3>2, <3>3 DEF w
      <4> QED
        BY <1>1, <4>1
    <3> HIDE DEF d
    <3> QED
      BY <2>4, <3>1, <3>4, Zenon DEF IsCtx, mx, d
  <2>6. /\ d.buffer = Overwritten(buffer, RestAt(filled, left), tail)
        /\ d.blocks = (c.blocks \o (IF filled THEN <<buffer>> ELSE <<>>)) \o body
    <3> HIDE DEF filled, buffer, body, tail, d
    <3> QED
      BY <2>1
  <2> HIDE DEF d
  <2>8. CASE filled
    <3> DEFINE head == SubSeq(x, 1, fill)
               over == Overwritten(c.buffer, left, head)
    <3>1. buffer = over /\ rest = SubSeq(x, fill + 1, Len(x)) /\ RestAt(filled, left) = 0
      BY <2>8, Zenon DEF RestAt
    <3>2. (IF filled THEN <<buffer>> ELSE <<>>) = <<over>>
      BY <2>8, <3>1, Zenon
    <3>3. fill \in 0..Len(x) /\ left + fill = Block
      BY <1>1, <1>2, <2>8
    <3>4. /\ head \in Seq(S) /\ Len(head) = fill /\ rest \in Seq(S) /\ head \o rest = x
      BY <3>1, <3>3, SplitAt, Zenon
    <3>5. /\ d.buffer = Overwritten(over, 0, tail)
          /\ d.blocks = (c.blocks \o <<over>>) \o body
      BY <2>6, <3>1, <3>2, Zenon
    <3> HIDE DEF fill, filled, buffer, rest, over, head
    <3>6. left + Len(head) = Block /\ left + Len(head) <= Block
      BY <1>1, <3>3, <3>4
    <3>7. Held(c.blocks, over, Block, m \o head, S)
      <4>1. Held(c.blocks, over, left + Len(head), m \o head, S)
        BY <1>2, <3>4, <3>6, ToppedUp, Zenon DEF over
      <4> QED
        BY <3>6, <4>1, Zenon
    <3>8. Held(c.blocks \o <<over>>, over, 0, m \o head, S)
      BY <3>7, Flushed, Zenon
    <3>9. /\ Held((c.blocks \o <<over>>) \o body, Overwritten(over, 0, tail), Len(tail),
                  (m \o head) \o rest, S)
          /\ Len(tail) < Block
      BY <3>4, <3>8, RestHashed, Zenon
    <3>10. (m \o head) \o rest = m \o (head \o rest)
      <4>1. m \in Seq(S) /\ head \in Seq(S) /\ rest \in Seq(S)
        BY <1>1, <3>4
      <4> QED
        BY <4>1, ConcatAssoc
    <3>11. Held(d.blocks, d.buffer, Len(tail), mx, S)
      BY <3>4, <3>5, <3>9, <3>10, Zenon DEF mx
    <3>12. Len(tail) \in 0..Block - 1
      <4>1. Len(tail) \in 0..Block
        BY <3>11 DEF Held
      <4> HIDE DEF tail
      <4> QED
        BY <1>1, <3>9, <4>1
    <3> QED
      BY <3>11, <3>12, Zenon
  <2>9. CASE ~filled /\ left = 0
    <3>1. buffer = c.buffer /\ rest = x /\ RestAt(filled, left) = 0
      BY <2>9, Zenon DEF RestAt
    <3>2. (IF filled THEN <<buffer>> ELSE <<>>) = <<>>
      BY <2>9, Zenon
    <3>3. c.blocks \o <<>> = c.blocks
      BY <1>1
    <3>4. /\ d.buffer = Overwritten(c.buffer, 0, tail) /\ d.blocks = c.blocks \o body
      BY <2>6, <3>1, <3>2, <3>3, Zenon
    <3>5. rest \in Seq(S) /\ m \o rest = mx
      BY <3>1, Zenon DEF mx
    <3> HIDE DEF fill, filled, buffer, rest
    <3>6. /\ Held(c.blocks \o body, Overwritten(c.buffer, 0, tail), Len(tail), m \o rest, S)
          /\ Len(tail) < Block
      BY <1>2, <2>9, <3>5, RestHashed, Zenon
    <3>7. Held(d.blocks, d.buffer, Len(tail), mx, S)
      BY <3>4, <3>5, <3>6, Zenon
    <3>8. Len(tail) \in 0..Block - 1
      <4>1. Len(tail) \in 0..Block
        BY <3>7 DEF Held
      <4> HIDE DEF tail
      <4> QED
        BY <1>1, <3>6, <4>1
    <3> QED
      BY <3>7, <3>8, Zenon
  <2>10. CASE ~filled /\ left # 0
    <3>1. buffer = c.buffer /\ rest = x /\ RestAt(filled, left) = left
      BY <2>10, Zenon DEF RestAt
    <3>2. (IF filled THEN <<buffer>> ELSE <<>>) = <<>>
      BY <2>10, Zenon
    <3>3. left + Len(x) \in 0..Block - 1 /\ left + Len(x) <= Block /\ Len(x) \in 0..Block - 1
      BY <1>1, <1>2, <2>10
    <3>4. whole = 0 /\ whole * Block = 0
      <4>1. Len(x) \div Block = 0
        <5>1. 0 \in Int /\ 0 * Block + Len(x) = Len(x)
          BY <1>1
        <5>2. (0 * Block + Len(x)) \div Block = 0
          BY <1>1, <3>3, <5>1, DivMod, Zenon
        <5> QED
          BY <5>1, <5>2, Zenon
      <4>2. whole = 0
        BY <3>1, <4>1, Zenon
      <4> HIDE DEF whole
      <4> QED
        BY <1>1, <4>2
    <3>5. body = <<>>
      <4> HIDE DEF whole, rest
      <4> QED
        BY <3>4
    <3>6. tail = x
      <4>1. tail = SubSeq(x, 0 + 1, Len(x))
        BY <3>1, <3>4, Zenon
      <4>2. SubSeq(x, 0 + 1, Len(x)) = x
        BY PrefixAll
      <4> QED
        BY <4>1, <4>2, Zenon
    <3>7. /\ (c.blocks \o <<>>) \o <<>> = c.blocks
      BY <1>1
    <3> HIDE DEF fill, filled, buffer, rest, whole, body, tail
    <3>8. /\ d.buffer = Overwritten(c.buffer, left, x) /\ d.blocks = c.blocks
      BY <2>6, <3>1, <3>2, <3>5, <3>6, <3>7, Zenon
    <3>9. Held(c.blocks, Overwritten(c.buffer, left, x), left + Len(x), m \o x, S)
      BY <1>2, <3>3, ToppedUp, Zenon
    <3> QED
      BY <3>3, <3>8, <3>9, Zenon DEF mx
  <2> QED
    BY <2>8, <2>9, <2>10
<1> QED
  BY <1>3, <1>4

LEMMA MultipleIs ==
  ASSUME NEW d \in Nat \ {0}, NEW a \in Nat, a % d = 0
  PROVE  a = (a \div d) * d /\ a \div d \in Nat
  BY Divided

(* The zeros of the reference are those of sha256_finish.                  *)
LEMMA ZerosAre ==
  ASSUME NEW n \in Nat, NEW z \in 0..Block - 1, (n + 1 + z + LenBytes) % Block = 0
  PROVE  z = CHOOSE y \in 0..Block - 1 : (n + 1 + y + LenBytes) % Block = 0
<1>1. Block \in Nat \ {0} /\ LenBytes \in Nat
  BY ShaAssumption
<1>2. ASSUME NEW y \in 0..Block - 1, (n + 1 + y + LenBytes) % Block = 0
      PROVE  y = z
  <2> DEFINE a == n + 1 + y + LenBytes
             b == n + 1 + z + LenBytes
             j == a \div Block
             k == b \div Block
  <2>1. a \in Nat /\ b \in Nat /\ a - b = y - z
    BY <1>1
  <2>2. a = j * Block /\ b = k * Block /\ j \in Nat /\ k \in Nat
    BY <1>1, <1>2, <2>1, MultipleIs
  <2> HIDE DEF a, b, j, k
  <2>3. (j - k) * Block = y - z
    BY <1>1, <2>1, <2>2
  <2>4. j - k = 0
    <3>1. CASE j - k >= 1
      <4>1. (j - k) * Block >= Block
        BY <1>1, <2>2, <3>1
      <4> QED
        BY <1>1, <2>3, <4>1
    <3>2. CASE j - k <= -1
      <4>1. (j - k) * Block <= -Block
        BY <1>1, <2>2, <3>2
      <4> QED
        BY <1>1, <2>3, <4>1
    <3> QED
      BY <2>2, <3>1, <3>2
  <2>5. y - z = 0
    BY <1>1, <2>3, <2>4
  <2> QED
    BY <1>1, <2>5
<1> QED
  BY <1>2

LEMMA PaddingIs ==
  ASSUME NEW S, 0 \in S, ByteSize \div 2 \in S, NEW n \in Nat
  PROVE  Padding(n) \in Seq(S) /\ Len(Padding(n)) = n
  BY DEF Padding

(* A context that holds whole blocks only has the blocks of its message.   *)
LEMMA WholeBlocks ==
  ASSUME NEW S, NEW c, NEW m, IsCtx(c, m, S), NEW k \in Nat, Len(m) = k * Block
  PROVE  c.blocks = [i \in 1..Len(m) \div Block |-> SubSeq(m, (i - 1) * Block + 1, i * Block)]
<1> DEFINE bs == c.blocks
           q == Len(bs)
           r == Len(m) - q * Block
           ref == [i \in 1..k |-> SubSeq(m, (i - 1) * Block + 1, i * Block)]
<1>1. Block \in Nat \ {0} /\ bs \in Seq(Seq(S)) /\ q \in Nat /\ m \in Seq(S) /\ Len(m) \in Nat
      /\ q * Block \in Nat
  BY ShaAssumption DEF IsCtx, Held
<1>2. Held(bs, c.buffer, r, m, S) /\ r \in 0..Block - 1 /\ Len(m) = q * Block + r
  <2>1. Held(bs, c.buffer, r, m, S) /\ r < Block
    BY Zenon DEF IsCtx
  <2>2. r \in 0..Block /\ Len(m) = q * Block + r
    BY <2>1 DEF Held
  <2> HIDE DEF r
  <2> QED
    BY <1>1, <2>1, <2>2
<1>3. Len(m) \div Block = k
  <2>1. 0 \in 0..Block - 1 /\ k \in Int /\ k * Block + 0 = Len(m)
    BY <1>1
  <2> QED
    BY <1>1, <2>1, DivMod, Zenon
<1>4. q = k
  <2>1. q \in Int
    BY <1>1
  <2>2. (q * Block + r) \div Block = q
    BY <1>1, <1>2, <2>1, DivMod, Zenon
  <2> QED
    BY <1>2, <1>3, <2>2, Zenon
<1>5. ASSUME NEW i \in 1..k PROVE bs[i] = ref[i]
  <2> DEFINE f == (i - 1) * Block
             l == i * Block
  <2>1. f \in Nat /\ l = f + Block /\ l <= Len(m)
    <3>1. f \in Nat /\ l = f + Block
      BY <1>1
    <3> DEFINE v == (k - i) * Block
    <3>2. v \in Nat /\ k * Block = l + v
      BY <1>1
    <3> HIDE DEF f, l, v
    <3>3. Len(m) = l + v
      BY <3>2, Zenon
    <3> QED
      BY <1>1, <3>1, <3>2, <3>3
  <2>2. ref[i] = SubSeq(m, f + 1, l)
    OBVIOUS
  <2>3. /\ Len(bs[i]) = Block /\ \A j \in 1..Block : bs[i][j] = m[f + j]
    BY <1>2, <1>4, Zenon DEF Held
  <2>4. bs[i] \in Seq(S)
    BY <1>1, <1>4
  <2> HIDE DEF ref, f, l, bs
  <2>5. f + 1 \in 1..Len(m) + 1 /\ l \in (f + 1) - 1..Len(m) /\ l - (f + 1) + 1 = Block
    BY <1>1, <2>1
  <2>6. /\ ref[i] \in Seq(S) /\ Len(ref[i]) = Block
        /\ \A j \in 1..Block : ref[i][j] = m[(f + 1) + j - 1]
    <3>1. m \in Seq(S)
      BY <1>1
    <3> QED
      BY <2>2, <2>5, <3>1, SubSeqAt, ZenonT(30)
  <2>7. \A j \in 1..Block : (f + 1) + j - 1 = f + j
    BY <2>1
  <2>8. \A j \in 1..Len(ref[i]) : bs[i][j] = ref[i][j]
    BY <2>3, <2>6, <2>7, Zenon
  <2>9. Len(bs[i]) = Len(ref[i])
    BY <2>3, <2>6, Zenon
  <2> QED
    BY <2>4, <2>6, <2>8, <2>9, SameSeq, Zenon
<1>6. bs = [i \in 1..k |-> bs[i]]
  <2> HIDE DEF bs, r
  <2> QED
    BY <1>1, <1>4
<1>7. bs = ref
  <2>1. ref = [i \in 1..k |-> ref[i]]
    BY Zenon
  <2> HIDE DEF bs, ref
  <2> QED
    BY <1>5, <1>6, <2>1, Zenon
<1> QED
  BY <1>3, <1>7, Zenon

(* sha256_finish pads as the reference does.                               *)
LEMMA FinishIs ==
  ASSUME NEW S, 0 \in S, ByteSize \div 2 \in S, NEW c, NEW m, IsCtx(c, m, S),
         BytesOf(8 * Len(m)) \in Seq(S)
  PROVE  Finish(c) = BlocksOf(m)
<1> DEFINE bits == 8 * (c.total[2] * TotalWord + c.total[1])
           last == c.total[1] % Block
           padn == IF last < Block - LenBytes THEN Block - LenBytes - last
                   ELSE 2 * Block - LenBytes - last
           P == Padding(padn)
           L == BytesOf(8 * Len(m))
           q == Len(c.blocks)
           zeros == CHOOSE n \in 0..Block - 1 : (Len(m) + 1 + n + LenBytes) % Block = 0
<1>1. /\ Block \in Nat \ {0} /\ LenBytes \in Nat \ {0} /\ LenBytes < Block /\ Len(m) \in Nat
      /\ q \in Nat /\ q * Block \in Nat /\ TotalWord \in Nat /\ TotalWord > 2 * Block
  <2>1. m \in Seq(S) /\ c.blocks \in Seq(Seq(S))
    BY Zenon DEF IsCtx, Held
  <2>2. Len(m) \in Nat /\ q \in Nat
    BY <2>1
  <2> HIDE DEF q
  <2> QED
    BY <2>2, ShaAssumption
<1>2. m \in Seq(S)
  BY Zenon DEF IsCtx, Held
<1>3. Finish(c) = Update(Update(c, P), L).blocks
  <2>1. bits = 8 * Len(m)
    BY Zenon DEF IsCtx
  <2>2. Finish(c) = Update(Update(c, P), BytesOf(bits)).blocks
    BY Zenon DEF Finish
  <2> QED
    BY <2>1, <2>2, Zenon
<1>4. last \in 0..Block - 1 /\ Len(m) = q * Block + last
  <2>1. last = Len(m) - q * Block
    BY LeftIs, Zenon
  <2>2. last < Block
    BY <2>1, Zenon DEF IsCtx
  <2>3. Held(c.blocks, c.buffer, last, m, S)
    BY <2>1, Zenon DEF IsCtx
  <2>4. last \in 0..Block /\ Len(m) = q * Block + last
    BY <2>3 DEF Held
  <2> HIDE DEF last
  <2> QED
    BY <1>1, <2>2, <2>4
<1> HIDE DEF bits, last, L
<1>5. padn \in 1..Block /\ (last + padn + LenBytes = Block \/ last + padn + LenBytes = 2 * Block)
  BY <1>1, <1>4
<1> HIDE DEF padn
<1>6. PICK k \in Nat : Len(m) + padn + LenBytes = k * Block
  <2> DEFINE w == q * Block
  <2>1. (q + 1) * Block = w + Block /\ (q + 2) * Block = w + 2 * Block
    <3>1. \A a, b \in Nat : (a + 1) * b = a * b + b /\ (a + 2) * b = a * b + 2 * b
      OBVIOUS
    <3> QED
      BY <1>1, <3>1
  <2>2. w \in Nat /\ Len(m) = w + last
    BY <1>1, <1>4
  <2> HIDE DEF w, q
  <2>3. \/ Len(m) + padn + LenBytes = w + Block
        \/ Len(m) + padn + LenBytes = w + 2 * Block
    BY <1>1, <1>4, <1>5, <2>2
  <2>4. q + 1 \in Nat /\ q + 2 \in Nat
    BY <1>1
  <2> QED
    BY <2>1, <2>3, <2>4, Zenon
<1>7. zeros = padn - 1
  <2>1. padn - 1 \in 0..Block - 1 /\ Len(m) + 1 + (padn - 1) + LenBytes = Len(m) + padn + LenBytes
    BY <1>1, <1>5
  <2>2. (k * Block) % Block = 0
    <3>1. 0 \in 0..Block - 1 /\ k \in Int /\ k * Block + 0 = k * Block
      BY <1>1
    <3> QED
      BY <1>1, <3>1, DivMod, Zenon
  <2>3. (Len(m) + 1 + (padn - 1) + LenBytes) % Block = 0
    BY <1>6, <2>1, <2>2, Zenon
  <2> QED
    BY <1>1, <2>1, <2>3, ZerosAre, Zenon
<1>8. P \in Seq(S) /\ Len(P) = padn /\ padn \in Nat
  <2>1. padn \in Nat
    BY <1>1, <1>5
  <2> QED
    BY <2>1, PaddingIs, Zenon
<1>9. L \in Seq(S) /\ Len(L) = LenBytes
  <2>1. L \in Seq(S)
    BY DEF L
  <2>2. Len(L) = LenBytes
    BY <1>1 DEF L, BytesOf
  <2> QED
    BY <2>1, <2>2
<1>10. Padded(m) = (m \o P) \o L
  <2>1. 1 + zeros = padn
    <3> HIDE DEF zeros
    <3> QED
      BY <1>1, <1>5, <1>7
  <2>2. Padded(m) = m \o Padding(1 + zeros) \o BytesOf(8 * Len(m))
    BY Zenon DEF Padded
  <2> QED
    BY <2>1, <2>2, Zenon DEF L
<1> HIDE DEF P, zeros
<1>11. IsCtx(Update(c, P), m \o P, S)
  <2>1. Len(P) < TotalWord
    BY <1>1, <1>5, <1>8
  <2> QED
    BY <1>8, <2>1, UpdateIs, Zenon
<1>12. IsCtx(Update(Update(c, P), L), (m \o P) \o L, S)
  <2>1. Len(L) < TotalWord
    BY <1>1, <1>9
  <2> QED
    BY <1>9, <1>11, <2>1, UpdateIs, Zenon
<1>13. Len((m \o P) \o L) = k * Block
  <2>1. Len((m \o P) \o L) = Len(m) + padn + LenBytes
    <3>1. m \in Seq(S) /\ P \in Seq(S) /\ L \in Seq(S)
      BY <1>2, <1>8, <1>9, Zenon
    <3>2. Len((m \o P) \o L) = Len(m) + Len(P) + Len(L)
      BY <3>1
    <3> QED
      BY <1>8, <1>9, <3>2, Zenon
  <2> QED
    BY <1>6, <2>1, Zenon
<1> DEFINE mm == (m \o P) \o L
<1>14. Update(Update(c, P), L).blocks
       = [i \in 1..Len(mm) \div Block |-> SubSeq(mm, (i - 1) * Block + 1, i * Block)]
  <2> HIDE DEF mm
  <2>1. IsCtx(Update(Update(c, P), L), mm, S) /\ Len(mm) = k * Block
    BY <1>12, <1>13, Zenon DEF mm
  <2>2. k \in Nat
    OBVIOUS
  <2> DEFINE d == Update(Update(c, P), L)
  <2> HIDE DEF d
  <2>3. IsCtx(d, mm, S)
    BY <2>1 DEF d
  <2>4. d.blocks = [i \in 1..Len(mm) \div Block |-> SubSeq(mm, (i - 1) * Block + 1, i * Block)]
    BY <2>1, <2>2, <2>3, WholeBlocks
  <2> QED
    BY <2>4 DEF d
<1> QED
  BY <1>3, <1>10, <1>14, Zenon DEF BlocksOf

(* The digest of pieces is the reference's of the message they make up.    *)
LEMMA DigestIs ==
  ASSUME NEW S, 0 \in S, ByteSize \div 2 \in S, \A n \in Nat : BytesOf(n) \in Seq(S),
         NEW pieces \in Seq(Seq(S)), \A i \in 1..Len(pieces) : Len(pieces[i]) < TotalWord
  PROVE  Digest(pieces) = Reference(pieces)
<1> DEFINE n == Len(pieces)
           p(i) == SubSeq(pieces, 1, i)
           C(f) == [i \in 0..n |-> IF i = 0 THEN Starts ELSE Update(f[i - 1], pieces[i])]
           Runs(f, k) == /\ f[0] = Starts
                         /\ \A i \in 0..k - 1 : f[i + 1] = Update(f[i], pieces[i + 1])
           E == {k \in 0..n : \E f : f = [i \in 0..k |-> f[i]] /\ Runs(f, k)}
<1>1. /\ n \in Nat /\ p(0) = <<>> /\ p(n) = pieces
      /\ \A i \in 0..n : p(i) \in Seq(Seq(S))
      /\ \A i \in 0..n - 1 : /\ pieces[i + 1] \in Seq(S)
                             /\ p(i + 1) = Append(p(i), pieces[i + 1])
  BY PrefixFacts, Zenon
<1>11. \A i \in 1..n : Len(pieces[i]) < TotalWord
  BY Zenon
<1> HIDE DEF p, n
<1>2. 0 \in E
  <2> DEFINE f == [i \in 0..0 |-> Starts]
  <2>1. f = [i \in 0..0 |-> f[i]] /\ f[0] = Starts
    OBVIOUS
  <2>2. \A i \in 0..0 - 1 : f[i + 1] = Update(f[i], pieces[i + 1])
    OBVIOUS
  <2>3. 0 \in 0..n
    BY <1>1
  <2> HIDE DEF f
  <2> QED
    BY <2>1, <2>2, <2>3, Zenon
<1>3. ASSUME NEW k \in 0..n - 1, k \in E PROVE k + 1 \in E
  <2>1. PICK f : f = [i \in 0..k |-> f[i]] /\ Runs(f, k)
    BY <1>3
  <2> DEFINE next == Update(f[k], pieces[k + 1])
             h == [i \in 0..k + 1 |-> IF i <= k THEN f[i] ELSE next]
  <2> HIDE DEF next
  <2>2. h = [i \in 0..k + 1 |-> h[i]] /\ h[0] = f[0]
    OBVIOUS
  <2>3. ASSUME NEW i \in 0..(k + 1) - 1 PROVE h[i + 1] = Update(h[i], pieces[i + 1])
    <3>1. h[i] = f[i]
      OBVIOUS
    <3>2. CASE i = k
      <4>1. h[i + 1] = next
        BY <3>2
      <4> QED
        BY <3>1, <3>2, <4>1, Zenon DEF next
    <3>3. CASE i # k
      <4>1. i \in 0..k - 1 /\ h[i + 1] = f[i + 1]
        BY <3>3
      <4> QED
        BY <2>1, <3>1, <4>1, Zenon
    <3> QED
      BY <3>2, <3>3
  <2>4. k + 1 \in 0..n
    BY <1>1
  <2> HIDE DEF h
  <2>5. Runs(h, k + 1)
    BY <2>1, <2>2, <2>3, Zenon
  <2> HIDE DEF Runs
  <2> QED
    BY <2>2, <2>4, <2>5, Zenon
<1>4. n \in E
  <2>1. \A k \in 0..n - 1 : k \in E => k + 1 \in E
    BY <1>3
  <2> HIDE DEF E
  <2> QED
    BY <1>1, <1>2, <2>1, UpTo, Zenon
<1>5. PICK g : g = [i \in 0..n |-> g[i]] /\ Runs(g, n)
  BY <1>4
<1>6. g = C(g)
  <2>1. ASSUME NEW i \in 0..n
        PROVE  g[i] = IF i = 0 THEN Starts ELSE Update(g[i - 1], pieces[i])
    <3>1. CASE i = 0
      BY <1>5, <3>1, Zenon
    <3>2. CASE i # 0
      <4>1. i - 1 \in 0..n - 1 /\ (i - 1) + 1 = i
        BY <1>1, <3>2
      <4> QED
        BY <1>5, <3>2, <4>1, Zenon
    <3> QED
      BY <3>1, <3>2
  <2> QED
    BY <1>5, <2>1, Zenon
<1>7. PICK f : f = C(f) /\ Digest(pieces) = Finish(f[n])
  BY <1>6, Zenon DEF Digest, n
<1>8. /\ f[0] = Starts
      /\ \A i \in 0..n - 1 : f[i + 1] = Update(f[i], pieces[i + 1])
  <2>1. \A i \in 0..n : f[i] = IF i = 0 THEN Starts ELSE Update(f[i - 1], pieces[i])
    BY <1>7, Zenon
  <2>2. 0 \in 0..n
    BY <1>1
  <2>3. ASSUME NEW i \in 0..n - 1 PROVE f[i + 1] = Update(f[i], pieces[i + 1])
    <3>1. i + 1 \in 0..n /\ i + 1 # 0 /\ (i + 1) - 1 = i
      BY <1>1
    <3> QED
      BY <2>1, <3>1, Zenon
  <2> QED
    BY <2>1, <2>2, <2>3, Zenon
<1> HIDE DEF C
<1> DEFINE T == {i \in 0..n : IsCtx(f[i], FlattenSeq(p(i)), S)}
<1>9. 0 \in T
  <2>1. FlattenSeq(p(0)) = <<>> /\ f[0] = Starts /\ 0 \in 0..n
    BY <1>1, <1>8, FlattenEmpty
  <2>2. IsCtx(Starts, <<>>, S)
    <3>1. /\ Starts.total[1] = 0 /\ Starts.total[2] = 0 /\ Starts.buffer = Zeros(Block)
          /\ Starts.blocks = <<>>
      BY DEF Starts
    <3>2. Block \in Nat \ {0} /\ TotalWord \in Nat \ {0} /\ Zeros(Block) \in [1..Block -> S]
      BY ShaAssumption DEF Zeros
    <3>3. Held(<<>>, Zeros(Block), 0, <<>>, S)
      BY <3>2 DEF Held
    <3>4. Len(<<>>) - Len(<<>>) * Block = 0 /\ 0 * TotalWord + 0 = Len(<<>>)
      BY <3>2
    <3>5. 0 \in 0..TotalWord - 1 /\ 0 < Block /\ 0 \in Nat
      BY <3>2
    <3>6. /\ Held(Starts.blocks, Starts.buffer, Len(<<>>) - Len(Starts.blocks) * Block, <<>>, S)
          /\ Len(<<>>) - Len(Starts.blocks) * Block < Block
      BY <3>1, <3>3, <3>4, <3>5
    <3>7. /\ Starts.total[1] \in 0..TotalWord - 1 /\ Starts.total[2] \in Nat
          /\ Starts.total[2] * TotalWord + Starts.total[1] = Len(<<>>)
      BY <3>1, <3>4, <3>5
    <3> QED
      BY <3>6, <3>7, Zenon DEF IsCtx
  <2> QED
    BY <2>1, <2>2, Zenon
<1>10. ASSUME NEW i \in 0..n - 1, i \in T PROVE i + 1 \in T
  <2>1. i \in 0..n /\ i + 1 \in 0..n /\ i + 1 \in 1..n
    BY <1>1
  <2>2. pieces[i + 1] \in Seq(S) /\ Len(pieces[i + 1]) < TotalWord /\ p(i) \in Seq(Seq(S))
        /\ p(i + 1) = Append(p(i), pieces[i + 1])
    BY <1>1, <1>11, <2>1, Zenon
  <2>3. FlattenSeq(p(i + 1)) = FlattenSeq(p(i)) \o pieces[i + 1]
    BY <2>2, FlattenAppend, Zenon
  <2>4. IsCtx(f[i], FlattenSeq(p(i)), S)
    BY <1>10
  <2>5. IsCtx(Update(f[i], pieces[i + 1]), FlattenSeq(p(i)) \o pieces[i + 1], S)
    BY <2>2, <2>4, UpdateIs, Zenon
  <2>6. IsCtx(f[i + 1], FlattenSeq(p(i + 1)), S)
    BY <1>8, <2>3, <2>5, Zenon
  <2> QED
    BY <2>1, <2>6, Zenon
<1>12. n \in T
  <2>1. \A i \in 0..n - 1 : i \in T => i + 1 \in T
    BY <1>10
  <2> HIDE DEF T
  <2> QED
    BY <1>1, <1>9, <2>1, UpTo, Zenon
<1>13. IsCtx(f[n], FlattenSeq(pieces), S)
  BY <1>1, <1>12, Zenon
<1>14. Finish(f[n]) = BlocksOf(FlattenSeq(pieces))
  <2>1. Len(FlattenSeq(pieces)) \in Nat
    BY FlattenType
  <2>2. 8 * Len(FlattenSeq(pieces)) \in Nat
    BY <2>1
  <2>3. BytesOf(8 * Len(FlattenSeq(pieces))) \in Seq(S)
    BY <2>2, Zenon
  <2> QED
    BY <1>13, <2>3, FinishIs, Zenon
<1> QED
  BY <1>7, <1>14, Zenon DEF Reference

(* What sha256_update may be given: bytes, and those of a length.          *)
AnyByte == 0..ByteSize - 1 \cup UNION {{BytesOf(n)[i] : i \in 1..LenBytes} : n \in Nat}
Piece == {x \in Seq(0..ByteSize - 1) : Len(x) < TotalWord}

LEMMA ByteFacts ==
  /\ 0 \in AnyByte /\ ByteSize \div 2 \in AnyByte
  /\ \A n \in Nat : BytesOf(n) \in Seq(AnyByte)
  /\ \A x \in Seq(0..ByteSize - 1) : x \in Seq(AnyByte)
<1>1. ByteSize \in Nat \ {0, 1} /\ LenBytes \in Nat
  BY ShaAssumption
<1>2. 0 \in 0..ByteSize - 1 /\ ByteSize \div 2 \in 0..ByteSize - 1
  BY <1>1
<1>3. ASSUME NEW n \in Nat PROVE BytesOf(n) \in Seq(AnyByte)
  <2>1. BytesOf(n) = [i \in 1..LenBytes |-> BytesOf(n)[i]]
    BY DEF BytesOf
  <2>2. ASSUME NEW i \in 1..LenBytes PROVE BytesOf(n)[i] \in AnyByte
    <3>1. BytesOf(n)[i] \in {BytesOf(n)[j] : j \in 1..LenBytes}
      OBVIOUS
    <3> QED
      BY <3>1 DEF AnyByte
  <2>3. BytesOf(n) \in [1..LenBytes -> AnyByte]
    BY <2>1, <2>2, Zenon
  <2> QED
    BY <1>1, <2>3
<1>4. 0..ByteSize - 1 \subseteq AnyByte
  BY Zenon DEF AnyByte
<1>5. \A x \in Seq(0..ByteSize - 1) : x \in Seq(AnyByte)
  <2>1. \A B, A : B \subseteq A => \A x \in Seq(B) : x \in Seq(A)
    OBVIOUS
  <2> QED
    BY <1>4, <2>1, Zenon
<1> QED
  BY <1>2, <1>3, <1>4, <1>5, Zenon

(* sha256.c: a message gets the same digest however it is cut into pieces, *)
(* and that digest is the reference's: it ends in 0x80, zeros and its      *)
(* length in bits, in whole blocks.                                        *)
THEOREM StreamedDigest ==
  \A pieces \in Seq(Piece) : Digest(pieces) = Reference(pieces)
<1> SUFFICES ASSUME NEW pieces \in Seq(Piece) PROVE Digest(pieces) = Reference(pieces)
  OBVIOUS
<1>1. \A i \in 1..Len(pieces) : pieces[i] \in Piece
  OBVIOUS
<1>2. \A i \in 1..Len(pieces) : pieces[i] \in Seq(AnyByte) /\ Len(pieces[i]) < TotalWord
  BY <1>1, ByteFacts, Zenon DEF Piece
<1>3. pieces \in Seq(Seq(AnyByte))
  BY <1>2
<1> QED
  BY <1>2, <1>3, ByteFacts, DigestIs, Zenon

-----------------------------------------------------------------------------
(* update_purgatory *)

LEMMA ZerosFacts ==
  ASSUME NEW S, 0 \in S
  PROVE  /\ Zeros(0) = <<>>
         /\ \A a \in Nat : Zeros(a) \in Seq(S) /\ Len(Zeros(a)) = a
         /\ \A a, b \in Nat : Zeros(a) \o Zeros(b) = Zeros(a + b)
<1>1. Zeros(0) = <<>>
  BY DEF Zeros
<1>2. \A a \in Nat : Zeros(a) \in Seq(S) /\ Len(Zeros(a)) = a /\ \A i \in 1..a : Zeros(a)[i] = 0
  BY DEF Zeros
<1>3. ASSUME NEW a \in Nat, NEW b \in Nat PROVE Zeros(a) \o Zeros(b) = Zeros(a + b)
  <2>0. \A x, y \in Seq(S) :
          /\ x \o y \in Seq(S) /\ Len(x \o y) = Len(x) + Len(y)
          /\ \A i \in 1..Len(x) + Len(y) :
               (x \o y)[i] = IF i <= Len(x) THEN x[i] ELSE y[i - Len(x)]
    OBVIOUS
  <2> DEFINE x == Zeros(a)
             y == Zeros(b)
  <2>1. /\ x \o y \in Seq(S) /\ Len(x \o y) = a + b /\ a + b \in Nat
        /\ \A i \in 1..a + b : (x \o y)[i] = 0
    <3>1. /\ x \in Seq(S) /\ y \in Seq(S) /\ Len(x) = a /\ Len(y) = b
          /\ \A i \in 1..a : x[i] = 0
          /\ \A i \in 1..b : y[i] = 0
      BY <1>2, Zenon
    <3> HIDE DEF x, y
    <3>2. /\ x \o y \in Seq(S) /\ Len(x \o y) = a + b
          /\ \A i \in 1..a + b : (x \o y)[i] = IF i <= a THEN x[i] ELSE y[i - a]
      BY <2>0, <3>1
    <3>3. ASSUME NEW i \in 1..a + b PROVE (x \o y)[i] = 0
      <4>1. (i <= a /\ i \in 1..a) \/ (~(i <= a) /\ i - a \in 1..b)
        OBVIOUS
      <4> QED
        BY <3>1, <3>2, <4>1, Zenon
    <3> QED
      BY <3>2, <3>3
  <2>2. Zeros(a + b) \in Seq(S) /\ Len(Zeros(a + b)) = a + b
        /\ \A i \in 1..a + b : Zeros(a + b)[i] = 0
    BY <1>2, <2>1, Zenon
  <2> QED
    BY <2>1, <2>2, SameSeq
<1> QED
  BY <1>1, <1>2, <1>3

LEMMA FlattenOne ==
  ASSUME NEW S, NEW x \in Seq(S)
  PROVE  FlattenSeq(<<x>>) = x
<1>1. <<>> \in Seq(Seq(S)) /\ <<x>> = Append(<<>>, x) /\ <<>> \o x = x
  OBVIOUS
<1>2. FlattenSeq(Append(<<>>, x)) = FlattenSeq(<<>>) \o x
  BY <1>1, FlattenAppend, Zenon
<1> QED
  BY <1>1, <1>2, FlattenEmpty, Zenon

(* null_buf over and over is zeros.                                        *)
LEMMA ZerosRepeated ==
  ASSUME NEW z \in Nat, NEW w \in Nat
  PROVE  FlattenSeq([i \in 1..w |-> Zeros(z)]) = Zeros(w * z)
<1> DEFINE rep(n) == [i \in 1..n |-> Zeros(z)]
           T == {n \in 0..w : FlattenSeq(rep(n)) = Zeros(n * z)}
<1>0. 0 \in Nat
  OBVIOUS
<1>1. Zeros(z) \in Seq(Nat)
  BY <1>0, ZerosFacts, Zenon
<1>2. /\ rep(0) = <<>>
      /\ \A n \in Nat : rep(n) \in Seq(Seq(Nat)) /\ rep(n + 1) = Append(rep(n), Zeros(z))
  BY <1>1
<1>3. 0 \in T
  <2>1. 0 \in 0..w /\ 0 * z = 0
    OBVIOUS
  <2>2. Zeros(0 * z) = <<>>
    BY <1>0, <2>1, ZerosFacts, Zenon
  <2>3. FlattenSeq(rep(0)) = <<>>
    BY <1>2, FlattenEmpty, Zenon
  <2> QED
    BY <2>1, <2>2, <2>3, Zenon
<1>4. ASSUME NEW n \in 0..w - 1, n \in T PROVE n + 1 \in T
  <2>1. n \in Nat /\ n + 1 \in 0..w /\ n * z \in Nat /\ n * z + z = (n + 1) * z
    OBVIOUS
  <2>2. FlattenSeq(rep(n)) = Zeros(n * z)
    BY <1>4, Zenon
  <2>3. rep(n) \in Seq(Seq(Nat)) /\ rep(n + 1) = Append(rep(n), Zeros(z))
    BY <1>2, <2>1, Zenon
  <2> HIDE DEF rep
  <2>4. FlattenSeq(rep(n + 1)) = Zeros(n * z) \o Zeros(z)
    BY <1>1, <2>2, <2>3, FlattenAppend, Zenon
  <2>5. Zeros(n * z) \o Zeros(z) = Zeros((n + 1) * z)
    <3>1. Zeros(n * z) \o Zeros(z) = Zeros(n * z + z)
      BY <1>0, <2>1, ZerosFacts, Zenon
    <3> QED
      BY <2>1, <3>1, Zenon
  <2> QED
    BY <2>1, <2>4, <2>5, Zenon
<1>5. w \in T
  <2>1. \A n \in 0..w - 1 : n \in T => n + 1 \in T
    BY <1>4
  <2> HIDE DEF T
  <2> QED
    BY <1>3, <2>1, UpTo, Zenon
<1> QED
  BY <1>5

(* A segment as the loaders leave it.                                      *)
Segments == {s \in [mem: Nat, buf: Seq(0..ByteSize - 1), memsz: 0..TotalWord - 1] :
               Len(s.buf) <= s.memsz}

(* update_purgatory hashes what will be in memory.                         *)
LEMMA PiecesAre ==
  ASSUME NEW s \in Segments
  PROVE  /\ Pieces(s) \in Seq(Piece) /\ FlattenSeq(Pieces(s)) = Contents(s)
         /\ Contents(s) \in Piece
<1> DEFINE B == 0..ByteSize - 1
           nullsz == s.memsz - Len(s.buf)
           w == nullsz \div NullBuf
           r == nullsz % NullBuf
           whole == [i \in 1..w |-> Zeros(NullBuf)]
           last == IF r = 0 THEN <<>> ELSE <<Zeros(r)>>
<1>1. /\ s.buf \in Seq(B) /\ Len(s.buf) \in Nat /\ s.memsz \in Nat
      /\ s.memsz < TotalWord /\ Len(s.buf) <= s.memsz
  <2>1. s \in [mem: Nat, buf: Seq(B), memsz: 0..TotalWord - 1] /\ Len(s.buf) <= s.memsz
    BY Zenon DEF Segments
  <2>2. s.buf \in Seq(B) /\ s.memsz \in 0..TotalWord - 1
    BY <2>1, Zenon
  <2>3. TotalWord \in Nat
    BY ShaAssumption
  <2> HIDE DEF B
  <2>4. Len(s.buf) \in Nat
    BY <2>2
  <2> QED
    BY <2>1, <2>2, <2>3, <2>4
<1>2. NullBuf \in Nat \ {0} /\ 0 \in B /\ TotalWord \in Nat
  BY CommandAssumption, ShaAssumption
<1>3. nullsz \in Nat /\ nullsz < TotalWord /\ Len(s.buf) < TotalWord
  BY <1>1, <1>2
<1>4. /\ w \in Nat /\ r \in Nat /\ nullsz = w * NullBuf + r /\ w * NullBuf \in Nat
      /\ r <= nullsz /\ (w # 0 => NullBuf <= nullsz)
  <2> HIDE DEF nullsz
  <2>1. w \in Nat /\ r \in 0..NullBuf - 1 /\ nullsz = NullBuf * w + r
    BY <1>2, <1>3
  <2> HIDE DEF w, r
  <2>2. NullBuf * w = w * NullBuf /\ w * NullBuf \in Nat
    BY <1>2, <2>1
  <2>3. w # 0 => w * NullBuf = NullBuf + (w - 1) * NullBuf /\ (w - 1) * NullBuf \in Nat
    BY <1>2, <2>1
  <2> QED
    BY <1>2, <1>3, <2>1, <2>2, <2>3
<1>5. Pieces(s) = <<s.buf>> \o whole \o last
  BY DEF Pieces
<1>6. Contents(s) = s.buf \o Zeros(nullsz)
  BY DEF Contents
<1> HIDE DEF B, nullsz, w, r
<1>7. \A a \in Nat : a < TotalWord => Zeros(a) \in Seq(B) /\ Zeros(a) \in Piece
  <2>1. \A a \in Nat : Zeros(a) \in Seq(B) /\ Len(Zeros(a)) = a
    BY <1>2, ZerosFacts, Zenon
  <2> QED
    BY <2>1 DEF Piece, B
<1>8. s.buf \in Piece
  BY <1>1, <1>3 DEF Piece, B
<1>9. whole \in Seq(Piece)
  <2>1. CASE w = 0
    BY <2>1
  <2>2. CASE w # 0
    <3>1. NullBuf \in Nat /\ NullBuf < TotalWord
      BY <1>2, <1>3, <1>4, <2>2
    <3>2. Zeros(NullBuf) \in Piece
      BY <1>7, <3>1, Zenon
    <3> QED
      BY <1>4, <3>2
  <2> QED
    BY <2>1, <2>2
<1>10. last \in Seq(Piece)
  <2>1. r < TotalWord
    BY <1>2, <1>3, <1>4
  <2>2. Zeros(r) \in Piece
    BY <1>4, <1>7, <2>1, Zenon
  <2> QED
    BY <2>2
<1>11. FlattenSeq(last) = Zeros(r)
  <2>1. CASE r = 0
    BY <2>1, <1>2, ZerosFacts, FlattenEmpty, Zenon
  <2>2. CASE r # 0
    <3>1. Zeros(r) \in Seq(B)
      BY <1>2, <1>4, ZerosFacts, Zenon
    <3>2. FlattenSeq(<<Zeros(r)>>) = Zeros(r)
      BY <3>1, FlattenOne, Zenon
    <3> QED
      BY <2>2, <3>2, Zenon
  <2> QED
    BY <2>1, <2>2
<1>12. FlattenSeq(whole) = Zeros(w * NullBuf)
  BY <1>2, <1>4, ZerosRepeated
<1> HIDE DEF whole, last
<1>13. /\ <<s.buf>> \in Seq(Piece) /\ <<s.buf>> \o whole \in Seq(Piece)
       /\ (<<s.buf>> \o whole) \o last \in Seq(Piece)
  BY <1>8, <1>9, <1>10
<1>14. \A x \in Seq(Piece) : x \in Seq(Seq(B))
  BY DEF Piece, B
<1>15. FlattenSeq(Pieces(s)) = (s.buf \o Zeros(w * NullBuf)) \o Zeros(r)
  <2>1. FlattenSeq((<<s.buf>> \o whole) \o last) = FlattenSeq(<<s.buf>> \o whole) \o FlattenSeq(last)
    BY <1>10, <1>13, <1>14, FlattenConcat, Zenon
  <2>2. FlattenSeq(<<s.buf>> \o whole) = FlattenSeq(<<s.buf>>) \o FlattenSeq(whole)
    BY <1>9, <1>13, <1>14, FlattenConcat, Zenon
  <2>3. FlattenSeq(<<s.buf>>) = s.buf
    BY <1>1, FlattenOne, Zenon DEF B
  <2> QED
    BY <1>5, <1>11, <1>12, <2>1, <2>2, <2>3, Zenon
<1>16. (s.buf \o Zeros(w * NullBuf)) \o Zeros(r) = s.buf \o Zeros(nullsz)
  <2>1. Zeros(w * NullBuf) \in Seq(B) /\ Zeros(r) \in Seq(B)
    BY <1>2, <1>4, ZerosFacts, Zenon
  <2>2. s.buf \in Seq(B)
    BY <1>1, Zenon DEF B
  <2>3. (s.buf \o Zeros(w * NullBuf)) \o Zeros(r) = s.buf \o (Zeros(w * NullBuf) \o Zeros(r))
    <3>1. \A x, y, z \in Seq(B) : (x \o y) \o z = x \o (y \o z)
      OBVIOUS
    <3> QED
      BY <2>1, <2>2, <3>1, Zenon
  <2>4. Zeros(w * NullBuf) \o Zeros(r) = Zeros(w * NullBuf + r)
    BY <1>2, <1>4, ZerosFacts, Zenon
  <2> QED
    BY <1>4, <2>3, <2>4, Zenon
<1>17. Contents(s) \in Piece
  <2>1. Zeros(nullsz) \in Seq(B) /\ Len(Zeros(nullsz)) = nullsz
    BY <1>2, <1>3, ZerosFacts, Zenon
  <2>2. s.buf \in Seq(B)
    BY <1>1, Zenon DEF B
  <2>3. s.buf \o Zeros(nullsz) \in Seq(B) /\ Len(s.buf \o Zeros(nullsz)) = Len(s.buf) + nullsz
    BY <2>1, <2>2
  <2>4. Len(s.buf) + nullsz < TotalWord
    BY <1>1, <1>2 DEF nullsz
  <2> QED
    BY <1>6, <2>3, <2>4 DEF Piece, B
<1> QED
  BY <1>5, <1>6, <1>13, <1>15, <1>16, <1>17, Zenon

(* The loop of update_purgatory over these segments.                       *)
KeptBy(segments, purgatory) ==
  LET kept[i \in 0..Len(segments)] ==
        IF i = 0 THEN <<>>
        ELSE IF segments[i].mem = purgatory THEN kept[i - 1]
        ELSE Append(kept[i - 1], segments[i])
  IN kept[Len(segments)]

LEMMA HashedBy ==
  ASSUME NEW k
  PROVE  Hashed(k) = KeptBy(k.segments, k.purgatory)
  BY Zenon DEF Hashed, KeptBy

(* What is hashed is segments of the image, and never purgatory's own.    *)
LEMMA KeptAre ==
  ASSUME NEW segments \in Seq(Segments), NEW purgatory
  PROVE  KeptBy(segments, purgatory) \in Seq({s \in Segments : s.mem # purgatory})
<1> DEFINE n == Len(segments)
           V == {s \in Segments : s.mem # purgatory}
           Step(f, i) == IF segments[i].mem = purgatory THEN f[i - 1]
                         ELSE Append(f[i - 1], segments[i])
           C(f) == [i \in 0..n |-> IF i = 0 THEN <<>>
                                   ELSE IF segments[i].mem = purgatory THEN f[i - 1]
                                   ELSE Append(f[i - 1], segments[i])]
           Runs(f, k) == f[0] = <<>> /\ \A i \in 1..k : f[i] = Step(f, i)
           E == {k \in 0..n : \E f \in [0..k -> Seq(V)] : Runs(f, k)}
<1>1. n \in Nat /\ \A i \in 1..n : segments[i] \in Segments
  OBVIOUS
<1> HIDE DEF n
<1>2. 0 \in E
  <2> DEFINE f == [i \in 0..0 |-> <<>>]
  <2>1. f \in [0..0 -> Seq(V)] /\ f[0] = <<>>
    <3> HIDE DEF V
    <3> QED
      OBVIOUS
  <2>2. \A i \in 1..0 : f[i] = Step(f, i)
    OBVIOUS
  <2>3. 0 \in 0..n
    BY <1>1
  <2> HIDE DEF f, Step, V
  <2> QED
    BY <2>1, <2>2, <2>3, Zenon
<1>3. ASSUME NEW k \in 0..n - 1, k \in E PROVE k + 1 \in E
  <2>1. PICK f \in [0..k -> Seq(V)] : Runs(f, k)
    BY <1>3
  <2> DEFINE x == segments[k + 1]
             next == IF x.mem = purgatory THEN f[k] ELSE Append(f[k], x)
             h == [i \in 0..k + 1 |-> IF i <= k THEN f[i] ELSE next]
  <2>2. k \in 0..k /\ k + 1 \in 1..n /\ k + 1 \in 0..n /\ (k + 1) - 1 = k
    BY <1>1
  <2>3. x \in Segments /\ (x.mem # purgatory => x \in V)
    BY <1>1, <2>2
  <2>4. f[k] \in Seq(V)
    BY <2>2, Zenon
  <2> HIDE DEF V, x
  <2>5. next \in Seq(V)
    BY <2>3, <2>4
  <2> HIDE DEF next
  <2>6. h \in [0..k + 1 -> Seq(V)] /\ h[0] = f[0]
    BY <2>5
  <2>7. ASSUME NEW i \in 1..k + 1 PROVE h[i] = Step(h, i)
    <3>1. h[i - 1] = f[i - 1]
      OBVIOUS
    <3>2. CASE i = k + 1
      <4>1. h[i] = next
        BY <3>2
      <4> QED
        BY <2>2, <3>1, <3>2, <4>1, Zenon DEF next, x
    <3>3. CASE i # k + 1
      <4>1. i \in 1..k /\ h[i] = f[i]
        BY <3>3
      <4> QED
        BY <2>1, <3>1, <4>1, Zenon
    <3> QED
      BY <3>2, <3>3
  <2> HIDE DEF h
  <2>8. Runs(h, k + 1)
    BY <2>1, <2>6, <2>7, Zenon
  <2> HIDE DEF Runs
  <2> QED
    BY <2>2, <2>6, <2>8, Zenon
<1>4. n \in E
  <2>1. \A k \in 0..n - 1 : k \in E => k + 1 \in E
    BY <1>3
  <2> HIDE DEF E
  <2> QED
    BY <1>1, <1>2, <2>1, UpTo, Zenon
<1>5. PICK g \in [0..n -> Seq(V)] : Runs(g, n)
  BY <1>4
<1> HIDE DEF V
<1>6. g = C(g)
  <2>1. ASSUME NEW i \in 0..n
        PROVE  g[i] = IF i = 0 THEN <<>>
                      ELSE IF segments[i].mem = purgatory THEN g[i - 1]
                      ELSE Append(g[i - 1], segments[i])
    <3>1. CASE i = 0
      BY <1>5, <3>1, Zenon
    <3>2. CASE i # 0
      <4>1. i \in 1..n
        BY <1>1, <3>2
      <4> QED
        BY <1>5, <3>2, <4>1, Zenon
    <3> QED
      BY <3>1, <3>2
  <2>2. g = [i \in 0..n |-> g[i]]
    OBVIOUS
  <2> QED
    BY <2>1, <2>2, Zenon
<1>7. PICK f : f = C(f) /\ KeptBy(segments, purgatory) = f[n]
  BY <1>6, Zenon DEF KeptBy, n
<1>8. n \in {k \in 0..n : f[k] = g[k]}
  <2> DEFINE T == {k \in 0..n : f[k] = g[k]}
  <2>1. 0 \in T
    <3>1. 0 \in 0..n
      BY <1>1
    <3>2. f[0] = <<>> /\ g[0] = <<>>
      BY <1>5, <1>7, <3>1, Zenon
    <3> QED
      BY <3>1, <3>2, Zenon
  <2>2. ASSUME NEW k \in 0..n - 1, k \in T PROVE k + 1 \in T
    <3>1. k + 1 \in 0..n /\ k + 1 \in 1..n /\ k + 1 # 0 /\ (k + 1) - 1 = k
      BY <1>1
    <3>2. f[k] = g[k]
      BY <2>2, Zenon
    <3>3. f[k + 1] = IF segments[k + 1].mem = purgatory THEN f[(k + 1) - 1]
                     ELSE Append(f[(k + 1) - 1], segments[k + 1])
      BY <1>7, <3>1, Zenon
    <3>4. g[k + 1] = IF segments[k + 1].mem = purgatory THEN g[(k + 1) - 1]
                     ELSE Append(g[(k + 1) - 1], segments[k + 1])
      BY <1>5, <3>1, Zenon
    <3> QED
      BY <3>1, <3>2, <3>3, <3>4, Zenon
  <2>3. \A k \in 0..n - 1 : k \in T => k + 1 \in T
    BY <2>2
  <2> HIDE DEF T
  <2>4. n \in T
    BY <1>1, <2>1, <2>3, UpTo, Zenon
  <2> QED
    BY <2>4, Zenon DEF T
<1>9. g[n] \in Seq(V)
  BY <1>8, Zenon
<1> QED
  BY <1>7, <1>8, <1>9, Zenon DEF V

LEMMA KernelSegments ==
  ASSUME NEW k \in Kernels
  PROVE  k.segments \in Seq(Segments)
<1> DEFINE R == [mem: Nat, buf: Seq(0..ByteSize - 1), memsz: 0..TotalWord - 1]
<1>1. /\ k \in [name: STRING, types: SUBSET STRING, purgatory: Nat, segments: Seq(R)]
      /\ \A i \in DOMAIN k.segments : Len(k.segments[i].buf) <= k.segments[i].memsz
  BY KernelAssumption, Zenon
<1> HIDE DEF R
<1>2. k.segments \in Seq(R)
  BY <1>1
<1>3. ASSUME NEW i \in 1..Len(k.segments) PROVE k.segments[i] \in Segments
  <2>1. k.segments[i] \in R /\ i \in DOMAIN k.segments
    BY <1>2
  <2> QED
    BY <1>1, <2>1, Zenon DEF Segments, R
<1> QED
  BY <1>2, <1>3

(* The memory purgatory will find, segment by segment.                     *)
Regions(k) == [i \in DOMAIN Hashed(k) |-> Contents(Hashed(k)[i])]

LEMMA HashedAre ==
  ASSUME NEW k \in Kernels
  PROVE  /\ Hashed(k) \in Seq(Segments)
         /\ \A i \in DOMAIN Hashed(k) : Hashed(k)[i].mem # k.purgatory
<1> DEFINE V == {s \in Segments : s.mem # k.purgatory}
<1>1. Hashed(k) \in Seq(V)
  BY KernelSegments, KeptAre, HashedBy, Zenon
<1>2. \A s \in V : s \in Segments /\ s.mem # k.purgatory
  OBVIOUS
<1> HIDE DEF V
<1>3. \A i \in DOMAIN Hashed(k) : Hashed(k)[i] \in V
  BY <1>1
<1>4. \A i \in DOMAIN Hashed(k) : Hashed(k)[i] \in Segments
  BY <1>2, <1>3, Zenon
<1> QED
  BY <1>1, <1>2, <1>3, <1>4

(* update_purgatory and purgatory come to the same digest: the first hashes*)
(* buffers and null_buf, the second memory.                                *)
LEMMA SameDigest ==
  ASSUME NEW k \in Kernels
  PROVE  /\ Digest(FlattenSeq([i \in DOMAIN Hashed(k) |-> Pieces(Hashed(k)[i])]))
              = Reference(Regions(k))
         /\ Digest(Regions(k)) = Reference(Regions(k))
<1> DEFINE B == 0..ByteSize - 1
           h == Hashed(k)
           a == [i \in DOMAIN h |-> Pieces(h[i])]
           b == [i \in DOMAIN h |-> Contents(h[i])]
<1>1. h \in Seq(Segments)
  BY HashedAre, Zenon
<1> HIDE DEF h
<1>2. Len(h) \in Nat /\ DOMAIN h = 1..Len(h) /\ \A i \in 1..Len(h) : h[i] \in Segments
  BY <1>1
<1>3. \A i \in 1..Len(h) : /\ Pieces(h[i]) \in Seq(Piece)
                           /\ FlattenSeq(Pieces(h[i])) = Contents(h[i])
                           /\ Contents(h[i]) \in Piece
  BY <1>2, PiecesAre, Zenon
<1>4. a \in Seq(Seq(Piece)) /\ Len(a) = Len(h) /\ \A i \in 1..Len(h) : a[i] = Pieces(h[i])
  BY <1>2, <1>3
<1>5. b \in Seq(Piece) /\ Len(b) = Len(h) /\ \A i \in 1..Len(h) : b[i] = Contents(h[i])
  BY <1>2, <1>3
<1> HIDE DEF a, b
<1>6. FlattenSeq(a) \in Seq(Piece)
  BY <1>4, FlattenType, Zenon
<1>7. Digest(FlattenSeq(a)) = Reference(FlattenSeq(a)) /\ Digest(b) = Reference(b)
  BY <1>5, <1>6, StreamedDigest, Zenon
<1>8. FlattenSeq(FlattenSeq(a)) = FlattenSeq(b)
  <2> HIDE DEF B
  <2>0. Piece \subseteq Seq(B)
    BY DEF Piece, B
  <2>1. a \in Seq(Seq(Seq(B))) /\ b \in Seq(Seq(B))
    <3> HIDE DEF Piece
    <3>1. \A x \in Seq(Piece) : x \in Seq(Seq(B))
      BY <2>0
    <3>2. \A i \in 1..Len(a) : a[i] \in Seq(Piece)
      BY <1>4
    <3> QED
      BY <1>4, <1>5, <3>1, <3>2
  <2>2. Len(b) = Len(a) /\ \A i \in 1..Len(a) : b[i] = FlattenSeq(a[i])
    BY <1>3, <1>4, <1>5, Zenon
  <2> QED
    BY <2>1, <2>2, FlattenTwice, Zenon
<1>9. Reference(FlattenSeq(a)) = Reference(b)
  BY <1>8, Zenon DEF Reference
<1>10. Regions(k) = b
  BY Zenon DEF Regions, b, h
<1> QED
  BY <1>7, <1>9, <1>10, Zenon DEF a, h

LEMMA UpdatedIs ==
  ASSUME NEW k \in Kernels
  PROVE  /\ Updated(k).purgatory = k.purgatory /\ Updated(k).segments = k.segments
         /\ Hashed(Updated(k)) = Hashed(k)
         /\ k.purgatory # 0 => /\ Updated(k).regions = Hashed(k)
                               /\ Updated(k).digest = Reference(Regions(k))
<1>1. Updated(k).purgatory = k.purgatory /\ Updated(k).segments = k.segments
  BY Zenon DEF Updated
<1>2. k.purgatory # 0 =>
        /\ Updated(k).regions = Hashed(k)
        /\ Updated(k).digest =
             Digest(FlattenSeq([i \in DOMAIN Hashed(k) |-> Pieces(Hashed(k)[i])]))
  BY Zenon DEF Updated
<1>3. Hashed(Updated(k)) = Hashed(k)
  BY <1>1, HashedBy, Zenon
<1> QED
  BY <1>1, <1>2, <1>3, SameDigest, Zenon

-----------------------------------------------------------------------------
(* What the running kernel holds and purgatory finds *)

Image(x) == \E k \in Kernels : x = Updated(k)

ImageInv ==
  /\ kernel \in Kernels \cup {None}
  /\ \A s \in Slots : staged[s] = None \/ Image(staged[s])
  /\ pc = "purgatory" => Image(running)
  /\ pc = "stuck" => damaged

(* An image nobody wrote to has the digest update_purgatory gave it.       *)
LEMMA IntactMatches ==
  ASSUME ImageInv, pc = "purgatory", ~damaged, running.purgatory # 0
  PROVE  Digest(RegionPieces(running)) = running.digest
<1>1. PICK k \in Kernels : running = Updated(k)
  BY DEF ImageInv, Image
<1>2. running.purgatory = k.purgatory /\ running.regions = Hashed(k)
      /\ running.digest = Reference(Regions(k))
  BY <1>1, UpdatedIs, Zenon
<1>3. \A i \in DOMAIN Hashed(k) : Memory(Hashed(k)[i]) = Contents(Hashed(k)[i])
  BY <1>2, HashedAre, Zenon DEF Memory
<1>4. RegionPieces(running) = Regions(k)
  BY <1>2, <1>3, Zenon DEF RegionPieces, Regions
<1> QED
  BY <1>2, <1>4, SameDigest, Zenon

(* main's other steps leave the images alone.                              *)
LEMMA ImageKept ==
  ASSUME ImageInv, kernel' \in Kernels \cup {None}, staged' = staged,
         pc' \notin {"purgatory", "stuck"}
  PROVE  ImageInv'
  BY DEF ImageInv, Image

LEMMA OnwardStays ==
  ASSUME NEW n \in 1..7, NEW status, Onward(Steps[n], status)
  PROVE  pc' \notin {"purgatory", "stuck"}
<1>1. pc' \in {"unload", "load", "shutdown", "sync", "ifdown", "exec", "ended"}
  BY OnwardFacts
<1> QED
  BY <1>1

LEMMA ImageLoad ==
  ASSUME CommandInv, ImageInv, Load \/ Unload
  PROVE  ImageInv'
<1>1. kernel' = kernel /\ kernel \in Kernels \cup {None}
  BY DEF Load, Unload, command, ImageInv
<1>2. pc' \notin {"purgatory", "stuck"}
  <2>1. \E n \in 1..7 : \E status : Onward(Steps[n], status)
    BY StepFacts DEF Load, Unload
  <2> QED
    BY <2>1, OnwardStays
<1>3. \E x : /\ x = None \/ Image(x)
             /\ staged' = [staged EXCEPT ![Slot] = x] \/ staged' = staged
  <2>1. CASE Unload
    BY <2>1 DEF Unload
  <2>2. CASE Load
    <3>1. Image(Updated(kernel))
      BY <1>1, <2>2 DEF Load, Image
    <3> QED
      BY <2>2, <3>1 DEF Load
  <2> QED
    BY <2>1, <2>2
<1>4. ASSUME NEW s \in Slots PROVE staged'[s] = None \/ Image(staged'[s])
  <2>1. staged = [t \in Slots |-> staged[t]] /\ (staged[s] = None \/ Image(staged[s]))
    BY DEF CommandInv, SlotsInv, ImageInv
  <2> QED
    BY <1>3, <2>1
<1> QED
  BY <1>1, <1>2, <1>4 DEF ImageInv, Image

LEMMA ImageJump ==
  ASSUME ImageInv, Exec \/ Panic
  PROVE  ImageInv'
<1>1. PICK slot \in Slots : /\ staged[slot] # None /\ running' = staged[slot]
                            /\ pc' = "purgatory" /\ kernel' = kernel /\ staged' = staged
  BY DEF Exec, Panic, JumpTo, Slots, command
<1> QED
  BY <1>1 DEF ImageInv, Image

LEMMA ImagePurgatory ==
  ASSUME ImageInv, Purgatory
  PROVE  ImageInv'
<1>1. /\ pc = "purgatory" /\ pc' \in {"started", "stuck"}
      /\ kernel' = kernel /\ staged' = staged /\ damaged' = damaged
  BY DEF Purgatory, hardware, command
<1>2. pc' = "stuck" => damaged
  <2> SUFFICES ASSUME pc' = "stuck", ~damaged PROVE FALSE
    OBVIOUS
  <2>1. /\ running.purgatory # 0
        /\ \E differ \in Memcmp(Digest(RegionPieces(running)), running.digest) : differ # 0
    BY DEF Purgatory
  <2>2. Digest(RegionPieces(running)) = running.digest
    BY <1>1, <2>1, IntactMatches
  <2> QED
    BY <2>1, <2>2, Zenon DEF Memcmp
<1> QED
  BY <1>1, <1>2 DEF ImageInv, Image

LEMMA ImageNext ==
  ASSUME CommandInv, ImageInv, [Next]_vars
  PROVE  ImageInv'
<1>0. kernel \in Kernels \cup {None}
  BY DEF ImageInv
<1>1. CASE Invoke \/ ParseOption
  <2>1. kernel' \in Kernels \cup {None} /\ staged' = staged /\ pc' \notin {"purgatory", "stuck"}
    BY <1>0, <1>1 DEF Invoke, ParseOption, Exit
  <2> QED
    BY <2>1, ImageKept
<1>2. CASE ArchOptions \/ LoadFails \/ LoadDies \/ Shutdown \/ Sync \/ IfdownStarts
           \/ IfdownVisits \/ IfdownEnds \/ ExecFails
  <2>1. kernel' = kernel /\ staged' = staged
    BY <1>2 DEF ArchOptions, LoadFails, LoadDies, Shutdown, Sync, IfdownStarts, IfdownVisits,
       IfdownEnds, ExecFails, command
  <2>2. \A status : /\ Onward("arch", status) => pc' \notin {"purgatory", "stuck"}
                    /\ Onward("load", status) => pc' \notin {"purgatory", "stuck"}
                    /\ Onward("shutdown", status) => pc' \notin {"purgatory", "stuck"}
                    /\ Onward("sync", status) => pc' \notin {"purgatory", "stuck"}
                    /\ Onward("ifdown", status) => pc' \notin {"purgatory", "stuck"}
    BY StepFacts, OnwardStays
  <2>3. pc' \notin {"purgatory", "stuck"}
    BY <1>2, <2>2 DEF ArchOptions, LoadFails, LoadDies, Shutdown, Sync, IfdownStarts,
       IfdownVisits, IfdownEnds, ExecFails, Exit
  <2> QED
    BY <1>0, <2>1, <2>3, ImageKept
<1>3. CASE Wait
  BY <1>3, ImageKept DEF Wait, NoProcess
<1>4. CASE Boot
  BY <1>4 DEF Boot, NoProcess, ImageInv
<1>5. CASE UNCHANGED vars
  BY <1>5 DEF vars, ImageInv, Image
<1> QED
  BY <1>1, <1>2, <1>3, <1>4, <1>5, ImageLoad, ImageJump, ImagePurgatory DEF Next

LEMMA ImageInvariant == Spec => []ImageInv
<1>1. Init => ImageInv
  BY DEF Init, ImageInv
<1>2. CommandInv /\ ImageInv /\ [Next]_vars => ImageInv'
  BY ImageNext
<1> QED
  BY <1>1, <1>2, CommandInvariant, PTL DEF Spec

(* update_purgatory and sha256.c: for every kernel, block, null_buf and    *)
(* word size, the digest left for purgatory is the reference's digest of   *)
(* the memory the image will occupy.                                       *)
THEOREM DigestOfMemory == Spec => []DigestIsReference
<1>1. ImageInv => DigestIsReference
  <2> SUFFICES ASSUME ImageInv, NEW s \in Slots, staged[s] # None, staged[s].purgatory # 0
               PROVE  staged[s].digest =
                        Reference([i \in DOMAIN Hashed(staged[s]) |->
                                     Contents(Hashed(staged[s])[i])])
    BY Zenon DEF DigestIsReference
  <2>1. PICK k \in Kernels : staged[s] = Updated(k)
    BY DEF ImageInv, Image
  <2>2. staged[s].digest = Reference(Regions(k)) /\ Hashed(staged[s]) = Hashed(k)
    BY <2>1, UpdatedIs, Zenon
  <2> QED
    BY <2>2, Zenon DEF Regions
<1> QED
  BY <1>1, ImageInvariant, PTL

(* verify_sha256_digest: purgatory never holds up an image that is as      *)
(* kexec loaded it, although the two cut it into pieces differently.       *)
THEOREM IntactImageStarts == Spec => []IntactStarts
<1>1. ImageInv => IntactStarts
  BY DEF ImageInv, IntactStarts
<1> QED
  BY <1>1, ImageInvariant, PTL
==============================================================================

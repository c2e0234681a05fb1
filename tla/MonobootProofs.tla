--------------------------- MODULE MonobootProofs ---------------------------
(***************************************************************************)
(* Proofs about Monoboot, for every set of tags, files and administrator's *)
(* configurations.  The facts about mb.conf need one invariant, StoreInv,  *)
(* that says what the three files hold at each point of cmd_write.  Then   *)
(* the wait for a key: what get_keypress guarantees for every delay.       *)
(***************************************************************************)
EXTENDS Monoboot, Keypress, FiniteSetTheorems, TLAPS

USE DEF SavesCap

(* The options of an image section, as the parser returns them.            *)
LEMMA ImageFields ==
  ASSUME NEW conf \in Config, NEW n \in DOMAIN conf.images
  PROVE  conf.images[n].title \in Tags /\ conf.images[n].filename \in Files
<1>1. conf.images \in Seq(Image)
  BY DEF Config
<1>2. conf.images[n] \in Image
  BY <1>1
<1> QED
  BY <1>2 DEF Image

(* monoinit's search yields a title of the configuration, or nothing.      *)
LEMMA OwnTitleType ==
  ASSUME NEW conf \in Config, NEW file, NEW t \in OwnTitle(conf, file)
  PROVE  t \in Tags \cup {None}
<1> DEFINE own == {n \in DOMAIN conf.images : <<file, conf.images[n].filename>> \in PrefixOf}
<1>1. CASE own = {}
  BY <1>1 DEF OwnTitle
<1>2. CASE own # {}
  <2>1. PICK n \in DOMAIN conf.images : t = conf.images[n].title
    BY <1>2 DEF OwnTitle
  <2> QED
    BY <2>1, ImageFields
<1> QED
  BY <1>1, <1>2

(* A configuration stays one when an option is assigned.                   *)
LEMMA ConfigUpdate ==
  ASSUME NEW conf \in Config, NEW o1 \in Option, NEW o2 \in Option
  PROVE  /\ [conf EXCEPT !.tryonce = o1] \in Config
         /\ [conf EXCEPT !.lasttry = o1, !.lastboot = o2] \in Config
BY DEF Config

LEMMA DefaultsIsConfig == Defaults \in Config
<1>1. <<>> \in Seq(Image)
  OBVIOUS
<1> QED
  BY <1>1 DEF Defaults, Config, Option, Names

LEMMA TypeInit == Init => TypeOK
<1> SUFFICES ASSUME Init PROVE TypeOK
  OBVIOUS
<1>1. authored \in Content
  BY AuthoredAssumption DEF Init, Content
<1>2. interact \in BOOLEAN /\ failed \in BOOLEAN
  BY Zenon DEF Init
<1> QED
  BY <1>1, <1>2, DefaultsIsConfig DEF Init, TypeOK, PC, Content

LEMMA TypeNext == TypeOK /\ [Next]_vars => TypeOK'
<1> SUFFICES ASSUME TypeOK, [Next]_vars PROVE TypeOK'
  OBVIOUS
<1> USE DEF session, image, history, PC
<1>1. CASE LoadConfig
  <2>1. cfg' \in Config
    BY <1>1 DEF LoadConfig, ConfFile, TypeOK, Content
  <2>2. pc' \in PC
    BY <1>1 DEF LoadConfig
  <2>3. interact' \in BOOLEAN
    BY <1>1, Zenon DEF LoadConfig, TypeOK
  <2> QED
    BY <1>1, <2>1, <2>2, <2>3 DEF LoadConfig, TypeOK
<1>2. CASE CheckLast
  <2>1. cfg' \in Config
    BY <1>2, ConfigUpdate DEF CheckLast, TypeOK, Option
  <2>2. BootImage(cfg) \in Option
    BY DEF BootImage, TypeOK, Config
  <2> QED
    BY <1>2, <2>1, <2>2 DEF CheckLast, TypeOK
<1>3. ASSUME NEW pressed \in BOOLEAN, Keypress(pressed) PROVE TypeOK'
  BY <1>3 DEF Keypress, TypeOK
<1>4. CASE BootNoSuchTag
  BY <1>4 DEF BootNoSuchTag, BootReturns, TypeOK
<1>5. CASE BootTag
  <2>1. ImageTag \in Option
    BY DEF ImageTag, TypeOK, Config
  <2>2. cfg' \in Config
    BY <1>5, <2>1, ConfigUpdate DEF BootTag, TypeOK, Option, Names
  <2> QED
    BY <1>5, <2>1, <2>2 DEF BootTag, TypeOK
<1>6. CASE BootLoadFails
  BY <1>6 DEF BootLoadFails, BootReturns, TypeOK
<1>7. CASE KexecExec
  BY <1>7 DEF KexecExec, TypeOK
<1>8. CASE KexecExecFails
  BY <1>8 DEF KexecExecFails, TypeOK
<1>9. ASSUME NEW file \in Files, BootLoad(file) PROVE TypeOK'
  BY <1>9 DEF BootLoad, TypeOK, Staged
<1>10. CASE WriteOpen
  BY <1>10 DEF WriteOpen, TypeOK, DiskImage
<1>11. CASE WriteOpenFails
  BY <1>11 DEF WriteOpenFails, WriteReturns, TypeOK
<1>12. CASE RenameOld
  <2>1. disk' \in [conf: Content \cup {Absent}, new: {Defaults, Absent}, old: Content \cup {Absent}]
    BY <1>12 DEF RenameOld, TypeOK
  <2>2. saves' \in 0..SavesCap
    BY <1>12 DEF RenameOld, TypeOK, Counted
  <2>3. failed' \in BOOLEAN
    BY <1>12, Zenon DEF RenameOld, TypeOK
  <2> QED
    BY <1>12, <2>1, <2>2, <2>3 DEF RenameOld, TypeOK
<1>13. CASE RenameNew
  <2>1. disk'.conf \in Content \cup {Absent}
    BY <1>13, DefaultsIsConfig DEF RenameNew, TypeOK, Content
  <2>2. disk' \in [conf: Content \cup {Absent}, new: {Defaults, Absent}, old: Content \cup {Absent}]
    BY <1>13, <2>1 DEF RenameNew, TypeOK
  <2>3. failed' \in BOOLEAN
    BY <1>13, Zenon DEF RenameNew, TypeOK
  <2> QED
    BY <1>13, <2>2, <2>3 DEF RenameNew, WriteReturns, TypeOK
<1>14. ASSUME NEW name \in {"monoboot", "mbsh", "mbnet"},
              NEW mnt \in SUBSET {"config", "images"}, Start(name, mnt)
       PROVE  TypeOK'
  BY <1>14, DefaultsIsConfig DEF Start, TypeOK
<1>15. ASSUME NEW words \in Words, ShellBoot(words) PROVE TypeOK'
  <2>1. words \in Seq(Tags)
    <3>1. CASE words = <<>>
      BY <3>1
    <3>2. ASSUME NEW t \in Tags, words = <<t>> PROVE words \in Seq(Tags)
      BY <3>2
    <3>3. ASSUME NEW t \in Tags, NEW u \in Tags, words = <<t, u>>
          PROVE  words \in Seq(Tags)
      BY <3>3
    <3> QED
      BY <3>1, <3>2, <3>3 DEF Words
  <2>2. arg' \in Option \cup {NoArg} /\ asked' \in Option \cup {NoArg}
    BY <1>15, <2>1 DEF ShellBoot, Option, Names
  <2> QED
    BY <1>15, <2>2 DEF ShellBoot, TypeOK
<1>16. CASE ShellWrite
  BY <1>16 DEF ShellWrite, TypeOK
<1>17. CASE ShellShowStart
  BY <1>17 DEF ShellShowStart, TypeOK
<1>18. CASE ShellQuit
  BY <1>18 DEF ShellQuit, TypeOK
<1>19. ASSUME NEW ok \in BOOLEAN, ShellShowDisk(ok) PROVE TypeOK'
  BY <1>19 DEF ShellShowDisk, TypeOK
<1>20. ASSUME NEW content \in Authored, EditConfig(content) PROVE TypeOK'
  <2>1. content \in Content
    BY AuthoredAssumption DEF Content
  <2>2. failed' \in BOOLEAN
    BY <1>20, Zenon DEF EditConfig
  <2> QED
    BY <1>20, <2>1, <2>2 DEF EditConfig, TypeOK
<1>21. ASSUME NEW file \in Files, HandKexec(file) PROVE TypeOK'
  BY <1>21 DEF HandKexec, TypeOK, Staged
<1>22. ASSUME NEW mounts \in BOOLEAN, Monoinit(mounts) PROVE TypeOK'
  <2>1. lastboot' \in Tags \cup {None}
    BY <1>22, OwnTitleType DEF Monoinit, TypeOK, Content
  <2> QED
    BY <1>22, <2>1 DEF Monoinit, TypeOK
<1>23. CASE PowerLoss
  BY <1>23, DefaultsIsConfig DEF PowerLoss, TypeOK
<1>24. CASE UNCHANGED vars
  BY <1>24 DEF vars, TypeOK
<1> QED
  BY <1>1, <1>2, <1>3, <1>4, <1>5, <1>6, <1>7, <1>8, <1>9, <1>10, <1>11, <1>12,
     <1>13, <1>14, <1>15, <1>16, <1>17, <1>18, <1>19, <1>20, <1>21, <1>22, <1>23,
     <1>24 DEF Next, Run, Operator

(* Every variable of monoboot, its files and its image keeps its type.     *)
THEOREM TypeCorrect == Spec => []TypeOK
BY TypeInit, TypeNext, PTL DEF Spec

-----------------------------------------------------------------------------
(* Where mb.conf is known to exist if no rename has failed: from           *)
(* load_config to kexec, except between the two renames of cmd_write.      *)
HasConf == {"keypress", "check_last", "shell", "boot", "fopen", "rename_old",
            "load", "exec"}

(* What the three files hold, at every point a power failure may strike.   *)
StoreInv ==
  /\ ~failed /\ pc \in HasConf => disk.conf # Absent
  /\ pc \in {"rename_old", "rename_new"} => disk.new = Defaults
  /\ ~failed /\ pc = "rename_new" => disk.conf = Absent
  /\ disk.conf = Absent => disk.new = Defaults /\ disk.old # Absent
  /\ ~failed /\ saves = 0 => disk.conf = authored
  /\ ~failed /\ saves = 1 => authored \in {disk.conf, disk.old}
  /\ RunningImageSeesConfig

LEMMA StoreInit == Init => StoreInv
BY AuthoredAssumption, SentinelsDistinct
   DEF Init, StoreInv, HasConf, RunningImageSeesConfig

LEMMA ContentPresent == ASSUME NEW conf \in Content PROVE conf # Absent
BY SentinelsDistinct DEF Content

LEMMA StoreNext == TypeOK /\ StoreInv /\ [Next]_vars => StoreInv'
<1> SUFFICES ASSUME TypeOK, StoreInv, [Next]_vars PROVE StoreInv'
  OBVIOUS
<1> USE DEF session, image, history, HasConf, RunningImageSeesConfig
<1>0. Defaults # Absent
  BY DefaultsIsConfig, SentinelsDistinct
<1>1. CASE LoadConfig
  BY <1>1 DEF LoadConfig, ConfFile, StoreInv
<1>2. CASE CheckLast
  BY <1>2 DEF CheckLast, StoreInv
<1>3. ASSUME NEW pressed \in BOOLEAN, Keypress(pressed) PROVE StoreInv'
  BY <1>3 DEF Keypress, StoreInv
<1>4. CASE BootNoSuchTag
  BY <1>4 DEF BootNoSuchTag, BootReturns, StoreInv
<1>5. CASE BootTag
  BY <1>5 DEF BootTag, StoreInv
<1>6. CASE BootLoadFails
  BY <1>6 DEF BootLoadFails, BootReturns, StoreInv
<1>7. CASE KexecExec
  BY <1>7 DEF KexecExec, StoreInv
<1>8. CASE KexecExecFails
  BY <1>8 DEF KexecExecFails, StoreInv
<1>9. ASSUME NEW file \in Files, BootLoad(file) PROVE StoreInv'
  BY <1>9 DEF BootLoad, StoreInv
<1>10. CASE WriteOpen
  BY <1>10 DEF WriteOpen, StoreInv, DiskImage, TypeOK
<1>11. CASE WriteOpenFails
  BY <1>11 DEF WriteOpenFails, WriteReturns, StoreInv
<1>12. CASE RenameOld
  <2>1. CASE disk' = disk /\ failed' = (failed \/ disk.conf # Absent)
    <3>1. failed'
      BY <1>12, <2>1 DEF RenameOld, StoreInv
    <3> QED
      BY <1>12, <2>1, <3>1 DEF RenameOld, StoreInv
  <2>2. CASE /\ disk.conf # Absent /\ failed' = failed
             /\ disk' = [disk EXCEPT !.old = disk.conf, !.conf = Absent]
    <3>1. disk'.conf = Absent /\ disk'.old = disk.conf /\ disk'.new = disk.new
      BY <2>2 DEF TypeOK
    <3>2. saves' # 0 /\ (saves' = 1 => saves = 0)
      BY <1>12 DEF RenameOld, TypeOK, Counted
    <3> QED
      BY <1>12, <2>2, <3>1, <3>2 DEF RenameOld, StoreInv
  <2> QED
    BY <1>12, <2>1, <2>2 DEF RenameOld
<1>13. CASE RenameNew
  <2>1. CASE disk' = disk /\ failed' = TRUE
    BY <1>13, <2>1 DEF RenameNew, WriteReturns, StoreInv
  <2>2. CASE disk' = [disk EXCEPT !.conf = disk.new, !.new = Absent] /\ failed' = failed
    <3>1. disk'.conf = Defaults /\ disk'.old = disk.old
      BY <1>13, <2>2 DEF RenameNew, StoreInv, TypeOK
    <3>2. authored # Absent
      BY ContentPresent DEF TypeOK
    <3> QED
      BY <1>0, <1>13, <2>2, <3>1, <3>2 DEF RenameNew, WriteReturns, StoreInv
  <2> QED
    BY <1>13, <2>1, <2>2 DEF RenameNew
<1>14. ASSUME NEW name \in {"monoboot", "mbsh", "mbnet"},
              NEW mnt \in SUBSET {"config", "images"}, Start(name, mnt)
       PROVE  StoreInv'
  BY <1>14 DEF Start, StoreInv
<1>15. ASSUME NEW words \in Words, ShellBoot(words) PROVE StoreInv'
  BY <1>15 DEF ShellBoot, StoreInv
<1>16. CASE ShellWrite
  BY <1>16 DEF ShellWrite, StoreInv
<1>17. CASE ShellShowStart
  BY <1>17 DEF ShellShowStart, StoreInv
<1>18. CASE ShellQuit
  BY <1>18 DEF ShellQuit, StoreInv
<1>19. ASSUME NEW ok \in BOOLEAN, ShellShowDisk(ok) PROVE StoreInv'
  BY <1>19 DEF ShellShowDisk, StoreInv
<1>20. ASSUME NEW content \in Authored, EditConfig(content) PROVE StoreInv'
  <2>1. content # Absent
    BY AuthoredAssumption, ContentPresent DEF Content
  <2> QED
    BY <1>20, <2>1 DEF EditConfig, StoreInv, TypeOK
<1>21. ASSUME NEW file \in Files, HandKexec(file) PROVE StoreInv'
  BY <1>21 DEF HandKexec, StoreInv
<1>22. ASSUME NEW mounts \in BOOLEAN, Monoinit(mounts) PROVE StoreInv'
  BY <1>22 DEF Monoinit, StoreInv
<1>23. CASE PowerLoss
  BY <1>23 DEF PowerLoss, StoreInv
<1>24. CASE UNCHANGED vars
  BY <1>24 DEF vars, StoreInv
<1> QED
  BY <1>1, <1>2, <1>3, <1>4, <1>5, <1>6, <1>7, <1>8, <1>9, <1>10, <1>11, <1>12,
     <1>13, <1>14, <1>15, <1>16, <1>17, <1>18, <1>19, <1>20, <1>21, <1>22, <1>23,
     <1>24 DEF Next, Run, Operator

(* While no rename fails on its own, a power failure at any point leaves   *)
(* the administrator's mb.conf in one of two files until a second save.    *)
THEOREM AuthoredSurvives == Spec => []AuthoredRecoverable
<1>1. TypeOK /\ StoreInv => AuthoredRecoverable
  BY DEF TypeOK, StoreInv, AuthoredRecoverable
<1> QED
  BY <1>1, TypeInit, TypeNext, StoreInit, StoreNext, PTL DEF Spec

(* Whatever fails in cmd_write, a missing mb.conf means a save that can    *)
(* still be completed or undone.                                           *)
THEOREM InterruptedSaveSurvives == Spec => []InterruptedSaveCompletable
<1>1. StoreInv => InterruptedSaveCompletable
  BY DEF StoreInv, InterruptedSaveCompletable, DiskImage
<1> QED
  BY <1>1, TypeInit, TypeNext, StoreInit, StoreNext, PTL DEF Spec

(* While no rename fails on its own, an image monoboot boots never finds   *)
(* mb.conf missing.                                                        *)
THEOREM ImageSeesConfig == Spec => []RunningImageSeesConfig
<1>1. StoreInv => RunningImageSeesConfig
  BY DEF StoreInv
<1> QED
  BY <1>1, TypeInit, TypeNext, StoreInit, StoreNext, PTL DEF Spec

-----------------------------------------------------------------------------
(* The refinement: mb.conf, or mb.conf.new where it is missing, is         *)
(* replaced in the step that renames mb.conf away.                         *)

LEMMA StoreStep ==
  ASSUME TypeOK, StoreInv, [Next]_vars
  PROVE  [Store!Next]_<<IF disk.conf = Absent THEN disk.new ELSE disk.conf, disk.old, failed>>
<1> DEFINE cur == IF disk.conf = Absent THEN disk.new ELSE disk.conf
<1> USE DEF session, image, history
<1>1. CASE disk' = disk /\ failed' = failed
  BY <1>1
<1>2. CASE WriteOpen
  <2>1. disk'.conf = disk.conf /\ disk'.old = disk.old /\ disk'.new = Defaults
    BY <1>2 DEF WriteOpen, DiskImage, TypeOK
  <2>2. failed' = failed
    BY <1>2 DEF WriteOpen
  <2> QED
    BY <2>1, <2>2 DEF StoreInv
<1>3. CASE RenameOld
  <2>1. CASE disk' = disk /\ failed' = (failed \/ disk.conf # Absent)
    <3>1. failed'
      BY <1>3, <2>1 DEF RenameOld, StoreInv, HasConf
    <3>2. failed' = TRUE
      BY <2>1, <3>1, Zenon DEF TypeOK
    <3> QED
      BY <2>1, <3>2 DEF Store!Next, Store!Fail
  <2>2. CASE /\ disk.conf # Absent /\ failed' = failed
             /\ disk' = [disk EXCEPT !.old = disk.conf, !.conf = Absent]
    <3>1. disk'.conf = Absent /\ disk'.old = disk.conf /\ disk'.new = Defaults
      BY <1>3, <2>2 DEF RenameOld, StoreInv, TypeOK
    <3>2. cur' = Defaults /\ disk'.old = cur
      BY <2>2, <3>1
    <3> QED
      BY <2>2, <3>2 DEF Store!Next, Store!Save
  <2> QED
    BY <1>3, <2>1, <2>2 DEF RenameOld
<1>4. CASE RenameNew
  <2>1. CASE disk' = disk /\ failed' = TRUE
    BY <2>1 DEF Store!Next, Store!Fail
  <2>2. CASE disk' = [disk EXCEPT !.conf = disk.new, !.new = Absent] /\ failed' = failed
    <3>1. disk.new = Defaults /\ (failed \/ disk.conf = Absent)
      BY <1>4 DEF RenameNew, StoreInv
    <3>2. disk'.conf = Defaults /\ disk'.old = disk.old
      BY <2>2, <3>1 DEF TypeOK
    <3>3. cur' = Defaults
      BY <3>2, DefaultsIsConfig, SentinelsDistinct
    <3>4. CASE disk.conf = Absent
      BY <2>2, <3>1, <3>2, <3>3, <3>4
    <3>5. CASE failed
      BY <2>2, <3>2, <3>3, <3>5 DEF Store!Next, Store!SaveOver
    <3> QED
      BY <3>1, <3>4, <3>5
  <2> QED
    BY <1>4, <2>1, <2>2 DEF RenameNew
<1>5. ASSUME NEW content \in Authored, EditConfig(content)
      PROVE  Store!Edit
  <2>1. content # Absent
    BY AuthoredAssumption, ContentPresent DEF Content
  <2>2. disk'.conf = content /\ disk'.old = disk.old /\ failed' = FALSE
    BY <1>5 DEF EditConfig, TypeOK
  <2> QED
    BY <2>1, <2>2 DEF Store!Edit
<1> QED
  BY <1>1, <1>2, <1>3, <1>4, <1>5
  DEF Next, Run, Operator, vars, Store!Next, LoadConfig, CheckLast, Keypress, BootNoSuchTag,
      BootTag, BootLoadFails, KexecExec, KexecExecFails, BootLoad, WriteOpenFails,
      Start, ShellBoot, ShellWrite, ShellShowStart, ShellQuit, ShellShowDisk,
      HandKexec, Monoinit, PowerLoss

(* Whatever fails, cmd_write implements an atomic replacement, as seen by  *)
(* a reader that completes an interrupted save.                            *)
THEOREM SaveRefinesStore == Spec => SaveIsAtomic
<1>1. Init => Store!Init
  <2> SUFFICES ASSUME Init PROVE Store!Init
    OBVIOUS
  <2>1. disk.conf = authored /\ disk.old = Absent /\ authored \in Authored
    BY DEF Init
  <2>2. authored # Absent
    BY <2>1, AuthoredAssumption, ContentPresent DEF Content
  <2>3. failed = FALSE
    BY DEF Init
  <2> QED
    BY <2>1, <2>2, <2>3 DEF Store!Init
<1>2. TypeOK /\ StoreInv /\ [Next]_vars
      => [Store!Next]_<<IF disk.conf = Absent THEN disk.new ELSE disk.conf, disk.old, failed>>
  BY StoreStep
<1> QED
  BY <1>1, <1>2, TypeInit, TypeNext, StoreInit, StoreNext, PTL
  DEF Spec, SaveIsAtomic, Store!Spec

-----------------------------------------------------------------------------
(* get_keypress, for every delay and whatever is typed *)

(* An alarm is only ever pending while sig_alrm is installed to take it,   *)
(* and the terminal is raw only inside the call.                           *)
AlarmHasHandler ==
  /\ armed => handler
  /\ at = "alarm" => handler
  /\ at \notin {"killed", "undefined"} \/ ~armed

TerminalInv ==
  /\ at \in {"enter", "ended", "failed", "returned", "undefined"} => canonical
  /\ at = "enter" => ~armed

NulSeen == \E n \in DOMAIN read : read[n] = "nul"

(* An alarm is pending outside the wait only after a NUL.                  *)
AlarmInv ==
  /\ /\ at \in {"while", "signal", "alarm", "expired", "refused", "ended", "failed"}
     /\ armed
     => NulSeen
  /\ at = "test" /\ armed /\ c = "nul" => NulSeen
  /\ at = "got" /\ got = "nul" => NulSeen
  /\ at = "returned" /\ armed => NulSeen /\ ret # "key"
  /\ at = "undefined" => NulSeen
  /\ at = "enter" => ~armed
  /\ read \in Seq(Key) /\ input \in Seq(Key) /\ got \in Key

(* The wait is never killed by its own alarm: signal() comes before every  *)
(* alarm() in get_keypress's loop.                                         *)
THEOREM WaitSurvives == WaitSpec => []NeverKilled
<1> DEFINE Inv == AlarmHasHandler /\ NeverKilled
<1>1. WaitInit => Inv
  BY DEF WaitInit, AlarmHasHandler, NeverKilled
<1>2. Inv /\ [WaitNext]_waitvars => Inv'
  <2> SUFFICES ASSUME Inv, [WaitNext]_waitvars PROVE Inv'
    OBVIOUS
  <2> USE DEF AlarmHasHandler, NeverKilled, waited
  <2>1. CASE Enter
    BY <2>1 DEF Enter, Return
  <2>2. CASE While
    BY <2>2 DEF While
  <2>3. CASE GiveUp
    BY <2>3 DEF GiveUp, Return
  <2>4. CASE Signal
    BY <2>4 DEF Signal
  <2>5. CASE SignalFails
    BY <2>5 DEF SignalFails, Return
  <2>6. CASE Alarm
    BY <2>6 DEF Alarm
  <2>7. CASE GetChar
    BY <2>7 DEF GetChar
  <2>8. CASE Assign
    BY <2>8 DEF Assign
  <2>9. CASE TestNothing
    BY <2>9 DEF TestNothing
  <2>10. CASE TestKey
    BY <2>10 DEF TestKey, Return
  <2>11. CASE Fire
    BY <2>11 DEF Fire, LongJmp
  <2>12. CASE \E k \in Keys : Type(k)
    BY <2>12 DEF Type
  <2>13. CASE UNCHANGED waitvars
    BY <2>13 DEF waitvars
  <2>14. CASE Restore \/ Leave
    BY <2>14 DEF Restore, Leave, Return
  <2> QED
    BY <2>1, <2>2, <2>3, <2>4, <2>5, <2>6, <2>7, <2>8, <2>9, <2>10, <2>11, <2>12,
       <2>13, <2>14 DEF WaitNext, Program
<1> QED
  BY <1>1, <1>2, PTL DEF WaitSpec

(* set_canonical(1) is reached on every way out of get_keypress.           *)
THEOREM TerminalAlwaysRestored == WaitSpec => []TerminalRestored
<1>1. WaitInit => TerminalInv
  BY DEF WaitInit, TerminalInv
<1>2. TerminalInv /\ [WaitNext]_waitvars => TerminalInv'
  <2> SUFFICES ASSUME TerminalInv, [WaitNext]_waitvars PROVE TerminalInv'
    OBVIOUS
  <2> USE DEF TerminalInv, waited
  <2>1. CASE Enter
    BY <2>1 DEF Enter, Return
  <2>2. CASE GiveUp \/ SignalFails \/ Restore \/ Leave \/ TestKey
    BY <2>2 DEF GiveUp, SignalFails, Restore, Leave, TestKey, Return
  <2>3. CASE While \/ Signal \/ Alarm \/ GetChar \/ Assign \/ TestNothing
    BY <2>3 DEF While, Signal, Alarm, GetChar, Assign, TestNothing
  <2>4. CASE Fire
    BY <2>4 DEF Fire, LongJmp
  <2>5. CASE (\E k \in Keys : Type(k)) \/ UNCHANGED waitvars
    BY <2>5 DEF Type, waitvars
  <2> QED
    BY <2>1, <2>2, <2>3, <2>4, <2>5 DEF WaitNext, Program
<1>3. TerminalInv => TerminalRestored
  BY DEF TerminalInv, TerminalRestored
<1> QED
  BY <1>1, <1>2, <1>3, PTL DEF WaitSpec

LEMMA AlarmInit == WaitInit => AlarmInv
  BY DEF WaitInit, AlarmInv, Key

LEMMA AlarmStep == AlarmInv /\ [WaitNext]_waitvars => AlarmInv'
<1> SUFFICES ASSUME AlarmInv, [WaitNext]_waitvars PROVE AlarmInv'
  OBVIOUS
<1> USE DEF AlarmInv, NulSeen, waited
<1>1. CASE Enter
  BY <1>1 DEF Enter, Return
<1>2. CASE GiveUp \/ SignalFails \/ Restore \/ Leave \/ TestKey
  BY <1>2 DEF GiveUp, SignalFails, Restore, Leave, TestKey, Return
<1>3. CASE While \/ Signal \/ Alarm \/ Assign \/ TestNothing
  BY <1>3 DEF While, Signal, Alarm, Assign, TestNothing
<1>4. CASE GetChar
  <2>1. Head(input) \in Key /\ Tail(input) \in Seq(Key)
    BY <1>4 DEF GetChar
  <2>2. /\ read' \in Seq(Key) /\ Len(read') = Len(read) + 1
        /\ read'[Len(read')] = got' /\ \A n \in DOMAIN read : read'[n] = read[n]
    BY <1>4, <2>1 DEF GetChar
  <2> QED
    BY <1>4, <2>1, <2>2 DEF GetChar
<1>5. CASE Fire
  BY <1>5 DEF Fire, LongJmp
<1>6. CASE \E k \in Keys : Type(k)
  BY <1>6, KeysAssumption DEF Type
<1>7. CASE UNCHANGED waitvars
  BY <1>7 DEF waitvars
<1> QED
  BY <1>1, <1>2, <1>3, <1>4, <1>5, <1>6, <1>7 DEF WaitNext, Program

(* alarm(0) cancels the last alarm: one that outlives the call, and would  *)
(* jump into its dead frame, was armed in a second that a NUL cut short.   *)
THEOREM StrayAlarmNeedsNul == WaitSpec => []StrayAlarmOnlyAfterNul
<1>1. WaitInit => AlarmInv
  BY AlarmInit
<1>2. AlarmInv /\ [WaitNext]_waitvars => AlarmInv'
  BY AlarmStep
<1>3. AlarmInv => StrayAlarmOnlyAfterNul
  BY DEF AlarmInv, NulSeen, StrayAlarmOnlyAfterNul, Reads
<1> QED
  BY <1>1, <1>2, <1>3, PTL DEF WaitSpec

-----------------------------------------------------------------------------
(* The countdown *)

(* The flags are Booleans, a step of its own for the provers' sake.        *)
FlagsOK == armed \in BOOLEAN /\ handler \in BOOLEAN /\ canonical \in BOOLEAN

LEMMA FlagsStep == FlagsOK /\ [WaitNext]_waitvars => FlagsOK'
<1> SUFFICES ASSUME FlagsOK, [WaitNext]_waitvars PROVE FlagsOK'
  OBVIOUS
<1> USE DEF FlagsOK
<1>1. CASE Enter
  <2>1. canonical' = FALSE \/ canonical' = canonical
    BY <1>1 DEF Enter
  <2> QED
    BY <1>1, <2>1, Zenon DEF Enter
<1>2. CASE While \/ Assign \/ TestNothing \/ GetChar
  BY <1>2, Zenon DEF While, Assign, TestNothing, GetChar
<1>3. CASE GiveUp \/ SignalFails \/ Restore \/ Leave \/ TestKey
  BY <1>3, Zenon DEF GiveUp, SignalFails, Restore, Leave, TestKey
<1>4. CASE Signal \/ Alarm \/ Fire
  BY <1>4, Zenon DEF Signal, Alarm, Fire
<1>5. CASE \E k \in Keys : Type(k)
  BY <1>5, Zenon DEF Type
<1>6. CASE UNCHANGED waitvars
  BY <1>6, Zenon DEF waitvars
<1> QED
  BY <1>1, <1>2, <1>3, <1>4, <1>5, <1>6 DEF WaitNext, Program

(* Every variable of get_keypress keeps its type.                          *)
THEOREM WaitTypeCorrect == WaitSpec => []WaitTypeOK
<1>1. WaitInit => WaitTypeOK
  <2> SUFFICES ASSUME WaitInit PROVE WaitTypeOK
    OBVIOUS
  <2>1. FlagsOK
    BY Zenon DEF WaitInit, FlagsOK
  <2> QED
    BY <2>1, DelaysAssumption DEF WaitInit, WaitTypeOK, FlagsOK, Key
<1>2. WaitTypeOK /\ [WaitNext]_waitvars => WaitTypeOK'
  <2> SUFFICES ASSUME WaitTypeOK, [WaitNext]_waitvars PROVE WaitTypeOK'
    OBVIOUS
  <2>0. armed' \in BOOLEAN /\ handler' \in BOOLEAN /\ canonical' \in BOOLEAN
    <3>1. FlagsOK
      BY Zenon DEF WaitTypeOK, FlagsOK
    <3> QED
      BY <3>1, FlagsStep, Zenon DEF FlagsOK
  <2> USE <2>0 DEF WaitTypeOK, waited
  <2>d. Dec(delay) \in CInt
    BY DelaysAssumption DEF Dec, CInt, IntMin
  <2>1. CASE Enter \/ SignalFails \/ Restore \/ Leave \/ TestKey
    BY <2>1 DEF Enter, SignalFails, Restore, Leave, TestKey, Return
  <2>2. CASE While \/ GiveUp \/ Signal \/ Alarm \/ Assign \/ TestNothing
    BY <2>2, <2>d DEF While, GiveUp, Signal, Alarm, Assign, TestNothing
  <2>3. CASE GetChar
    <3>1. Head(input) \in Key /\ Tail(input) \in Seq(Key)
      BY <2>3 DEF GetChar
    <3> QED
      BY <2>3, <3>1 DEF GetChar
  <2>4. CASE Fire
    BY <2>4 DEF Fire, LongJmp
  <2>5. ASSUME NEW k \in Keys, Type(k) PROVE WaitTypeOK'
    <3>1. input' \in Seq(Key)
      BY <2>5, KeysAssumption DEF Type
    <3>2. typed' \in 0..MaxTyped
      BY <2>5, DelaysAssumption DEF Type
    <3> QED
      BY <2>5, <3>1, <3>2 DEF Type
  <2>6. CASE UNCHANGED waitvars
    BY <2>6 DEF waitvars
  <2> QED
    BY <2>1, <2>2, <2>3, <2>4, <2>5, <2>6 DEF WaitNext, Program
<1> QED
  BY <1>1, <1>2, PTL DEF WaitSpec

Nuls == Cardinality(Reads("nul"))
NonNulSeen == Reads("key") \cup Reads("eof") # {}

Waited == fired + Nuls >= allowed

(* The seconds accounted for: each ended in an alarm or in a NUL, and one  *)
(* may be running; once all have, the countdown may go below zero.         *)
CountInv ==
  /\ at = "enter" => delay = allowed /\ ~armed
  /\ \/ at = "while" \/ (at = "test" /\ c = "nul") \/ (at = "got" /\ got = "nul")
     => Waited \/ (delay >= 0 /\ fired + Nuls + delay >= allowed)
  /\ at \in {"signal", "refused", "failed", "alarm", "getchar", "got"}
     => Waited \/ (delay >= 0 /\ fired + Nuls + delay + 1 >= allowed)
  /\ at \in {"expired", "ended"} \/ ret = "timeout" => Waited
  /\ got # "nul" \/ c # "nul" \/ ret = "key" => NonNulSeen

LEMMA ReadsFinite ==
  ASSUME read \in Seq(Key)
  PROVE  IsFiniteSet(Reads("nul")) /\ Nuls \in Nat
<1>1. IsFiniteSet(1..Len(read))
  BY FS_Interval
<1>2. Reads("nul") \in SUBSET (1..Len(read))
  BY DEF Reads
<1>3. IsFiniteSet(Reads("nul"))
  BY <1>1, <1>2, FS_Subset
<1> QED
  BY <1>3, FS_CardinalityType DEF Nuls

(* Reading a key counts it once.                                           *)
LEMMA ReadCounts ==
  ASSUME WaitTypeOK, GetChar
  PROVE  /\ Nuls' = IF got' = "nul" THEN Nuls + 1 ELSE Nuls
         /\ NonNulSeen => NonNulSeen'
         /\ got' # "nul" => NonNulSeen'
<1> DEFINE n == Len(read) + 1
<1>0. read \in Seq(Key) /\ Head(input) \in Key /\ got' = Head(input)
  BY DEF GetChar, WaitTypeOK
<1>1. /\ DOMAIN read' = DOMAIN read \cup {n} /\ n \notin DOMAIN read
      /\ read'[n] = got' /\ \A i \in DOMAIN read : read'[i] = read[i]
  BY <1>0 DEF GetChar
<1> HIDE DEF n
<1>2. \A k \in Key : Reads(k)' = IF got' = k THEN Reads(k) \cup {n} ELSE Reads(k)
  BY <1>1 DEF Reads
<1>3. n \notin Reads("nul")
  BY <1>1 DEF Reads
<1>4. IsFiniteSet(Reads("nul")) /\ Nuls \in Nat
  BY <1>0, ReadsFinite
<1>5. Nuls' = IF got' = "nul" THEN Nuls + 1 ELSE Nuls
  <2>1. CASE got' = "nul"
    <3>1. Reads("nul")' = Reads("nul") \cup {n}
      BY <1>2, <2>1 DEF Key
    <3>2. Cardinality(Reads("nul") \cup {n}) = Cardinality(Reads("nul")) + 1
      BY <1>3, <1>4, FS_AddElement
    <3> QED
      BY <2>1, <3>1, <3>2 DEF Nuls
  <2>2. CASE got' # "nul"
    BY <1>2, <2>2 DEF Nuls, Key
  <2> QED
    BY <2>1, <2>2
<1>6. NonNulSeen => NonNulSeen'
  BY <1>2 DEF NonNulSeen, Key
<1>7. got' # "nul" => NonNulSeen'
  BY <1>0, <1>2 DEF NonNulSeen, Key
<1> QED
  BY <1>5, <1>6, <1>7

(* get_keypress only reports a timeout when every second of the delay has  *)
(* ended in an alarm or in a NUL, and a key only when one was read.        *)
THEOREM VerdictAlwaysEarned == WaitSpec => []VerdictIsEarned
<1>1. WaitInit => CountInv
  <2> SUFFICES ASSUME WaitInit PROVE CountInv
    OBVIOUS
  <2> QED
    BY DEF WaitInit, CountInv
<1>2. WaitTypeOK /\ CountInv /\ [WaitNext]_waitvars => CountInv'
  <2> SUFFICES ASSUME WaitTypeOK, CountInv, [WaitNext]_waitvars PROVE CountInv'
    OBVIOUS
  <2>0. Nuls \in Nat /\ fired \in Nat /\ delay \in Int /\ allowed \in Int
    BY ReadsFinite, DelaysAssumption DEF WaitTypeOK, CInt, IntMin
  <2>d. delay >= 0 => Dec(delay) = delay - 1
    BY <2>0, DelaysAssumption DEF Dec, IntMin
  <2>k. read' = read => Nuls' = Nuls /\ NonNulSeen' = NonNulSeen
    BY DEF Nuls, NonNulSeen, Reads
  <2> USE <2>0, <2>k DEF CountInv, Waited, waited
  <2>1. CASE Enter
    BY <2>1 DEF Enter, Return
  <2>2. CASE While
    BY <2>2, <2>d DEF While
  <2>3. CASE GiveUp \/ SignalFails \/ Restore \/ Leave \/ TestKey
    BY <2>3 DEF GiveUp, SignalFails, Restore, Leave, TestKey, Return
  <2>4. CASE Signal \/ Alarm \/ Assign \/ TestNothing
    BY <2>4 DEF Signal, Alarm, Assign, TestNothing
  <2>5. CASE GetChar
    BY <2>5, ReadCounts DEF GetChar
  <2>6. CASE Fire
    BY <2>6 DEF Fire, LongJmp, WaitTypeOK
  <2>7. CASE \E k \in Keys : Type(k)
    BY <2>7 DEF Type
  <2>8. CASE UNCHANGED waitvars
    BY <2>8 DEF waitvars
  <2> QED
    BY <2>1, <2>2, <2>3, <2>4, <2>5, <2>6, <2>7, <2>8 DEF WaitNext, Program
<1>3. CountInv => VerdictIsEarned
  BY DEF CountInv, VerdictIsEarned, Waited, Nuls, NonNulSeen
<1> QED
  BY <1>1, <1>2, <1>3, WaitTypeCorrect, PTL DEF WaitSpec

(* What is left of the delay, with the second that is running, unless a    *)
(* NUL was read.                                                           *)
BoundInv ==
  \/ NulSeen \/ allowed < 0
  \/ /\ fired <= allowed
     /\ at \in {"enter", "while", "signal", "alarm", "getchar", "got", "test"}
        => delay >= 0 /\ fired + delay <= allowed
     /\ at \in {"signal", "alarm", "getchar", "got"} \/ armed
        => fired + delay + 1 <= allowed
     /\ at \notin {"signal", "alarm", "getchar", "got", "test"} => ~armed

(* A wait without a NUL has as many alarms as seconds, and no more.        *)
THEOREM WaitAlwaysBounded == WaitSpec => []WaitIsBounded
<1>1. WaitInit => BoundInv
  BY DelaysAssumption DEF WaitInit, BoundInv, CInt, IntMin
<1>2. WaitTypeOK /\ AlarmInv /\ BoundInv /\ [WaitNext]_waitvars => BoundInv'
  <2> SUFFICES ASSUME WaitTypeOK, AlarmInv, BoundInv, [WaitNext]_waitvars PROVE BoundInv'
    OBVIOUS
  <2>0. fired \in Nat /\ delay \in Int /\ allowed \in Int /\ read \in Seq(Key)
    BY DelaysAssumption DEF WaitTypeOK, CInt, IntMin
  <2>d. delay >= 0 => Dec(delay) = delay - 1
    BY <2>0, DelaysAssumption DEF Dec, IntMin
  <2>n. NulSeen => NulSeen'
    <3>1. CASE read' = read
      BY <3>1 DEF NulSeen
    <3>2. CASE GetChar
      <4>1. Head(input) \in Key /\ read' = Append(read, Head(input))
        BY <3>2 DEF GetChar, WaitTypeOK
      <4>2. \A i \in DOMAIN read : i \in DOMAIN read' /\ read'[i] = read[i]
        BY <2>0, <4>1
      <4> QED
        BY <4>2 DEF NulSeen
    <3> QED
      BY <3>1, <3>2 DEF WaitNext, Program, Enter, While, GiveUp, Signal, SignalFails,
         Alarm, Assign, TestNothing, TestKey, Restore, Leave, Fire, Type, waitvars, waited
  <2>a. allowed' = allowed
    BY DEF WaitNext, Program, Enter, While, GiveUp, Signal, SignalFails, Alarm, GetChar,
       Assign, TestNothing, TestKey, Restore, Leave, Fire, Type, waitvars, waited
  <2> SUFFICES ASSUME ~NulSeen, allowed >= 0 PROVE BoundInv'
    BY <2>0, <2>n, <2>a DEF BoundInv
  <2> USE <2>0, <2>a DEF BoundInv, waited
  <2>1. CASE Enter
    BY <2>1 DEF Enter, Return
  <2>2. CASE While
    BY <2>2, <2>d DEF While, AlarmInv
  <2>3. CASE GiveUp \/ SignalFails \/ Restore \/ Leave \/ TestKey
    BY <2>3 DEF GiveUp, SignalFails, Restore, Leave, TestKey, Return, AlarmInv
  <2>4. CASE Signal \/ Alarm \/ Assign \/ TestNothing
    BY <2>4 DEF Signal, Alarm, Assign, TestNothing, AlarmInv
  <2>5. CASE GetChar
    BY <2>5 DEF GetChar
  <2>6. CASE Fire
    BY <2>6 DEF Fire, LongJmp
  <2>7. CASE (\E k \in Keys : Type(k)) \/ UNCHANGED waitvars
    BY <2>7 DEF Type, waitvars
  <2> QED
    BY <2>1, <2>2, <2>3, <2>4, <2>5, <2>6, <2>7 DEF WaitNext, Program
<1>3. WaitTypeOK /\ BoundInv => WaitIsBounded
  BY DelaysAssumption DEF BoundInv, WaitIsBounded, NulSeen, Reads, WaitTypeOK, CInt, IntMin
<1> QED
  BY <1>1, <1>2, <1>3, AlarmInit, AlarmStep, WaitTypeCorrect, PTL DEF WaitSpec
=============================================================================

------------------------------ MODULE Monoboot ------------------------------
(***************************************************************************)
(* The boot selector: monoboot/mbsh (monoboot.c, monoboot_cmds.c), the     *)
(* configuration partition it keeps its memory in, and monoinit, the       *)
(* program the booted image runs to report success (monoinit.c).           *)
(*                                                                         *)
(* One machine, one process at a time.  Power may fail between any two     *)
(* system calls; the configuration partition is all that survives.         *)
(*                                                                         *)
(* Abstractions.  A parsed mb.conf is a record; the network, line and      *)
(* password options, which no boot decision reads, are left out.  A tag or *)
(* file name is a model value; strncmp over a title's length is the        *)
(* relation PrefixOf.  get_keypress is reduced to its verdict (module      *)
(* Keypress has its signals).  The images partition does not change.       *)
(***************************************************************************)
EXTENDS Integers, Sequences

CONSTANTS
  Tags,        \* image titles of mb.conf and the names typed after "boot"
  Files,       \* image file names
  None, Nil,   \* the option default "none" and the marker "nil"
  PrefixOf,    \* <<p, name>>: strncmp(p, name, strlen(p)) = 0
  Present,     \* the files of the images partition
  Kind,        \* what each file holds, as the probes of kexec see it
  TagDirs,     \* the names with a directory under monoboot/tag
  Authored,    \* the contents an administrator may give mb.conf
  Absent,      \* no such file
  Garbage,     \* a file libconfuse cannot parse
  NoArg,       \* a NULL argument
  NoImage      \* no kernel staged or running

Names == Tags \cup {None, Nil}
Option == Names \cup {"yes", "no"}
Image == [title: Tags, filename: Files]
Config == [delay: Nat, bootonce: Option, tryonce: Option, default: Option,
           fallback: Option, lasttry: Option, lastboot: Option,
           images: Seq(Image)]
Kinds == {"monoimage", "bzImage", "other"}

ASSUME NamesDistinct == None # Nil /\ None \notin Tags /\ Nil \notin Tags
ASSUME SentinelsDistinct ==
  /\ Absent \notin Config /\ Garbage \notin Config /\ Absent # Garbage
  /\ NoArg \notin Option
ASSUME FilesAssumption == Present \subseteq Files /\ Kind \in [Files -> Kinds]
ASSUME PrefixAssumption == PrefixOf \subseteq (Tags \cup Files) \X (Option \cup Files)
ASSUME AuthoredAssumption == Authored \subseteq Config \cup {Garbage}

(* What every option holds after parsing a file that sets none of them.    *)
Defaults ==
  [delay |-> 0, bootonce |-> None, tryonce |-> None, default |-> None,
   fallback |-> None, lasttry |-> None, lastboot |-> None, images |-> <<>>]

VARIABLES
  disk,     \* the three files of the configuration partition
  mounted,  \* which of the two partitions main found or managed to mount
  pc,       \* where the running program is
  argv0,    \* the name it was invoked by
  cwd,      \* its working directory
  interact, \* main's flag: a shell, or straight to the boot
  cfg,      \* running-config
  arg,      \* cmdline[1] of cmd_boot
  tag,      \* image_tag of cmd_boot
  caller,   \* who called cmd_write
  loaded,   \* the kernel kexec -l has staged
  running,  \* the image the machine has booted
  lastboot, \* the title monoinit found for itself, in its own memory
  asked,    \* history: the word that followed "boot" in the shell
  authored, \* history: what the administrator last wrote to mb.conf
  saves,    \* history: replacements of mb.conf begun since then
  failed    \* history: a rename has failed since then although its source existed

vars == <<disk, mounted, pc, argv0, cwd, interact, cfg, arg, tag, caller,
          loaded, running, lastboot, asked, authored, saves, failed>>
session == <<mounted, argv0, cwd, interact>>
image == <<loaded, running, lastboot>>
history == <<asked, authored, saves, failed>>

(* saves is counted up to SavesCap: the properties tell 0, 1 and more apart. *)
SavesCap == 2
Counted(n) == IF n < SavesCap THEN n + 1 ELSE n

Content == Config \cup {Garbage}
Staged == [file: Files, tag: Option \cup {NoArg}, vars: SUBSET {"IMAGE", "CONFIG", "CDEV"}]
PC == {"off", "main", "keypress", "check_last", "shell", "boot", "fopen",
       "rename_old", "rename_new", "load", "exec", "image", "image_up", "exited"}

(* Every variable keeps its type.                                          *)
TypeOK ==
  /\ disk \in [conf: Content \cup {Absent}, new: {Defaults, Absent},
               old: Content \cup {Absent}]
  /\ mounted \in SUBSET {"config", "images"}
  /\ pc \in PC
  /\ argv0 \in {"monoboot", "mbsh", "mbnet"}
  /\ cwd \in {"/", "/images"}
  /\ interact \in BOOLEAN
  /\ cfg \in Config
  /\ arg \in Option \cup {NoArg}
  /\ tag \in Option \cup {NoArg}
  /\ caller \in {"cmd_boot", "shell"}
  /\ loaded \in Staged \cup {NoImage}
  /\ running \in Staged \cup {NoImage}
  /\ lastboot \in Tags \cup {None}
  /\ asked \in Option \cup {NoArg}
  /\ authored \in Content
  /\ saves \in 0..SavesCap
  /\ failed \in BOOLEAN

(* A freshly installed machine, powered off (utils/setup-cf.sh).           *)
Init ==
  /\ authored \in Authored
  /\ disk = [conf |-> authored, new |-> Absent, old |-> Absent]
  /\ mounted = {} /\ pc = "off" /\ argv0 = "monoboot" /\ cwd = "/"
  /\ interact = TRUE /\ cfg = Defaults /\ arg = NoArg /\ tag = NoArg
  /\ caller = "cmd_boot" /\ loaded = NoImage /\ running = NoImage
  /\ lastboot = None /\ asked = NoArg /\ saves = 0 /\ failed = FALSE

-----------------------------------------------------------------------------
(* main *)

(* The program starts; a failed mount is logged and ignored.               *)
Start(name, mnt) ==
  /\ pc \in {"off", "exited"}
  /\ pc' = "main" /\ argv0' = name /\ mounted' = mnt
  /\ cwd' = "/" /\ interact' = TRUE /\ cfg' = Defaults
  /\ arg' = NoArg /\ tag' = NoArg /\ asked' = NoArg
  /\ UNCHANGED <<disk, caller, image, authored, saves, failed>>

(* The file load_config is given, as seen through the mount point.         *)
ConfFile == IF "config" \in mounted THEN disk.conf ELSE Absent

(* load_config exits on a missing or unparsable file; mbnet configures the *)
(* network and exits; mbsh is a shell from the start.                      *)
LoadConfig ==
  /\ pc = "main"
  /\ IF ConfFile \in {Absent, Garbage}
     THEN pc' = "exited" /\ UNCHANGED <<cfg, interact>>
     ELSE /\ cfg' = ConfFile
          /\ interact' = (argv0 # "monoboot")
          /\ pc' = CASE argv0 = "mbnet" -> "exited"
                     [] argv0 = "monoboot" -> "keypress"
                     [] OTHER -> "check_last"
  /\ UNCHANGED <<disk, mounted, argv0, cwd, arg, tag, caller, image, history>>

(* A key can only be seen when the configuration asks for a delay.         *)
Keypress(pressed) ==
  /\ pc = "keypress"
  /\ pressed => cfg.delay > 0
  /\ interact' = pressed
  /\ pc' = "check_last"
  /\ UNCHANGED <<disk, mounted, argv0, cwd, cfg, arg, tag, caller, image, history>>

(* The image check_last puts in bootimage.                                 *)
BootImage(conf) == IF conf.lasttry # conf.lastboot THEN conf.fallback ELSE conf.default

(* check_last clears tryonce in memory before anything has read it.        *)
CheckLast ==
  /\ pc = "check_last"
  /\ cfg' = [cfg EXCEPT !.tryonce = "no"]
  /\ IF interact THEN pc' = "shell" /\ arg' = arg
                 ELSE pc' = "boot" /\ arg' = BootImage(cfg)
  /\ UNCHANGED <<disk, session, tag, caller, image, history>>

-----------------------------------------------------------------------------
(* The shell of mb_interact *)

(* "boot w1 w2": libcli passes the words after the command, so cmd_boot's  *)
(* cmdline[1] is the second of them.                                       *)
ShellBoot(words) ==
  /\ pc = "shell"
  /\ pc' = "boot"
  /\ arg' = IF Len(words) >= 2 THEN words[2] ELSE NoArg
  /\ asked' = IF Len(words) >= 1 THEN words[1] ELSE NoArg
  /\ UNCHANGED <<disk, session, cfg, tag, caller, image, authored, saves, failed>>

ShellWrite ==
  /\ pc = "shell"
  /\ pc' = "fopen" /\ caller' = "shell"
  /\ UNCHANGED <<disk, session, cfg, arg, tag, image, history>>

(* cmd_show_disk leaves the process in /images when a stat fails.          *)
ShellShowDisk(ok) ==
  /\ pc = "shell"
  /\ cwd' = IF "images" \notin mounted THEN cwd ELSE IF ok THEN "/" ELSE "/images"
  /\ UNCHANGED <<disk, mounted, pc, argv0, interact, cfg, arg, tag, caller, image, history>>

(* cmd_show_start opens mb.conf in the working directory, which is never   *)
(* the configuration directory, and reads from the NULL it gets.           *)
ShellShowStart ==
  /\ pc = "shell"
  /\ pc' = "exited"
  /\ UNCHANGED <<disk, session, cfg, arg, tag, caller, image, history>>

ShellQuit ==
  /\ pc = "shell"
  /\ pc' = "exited"
  /\ UNCHANGED <<disk, session, cfg, arg, tag, caller, image, history>>

(* From ash, inside the shell or at the root prompt: a new mb.conf.        *)
EditConfig(content) ==
  /\ pc \in {"shell", "exited"}
  /\ disk' = [disk EXCEPT !.conf = content]
  /\ authored' = content /\ saves' = 0 /\ failed' = FALSE
  /\ UNCHANGED <<session, pc, cfg, arg, tag, caller, image, asked>>

(* From ash: kexec run by hand with every variable monoinit looks for.     *)
HandKexec(file) ==
  /\ pc \in {"shell", "exited"}
  /\ file \in Present /\ Kind[file] # "other"
  /\ loaded' = [file |-> file, tag |-> NoArg, vars |-> {"IMAGE", "CONFIG", "CDEV"}]
  /\ running' = loaded'
  /\ pc' = "image" /\ lastboot' = None
  /\ UNCHANGED <<disk, session, cfg, arg, tag, caller, history>>

-----------------------------------------------------------------------------
(* cmd_boot *)

Matching(conf, name) == {n \in DOMAIN conf.images : <<conf.images[n].title, name>> \in PrefixOf}

CheckImageTag(conf, name) == Matching(conf, name) # {}

(* Seeded fault: monoboot tries again when the automatic boot fails.       *)
BootRetries ==
  /\ pc' = IF interact THEN "shell" ELSE "boot"
  /\ UNCHANGED <<arg, tag, asked>>

(* cmd_boot's -1 goes back to the prompt, or is dropped by main.           *)
BootReturns ==
  /\ pc' = IF interact THEN "shell" ELSE "exited"
  /\ arg' = NoArg /\ tag' = NoArg /\ asked' = NoArg

(* The tag cmd_boot settles on.                                            *)
ImageTag ==
  IF cfg.tryonce = "yes" THEN cfg.bootonce
  ELSE IF arg # NoArg THEN arg ELSE cfg.default

BootNoSuchTag ==
  /\ pc = "boot"
  /\ arg # NoArg /\ ~CheckImageTag(cfg, arg)
  /\ BootReturns
  /\ UNCHANGED <<disk, session, cfg, caller, image, authored, saves, failed>>

BootTag ==
  /\ pc = "boot"
  /\ arg # NoArg => CheckImageTag(cfg, arg)
  /\ tag' = ImageTag
  /\ cfg' = [cfg EXCEPT !.lasttry = ImageTag, !.lastboot = Nil]
  /\ pc' = "fopen" /\ caller' = "cmd_boot"
  /\ UNCHANGED <<disk, session, arg, image, history>>

(* The file name left in image_file: the last match wins, and with no      *)
(* match the buffer is uninitialised and may hold any name.                *)
ImageFile(conf, name) ==
  LET m == Matching(conf, name)
  IN IF m = {} THEN Files
     ELSE {conf.images[n].filename : n \in {k \in m : \A j \in m : j <= k}}

(* kexec -l on a monoimage without --config fails; monoboot never passes   *)
(* it.  A bzImage may load or not.                                         *)
KexecAccepts(file) == Kind[file] = "bzImage"

(* Both stats, which are relative for the tag directory, and kexec -l.     *)
BootLoad(file) ==
  /\ pc = "load"
  /\ file \in ImageFile(cfg, tag)
  /\ file \in Present /\ "images" \in mounted
  /\ tag \in TagDirs /\ "config" \in mounted /\ cwd = "/"
  /\ KexecAccepts(file)
  /\ loaded' = [file |-> file, tag |-> tag, vars |-> {"CONFIG"}]
  /\ pc' = "exec"
  /\ UNCHANGED <<disk, session, cfg, arg, tag, caller, running, lastboot, history>>

(* A failed stat, or a kexec -l that exits non-zero.                       *)
BootLoadFails ==
  /\ pc = "load"
  /\ BootReturns
  /\ UNCHANGED <<disk, session, cfg, caller, image, authored, saves, failed>>

KexecExec ==
  /\ pc = "exec"
  /\ running' = loaded /\ lastboot' = None
  /\ pc' = "image"
  /\ arg' = NoArg /\ tag' = NoArg /\ asked' = NoArg
  /\ UNCHANGED <<disk, session, cfg, caller, loaded, authored, saves, failed>>

(* execlp or the kexec it starts fails.  A failed execlp returns to the    *)
(* prompt with the configuration freed: what follows is undefined.         *)
KexecExecFails ==
  /\ pc = "exec"
  /\ pc' \in IF interact THEN {"shell", "exited"} ELSE {"exited"}
  /\ arg' = NoArg /\ tag' = NoArg /\ asked' = NoArg
  /\ UNCHANGED <<disk, session, cfg, caller, image, authored, saves, failed>>

-----------------------------------------------------------------------------
(* cmd_write, one action per system call *)

WriteReturns == pc' = IF caller = "shell" THEN "shell" ELSE "load"

(* What cmd_write puts in the file: a comment and an empty configuration.  *)
DiskImage(conf) == Defaults

(* Seeded fault: a failed fopen does not keep cmd_write from renaming.     *)
WriteOpenUnchecked ==
  /\ pc = "fopen"
  /\ pc' = "rename_old"
  /\ UNCHANGED <<disk, session, cfg, arg, tag, caller, image, history>>

WriteOpen ==
  /\ pc = "fopen"
  /\ "config" \in mounted /\ cwd = "/"
  /\ disk' = [disk EXCEPT !.new = DiskImage(cfg)]
  /\ pc' = "rename_old"
  /\ UNCHANGED <<session, cfg, arg, tag, caller, image, history>>

WriteOpenFails ==
  /\ pc = "fopen"
  /\ WriteReturns
  /\ UNCHANGED <<disk, session, cfg, arg, tag, caller, image, history>>

(* Seeded fault: the old file is unlinked where it should be renamed.      *)
RenameOldUnlinks ==
  /\ pc = "rename_old"
  /\ disk' = [disk EXCEPT !.conf = Absent]
  /\ pc' = "rename_new" /\ saves' = Counted(saves)
  /\ UNCHANGED <<session, cfg, arg, tag, caller, image, asked, authored, failed>>

(* A failed rename is logged, no more.                                     *)
RenameOld ==
  /\ pc = "rename_old"
  /\ \/ /\ disk.conf # Absent /\ failed' = failed
        /\ disk' = [disk EXCEPT !.old = disk.conf, !.conf = Absent]
     \/ disk' = disk /\ failed' = (failed \/ disk.conf # Absent)
  /\ pc' = "rename_new" /\ saves' = Counted(saves)
  /\ UNCHANGED <<session, cfg, arg, tag, caller, image, asked, authored>>

(* Seeded fault: the new file is unlinked where it should be renamed.      *)
RenameNewUnlinks ==
  /\ pc = "rename_new"
  /\ disk' = [disk EXCEPT !.new = Absent]
  /\ WriteReturns
  /\ UNCHANGED <<session, cfg, arg, tag, caller, image, history>>

RenameNew ==
  /\ pc = "rename_new"
  /\ \/ disk' = [disk EXCEPT !.conf = disk.new, !.new = Absent] /\ failed' = failed
     \/ disk' = disk /\ failed' = TRUE
  /\ WriteReturns
  /\ UNCHANGED <<session, cfg, arg, tag, caller, image, asked, authored, saves>>

-----------------------------------------------------------------------------
(* The booted image, and the power switch *)

(* monoinit's loop: the first image whose file name begins with its own.   *)
OwnTitle(conf, file) ==
  LET own == {n \in DOMAIN conf.images : <<file, conf.images[n].filename>> \in PrefixOf}
  IN IF own = {} THEN {None}
     ELSE {conf.images[n].title : n \in {k \in own : \A j \in own : k <= j}}

(* monoinit needs IMAGE, CONFIG and CDEV, mounts the configuration device  *)
(* on /config and reads it there.  Its save_config writes to monoboot/,    *)
(* relative to the image's own root: the partition is left as it was.      *)
Monoinit(mounts) ==
  /\ pc = "image"
  /\ pc' = "image_up"
  /\ lastboot' \in
       IF /\ running.vars = {"IMAGE", "CONFIG", "CDEV"} /\ mounts
          /\ disk.conf \notin {Absent, Garbage}
       THEN OwnTitle(disk.conf, running.file)
       ELSE {None}
  /\ UNCHANGED <<disk, session, cfg, arg, tag, caller, loaded, running, history>>

(* The power fails, or a running system is rebooted.                       *)
PowerLoss ==
  /\ pc # "off"
  /\ pc' = "off"
  /\ mounted' = {} /\ argv0' = "monoboot" /\ cwd' = "/"
  /\ interact' = TRUE /\ cfg' = Defaults /\ arg' = NoArg /\ tag' = NoArg
  /\ caller' = "cmd_boot" /\ loaded' = NoImage /\ running' = NoImage
  /\ lastboot' = None /\ asked' = NoArg
  /\ UNCHANGED <<disk, authored, saves, failed>>

Words == {<<>>} \cup {<<t>> : t \in Tags} \cup {<<t, u>> : t \in Tags, u \in Tags}

Run ==
  \/ LoadConfig \/ CheckLast
  \/ \E pressed \in BOOLEAN : Keypress(pressed)
  \/ BootNoSuchTag \/ BootTag \/ BootLoadFails \/ KexecExec \/ KexecExecFails
  \/ \E file \in Files : BootLoad(file)
  \/ WriteOpen \/ WriteOpenFails \/ RenameOld \/ RenameNew

Operator ==
  \/ \E name \in {"monoboot", "mbsh", "mbnet"}, mnt \in SUBSET {"config", "images"} :
       Start(name, mnt)
  \/ \E words \in Words : ShellBoot(words)
  \/ ShellWrite \/ ShellShowStart \/ ShellQuit
  \/ \E ok \in BOOLEAN : ShellShowDisk(ok)
  \/ \E content \in Authored : EditConfig(content)
  \/ \E file \in Files : HandKexec(file)

Next ==
  \/ Run \/ Operator
  \/ \E mounts \in BOOLEAN : Monoinit(mounts)
  \/ PowerLoss

Spec == Init /\ [][Next]_vars
(* A process that can make a system call makes it.                         *)
FairSpec == Spec /\ WF_vars(Run)

-----------------------------------------------------------------------------
(* Properties *)

(* cmd_write's two renames: while none has failed, what the administrator *)
(* wrote stays in mb.conf or mb.conf.old until a second replacement,       *)
(* whenever the power fails.                                               *)
AuthoredRecoverable == ~failed /\ saves <= 1 => authored \in {disk.conf, disk.old}

(* The window between the renames: whenever mb.conf is missing, the save   *)
(* that removed it can still be completed or undone by hand.               *)
InterruptedSaveCompletable ==
  disk.conf = Absent => disk.new = DiskImage(cfg) /\ disk.old # Absent

(* save_config is over before kexec: unless a rename has failed, an image  *)
(* monoboot has booted finds mb.conf in place.                             *)
RunningImageSeesConfig ==
  ~failed /\ pc \in {"image", "image_up"} /\ running.tag # NoArg => disk.conf # Absent

(* main comes to an end or to a prompt, whatever fails on the way.         *)
MonobootTerminates == pc = "main" ~> pc \in {"shell", "exited", "image", "off"}

(* The two renames together, for a reader that takes mb.conf.new when      *)
(* mb.conf is missing, are one atomic replacement, whenever the power or   *)
(* a rename fails: module ConfigStore.                                     *)
Store == INSTANCE ConfigStore WITH
  Written <- Authored, Saved <- Defaults, NoBackup <- Absent,
  cur <- IF disk.conf = Absent THEN disk.new ELSE disk.conf,
  prev <- disk.old,
  degraded <- failed
SaveIsAtomic == Store!Spec

-----------------------------------------------------------------------------
(* What the documentation and the comments say, and the code does not do *)

(* monoboot/README 28-29: with tryonce = yes in the file, monoboot boots   *)
(* the bootonce image.                                                     *)
BootonceTried ==
  pc = "fopen" /\ caller = "cmd_boot" /\ ~interact /\ disk.conf.tryonce = "yes"
    => tag = disk.conf.bootonce
=============================================================================

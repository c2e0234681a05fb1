---------------------------- MODULE KexecCommand ----------------------------
(***************************************************************************)
(* The kexec command (kexec.c: main, my_load, update_purgatory; ifdown.c;  *)
(* kexec-x86.c) and the purgatory that runs between the two kernels.       *)
(*                                                                         *)
(* An invocation reads its options one by one and then unloads, loads,     *)
(* shuts down, syncs, takes the network down and jumps, as its flags say.  *)
(* What it leaves staged in the running kernel is what a later invocation, *)
(* or a panic, starts through purgatory.                                   *)
(*                                                                         *)
(* Abstractions.  A kernel file is a record: which probes accept it, the   *)
(* address of purgatory and the segments it adds (KexecSegments has how).  *)
(* The running kernel is external: it accepts or refuses a list, holds one *)
(* image per slot, and jumps.                                              *)
(***************************************************************************)
EXTENDS Sha256, FiniteSets

CONSTANTS
  Kernels,      \* the kernel files of the machine
  FileTypes,    \* file_type[]: the names in order
  Interfaces,   \* the network interfaces with an address, in order
  MaxIfs,       \* MAX_IFS
  NullBuf,      \* sizeof(null_buf)
  Machines,     \* what uname may say
  CommandLines  \* bound: the sequences of options typed

None == [name |-> "none"]
Slots == {"default", "crash"}
Shapers == {i \in DOMAIN Interfaces : Interfaces[i] = "shaper"}
KexecMaxSegments == 8

Option ==
  [opt: {"x", "f", "l", "u", "e", "p", "t", "h", "bad mem", "bad serial"}, arg: STRING]
ASSUME CommandAssumption ==
  /\ CommandLines \subseteq Seq(Option)
  /\ MaxIfs \in Nat /\ NullBuf \in Nat \ {0} /\ Machines \subseteq STRING
  /\ Interfaces \in Seq(STRING)

(* What the loaders and add_segment leave: no segment has more data than   *)
(* memory, and sizes are unsigned longs.                                   *)
ASSUME KernelAssumption ==
  \A k \in Kernels :
    /\ k \in [name: STRING, types: SUBSET STRING, purgatory: Nat,
              segments: Seq([mem: Nat, buf: Seq(0..ByteSize - 1), memsz: 0..TotalWord - 1])]
    /\ \A i \in DOMAIN k.segments : Len(k.segments[i].buf) <= k.segments[i].memsz

VARIABLES
  machine,    \* utsname.machine
  opts,       \* the options of this command line
  parsed,     \* how many of them main has read
  flags,      \* do_load ... do_unload and KEXEC_ON_CRASH
  type,       \* the argument of the last --type, or ""
  kernel,     \* argv[fileind], or None
  pc,         \* where main is, or the machine when it has left Linux
  result,     \* main's result
  staged,     \* what the running kernel holds in each slot
  up,         \* the interfaces that are up
  queue,      \* the interfaces ifdown has yet to visit
  refused,    \* the interfaces whose ioctl failed
  synced,     \* sync() has been called by this invocation
  running,    \* the image that has been jumped to
  by,         \* how: "exec" or "panic"
  damaged     \* its memory was written to after it was loaded

vars == <<machine, opts, parsed, flags, type, kernel, pc, result, staged, up, queue,
          refused, synced, running, by, damaged>>
hardware == <<machine, running, by, damaged>>
command == <<opts, parsed, flags, type, kernel>>
network == <<up, queue, refused>>

Defaults == [load |-> TRUE, exec |-> FALSE, shutdown |-> TRUE, sync |-> TRUE,
             ifdown |-> FALSE, unload |-> FALSE, crash |-> FALSE]

Init ==
  /\ machine \in Machines
  /\ opts = <<>> /\ parsed = 0 /\ flags = Defaults /\ type = "" /\ kernel = None
  /\ pc = "prompt" /\ result = 0 /\ staged = [s \in Slots |-> None]
  /\ up = DOMAIN Interfaces /\ queue = {} /\ refused = {} /\ synced = FALSE
  /\ running = None /\ by = "" /\ damaged = FALSE

(* A shell starts kexec with some options and perhaps a file.              *)
Invoke ==
  /\ pc = "prompt" /\ pc' = "parse"
  /\ opts' \in CommandLines
  /\ kernel' \in Kernels \cup {None}
  /\ UNCHANGED <<hardware, parsed, flags, type, result, staged, network, synced>>

(* The process is gone, and its variables with it.                         *)
NoProcess ==
  /\ opts' = <<>> /\ parsed' = 0 /\ flags' = Defaults /\ type' = "" /\ kernel' = None
  /\ pc' = "prompt" /\ result' = 0 /\ queue' = {} /\ refused' = {} /\ synced' = FALSE

-----------------------------------------------------------------------------
(* The ifs at the end of main: the next one whose condition holds.         *)
Steps == <<"arch", "unload", "load", "shutdown", "sync", "ifdown", "exec", "ended">>
Wanted(step, status) ==
  \/ step = "unload" /\ flags.unload
  \/ step = "load" /\ flags.load /\ status = 0
  \/ step = "shutdown" /\ flags.shutdown /\ status = 0
  \/ step = "sync" /\ flags.sync /\ status = 0
  \/ step = "ifdown" /\ flags.ifdown /\ status = 0
  \/ step = "exec" /\ flags.exec /\ status = 0
  \/ step = "ended"
Onward(step, status) ==
  /\ result' = status
  /\ \E i, j \in DOMAIN Steps :
       /\ Steps[i] = step /\ i < j /\ Wanted(Steps[j], status)
       /\ \A k \in i + 1..j - 1 : ~Wanted(Steps[k], status)
       /\ pc' = Steps[j]

-----------------------------------------------------------------------------
(* Options *)

Exit(status) == pc' = "ended" /\ result' = status

(* The switch of main.                                                     *)
FlagsAfter(f, o) ==
  CASE o = "x" -> [f EXCEPT !.ifdown = FALSE]
    [] o = "f" -> [f EXCEPT !.load = TRUE, !.shutdown = FALSE, !.sync = TRUE,
                            !.ifdown = TRUE, !.exec = TRUE]
    [] o = "l" -> [f EXCEPT !.load = TRUE, !.exec = FALSE, !.shutdown = FALSE]
    [] o = "u" -> [f EXCEPT !.load = FALSE, !.shutdown = FALSE, !.sync = FALSE,
                            !.unload = TRUE]
    [] o = "e" -> [f EXCEPT !.load = FALSE, !.shutdown = FALSE, !.sync = TRUE,
                            !.ifdown = TRUE, !.exec = TRUE]
    [] o = "p" -> [f EXCEPT !.load = TRUE, !.exec = FALSE, !.shutdown = FALSE,
                            !.sync = FALSE, !.crash = TRUE]
    [] OTHER -> f

ParseOption ==
  /\ pc = "parse" /\ parsed < Len(opts)
  /\ LET o == opts[parsed + 1] IN
     /\ parsed' = parsed + 1
     /\ flags' = FlagsAfter(flags, o.opt)
     /\ type' = IF o.opt = "t" THEN o.arg ELSE type
     /\ \/ o.opt = "h" /\ Exit(0)
        \/ o.opt = "bad mem" /\ Exit(1)
        \/ o.opt \notin {"h", "bad mem"} /\ UNCHANGED <<pc, result>>
  /\ UNCHANGED <<hardware, opts, kernel, staged, network, synced>>

(* arch_process_options goes through the options again.                    *)
ArchOptions ==
  /\ pc = "parse" /\ parsed = Len(opts)
  /\ Onward("arch", IF \E i \in DOMAIN opts : opts[i].opt = "bad serial" THEN -1 ELSE 0)
  /\ UNCHANGED <<hardware, command, staged, network, synced>>

-----------------------------------------------------------------------------
(* Unloading and loading *)

Slot == IF flags.crash THEN "crash" ELSE "default"

(* k_unload; its result replaces that of the options.                      *)
Unload ==
  /\ pc = "unload"
  /\ \/ staged' = [staged EXCEPT ![Slot] = None] /\ Onward("unload", 0)
     \/ UNCHANGED staged /\ Onward("unload", -1)
  /\ UNCHANGED <<hardware, command, network, synced>>

(* The file type whose loader is called, as a set with no element where    *)
(* my_load gives up: --type must name a type that accepts the file.        *)
Accepting(k) == {i \in DOMAIN FileTypes : FileTypes[i] \in k.types}
LoaderOf(k, t) ==
  IF t = "" THEN {i \in Accepting(k) : \A j \in Accepting(k) : i <= j}
  ELSE {i \in Accepting(k) : FileTypes[i] = t}

(* arch_compat_trampoline: a 64-bit kernel is entered through purgatory.   *)
TrampolineFound(k) ==
  machine = "i386" \/ (machine = "x86_64" /\ k.purgatory # 0)

(* Seeded fault: purgatory is checked as well.                             *)
HashedAll(k) == k.segments

(* update_purgatory: the segments in the checksum.                         *)
Hashed(k) ==
  LET kept[i \in 0..Len(k.segments)] ==
        IF i = 0 THEN <<>>
        ELSE IF k.segments[i].mem = k.purgatory THEN kept[i - 1]
        ELSE Append(kept[i - 1], k.segments[i])
  IN kept[Len(k.segments)]

(* The pieces kexec hashes: a buffer, then null_buf by null_buf up to      *)
(* memsz.                                                                  *)
Pieces(s) ==
  LET nullsz == s.memsz - Len(s.buf)
      whole == [i \in 1..nullsz \div NullBuf |-> Zeros(NullBuf)]
  IN <<s.buf>> \o whole \o (IF nullsz % NullBuf = 0 THEN <<>> ELSE <<Zeros(nullsz % NullBuf)>>)

Updated(k) ==
  [name |-> k.name, purgatory |-> k.purgatory, segments |-> k.segments,
   regions |-> IF k.purgatory = 0 THEN <<>> ELSE Hashed(k),
   digest |-> IF k.purgatory = 0 THEN <<>>
              ELSE Digest(FlattenSeq([i \in DOMAIN Hashed(k) |-> Pieces(Hashed(k)[i])]))]

(* my_load as far as the kernel_load system call, and that call.           *)
Load ==
  /\ pc = "load" /\ kernel # None
  /\ LoaderOf(kernel, type) # {} /\ TrampolineFound(kernel)
  /\ \/ /\ Len(kernel.segments) <= KexecMaxSegments
        /\ staged' = [staged EXCEPT ![Slot] = Updated(kernel)] /\ Onward("load", 0)
     \/ UNCHANGED staged /\ Onward("load", -1)
  /\ UNCHANGED <<hardware, command, network, synced>>

(* Seeded fault: the result of my_load is lost.                            *)
LoadFailsQuietly ==
  /\ pc = "load" /\ Onward("load", 0)
  /\ UNCHANGED <<hardware, command, staged, network, synced>>

(* No kernel, no memory map, no type, the wrong one, a loader that gives   *)
(* up or segments that do not fit.                                         *)
LoadFails ==
  /\ pc = "load" /\ Onward("load", -1)
  /\ UNCHANGED <<hardware, command, staged, network, synced>>

(* die() in slurp_decompress_file or in a loader.                          *)
LoadDies ==
  /\ pc = "load" /\ kernel # None /\ Exit(1)
  /\ UNCHANGED <<hardware, command, staged, network, synced>>

-----------------------------------------------------------------------------
(* Leaving *)

(* my_shutdown becomes shutdown -r now, whose scripts run kexec -e, or     *)
(* there is no such program.                                               *)
Shutdown ==
  /\ pc = "shutdown"
  /\ Exit(0) \/ Onward("shutdown", -1)
  /\ UNCHANGED <<hardware, command, staged, network, synced>>

Sync ==
  /\ pc = "sync" /\ synced' = TRUE /\ Onward("sync", result)
  /\ UNCHANGED <<hardware, command, staged, network>>

(* Seeded fault: the second pass, over all but shapers, is left out.       *)
VisitedShapersOnly(i) == i \in Shapers

(* What SIOCGIFCONF has room for and ifdown does not skip.                 *)
Visited(i) == i <= MaxIfs /\ Interfaces[i] \notin {"lo", "alias"}

(* The two passes, each in the order of the list: shapers, then the rest.  *)
First(q) ==
  LET pass == IF q \cap Shapers # {} THEN q \cap Shapers ELSE q
  IN CHOOSE i \in pass : \A j \in pass : i <= j

(* ifdown; without a socket or a list it returns -1, which main ignores.   *)
IfdownStarts ==
  /\ pc = "ifdown"
  /\ \/ /\ queue' = {i \in DOMAIN Interfaces : Visited(i)}
        /\ pc' = "visit" /\ UNCHANGED <<result, refused>>
     \/ refused' = DOMAIN Interfaces /\ Onward("ifdown", result) /\ UNCHANGED queue
  /\ UNCHANGED <<hardware, command, staged, up, synced>>

(* SIOCSIFFLAGS for one interface; a failure is only printed.              *)
IfdownVisits ==
  /\ pc = "visit" /\ queue # {}
  /\ \/ up' = up \ {First(queue)} /\ UNCHANGED refused
     \/ refused' = refused \cup {First(queue)} /\ UNCHANGED up
  /\ queue' = queue \ {First(queue)}
  /\ UNCHANGED <<hardware, command, pc, result, staged, synced>>

IfdownEnds ==
  /\ pc = "visit" /\ queue = {} /\ Onward("ifdown", result)
  /\ UNCHANGED <<hardware, command, staged, network, synced>>

(* The kernel jumps; a device that was not shut down may have written to   *)
(* the image since it was loaded.                                          *)
JumpTo(slot, how) ==
  /\ staged[slot] # None
  /\ running' = staged[slot] /\ by' = how /\ damaged' \in BOOLEAN
  /\ pc' = "purgatory"
  /\ UNCHANGED <<machine, command, result, staged, network, synced>>

Exec == pc = "exec" /\ JumpTo("default", "exec")

(* my_exec returns when the reboot call fails, for whatever reason: there  *)
(* is nothing to jump to, or the kernel will not.                          *)
ExecFails ==
  /\ pc = "exec" /\ Exit(-1)
  /\ UNCHANGED <<hardware, command, staged, network, synced>>

(* The crash kernel needs nobody's leave.                                  *)
Panic == pc \notin {"purgatory", "started", "stuck"} /\ JumpTo("crash", "panic")

-----------------------------------------------------------------------------
(* Purgatory *)

(* Memory as purgatory finds it: a segment's buffer and zeros.  Its own    *)
(* segment has its stack, and the digest written after it was computed.    *)
Contents(s) == s.buf \o Zeros(s.memsz - Len(s.buf))
Memory(s) ==
  IF damaged \/ s.mem = running.purgatory
  THEN [Contents(s) EXCEPT ![1] = (@ + 1) % ByteSize] ELSE Contents(s)
RegionPieces(image) == [i \in DOMAIN image.regions |-> Memory(image.regions[i])]

(* What string.c's memcmp may say of two digests: it compares the first    *)
(* byte over and over, and digests that differ may agree there.            *)
Memcmp(d, e) == IF d = e THEN {0} ELSE {0, 1}

(* Without purgatory the kernel is entered directly.                       *)
Purgatory ==
  /\ pc = "purgatory"
  /\ \/ running.purgatory = 0 /\ pc' = "started"
     \/ /\ running.purgatory # 0
        /\ \E differ \in Memcmp(Digest(RegionPieces(running)), running.digest) :
             pc' = IF differ = 0 THEN "started" ELSE "stuck"
  /\ UNCHANGED <<hardware, command, result, staged, network, synced>>

(* The command has returned to the shell.                                  *)
Wait ==
  /\ pc = "ended" /\ NoProcess
  /\ UNCHANGED <<hardware, staged, up>>

(* The next kernel is up, or a stuck machine has been switched off and on. *)
Boot ==
  /\ pc \in {"started", "stuck"} /\ NoProcess
  /\ staged' = [s \in Slots |-> None] /\ up' = DOMAIN Interfaces
  /\ running' = None /\ by' = "" /\ damaged' = FALSE
  /\ UNCHANGED machine

Next ==
  \/ Invoke \/ ParseOption \/ ArchOptions \/ Unload \/ Load \/ LoadFails \/ LoadDies
  \/ Shutdown \/ Sync \/ IfdownStarts \/ IfdownVisits \/ IfdownEnds
  \/ Exec \/ ExecFails \/ Panic \/ Purgatory \/ Wait \/ Boot

Spec == Init /\ [][Next]_vars

-----------------------------------------------------------------------------
(* Properties *)

(* The last of these options on the command line is one of those.          *)
LastOf(these, those) ==
  \E i \in DOMAIN opts :
    /\ opts[i].opt \in those
    /\ \A j \in DOMAIN opts : j > i => opts[j].opt \notin these

(* main: kexec -e and -f only leave Linux with the disks synced (unless -u *)
(* took that back) and every network interface ifdown lists down, unless   *)
(* it could not be or -x came last.                                        *)
JumpPrepared ==
  by = "exec" =>
    /\ synced \/ LastOf({"e", "f", "u"}, {"u"})
    /\ \/ LastOf({"e", "f", "x"}, {"x"})
       \/ \A i \in 1..MaxIfs \cap DOMAIN Interfaces :
            Interfaces[i] \notin {"lo", "alias"} => i \notin up \/ i \in refused

(* main and my_load: a command that was to load a file and reports success *)
(* has staged that file, in the slot it was asked for; -h does nothing.    *)
StatusTells ==
  (pc = "ended" /\ result = 0 /\ flags.load /\ ~LastOf({}, {"h"})) =>
    LET slot == IF LastOf({}, {"p"}) THEN "crash" ELSE "default"
    IN kernel # None /\ staged[slot].name = kernel.name

(* update_purgatory and sha256.c: the digest left for purgatory is that of *)
(* the memory the image will occupy, purgatory's own segment apart,        *)
(* however it was cut into pieces.                                         *)
DigestIsReference ==
  \A s \in Slots :
    staged[s] # None /\ staged[s].purgatory # 0 =>
      staged[s].digest =
        Reference([i \in DOMAIN Hashed(staged[s]) |-> Contents(Hashed(staged[s])[i])])

(* verify_sha256_digest: an image nobody wrote to is always started.       *)
IntactStarts == pc = "stuck" => damaged
==============================================================================

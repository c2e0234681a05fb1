----------------------------- MODULE ImageHandoff -----------------------------
(***************************************************************************)
(* How a monoimage hands its root filesystem to itself.  kexec             *)
(* (monoimage_load) works out which partition the image file is on and     *)
(* writes that down in the command line of the kernel it stages; linuxrc,  *)
(* in the initrd of that kernel, reads it back, looks for the partition    *)
(* and attaches the root filesystem inside the file to /dev/loop0.         *)
(*                                                                         *)
(* Abstractions.  Paths, uuids and the words of the command line are texts *)
(* without blanks, long enough to be told apart by their letters.  A text  *)
(* names at most one file of a partition.  readdir yields the entries of   *)
(* /dev in any order.  Both worlds see the same disks.  Staging the        *)
(* segments is module KexecLoaders.                                        *)
(***************************************************************************)
EXTENDS MonoImageFormat

CONSTANTS
  Disks,     \* partitions
  Nodes,     \* entries of /dev
  Char,      \* the letters that matter
  Uuids,     \* filesystem uuids, as they are printed
  NullUuid,  \* sixteen zero bytes
  ZeroFirst, \* the uuids whose first byte is zero
  Names,     \* paths of files within a partition
  NodePrefix,\* <<a, b>>: the name of a is a prefix of the name of b
  NodeRest,  \* what is left of b behind a and one character more
  FsImg,     \* failsafe.img
  FsNode,    \* /dev/hda1
  Machines,  \* the machines to try
  NoDisk, Dangling, Unset, NoLoop

Text == Seq(Char)
NoneStr == <<"<none>">>
Overrun == <<" ">>        \* a text with a blank in it
Key == {"F", "I", "C"}
Path == [disk: Disks, name: Names]
Machine ==
  [ext: SUBSET Disks,                            \* partitions with an ext3
   uuid: [Disks -> Uuids], files: [Disks -> SUBSET Names],
   node: [Nodes -> Disks \cup {NoDisk, Dangling}], \* NoDisk: not a block device
   mounts: Seq([node: Nodes, point: Text]),      \* /proc/mounts
   path: Text, image: Path,                      \* the argument, the file it names
   config: Disks \cup {NoDisk},                  \* the disk of --config
   append: Seq(Text),                            \* the words of --append
   header: {"v1", "v2", "other"}]

ASSUME UuidAssumption == NullUuid \in ZeroFirst /\ ZeroFirst \subseteq Uuids
ASSUME TextAssumption ==
  /\ Names \cup Uuids \cup {NoneStr, Overrun} \subseteq Text
  /\ Key \cup {"=", "/"} \subseteq Char
  /\ NoneStr \notin Uuids
  /\ \A f \in Names : f # <<>> /\ f[1] # "/"
ASSUME FailsafeAssumption == FsImg \in Names /\ FsNode \in Nodes
ASSUME DiskAssumption == {NoDisk, Dangling} \cap Disks = {} /\ Unset \notin Nodes
ASSUME PrefixAssumption ==
  /\ \A n \in Nodes : <<n, n>> \in NodePrefix
  /\ NodeRest \in [NodePrefix -> Text]
ASSUME MachineAssumption ==
  \A m \in Machines :
    /\ m \in Machine /\ m.node[FsNode] \in Disks
    /\ m.image.name \in m.files[m.image.disk] /\ m.image.disk \in m.ext
    /\ \A n \in DOMAIN m.mounts : m.mounts[n].point # m.path
    /\ \A pair \in NodePrefix : NodeRest[pair] # m.path

VARIABLES
  m,           \* the machine; it does not change
  pc,
  left,        \* entries of /dev that readdir has yet to yield
  devbuf,      \* what the last successful stat of kexec saw
  images_dev, config_dev,
  cmdline,     \* the command line of the staged kernel
  imagefile, imageuuid,
  mnt,         \* what linuxrc has mounted on /images
  loop,        \* what /dev/loop0 shows: a file, and the part it starts at
  faults       \* history: a system call has failed that could have succeeded

vars == <<m, pc, left, devbuf, images_dev, config_dev, cmdline, imagefile,
          imageuuid, mnt, loop, faults>>
kexecvars == <<devbuf, images_dev, config_dev, cmdline>>
linuxrcvars == <<imagefile, imageuuid, mnt, loop>>

(* Every variable keeps its type.                                          *)
TypeOK ==
  /\ m \in Machines
  /\ pc \in {"probe", "options", "walk", "uuids", "staged", "parse", "search",
             "stat", "failsafe", "header", "loop", "failed", "halted", "exit0"}
  /\ left \subseteq Nodes
  /\ devbuf \in Disks \cup {NoDisk}
  /\ images_dev \in Nodes \cup {Unset} /\ config_dev \in Nodes \cup {Unset}
  /\ cmdline \in Seq(Text) /\ imagefile \in Text /\ imageuuid \in Text
  /\ mnt \in Disks \cup {NoDisk}
  /\ loop \in [disk: Disks, name: Text, part: SUBSET {"kernel", "ramdisk", "rootfs"}]
                \cup {NoLoop}
  /\ faults \in BOOLEAN

(* devbuf is not initialised.                                              *)
Init ==
  /\ m \in Machines /\ pc = "probe" /\ left = Nodes
  /\ devbuf \in Disks \cup {NoDisk}
  /\ images_dev = Unset /\ config_dev = Unset /\ cmdline = <<>>
  /\ imagefile = <<>> /\ imageuuid = <<>> /\ mnt = NoDisk /\ loop = NoLoop
  /\ faults = FALSE

Fault(target) == pc' = target /\ faults' = TRUE

-----------------------------------------------------------------------------
(* kexec: monoimage_probe and monoimage_load *)

(* my_load takes every probe result that is not negative for a match, and  *)
(* an image of another version gives 0.                                    *)
MonoimageProbe ==
  /\ pc = "probe"
  /\ pc' = IF m.header = "other" THEN "failed" ELSE "options"
  /\ UNCHANGED <<m, left, kexecvars, linuxrcvars, faults>>

(* --config is mandatory, and its file must be there.                      *)
Options ==
  /\ pc = "options"
  /\ \/ pc' = (IF m.config = NoDisk THEN "failed" ELSE "walk") /\ faults' = faults
     \/ Fault("failed")
  /\ UNCHANGED <<m, left, kexecvars, linuxrcvars>>

(* Seeded fault: the image's partition is taken for the first one seen.    *)
WalkDevFirst(n) ==
  /\ pc = "walk" /\ n \in left
  /\ left' = left \ {n}
  /\ devbuf' = IF m.node[n] = Dangling THEN devbuf ELSE m.node[n]
  /\ images_dev' = IF devbuf' # NoDisk /\ images_dev = Unset THEN n ELSE images_dev
  /\ config_dev' = IF devbuf' = m.config THEN n ELSE config_dev
  /\ UNCHANGED <<m, pc, cmdline, linuxrcvars, faults>>

(* One entry of /dev.  An entry that cannot be found leaves devbuf as the  *)
(* one before it has filled it, and is compared all the same.              *)
WalkDev(n) ==
  /\ pc = "walk" /\ n \in left
  /\ left' = left \ {n}
  /\ devbuf' = IF m.node[n] = Dangling THEN devbuf ELSE m.node[n]
  /\ images_dev' = IF devbuf' = m.image.disk THEN n ELSE images_dev
  /\ config_dev' = IF devbuf' = m.config THEN n ELSE config_dev
  /\ UNCHANGED <<m, pc, cmdline, linuxrcvars, faults>>

(* opendir, or a stat that fails otherwise.                                *)
WalkFails ==
  /\ pc = "walk"
  /\ Fault("failed")
  /\ UNCHANGED <<m, left, kexecvars, linuxrcvars>>

WalkDone ==
  /\ pc = "walk" /\ left = {}
  /\ pc' = "uuids"
  /\ UNCHANGED <<m, left, kexecvars, linuxrcvars, faults>>

(* is_null_uuid only ever looks at the first byte.                         *)
IsNullUuid(u) == u \in ZeroFirst
Uuid2Str(u) == IF IsNullUuid(u) THEN NoneStr ELSE u

(* A node kexec can read a uuid from; its ext2_uuid crashes on others.     *)
Readable(n) == n # Unset /\ m.node[n] \in m.ext
KexecUuid(n) == Uuid2Str(m.uuid[m.node[n]])

(* The path below the mount point, from the first line of /proc/mounts     *)
(* that begins with the name of images_dev.  For a longer device name the  *)
(* rest of that name is taken for the mount point, and with no line it is  *)
(* not initialised.                                                        *)
Candidates == {n \in DOMAIN m.mounts : <<images_dev, m.mounts[n].node>> \in NodePrefix}
MountPoint(line) ==
  IF line.node = images_dev THEN line.point ELSE NodeRest[<<images_dev, line.node>>]

(* Where the loop over both texts stops: one number, the length of what    *)
(* they have in common.                                                    *)
CommonPart(s, t) ==
  {n \in 0..Len(t) :
     /\ n <= Len(s) /\ \A i \in 1..n : s[i] = t[i]
     /\ n < Len(s) /\ n < Len(t) => s[n + 1] # t[n + 1]}

(* What follows the first n letters of the path, less a leading slash.     *)
Below(n) ==
  LET skip == IF n < Len(m.path) /\ m.path[n + 1] = "/" THEN 1 ELSE 0
  IN SubSeq(m.path, n + skip + 1, Len(m.path))

ImagePath ==
  {Below(n) : n \in
     IF Candidates = {} THEN 0..Len(m.path)
     ELSE UNION {CommonPart(MountPoint(m.mounts[k]), m.path) :
                   k \in {h \in Candidates : \A j \in Candidates : h <= j}}}

KeyWord(k, v) == <<k, "=">> \o v

(* Seeded fault: the two uuids are swapped in the command line.            *)
CommandLineSwapped ==
  /\ pc = "uuids"
  /\ Readable(images_dev) /\ Readable(config_dev)
  /\ \E path \in ImagePath :
       cmdline' = m.append \o
         <<KeyWord("F", path), KeyWord("I", KexecUuid(config_dev)),
           KeyWord("C", KexecUuid(images_dev))>>
  /\ pc' = "staged"
  /\ UNCHANGED <<m, left, devbuf, images_dev, config_dev, linuxrcvars, faults>>

(* "root=/dev/loop0 ro %s F=%s I=%s C=%s"; kernel and ramdisk are cut out  *)
(* of the image and staged (module KexecLoaders).                          *)
CommandLine ==
  /\ pc = "uuids"
  /\ Readable(images_dev) /\ Readable(config_dev)
  /\ \E path \in ImagePath :
       cmdline' = m.append \o
         <<KeyWord("F", path), KeyWord("I", KexecUuid(images_dev)),
           KeyWord("C", KexecUuid(config_dev))>>
  /\ pc' = "staged"
  /\ UNCHANGED <<m, left, devbuf, images_dev, config_dev, linuxrcvars, faults>>

CommandLineFails ==
  /\ pc = "uuids"
  /\ IF Readable(images_dev) /\ Readable(config_dev)
     THEN Fault("failed") ELSE pc' = "failed" /\ faults' = faults
  /\ UNCHANGED <<m, left, kexecvars, linuxrcvars>>

-----------------------------------------------------------------------------
(* linuxrc *)

(* The part of the file that set_loop skips to, by the offset linuxrc      *)
(* reads in the header.                                                    *)
LoopPart == Covers(LinuxrcHeader, "rootfs")
ASSUME LoopAssumption ==
  NoLoop \notin [disk: Disks, name: Text, part: {LoopPart}]

(* The new kernel runs linuxrc; /proc is mounted and its cmdline read.     *)
StartLinuxrc ==
  /\ pc = "staged"
  /\ \/ pc' = "parse" /\ faults' = faults
     \/ Fault("halted")
  /\ left' = Nodes
  /\ UNCHANGED <<m, kexecvars, linuxrcvars>>

(* get_cmdline_var: strstr stops at the first occurrence of the letter,    *)
(* and the value is what follows it up to a blank, less one character,     *)
(* which at the end of a word is the blank.  The set has no element for    *)
(* NULL.                                                                   *)
Letters(word) == {word[p] : p \in DOMAIN word}
FirstAt(word, var) ==
  CHOOSE p \in DOMAIN word : word[p] = var /\ \A q \in 1..(p - 1) : word[q] # var
ValueIn(word, var) ==
  IF FirstAt(word, var) = Len(word) THEN Overrun
  ELSE SubSeq(word, FirstAt(word, var) + 2, Len(word))

Hits(var) == {n \in DOMAIN cmdline : var \in Letters(cmdline[n])}
GetCmdlineVar(var) ==
  {ValueIn(cmdline[n], var) : n \in {h \in Hits(var) : \A k \in Hits(var) : h <= k}}

ParseCmdline ==
  /\ pc = "parse"
  /\ IF \A var \in Key : GetCmdlineVar(var) # {}
     THEN /\ imagefile' \in GetCmdlineVar("F") /\ imageuuid' \in GetCmdlineVar("I")
          /\ pc' = "search"
     ELSE pc' = "halted" /\ UNCHANGED <<imagefile, imageuuid>>
  /\ UNCHANGED <<m, left, kexecvars, mnt, loop, faults>>

(* What linuxrc's ext2_uuid says of a block device.                        *)
Ext2Uuid(d) == IF d \in m.ext THEN Uuid2Str(m.uuid[d]) ELSE NoneStr

Matches(d) == Ext2Uuid(d) = imageuuid

(* The walk over /dev ends at the first match.  If mount refuses it, or    *)
(* there is no ext3 on it, the machine is halted.                          *)
SearchMatch(n) ==
  /\ pc = "search" /\ n \in left
  /\ m.node[n] \in Disks /\ Matches(m.node[n])
  /\ \/ /\ m.node[n] \in m.ext
        /\ mnt' = m.node[n] /\ pc' = "stat" /\ faults' = faults
     \/ m.node[n] \in m.ext /\ mnt' = mnt /\ Fault("halted")
     \/ m.node[n] \notin m.ext /\ mnt' = mnt /\ pc' = "halted" /\ faults' = faults
  /\ left' = left \ {n}
  /\ UNCHANGED <<m, kexecvars, imagefile, imageuuid, loop>>

SearchSkip(n) ==
  /\ pc = "search" /\ n \in left
  /\ ~(m.node[n] \in Disks /\ Matches(m.node[n]))
  /\ left' = left \ {n}
  /\ UNCHANGED <<m, pc, kexecvars, linuxrcvars, faults>>

(* opendir fails.                                                          *)
SearchFails ==
  /\ pc = "search"
  /\ Fault("halted")
  /\ UNCHANGED <<m, left, kexecvars, linuxrcvars>>

(* No device has the uuid: linuxrc goes on with nothing mounted.           *)
SearchDone ==
  /\ pc = "search" /\ left = {}
  /\ pc' = "stat"
  /\ UNCHANGED <<m, left, kexecvars, linuxrcvars, faults>>

StatImage ==
  /\ pc = "stat"
  /\ pc' = IF mnt # NoDisk /\ imagefile \in m.files[mnt] THEN "header" ELSE "failsafe"
  /\ UNCHANGED <<m, left, kexecvars, linuxrcvars, faults>>

(* Seeded fault: a missing failsafe image is waited for.                   *)
FailsafeWaits ==
  /\ pc = "failsafe"
  /\ LET fs == m.node[FsNode]
     IN IF fs \in m.ext /\ FsImg \in m.files[fs]
        THEN pc' = "header" /\ imagefile' = FsImg /\ mnt' = fs
        ELSE UNCHANGED <<pc, imagefile, mnt>>
  /\ UNCHANGED <<m, left, kexecvars, imageuuid, loop, faults>>

(* The failsafe image, on a partition that is mounted over whatever umount *)
(* could not remove.                                                       *)
Failsafe ==
  /\ pc = "failsafe"
  /\ LET fs == m.node[FsNode]
     IN \/ /\ fs \in m.ext /\ FsImg \in m.files[fs]
           /\ pc' = "header" /\ imagefile' = FsImg /\ mnt' = fs /\ faults' = faults
        \/ /\ ~(fs \in m.ext /\ FsImg \in m.files[fs])
           /\ pc' = "halted" /\ faults' = faults /\ UNCHANGED <<imagefile, mnt>>
        \/ Fault("halted") /\ UNCHANGED <<imagefile, mnt>>
  /\ UNCHANGED <<m, left, kexecvars, imageuuid, loop>>

ReadHeader ==
  /\ pc = "header"
  /\ \/ pc' = "loop" /\ faults' = faults
     \/ Fault("halted")
  /\ UNCHANGED <<m, left, kexecvars, linuxrcvars>>

(* set_loop returns 1 when it fails; main tests for a negative result.     *)
SetLoop ==
  /\ pc = "loop"
  /\ \/ /\ loop' = [disk |-> mnt, name |-> imagefile, part |-> LoopPart]
        /\ pc' = "exit0" /\ faults' = faults
     \/ loop' = NoLoop /\ Fault("exit0")
  /\ UNCHANGED <<m, left, kexecvars, imagefile, imageuuid, mnt>>

Next ==
  \/ MonoimageProbe \/ Options \/ WalkFails \/ WalkDone \/ CommandLine \/ CommandLineFails
  \/ \E n \in Nodes : WalkDev(n) \/ SearchMatch(n) \/ SearchSkip(n)
  \/ StartLinuxrc \/ ParseCmdline \/ SearchFails \/ SearchDone \/ StatImage \/ Failsafe
  \/ ReadHeader \/ SetLoop

Spec == Init /\ [][Next]_vars
(* kexec and linuxrc are run to their end.                                 *)
FairSpec == Spec /\ WF_vars(Next)

-----------------------------------------------------------------------------
(* Properties *)

(* Every partition with an ext3 has a uuid of its own, one the programs    *)
(* print as a uuid.                                                        *)
UuidsTell ==
  /\ \A d \in m.ext : ~IsNullUuid(m.uuid[d])
  /\ \A d, e \in m.ext : m.uuid[d] = m.uuid[e] => d = e

(* strstr finds the two words it looks for and no letter before them.      *)
Legible ==
  /\ \A n \in DOMAIN m.append : Letters(m.append[n]) \cap {"F", "I"} = {}
  /\ "I" \notin Letters(m.path)

(* No end of the path that was given names another file of the partition.  *)
PathTells ==
  \A n \in 0..Len(m.path) :
    Below(n) \in m.files[m.image.disk] => Below(n) = m.image.name

PathVia(point, name) == IF point = <<"/">> THEN point \o name ELSE point \o <<"/">> \o name

(* A machine free of the oddities the programs do not handle; the path     *)
(* given is the file's name below the one mount point of its partition.    *)
Clean ==
  /\ UuidsTell /\ Legible
  /\ \A n \in Nodes : m.node[n] # Dangling
  /\ \A n \in Nodes : m.node[n] = m.image.disk =>
       /\ \E k \in DOMAIN m.mounts : m.mounts[k].node = n
       /\ \A k \in DOMAIN m.mounts : <<n, m.mounts[k].node>> \in NodePrefix =>
            m.mounts[k].node = n /\ m.path = PathVia(m.mounts[k].point, m.image.name)

Root == [disk |-> loop.disk, name |-> loop.name]

(* Partitions found again by uuid: whatever /dev and /proc/mounts look     *)
(* like, in whatever order, and wherever the path is cut, the file on      *)
(* loop0 is the one kexec was given or the failsafe; unless another file   *)
(* of the partition has an end of the path for its name, or a capital is   *)
(* taken for a keyword.                                                    *)
RootIsAskedOrFailsafe ==
  UuidsTell /\ Legible /\ PathTells /\ loop # NoLoop =>
    \/ Root = m.image
    \/ Root = [disk |-> m.node[FsNode], name |-> FsImg]

(* What kexec writes, linuxrc reads: on a clean machine, unless a system   *)
(* call fails, the file kexec was given is the one on loop0.               *)
CleanHandoff == Clean /\ ~faults /\ pc = "exit0" => loop # NoLoop /\ Root = m.image

(* kexec and linuxrc come to an end.                                       *)
HandoffEnds == <>(pc \in {"failed", "halted", "exit0"})
===============================================================================

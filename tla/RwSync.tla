-------------------------------- MODULE RwSync --------------------------------
(***************************************************************************)
(* rw-sync.sh -w, which keeps the changed files of a machine that runs     *)
(* from a read-only image in a tarball on the partition RW_SYNC, and       *)
(* init.d/overlay, which unpacks that tarball at the next boot if the      *)
(* checksum beside it vouches for it.  Power may fail at any step, the     *)
(* script may be killed, the mount or tar may fail, the partition may fill *)
(* up and the kernel writes files back in any order until the umount.      *)
(*                                                                         *)
(* A tarball is a sequence of blocks of 1K that all name the version of    *)
(* the files in it; a torn one is a prefix.  A digest is the content it is *)
(* taken of.  A directory is a function from the files that exist.         *)
(***************************************************************************)
EXTENDS Integers, Sequences

CONSTANTS
  TARFILE, BAKFILE, RESFILE, MD5FILE,  \* conf.d/overlay, lines 3-9
  Capacity,       \* blocks of the partition
  MaxEdits,       \* bound: changes of the files
  MaxFaults,      \* bound: power failures and killed scripts
  Size            \* blocks of the tarball of each version

ASSUME BoundsAssumption == Capacity \in Nat /\ MaxEdits \in Nat /\ MaxFaults \in Nat
ASSUME SizeAssumption == Size \in [0..MaxEdits + 1 -> Nat \ {0}]
ASSUME FilesAssumption ==
  /\ TARFILE \notin {BAKFILE, RESFILE, MD5FILE}
  /\ BAKFILE \notin {RESFILE, MD5FILE} /\ RESFILE # MD5FILE

None == MaxEdits + 2          \* no version
Mixed == MaxEdits + 1         \* the files after a torn tarball was unpacked
Absent == [f \in {} |-> <<>>] \* an empty directory

VARIABLES
  pc,       \* the next line of the script, "idle" when none runs, "off"
  files,    \* version of the changed files in the running system
  edits,    \* versions made so far
  mounted,  \* the partition is mounted on MNTDIR
  fs,       \* the partition as the kernel shows it while mounted
  disk,     \* the partition as it survives a power failure
  tmptar,   \* TMPDIR/TMPTARFILE
  md5tar,   \* MD5TAR
  faults,   \* power failures and killed scripts so far
  settled,  \* version of the last save, None while a later one is unfinished
  pending,  \* settled before the save that runs
  saving,   \* version the save that runs has room for, None if it has not
  cramped   \* some save found no room for its tarball, there or in TMPDIR

vars == <<pc, files, edits, mounted, fs, disk, tmptar, md5tar, faults,
          settled, pending, saving, cramped>>
script == <<tmptar, md5tar>>
ghosts == <<settled, pending, saving, cramped>>
machine == <<files, edits, faults>>

Whole(t) == t # <<>> /\ Len(t) = Size[t[1]]
Nothing == [from |-> "none", tar |-> <<>>]

Init ==
  /\ pc = "idle" /\ files = 0 /\ edits = 0 /\ faults = 0
  /\ mounted = FALSE /\ fs = Absent /\ disk = Absent
  /\ tmptar = <<>> /\ md5tar = <<>>
  /\ settled = None /\ pending = None /\ saving = None /\ cramped = FALSE

(* The files of MNTDIR: without the partition a directory in memory, where *)
(* the save puts no tarball since df knows no free space.                  *)
Dir == IF mounted THEN fs ELSE Absent
Blocks(d, f) == IF f \in DOMAIN d THEN Len(d[f]) ELSE 0
Used(d) == Blocks(d, TARFILE) + Blocks(d, BAKFILE) + Blocks(d, RESFILE) + Blocks(d, MD5FILE)

(* fsize p: the available blocks, which df does not list when unmounted.   *)
psize == IF mounted THEN Capacity - Used(fs) ELSE 0

With(d, f, t) == [g \in DOMAIN d \cup {f} |-> IF g = f THEN t ELSE d[g]]
Store(f, t) == fs' = IF mounted THEN With(fs, f, t) ELSE fs

-----------------------------------------------------------------------------
(* rw-sync.sh -w *)

(* The files change: an operator edits one or adds one to CONFFILE (-a).   *)
Edit ==
  /\ pc # "off" /\ edits < MaxEdits
  /\ edits' = edits + 1 /\ files' = edits + 1
  /\ UNCHANGED <<pc, mounted, fs, disk, faults, script, ghosts>>

(* The script starts; fmount's status is not looked at.  It fails when the *)
(* partition cannot be mounted or a killed script left it mounted.         *)
Save(optb) ==
  /\ pc = "idle" /\ pc' = IF optb THEN "backup" ELSE "tar"
  /\ \/ ~mounted /\ mounted' = TRUE /\ fs' = disk
     \/ UNCHANGED <<mounted, fs>>
  /\ UNCHANGED <<disk, script, ghosts, machine>>

(* cp creates or truncates its target, then copies block by block until    *)
(* the end of its source or of the space.                                  *)
Copy(src, dst, next) ==
  LET done == Len(Dir[dst]) = Len(src) \/ psize = 0
  IN IF done THEN pc' = next /\ fs' = fs
             ELSE pc' = pc /\ Store(dst, Append(Dir[dst], src[Len(Dir[dst]) + 1]))

Backup ==
  /\ pc = "backup"
  /\ IF TARFILE \in DOMAIN Dir /\ psize > Len(Dir[TARFILE])
     THEN pc' = "copybak" /\ Store(BAKFILE, <<>>)
     ELSE pc' = "tar" /\ fs' = fs
  /\ UNCHANGED <<mounted, disk, script, ghosts, machine>>

CopyBackup ==
  /\ pc = "copybak" /\ Copy(Dir[TARFILE], BAKFILE, "tar")
  /\ UNCHANGED <<mounted, disk, script, ghosts, machine>>

(* What the save that now replaces tarball or checksum will have settled:  *)
(* the version it saves, or what it keeps.                                 *)
Settles(saved, kept) ==
  IF mounted
  THEN /\ settled' = None /\ saving' = saved /\ pending' = kept
       /\ cramped' = (cramped \/ saved = None)
  ELSE UNCHANGED ghosts

(* Nobody looks at tar's status: where TMPDIR is full, or tar dies, the    *)
(* tarball is cut short.                                                   *)
MakeTarball ==
  /\ pc = "tar" /\ pc' = "size"
  /\ \E n \in 0..Size[files] : tmptar' = [i \in 1..n |-> files]
  /\ UNCHANGED <<mounted, fs, disk, md5tar, ghosts, machine>>

(* Without a tarball $tmptarsize is empty and the test of the sizes fails. *)
NoTarball ==
  /\ pc = "tar" /\ pc' = "md5"
  /\ Settles(None, settled)
  /\ UNCHANGED <<mounted, fs, disk, script, machine>>

(* The size left in $size by the last fsize: of the tarball on the         *)
(* partition, or of the new one when there is none.                        *)
tarfsize == IF TARFILE \in DOMAIN Dir THEN Len(Dir[TARFILE]) ELSE Len(tmptar)

Fits == psize + tarfsize > Len(tmptar)

(* What is really there: a tarball that does not exist makes no space.     *)
Room == Len(tmptar) < psize + Blocks(Dir, TARFILE)

CheckSize ==
  /\ pc = "size"
  /\ IF Fits THEN pc' = "copytar" /\ Store(TARFILE, <<>>) /\ tmptar' = tmptar
             ELSE pc' = "md5" /\ fs' = fs /\ tmptar' = <<>>
  /\ Settles(IF Whole(tmptar) /\ Room THEN tmptar[1] ELSE None,
             IF Whole(tmptar) \/ ~Fits THEN settled ELSE None)
  /\ UNCHANGED <<mounted, disk, md5tar, machine>>

CopyTarball ==
  /\ pc = "copytar" /\ Copy(tmptar, TARFILE, "md5")
  /\ tmptar' = IF pc' = "md5" THEN <<>> ELSE tmptar  \* rm
  /\ UNCHANGED <<mounted, disk, md5tar, ghosts, machine>>

(* MD5TAR is taken of the file on the partition; the redirection empties   *)
(* MD5FILE before echo writes it.  MD5BAK is never set: the test before it *)
(* asks for a file of that name, which is empty.                           *)
Md5 ==
  /\ pc = "md5" /\ pc' = "echo"
  /\ md5tar' = IF TARFILE \in DOMAIN Dir THEN <<Dir[TARFILE]>> ELSE <<>>
  /\ Store(MD5FILE, <<>>)
  /\ UNCHANGED <<mounted, disk, tmptar, ghosts, machine>>

EchoMd5 ==
  /\ pc = "echo" /\ pc' = "umount"
  /\ Store(MD5FILE, IF psize > 0 THEN md5tar ELSE <<>>)
  /\ UNCHANGED <<mounted, disk, script, ghosts, machine>>

(* The script is gone, and its variables with it.                          *)
Ends == tmptar' = <<>> /\ md5tar' = <<>> /\ pending' = None /\ saving' = None

(* umount writes back what is left; without a partition it fails.          *)
Fumount ==
  /\ pc = "umount" /\ pc' = "idle" /\ mounted' = FALSE
  /\ IF mounted
     THEN /\ disk' = fs /\ fs' = Absent
          /\ settled' = IF saving = None THEN pending ELSE saving
     ELSE UNCHANGED <<disk, fs, settled>>
  /\ Ends
  /\ UNCHANGED <<cramped, machine>>

-----------------------------------------------------------------------------
(* The machine *)

(* The kernel writes one file back, once the partition has the blocks: the *)
(* ones of a file cut short are free when that has been written back.      *)
Writeback ==
  /\ mounted
  /\ \E f \in DOMAIN fs : disk' = With(disk, f, fs[f])
  /\ Used(disk') <= Capacity
  /\ UNCHANGED <<pc, mounted, fs, script, ghosts, machine>>

(* The script is killed: the partition stays mounted (the tarball in       *)
(* TMPDIR, which the next tar replaces, is left out).                      *)
Kill ==
  /\ pc \notin {"idle", "off"} /\ pc' = "idle"
  /\ faults < MaxFaults /\ faults' = faults + 1
  /\ Ends
  /\ UNCHANGED <<files, edits, mounted, fs, disk, settled, cramped>>

PowerFails ==
  /\ pc # "off" /\ pc' = "off"
  /\ faults < MaxFaults /\ faults' = faults + 1
  /\ mounted' = FALSE /\ fs' = Absent
  /\ Ends
  /\ UNCHANGED <<files, edits, disk, settled, cramped>>

(* A reboot in order unmounts what is mounted.                             *)
Shutdown ==
  /\ pc = "idle" /\ pc' = "off"
  /\ disk' = IF mounted THEN fs ELSE disk
  /\ mounted' = FALSE /\ fs' = Absent
  /\ UNCHANGED <<script, ghosts, machine>>

(* The operator makes the backup the rescue file, or takes it away again.  *)
Rescue ==
  /\ pc = "idle" /\ ~mounted
  /\ \/ /\ BAKFILE \in DOMAIN disk
        /\ disk' = [f \in (DOMAIN disk \cup {RESFILE}) \ {BAKFILE} |->
                      disk[IF f = RESFILE THEN BAKFILE ELSE f]]
     \/ /\ RESFILE \in DOMAIN disk
        /\ disk' = [f \in DOMAIN disk \ {RESFILE} |-> disk[f]]
  /\ UNCHANGED <<pc, mounted, fs, script, ghosts, machine>>

(* Seeded fault: the checksum only has to be there.                        *)
VouchedPresent == {MD5FILE, TARFILE} \subseteq DOMAIN disk
Vouched ==
  /\ {MD5FILE, TARFILE} \subseteq DOMAIN disk
  /\ disk[MD5FILE] = <<disk[TARFILE]>>

(* start: the rescue file unseen, else the tarball MD5FILE vouches for.    *)
(* The backup is only taken for a second digest in MD5FILE, which no save  *)
(* writes, and then from /root, where it is not.                           *)
Restored ==
  IF RESFILE \in DOMAIN disk THEN [from |-> RESFILE, tar |-> disk[RESFILE]]
  ELSE IF Vouched THEN [from |-> TARFILE, tar |-> disk[TARFILE]]
  ELSE Nothing

(* A partition that does not mount unpacks nothing.                        *)
Boot ==
  /\ pc = "off" /\ pc' = "idle"
  /\ \E t \in {Restored.tar, <<>>} :
       files' = IF t = <<>> THEN 0 ELSE IF Whole(t) THEN t[1] ELSE Mixed
  /\ UNCHANGED <<edits, faults, mounted, fs, disk, script, ghosts>>

Next ==
  \/ Edit \/ Backup \/ CopyBackup \/ MakeTarball \/ NoTarball \/ CheckSize
  \/ CopyTarball \/ Md5 \/ EchoMd5 \/ Fumount \/ Writeback \/ Kill \/ PowerFails \/ Shutdown
  \/ Rescue \/ Boot \/ \E optb \in BOOLEAN : Save(optb)

Spec == Init /\ [][Next]_vars

-----------------------------------------------------------------------------
(* Properties *)

(* A torn tarball is only unpacked when a save found no room, in TMPDIR or *)
(* on the partition (it then signs whatever tarball is there), or as a     *)
(* rescue file, which no checksum guards.                                  *)
WholeOrCramped ==
  Restored.tar # <<>> /\ ~Whole(Restored.tar) =>
    cramped \/ (Restored.from = RESFILE /\ faults > 0)

(* The last save of a whole tarball that ran to its end is what the boot   *)
(* unpacks, however often a later one was refused for room, had no tarball *)
(* or no partition or was cut short before it touched the tarball.         *)
LastSaveUnpacked ==
  settled # None /\ Restored.from # RESFILE =>
    Restored = [from |-> TARFILE, tar |-> [i \in 1..Size[settled] |-> settled]]

(* Tarball and checksum are written one after the other, in place, and     *)
(* reach the partition in any order: whatever was interrupted, a boot      *)
(* unpacks the last finished save, a whole tarball, or nothing.            *)
RestoredIsSaved == pc = "off" => WholeOrCramped /\ LastSaveUnpacked
===============================================================================

----------------------------- MODULE RwSyncProofs -----------------------------
(***************************************************************************)
(* Proofs about RwSync, for every size of the partition and of the         *)
(* tarballs, and any number of edits and faults.                           *)
(***************************************************************************)
EXTENDS RwSync, TLAPS

-----------------------------------------------------------------------------
(* The inductive invariant *)

Versions == 0..MaxEdits + 1
Tars == Seq(Versions)
Sums == {<<>>} \cup {<<t>> : t \in Tars}
Names == {TARFILE, BAKFILE, RESFILE, MD5FILE}

(* n blocks of version v; the whole tarball of v; a whole tarball.         *)
Run(n, v) == [i \in 1..n |-> v]
Tar(v) == Run(Size[v], v)
IsTar(t) == \E v \in Versions : t = Tar(v)

(* What tar leaves of version v: its tarball, or the beginning of it.      *)
Cut(t, v) == t = Run(Len(t), v) /\ t \in Tars /\ Len(t) <= Size[v]

(* A directory with the files of the script, on a partition that holds     *)
(* them.                                                                   *)
FileOK(f, t) == IF f = MD5FILE THEN t \in Sums ELSE t \in Tars
DirOK(d) ==
  /\ DOMAIN d \subseteq Names
  /\ \A f \in DOMAIN d : FileOK(f, d[f])
  /\ Used(d) <= Capacity

RwTypeOK ==
  /\ pc \in {"idle", "off", "backup", "copybak", "tar", "size", "copytar", "md5", "echo", "umount"}
  /\ files \in Versions /\ edits \in 0..MaxEdits /\ faults \in Nat
  /\ mounted \in BOOLEAN /\ cramped \in BOOLEAN
  /\ DirOK(fs) /\ DirOK(disk) /\ (~mounted => fs = Absent)
  /\ tmptar \in Tars /\ md5tar \in Sums
  /\ {settled, pending, saving} \subseteq Versions \cup {None}

(* Tarball and checksum of version v, both in place.                       *)
Holds(d, f, t) == f \in DOMAIN d /\ d[f] = t
Kept(d, v) == Holds(d, TARFILE, Tar(v)) /\ Holds(d, MD5FILE, <<Tar(v)>>)

(* What a save that ran to its end left stays until a later one starts to  *)
(* replace it.                                                             *)
SettledInv == settled # None => Kept(disk, settled) /\ (mounted => Kept(fs, settled))

(* What a save puts in place: the new version, or, when it is refused, the *)
(* one that was there.                                                     *)
Target == IF saving = None THEN pending ELSE saving
Writing == pc \in {"copytar", "md5", "echo", "umount"}

SaveInv ==
  /\ pc = "copybak" =>
       /\ mounted /\ {TARFILE, BAKFILE} \subseteq DOMAIN fs
       /\ Len(fs[BAKFILE]) <= Len(fs[TARFILE])
  /\ pc = "size" => \E v \in Versions : Cut(tmptar, v)
  /\ pc = "copytar" =>
       /\ mounted /\ TARFILE \in DOMAIN fs
       /\ \E v \in Versions : /\ Cut(tmptar, v) /\ fs[TARFILE] = Run(Len(fs[TARFILE]), v)
                              /\ Len(fs[TARFILE]) <= Len(tmptar)
       /\ (saving # None => tmptar = Tar(saving) /\ psize > Len(tmptar) - Len(fs[TARFILE]))
       /\ (saving = None => pending = None)
  /\ pc = "md5" /\ Target # None =>
       Holds(fs, TARFILE, Tar(Target)) /\ psize + Blocks(fs, MD5FILE) > 0
  /\ pc = "echo" /\ Target # None =>
       Holds(fs, TARFILE, Tar(Target)) /\ md5tar = <<Tar(Target)>> /\ psize > 0
  /\ pc = "umount" /\ Target # None => Kept(fs, Target)
  /\ ~Writing \/ ~mounted => pending = None /\ saving = None
  /\ Writing /\ mounted => settled = None /\ (~cramped => saving # None)

(* Unless a save was cramped, every checksum is of a whole tarball.        *)
Signs(s) == s # <<>> => IsTar(s[1])
SignedInv ==
  ~cramped =>
    /\ MD5FILE \in DOMAIN fs => Signs(fs[MD5FILE])
    /\ MD5FILE \in DOMAIN disk => Signs(disk[MD5FILE])
    /\ Signs(md5tar)

(* Unless something was interrupted too, so is every file.                 *)
WholeIn(d, F) == \A f \in F : f \in DOMAIN d => IsTar(d[f])
UntornInv ==
  faults = 0 /\ ~cramped =>
    /\ ~mounted => WholeIn(disk, {TARFILE, BAKFILE, RESFILE})
    /\ mounted =>
         /\ pc \notin {"idle", "off"}
         /\ WholeIn(fs, {RESFILE})
         /\ pc # "copytar" => WholeIn(fs, {TARFILE})
         /\ pc # "copybak" => WholeIn(fs, {BAKFILE})
         /\ pc = "copybak" =>
              /\ \E v \in Versions : /\ fs[TARFILE] = Tar(v)
                                     /\ fs[BAKFILE] = Run(Len(fs[BAKFILE]), v)
              /\ psize > Len(fs[TARFILE]) - Len(fs[BAKFILE])

RwInv ==
  RwTypeOK /\ SettledInv /\ SaveInv /\ SignedInv /\ UntornInv /\ (pc = "off" => ~mounted)

-----------------------------------------------------------------------------
(* Tarballs and directories *)

LEMMA RunFacts ==
  ASSUME NEW n \in Nat, NEW v \in Versions
  PROVE  /\ Run(n, v) \in Tars /\ Len(Run(n, v)) = n
         /\ \A i \in 1..n : Run(n, v)[i] = v
         /\ Append(Run(n, v), v) = Run(n + 1, v)
         /\ (n > 0 => Run(n, v) # <<>>)
<1>1. Run(n, v) \in Tars /\ Len(Run(n, v)) = n
  BY DEF Run, Tars
<1>2. \A i \in 1..n : Run(n, v)[i] = v
  BY DEF Run
<1>3. Append(Run(n, v), v) = Run(n + 1, v)
  <2>1. Append(Run(n, v), v) \in Tars /\ Len(Append(Run(n, v), v)) = n + 1
    BY <1>1 DEF Tars
  <2>2. Run(n + 1, v) \in Tars /\ Len(Run(n + 1, v)) = n + 1
    BY DEF Run, Tars
  <2>3. ASSUME NEW i \in 1..n + 1 PROVE Append(Run(n, v), v)[i] = Run(n + 1, v)[i]
    <3>1. Run(n + 1, v)[i] = v
      BY DEF Run
    <3>2. CASE i \in 1..n
      BY <1>1, <1>2, <3>1, <3>2 DEF Tars
    <3>3. CASE i = n + 1
      BY <1>1, <3>1, <3>3 DEF Tars
    <3>4. i \in 1..n \/ i = n + 1
      BY <2>3
    <3> QED
      BY <3>2, <3>3, <3>4
  <2> QED
    BY <2>1, <2>2, <2>3 DEF Tars
<1>4. n > 0 => Run(n, v) # <<>>
  BY <1>1
<1> QED
  BY <1>1, <1>2, <1>3, <1>4

LEMMA EmptyRun ==
  ASSUME NEW v
  PROVE  Run(0, v) = <<>>
BY DEF Run

LEMMA TarFacts ==
  ASSUME NEW v \in Versions
  PROVE  /\ Size[v] \in Nat \ {0} /\ Tar(v) \in Tars /\ Len(Tar(v)) = Size[v]
         /\ Tar(v)[1] = v /\ Tar(v) # <<>> /\ IsTar(Tar(v)) /\ v # None
<1>1. Size[v] \in Nat \ {0}
  BY SizeAssumption DEF Versions
<1>2. Tar(v) = Run(Size[v], v) /\ IsTar(Tar(v))
  BY DEF Tar, IsTar
<1>3. v # None
  BY BoundsAssumption DEF Versions, None
<1>4. PICK n \in Nat \ {0} : n = Size[v]
  BY <1>1
<1>5. /\ Run(n, v) \in Tars /\ Len(Run(n, v)) = n /\ Run(n, v)[1] = v
      /\ Run(n, v) # <<>>
  <2>1. n \in Nat /\ n > 0 /\ 1 \in 1..n
    OBVIOUS
  <2> QED
    BY <2>1, RunFacts, Zenon
<1>6. Tar(v) = Run(n, v)
  BY <1>2, <1>4
<1> QED
  BY <1>2, <1>3, <1>4, <1>5, <1>6, Zenon

LEMMA TarIsWhole ==
  ASSUME NEW t, IsTar(t)
  PROVE  Whole(t) /\ t \in Tars
<1>1. PICK v \in Versions : t = Tar(v)
  BY DEF IsTar
<1> QED
  BY <1>1, TarFacts DEF Whole

LEMMA CutFacts ==
  ASSUME NEW v \in Versions, NEW t, Cut(t, v)
  PROVE  /\ Len(t) \in Nat /\ Len(t) <= Size[v]
         /\ \A i \in 1..Len(t) : t[i] = v
         /\ Whole(t) => t[1] = v /\ t = Tar(v)
<1>1. Len(t) \in Nat /\ Len(t) <= Size[v]
  BY DEF Cut, Tars
<1>2. \A i \in 1..Len(t) : t[i] = v
  <2>1. t = Run(Len(t), v)
    BY DEF Cut
  <2>2. \A i \in 1..Len(t) : Run(Len(t), v)[i] = v
    BY <1>1, RunFacts, Zenon
  <2> QED
    BY <2>1, <2>2, Zenon
<1>3. ASSUME Whole(t) PROVE t[1] = v /\ t = Tar(v)
  <2>1. t # <<>> /\ Len(t) = Size[t[1]]
    BY <1>3 DEF Whole
  <2>2. 1 \in 1..Len(t)
    BY <1>1, <2>1 DEF Cut, Tars
  <2>3. t[1] = v
    BY <1>2, <2>2, Zenon
  <2> QED
    BY <2>1, <2>3, Zenon DEF Cut, Tar
<1> QED
  BY <1>1, <1>2, <1>3, Zenon

LEMMA DirFacts ==
  ASSUME NEW d, DirOK(d)
  PROVE  /\ \A f \in Names : Blocks(d, f) \in Nat
         /\ Used(d) \in Nat /\ Used(d) <= Capacity
         /\ \A f \in DOMAIN d : Len(d[f]) \in Nat
<1>1. \A f \in DOMAIN d : Len(d[f]) \in Nat
  BY DEF DirOK, FileOK, Tars, Sums
<1>2. \A f \in Names : Blocks(d, f) \in Nat
  BY <1>1 DEF Blocks
<1> QED
  BY <1>1, <1>2 DEF Used, Names, DirOK

(* What writing a file does to a directory.                                *)
LEMMA WithFacts ==
  ASSUME NEW d, NEW f, NEW t
  PROVE  /\ DOMAIN With(d, f, t) = DOMAIN d \cup {f}
         /\ With(d, f, t)[f] = t
         /\ \A g \in DOMAIN d : g # f => With(d, f, t)[g] = d[g]
BY DEF With

LEMMA WithUsed ==
  ASSUME NEW d, DirOK(d), NEW f \in Names, NEW t, FileOK(f, t)
  PROVE  /\ Used(With(d, f, t)) = Used(d) - Blocks(d, f) + Len(t)
         /\ Used(d) - Blocks(d, f) + Len(t) <= Capacity => DirOK(With(d, f, t))
<1> DEFINE e == With(d, f, t)
<1>1. DOMAIN e = DOMAIN d \cup {f} /\ e[f] = t /\ \A g \in DOMAIN d : g # f => e[g] = d[g]
  BY DEF With
<1>2. Len(t) \in Nat
  BY DEF FileOK, Tars, Sums
<1> HIDE DEF e
<1>3. Blocks(e, f) = Len(t) /\ \A g \in Names : g # f => Blocks(e, g) = Blocks(d, g)
  BY <1>1 DEF Blocks
<1>4. \A g \in Names : Blocks(d, g) \in Nat
  BY DirFacts
<1>5. Used(e) = Used(d) - Blocks(d, f) + Len(t)
  BY <1>2, <1>3, <1>4, FilesAssumption DEF Used, Names
<1>6. DOMAIN e \subseteq Names /\ \A g \in DOMAIN e : FileOK(g, e[g])
  BY <1>1 DEF DirOK
<1> QED
  BY <1>5, <1>6 DEF DirOK, e

LEMMA EmptyFile == <<>> \in Tars /\ <<>> \in Sums
BY DEF Tars, Sums

LEMMA EmptyDir == DOMAIN Absent = {} /\ DirOK(Absent) /\ Used(Absent) = 0
<1>1. DOMAIN Absent = {}
  BY DEF Absent
<1>2. Used(Absent) = 0
  BY <1>1 DEF Used, Blocks
<1> QED
  BY <1>1, <1>2, BoundsAssumption DEF DirOK

-----------------------------------------------------------------------------
(* Each step of the script and of the machine keeps the invariant *)

LEMMA RwInit == Init => RwInv
<1> SUFFICES ASSUME Init PROVE RwInv
  OBVIOUS
<1>1. 0 \in Versions /\ 0 \in 0..MaxEdits /\ <<>> \in Tars /\ <<>> \in Sums
  BY BoundsAssumption DEF Versions, Tars, Sums
<1>2. RwTypeOK
  BY <1>1, EmptyDir DEF Init, RwTypeOK
<1>3. SettledInv /\ SaveInv
  BY DEF Init, SettledInv, SaveInv, Writing, Target
<1>4. SignedInv /\ UntornInv
  BY EmptyDir DEF Init, SignedInv, UntornInv, Signs, WholeIn
<1> QED
  BY <1>2, <1>3, <1>4 DEF RwInv, Init

(* The script starts, or goes on without the partition.                    *)
LEMMA EditKeeps == RwInv /\ Edit => RwInv'
<1> SUFFICES ASSUME RwInv, Edit PROVE RwInv'
  OBVIOUS
<1>1. edits' \in 0..MaxEdits /\ files' \in Versions
  BY BoundsAssumption DEF RwInv, RwTypeOK, Edit, Versions
<1>2. UNCHANGED <<pc, mounted, fs, disk, faults, tmptar, md5tar, settled, pending, saving, cramped>>
  BY DEF Edit, script, ghosts
<1>3. RwTypeOK'
  BY <1>1, <1>2 DEF RwInv, RwTypeOK, DirOK, Used, Blocks
<1>4. psize' = psize
  BY <1>2 DEF psize, Used, Blocks
<1>5. SettledInv' /\ SaveInv'
  BY <1>2, <1>4 DEF RwInv, SettledInv, SaveInv, Writing, Target, Kept, Holds, Blocks
<1>6. SignedInv' /\ UntornInv'
  BY <1>2, <1>4 DEF RwInv, SignedInv, UntornInv, WholeIn
<1> QED
  BY <1>2, <1>3, <1>5, <1>6 DEF RwInv

LEMMA SaveKeeps ==
  ASSUME NEW optb \in BOOLEAN
  PROVE  RwInv /\ Save(optb) => RwInv'
<1> SUFFICES ASSUME RwInv, Save(optb) PROVE RwInv'
  OBVIOUS
<1>1. UNCHANGED <<disk, tmptar, md5tar, settled, pending, saving, cramped, files, edits, faults>>
  BY DEF Save, script, ghosts, machine
<1>2. pc = "idle" /\ pc' \in {"backup", "tar"}
  BY DEF Save
<1>3. \/ ~mounted /\ mounted' = TRUE /\ fs' = disk
      \/ mounted' = mounted /\ fs' = fs
  BY DEF Save
<1>4. RwTypeOK'
  BY <1>1, <1>2, <1>3 DEF RwInv, RwTypeOK, DirOK, Used, Blocks
<1>5. SettledInv'
  BY <1>1, <1>3 DEF RwInv, SettledInv, Kept, Holds
<1>6. SaveInv'
  BY <1>1, <1>2 DEF RwInv, SaveInv, Writing
<1>7. SignedInv'
  BY <1>1, <1>3 DEF RwInv, SignedInv
<1>8. UntornInv'
  BY <1>1, <1>2, <1>3 DEF RwInv, UntornInv, WholeIn
<1> QED
  BY <1>2, <1>4, <1>5, <1>6, <1>7, <1>8 DEF RwInv

LEMMA NameFacts ==
  /\ TARFILE \in Names /\ BAKFILE \in Names /\ RESFILE \in Names /\ MD5FILE \in Names
  /\ TARFILE # BAKFILE /\ TARFILE # RESFILE /\ TARFILE # MD5FILE
  /\ BAKFILE # RESFILE /\ BAKFILE # MD5FILE /\ RESFILE # MD5FILE
BY FilesAssumption DEF Names

(* The tarball or the backup on the mounted partition is replaced by t, of *)
(* at most as many blocks as there is space for.                           *)
LEMMA WriteKeepsType ==
  ASSUME RwTypeOK, mounted, NEW f \in Names, NEW t, FileOK(f, t),
         Len(t) <= Blocks(fs, f) + psize, Store(f, t)
  PROVE  /\ fs' = With(fs, f, t) /\ DirOK(fs)'
         /\ DOMAIN fs' = DOMAIN fs \cup {f} /\ fs'[f] = t
         /\ \A g \in DOMAIN fs : g # f => fs'[g] = fs[g]
         /\ mounted' => psize' = psize + Blocks(fs, f) - Len(t)
<1>1. fs' = With(fs, f, t)
  BY DEF Store
<1>2. DirOK(fs) /\ psize = Capacity - Used(fs)
  BY DEF RwTypeOK, psize
<1>3. Blocks(fs, f) \in Nat /\ Used(fs) \in Nat /\ Len(t) \in Nat /\ Capacity \in Nat
  BY <1>2, DirFacts, BoundsAssumption DEF FileOK, Tars, Sums
<1>4. Used(fs) - Blocks(fs, f) + Len(t) <= Capacity
  BY <1>2, <1>3
<1>5. DirOK(fs') /\ Used(fs') = Used(fs) - Blocks(fs, f) + Len(t)
  BY <1>1, <1>2, <1>4, WithUsed
<1>6. DirOK(fs)' /\ (Used(fs))' = Used(fs')
  BY <1>5 DEF DirOK, Used, Blocks
<1>7. mounted' => psize' = Capacity - Used(fs')
  BY <1>6 DEF psize
<1>8. mounted' => psize' = psize + Blocks(fs, f) - Len(t)
  BY <1>2, <1>3, <1>5, <1>7
<1>9. /\ DOMAIN fs' = DOMAIN fs \cup {f} /\ fs'[f] = t
      /\ \A g \in DOMAIN fs : g # f => fs'[g] = fs[g]
  BY <1>1 DEF With
<1> QED
  BY <1>1, <1>6, <1>8, <1>9

LEMMA BackupKeeps == RwInv /\ Backup => RwInv'
<1> SUFFICES ASSUME RwInv, Backup PROVE RwInv'
  OBVIOUS
<1>1. UNCHANGED <<mounted, disk, tmptar, md5tar, settled, pending, saving, cramped, files, edits, faults>>
  BY DEF Backup, script, ghosts, machine
<1>2. pc = "backup"
  BY DEF Backup
<1>3. CASE pc' = "tar" /\ fs' = fs
  <2>1. RwTypeOK'
    BY <1>1, <1>3 DEF RwInv, RwTypeOK, DirOK, Used, Blocks
  <2>2. SettledInv' /\ SaveInv'
    BY <1>1, <1>2, <1>3 DEF RwInv, SettledInv, Kept, Holds, SaveInv, Writing
  <2>3. SignedInv' /\ UntornInv'
    BY <1>1, <1>2, <1>3 DEF RwInv, SignedInv, UntornInv, WholeIn
  <2> QED
    BY <1>3, <2>1, <2>2, <2>3 DEF RwInv
<1>4. CASE /\ TARFILE \in DOMAIN Dir /\ psize > Len(Dir[TARFILE])
           /\ pc' = "copybak" /\ Store(BAKFILE, <<>>)
  <2>1. mounted /\ TARFILE \in DOMAIN fs /\ psize > Len(fs[TARFILE])
    BY <1>4, EmptyDir DEF Dir
  <2>2. RwTypeOK /\ FileOK(BAKFILE, <<>>) /\ Len(<<>>) = 0
    BY NameFacts DEF RwInv, FileOK, Tars
  <2>3. /\ Blocks(fs, BAKFILE) \in Nat /\ Len(fs[TARFILE]) \in Nat
        /\ psize \in Int
    <3>1. DirOK(fs) /\ psize = Capacity - Used(fs)
      BY <2>1, <2>2 DEF RwTypeOK, psize
    <3> QED
      BY <2>1, <3>1, DirFacts, NameFacts, BoundsAssumption
  <2>4. /\ DirOK(fs)' /\ DOMAIN fs' = DOMAIN fs \cup {BAKFILE} /\ fs'[BAKFILE] = <<>>
        /\ \A g \in DOMAIN fs : g # BAKFILE => fs'[g] = fs[g]
        /\ psize' = psize + Blocks(fs, BAKFILE)
    <3>1. Len(<<>>) <= Blocks(fs, BAKFILE) + psize
      BY <2>1, <2>2, <2>3
    <3>2. mounted'
      BY <1>1, <2>1
    <3>3. psize' = psize + Blocks(fs, BAKFILE) - Len(<<>>)
      BY <1>4, <2>1, <2>2, <3>1, <3>2, WriteKeepsType, NameFacts
    <3>4. psize' = psize + Blocks(fs, BAKFILE)
      BY <2>2, <2>3, <3>3
    <3>5. /\ DirOK(fs)' /\ DOMAIN fs' = DOMAIN fs \cup {BAKFILE} /\ fs'[BAKFILE] = <<>>
          /\ \A g \in DOMAIN fs : g # BAKFILE => fs'[g] = fs[g]
      BY <1>4, <2>1, <2>2, <3>1, WriteKeepsType, NameFacts, Zenon
    <3> QED
      BY <3>4, <3>5
  <2>5. RwTypeOK'
    BY <1>1, <1>4, <2>1, <2>2, <2>4 DEF RwTypeOK
  <2>6. SettledInv'
    BY <1>1, <2>4, NameFacts DEF RwInv, SettledInv, Kept, Holds
  <2>7. SaveInv'
    BY <1>1, <1>2, <1>4, <2>1, <2>2, <2>3, <2>4, NameFacts DEF RwInv, SaveInv, Writing
  <2>8. SignedInv'
    BY <1>1, <2>4, NameFacts DEF RwInv, SignedInv
  <2>9. UntornInv'
    <3> SUFFICES ASSUME faults = 0, ~cramped
                 PROVE  /\ WholeIn(fs', {RESFILE}) /\ WholeIn(fs', {TARFILE})
                        /\ \E v \in Versions : /\ fs'[TARFILE] = Tar(v)
                                               /\ fs'[BAKFILE] = Run(Len(fs'[BAKFILE]), v)
                        /\ psize' > Len(fs'[TARFILE]) - Len(fs'[BAKFILE])
      BY <1>1, <1>4, <2>1 DEF UntornInv, WholeIn
    <3>1. WholeIn(fs, {RESFILE}) /\ WholeIn(fs, {TARFILE})
      BY <1>2, <2>1 DEF RwInv, UntornInv
    <3>2. PICK v \in Versions : fs[TARFILE] = Tar(v)
      BY <2>1, <3>1 DEF WholeIn, IsTar
    <3>3. fs'[TARFILE] = Tar(v) /\ fs'[BAKFILE] = Run(Len(fs'[BAKFILE]), v)
      BY <2>1, <2>2, <2>4, <3>2, EmptyRun, NameFacts
    <3>4. psize' > Len(fs'[TARFILE]) - Len(fs'[BAKFILE])
      BY <2>1, <2>2, <2>3, <2>4, NameFacts
    <3> QED
      BY <2>4, <3>1, <3>3, <3>4, NameFacts DEF WholeIn
  <2> QED
    BY <1>4, <2>5, <2>6, <2>7, <2>8, <2>9 DEF RwInv
<1> QED
  BY <1>3, <1>4 DEF Backup

(* The space on the mounted partition.                                     *)
LEMMA Space ==
  ASSUME RwTypeOK, mounted
  PROVE  /\ DirOK(fs) /\ psize = Capacity - Used(fs) /\ psize \in Nat
         /\ \A f \in Names : Blocks(fs, f) \in Nat
<1>1. DirOK(fs) /\ psize = Capacity - Used(fs)
  BY DEF RwTypeOK, psize
<1> QED
  BY <1>1, DirFacts, BoundsAssumption

(* One step of cp: it ends, or there is one more block of its source.      *)
LEMMA CopyStep ==
  ASSUME RwTypeOK, mounted, mounted', NEW src \in Tars, NEW dst \in {TARFILE, BAKFILE},
         NEW next, dst \in DOMAIN fs, Len(fs[dst]) <= Len(src), Copy(src, dst, next)
  PROVE  \/ /\ Len(fs[dst]) = Len(src) \/ psize = 0
            /\ pc' = next /\ fs' = fs
         \/ /\ pc' = pc /\ Len(fs[dst]) < Len(src)
            /\ DirOK(fs)' /\ DOMAIN fs' = DOMAIN fs
            /\ fs'[dst] = Append(fs[dst], src[Len(fs[dst]) + 1])
            /\ Len(fs'[dst]) = Len(fs[dst]) + 1
            /\ \A g \in DOMAIN fs : g # dst => fs'[g] = fs[g]
            /\ psize' = psize - 1
<1>1. Dir = fs
  BY DEF Dir
<1>2. dst \in Names /\ dst # MD5FILE
  BY NameFacts
<1>3. fs[dst] \in Tars /\ Len(fs[dst]) \in Nat /\ Len(src) \in Nat
  BY <1>2, Space DEF DirOK, FileOK, Tars
<1>4. psize \in Nat
  BY Space
<1> DEFINE t == Append(fs[dst], src[Len(fs[dst]) + 1])
<1>5. CASE Len(fs[dst]) = Len(src) \/ psize = 0
  BY <1>1, <1>5 DEF Copy
<1>6. CASE ~(Len(fs[dst]) = Len(src) \/ psize = 0)
  <2>1. pc' = pc /\ Store(dst, t)
    BY <1>1, <1>6 DEF Copy
  <2>2. Len(fs[dst]) < Len(src)
    BY <1>3, <1>6
  <2>3. src[Len(fs[dst]) + 1] \in Versions
    BY <1>3, <2>2 DEF Tars
  <2>4. t \in Tars /\ Len(t) = Len(fs[dst]) + 1
    BY <1>3, <2>3 DEF Tars
  <2>5. FileOK(dst, t)
    BY <1>2, <2>4 DEF FileOK
  <2>6. Blocks(fs, dst) = Len(fs[dst])
    BY DEF Blocks
  <2>7. Len(t) <= Blocks(fs, dst) + psize
    BY <1>3, <1>4, <1>6, <2>4, <2>6
  <2> HIDE DEF t
  <2>8. /\ DirOK(fs)' /\ DOMAIN fs' = DOMAIN fs \cup {dst} /\ fs'[dst] = t
        /\ \A g \in DOMAIN fs : g # dst => fs'[g] = fs[g]
        /\ psize' = psize + Blocks(fs, dst) - Len(t)
    BY <1>2, <2>1, <2>5, <2>7, WriteKeepsType, Zenon
  <2>9. psize' = psize - 1
    BY <1>3, <1>4, <2>4, <2>6, <2>8
  <2>10. DOMAIN fs' = DOMAIN fs
    BY <2>8
  <2> QED
    BY <2>1, <2>2, <2>4, <2>8, <2>9, <2>10 DEF t
<1> QED
  BY <1>5, <1>6

LEMMA CopyBackupKeeps == RwInv /\ CopyBackup => RwInv'
<1> SUFFICES ASSUME RwInv, CopyBackup PROVE RwInv'
  OBVIOUS
<1>1. UNCHANGED <<mounted, disk, tmptar, md5tar, settled, pending, saving, cramped, files, edits, faults>>
  BY DEF CopyBackup, script, ghosts, machine
<1>2. /\ RwTypeOK /\ pc = "copybak" /\ mounted /\ mounted'
      /\ TARFILE \in DOMAIN fs /\ BAKFILE \in DOMAIN fs
      /\ Len(fs[BAKFILE]) <= Len(fs[TARFILE])
  BY <1>1 DEF CopyBackup, RwInv, SaveInv
<1>3. fs[TARFILE] \in Tars /\ fs[BAKFILE] \in Tars
  BY <1>2, Space, NameFacts DEF DirOK, FileOK
<1>4. Len(fs[TARFILE]) \in Nat /\ Len(fs[BAKFILE]) \in Nat /\ psize \in Nat
  BY <1>2, <1>3, Space DEF Tars
<1>5. Copy(fs[TARFILE], BAKFILE, "tar")
  <2>1. Dir = fs
    BY <1>2 DEF Dir
  <2> QED
    BY <2>1 DEF CopyBackup
<1>6. CASE (Len(fs[BAKFILE]) = Len(fs[TARFILE]) \/ psize = 0) /\ pc' = "tar" /\ fs' = fs
  <2>1. RwTypeOK'
    BY <1>1, <1>2, <1>6 DEF RwTypeOK
  <2>2. SettledInv' /\ SaveInv'
    BY <1>1, <1>2, <1>6 DEF RwInv, SettledInv, SaveInv, Writing
  <2>3. SignedInv'
    BY <1>1, <1>6 DEF RwInv, SignedInv
  <2>4. UntornInv'
    <3> SUFFICES ASSUME faults = 0, ~cramped
                 PROVE  WholeIn(fs, {RESFILE, TARFILE, BAKFILE})
      BY <1>1, <1>2, <1>6 DEF UntornInv, WholeIn
    <3>1. /\ WholeIn(fs, {RESFILE})
          /\ psize > Len(fs[TARFILE]) - Len(fs[BAKFILE])
      BY <1>2 DEF RwInv, UntornInv
    <3>2. PICK v \in Versions : /\ fs[TARFILE] = Tar(v)
                                /\ fs[BAKFILE] = Run(Len(fs[BAKFILE]), v)
      BY <1>2 DEF RwInv, UntornInv
    <3>3. Len(fs[BAKFILE]) = Len(fs[TARFILE])
      BY <1>2, <1>4, <1>6, <3>1
    <3>4. fs[BAKFILE] = Tar(v)
      BY <3>2, <3>3, TarFacts DEF Tar
    <3> QED
      BY <3>1, <3>2, <3>4 DEF WholeIn, IsTar
  <2> QED
    BY <1>6, <2>1, <2>2, <2>3, <2>4 DEF RwInv
<1>7. CASE /\ pc' = pc /\ Len(fs[BAKFILE]) < Len(fs[TARFILE])
           /\ DirOK(fs)' /\ DOMAIN fs' = DOMAIN fs
           /\ fs'[BAKFILE] = Append(fs[BAKFILE], fs[TARFILE][Len(fs[BAKFILE]) + 1])
           /\ Len(fs'[BAKFILE]) = Len(fs[BAKFILE]) + 1
           /\ \A g \in DOMAIN fs : g # BAKFILE => fs'[g] = fs[g]
           /\ psize' = psize - 1
  <2>0. fs'[TARFILE] = fs[TARFILE]
    BY <1>2, <1>7, NameFacts
  <2>1. RwTypeOK'
    BY <1>1, <1>2, <1>7 DEF RwTypeOK
  <2>2. SettledInv'
    BY <1>1, <1>7, NameFacts DEF RwInv, SettledInv, Kept, Holds
  <2>3. SaveInv'
    BY <1>1, <1>2, <1>4, <1>7, <2>0 DEF RwInv, SaveInv, Writing
  <2>4. SignedInv'
    BY <1>1, <1>7, NameFacts DEF RwInv, SignedInv
  <2>5. UntornInv'
    <3> SUFFICES ASSUME faults = 0, ~cramped
                 PROVE  /\ WholeIn(fs', {RESFILE}) /\ WholeIn(fs', {TARFILE})
                        /\ \E v \in Versions : /\ fs'[TARFILE] = Tar(v)
                                               /\ fs'[BAKFILE] = Run(Len(fs'[BAKFILE]), v)
                        /\ psize' > Len(fs'[TARFILE]) - Len(fs'[BAKFILE])
      BY <1>1, <1>2, <1>7 DEF UntornInv, WholeIn
    <3>1. /\ WholeIn(fs, {RESFILE}) /\ WholeIn(fs, {TARFILE})
          /\ psize > Len(fs[TARFILE]) - Len(fs[BAKFILE])
      BY <1>2 DEF RwInv, UntornInv
    <3>2. PICK v \in Versions : /\ fs[TARFILE] = Tar(v)
                                /\ fs[BAKFILE] = Run(Len(fs[BAKFILE]), v)
      BY <1>2 DEF RwInv, UntornInv
    <3>3. fs[TARFILE][Len(fs[BAKFILE]) + 1] = v
      <4>1. PICK n \in Nat : n = Size[v] /\ n = Len(fs[TARFILE])
        BY <3>2, TarFacts
      <4>2. fs[TARFILE] = Run(n, v)
        BY <3>2, <4>1 DEF Tar
      <4>3. Len(fs[BAKFILE]) + 1 \in 1..n
        BY <1>4, <1>7, <4>1
      <4> QED
        BY <4>2, <4>3, RunFacts, SMTT(30)
    <3>4. fs'[BAKFILE] = Run(Len(fs[BAKFILE]) + 1, v)
      <4>1. Append(Run(Len(fs[BAKFILE]), v), v) = Run(Len(fs[BAKFILE]) + 1, v)
        BY <1>4, RunFacts
      <4> QED
        BY <1>7, <3>2, <3>3, <4>1
    <3>5. psize' > Len(fs'[TARFILE]) - Len(fs'[BAKFILE])
      <4>1. /\ psize' = psize - 1 /\ Len(fs'[TARFILE]) = Len(fs[TARFILE])
            /\ Len(fs'[BAKFILE]) = Len(fs[BAKFILE]) + 1
        BY <1>7, <2>0
      <4>2. psize - 1 > Len(fs[TARFILE]) - (Len(fs[BAKFILE]) + 1)
        <5>1. \A a, b, c \in Nat : c > a - b => c - 1 > a - (b + 1)
          OBVIOUS
        <5> QED
          BY <1>4, <3>1, <5>1, Zenon
      <4> QED
        BY <4>1, <4>2, Zenon
    <3>6. WholeIn(fs', {RESFILE}) /\ WholeIn(fs', {TARFILE})
      BY <1>7, <3>1, NameFacts DEF WholeIn
    <3>7. fs'[TARFILE] = Tar(v) /\ fs'[BAKFILE] = Run(Len(fs'[BAKFILE]), v)
      BY <1>7, <2>0, <3>2, <3>4
    <3> QED
      BY <3>5, <3>6, <3>7, Zenon
  <2> QED
    BY <1>2, <1>7, <2>1, <2>2, <2>3, <2>4, <2>5 DEF RwInv
<1> QED
  BY <1>2, <1>3, <1>5, <1>6, <1>7, CopyStep

LEMMA MakeTarballKeeps == RwInv /\ MakeTarball => RwInv'
<1> SUFFICES ASSUME RwInv, MakeTarball PROVE RwInv'
  OBVIOUS
<1>1. UNCHANGED <<mounted, fs, disk, md5tar, settled, pending, saving, cramped, files, edits, faults>>
  BY DEF MakeTarball, ghosts, machine
<1>2. pc = "tar" /\ pc' = "size" /\ files \in Versions
  BY DEF MakeTarball, RwInv, RwTypeOK
<1>3. tmptar' \in Tars /\ Cut(tmptar', files)
  <2>1. PICK n \in 0..Size[files] : tmptar' = Run(n, files)
    BY Zenon DEF MakeTarball, Run
  <2>2. n \in Nat /\ n <= Size[files]
    BY <1>2, <2>1, TarFacts
  <2>3. tmptar' \in Tars /\ Len(tmptar') = n
    BY <1>2, <2>1, <2>2, RunFacts, Zenon
  <2> QED
    BY <2>1, <2>2, <2>3, Zenon DEF Cut
<1>4. RwTypeOK'
  BY <1>1, <1>2, <1>3 DEF RwInv, RwTypeOK
<1>5. SettledInv'
  BY <1>1 DEF RwInv, SettledInv
<1>6. SaveInv'
  <2>1. \E v \in Versions : Cut(tmptar', v)
    BY <1>2, <1>3, Zenon
  <2>2. (\E v \in Versions : Cut(tmptar, v))'
    BY <2>1 DEF Cut
  <2> QED
    BY <1>1, <1>2, <2>2 DEF RwInv, SaveInv, Writing
<1>7. SignedInv' /\ UntornInv'
  BY <1>1, <1>2 DEF RwInv, SignedInv, UntornInv
<1> QED
  BY <1>2, <1>4, <1>5, <1>6, <1>7 DEF RwInv

(* A save that leaves the tarball alone, since tar has made none or it     *)
(* does not fit.                                                           *)
LEMMA RefusedKeeps ==
  ASSUME RwInv, pc \in {"tar", "size"}, pc' = "md5", fs' = fs, tmptar' \in Tars,
         UNCHANGED <<mounted, disk, md5tar, files, edits, faults>>,
         IF mounted THEN pending' = settled /\ settled' = None /\ saving' = None /\ cramped' = TRUE
                    ELSE UNCHANGED <<settled, pending, saving, cramped>>
  PROVE  RwInv'
<1>1. RwTypeOK /\ pending = None /\ saving = None
  BY DEF RwInv, SaveInv, Writing
<1>2. CASE ~mounted
  <2>1. ~mounted' /\ UNCHANGED <<settled, pending, saving, cramped>>
    BY <1>2
  <2>2. RwTypeOK'
    BY <1>1, <2>1 DEF RwTypeOK
  <2>3. SettledInv' /\ SignedInv' /\ UntornInv'
    BY <1>2, <2>1 DEF RwInv, SettledInv, SignedInv, UntornInv
  <2>4. SaveInv'
    BY <1>1, <2>1 DEF SaveInv, Target, Writing
  <2> QED
    BY <2>2, <2>3, <2>4 DEF RwInv
<1>3. CASE mounted
  <2>1. mounted' /\ pending' = settled /\ settled' = None /\ saving' = None /\ cramped' = TRUE
    BY <1>3
  <2>2. psize' = psize /\ psize \in Nat
    BY <1>1, <1>3, <2>1, Space DEF psize, Used, Blocks
  <2>3. settled \in Versions \cup {None} /\ RwTypeOK'
    BY <1>1, <2>1 DEF RwTypeOK
  <2>4. ASSUME settled # None
        PROVE  Holds(fs, TARFILE, Tar(settled)) /\ psize + Blocks(fs, MD5FILE) > 0
    <3>1. Holds(fs, TARFILE, Tar(settled)) /\ Holds(fs, MD5FILE, <<Tar(settled)>>)
      BY <1>3, <2>4 DEF RwInv, SettledInv, Kept
    <3>2. Blocks(fs, MD5FILE) = 1
      BY <3>1 DEF Blocks, Holds
    <3> QED
      BY <2>2, <3>1, <3>2
  <2>5. SaveInv'
    <3>1. Target' = settled
      BY <2>1 DEF Target
    <3>2. Blocks(fs', MD5FILE) = Blocks(fs, MD5FILE)
      BY DEF Blocks
    <3>3. settled # None =>
            Holds(fs', TARFILE, Tar(settled)) /\ psize' + Blocks(fs', MD5FILE) > 0
      BY <2>2, <2>4, <3>2
    <3> QED
      BY <2>1, <3>1, <3>3 DEF SaveInv, Writing
  <2>6. SettledInv' /\ SignedInv' /\ UntornInv'
    BY <2>1 DEF SettledInv, SignedInv, UntornInv
  <2> QED
    BY <2>3, <2>5, <2>6 DEF RwInv
<1> QED
  BY <1>2, <1>3

LEMMA NoTarballKeeps == RwInv /\ NoTarball => RwInv'
<1> SUFFICES ASSUME RwInv, NoTarball PROVE RwInv'
  OBVIOUS
<1>1. UNCHANGED <<mounted, disk, md5tar, files, edits, faults, tmptar, fs>>
  BY DEF NoTarball, script, machine
<1>2. pc = "tar" /\ pc' = "md5" /\ tmptar' \in Tars
  BY <1>1 DEF NoTarball, RwInv, RwTypeOK
<1>3. IF mounted THEN pending' = settled /\ settled' = None /\ saving' = None /\ cramped' = TRUE
                 ELSE UNCHANGED <<settled, pending, saving, cramped>>
  BY DEF NoTarball, Settles, ghosts
<1> QED
  BY <1>1, <1>2, <1>3, RefusedKeeps

LEMMA CheckSizeKeeps == RwInv /\ CheckSize => RwInv'
<1> SUFFICES ASSUME RwInv, CheckSize PROVE RwInv'
  OBVIOUS
<1>1. UNCHANGED <<mounted, disk, md5tar, files, edits, faults>>
  BY DEF CheckSize, machine
<1>2. pc = "size" /\ RwTypeOK /\ pending = None /\ saving = None
  BY DEF CheckSize, RwInv, SaveInv, Writing
<1>3. PICK u \in Versions : Cut(tmptar, u)
  BY <1>2 DEF RwInv, SaveInv
<1>4. /\ tmptar \in Tars /\ Len(tmptar) \in Nat /\ u # None
      /\ Whole(tmptar) => tmptar[1] = u /\ tmptar = Tar(u)
  BY <1>3, CutFacts, TarFacts, Zenon DEF Cut
<1>5. CASE ~Fits
  <2>1. pc' = "md5" /\ fs' = fs /\ tmptar' = <<>>
    BY <1>5 DEF CheckSize
  <2>2. ~mounted \/ ~Room
    <3>1. mounted => Dir = fs /\ psize \in Nat /\ Blocks(fs, TARFILE) \in Nat
      BY <1>2, Space, NameFacts DEF Dir
    <3>2. mounted => tarfsize \in Nat /\ Blocks(fs, TARFILE) <= tarfsize
      BY <1>4, <3>1 DEF tarfsize, Blocks
    <3> QED
      BY <1>4, <1>5, <3>1, <3>2 DEF Fits, Room
  <2>3. IF mounted THEN pending' = settled /\ settled' = None /\ saving' = None /\ cramped' = TRUE
                   ELSE UNCHANGED <<settled, pending, saving, cramped>>
    BY <1>5, <2>2 DEF CheckSize, Settles, ghosts
  <2>4. tmptar' \in Tars
    BY <2>1, EmptyFile
  <2> QED
    BY <1>1, <1>2, <2>1, <2>3, <2>4, RefusedKeeps
<1>6. CASE Fits
  <2>0. mounted
    <3>1. ~mounted => psize = 0 /\ tarfsize = Len(tmptar)
      BY EmptyDir DEF psize, tarfsize, Dir
    <3> QED
      BY <1>4, <1>6, <3>1 DEF Fits
  <2>1. /\ pending' = (IF Whole(tmptar) THEN settled ELSE None) /\ settled' = None
        /\ saving' = (IF Whole(tmptar) /\ Room THEN u ELSE None)
        /\ cramped' = (cramped \/ saving' = None)
    BY <1>4, <1>6, <2>0 DEF CheckSize, Settles
  <2>2. mounted' /\ cramped' \in BOOLEAN
    <3>1. cramped' \in BOOLEAN
      BY <2>1, Zenon
    <3> QED
      BY <1>1, <2>0, <3>1
  <2>3. Dir = fs /\ psize \in Nat /\ Blocks(fs, TARFILE) \in Nat
    BY <1>2, <2>0, Space, NameFacts DEF Dir
  <2>4. /\ tarfsize \in Nat /\ Blocks(fs, TARFILE) <= tarfsize
        /\ (TARFILE \in DOMAIN fs => Blocks(fs, TARFILE) = tarfsize)
    BY <1>4, <2>3 DEF tarfsize, Blocks
  <2>5. Room <=> Len(tmptar) < psize + Blocks(fs, TARFILE)
    BY <2>3 DEF Room
  <2>6. psize + tarfsize > Len(tmptar)
    BY <1>6 DEF Fits
  <2>8. ~Room => TARFILE \notin DOMAIN fs
    BY <1>4, <2>3, <2>4, <2>5, <2>6
  <2>9. settled # None => Kept(fs, settled)
    BY <2>0 DEF RwInv, SettledInv
  <2>10. settled \in Versions \cup {None} /\ None \notin Versions
    BY <1>2, TarFacts DEF RwTypeOK
  <2>11. pc' = "copytar" /\ Store(TARFILE, <<>>) /\ tmptar' = tmptar
    BY <1>6 DEF CheckSize
  <2>12. FileOK(TARFILE, <<>>) /\ Len(<<>>) = 0
    BY NameFacts DEF FileOK, Tars
  <2>13. /\ DirOK(fs)' /\ DOMAIN fs' = DOMAIN fs \cup {TARFILE} /\ fs'[TARFILE] = <<>>
         /\ \A g \in DOMAIN fs : g # TARFILE => fs'[g] = fs[g]
         /\ psize' = psize + Blocks(fs, TARFILE) - Len(<<>>)
    <3>1. Len(<<>>) <= Blocks(fs, TARFILE) + psize
      BY <2>3, <2>12
    <3> QED
      BY <1>2, <2>0, <2>2, <2>11, <2>12, <3>1, WriteKeepsType, NameFacts, Zenon
  <2>14. psize' = psize + Blocks(fs, TARFILE)
    BY <2>3, <2>12, <2>13
  <2>15. RwTypeOK'
    <3>1. {settled, pending, saving}' \subseteq Versions \cup {None}
      BY <2>1, <2>10
    <3> QED
      BY <1>1, <1>2, <2>2, <2>11, <2>13, <3>1 DEF RwTypeOK
  <2>16. SaveInv'
    <3>1. fs'[TARFILE] = Run(Len(fs'[TARFILE]), u) /\ Len(fs'[TARFILE]) = 0
      BY <2>12, <2>13, EmptyRun
    <3>2. \E v \in Versions : /\ Cut(tmptar', v)
                              /\ fs'[TARFILE] = Run(Len(fs'[TARFILE]), v)
                              /\ Len(fs'[TARFILE]) <= Len(tmptar')
      BY <1>3, <1>4, <2>11, <3>1
    <3>3. saving' # None => /\ tmptar' = Tar(saving')
                            /\ psize' > Len(tmptar') - Len(fs'[TARFILE])
      BY <1>3, <1>4, <2>1, <2>3, <2>5, <2>11, <2>14, <3>1
    <3>4. saving' = None => pending' = None
      BY <1>4, <2>1, <2>8, <2>9, <1>6 DEF Kept, Holds
    <3>5. TARFILE \in DOMAIN fs' /\ (~cramped' => saving' # None)
      BY <1>4, <2>1, <2>13
    <3> QED
      BY <2>1, <2>2, <2>11, <3>2, <3>3, <3>4, <3>5 DEF SaveInv, Writing, Target, Cut
  <2>17. SettledInv'
    BY <2>1 DEF SettledInv
  <2>18. SignedInv'
    BY <1>1, <2>1, <2>13, NameFacts DEF RwInv, SignedInv
  <2>19. UntornInv'
    BY <1>1, <1>2, <2>0, <2>1, <2>2, <2>11, <2>13, NameFacts DEF RwInv, UntornInv, WholeIn
  <2> QED
    BY <2>11, <2>15, <2>16, <2>17, <2>18, <2>19 DEF RwInv
<1> QED
  BY <1>5, <1>6

LEMMA CopyTarballKeeps == RwInv /\ CopyTarball => RwInv'
<1> SUFFICES ASSUME RwInv, CopyTarball PROVE RwInv'
  OBVIOUS
<1>1. UNCHANGED <<mounted, disk, md5tar, settled, pending, saving, cramped, files, edits, faults>>
  BY DEF CopyTarball, ghosts, machine
<1>2. /\ RwTypeOK /\ pc = "copytar" /\ mounted /\ mounted' /\ TARFILE \in DOMAIN fs
      /\ settled = None /\ (~cramped => saving # None)
  BY <1>1 DEF CopyTarball, RwInv, SaveInv, Writing
<1>3. PICK v \in Versions : /\ Cut(tmptar, v) /\ fs[TARFILE] = Run(Len(fs[TARFILE]), v)
                            /\ Len(fs[TARFILE]) <= Len(tmptar)
  BY <1>2 DEF RwInv, SaveInv
<1>4. /\ (saving # None => tmptar = Tar(saving) /\ psize > Len(tmptar) - Len(fs[TARFILE]))
      /\ (saving = None => pending = None)
  BY <1>2 DEF RwInv, SaveInv
<1>5. tmptar \in Tars /\ Len(tmptar) \in Nat /\ \A i \in 1..Len(tmptar) : tmptar[i] = v
  BY <1>3, CutFacts, Zenon DEF Cut
<1>6. Len(fs[TARFILE]) \in Nat /\ psize \in Nat /\ Blocks(fs, MD5FILE) \in Nat
  BY <1>2, Space, DirFacts, NameFacts
<1>7. Copy(tmptar, TARFILE, "md5") /\ tmptar' = IF pc' = "md5" THEN <<>> ELSE tmptar
  BY DEF CopyTarball
<1>8. CASE (Len(fs[TARFILE]) = Len(tmptar) \/ psize = 0) /\ pc' = "md5" /\ fs' = fs
  <2>1. tmptar' = <<>>
    BY <1>7, <1>8
  <2>2. RwTypeOK'
    BY <1>1, <1>2, <1>8, <2>1 DEF RwTypeOK, Tars
  <2>3. ASSUME saving # None
        PROVE  Holds(fs, TARFILE, Tar(saving)) /\ psize > 0
    <3>1. psize > 0 /\ Len(fs[TARFILE]) = Len(tmptar)
      BY <1>3, <1>4, <1>5, <1>6, <1>8, <2>3
    <3>2. fs[TARFILE] = tmptar
      BY <1>3, <3>1 DEF Cut
    <3> QED
      BY <1>2, <1>3, <1>4, <2>3, <3>1, <3>2 DEF Holds
  <2>4. psize' = psize /\ Blocks(fs', MD5FILE) = Blocks(fs, MD5FILE)
    BY <1>2, <1>8 DEF psize, Used, Blocks
  <2>5. SaveInv'
    <3>1. Target' = saving
      BY <1>1, <1>4 DEF Target
    <3>2. saving # None => /\ Holds(fs', TARFILE, Tar(saving))
                           /\ psize' + Blocks(fs', MD5FILE) > 0
      BY <1>6, <1>8, <2>3, <2>4
    <3> QED
      BY <1>1, <1>2, <1>8, <3>1, <3>2 DEF SaveInv, Writing
  <2>6. SettledInv' /\ SignedInv'
    BY <1>1, <1>2, <1>8 DEF RwInv, SettledInv, SignedInv
  <2>7. UntornInv'
    <3> SUFFICES ASSUME faults = 0, ~cramped
                 PROVE  WholeIn(fs, {RESFILE, TARFILE, BAKFILE})
      BY <1>1, <1>2, <1>8 DEF UntornInv, WholeIn
    <3>1. WholeIn(fs, {RESFILE}) /\ WholeIn(fs, {BAKFILE})
      BY <1>2 DEF RwInv, UntornInv
    <3>2. saving \in Versions /\ fs[TARFILE] = Tar(saving)
      BY <1>2, <2>3 DEF RwTypeOK, Holds
    <3> QED
      BY <3>1, <3>2 DEF WholeIn, IsTar
  <2> QED
    BY <1>8, <2>2, <2>5, <2>6, <2>7 DEF RwInv
<1>9. CASE /\ pc' = pc /\ Len(fs[TARFILE]) < Len(tmptar)
           /\ DirOK(fs)' /\ DOMAIN fs' = DOMAIN fs
           /\ fs'[TARFILE] = Append(fs[TARFILE], tmptar[Len(fs[TARFILE]) + 1])
           /\ Len(fs'[TARFILE]) = Len(fs[TARFILE]) + 1
           /\ \A g \in DOMAIN fs : g # TARFILE => fs'[g] = fs[g]
           /\ psize' = psize - 1
  <2>1. tmptar' = tmptar /\ pc' = "copytar"
    BY <1>2, <1>7, <1>9
  <2>2. RwTypeOK'
    BY <1>1, <1>2, <1>9, <2>1 DEF RwTypeOK
  <2>3. tmptar[Len(fs[TARFILE]) + 1] = v
    <3>1. Len(fs[TARFILE]) + 1 \in 1..Len(tmptar)
      BY <1>5, <1>6, <1>9
    <3> QED
      BY <1>5, <3>1, Zenon
  <2>4. fs'[TARFILE] = Run(Len(fs'[TARFILE]), v)
    <3>1. Append(Run(Len(fs[TARFILE]), v), v) = Run(Len(fs[TARFILE]) + 1, v)
      BY <1>6, RunFacts
    <3> QED
      BY <1>3, <1>9, <2>3, <3>1
  <2>5. Len(fs'[TARFILE]) <= Len(tmptar')
    BY <1>5, <1>6, <1>9, <2>1
  <2>6. saving # None => psize' > Len(tmptar') - Len(fs'[TARFILE])
    <3>1. \A a, b, c \in Nat : c > a - b => c - 1 > a - (b + 1)
      OBVIOUS
    <3>2. Len(tmptar) \in Nat
      BY <1>5
    <3>3. saving # None => psize - 1 > Len(tmptar) - (Len(fs[TARFILE]) + 1)
      BY <1>4, <1>6, <3>1, <3>2, Zenon
    <3> QED
      BY <1>9, <2>1, <3>3, Zenon
  <2>7. SaveInv'
    <3>1. Cut(tmptar', v)
      BY <1>3, <2>1, Zenon
    <3> QED
      BY <1>1, <1>2, <1>4, <1>9, <2>1, <2>4, <2>5, <2>6, <3>1 DEF SaveInv, Writing, Target
  <2>8. SettledInv'
    BY <1>1, <1>2 DEF SettledInv
  <2>9. SignedInv'
    BY <1>1, <1>9, NameFacts DEF RwInv, SignedInv
  <2>10. UntornInv'
    BY <1>1, <1>2, <1>9, <2>1, NameFacts DEF RwInv, UntornInv, WholeIn
  <2> QED
    BY <2>1, <2>2, <2>7, <2>8, <2>9, <2>10 DEF RwInv
<1>10. Len(fs[TARFILE]) <= Len(tmptar)
  BY <1>3, <1>5
<1> QED
  BY <1>2, <1>5, <1>7, <1>8, <1>9, <1>10, CopyStep

LEMMA Md5Keeps == RwInv /\ Md5 => RwInv'
<1> SUFFICES ASSUME RwInv, Md5 PROVE RwInv'
  OBVIOUS
<1>1. UNCHANGED <<mounted, disk, tmptar, settled, pending, saving, cramped, files, edits, faults>>
  BY DEF Md5, ghosts, machine
<1>2. pc = "md5" /\ pc' = "echo" /\ RwTypeOK /\ Target' = Target
  BY <1>1 DEF Md5, RwInv, Target
<1>3. CASE ~mounted
  <2>1. fs' = fs /\ md5tar' = <<>> /\ ~mounted'
    BY <1>1, <1>3, EmptyDir DEF Md5, Store, Dir
  <2>2. RwTypeOK'
    BY <1>1, <1>2, <2>1 DEF RwTypeOK, Sums
  <2>3. SettledInv' /\ SignedInv' /\ UntornInv'
    BY <1>1, <1>3, <2>1 DEF RwInv, SettledInv, SignedInv, UntornInv, Signs
  <2>4. SaveInv'
    BY <1>1, <1>2, <1>3, <2>1 DEF RwInv, SaveInv, Target, Writing
  <2> QED
    BY <1>2, <2>2, <2>3, <2>4 DEF RwInv
<1>4. CASE mounted
  <2>1. mounted' /\ Dir = fs /\ psize \in Nat /\ Blocks(fs, MD5FILE) \in Nat /\ DirOK(fs)
    BY <1>1, <1>2, <1>4, Space, NameFacts DEF Dir
  <2>2. md5tar' = IF TARFILE \in DOMAIN fs THEN <<fs[TARFILE]>> ELSE <<>>
    BY <2>1 DEF Md5
  <2>3. md5tar' \in Sums
    BY <2>1, <2>2, NameFacts DEF Sums, DirOK, FileOK
  <2>4. FileOK(MD5FILE, <<>>) /\ Len(<<>>) = 0
    BY DEF FileOK, Sums
  <2>5. /\ DirOK(fs)' /\ DOMAIN fs' = DOMAIN fs \cup {MD5FILE} /\ fs'[MD5FILE] = <<>>
        /\ \A g \in DOMAIN fs : g # MD5FILE => fs'[g] = fs[g]
        /\ psize' = psize + Blocks(fs, MD5FILE) - Len(<<>>)
    <3>1. Len(<<>>) <= Blocks(fs, MD5FILE) + psize
      BY <2>1, <2>4
    <3>2. Store(MD5FILE, <<>>)
      BY DEF Md5
    <3> QED
      BY <1>2, <1>4, <2>1, <2>4, <3>1, <3>2, WriteKeepsType, NameFacts, Zenon
  <2>6. RwTypeOK'
    BY <1>1, <1>2, <2>1, <2>3, <2>5 DEF RwTypeOK
  <2>7. Target # None => Holds(fs, TARFILE, Tar(Target)) /\ psize + Blocks(fs, MD5FILE) > 0
    BY <1>2 DEF RwInv, SaveInv
  <2>8. settled = None /\ (~cramped => saving # None)
    BY <1>2, <1>4 DEF RwInv, SaveInv, Writing
  <2>9. SaveInv'
    <3>1. Target # None => /\ Holds(fs', TARFILE, Tar(Target)) /\ md5tar' = <<Tar(Target)>>
                           /\ psize' > 0
      BY <2>1, <2>2, <2>4, <2>5, <2>7, NameFacts DEF Holds
    <3> QED
      BY <1>1, <1>2, <2>1, <2>8, <3>1 DEF SaveInv, Writing
  <2>10. SettledInv'
    BY <1>1, <2>8 DEF SettledInv
  <2>11. SignedInv'
    <3> SUFFICES ASSUME ~cramped
                 PROVE  Signs(fs'[MD5FILE]) /\ Signs(md5tar')
      BY <1>1 DEF RwInv, SignedInv
    <3>1. Target = saving /\ saving \in Versions /\ Target # None
      BY <1>2, <2>8 DEF Target, RwTypeOK
    <3>2. TARFILE \in DOMAIN fs /\ fs[TARFILE] = Tar(saving)
      BY <2>7, <3>1 DEF Holds
    <3>3. md5tar'[1] = Tar(saving) /\ IsTar(Tar(saving))
      BY <2>2, <3>1, <3>2, TarFacts
    <3> QED
      BY <2>5, <3>3 DEF Signs
  <2>12. UntornInv'
    BY <1>1, <1>2, <1>4, <2>1, <2>5, NameFacts DEF RwInv, UntornInv, WholeIn
  <2> QED
    BY <1>2, <2>6, <2>9, <2>10, <2>11, <2>12 DEF RwInv
<1> QED
  BY <1>3, <1>4

LEMMA EchoMd5Keeps == RwInv /\ EchoMd5 => RwInv'
<1> SUFFICES ASSUME RwInv, EchoMd5 PROVE RwInv'
  OBVIOUS
<1>1. UNCHANGED <<mounted, disk, tmptar, md5tar, settled, pending, saving, cramped, files, edits, faults>>
  BY DEF EchoMd5, script, ghosts, machine
<1>2. pc = "echo" /\ pc' = "umount" /\ RwTypeOK /\ Target' = Target
  BY <1>1 DEF EchoMd5, RwInv, Target
<1>3. CASE ~mounted
  <2>1. fs' = fs /\ ~mounted'
    BY <1>1, <1>3 DEF EchoMd5, Store
  <2>2. RwTypeOK'
    BY <1>1, <1>2, <2>1 DEF RwTypeOK
  <2>3. SettledInv' /\ SignedInv' /\ UntornInv'
    BY <1>1, <1>3, <2>1 DEF RwInv, SettledInv, SignedInv, UntornInv
  <2>4. SaveInv'
    BY <1>1, <1>2, <1>3, <2>1 DEF RwInv, SaveInv, Target, Writing
  <2> QED
    BY <1>2, <2>2, <2>3, <2>4 DEF RwInv
<1>4. CASE mounted
  <2>1. mounted' /\ psize \in Nat /\ Blocks(fs, MD5FILE) \in Nat
    BY <1>1, <1>2, <1>4, Space, NameFacts
  <2>2. PICK s : s = (IF psize > 0 THEN md5tar ELSE <<>>)
    OBVIOUS
  <2>3. FileOK(MD5FILE, s) /\ Len(s) <= psize /\ Len(s) \in Nat
    <3>1. md5tar \in Sums
      BY <1>2 DEF RwTypeOK
    <3>2. \A m \in Sums : Len(m) \in 0..1
      BY DEF Sums
    <3>3. s \in Sums /\ <<>> \in Sums
      BY <2>2, <3>1 DEF Sums
    <3>4. Len(s) <= psize /\ Len(s) \in Nat
      <4>1. CASE psize > 0
        <5>1. s = md5tar /\ Len(s) \in 0..1
          BY <2>2, <3>1, <3>2, <4>1
        <5>2. \A a \in 0..1, b \in Nat : b > 0 => a <= b /\ a \in Nat
          OBVIOUS
        <5> QED
          BY <2>1, <4>1, <5>1, <5>2, Zenon
      <4>2. CASE ~(psize > 0)
        BY <2>1, <2>2, <4>2
      <4> QED
        BY <4>1, <4>2
    <3> QED
      BY <3>3, <3>4 DEF FileOK
  <2>4. /\ DirOK(fs)' /\ DOMAIN fs' = DOMAIN fs \cup {MD5FILE} /\ fs'[MD5FILE] = s
        /\ \A g \in DOMAIN fs : g # MD5FILE => fs'[g] = fs[g]
    <3>1. Len(s) <= Blocks(fs, MD5FILE) + psize
      BY <2>1, <2>3
    <3>2. Store(MD5FILE, s)
      BY <2>2 DEF EchoMd5
    <3> QED
      BY <1>2, <1>4, <2>3, <3>1, <3>2, WriteKeepsType, NameFacts, Zenon
  <2>5. RwTypeOK'
    BY <1>1, <1>2, <2>1, <2>4 DEF RwTypeOK
  <2>6. Target # None =>
          Holds(fs, TARFILE, Tar(Target)) /\ md5tar = <<Tar(Target)>> /\ psize > 0
    BY <1>2 DEF RwInv, SaveInv
  <2>7. settled = None /\ (~cramped => saving # None)
    BY <1>2, <1>4 DEF RwInv, SaveInv, Writing
  <2>8. SaveInv'
    <3>1. Target # None => Kept(fs', Target)
      BY <2>2, <2>4, <2>6, NameFacts DEF Kept, Holds
    <3> QED
      BY <1>1, <1>2, <2>1, <2>7, <3>1 DEF SaveInv, Writing
  <2>9. SettledInv'
    BY <1>1, <2>7 DEF SettledInv
  <2>10. SignedInv'
    BY <1>1, <2>2, <2>4 DEF RwInv, SignedInv, Signs
  <2>11. UntornInv'
    BY <1>1, <1>2, <1>4, <2>1, <2>4, NameFacts DEF RwInv, UntornInv, WholeIn
  <2> QED
    BY <1>2, <2>5, <2>8, <2>9, <2>10, <2>11 DEF RwInv
<1> QED
  BY <1>3, <1>4

LEMMA FumountKeeps == RwInv /\ Fumount => RwInv'
<1> SUFFICES ASSUME RwInv, Fumount PROVE RwInv'
  OBVIOUS
<1>1. /\ UNCHANGED <<cramped, files, edits, faults>>
      /\ tmptar' = <<>> /\ md5tar' = <<>> /\ pending' = None /\ saving' = None
      /\ pc = "umount" /\ pc' = "idle" /\ mounted' = FALSE /\ RwTypeOK
  BY DEF Fumount, Ends, machine, RwInv
<1>2. SaveInv'
  BY <1>1 DEF SaveInv, Writing, Target
<1>3. CASE ~mounted
  <2>1. UNCHANGED <<disk, fs, settled>>
    BY <1>3 DEF Fumount
  <2>2. RwTypeOK'
    BY <1>1, <1>3, <2>1, EmptyFile DEF RwTypeOK
  <2>3. SettledInv' /\ SignedInv' /\ UntornInv'
    BY <1>1, <1>3, <2>1 DEF RwInv, SettledInv, SignedInv, UntornInv, Signs
  <2> QED
    BY <1>1, <1>2, <2>2, <2>3 DEF RwInv
<1>4. CASE mounted
  <2>1. disk' = fs /\ fs' = Absent /\ settled' = Target
    BY <1>4 DEF Fumount, Target
  <2>2. RwTypeOK'
    BY <1>1, <2>1, EmptyDir, EmptyFile DEF RwTypeOK, Target
  <2>3. SettledInv'
    BY <1>1, <2>1 DEF RwInv, SaveInv, SettledInv
  <2>4. SignedInv'
    BY <1>1, <2>1, EmptyDir DEF RwInv, SignedInv, Signs
  <2>5. UntornInv'
    BY <1>1, <1>4, <2>1 DEF RwInv, UntornInv, WholeIn
  <2> QED
    BY <1>1, <1>2, <2>2, <2>3, <2>4, <2>5 DEF RwInv
<1> QED
  BY <1>3, <1>4

LEMMA WritebackKeeps == RwInv /\ Writeback => RwInv'
<1> SUFFICES ASSUME RwInv, Writeback PROVE RwInv'
  OBVIOUS
<1>1. /\ UNCHANGED <<pc, mounted, fs, tmptar, md5tar, settled, pending, saving, cramped, files, edits, faults>>
      /\ mounted /\ RwTypeOK
  BY DEF Writeback, script, ghosts, machine, RwInv
<1>2. PICK f \in DOMAIN fs : disk' = With(disk, f, fs[f])
  BY DEF Writeback
<1>3. Used(disk') <= Capacity
  BY DEF Writeback
<1>4. DirOK(fs) /\ DirOK(disk) /\ f \in Names /\ FileOK(f, fs[f])
  BY <1>1 DEF RwTypeOK, DirOK
<1>5. /\ DOMAIN disk' = DOMAIN disk \cup {f} /\ disk'[f] = fs[f]
      /\ \A g \in DOMAIN disk : g # f => disk'[g] = disk[g]
  BY <1>2 DEF With
<1>6. DirOK(disk')
  BY <1>3, <1>4, <1>5 DEF DirOK
<1>7. RwTypeOK'
  BY <1>1, <1>6 DEF RwTypeOK
<1>8. SettledInv'
  BY <1>1, <1>5 DEF RwInv, SettledInv, Kept, Holds
<1>9. psize' = psize /\ Blocks(fs', MD5FILE) = Blocks(fs, MD5FILE)
  BY <1>1 DEF psize, Used, Blocks
<1>10. SaveInv'
  BY <1>1, <1>9 DEF RwInv, SaveInv, Writing, Target
<1>11. SignedInv'
  BY <1>1, <1>5 DEF RwInv, SignedInv
<1>12. UntornInv'
  BY <1>1, <1>9 DEF RwInv, UntornInv
<1> QED
  BY <1>1, <1>7, <1>8, <1>10, <1>11, <1>12 DEF RwInv

LEMMA KillKeeps == RwInv /\ Kill => RwInv'
<1> SUFFICES ASSUME RwInv, Kill PROVE RwInv'
  OBVIOUS
<1>1. /\ UNCHANGED <<files, edits, mounted, fs, disk, settled, cramped>>
      /\ tmptar' = <<>> /\ md5tar' = <<>> /\ pending' = None /\ saving' = None
      /\ pc' = "idle" /\ faults' \in Nat /\ faults' # 0 /\ RwTypeOK
  BY DEF Kill, Ends, RwInv, RwTypeOK
<1>2. RwTypeOK'
  BY <1>1 DEF RwTypeOK, Tars, Sums
<1>3. SettledInv' /\ SaveInv'
  BY <1>1 DEF RwInv, SettledInv, SaveInv, Writing, Target
<1>4. SignedInv' /\ UntornInv'
  BY <1>1 DEF RwInv, SignedInv, UntornInv, Signs
<1> QED
  BY <1>1, <1>2, <1>3, <1>4 DEF RwInv

LEMMA PowerFailsKeeps == RwInv /\ PowerFails => RwInv'
<1> SUFFICES ASSUME RwInv, PowerFails PROVE RwInv'
  OBVIOUS
<1>1. /\ UNCHANGED <<files, edits, disk, settled, cramped>>
      /\ mounted' = FALSE /\ fs' = Absent
      /\ tmptar' = <<>> /\ md5tar' = <<>> /\ pending' = None /\ saving' = None
      /\ pc' = "off" /\ faults' \in Nat /\ faults' # 0 /\ RwTypeOK
  BY DEF PowerFails, Ends, RwInv, RwTypeOK
<1>2. RwTypeOK'
  BY <1>1, EmptyDir, EmptyFile DEF RwTypeOK
<1>3. SettledInv' /\ SaveInv'
  BY <1>1 DEF RwInv, SettledInv, SaveInv, Writing, Target
<1>4. SignedInv' /\ UntornInv'
  BY <1>1, EmptyDir DEF RwInv, SignedInv, UntornInv, Signs
<1> QED
  BY <1>1, <1>2, <1>3, <1>4 DEF RwInv

LEMMA ShutdownKeeps == RwInv /\ Shutdown => RwInv'
<1> SUFFICES ASSUME RwInv, Shutdown PROVE RwInv'
  OBVIOUS
<1>1. /\ UNCHANGED <<tmptar, md5tar, settled, pending, saving, cramped, files, edits, faults>>
      /\ mounted' = FALSE /\ fs' = Absent /\ pc = "idle" /\ pc' = "off" /\ RwTypeOK
      /\ disk' = IF mounted THEN fs ELSE disk
  BY DEF Shutdown, script, ghosts, machine, RwInv
<1>2. RwTypeOK'
  BY <1>1, EmptyDir DEF RwTypeOK
<1>3. SettledInv'
  BY <1>1 DEF RwInv, SettledInv
<1>4. SaveInv'
  BY <1>1 DEF RwInv, SaveInv, Writing, Target
<1>5. SignedInv'
  BY <1>1, EmptyDir DEF RwInv, SignedInv
<1>6. UntornInv'
  BY <1>1 DEF RwInv, UntornInv, WholeIn
<1> QED
  BY <1>1, <1>2, <1>3, <1>4, <1>5, <1>6 DEF RwInv

LEMMA RescueKeeps == RwInv /\ Rescue => RwInv'
<1> SUFFICES ASSUME RwInv, Rescue PROVE RwInv'
  OBVIOUS
<1>1. /\ UNCHANGED <<pc, mounted, fs, tmptar, md5tar, settled, pending, saving, cramped, files, edits, faults>>
      /\ pc = "idle" /\ ~mounted /\ RwTypeOK /\ DirOK(disk)
  BY DEF Rescue, script, ghosts, machine, RwInv, RwTypeOK
<1>2. /\ DOMAIN disk' \subseteq Names
      /\ \A f \in {TARFILE, MD5FILE} : /\ f \in DOMAIN disk' <=> f \in DOMAIN disk
                                       /\ f \in DOMAIN disk => disk'[f] = disk[f]
      /\ BAKFILE \in DOMAIN disk' => BAKFILE \in DOMAIN disk /\ disk'[BAKFILE] = disk[BAKFILE]
      /\ RESFILE \in DOMAIN disk' =>
           /\ BAKFILE \in DOMAIN disk /\ disk'[RESFILE] = disk[BAKFILE]
           /\ BAKFILE \notin DOMAIN disk'
  <2>1. DOMAIN disk \subseteq Names
    BY <1>1 DEF DirOK
  <2>2. CASE /\ BAKFILE \in DOMAIN disk
             /\ disk' = [f \in (DOMAIN disk \cup {RESFILE}) \ {BAKFILE} |->
                           disk[IF f = RESFILE THEN BAKFILE ELSE f]]
    BY <2>1, <2>2, NameFacts
  <2>3. CASE RESFILE \in DOMAIN disk /\ disk' = [f \in DOMAIN disk \ {RESFILE} |-> disk[f]]
    BY <2>1, <2>3, NameFacts
  <2> QED
    BY <2>2, <2>3 DEF Rescue
<1>3. DirOK(disk')
  <2>1. \A f \in DOMAIN disk' : FileOK(f, disk'[f])
    <3>1. \A f \in DOMAIN disk : FileOK(f, disk[f])
      BY <1>1 DEF DirOK
    <3> QED
      BY <1>2, <3>1, NameFacts DEF Names, FileOK
  <2>2. \A f \in DOMAIN disk : Len(disk[f]) \in Nat
    BY <1>1, DirFacts
  <2>3. Used(disk') <= Used(disk)
    <3>1. /\ Blocks(disk', TARFILE) = Blocks(disk, TARFILE)
          /\ Blocks(disk', MD5FILE) = Blocks(disk, MD5FILE)
      BY <1>2 DEF Blocks
    <3>2. /\ Blocks(disk', BAKFILE) + Blocks(disk', RESFILE) <= Blocks(disk, BAKFILE)
          /\ Blocks(disk', BAKFILE) \in Nat /\ Blocks(disk', RESFILE) \in Nat
      <4>1. CASE RESFILE \in DOMAIN disk'
        <5>1. /\ BAKFILE \in DOMAIN disk /\ Blocks(disk', BAKFILE) = 0
              /\ Blocks(disk', RESFILE) = Len(disk[BAKFILE])
              /\ Blocks(disk, BAKFILE) = Len(disk[BAKFILE])
          BY <1>2, <4>1 DEF Blocks
        <5> QED
          BY <2>2, <5>1
      <4>2. CASE RESFILE \notin DOMAIN disk'
        <5>1. Blocks(disk', RESFILE) = 0
          BY <4>2 DEF Blocks
        <5>2. Blocks(disk', BAKFILE) = 0 \/ Blocks(disk', BAKFILE) = Blocks(disk, BAKFILE)
          BY <1>2 DEF Blocks
        <5>3. Blocks(disk, BAKFILE) \in Nat
          BY <2>2 DEF Blocks
        <5> QED
          BY <5>1, <5>2, <5>3
      <4> QED
        BY <4>1, <4>2
    <3>3. \A f \in Names : Blocks(disk, f) \in Nat
      BY <1>1, DirFacts
    <3> QED
      BY <3>1, <3>2, <3>3, NameFacts DEF Used
  <2>4. Used(disk) \in Nat /\ Used(disk) <= Capacity /\ Used(disk') \in Int
    <3>1. \A f \in DOMAIN disk' : Len(disk'[f]) \in Nat
      BY <2>1 DEF FileOK, Tars, Sums
    <3>2. \A f \in Names : Blocks(disk', f) \in Nat
      BY <3>1 DEF Blocks
    <3>3. Used(disk') \in Int
      BY <3>2, NameFacts DEF Used
    <3> QED
      BY <1>1, <3>3, DirFacts
  <2> QED
    BY <1>2, <2>1, <2>3, <2>4, BoundsAssumption DEF DirOK
<1>4. RwTypeOK'
  BY <1>1, <1>3 DEF RwTypeOK
<1>5. SettledInv'
  BY <1>1, <1>2 DEF RwInv, SettledInv, Kept, Holds
<1>6. SaveInv'
  BY <1>1 DEF RwInv, SaveInv, Writing, Target
<1>7. SignedInv'
  BY <1>1, <1>2 DEF RwInv, SignedInv
<1>8. UntornInv'
  BY <1>1, <1>2 DEF RwInv, UntornInv, WholeIn
<1> QED
  BY <1>1, <1>4, <1>5, <1>6, <1>7, <1>8 DEF RwInv

LEMMA BootKeeps == RwInv /\ Boot => RwInv'
<1> SUFFICES ASSUME RwInv, Boot PROVE RwInv'
  OBVIOUS
<1>1. /\ UNCHANGED <<edits, faults, mounted, fs, disk, tmptar, md5tar, settled, pending, saving, cramped>>
      /\ pc = "off" /\ pc' = "idle" /\ ~mounted /\ RwTypeOK /\ DirOK(disk)
  BY DEF Boot, script, ghosts, RwInv, RwTypeOK
<1>2. PICK t \in {Restored.tar, <<>>} :
        files' = IF t = <<>> THEN 0 ELSE IF Whole(t) THEN t[1] ELSE Mixed
  BY DEF Boot
<1>3. t \in Tars
  <2>1. \A f \in DOMAIN disk : f # MD5FILE => disk[f] \in Tars
    BY <1>1 DEF DirOK, FileOK
  <2>2. CASE RESFILE \in DOMAIN disk
    BY <1>2, <2>1, <2>2, NameFacts, EmptyFile DEF Restored
  <2>3. CASE RESFILE \notin DOMAIN disk /\ Vouched
    <3>1. Restored.tar = disk[TARFILE] /\ TARFILE \in DOMAIN disk
      BY <2>3 DEF Restored, Vouched
    <3> QED
      BY <1>2, <2>1, <3>1, NameFacts, EmptyFile
  <2>4. CASE RESFILE \notin DOMAIN disk /\ ~Vouched
    BY <1>2, <2>4, EmptyFile DEF Restored, Nothing
  <2> QED
    BY <2>2, <2>3, <2>4
<1>4. files' \in Versions
  BY <1>2, <1>3, BoundsAssumption DEF Versions, Tars, Mixed
<1>5. RwTypeOK'
  BY <1>1, <1>4 DEF RwTypeOK
<1>6. SettledInv' /\ SaveInv'
  BY <1>1 DEF RwInv, SettledInv, SaveInv, Writing, Target
<1>7. SignedInv' /\ UntornInv'
  BY <1>1 DEF RwInv, SignedInv, UntornInv
<1> QED
  BY <1>1, <1>5, <1>6, <1>7 DEF RwInv

LEMMA RwNext == RwInv /\ [Next]_vars => RwInv'
<1> SUFFICES ASSUME RwInv, [Next]_vars PROVE RwInv'
  OBVIOUS
<1>1. CASE UNCHANGED vars
  <2>1. UNCHANGED <<pc, files, edits, mounted, fs, disk, tmptar, md5tar, faults,
                    settled, pending, saving, cramped>>
    BY <1>1 DEF vars
  <2>2. psize' = psize /\ Blocks(fs', MD5FILE) = Blocks(fs, MD5FILE)
    BY <2>1 DEF psize, Used, Blocks
  <2>3. RwTypeOK'
    BY <2>1 DEF RwInv, RwTypeOK
  <2>4. SettledInv' /\ SaveInv'
    BY <2>1, <2>2 DEF RwInv, SettledInv, SaveInv, Writing, Target
  <2>5. SignedInv' /\ UntornInv'
    BY <2>1, <2>2 DEF RwInv, SignedInv, UntornInv
  <2> QED
    BY <2>1, <2>3, <2>4, <2>5 DEF RwInv
<1>2. CASE Next
  BY <1>2, EditKeeps, SaveKeeps, BackupKeeps, CopyBackupKeeps, MakeTarballKeeps,
     NoTarballKeeps,
     CheckSizeKeeps, CopyTarballKeeps, Md5Keeps, EchoMd5Keeps, FumountKeeps,
     WritebackKeeps, KillKeeps, PowerFailsKeeps, ShutdownKeeps, RescueKeeps, BootKeeps
     DEF Next
<1> QED
  BY <1>1, <1>2

LEMMA RestoredSound == RwInv => RestoredIsSaved
<1> SUFFICES ASSUME RwInv, pc = "off" PROVE WholeOrCramped /\ LastSaveUnpacked
  BY DEF RestoredIsSaved
<1>1. ~mounted /\ RwTypeOK
  BY DEF RwInv
<1>2. WholeOrCramped
  <2> SUFFICES ASSUME Restored.tar # <<>>, ~Whole(Restored.tar), ~cramped
               PROVE  Restored.from = RESFILE /\ faults > 0
    BY DEF WholeOrCramped
  <2>1. CASE RESFILE \in DOMAIN disk
    <3>1. Restored.from = RESFILE /\ Restored.tar = disk[RESFILE]
      BY <2>1 DEF Restored
    <3>2. faults # 0
      <4> SUFFICES ASSUME faults = 0 PROVE FALSE
        OBVIOUS
      <4>1. IsTar(disk[RESFILE])
        BY <1>1, <2>1 DEF RwInv, UntornInv, WholeIn
      <4> QED
        BY <3>1, <4>1, TarIsWhole
    <3> QED
      BY <1>1, <3>1, <3>2 DEF RwTypeOK
  <2>2. CASE RESFILE \notin DOMAIN disk /\ Vouched
    <3>1. Restored.tar = disk[TARFILE] /\ disk[MD5FILE] = <<disk[TARFILE]>> /\ MD5FILE \in DOMAIN disk
      BY <2>2 DEF Restored, Vouched
    <3>2. Signs(disk[MD5FILE])
      BY <3>1 DEF RwInv, SignedInv
    <3>3. IsTar(disk[TARFILE])
      BY <3>1, <3>2 DEF Signs
    <3> QED
      BY <3>1, <3>3, TarIsWhole
  <2>3. CASE RESFILE \notin DOMAIN disk /\ ~Vouched
    BY <2>3 DEF Restored, Nothing
  <2> QED
    BY <2>1, <2>2, <2>3
<1>3. LastSaveUnpacked
  <2> SUFFICES ASSUME settled # None, Restored.from # RESFILE
               PROVE  Restored = [from |-> TARFILE, tar |-> [i \in 1..Size[settled] |-> settled]]
    BY DEF LastSaveUnpacked
  <2>1. RESFILE \notin DOMAIN disk
    BY DEF Restored
  <2>2. /\ TARFILE \in DOMAIN disk /\ disk[TARFILE] = Tar(settled)
        /\ MD5FILE \in DOMAIN disk /\ disk[MD5FILE] = <<Tar(settled)>>
    BY DEF RwInv, SettledInv, Kept, Holds
  <2>3. Vouched
    BY <2>2 DEF Vouched
  <2> QED
    BY <2>1, <2>2, <2>3 DEF Restored, Tar, Run
<1> QED
  BY <1>2, <1>3

(* rw-sync.sh -w and init.d/overlay, whatever is interrupted and whatever  *)
(* order the kernel writes files back in: a boot unpacks the last save     *)
(* that ran to its end, or nothing, and a torn tarball only where a save   *)
(* ran out of room or as a rescue file made of an interrupted backup.      *)
THEOREM BootRestoresSaved == Spec => []RestoredIsSaved
BY RwInit, RwNext, RestoredSound, PTL DEF Spec
==============================================================================

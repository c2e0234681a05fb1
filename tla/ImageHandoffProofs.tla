-------------------------- MODULE ImageHandoffProofs --------------------------
(***************************************************************************)
(* What the handoff from kexec to linuxrc guarantees for every machine:    *)
(* any number of partitions, entries of /dev in any order, stale ones      *)
(* included, any file names, any mounts and any words given to --append.   *)
(***************************************************************************)
EXTENDS ImageHandoff, TLAPS

(* What the path may be cut down to, and the uuid of its partition.        *)
Ends == {Below(n) : n \in 0..Len(m.path)}
ImageUuid == Uuid2Str(m.uuid[m.image.disk])

FailsafePath == [disk |-> m.node[FsNode], name |-> FsImg]

(* kexec: images_dev names the image's partition or cannot be read.        *)
WalkInv ==
  /\ devbuf \in Disks \cup {NoDisk}
  /\ images_dev \in Nodes \cup {Unset}
  /\ images_dev # Unset => m.node[images_dev] \in {m.image.disk, Dangling}

(* What linuxrc will read in the command line.                             *)
CmdlineInv ==
  Legible /\ pc \in {"staged", "parse"} =>
    GetCmdlineVar("F") \subseteq Ends /\ GetCmdlineVar("I") \subseteq {ImageUuid}

(* linuxrc: it looks for the right partition, for an end of the path, and  *)
(* has mounted that partition or none.                                     *)
SearchInv ==
  Legible /\ pc \in {"search", "stat"} =>
    /\ imagefile \in Ends /\ imageuuid = ImageUuid
    /\ UuidsTell => mnt \in {m.image.disk, NoDisk}

BeforeSearch == {"probe", "options", "walk", "uuids", "staged", "parse", "search"}
FoundInv ==
  /\ pc \in BeforeSearch => mnt = NoDisk
  /\ UuidsTell /\ Legible /\ PathTells /\ pc \in {"header", "loop"} =>
       [disk |-> mnt, name |-> imagefile] \in {m.image, FailsafePath}

HandoffInv ==
  /\ m \in Machines
  /\ WalkInv /\ CmdlineInv /\ SearchInv /\ FoundInv
  /\ RootIsAskedOrFailsafe

LEMMA MachineFacts ==
  ASSUME NEW x \in Machines
  PROVE  /\ x.ext \subseteq Disks
         /\ x.uuid \in [Disks -> Uuids]
         /\ x.node \in [Nodes -> Disks \cup {NoDisk, Dangling}]
         /\ x.image \in Path
         /\ x.image.disk \in x.ext /\ x.image.disk \in Disks
         /\ x.image.name \in Names
         /\ x.append \in Seq(Text) /\ x.path \in Text
         /\ x.mounts \in Seq([node: Nodes, point: Text])
         /\ x.files \in [Disks -> SUBSET Names]
  BY MachineAssumption DEF Machine, Path

LEMMA InitHolds == Init => HandoffInv
  BY DEF Init, HandoffInv, WalkInv, CmdlineInv, SearchInv, FoundInv, BeforeSearch,
         RootIsAskedOrFailsafe

(* What is said of the machine alone does not change with the rest.        *)
LEMMA MachineKept ==
  ASSUME m' = m
  PROVE  /\ Ends' = Ends /\ ImageUuid' = ImageUuid /\ FailsafePath' = FailsafePath
         /\ Legible' = Legible /\ UuidsTell' = UuidsTell /\ PathTells' = PathTells
         /\ Clean' = Clean
<1>1. Ends' = Ends /\ PathTells' = PathTells
  BY DEF Ends, PathTells, Below
<1>2. Legible' = Legible /\ UuidsTell' = UuidsTell
  BY DEF Legible, Letters, UuidsTell, IsNullUuid
<1>3. ImageUuid' = ImageUuid /\ FailsafePath' = FailsafePath
  BY DEF ImageUuid, Uuid2Str, IsNullUuid, FailsafePath
<1>4. Clean' = Clean
  BY <1>2 DEF Clean, PathVia
<1> QED
  BY <1>1, <1>2, <1>3, <1>4

(* The uuid of a partition that tells it apart is found on no other.       *)
LEMMA OnlyMatch ==
  ASSUME m \in Machines, UuidsTell, imageuuid = ImageUuid,
         NEW d \in m.ext, Matches(d)
  PROVE  d = m.image.disk
<1> USE MachineFacts
<1>1. d \in Disks /\ m.uuid[d] \in Uuids /\ m.image.disk \in m.ext
  OBVIOUS
<1>2. Ext2Uuid(d) = m.uuid[d]
  BY <1>1 DEF Ext2Uuid, Uuid2Str, UuidsTell
<1>3. imageuuid = m.uuid[m.image.disk]
  BY <1>1 DEF ImageUuid, Uuid2Str, UuidsTell
<1> QED
  BY <1>1, <1>2, <1>3 DEF Matches, UuidsTell

(* A keyword's own word is read back as its value.                         *)
LEMMA KeyWordRead ==
  ASSUME NEW k \in {"F", "I", "C"}, NEW v \in Text
  PROVE  /\ k \in Letters(KeyWord(k, v))
         /\ ValueIn(KeyWord(k, v), k) = v
<1> DEFINE w == KeyWord(k, v)
<1>0. k \in Char /\ "=" \in Char
  BY TextAssumption DEF Key
<1>1. /\ w \in Seq(Char) /\ Len(w) = Len(v) + 2 /\ w[1] = k
      /\ \A n \in 1..Len(v) : w[n + 2] = v[n]
  BY <1>0 DEF KeyWord, Text
<1> HIDE DEF w
<1>2. DOMAIN w = 1..(Len(v) + 2) /\ Len(v) \in Nat
  BY <1>1 DEF Text
<1>3. FirstAt(w, k) = 1
  <2>1. 1 \in DOMAIN w /\ w[1] = k /\ \A q \in 1..(1 - 1) : w[q] # k
    BY <1>1, <1>2
  <2>2. \A p \in DOMAIN w : (w[p] = k /\ \A q \in 1..(p - 1) : w[q] # k) => p = 1
    BY <1>1, <1>2
  <2> QED
    BY <2>1, <2>2 DEF FirstAt
<1>4. ValueIn(w, k) = SubSeq(w, 3, Len(w))
  BY <1>1, <1>2, <1>3 DEF ValueIn
<1>5. SubSeq(w, 3, Len(w)) = v
  <2>1. /\ SubSeq(w, 3, Len(w)) \in Seq(Char) /\ Len(SubSeq(w, 3, Len(w))) = Len(v)
        /\ \A n \in 1..Len(v) : SubSeq(w, 3, Len(w))[n] = v[n]
    BY <1>1, <1>2
  <2> QED
    BY <2>1 DEF Text
<1> QED
  BY <1>1, <1>2, <1>4, <1>5 DEF Letters, w

(* Where no letter comes before them, the words kexec adds are the ones    *)
(* linuxrc finds.                                                          *)
LEMMA WordsRead ==
  ASSUME m \in Machines, Legible, NEW f \in Text, NEW i \in Text, NEW c \in Text,
         "I" \notin Letters(f),
         cmdline' = m.append \o <<KeyWord("F", f), KeyWord("I", i), KeyWord("C", c)>>
  PROVE  GetCmdlineVar("F")' \subseteq {f} /\ GetCmdlineVar("I")' \subseteq {i}
<1> DEFINE a == Len(m.append)
           kf == KeyWord("F", f)
           ki == KeyWord("I", i)
           kc == KeyWord("C", c)
<1>1. m.append \in Seq(Text) /\ a \in Nat /\ DOMAIN m.append = 1..a
  BY MachineFacts
<1>2. kf \in Text /\ ki \in Text /\ kc \in Text
  BY TextAssumption DEF KeyWord, Text, Key
<1>3. "I" \notin Letters(kf)
  <2>1. \A p \in DOMAIN kf : kf[p] \in {"F", "="} \/ \E q \in DOMAIN f : kf[p] = f[q]
    <3>1. Len(f) \in Nat /\ DOMAIN f = 1..Len(f) /\ "F" \in Char /\ "=" \in Char
      BY TextAssumption DEF Text, Key
    <3> QED
      BY <3>1 DEF KeyWord, Text
  <2> QED
    BY <2>1 DEF Letters
<1>4. /\ "F" \in Letters(kf) /\ ValueIn(kf, "F") = f
      /\ "I" \in Letters(ki) /\ ValueIn(ki, "I") = i
  BY KeyWordRead
<1> HIDE DEF kf, ki, kc
<1>5. cmdline' = m.append \o <<kf, ki, kc>>
  BY DEF kf, ki, kc
<1>6. /\ DOMAIN cmdline' = 1..(a + 3)
      /\ \A n \in 1..a : cmdline'[n] = m.append[n]
      /\ cmdline'[a + 1] = kf /\ cmdline'[a + 2] = ki
  BY <1>1, <1>2, <1>5
<1> HIDE DEF a
<1>7. \A n \in 1..a : "F" \notin Letters(cmdline'[n]) /\ "I" \notin Letters(cmdline'[n])
  BY <1>1, <1>6 DEF Legible
<1>8. /\ Hits("F")' = {n \in DOMAIN cmdline' : "F" \in Letters(cmdline'[n])}
      /\ Hits("I")' = {n \in DOMAIN cmdline' : "I" \in Letters(cmdline'[n])}
  BY Zenon DEF Hits, Letters
<1>n. a + 1 \in DOMAIN cmdline' /\ a + 2 \in DOMAIN cmdline'
  BY <1>1, <1>6
<1>9. \A h \in Hits("F")' : (\A k \in Hits("F")' : h <= k) => h = a + 1
  <2>1. a + 1 \in Hits("F")'
    BY <1>n, <1>4, <1>6, <1>8, Zenon
  <2>2. \A h \in Hits("F")' : h \in DOMAIN cmdline' /\ h \notin 1..a
    BY <1>7, <1>8, Zenon
  <2>3. \A h \in Hits("F")' : h \in Nat /\ h > a
    BY <1>1, <1>6, <2>2
  <2> QED
    BY <1>1, <2>1, <2>3
<1>10. \A h \in Hits("I")' : (\A k \in Hits("I")' : h <= k) => h = a + 2
  <2>1. a + 2 \in Hits("I")'
    BY <1>n, <1>4, <1>6, <1>8, Zenon
  <2>2. \A h \in Hits("I")' : h \in DOMAIN cmdline' /\ h \notin 1..a /\ h # a + 1
    BY <1>3, <1>6, <1>7, <1>8, Zenon
  <2>3. \A h \in Hits("I")' : h \in Nat /\ h > a /\ h # a + 1
    BY <1>1, <1>6, <2>2
  <2> QED
    BY <1>1, <2>1, <2>3
<1>11. ASSUME NEW v \in GetCmdlineVar("F")' PROVE v = f
  <2>1. PICK h \in Hits("F")' : (\A k \in Hits("F")' : h <= k) /\ v = ValueIn(cmdline'[h], "F")
    BY <1>11 DEF GetCmdlineVar, ValueIn, FirstAt
  <2> QED
    BY <1>4, <1>6, <1>9, <2>1
<1>12. ASSUME NEW v \in GetCmdlineVar("I")' PROVE v = i
  <2>1. PICK h \in Hits("I")' : (\A k \in Hits("I")' : h <= k) /\ v = ValueIn(cmdline'[h], "I")
    BY <1>12 DEF GetCmdlineVar, ValueIn, FirstAt
  <2> QED
    BY <1>4, <1>6, <1>10, <2>1
<1> QED
  BY <1>11, <1>12

LEMMA EndFacts ==
  ASSUME m \in Machines, NEW n \in 0..Len(m.path)
  PROVE  Below(n) \in Text /\ Letters(Below(n)) \subseteq Letters(m.path)
<1>1. m.path \in Seq(Char) /\ Len(m.path) \in Nat /\ DOMAIN m.path = 1..Len(m.path)
  BY MachineFacts DEF Text
<1>2. PICK k \in 1..(Len(m.path) + 1) : Below(n) = SubSeq(m.path, k, Len(m.path))
  <2>1. CASE n < Len(m.path) /\ m.path[n + 1] = "/"
    <3>1. n + 2 \in 1..(Len(m.path) + 1) /\ n + 1 + 1 = n + 2
      BY <1>1, <2>1
    <3> QED
      BY <2>1, <3>1 DEF Below
  <2>2. CASE ~(n < Len(m.path) /\ m.path[n + 1] = "/")
    <3>1. n + 1 \in 1..(Len(m.path) + 1) /\ n + 0 + 1 = n + 1
      BY <1>1
    <3> QED
      BY <2>2, <3>1 DEF Below
  <2> QED
    BY <2>1, <2>2
<1>3. /\ Below(n) \in Seq(Char) /\ DOMAIN Below(n) = 1..(Len(m.path) - k + 1)
      /\ \A q \in 1..(Len(m.path) - k + 1) : Below(n)[q] = m.path[k + q - 1]
  BY <1>1, <1>2
<1>4. \A q \in 1..(Len(m.path) - k + 1) : k + q - 1 \in DOMAIN m.path
  BY <1>1
<1> QED
  BY <1>3, <1>4 DEF Letters, Text

LEMMA PathIsEnd == ImagePath \subseteq Ends
  BY DEF ImagePath, Ends, CommonPart

LEMMA CommandLineKeeps ==
  ASSUME HandoffInv, CommandLine, Legible
  PROVE  \E path \in ImagePath :
           GetCmdlineVar("F")' \subseteq {path} /\ GetCmdlineVar("I")' \subseteq {ImageUuid}
<1>0. m \in Machines /\ m' = m
  BY DEF HandoffInv, CommandLine
<1>1. PICK path \in ImagePath :
        cmdline' = m.append \o
          <<KeyWord("F", path), KeyWord("I", KexecUuid(images_dev)),
            KeyWord("C", KexecUuid(config_dev))>>
  BY DEF CommandLine
<1>2. path \in Text /\ "I" \notin Letters(path)
  BY <1>0, PathIsEnd, EndFacts DEF Ends, Legible
<1>3. KexecUuid(images_dev) = ImageUuid
  <2>1. images_dev # Unset /\ m.node[images_dev] \in m.ext
    BY DEF CommandLine, Readable
  <2>2. m.node[images_dev] # Dangling
    BY <1>0, <2>1, MachineFacts, DiskAssumption
  <2>3. m.node[images_dev] = m.image.disk
    BY <2>1, <2>2 DEF HandoffInv, WalkInv
  <2> QED
    BY <2>3 DEF KexecUuid, ImageUuid
<1>4. KexecUuid(config_dev) \in Text /\ KexecUuid(images_dev) \in Text
  <2>1. m.node[images_dev] \in Disks /\ m.node[config_dev] \in Disks
    BY <1>0, MachineFacts DEF CommandLine, Readable
  <2> QED
    BY <1>0, <2>1, MachineFacts, TextAssumption DEF KexecUuid, Uuid2Str
<1>5. /\ GetCmdlineVar("F")' \subseteq {path}
      /\ GetCmdlineVar("I")' \subseteq {KexecUuid(images_dev)}
  BY <1>0, <1>1, <1>2, <1>4, WordsRead
<1> QED
  BY <1>3, <1>5

LEMMA ParseKeeps ==
  ASSUME HandoffInv, ParseCmdline PROVE HandoffInv'
<1>0. m' = m /\ UNCHANGED <<left, kexecvars, mnt, loop, faults>>
  BY DEF ParseCmdline
<1>1. Legible => GetCmdlineVar("F") \subseteq Ends /\ GetCmdlineVar("I") \subseteq {ImageUuid}
  BY DEF HandoffInv, CmdlineInv, ParseCmdline
<1>2. /\ pc' \in {"search", "halted"}
      /\ Legible /\ pc' = "search" => imagefile' \in Ends /\ imageuuid' = ImageUuid
  BY <1>1 DEF ParseCmdline
<1>3. mnt = NoDisk
  BY DEF HandoffInv, FoundInv, BeforeSearch, ParseCmdline
<1>4. /\ Ends' = Ends /\ ImageUuid' = ImageUuid /\ Legible' = Legible
      /\ UuidsTell' = UuidsTell /\ PathTells' = PathTells
  BY <1>0, MachineKept
<1> QED
  BY <1>0, <1>2, <1>3, <1>4 DEF HandoffInv, WalkInv, CmdlineInv, SearchInv, FoundInv,
     kexecvars, RootIsAskedOrFailsafe, Root, BeforeSearch

LEMMA HandoffKept == HandoffInv /\ [Next]_vars => HandoffInv'
<1> SUFFICES ASSUME HandoffInv, [Next]_vars PROVE HandoffInv'
  OBVIOUS
<1>0. m' = m /\ m \in Machines
  BY DEF Next, vars, HandoffInv, MonoimageProbe, Options, WalkFails, WalkDone, CommandLine,
     CommandLineFails, WalkDev, SearchMatch, SearchSkip, StartLinuxrc, ParseCmdline,
     SearchFails, SearchDone, StatImage, Failsafe, ReadHeader, SetLoop
<1>k. /\ Ends' = Ends /\ ImageUuid' = ImageUuid /\ FailsafePath' = FailsafePath
      /\ Legible' = Legible /\ UuidsTell' = UuidsTell /\ PathTells' = PathTells
  BY <1>0, MachineKept
<1>g. cmdline' = cmdline => /\ GetCmdlineVar("F")' = GetCmdlineVar("F")
                           /\ GetCmdlineVar("I")' = GetCmdlineVar("I")
  BY DEF GetCmdlineVar, Hits, ValueIn, FirstAt, Letters
<1> USE <1>0, <1>k, <1>g DEF HandoffInv, kexecvars, linuxrcvars, Fault, BeforeSearch, Root
<1>1. CASE MonoimageProbe \/ Options \/ WalkFails \/ WalkDone \/ CommandLineFails
           \/ StartLinuxrc
  BY <1>1 DEF MonoimageProbe, Options, WalkFails, WalkDone, CommandLineFails, StartLinuxrc,
     WalkInv, CmdlineInv, SearchInv, FoundInv, RootIsAskedOrFailsafe
<1>2. ASSUME NEW n \in Nodes, WalkDev(n) PROVE HandoffInv'
  <2>1. m.node[n] \in Disks \cup {NoDisk, Dangling} /\ m.image.disk \in Disks
    BY MachineFacts
  <2>2. WalkInv'
    BY <1>2, <2>1, DiskAssumption DEF WalkDev, WalkInv
  <2> QED
    BY <1>2, <2>2 DEF WalkDev, CmdlineInv, SearchInv, FoundInv, RootIsAskedOrFailsafe
<1>3. CASE CommandLine
  <2>1. CmdlineInv'
    BY <1>3, CommandLineKeeps, PathIsEnd DEF CmdlineInv
  <2> QED
    BY <1>3, <2>1 DEF CommandLine, WalkInv, SearchInv, FoundInv, RootIsAskedOrFailsafe
<1>4. CASE ParseCmdline
  BY <1>4, ParseKeeps
<1>5. ASSUME NEW n \in Nodes, SearchMatch(n) PROVE HandoffInv'
  <2>1. UuidsTell /\ Legible /\ mnt' # NoDisk => mnt' = m.image.disk
    <3>1. ASSUME UuidsTell, Legible, mnt' # NoDisk PROVE mnt' = m.image.disk
      <4>1. mnt' = m.node[n] /\ m.node[n] \in m.ext
        BY <1>5, <3>1 DEF SearchMatch, FoundInv
      <4>2. imageuuid = ImageUuid /\ Matches(m.node[n])
        BY <1>5, <3>1 DEF SearchMatch, SearchInv
      <4> QED
        BY <3>1, <4>1, <4>2, OnlyMatch
    <3> QED
      BY <3>1
  <2>2. pc' \in {"stat", "halted"} /\ UNCHANGED <<kexecvars, imagefile, imageuuid, loop>>
    BY <1>5 DEF SearchMatch
  <2>3. Legible => imagefile \in Ends /\ imageuuid = ImageUuid
    BY <1>5 DEF SearchMatch, SearchInv
  <2> QED
    BY <2>1, <2>2, <2>3 DEF WalkInv, CmdlineInv, SearchInv, FoundInv, RootIsAskedOrFailsafe
<1>6. ASSUME NEW n \in Nodes, SearchSkip(n) PROVE HandoffInv'
  BY <1>6 DEF SearchSkip, WalkInv, CmdlineInv, SearchInv, FoundInv, RootIsAskedOrFailsafe
<1>7. CASE SearchFails \/ SearchDone \/ ReadHeader
  BY <1>7 DEF SearchFails, SearchDone, ReadHeader, WalkInv, CmdlineInv, SearchInv, FoundInv,
     RootIsAskedOrFailsafe
<1>8. CASE StatImage
  <2>1. ASSUME pc' = "header", UuidsTell, Legible, PathTells
        PROVE  [disk |-> mnt, name |-> imagefile] = m.image
    <3>1. mnt = m.image.disk /\ imagefile \in Ends /\ imagefile \in m.files[mnt]
      BY <1>8, <2>1 DEF StatImage, SearchInv
    <3>2. imagefile = m.image.name
      BY <2>1, <3>1 DEF PathTells, Ends
    <3> QED
      BY <3>1, <3>2, MachineFacts DEF Path
  <2>2. pc' \in {"header", "failsafe"} /\ UNCHANGED <<kexecvars, linuxrcvars>>
    BY <1>8 DEF StatImage
  <2> QED
    BY <2>1, <2>2 DEF WalkInv, CmdlineInv, SearchInv, FoundInv, RootIsAskedOrFailsafe
<1>9. CASE Failsafe
  BY <1>9 DEF Failsafe, FailsafePath, WalkInv, CmdlineInv, SearchInv, FoundInv, RootIsAskedOrFailsafe
<1>10. CASE SetLoop
  BY <1>10 DEF SetLoop, FailsafePath, WalkInv, CmdlineInv, SearchInv, FoundInv, RootIsAskedOrFailsafe
<1>11. CASE UNCHANGED vars
  BY <1>11 DEF vars, WalkInv, CmdlineInv, SearchInv, FoundInv, RootIsAskedOrFailsafe
<1> QED
  BY <1>1, <1>2, <1>3, <1>4, <1>5, <1>6, <1>7, <1>8, <1>9, <1>10, <1>11 DEF Next

(* The handoff, wherever the path is cut: what is asked is a fact about    *)
(* the machine, which no step changes.                                     *)
THEOREM AskedOrFailsafe == Spec => []RootIsAskedOrFailsafe
<1>1. HandoffInv => RootIsAskedOrFailsafe
  BY DEF HandoffInv
<1> QED
  BY <1>1, HandoffKept, InitHolds, PTL DEF Spec

-----------------------------------------------------------------------------
(* A clean machine on which no system call fails *)

(* What linuxrc will read is the file and its partition.                   *)
CleanWords ==
  /\ GetCmdlineVar("F") \subseteq {m.image.name}
  /\ GetCmdlineVar("I") \subseteq {m.uuid[m.image.disk]}

(* The entry of /dev by which kexec found the partition is still to come   *)
(* when linuxrc looks for it.                                              *)
EntryToCome ==
  /\ images_dev \in Nodes /\ m.node[images_dev] = m.image.disk
  /\ pc \in {"parse", "search"} => images_dev \in left

FoundImage == mnt = m.image.disk /\ imagefile = m.image.name

CleanInv ==
  Clean /\ ~faults =>
    /\ pc \in {"staged", "parse"} => CleanWords
    /\ pc \in {"staged", "parse", "search"} => EntryToCome
    /\ pc = "search" => imagefile = m.image.name /\ imageuuid = m.uuid[m.image.disk]
    /\ pc # "failsafe"
    /\ pc \in {"stat", "header", "loop"} => FoundImage
    /\ pc = "exit0" => loop # NoLoop /\ Root = m.image

(* A path that goes by the mount point is cut behind it.                   *)
LEMMA CutAtPoint ==
  ASSUME m \in Machines, NEW point \in Text, m.path = PathVia(point, m.image.name),
         NEW n \in CommonPart(point, m.path)
  PROVE  Below(n) = m.image.name
<1> DEFINE f == m.image.name
           sep == IF point = <<"/">> THEN 0 ELSE 1
<1>1. /\ f \in Seq(Char) /\ Len(f) \in Nat /\ Len(f) > 0 /\ f[1] # "/"
      /\ point \in Seq(Char) /\ Len(point) \in Nat /\ "/" \in Char
  BY MachineFacts, TextAssumption DEF Text
<1> HIDE DEF f
<1>2. /\ m.path \in Seq(Char) /\ Len(m.path) = Len(point) + sep + Len(f)
      /\ \A i \in 1..Len(point) : m.path[i] = point[i]
      /\ \A i \in 1..Len(f) : m.path[Len(point) + sep + i] = f[i]
      /\ sep = 1 => m.path[Len(point) + 1] = "/"
  <2>1. CASE point = <<"/">>
    <3>1. m.path = point \o f
      BY <2>1 DEF PathVia, f
    <3>2. sep = 0
      BY <2>1
    <3> HIDE DEF sep
    <3> QED
      BY <1>1, <3>1, <3>2
  <2>2. CASE point # <<"/">>
    <3>1. m.path = (point \o <<"/">>) \o f
      BY <2>2 DEF PathVia, f
    <3>2. /\ point \o <<"/">> \in Seq(Char) /\ Len(point \o <<"/">>) = Len(point) + 1
          /\ \A i \in 1..Len(point) : (point \o <<"/">>)[i] = point[i]
          /\ (point \o <<"/">>)[Len(point) + 1] = "/"
      BY <1>1
    <3> HIDE DEF sep
    <3>3. sep = 1
      BY <2>2 DEF sep
    <3> QED
      BY <1>1, <3>1, <3>2, <3>3
  <2> QED
    BY <2>1, <2>2
<1>3. sep \in {0, 1}
  OBVIOUS
<1> HIDE DEF sep
<1>4. n = Len(point)
  <2>1. /\ n \in Nat /\ n <= Len(point)
        /\ n < Len(point) /\ n < Len(m.path) => point[n + 1] # m.path[n + 1]
    BY <1>1, <1>2, <1>3 DEF CommonPart
  <2>2. ~(n < Len(point))
    <3>1. SUFFICES ASSUME n < Len(point) PROVE FALSE
      OBVIOUS
    <3>2. n + 1 \in 1..Len(point) /\ n < Len(m.path)
      BY <1>1, <1>2, <1>3, <2>1, <3>1
    <3> QED
      BY <1>2, <2>1, <3>1, <3>2
  <2> QED
    BY <1>1, <2>1, <2>2
<1>5. m.path[n + 1] = "/" <=> sep = 1
  <2>1. CASE sep = 1
    BY <1>2, <1>4, <2>1
  <2>2. CASE sep = 0
    <3>1. 1 \in 1..Len(f) /\ Len(point) + sep + 1 = n + 1
      BY <1>1, <1>4, <2>2
    <3> QED
      BY <1>1, <1>2, <2>2, <3>1
  <2> QED
    BY <1>3, <2>1, <2>2
<1>6. Below(n) = SubSeq(m.path, Len(point) + sep + 1, Len(m.path))
  <2>1. n < Len(m.path)
    BY <1>1, <1>2, <1>3, <1>4
  <2> QED
    BY <1>3, <1>4, <1>5, <2>1 DEF Below
<1>7. SubSeq(m.path, Len(point) + sep + 1, Len(m.path)) = f
  <2> DEFINE sub == SubSeq(m.path, Len(point) + sep + 1, Len(m.path))
  <2>1. /\ sub \in Seq(Char) /\ Len(sub) = Len(f)
        /\ \A i \in 1..Len(f) : sub[i] = m.path[Len(point) + sep + i]
    BY <1>1, <1>2, <1>3
  <2>2. \A i \in 1..Len(f) : sub[i] = f[i]
    BY <1>2, <2>1
  <2> HIDE DEF sub
  <2>3. sub = f
    BY <1>1, <2>1, <2>2
  <2> QED
    BY <2>3 DEF sub
<1> QED
  BY <1>6, <1>7 DEF f

(* The words that kexec adds: the path is right, since the line of         *)
(* /proc/mounts is that of the partition.                                  *)
LEMMA CleanCommandLine ==
  ASSUME HandoffInv, CommandLine, Clean
  PROVE  CleanWords' /\ images_dev \in Nodes /\ m.node[images_dev] = m.image.disk
<1>0. m \in Machines /\ m' = m
  BY DEF HandoffInv, CommandLine
<1>1. images_dev \in Nodes /\ m.node[images_dev] = m.image.disk
  <2>1. images_dev # Unset /\ images_dev \in Nodes \cup {Unset}
        /\ m.node[images_dev] \in {m.image.disk, Dangling}
    BY DEF CommandLine, Readable, HandoffInv, WalkInv
  <2> QED
    BY <2>1 DEF Clean
<1>2. ImagePath \subseteq {m.image.name}
  <2>1. \E k \in DOMAIN m.mounts : m.mounts[k].node = images_dev
    BY <1>1 DEF Clean
  <2>2. Candidates # {}
    BY <1>1, <2>1, PrefixAssumption DEF Candidates
  <2>3. ASSUME NEW k \in Candidates
        PROVE  /\ MountPoint(m.mounts[k]) \in Text
               /\ m.path = PathVia(MountPoint(m.mounts[k]), m.image.name)
    <3>1. k \in DOMAIN m.mounts /\ <<images_dev, m.mounts[k].node>> \in NodePrefix
      BY <2>3 DEF Candidates
    <3>2. /\ m.mounts[k].node = images_dev
          /\ m.path = PathVia(m.mounts[k].point, m.image.name)
      BY <1>1, <3>1 DEF Clean
    <3>3. m.mounts[k].point \in Text
      <4> DEFINE Lines == [node: Nodes, point: Text]
      <4>1. \A x \in Lines : x.point \in Text
        OBVIOUS
      <4>2. m.mounts \in Seq(Lines)
        BY <1>0, MachineFacts
      <4> HIDE DEF Lines
      <4>3. m.mounts[k] \in Lines
        BY <3>1, <4>2
      <4> QED
        BY <4>1, <4>3
    <3> QED
      BY <3>2, <3>3 DEF MountPoint
  <2>4. ASSUME NEW path \in ImagePath PROVE path = m.image.name
    <3>1. PICK k \in Candidates :
            \E n \in CommonPart(MountPoint(m.mounts[k]), m.path) : path = Below(n)
      BY <2>2 DEF ImagePath
    <3> QED
      BY <1>0, <2>3, <3>1, CutAtPoint
  <2> QED
    BY <2>4
<1>3. ImageUuid = m.uuid[m.image.disk]
  BY <1>0, MachineFacts DEF ImageUuid, Uuid2Str, Clean, UuidsTell
<1>4. PICK path \in ImagePath :
        GetCmdlineVar("F")' \subseteq {path} /\ GetCmdlineVar("I")' \subseteq {ImageUuid}
  BY CommandLineKeeps DEF Clean
<1> QED
  BY <1>0, <1>1, <1>2, <1>3, <1>4 DEF CleanWords

(* linuxrc cannot pass over the partition, nor take another one for it.    *)
LEMMA CleanSearch ==
  ASSUME m \in Machines, Clean, imageuuid = m.uuid[m.image.disk], NEW n \in Nodes
  PROVE  /\ m.node[n] = m.image.disk => Matches(m.node[n])
         /\ m.node[n] \in m.ext /\ Matches(m.node[n]) => m.node[n] = m.image.disk
<1>1. m.image.disk \in m.ext /\ m.image.disk \in Disks
  BY MachineFacts
<1>2. Matches(m.image.disk)
  BY <1>1 DEF Matches, Ext2Uuid, Uuid2Str, Clean, UuidsTell
<1>3. imageuuid = ImageUuid
  BY <1>1 DEF ImageUuid, Uuid2Str, Clean, UuidsTell
<1> QED
  BY <1>2, <1>3, OnlyMatch DEF Clean

(* On a clean machine, unless a system call fails, the file kexec was      *)
(* given is the one on loop0.                                              *)
THEOREM CleanHandedOver == Spec => []CleanHandoff
<1>1. HandoffInv /\ HandoffInv' /\ CleanInv /\ [Next]_vars => CleanInv'
  <2> SUFFICES ASSUME HandoffInv, HandoffInv', CleanInv, [Next]_vars, Clean', ~faults' 
               PROVE  CleanInv'
    BY DEF CleanInv
  <2>0. m' = m /\ m \in Machines
    BY DEF Next, vars, HandoffInv, MonoimageProbe, Options, WalkFails, WalkDone, CommandLine,
       CommandLineFails, WalkDev, SearchMatch, SearchSkip, StartLinuxrc, ParseCmdline,
       SearchFails, SearchDone, StatImage, Failsafe, ReadHeader, SetLoop
  <2>1. Clean
    BY <2>0, MachineKept
  <2>2. ~faults
    BY DEF Next, vars, Fault, MonoimageProbe, Options, WalkFails, WalkDone, CommandLine,
       CommandLineFails, WalkDev, SearchMatch, SearchSkip, StartLinuxrc, ParseCmdline,
       SearchFails, SearchDone, StatImage, Failsafe, ReadHeader, SetLoop
  <2>w. cmdline' = cmdline => /\ GetCmdlineVar("F")' = GetCmdlineVar("F")
                             /\ GetCmdlineVar("I")' = GetCmdlineVar("I")
    BY DEF GetCmdlineVar, Hits, ValueIn, FirstAt, Letters
  <2> USE <2>0, <2>1, <2>2 DEF kexecvars, linuxrcvars, Fault
  <2>3. CASE MonoimageProbe \/ Options \/ WalkFails \/ WalkDone \/ CommandLineFails
             \/ SearchFails
    BY <2>3 DEF MonoimageProbe, Options, WalkFails, WalkDone, CommandLineFails, SearchFails,
       CleanInv
  <2>4. ASSUME NEW n \in Nodes, WalkDev(n) PROVE CleanInv'
    BY <2>4 DEF WalkDev, CleanInv
  <2>5. CASE CommandLine
    <3>1. CleanWords' /\ images_dev \in Nodes /\ m.node[images_dev] = m.image.disk
      BY <2>5, CleanCommandLine
    <3> QED
      BY <2>5, <3>1 DEF CommandLine, CleanInv, EntryToCome
  <2>6. CASE StartLinuxrc
    BY <2>6, <2>w DEF StartLinuxrc, CleanInv, CleanWords, EntryToCome
  <2>7. CASE ParseCmdline
    <3>1. GetCmdlineVar("F") \subseteq {m.image.name}
          /\ GetCmdlineVar("I") \subseteq {m.uuid[m.image.disk]}
      BY <2>7 DEF ParseCmdline, CleanInv, CleanWords
    <3> QED
      BY <2>7, <3>1 DEF ParseCmdline, CleanInv, EntryToCome
  <2>8. ASSUME NEW n \in Nodes, SearchMatch(n) PROVE CleanInv'
    <3>1. imagefile = m.image.name /\ imageuuid = m.uuid[m.image.disk]
      BY <2>8 DEF SearchMatch, CleanInv
    <3>2. m.node[n] \in m.ext => m.node[n] = m.image.disk
      BY <2>8, <3>1, CleanSearch DEF SearchMatch
    <3> QED
      BY <2>8, <3>1, <3>2 DEF SearchMatch, CleanInv, FoundImage
  <2>9. ASSUME NEW n \in Nodes, SearchSkip(n) PROVE CleanInv'
    <3>1. imageuuid = m.uuid[m.image.disk] /\ EntryToCome /\ pc = "search"
      BY <2>9 DEF SearchSkip, CleanInv
    <3>2. n # images_dev
      BY <2>9, <3>1, CleanSearch, MachineFacts DEF SearchSkip, EntryToCome
    <3> QED
      BY <2>9, <3>1, <3>2 DEF SearchSkip, CleanInv, EntryToCome
  <2>10. CASE SearchDone
    BY <2>10 DEF SearchDone, CleanInv, EntryToCome
  <2>11. CASE StatImage
    <3>1. m.image.name \in m.files[m.image.disk] /\ m.image.disk # NoDisk
      BY MachineAssumption, MachineFacts, DiskAssumption
    <3> QED
      BY <2>11, <3>1 DEF StatImage, CleanInv, FoundImage
  <2>12. CASE Failsafe
    BY <2>12 DEF Failsafe, CleanInv
  <2>13. CASE ReadHeader
    BY <2>13 DEF ReadHeader, CleanInv, FoundImage
  <2>14. CASE SetLoop
    <3>1. mnt = m.image.disk /\ imagefile = m.image.name
      BY <2>14 DEF SetLoop, CleanInv, FoundImage
    <3>2. pc' = "exit0" /\ loop' = [disk |-> mnt, name |-> imagefile, part |-> LoopPart]
      BY <2>14 DEF SetLoop
    <3>3. loop' # NoLoop
      BY <3>1, <3>2, LoopAssumption, MachineFacts, TextAssumption
    <3>4. [disk |-> mnt, name |-> imagefile] = m.image
      BY <3>1, MachineFacts DEF Path
    <3> QED
      BY <3>2, <3>3, <3>4 DEF CleanInv, Root
  <2>15. CASE UNCHANGED vars
    BY <2>15, <2>w DEF vars, CleanInv, CleanWords, EntryToCome, FoundImage, Root
  <2> QED
    BY <2>3, <2>4, <2>5, <2>6, <2>7, <2>8, <2>9, <2>10, <2>11, <2>12, <2>13, <2>14, <2>15
    DEF Next
<1>2. Init => CleanInv
  BY DEF Init, CleanInv
<1>3. CleanInv => CleanHandoff
  BY DEF CleanInv, CleanHandoff
<1> QED
  BY <1>1, <1>2, <1>3, HandoffKept, InitHolds, PTL DEF Spec
===============================================================================

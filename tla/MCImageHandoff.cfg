CONSTANTS
  d1 = d1
  d2 = d2
  d3 = d3
  dRaw = dRaw
  hda1 = hda1
  hda2 = hda2
  hda3 = hda3
  hda31 = hda31
  hdc = hdc
  tty = tty
  cdrom = cdrom
  NoDisk = NoDisk
  Dangling = Dangling
  Unset = Unset
  NoLoop = NoLoop
  FsImg <- failsafe
  NullUuid <- uNull
  FsNode = hda1
  Disks <- MCDisks
  Nodes <- MCNodes
  Uuids <- MCUuids
  ZeroFirst <- MCZeroFirst
  Names <- MCNames
  Char <- MCChar
  NodeRest <- MCNodeRest
  NodePrefix <- MCNodePrefix
  Machines <- MCMachines
SPECIFICATION FairSpec
INVARIANTS RootIsAskedOrFailsafe CleanHandoff
PROPERTY HandoffEnds
CHECK_DEADLOCK FALSE

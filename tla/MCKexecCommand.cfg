SPECIFICATION Spec
CONSTANTS
  Block = 4
  LenBytes = 2
  ByteSize = 16
  TotalWord = 16
  NullBuf = 8
  Kernels <- MCKernels
  FileTypes <- MCFileTypes
  Interfaces <- MCInterfaces
  MaxIfs = 4
  Machines = {"i386", "x86_64"}
  CommandLines <- MCCommandLines
INVARIANTS
  JumpPrepared
  StatusTells
  DigestIsReference
  IntactStarts

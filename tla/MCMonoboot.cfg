CONSTANTS
  funky = funky
  safe = safe
  safe2 = safe2
  fFunky = fFunky
  fSafe = fSafe
  fSafe2 = fSafe2
  None = None
  Nil = Nil
  Absent = Absent
  Garbage = Garbage
  NoArg = NoArg
  NoImage = NoImage
  Tags <- MCTags
  Files <- MCFiles
  PrefixOf <- MCPrefixOf
  Present <- MCPresent
  Kind <- MCKind
  TagDirs <- MCTagDirs
  Authored <- MCAuthored
SPECIFICATION FairSpec
INVARIANTS AuthoredRecoverable InterruptedSaveCompletable RunningImageSeesConfig
PROPERTIES SaveIsAtomic MonobootTerminates

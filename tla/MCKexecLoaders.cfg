CONSTANTS
  Page = 4096
  Word = 1073741824
  Ranges <- MCRanges
  MemMin = 0
  MemMax = 1073741823
  Fixed = {}
  Floating = {}
  MaxSegments = 10
  Cases <- MCCases
SPECIFICATION LSpec
INVARIANTS HandedOver PurgatoryPlaced LoadedFromFile
\* One run of kexec -l ends with the process.
CHECK_DEADLOCK FALSE

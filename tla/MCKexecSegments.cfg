CONSTANTS
  Page = 4
  Word = 64
  Ranges <- PCRanges
  MemMin = 0
  MemMax = 63
  Fixed <- MCFixed
  Floating <- MCFloating
  MaxSegments = 3
SPECIFICATION Spec
INVARIANTS StagedInRam StagedDisjoint HoleUsable NoHoleMeansFull FreeListFits
PROPERTY BufferAvoidsSegments

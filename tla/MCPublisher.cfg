SPECIFICATION Spec
CONSTANTS
  MaxPrimary = 2
  SecondaryModulus = 5
  InitHeads <- MCInitHeads
  MaxMoves = 4
INVARIANTS
  MemoryAgreesWithStorage
  EntriesNeverPastHead
  SetNeverOverwrites
  PowerLossLeavesNoHole
PROPERTIES
  HeadNeverGoesBack
  AppendsInKeyOrder

SPECIFICATION LSpec
CONSTANTS
  MaxPrimary = 1
  SecondaryModulus = 4
  InitHeads <- MCInitHeads
  MaxMoves = 3
  Listeners = {l1}
  Ranges <- MCRanges
INVARIANTS
  HasDataIsExact

SPECIFICATION ASpec
CONSTANTS
  MaxPrimary = 1
  SecondaryModulus = 3
  InitHeads <- MCInitHeads
  MaxMoves = 2
  Listeners = {l1}
  Ranges <- MCRanges
INVARIANTS
  WaitIsBarrier

SPECIFICATION Spec
CONSTANTS
  MaxPrimary = 1
  SecondaryModulus = 2
  InitHeads <- MCInitHeads
  MaxMoves = 4
PROPERTIES
  HeadNeverGoesBack

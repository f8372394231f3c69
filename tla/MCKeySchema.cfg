SPECIFICATION SSpec
CONSTANTS
  MaxPrimary = 2
  SecondaryModulus = 2
  Names <- MCNames
  Base = 2
  MaxKeys = 4
INVARIANTS
  IntervalIsTheStream
  StringsOrderedAsKeys
  HeadReadBack
PROPERTY
  ImplementsStore

SPECIFICATION SerSpec
CONSTANTS
  Classes <- MCClasses
  Base = "Base"
  IsA <- MCIsA
  Programs <- MCPrograms
  MaxEntries = 2
  Radix = 2
  Widths = {1, 2, 4}
INVARIANTS
  SerTypeOK
  ReadAsDispatched
  NothingCutOff

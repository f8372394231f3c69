SPECIFICATION FairSpec
CONSTANTS
  Threads = {t1, t2, t3}
  MaxClients = 2
INVARIANTS
  RespecterTypeOK
  DestructorWaitsUnlessLate
  HeldIsNeverLate
PROPERTIES
  DestructorReturns
CHECK_DEADLOCK FALSE

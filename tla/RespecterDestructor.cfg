SPECIFICATION Spec
CONSTANTS
  Threads = {t1, t2, t3}
  MaxClients = 2
SYMMETRY Symmetry
INVARIANTS
  DestructorWaits
CHECK_DEADLOCK FALSE

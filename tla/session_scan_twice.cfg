SPECIFICATION Spec
CONSTANTS
  Scans = {s1, s2}
  x1 = x1
  x2 = x2
  x3 = x3
  Sessions <- MCSessions
  Compatible <- MCCompatible
  Tags = {t1, t2}
  Shared = FALSE
  NoSession = NoSession
CHECK_DEADLOCK FALSE
SYMMETRY Symmetry
INVARIANT UniqueInSession

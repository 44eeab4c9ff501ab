CONSTANTS
  Names = {n1, n2}
  Records = {r1, r2}
  Projects = {p1}
  Composes = {c1, c2}
  Dirs = {d1}
  Boots = {b1}
  None = None
  Torn = Torn
  Calls = 3
  Faults = 1
  Crashes = 2
SPECIFICATION Spec
INVARIANTS TypeOK AckedKept
PROPERTIES RecordsAtomic DeletedWhole
CHECK_DEADLOCK FALSE

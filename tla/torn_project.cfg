CONSTANTS
  Names = {n1}
  Records = {r1}
  Projects = {p1}
  Composes = {c1, c2}
  Dirs = {d1}
  Boots = {b1}
  None = None
  Torn = Torn
  Calls = 2
  Faults = 0
  Crashes = 1
SPECIFICATION Spec
PROPERTIES ProjectsAtomic
CHECK_DEADLOCK FALSE

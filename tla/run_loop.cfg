CONSTANTS
  Changes = 2
  Faults = 1
  Breaks = 2
SPECIFICATION Spec
INVARIANTS TypeOK NoLostWake NoLostEvent
PROPERTIES EverythingSeen

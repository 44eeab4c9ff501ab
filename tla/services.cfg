CONSTANTS
  Names = {1}
  Projects = {1,2}
  Images = {"a", "b"}
  Files <- OneFiles
  Installed <- OneInstalled
  None = None
  StartRetries = 1
  LongRuns = TRUE
  ApiCalls = 2
  Exits = 1
  Faults = 0
  Crashes = 0
  Hands = 2
SPECIFICATION Spec
INVARIANTS TypeOK InFlightCurrent ServicesMatchFile
PROPERTIES NoNeedlessStop HolderUntouched

CONSTANTS
  Names = {1}
  Projects = {1}
  Images = {"a", "b"}
  Files <- OneInstalled
  Installed <- OneInstalled
  None = None
  StartRetries = 1
  LongRuns = FALSE
  ApiCalls = 3
  Exits = 0
  Faults = 1
  Crashes = 1
  Hands = 0
SPECIFICATION Spec
INVARIANTS StopHolds

CONSTANTS
  Names = {1}
  Projects = {1,2}
  Images = {"a", "b"}
  Files <- MovedFiles
  Installed <- OneInstalled
  None = None
  StartRetries = 1
  LongRuns = FALSE
  ApiCalls = 1
  Exits = 1
  Faults = 1
  Crashes = 2
  Hands = 0
SPECIFICATION FairSpec
INVARIANTS DesiredAsAsked
PROPERTIES Converges

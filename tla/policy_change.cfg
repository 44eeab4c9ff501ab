CONSTANTS
  Names = {1}
  Projects = {1}
  Images = {"a", "b"}
  Files <- PolicyFiles
  Installed <- PolicyInstalled
  None = None
  StartRetries = 1
  LongRuns = FALSE
  ApiCalls = 1
  Exits = 1
  Faults = 0
  Crashes = 0
  Hands = 0
SPECIFICATION FairSpec
PROPERTIES PolicyDecides

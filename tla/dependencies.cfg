CONSTANTS
  Names = {1,2}
  Projects = {1}
  Images = {"a", "b"}
  Files <- HealthyFiles
  Installed <- HealthyInstalled
  None = None
  StartRetries = 1
  LongRuns = FALSE
  ApiCalls = 1
  Exits = 1
  Faults = 2
  Crashes = 0
  Hands = 0
SPECIFICATION Spec
INVARIANTS FatalStays TriesBounded
PROPERTIES DependenciesInOrder ActsInCustody

CONSTANTS
  Names = {1, 2}
  Clients = {slow, reader}
  Readers = {reader}
  Room = 2
  Moves = 2
  Calls = 1
  Opens = 2
  Crashes = 1
SPECIFICATION Spec
INVARIANTS TypeOK NothingMissed CaughtUp
PROPERTIES ReadersLearn EverythingPublished

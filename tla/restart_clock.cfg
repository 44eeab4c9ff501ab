CONSTANTS
  Second = 2
  StartRetries = 1
  StartSeconds = 1
  BackoffSeconds = 1
  BackoffMaxSeconds = 2
  Epoch = 5
  Shift = 6
  Policy = "on-failure"
  MaxRestarts = 1
  Horizon = 12
  Disturbances = 2
SPECIFICATION Spec
INVARIANTS TypeOK FatalDeserved
PROPERTIES Paced ResetEarned PolicyKept
CHECK_DEADLOCK FALSE

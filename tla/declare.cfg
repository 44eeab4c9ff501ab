CONSTANTS
  None = None
  Links = 4
  Parts = 2
  Volumes <- VolumesDir
  ServiceNames <- Names
  Blank <- Plain
  Values <- Writing
  Homes <- Changing
  Base <- Home
  Cwd <- WorkingDir
  Requests <- Asking
  Edits = 2
SPECIFICATION Spec
INVARIANTS RunAsWritten LoadsAsAssumed BindsLead CheckForetells
CHECK_DEADLOCK FALSE

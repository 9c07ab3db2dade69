SPECIFICATION ProcessesSpec
CONSTANTS
  Pid = {1, 2}
  Size = {1, 2}
  TopLimit = 1
  MaxProcChanges = 2
INVARIANT PartialDataShown
CHECK_DEADLOCK FALSE

SPECIFICATION Spec
CONSTANTS
  File <- MCFile
  Size <- MCSize
  Host <- MCHost
  OlderThan = 1
  MaxNow = 1
  MaxChanges = 1
  MaxCalls = 2
INVARIANTS
  TypeOK
  OnlyArmedCallsAct
  QuietAccounting
  QuietNeverRaises
  PlanHonoured
  VerdictSound
PROPERTIES
  QuietRemovesOnlyAged
  CallEnds
  KeepsPromise
\* a program that has returned, and a machine whose bounds are used up, stop
CHECK_DEADLOCK FALSE

SPECIFICATION CallsSpec
CONSTANTS
  Pid = {1, 2}
  Size = {1, 2}
  TopLimit = 1
  MaxProcChanges = 2
  Iface = {e}
  MaxBytes = 1
  MaxBirths = 1
  MaxTime = 1
  MaxSets = 1
  TraceTool = {"strace", "perf", "gdb"}
  Facts <- MCFacts
  TitleOf <- MCTitle
  FailedUnit = {svc}
  KernelLine = {bt1, bt2, oops}
  LogTail = 4
  KernelLog <- MCLogs
  File = {f1, f2}
  Hidden = {f2}
  MaxEdits = 1
  Node <- MCNode
  KindOf <- MCKind
  CriticalPath <- MCCritical
  Host <- MCHosts
  MaxWorldWritable = 3
  MaxClosed = 1
  MaxNodeChanges = 1
  Unit = {svc}
  Typed = {svc}
  MountPoint = {slash, net}
  Deaf = {net}
  Device = {sda}
  Listener = {}
  MaxExposed = 1
  MachineStart <- MCStart
  MaxMounts = 3
  MaxReportChanges = 0
  MaxSecond = 1
  bt1 = bt1
  bt2 = bt2
  oops = oops
  svc = svc
  slash = slash
  net = net
  sda = sda
  e = e
  f1 = f1
  f2 = f2
INVARIANTS
  CallsTypeOK
  SteadyProcessesExact
  RatesExact
  TraceReadThenRemoved
  KernelLogAccounted
  SteadyFilesExact
  GroupsLossless
  WalkExact
PROPERTY
  CommandEnds
CHECK_DEADLOCK FALSE

SPECIFICATION ReportSpec
CONSTANTS
  Unit = {svc}
  Typed = {svc}
  MountPoint = {slash, net}
  Deaf = {net}
  Device = {sda}
  Listener = {lis1, lis2}
  MaxExposed = 1
  MachineStart <- MCStart
  MaxMounts = 4
  MaxReportChanges = 1
  MaxSecond = 1
  svc = svc
  slash = slash
  net = net
  sda = sda
  lis1 = lis1
  lis2 = lis2
SYMMETRY MCSymmetry
INVARIANTS
  SteadySectionsAgree
  ReportsKept
CHECK_DEADLOCK FALSE

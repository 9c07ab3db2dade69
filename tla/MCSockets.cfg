SPECIFICATION Spec
CONSTANTS
  p1 = p1
  p2 = p2
  s1 = s1
  s2 = s2
  Pid <- MCPid
  Tables <- MCTables
  Foreign <- MCForeign
  Inode <- MCInode
  MaxChanges = 2
INVARIANTS
  TypeOK
  SteadySocketsExact
PROPERTIES
  NoPhantomOwner
  ReportEnds
\* a report, once made, is final
CHECK_DEADLOCK FALSE

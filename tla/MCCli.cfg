SPECIFICATION Spec
INVARIANTS
  TypeOK
  RootMeansSudo
  NoSudoLoop
\* a process ends
CHECK_DEADLOCK FALSE

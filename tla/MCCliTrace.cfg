SPECIFICATION Spec
INVARIANT
  NamedCommandRuns
CHECK_DEADLOCK FALSE

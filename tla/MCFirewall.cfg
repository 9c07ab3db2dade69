SPECIFICATION Spec
CONSTANTS
  Rule <- MCRule
  Policy <- MCPolicy
  Socket <- MCSocket
  MaxRules = 2
INVARIANTS
  TypeOK
  PlainDecisionsExact
\* a report, once made, is final
CHECK_DEADLOCK FALSE

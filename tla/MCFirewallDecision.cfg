SPECIFICATION Spec
CONSTANTS
  Rule <- MCRule
  Policy <- MCPolicy
  Socket <- MCSocket
  MaxRules = 2
INVARIANT
  DecisionIsTheFirewalls
CHECK_DEADLOCK FALSE

SPECIFICATION Spec
CONSTANTS
  u1 = u1
  u2 = u2
  kernel = kernel
  taint = taint
  Unit <- MCUnit
  Trouble <- MCTrouble
  Serious <- MCSerious
INVARIANT
  EveryClearedFailureShown

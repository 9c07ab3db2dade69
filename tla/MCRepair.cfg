SPECIFICATION Spec
CONSTANTS
  u1 = u1
  u2 = u2
  kernel = kernel
  taint = taint
  Unit <- MCUnit
  Trouble <- MCTrouble
  Serious <- MCSerious
INVARIANTS
  TypeOK
  ConsentBeforeReset
  DryRunHarmless
  SteadyResetExact
  DoneMeansNoneFailed
  SkippedExplained
  ReportedAsAsked
PROPERTIES
  RepairEnds

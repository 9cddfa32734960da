SPECIFICATION Spec
CONSTANTS
  Scripts = {"prove", "task02", "task03", "task04"}
  Plan <- MCPlan
  ToClaim <- MCToClaim
  Redirected = "C"
  PayerSol = {10, 40}
  TraderSol = {0, 6, 20}
  PayerLeast = 8
  TraderTarget = 5
  AttackerTarget = 1
  CurveBuys = 2
  MaxBuys = 3
  MaxTries = 2
  Curve <- MCCurve
  Cap = 3
  Target = 2
  Least = 1
  Most = 64
  Rounds = 8
  MaxFaults = 2
INVARIANTS
  KeysKept
  FeesApart
PROPERTIES
  Completes
CHECK_DEADLOCK FALSE

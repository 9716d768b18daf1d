\* Two clicks, with stop_on_error.
CONSTANTS
  NoKey = NoKey
  Keys = {"k", "l"}
  Steps <- TheStepNames
  Step <- TheSteps
  Runbook <- TheRunbook
  Programs <- TwoClicks
  Options <- OneOption
  MaxTotalSteps = 5
  MaxBranch = 2
  MaxIters = 2
  MaxIncludes = 2
  MaxDialogs = 1
SPECIFICATION FlowSpec
CHECK_DEADLOCK FALSE
INVARIANT StopsOnFirstError

\* Nine lists of two or three steps, one recovery, one dialog.
CONSTANTS
  NoKey = NoKey
  Keys = {"k", "l"}
  Steps <- TheStepNames
  Step <- TheSteps
  Runbook <- TheRunbook
  Programs <- SomePrograms
  Options <- SomeOptions
  MaxTotalSteps = 5
  MaxBranch = 2
  MaxIters = 2
  MaxIncludes = 2
  MaxDialogs = 1
SPECIFICATION FairFlowSpec
CHECK_DEADLOCK FALSE
INVARIANTS IrreversibleOnce OkMeansAllSent
PROPERTIES PastIsFixed FlowEnds

CONSTANTS
  Names = {a, b}
  MaxSteps = 2
SPECIFICATION DownloadSpec
CHECK_DEADLOCK FALSE
INVARIANTS InstantDownloadsSeen

\* A request, alone or a batch, in one life of the worker; a click on Reconnect, two on the
\* switches.
CONSTANTS
  t1 = t1
  s1 = s1
  s2 = s2
  Tabs = {t1}
  Slots = {s1, s2}
  Batches <- SomeBatches
  MaxStarts = 1
  MaxToggles = 2
  MaxRequests = 1
  MaxReconnects = 1
SPECIFICATION Spec
CHECK_DEADLOCK FALSE
SYMMETRY TabSlotSymmetry
INVARIANTS FailClosed GatedCallsRefused

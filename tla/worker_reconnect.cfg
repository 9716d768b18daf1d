\* Two lives of the worker, no click on Reconnect; one activation at a time, two clicks on the
\* switches.
CONSTANTS
  t1 = t1
  s1 = s1
  Tabs = {t1}
  Slots = {s1}
  Batches <- NoBatches
  MaxStarts = 2
  MaxToggles = 2
  MaxRequests = 0
  MaxReconnects = 0
SPECIFICATION FairSpec
CHECK_DEADLOCK FALSE
INVARIANT SwitchHolds
PROPERTY Reconnects

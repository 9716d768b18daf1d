\* Two hosts of one profile.
CONSTANTS
  f1 = f1
  p1 = p1
  Profiles = {f1}
  Peers = {p1}
  MaxHosts = 2
  Owners <- OneFirst
SPECIFICATION Spec
CHECK_DEADLOCK FALSE
INVARIANT BridgeIsFound

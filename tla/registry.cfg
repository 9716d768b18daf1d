\* Three hosts of two profiles, one server process.
CONSTANTS
  f1 = f1
  f2 = f2
  p1 = p1
  Profiles = {f1, f2}
  Peers = {p1}
  MaxHosts = 3
  Owners <- OneFirst
SPECIFICATION FairSpec
CHECK_DEADLOCK FALSE
INVARIANTS FoundUnlessOverlapped NewestIsChosen
PROPERTY PeersConnect

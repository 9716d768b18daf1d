\* One process making two calls; three connections, two native hosts.
CONSTANTS
  p1 = p1
  Peers = {p1}
  MaxConns = 3
  MaxCalls = 2
  MaxBrokers = 2
SPECIFICATION FairSpec
CHECK_DEADLOCK FALSE
PROPERTIES EveryCallEnds Reconnects

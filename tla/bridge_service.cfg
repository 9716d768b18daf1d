\* Two processes with one call each over three connections each; one native host: the
\* refinement of RpcService.
CONSTANTS
  p1 = p1
  p2 = p2
  Peers = {p1, p2}
  MaxConns = 3
  MaxCalls = 1
  MaxBrokers = 1
SPECIFICATION Spec
SYMMETRY PeerSymmetry
CHECK_DEADLOCK FALSE
INVARIANTS AnswersMatch
PROPERTIES ImplementsService

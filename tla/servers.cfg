\* Servers beside one another.
CONSTANTS
  Servers = {s1, s2}
  Keys = {k1, k2}
  SensitiveKeys = {k2}
  KeyLimits = {1, 2}
  MaxWrites = 2
  MaxCrashes = 1
  GatewayTabs = {g1}
  MaxConnections = 2
  MaxLinks = 2
  MaxGatewayCalls = 1
  MaxGatewayEvents = 1
  MaxGatewayQueue = 1
  Processes = {p1, p2, p3}
  NoProcess = NoProcess
  MaxRoles = 2
  MaxChromes = 2
  MaxLaunchCalls = 3
  SetupServers = {s1, s2}
  NoServer = NoServer
  Targets = {1, 2}
  MaxHeals = 1
  MaxStarts = 2
  MaxMishaps = 1
  EventPeers = {q1, q2}
  EventKinds = {load}
  MaxTabQueue = 1
  MaxEmitted = 2
  MaxPeerDials = 2
  MaxHostEnds = 1
  ArtifactServers = {s1, s2}
  ArtifactKinds = {image}
  Exts = {png}
  OutNames = {n1}
  Unfinished = Unfinished
  MaxPuts = 2
  MaxArtifactTime = 1
  MaxArtifactCrashes = 1
  PeerCalls = {c1}
  Polls = {o1}
  NoCaller = NoCaller
  MaxIds = 2
  MaxSockets = 2
  MaxClients = 2
SPECIFICATION ServersSpec
CHECK_DEADLOCK FALSE
INVARIANTS
  ServersTypeOK
  FileIsLastSave
  HeldUnlessLateEnd
  GatewaysLocked
  StraysDidNotAnswer
  SetupIsWhole
  EventsReachSubscribers
  ArtifactsStay
  AnswersReachCallers

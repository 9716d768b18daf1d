\* Everything that happens in one tab.
CONSTANTS
  InputCalls <- InputCall
  TextChunks = 2
  MaxNavigations = 2
  MaxNoise = 1
  MaxWaits = 2
  Tabs = {t1, t2, t3}
  MaxFrames = 3
  MaxDialogs = 2
  MaxWorkers = 2
  EventNames = {load, other}
  MaxCommands = 2
  MaxEvents = 3
  MaxEventQueue = 2
  MaxMessages = 2
  Requests = {r1, r2}
  MaxHops = 2
  MaxClock = 2
  MaxBuffer = 1
  MaxRequestMap = 1
  Names = {a, b}
  MaxSteps = 2
  AppCalls <- SomeAppCalls
  MaxAppCalls = 2
  MaxTriggers = 2
  Docs <- MCDocs
  Address <- MCAddress
  Shows <- MCShows
  LinksTo <- MCLinksTo
  LabelOf <- MCLabelOf
  MaxNodes = 2
  MaxEdges = 2
  MaxLooks = 2
  MaxMoves = 2
  MaxActs = 1
  ScriptServers = {s1, s2}
  MaxEntries = 1
  Hardened = TRUE
  MaxErrors = 2
  MaxDocuments = 2
  MaxPageTime = 2
  MaxReads = 1
  MaxLayers = 2
  CacheTime = 2
  MaxTimings = 2
  MaxResources = 3
  MaxTimingTime = 4
  MaxAsks = 3
SPECIFICATION PageSpec
CHECK_DEADLOCK FALSE
INVARIANTS
  PageTypeOK
   
   ChangedUnlessStale
  NothingLeaks
  NoLastingAlarm
  ChannelDelivers
   RecordsOneRequest
  CapturedIsNew
  GraphIsClosed ActsOnWhatIsShown
  ErrorsRecordedOnce ListIsCurrent
  OneCopyUnlessUnseen

\* Two documents, one run with one act step.
CONSTANTS
  Docs <- MCDocs
  Address <- MCAddress
  Shows <- MCShows
  LinksTo <- MCLinksTo
  LabelOf <- MCLabelOf
  MaxNodes = 2
  MaxEdges = 2
  MaxLooks = 2
  MaxMoves = 2
  MaxActs = 1
SPECIFICATION ObservationSpec
CHECK_DEADLOCK FALSE
INVARIANT ActsAcrossNavigation

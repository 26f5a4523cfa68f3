SPECIFICATION LaneSpec
CONSTANTS
  Indices <- FourIndices
  NoIndex = 65535
  CacheSize = 3
  MaxAssign = 1
  RouteStates <- ShortStates
  MaxList = 1
  Updates <- LaneUpdates
  Maneuvers <- LaneManeuvers
  Names <- TwoNames
  LaneMessages <- EveryLane
INVARIANTS ShowsNamedLanes

SPECIFICATION Spec
CONSTANTS
  Indices <- ThreeIndices
  NoIndex = 65535
  CacheSize = 2
  MaxAssign = 3
  RouteStates <- ShortStates
  MaxList = 1
  Updates <- RouteUpdates
  Maneuvers <- RouteManeuvers
INVARIANTS ShowsHooksSlots

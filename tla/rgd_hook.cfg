SPECIFICATION EachSpec
CONSTANTS
  Indices <- ThreeIndices
  NoIndex = 65535
  CacheSize = 2
  MaxAssign = 3
  RouteStates <- ShortStates
  MaxList = 1
  Updates <- AllUpdates
  Maneuvers <- AllManeuvers
  Retries = {r1, r2}
  Guidances = {g1, g2, g3}
  Handlers = {h1, h2, h3}
  None = None
  MaxSessions = 2
  MaxDeaths = 1
INVARIANTS SlotsSound ZeroIsDecided OnlyLateThreadsLeave LegacyIsMain
PROPERTIES StoringKeepsListed RerouteHasNoTimeout HeldZeroResolves ReadyInTheEnd Graces
CHECK_DEADLOCK FALSE

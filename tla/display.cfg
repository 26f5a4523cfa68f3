SPECIFICATION BothSpec
CONSTANTS
  MaxTrouble = 2
  MaxDrifts = 1
  MaxShows = 2
  MaxAsync = 2
  Maneuvers = {f, a}
  NoManeuver = none
  Follow = f
  Arrived = {a}
  Bars = {off, on}
  Off = off
INVARIANTS LeavesNothing ScreenIsTrue RoadsCarryRoute ArraysFit NothingJumps
PROPERTIES HealthyIsKept ScreenRegained
CHECK_DEADLOCK FALSE

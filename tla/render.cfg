SPECIFICATION FairSpec
CONSTANTS
  Off = Off
  NoManeuver = NoManeuver
  Maneuvers = {straight, left, right}
  Bars = {Off, half}
  Follow = straight
  MaxPipe = 2
  MaxTrouble = 2
  Tolerated = 2
  MaxChanges = 4
INVARIANTS NothingStale
PROPERTIES ShownInTheEnd
CHECK_DEADLOCK FALSE

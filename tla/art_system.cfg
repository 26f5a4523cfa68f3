SPECIFICATION FairSpec
CONSTANTS
  imgA = imgA
  imgB = imgB
  NoImage = NoImage
  Gone = Gone
  Partial = Partial
  Images <- TwoImages
  MaxArrivals = 2
  MaxLives = 2
  MaxTracks = 2
INVARIANTS BrokenReadRepeats OnlyRespawnSpoils CachedIsOnDisk RestIsLatest
PROPERTIES LatestReachesCluster
CHECK_DEADLOCK FALSE

SPECIFICATION BothSpec
CONSTANTS
  Threads = {t1, t2}
  Fds = {fd1, fd2}
  NoOne = NoOne
  NumStreams = 2
  ProbeLimit = 2
  MaxOpens = 3
  Sessions = {s1, s2}
  NoSession = NoSession
  MaxImages = 3
  MaxPackets = 5
  MaxJpeg = 2
SYMMETRY Symmetry
INVARIANTS MarksAreRight StreamsKeptApart WholeOrBroken ImagesArrive
CHECK_DEADLOCK FALSE

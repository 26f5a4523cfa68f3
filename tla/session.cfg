SPECIFICATION MCSpec
CONSTANTS
  main = main
  other = other
  Senders <- MCSenders
  Payloads <- MCPayloads
  Links <- MCLinks
  MaxIdentify = 2
  MaxFail = 1
  MayReject = TRUE
SYMMETRY Symmetry
INVARIANTS PacketsAccounted
PROPERTIES OrderlySubscription
CHECK_DEADLOCK FALSE

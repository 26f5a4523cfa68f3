SPECIFICATION MCSpec
CONSTANTS
  main = main
  other = other
  Senders <- MCSenders
  Payloads <- MCPayloads
  Links <- OneLink
  MaxIdentify = 2
  MaxFail = 0
  MayReject = TRUE
SYMMETRY Symmetry
INVARIANTS PacketsValid
CHECK_DEADLOCK FALSE

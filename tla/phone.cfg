\* The messages of MCMessages; arrays of three lanes, three angles, three
\* maneuvers and two components, texts of three and of two characters.  Two threads
\* that send, two identifications, and one allocation or packet that fails.
SPECIFICATION MCSpec
CONSTANTS
  Messages <- MCMessages
  MaxComponentList = 2
  MaxManeuverList = 3
  MaxLaneGuidance = 3
  MaxLaneAngles = 3
  LongText = 3
  ShortText = 2
  Senders = {main, other}
  Payloads <- MCPayloads
  Links <- OneLink
  MaxIdentify = 2
  MaxFail = 1
  MayReject = TRUE
INVARIANTS ArraysHold ParsedIsMeaning
PROPERTIES Subscribes
CHECK_DEADLOCK FALSE

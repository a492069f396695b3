SPECIFICATION Spec
CONSTANTS
  Writers = {w1}
  Readers = {r1}
  Depth = 4
  MaxMsgs = 5
  NoMsg = NoMsg
INVARIANT ReportedIsSent
CHECK_DEADLOCK FALSE

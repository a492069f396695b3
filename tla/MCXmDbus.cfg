SPECIFICATION Spec
CONSTANTS
  Addresses = {a1, a2}
  None = None
  OtherDevices = {d1, d2}
  MaxPath = 3
  MaxDevice = 2
  MaxCalls = 3
INVARIANT TypeOK
INVARIANT OneProfile
INVARIANT ActiveIsCurrent
CHECK_DEADLOCK FALSE

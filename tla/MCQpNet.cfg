SPECIFICATION CtlFairSpec
CONSTANTS
  Callers = {t1}
  CMD_RING_SIZE = 4
  Cmds <- MCNetRpcCmds
  NoCmd = NoCmd
  WaitCuts <- MCCuts
  QPs <- MCNetRpc
  TtyQps <- MCNone
  NetQps <- MCNet
  TD_DEPTH = 2
  NoOne = NoOne
INVARIANT CommandKept
INVARIANT RingAssertions
PROPERTY PublishedStays
PROPERTY CallReturns
CHECK_DEADLOCK FALSE

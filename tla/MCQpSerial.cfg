SPECIFICATION CtlFairSpec
CONSTANTS
  Callers = {t1, t2}
  CMD_RING_SIZE = 5
  Cmds <- MCRpcCmds
  NoCmd = NoCmd
  WaitCuts <- MCCuts
  QPs <- MCRpc
  TtyQps <- MCNone
  NetQps <- MCNone
  TD_DEPTH = 2
  NoOne = NoOne
INVARIANT CtlTypeOK
INVARIANT CloseBeforeFree
INVARIANT OpenMeansOpen
INVARIANT ClosedIsFree
PROPERTY MutexReleased
CHECK_DEADLOCK FALSE

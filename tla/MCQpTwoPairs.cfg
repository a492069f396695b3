SPECIFICATION CtlSpec
CONSTANTS
  Callers = {t1, t2}
  CMD_RING_SIZE = 5
  Cmds <- MCTwoCmds
  NoCmd = NoCmd
  WaitCuts <- MCNone
  QPs <- MCTwoCdevs
  TtyQps <- MCNone
  NetQps <- MCNone
  TD_DEPTH = 2
  NoOne = NoOne
INVARIANT OpenMeansOpen
CHECK_DEADLOCK FALSE

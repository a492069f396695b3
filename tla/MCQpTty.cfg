SPECIFICATION CtlSpec
CONSTANTS
  Callers = {t1, t2}
  CMD_RING_SIZE = 5
  Cmds <- MCTtyCmds
  NoCmd = NoCmd
  WaitCuts <- MCNone
  QPs <- MCTty
  TtyQps <- MCTty
  NetQps <- MCNone
  TD_DEPTH = 2
  NoOne = NoOne
INVARIANT PollSafe
CHECK_DEADLOCK FALSE

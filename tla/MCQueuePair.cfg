SPECIFICATION FairSpec
CONSTANTS
  Writers = {w1}
  Readers = {r1}
  Depth = 4
  MaxMsgs = 5
  NoMsg = NoMsg
INVARIANT TypeOK
INVARIANT NoOverrun
INVARIANT RxArmed
INVARIANT CutsDoNotMatter
INVARIANT MessageIsLogged
PROPERTY TxChannel
PROPERTY RxChannel
PROPERTY RxDelivered
CHECK_DEADLOCK FALSE

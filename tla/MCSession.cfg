SPECIFICATION FairSpec
CONSTANTS
  IPs = {ip1, ip2}
  NoIp = NoIp
  MaxStarts = 3
  NoDefaultRoute = FALSE
  StopAnytime = FALSE
INVARIANT TypeOK
INVARIANT StoppedIsClean
INVARIANT HoldIsConfigured
PROPERTY StopCompletes
CHECK_DEADLOCK FALSE

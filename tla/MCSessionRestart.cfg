SPECIFICATION Spec
CONSTANTS
  IPs = {ip1, ip2}
  NoIp = NoIp
  MaxStarts = 2
  NoDefaultRoute = FALSE
  StopAnytime = FALSE
INVARIANT RuleOfSession
CHECK_DEADLOCK FALSE

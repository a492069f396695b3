SPECIFICATION Spec
CONSTANTS
  IPs = {ip1, ip2}
  NoIp = NoIp
  MaxStarts = 1
  NoDefaultRoute = FALSE
  StopAnytime = TRUE
INVARIANT RulesTornDown
CHECK_DEADLOCK FALSE

SPECIFICATION Spec
CONSTANTS
  tun = tun
  eth = eth
  wifi = wifi
  g1 = g1
  g2 = g2
  onlink = onlink
  W = 2
  Tun = tun
  Phys = {eth, wifi}
  Gateways = {g1, g2}
  OnLink = onlink
  Configs <- TwoServers
  Tables <- PlainTable
  MaxRuns = 1
INVARIANT OwnTrafficLeaves
\* the client ends
CHECK_DEADLOCK FALSE

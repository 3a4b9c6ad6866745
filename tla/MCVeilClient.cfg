SPECIFICATION FairSpec
CONSTANTS
  tun = tun
  eth = eth
  wifi = wifi
  g1 = g1
  g2 = g2
  onlink = onlink
  W = 2
  Tun = tun
  Phys = {eth, wifi}
  Gateways = {g1, g2}
  OnLink = onlink
  Configs <- OneServer
  Tables <- AllTables
  MaxRuns = 2
INVARIANTS TypeOK NoRoutingLoop FullTunnelCaptures UserRoutesKept OnlyExceptionsLeft
\* the client ends
CHECK_DEADLOCK FALSE
PROPERTY ShutdownCompletes

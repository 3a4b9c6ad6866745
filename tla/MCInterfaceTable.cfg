SPECIFICATION Spec
CONSTANTS
  tun = tun
  eth = eth
  one = one
  name = name
  none = none
  Words = {0, 1}
  MaxScope = 1
  Zones = {one, name}
  NoZone = none
  ParseUint <- MCParseUint
  FormatUint <- MCFormatUint
  Self = tun
  Other = eth
  Items <- MCItems
  OtherItems <- MCOtherItems
  MaxLen = 2
  MaxMeddle = 1
INVARIANTS TypeOK OutOfScopeKept ResultIsExact
\* a behaviour is one call
CHECK_DEADLOCK FALSE

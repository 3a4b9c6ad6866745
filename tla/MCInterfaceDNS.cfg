SPECIFICATION FairSpec
CONSTANTS
  a4 = a4
  a6 = a6
  none = none
  corp = corp
  nul = nul
  junk = junk
  Servers = {a4, a6}
  FamilyOf <- MCFamilyOf
  Domains = {none, corp, nul}
  NoDomains = none
  BadDomains = nul
  Lists <- MCLists
  Garbage = junk
  InitialSize = 1
  MaxSize = 3
  MaxCalls = 2
INVARIANTS TypeOK NilMeansSet FailureIsPartialAtWorst
PROPERTY DNSReturns
\* the calls are bounded
CHECK_DEADLOCK FALSE

SPECIFICATION FairSpec
CONSTANTS
  k1 = k1
  Callers = {c1, c2, c3}
  Conns = {k1}
  ClientOf <- MCClientOf
INVARIANTS TypeOK RepliesMatch StatusIsFresh
PROPERTY EveryoneReturns
\* every connection may break
CHECK_DEADLOCK FALSE

SPECIFICATION FairSpec
CONSTANTS
  Users = {u1, u2}
  MaxRegs = 3
  MaxRuns = 2
INVARIANTS TypeOK QuietAfterUnregister RegisteredAreNotified
PROPERTY CallsReturn
\* nobody has to register a callback
CHECK_DEADLOCK FALSE

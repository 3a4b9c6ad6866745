SPECIFICATION FairSpec
CONSTANTS
  Callers = {c1, c2}
  Names = {home}
  NoName = NoName
  MaxSessions = 2
PROPERTIES CallsReturn SessionsEnd

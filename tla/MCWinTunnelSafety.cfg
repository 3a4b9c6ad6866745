SPECIFICATION Spec
CONSTANTS
  Callers = {c1, c2}
  Names = {home, work}
  NoName = NoName
  MaxSessions = 3
SYMMETRY Symmetry
INVARIANTS TypeOK OneLiveTunnel NoOrphans StaleWatcherHarmless RoutesHaveAdapter ErrChanHasRoom
PROPERTY ImplementsService

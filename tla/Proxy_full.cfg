CONSTANTS
  r1 = r1
  r2 = r2
  r3 = r3
  NULL = NULL
  NoHandler = NoHandler
  Recs <- MCRecs
  FdNums = {3, 4, 5, 6, 7}
  ListenFd = 3
  MaxConns = 3
  MaxAllowed = 1
  MaxEvents = 3
  CtlOutcomes = {TRUE}
  Reaping = FALSE
  HostByName = FALSE
SPECIFICATION Spec
CONSTRAINT
  MCConstraint
INVARIANT
  AcceptedConnectionsRegistered

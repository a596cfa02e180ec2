CONSTANTS
  r1 = r1
  r2 = r2
  r3 = r3
  NULL = NULL
  NoHandler = NoHandler
  Recs <- MCRecs
  FdNums = {3, 4, 5, 6, 7}
  ListenFd = 3
  MaxConns = 4
  MaxAllowed = 1
  MaxEvents = 4
  CtlOutcomes = {TRUE, FALSE}
  Reaping = FALSE
  HostByName = TRUE
SPECIFICATION Spec
CONSTRAINT
  MCConstraint
INVARIANT
  SocketsAccounted

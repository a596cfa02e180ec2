SPECIFICATION Spec
CONSTANTS
  c1 = c1
  c2 = c2
  NoConn = NoConn
  Conns <- MCConns
  MaxLoads = 2
  LoadOutcomes = {"ok", "dlopen_fail", "dlsym_fail"}
  CloseOutcomes = {TRUE, FALSE}
  AllocResults = {TRUE, FALSE}
  Reaping = TRUE
  AdminQuiescent = TRUE
INVARIANT TypeOK
INVARIANT NoUnsafeCall
CHECK_DEADLOCK FALSE

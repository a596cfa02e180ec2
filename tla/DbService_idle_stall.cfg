SPECIFICATION Spec
CONSTANTS
  MaxConnects = 3
  RetryLimit = 1
  CreateRetries = 2
  ConnectOutcomes = {TRUE, FALSE}
  PrepareOutcomes = {TRUE, FALSE}
  ExecOutcomes = {TRUE, FALSE}
  Reaping = FALSE
  Stalls = TRUE
  ProxyOps = {"check", "established", "not_allowed", "vip"}
INVARIANT NoUseAfterClose

SPECIFICATION FairSpec
CONSTANTS
  MaxConnects = 2
  RetryLimit = 2
  CreateRetries = 3
  ConnectOutcomes = {TRUE, FALSE}
  PrepareOutcomes = {TRUE, FALSE}
  ExecOutcomes = {TRUE, FALSE}
  Reaping = FALSE
  Stalls = FALSE
  ProxyOps = {"check", "close", "established", "not_allowed"}
INVARIANT TypeOK
PROPERTY OperationsComplete

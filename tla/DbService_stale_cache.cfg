SPECIFICATION Spec
CONSTANTS
  MaxConnects = 3
  RetryLimit = 1
  CreateRetries = 2
  ConnectOutcomes = {TRUE, FALSE}
  PrepareOutcomes = {TRUE, FALSE}
  ExecOutcomes = {TRUE, FALSE}
  Reaping = FALSE
  Stalls = FALSE
  ProxyOps = {"check", "blacklisted", "vip", "add_blacklist", "guess", "product_names"}
INVARIANT CacheMatchesConnection

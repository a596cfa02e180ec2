CONSTANTS
  a = a
  b = b
  c = c
  d = d
  NoSession = NoSession
  Peers <- MCPeers
  Addr <- MCAddr
  WhiteList <- MCWhiteListPlain
  Reservation <- MCReservation
  Blacklisted = {}
  Vips = {d}
  NumServers = 2
  DefaultServer = 0
  OnFailedChannel = 1
  Threshold = 2
  PersistThreshold = 3
  FailSets = {{}}
  MaxCount = 4
  MaxUsers = 1
SPECIFICATION Spec
INVARIANT
  WhitelistedNotDropped

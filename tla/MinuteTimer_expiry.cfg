CONSTANTS
  i1 = i1
  i2 = i2
  c1 = c1
  c2 = c2
  c3 = c3
  NULL = NULL
  IPs <- MCIPs
  Buckets <- MCBuckets
  Hash <- MCHash
  Cells <- MCCells
  Slots = 2
  T0 = 2
  MaxTime = 6
  MaxTouches = 3
  TimeUnit = 5
  Frequency = 20
  TouchHorizon = 60
  MaxSecond = 120
SPECIFICATION TimerSpec
INVARIANTS
  TimerTypeOK
  HeapIntegrity
PROPERTY
  SlotsExpire
CHECK_DEADLOCK FALSE

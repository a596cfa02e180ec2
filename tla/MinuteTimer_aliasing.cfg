CONSTANTS
  i1 = i1
  i2 = i2
  c1 = c1
  c2 = c2
  c3 = c3
  NULL = NULL
  IPs <- MCIPs
  Buckets <- MCBuckets
  Hash <- MCHash
  Cells <- MCCells
  Slots = 2
  T0 = 2
  MaxTime = 6
  MaxTouches = 3
  TimeUnit = 5
  Frequency = 30
  TouchHorizon = 90
  MaxSecond = 180
SPECIFICATION TimerSpec
PROPERTY
  SlotsExpire
CHECK_DEADLOCK FALSE

CONSTANTS
  i1 = i1
  i2 = i2
  c1 = c1
  c2 = c2
  c3 = c3
  NULL = NULL
  IPs <- MCIPs
  Buckets <- MCBuckets
  Hash <- MCHash
  Cells <- MCCells
  Slots = 2
  T0 = 2
  MaxTime = 5
  MaxTouches = 4
SPECIFICATION Spec
INVARIANTS
  TypeOK
  HeapIntegrity

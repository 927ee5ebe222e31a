SPECIFICATION EraseSpec
CONSTANTS
  t1 = t1
  t2 = t2
  k1 = k1
  k2 = k2
  k3 = k3
  k4 = k4
  Threads <- TwoTasks
  Keys <- FourKeys
  MayErase <- DisjointErases
  NoKey = NoKey
  Absent = Absent
  BucketSize = 2
  MaxBuckets = 2
  MaxOps = 2
  MaxPrefill = 4
  Kinds = {}
  MaxDepth = 2
  SizeRange = 16
INVARIANTS NothingHeld QuietList QuietSize OthersKeptAtFirst

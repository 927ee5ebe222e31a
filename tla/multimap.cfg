SPECIFICATION FairSpec
CONSTANTS
  Threads = {t1, t2}
  k1 = k1
  k2 = k2
  Keys = {k1, k2, k3}
  NoKey = NoKey
  Absent = Absent
  BucketSize = 2
  MaxBuckets = 2
  MaxOps = 1
  MaxPrefill = 2
  HasDeleter = 7
  Programs <- McPrograms
INVARIANTS EraseAlone BucketsPacked NumberKeysExact UniqueKeys
PROPERTIES Linearizable OperationsReturn

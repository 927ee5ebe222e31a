\* Two entries per bucket and three keys make an insertion find its key in front
\* of it, meet an insertion in progress, fill a bucket and grow the chain.
SPECIFICATION FairSpec
CONSTANTS
  Threads = {t1, t2}
  Keys = {k1, k2, k3}
  NoKey = NoKey
  Absent = Absent
  BucketSize = 2
  MaxBuckets = 2
  MaxOps = 1
  MaxPrefill = 2
  Kinds = {"Overwrite", "Update", "Lookup", "TryApply", "Apply"}
INVARIANTS UniqueKeys SizeExact OneOwner
PROPERTIES EntriesStay Linearizable OperationsReturn

SPECIFICATION Spec
CONSTANTS
  t1 = t1
  t2 = t2
  Tasks = {t1, t2}
  Keys = {0, 2, 5}
  NumLocalities = 3
  NumBuckets = 2
  BufferSize = 2
  Home <- McHome
  hash <- Identity
  Programs <- McPrograms
INVARIANTS Delivered SizeBetween TraversalExact LookupTrue
CHECK_DEADLOCK FALSE

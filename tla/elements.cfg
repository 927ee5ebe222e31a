SPECIFICATION Spec
CONSTANTS
  t1 = t1
  t2 = t2
  Tasks = {t1, t2}
  NumLocalities = 3
  MaxSize = 9
  MaxChunkSize = 1
  BlockSize = 2
  MaxElements = 2
  Owner = 0
  Home <- McHome
  Programs <- McPrograms
INVARIANTS Kept AnswersTrue InBounds
CHECK_DEADLOCK FALSE

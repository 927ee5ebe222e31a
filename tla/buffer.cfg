SPECIFICATION FairSpec
CONSTANTS
  t1 = t1
  t2 = t2
  Tasks <- TwoTasks
  Inserts <- SixAndFour
  Chunk = 2
  AsyncTasks <- FirstTask
  Flushers <- FirstTask
  Barrier = TRUE
  BufferSize = 4
  NoTask = NoTask
  Garbage = Garbage
INVARIANTS AllDelivered OnlyOnce NothingInvented
PROPERTIES EventuallyDelivered

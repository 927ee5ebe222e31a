SPECIFICATION Spec
CONSTANTS
  l1 = l1
  l2 = l2
  t1 = t1
  t2 = t2
  t3 = t3
  Localities <- TwoLocalities
  Tasks <- ThreeTasks
  Home <- Apart
  MaxOps = 2
  Null = Null
INVARIANTS OneUse FoundAtOwner

\* Up to three localities with up to three elements each: a first, an inner and a
\* last one, an empty one, ties within and between localities all occur.
SPECIFICATION Spec
CONSTANTS
  Values = {0, 1}
  MaxParts = 3
  MaxPart = 3
  MaxElements = 5
  MaxTasks = 3
INVARIANTS
  SearchesAgree
  ReductionsAgree
  ScansAgree
  WritesAgree
CHECK_DEADLOCK FALSE

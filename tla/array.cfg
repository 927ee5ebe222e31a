\* All arrays of up to seven elements over up to four localities, which has every
\* relation of the two: fewer elements, as many, a multiple, and any remainder.
SPECIFICATION Spec
CONSTANTS
  Sizes = {1, 2, 3, 4, 5, 6, 7}
  Counts = {1, 2, 3, 4}
  Callers = {0}
  MaxChunks = {1, 2}
INVARIANTS
  PositionExact
  OnePlace
  RangeCovered
CHECK_DEADLOCK FALSE

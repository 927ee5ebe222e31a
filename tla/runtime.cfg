SPECIFICATION Spec
CONSTANTS
  Tasks = {t1}
  MaxCalls = 2
  Calls <- McCalls
  NumNodes = 2
  Workers = 1
  OverSubscription = 2
INVARIANTS RunsOnce
PROPERTIES ImplementsCompletion

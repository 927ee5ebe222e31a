SPECIFICATION FairGateSpec
CONSTANTS
  Threads = {t1, t2, t3}
  HasDeleter = 7
PROPERTIES ImplementsLock SomeDeleterEnters

CONSTANTS
  Task = {t1, t2}
  NR_BUFFERS = 2
  NBlock = 3
  DevOf <- TwoDevices
  Calls <- EveryCall
  Faults = {"use"}
  Fails = {"READ"}
  None = None
SPECIFICATION Spec
SYMMETRY Symmetric
INVARIANTS CacheIsConsistent NothingLost SleeperIsWoken
PROPERTIES ImplementsBlockStore

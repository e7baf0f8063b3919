CONSTANTS
  NTask = 3
  NR_FILE = 3
  NR_OPEN = 2
  PAGE_SIZE = 4
  Byte = {0, 1}
  Text <- Texts
  Count = {1, 3}
  Casts <- Six
  TTY_BUF_SIZE = 4
  Few = 1
  Reserve = 1
  Startup = 1
  Keys <- Typed
  Modes <- Settings
SPECIFICATION TtySpec
VIEW Live
CONSTRAINT Bounds
CHECK_DEADLOCK FALSE
INVARIANTS DescriptorsAreExact SleepersMustWait  
PROPERTY ImplementsByteQueue

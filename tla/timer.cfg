CONSTANTS
  Fn = {f1, f2, f3}
  Delay = {0, 1, 2, 4}
  TIME_REQUESTS = 3
SPECIFICATION FairSpec
INVARIANTS TimersAreKept
PROPERTIES TimersRun

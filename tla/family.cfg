CONSTANTS
  NR_TASKS = 4
  MaxPid = 4
SPECIFICATION FairSpec
INVARIANTS PidsLeadToTasks NoMissedChild
PROPERTIES OrphansAreReapedIfRoom

CONSTANTS
  Task = {t1, t2, t3}
  Idle = Idle
  LockQueue = {iwait, bwait}
  InputQueue = {}
  IrqQueue = {bwait}
  CliQueue = {iwait, bwait}
  Signalled = {t1}
  Device = Device
  Null = Null
SPECIFICATION FairSpec
INVARIANTS NoOrphans NoLostWakeup SavedStillSleeps
PROPERTIES OnlyOwnQueueWakes ImplementsWaitSet SleepersWake

CONSTANTS
  NTask = 2
  InitPriority = 1
  MaxPriority = 2
  Increments <- OneUpOrDown
  Seconds <- CancelOrOne
  HZ = 1
  MaxLong = 7
SPECIFICATION SchedModerateSpec
INVARIANTS CounterBound
PROPERTIES IdleOnlyWhenNoneCanRun NoStarvationWithoutForks SignalsAreNoticed

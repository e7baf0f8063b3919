CONSTANTS
  Task = {t1, t2, t3}
  Idle = Idle
  LockQueue = {iwait}
  InputQueue = {tty}
  IrqQueue = {tty}
  CliQueue = {iwait, tty}
  Signalled = {t1, t2, t3}
  Device = Device
  Null = Null
SPECIFICATION Spec
SYMMETRY Symmetric
INVARIANTS NoNullWrite NoLockOrphans

CONSTANTS
  Task = {t1}
  t1 = t1
  t2 = t2
  NInode = 3
  Zone = {1, 2}
  PerBlock = 3
  NBlock = 2
  MaxBufs = 2
  Calls <- Directories
  Fails = {}
  Disks <- JustSmall
SPECIFICATION Spec
INVARIANTS NeverPanics

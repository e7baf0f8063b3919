CONSTANTS
  Task = {t1, t2}
  t1 = t1
  t2 = t2
  NInode = 3
  Zone = {1, 2, 3}
  PerBlock = 3
  NBlock = 2
  MaxBufs = 2
  Calls <- Both
  Fails = {"permission", "find", "add", "empty_dir", "mkdir"}
  Disks <- Three
SPECIFICATION Spec
VIEW Used
CHECK_DEADLOCK FALSE
INVARIANTS NothingIsKept NoNameDangles LinksAreNames

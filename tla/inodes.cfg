CONSTANTS
  Task = {t1, t2}
  Slot = {s1, s2, s3}
  Ino <- Inodes
  InUse <- Present
  Dirs <- Directories
  Zone = {3, 4}
  Block = {1}
  May <- Roles
  t1 = t1
  t2 = t2
  Races = {}
  None = None
  NR_SUPER = 2
SPECIFICATION MountSpec
SYMMETRY Similar
VIEW Live
CHECK_DEADLOCK FALSE
INVARIANTS TableIsExact NoChangeIsLost ZonesHaveOneOwner OnlyFullTablesPanic UsedInodesAreMounted

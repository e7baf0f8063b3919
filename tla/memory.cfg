CONSTANTS
  NTask = 3
  NFrame = 8
  Dir = {1, 2}
  Page <- TwoPages
  DirOf <- TablesOf
  Stack = 3
  File = {sh}
  Loaded <- TextOnly
  KernelWrites = {3}
  KernelPages = {3}
  Zero = Zero
  Kernel = Kernel
  Args = Args
  None = None
SPECIFICATION Spec
CHECK_DEADLOCK FALSE
INVARIANTS CountsAreUsers WritableIsPrivate
PROPERTIES ImplementsAddressSpaces
VIEW UpToFrames

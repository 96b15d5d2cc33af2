SPECIFICATION Spec
CONSTANTS
  Procs = {p1, p2, p3}
  Inodes = {1, 2, 3}
  None = None
  Modes <- CodeModes
CHECK_DEADLOCK FALSE
INVARIANTS
  LockFileInv
PROPERTIES
  ImplementsLock
  SomebodyGetsIt

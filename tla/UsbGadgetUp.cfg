SPECIFICATION Spec
CONSTANTS
  MaxRuns = 3
  StartLimit = 3
  DaemonMayDie = TRUE
INVARIANTS GadgetInv
PROPERTIES KeepsInterfaces DeviceComesUp

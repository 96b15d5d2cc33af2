SPECIFICATION Spec
CONSTANTS
  Clients = {1, 2}
  Commands = {"find", "build"}
  None = None
  MaxCommands = 2
  MaxStops = 1
  HandlersFail = TRUE
CHECK_DEADLOCK FALSE
INVARIANTS
  CommandInv
PROPERTIES
  OneEndEach
  ClientsApart
  ForceKept
  NobodyHangs

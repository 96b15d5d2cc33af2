\* Two users, two servers, two of which stop; one kill, failed start or overlong wait.
CONSTANTS
  Clients = {c1, c2}
  Servers = {s1, s2}
  None = none
  Retries = 8
  MaxQuits = 2
  MaxFaults = 1
SPECIFICATION FairSpec
CHECK_DEADLOCK FALSE
INVARIANTS
  ServerInv
  
PROPERTIES
  EventuallyConnected

SPECIFICATION LiveSpec
CONSTANTS
  MayHangUp = TRUE
  MaxRequests = 4
INVARIANTS ToggleNeedsRequest
PROPERTIES RequestsAnswered QuitStops

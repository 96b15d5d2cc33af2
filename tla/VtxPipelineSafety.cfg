\* Safety with as many buffers as the ring has slots.
SPECIFICATION Spec
CONSTANTS
  NumBuffers = 3
  FifoSize = 3
  SplitOutput = FALSE
  WriteMayBlock = TRUE
INVARIANTS RingIInv ReturnsFinishedBuffer NoUseAfterRelease
PROPERTIES SessionsApart

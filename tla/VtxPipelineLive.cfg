SPECIFICATION LiveHostSpec
CONSTANTS
  NumBuffers = 2
  FifoSize = 2
  SplitOutput = TRUE
  WriteMayBlock = TRUE
PROPERTIES ImplementsPool MainGetsOn BufferReturns

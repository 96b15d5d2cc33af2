\* Packets of 3 bytes and a buffer of 10; the lengths are below, at and above a
\* multiple of the packet size with and without a header, and too long.
SPECIFICATION Spec
CONSTANTS
  PacketSize = 3
  BufSize = 10
  HdrLen = 1
  SliceLens = {2, 3, 6, 8}
  HeaderPeriod = 2
  Gop = 20
  HostFaults = TRUE
  MaxFrames = 4
  MaxStops = 1
INVARIANTS StreamInv FrameEndsTransfer NothingSentTwice

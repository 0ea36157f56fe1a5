\* Both directions, with a clock that wraps within a silence, a loop that may stall
\* as long as the timeout, more packets than the queues hold, and writes of nothing, a
\* byte, or a whole packet and more; the host takes a byte again and again.
SPECIFICATION MCHostSpec
CONSTANTS
  ByteMod = 4
  Preamble = 3
  MinimumMessageLength = 1
  MaximumPacketSize = 6
  GetVersion = 2
  MsMod = 5
  InterByteTimeout = 2
  AuxTxCapacity = 2
  HostTxCapacity = 2
  HostBursts <- MCBursts
  AuxFrames <- MCFrames
  MaxReadBytes = 2
  ServiceGap = 2
  Writes = {0, 1, 5}
  MaxBursts = 2
  MaxAuxFrames = 4
INVARIANTS HostFramesDecoded BrokenFrameForgotten HostPacketsAccounted DeliveredInOrder
PROPERTIES EverythingDelivered

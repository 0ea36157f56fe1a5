\* A packet much longer on the wire than the drain timeout, then another.
SPECIFICATION BridgeSpec
CONSTANTS
  ByteMod = 16
  Preamble = 3
  MinimumMessageLength = 1
  MaximumPacketSize = 16
  GetVersion = 2
  Packets <- LongerAndShort
  ClockMod = 40
  ClaimDelay = 1
  BusWaitTimeout = 2
  UartDrainTimeout = 3
  EchoTimeout = 4
  ResponseTimeout = 4
  TransactionTimeout = 14
  BackoffTime = 1
  MaximumAttempts = 3
  MaxElapse = 1
  MaxStarts = 0
  MaxRecoveries = 0
  MsMod = 40
  Baud = 1000
  BitsPerCharacter = 1
  DeadlineMargin = 4
  InterByteTimeout = 4
  AuxTxCapacity = 2
  HostTxCapacity = 2
  HostPackets <- LongerAndShort
  MountFrames <- OneMountFrame
  NoiseBytes = {0, 3}
  RecoveryBackoff = 1
  MaxRound = 2
  MountRaces = FALSE
  ShortWrites = FALSE
  MaxHostPackets = 2
  MaxMountFrames = 0
  MaxNoise = 0
INVARIANTS OnlyOwnBytesDriven

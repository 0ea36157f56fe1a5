\* A bus with a glitch, and a packet too long for the drain timeout: echoes that
\* are broken, late, or completed by the glitch.
SPECIFICATION BridgeSpec
CONSTANTS
  ByteMod = 4
  Preamble = 3
  MinimumMessageLength = 1
  MaximumPacketSize = 6
  GetVersion = 2
  Packets <- LongAndShort
  ClockMod = 20
  ClaimDelay = 1
  BusWaitTimeout = 2
  UartDrainTimeout = 5
  EchoTimeout = 4
  ResponseTimeout = 4
  TransactionTimeout = 14
  BackoffTime = 1
  MaximumAttempts = 3
  MaxElapse = 1
  MaxStarts = 0
  MaxRecoveries = 0
  MsMod = 20
  Baud = 1000
  BitsPerCharacter = 1
  DeadlineMargin = 4
  InterByteTimeout = 4
  AuxTxCapacity = 1
  HostTxCapacity = 2
  HostPackets <- LongAndShort
  MountFrames <- OneMountFrame
  NoiseBytes = {1}
  RecoveryBackoff = 2
  MaxRound = 2
  MountRaces = FALSE
  ShortWrites = FALSE
  MaxHostPackets = 2
  MaxMountFrames = 0
  MaxNoise = 1
INVARIANTS EchoFlagFresh CompletionsAreMatched NothingLost
PROPERTIES RecoveryHoldsOff

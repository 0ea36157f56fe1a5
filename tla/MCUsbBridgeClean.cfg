\* A clean bus: three frames of the mount at any time it may, one packet of ours that
\* takes the whole drain timeout and gives up at the first contention, queues of one
\* packet and a host as slow as it likes: recoveries in the middle of a frame, and
\* frames for which there is no room.
SPECIFICATION BridgeSpec
CONSTANTS
  ByteMod = 4
  Preamble = 3
  MinimumMessageLength = 1
  MaximumPacketSize = 6
  GetVersion = 2
  Packets <- OneHostPacket
  ClockMod = 32
  ClaimDelay = 1
  BusWaitTimeout = 1
  UartDrainTimeout = 4
  EchoTimeout = 4
  ResponseTimeout = 4
  TransactionTimeout = 14
  BackoffTime = 1
  MaximumAttempts = 1
  MaxElapse = 1
  MaxStarts = 0
  MaxRecoveries = 0
  MsMod = 32
  Baud = 1000
  BitsPerCharacter = 1
  DeadlineMargin = 4
  InterByteTimeout = 3
  AuxTxCapacity = 1
  HostTxCapacity = 1
  HostPackets <- OneHostPacket
  MountFrames <- TwoMountFrames
  NoiseBytes = {0, 3}
  RecoveryBackoff = 1
  MaxRound = 2
  MountRaces = FALSE
  ShortWrites = FALSE
  MaxHostPackets = 1
  MaxMountFrames = 3
  MaxNoise = 0
INVARIANTS CleanBusCompletes NoSelfEcho MountHeard

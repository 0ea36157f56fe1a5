\* A mount that races us for the bus, whose bytes and ours collide into anything.
SPECIFICATION FairBridgeSpec
CONSTANTS
  ByteMod = 4
  Preamble = 3
  MinimumMessageLength = 1
  MaximumPacketSize = 6
  GetVersion = 2
  Packets <- OneHostPacket
  ClockMod = 20
  ClaimDelay = 1
  BusWaitTimeout = 2
  UartDrainTimeout = 7
  EchoTimeout = 4
  ResponseTimeout = 4
  TransactionTimeout = 14
  BackoffTime = 1
  MaximumAttempts = 2
  MaxElapse = 1
  MaxStarts = 0
  MaxRecoveries = 0
  MsMod = 20
  Baud = 1000
  BitsPerCharacter = 1
  DeadlineMargin = 4
  InterByteTimeout = 4
  AuxTxCapacity = 2
  HostTxCapacity = 2
  HostPackets <- OneHostPacket
  MountFrames <- OneMountFrame
  NoiseBytes = {0, 3}
  RecoveryBackoff = 2
  MaxRound = 2
  MountRaces = TRUE
  ShortWrites = TRUE
  MaxHostPackets = 1
  MaxMountFrames = 1
  MaxNoise = 0
INVARIANTS OnlyRacesCollide
PROPERTIES AlwaysReadyAgain

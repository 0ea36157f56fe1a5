\* Two queries, a recovery, a mount that answers whenever it likes or not at all.
SPECIFICATION MCTestSpec
CONSTANTS
  ByteMod = 8
  Preamble = 7
  MinimumMessageLength = 3
  MaximumPacketSize = 8
  GetVersion = 6
  Packets <- MCQueries
  ClockMod = 22
  ClaimDelay = 1
  BusWaitTimeout = 2
  UartDrainTimeout = 8
  EchoTimeout = 4
  ResponseTimeout = 10
  TransactionTimeout = 12
  BackoffTime = 1
  MaximumAttempts = 2
  MaxElapse = 1
  MaxStarts = 2
  MaxRecoveries = 1
  NoiseBytes = {0}
  MaxRound = 1
  MountRaces = FALSE
  ShortWrites = FALSE
  MaxNoise = 0
  MsMod = 22
  Baud = 1000
  BitsPerCharacter = 1
  DeadlineMargin = 3
  InterByteTimeout = 3
  Destinations <- MCDestinations
INVARIANTS QueryTracksTransmitter AnswerReadSinceArmed
  EchoIsOfThisQuery NoAnswerLost CleanBusEchoes

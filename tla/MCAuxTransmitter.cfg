\* Two starts, one recovery, every order of calls; a stall of two ticks between calls
\* of tick(), timeouts around it, and a clock that wraps within a transaction.
SPECIFICATION TimedSpec
CONSTANTS
  ByteMod = 256
  Preamble = 59
  MinimumMessageLength = 3
  MaximumPacketSize = 258
  GetVersion = 254
  Packets <- MCPackets
  ClockMod = 6
  ClaimDelay = 1
  BusWaitTimeout = 2
  UartDrainTimeout = 2
  EchoTimeout = 2
  ResponseTimeout = 2
  TransactionTimeout = 3
  BackoffTime = 1
  MaximumAttempts = 2
  MaxElapse = 1
  MaxStarts = 2
  MaxRecoveries = 1
  MaxStall = 2
INVARIANTS TypeOK OutputsFollowState OnlyVettedPackets ResponseFlagFresh Ledger
  BusyHoldBounded ResolvedInTime
PROPERTIES BusyHoldRecorded ImplementsTransaction

\* A byte takes half a millisecond; the longest packet fills the forward buffer.
SPECIFICATION TrackerSpec
CONSTANTS
  ByteMod = 2
  Preamble = 1
  MinimumMessageLength = 1
  MaximumPacketSize = 3
  GetVersion = 0
  EchoPackets <- MCPackets
  MsMod = 12
  Baud = 2000
  BitsPerCharacter = 1
  DeadlineMargin = 1
  MaxPollGap = 2
  MaxHeard = 5
  MaxBegins = 2
INVARIANTS BytesConserved TrackingBounded
PROPERTIES MatchIsTheEcho

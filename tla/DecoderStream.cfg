\* Four byte values: 3 is the preamble and also a length, a frame takes four to
\* six bytes, so garbage, two frames back to back and a preamble inside a frame
\* all occur within a burst of eight.
SPECIFICATION DecoderSpec
CONSTANTS
  ByteMod = 4
  Preamble = 3
  MinimumMessageLength = 1
  MaximumPacketSize = 6
  GetVersion = 2
  MsMod = 4
  InterByteTimeout = 1
  MaxBurst = 8
INVARIANTS BufferIsFrameBegun DecodedIsHeard FramesAfterSilenceDecoded

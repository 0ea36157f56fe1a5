------------------------------ MODULE DecoderStream ------------------------------
(***************************************************************************)
(* One AuxStreamDecoder and every stream of bytes: every byte at every     *)
(* spacing, across wraps of the clock, with the bytes heard since the last *)
(* silence and the frames decoded from them remembered.                    *)
(***************************************************************************)
EXTENDS AuxStreamDecoder, SequencesExt

CONSTANT MaxBurst   \* bound: the longest run of bytes without a silence

\* Every length a frame can have fits the buffer: 255 + 3 = kAuxMaximumPacketSize.
ASSUME StreamAssumption == MaxBurst \in Nat /\ ByteMod + 2 <= MaximumPacketSize

VARIABLES decoder, now_ms,
          last_result,  \* what the last call of feed() returned
          last_packet,  \* and its packet, EmptyPacket if it returned none
          silence_ms,   \* history: the true time since the last byte
          burst,        \* history: the bytes heard since the last silence
          decoded       \* history: the frames decoded from them

decoderVars == <<decoder, now_ms, last_result, last_packet, silence_ms, burst,
                 decoded>>

DecoderInit ==
  /\ decoder = InitDecoder /\ now_ms = 0
  /\ last_result = "kNone" /\ last_packet = EmptyPacket
  /\ silence_ms = 0 /\ burst = <<>> /\ decoded = <<>>

Hear(byte) ==
  LET o     == Feed(decoder, byte, now_ms, "kAuxBus")
      fresh == silence_ms > InterByteTimeout
  IN  /\ fresh \/ Len(burst) < MaxBurst
      /\ decoder' = o.decoder
      /\ last_result' = o.result /\ last_packet' = o.packet
      /\ silence_ms' = 0
      /\ burst' = Append(IF fresh THEN <<>> ELSE burst, byte)
      /\ decoded' = (IF fresh THEN <<>> ELSE decoded)
                    \o (IF o.result = "kPacket" THEN <<o.packet.bytes>> ELSE <<>>)
      /\ UNCHANGED now_ms

ExpireIdle ==
  /\ decoder' = Expire(decoder, now_ms)
  /\ UNCHANGED <<now_ms, last_result, last_packet, silence_ms, burst, decoded>>

\* The clock is not followed beyond the point where ages would repeat.
Pass ==
  /\ silence_ms < MsMod - 1
  /\ now_ms' = (now_ms + 1) % MsMod
  /\ silence_ms' = silence_ms + 1
  /\ UNCHANGED <<decoder, last_result, last_packet, burst, decoded>>

DecoderNext == (\E byte \in Byte : Hear(byte)) \/ ExpireIdle \/ Pass

DecoderSpec == DecoderInit /\ [][DecoderNext]_decoderVars

----------------------------------------------------------------------------
(* What must be true of it *)

\* The buffer is always the beginning of a frame that can still be completed,
\* and what was last heard: the two overflow checks of feed() never fire.
BufferIsFrameBegun ==
  LET b == decoder.buffer
  IN  /\ IsSuffix(b, burst)
      /\ b # <<>> => b[1] = Preamble
      /\ Len(b) >= 2 => /\ b[2] >= MinimumMessageLength
                        /\ Len(b) < ExpectedSize(b)
                        /\ ExpectedSize(b) <= MaximumPacketSize

\* A decoded packet is bytes that were heard next to each other, no silence
\* between them, ending with the last byte, with a good checksum.
DecodedIsHeard ==
  last_result = "kPacket" => /\ HasValidAuxChecksum(last_packet)
                             /\ IsSuffix(last_packet.bytes, burst)

\* The decoder resynchronises at every silence: whatever garbage or half
\* frame came before it, the frames that follow are all decoded, each whole
\* and in order.
FramesAfterSilenceDecoded ==
  IsFrames(burst) => FlattenSeq(decoded) = burst
================================================================================

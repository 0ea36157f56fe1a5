---------------------------- MODULE AuxStreamDecoder ----------------------------
(***************************************************************************)
(* class AuxStreamDecoder of include/aux_protocol.hpp: the incremental     *)
(* frame parser.  A decoder is a record of the bytes of the frame begun so *)
(* far (buffer_ up to size_; expected_size_ follows from its second byte)  *)
(* and the time of its last byte; its methods are operators, so that the   *)
(* components that own a decoder can apply them inside their own steps.    *)
(***************************************************************************)
EXTENDS AuxProtocol, Millis

CONSTANT InterByteTimeout  \* inter_byte_timeout_ms_

ASSUME DecoderAssumption == InterByteTimeout \in 0..(MsMod - 2)

Decoder == [buffer : Seq(Byte), last_byte_ms : Ms]

InitDecoder == [buffer |-> <<>>, last_byte_ms |-> 0]

ExpectedSize(buffer) == buffer[2] + 3

Reset(d) == [d EXCEPT !.buffer = <<>>]

\* Mutant: a gap of exactly the timeout already ends the frame.
Expired_TooSoon(d, now) ==
  d.buffer # <<>> /\ ElapsedMs(now, d.last_byte_ms) >= InterByteTimeout

\* Mutant: what a broken-off frame has left stays before whatever comes next.
Expired_Never(d, now) == FALSE

Expired(d, now) ==
  d.buffer # <<>> /\ ElapsedMs(now, d.last_byte_ms) > InterByteTimeout

Expire(d, now) == IF Expired(d, now) THEN Reset(d) ELSE d

\* What feed() returns, with the decoder it leaves.
Outcome(buffer, now, result, packet) ==
  [decoder |-> [buffer |-> buffer, last_byte_ms |-> now],
   result  |-> result,
   packet  |-> packet]

\* A rejected last byte that is a preamble may begin the next frame.
RestartBuffer(byte) == IF byte = Preamble THEN <<byte>> ELSE <<>>

\* Mutant: a rejected frame leaves its bytes in the buffer.
FinishFrame_KeepRejected(frame, byte, now, origin) ==
  LET candidate == [bytes |-> frame, origin |-> origin]
  IN  IF HasValidAuxChecksum(candidate)
        THEN Outcome(<<>>, now, "kPacket", candidate)
        ELSE Outcome(frame, now, "kRejected", EmptyPacket)

\* Mutant: the checksum is not looked at.
FinishFrame_NoChecksum(frame, byte, now, origin) ==
  Outcome(<<>>, now, "kPacket", [bytes |-> frame, origin |-> origin])

\* The byte that completes a frame.
FinishFrame(frame, byte, now, origin) ==
  LET candidate == [bytes |-> frame, origin |-> origin]
  IN  IF HasValidAuxChecksum(candidate)
        THEN Outcome(<<>>, now, "kPacket", candidate)
        ELSE Outcome(RestartBuffer(byte), now, "kRejected", EmptyPacket)

Feed(d, byte, now, origin) ==
  LET buffer == Expire(d, now).buffer
      grown  == Append(buffer, byte)
      Wait(b)   == Outcome(b, now, "kNone", EmptyPacket)
      Reject    == Outcome(<<>>, now, "kRejected", EmptyPacket)
  IN  CASE buffer = <<>> -> Wait(RestartBuffer(byte))
        [] Len(buffer) = 1 ->
             IF byte < MinimumMessageLength \/ byte + 3 > MaximumPacketSize
               THEN Reject ELSE Wait(grown)
        [] Len(buffer) >= 2 ->
             IF Len(buffer) >= MaximumPacketSize \/ Len(buffer) >= ExpectedSize(buffer)
               THEN Reject
             ELSE IF Len(grown) # ExpectedSize(grown) THEN Wait(grown)
             ELSE FinishFrame(grown, byte, now, origin)

----------------------------------------------------------------------------
(* What a sender that keeps to the protocol sends *)

IsFrame(bytes) == HasValidAuxChecksum([bytes |-> bytes, origin |-> "kAuxBus"])

\* `bytes` is one frame or two frames back to back.
IsFrames(bytes) ==
  \E i \in 1..Len(bytes) :
    /\ IsFrame(SubSeq(bytes, 1, i))
    /\ i = Len(bytes) \/ IsFrame(SubSeq(bytes, i + 1, Len(bytes)))
================================================================================

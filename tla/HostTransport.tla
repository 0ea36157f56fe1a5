------------------------------ MODULE HostTransport ------------------------------
(***************************************************************************)
(* class HostTransport of include/host_transport.hpp with its router: the  *)
(* host's byte stream in, through a decoder, to the AUX queue, and packets *)
(* heard on the AUX bus out of the host queue to the stream, which takes   *)
(* as much of each write as it likes.  The AUX side of the bridge calls    *)
(* takeForAux and routeFromAux between two calls of service.               *)
(* Left out: write_backpressure, which nothing reads.                      *)
(***************************************************************************)
EXTENDS AuxStreamDecoder, PacketRouter, SequencesExt

CONSTANTS HostBursts,     \* what the host may send without a pause
          AuxFrames,      \* the packets the AUX side routes to the host
          MaxReadBytes,   \* max_read_bytes of service
          ServiceGap,     \* the longest time between two calls of service
          Writes,         \* what a write to the host may report
          MaxBursts,      \* bound: how many bursts the host sends
          MaxAuxFrames    \* bound: how many packets the AUX side routes

\* The clock outlasts a silence and the loop's delay together, and every length
\* byte leaves a frame that fits the buffer.
ASSUME TransportAssumption ==
  /\ HostBursts \subseteq Seq(Byte)
  /\ AuxFrames \subseteq AuxPacket
  /\ {MaxReadBytes, ServiceGap} \subseteq Nat \ {0}
  /\ InterByteTimeout # 0 /\ InterByteTimeout + ServiceGap < MsMod
  /\ ByteMod + 2 <= MaximumPacketSize
  /\ Writes \subseteq Nat /\ {MaxBursts, MaxAuxFrames} \subseteq Nat

VARIABLES now_ms,
          decoder,          \* decoder_
          router,           \* router_
          output, output_offset, output_active,
          metrics,          \* metrics_
          incoming,         \* the bytes the stream has available
          \* the environment, and what it sent and got:
          sending,          \* the rest of the burst the host is sending
          bursts, burst,    \* how many bursts it has begun, and the last
          unserviced_ms,    \* time since the last call of service
          quiet_ms,         \* time since a byte was last sent or read
          unsent_ms,        \* 1 if a millisecond passed since the last byte sent
          intact,           \* the burst began after a silence, and nobody paused in it
          decoded,          \* the frames decoded since that burst began
          taken,            \* how many frames the AUX side took
          accepted,         \* the bytes of the packets queued for the host
          aux_frames,       \* how many were routed to it
          delivered         \* the bytes the host got

inputVars  == <<decoder, incoming, sending, bursts, burst, quiet_ms, unsent_ms,
                intact, decoded>>
outputVars == <<output, output_offset, output_active, accepted, aux_frames, delivered>>
hostVars   == <<now_ms, router, metrics, unserviced_ms, taken, inputVars, outputVars>>

Counters == {"received_bytes", "decoded_packets", "malformed_packets",
             "inter_byte_timeouts", "rejected_packets", "transmitted_bytes"}

HostInit ==
  /\ now_ms = 0
  /\ decoder = InitDecoder /\ router = InitRouter
  /\ output = EmptyPacket /\ output_offset = 0 /\ output_active = FALSE
  /\ metrics = [c \in Counters |-> 0]
  /\ incoming = <<>> /\ sending = <<>> /\ bursts = 0 /\ burst = <<>>
  /\ unserviced_ms = 0 /\ quiet_ms = 0 /\ unsent_ms = 0 /\ intact = FALSE
  /\ decoded = <<>> /\ taken = 0
  /\ accepted = <<>> /\ aux_frames = 0 /\ delivered = <<>>

----------------------------------------------------------------------------
(* service(): expire, read at most MaxReadBytes, then one write *)

Bump(m, names) == [c \in Counters |-> IF c \in names THEN m[c] + 1 ELSE m[c]]

\* The input side as a value that reading a byte transforms.
Input == [decoder |-> decoder, router |-> router, metrics |-> metrics,
          decoded |-> decoded]

\* Mutant: the idle decoder is left to expire at the next byte.
Expiry_AtNextByte == Input

Expiry ==
  [Input EXCEPT
     !.decoder = Expire(decoder, now_ms),
     !.metrics = Bump(metrics, IF Expired(decoder, now_ms)
                                 THEN {"inter_byte_timeouts"} ELSE {})]

\* Mutant: a packet the full queue refuses is not counted as rejected.
RouteDecoded_Unchecked(in, p) ==
  [in EXCEPT
     !.router  = RouteFromHost(in.router, p).router,
     !.metrics = Bump(in.metrics, {"decoded_packets"}),
     !.decoded = Append(@, p.bytes)]

RouteDecoded(in, p) ==
  LET route == RouteFromHost(in.router, p)
  IN  [in EXCEPT
         !.router  = route.router,
         !.metrics = Bump(in.metrics, {"decoded_packets"} \cup
                            IF route.queued THEN {} ELSE {"rejected_packets"}),
         !.decoded = Append(@, p.bytes)]

ReadByte(in, byte) ==
  LET o    == Feed(in.decoder, byte, now_ms, "kHost")
      heard == [in EXCEPT !.decoder = o.decoder,
                          !.metrics = Bump(@, {"received_bytes"})]
  IN  CASE o.result = "kNone"     -> heard
        [] o.result = "kRejected" ->
             [heard EXCEPT !.metrics = Bump(@, {"malformed_packets"})]
        [] o.result = "kPacket"   -> RouteDecoded(heard, o.packet)

\* The bytes of one call, one after the other.
ReadAll(start, bytes) ==
  LET after[i \in 0..Len(bytes)] ==
        IF i = 0 THEN start ELSE ReadByte(after[i - 1], bytes[i])
  IN  after[Len(bytes)]

\* The transport's turn to write: the packet under way, or the next one.
Pending(r) ==
  IF output_active THEN [packet |-> output, offset |-> output_offset, router |-> r]
  ELSE [packet |-> Head(r.host_tx), offset |-> 0, router |-> TakeForHost(r)]

\* Mutant: a write the stream took in part is repeated from the beginning.
WroteUpTo_Restart(offset, written, size) ==
  IF written >= size - offset THEN size ELSE 0

\* The offset after a write of everything from `offset` on.
WroteUpTo(offset, written, size) ==
  IF written > size - offset THEN size ELSE offset + written

\* Mutant: the transport only looks for the end of a packet it wrote whole.
Finished_WholeWrite(offset, p) == offset = Size(p) /\ output_offset = 0

Finished(offset, p) == offset = Size(p)

\* drainHostOutput(): `written` is what the stream says it took.
DrainHostOutput(r, m, written) ==
  \/ /\ ~output_active /\ r.host_tx = <<>>
     /\ router' = r /\ metrics' = m
     /\ UNCHANGED <<output, output_offset, output_active, delivered>>
  \/ /\ output_active \/ r.host_tx # <<>>
     /\ LET turn == Pending(r)
            last == WroteUpTo(turn.offset, written, Size(turn.packet))
        IN  /\ output' = turn.packet
            /\ output_offset' = last
            /\ output_active' = ~Finished(last, turn.packet)
            /\ router' = turn.router
            /\ metrics' = [m EXCEPT !["transmitted_bytes"] = @ + last - turn.offset]
            /\ delivered' =
                 delivered \o SubSeq(turn.packet.bytes, turn.offset + 1,
                                     Min({turn.offset + written, Size(turn.packet)}))

\* read() does not fail on an available byte.
Service(written) ==
  LET reads == Min({MaxReadBytes, Len(incoming)})
      in    == ReadAll(Expiry, SubSeq(incoming, 1, reads))
  IN  /\ decoder' = in.decoder
      /\ decoded' = in.decoded
      /\ incoming' = SubSeq(incoming, reads + 1, Len(incoming))
      /\ quiet_ms' = IF reads > 0 THEN 0 ELSE quiet_ms
      /\ unserviced_ms' = 0
      /\ DrainHostOutput(in.router, in.metrics, written)
      /\ UNCHANGED <<now_ms, sending, bursts, burst, unsent_ms, intact, taken, accepted,
                     aux_frames>>

----------------------------------------------------------------------------
(* The two ends, and time *)

\* The host begins a burst, at once or after a silence; a burst that stops in
\* the middle of a frame is a host that disconnected.
BeginBurst(b) ==
  /\ sending = <<>> /\ bursts < MaxBursts
  /\ sending' = b /\ burst' = b
  /\ bursts' = bursts + 1
  /\ intact' = (incoming = <<>> /\ quiet_ms > InterByteTimeout)
  /\ decoded' = <<>>
  /\ UNCHANGED <<now_ms, router, metrics, unserviced_ms, taken, decoder, incoming,
                 quiet_ms, unsent_ms, outputVars>>

SendByte ==
  /\ sending # <<>>
  /\ incoming' = Append(incoming, Head(sending))
  /\ sending' = Tail(sending)
  /\ quiet_ms' = 0 /\ unsent_ms' = 0
  /\ UNCHANGED <<now_ms, router, metrics, unserviced_ms, taken, decoder, bursts,
                 burst, intact, decoded, outputVars>>

\* The AUX side takes a packet to send, or routes one it heard.
AuxTakes ==
  /\ router.aux_tx # <<>>
  /\ router' = TakeForAux(router)
  /\ taken' = taken + 1
  /\ UNCHANGED <<now_ms, metrics, unserviced_ms, inputVars, outputVars>>

AuxRoutes(p) ==
  LET route == RouteFromAux(router, p)
  IN  /\ aux_frames < MaxAuxFrames
      /\ aux_frames' = aux_frames + 1
      /\ router' = route.router
      /\ accepted' = IF route.queued THEN accepted \o p.bytes ELSE accepted
      /\ UNCHANGED <<now_ms, metrics, unserviced_ms, taken, inputVars, output,
                     output_offset, output_active, delivered>>

\* Silences are not told apart beyond the one that every service notices.
LongSilence == InterByteTimeout + ServiceGap + 1

\* Inside a burst the bytes are at most a millisecond apart; a loop that leaves a
\* begun frame alone as long as the timeout may take its own delay for a silence.
PassMs ==
  /\ unserviced_ms < ServiceGap
  /\ (sending # <<>> /\ sending # burst) => unsent_ms = 0
  /\ now_ms' = (now_ms + 1) % MsMod
  /\ unserviced_ms' = unserviced_ms + 1
  /\ quiet_ms' = Min({quiet_ms + 1, LongSilence})
  /\ unsent_ms' = 1
  /\ intact' = (intact /\ (decoder.buffer # <<>> => unserviced_ms' < InterByteTimeout))
  /\ UNCHANGED <<router, metrics, taken, decoder, incoming, sending, bursts, burst,
                 decoded, outputVars>>

HostNext ==
  \/ \E written \in Writes : Service(written)
  \/ \E b \in HostBursts : BeginBurst(b)
  \/ SendByte
  \/ AuxTakes
  \/ \E p \in AuxFrames : AuxRoutes(p)
  \/ PassMs

HostSpec == HostInit /\ [][HostNext]_hostVars

\* The loop calls service again and again, and the host keeps taking bytes.
HostFairness ==
  []<><<\E written \in Writes \ {0} : Service(written)>>_hostVars

FairHostSpec == HostSpec /\ HostFairness

----------------------------------------------------------------------------
(* What must be true of it *)

\* Frames the host sends after a silence all arrive, whole and in order, however
\* the reads cut them up and however late service is called, but for a delay as long
\* as the timeout in the middle of a frame; such a delay costs no later burst.
HostFramesDecoded ==
  (intact /\ sending = <<>> /\ incoming = <<>> /\ IsFrames(burst))
    => FlattenSeq(decoded) = burst

\* A frame the host broke off is forgotten after the timeout even if nothing
\* more comes, so it cannot swallow the beginning of the next one.
BrokenFrameForgotten ==
  decoder.buffer # <<>> => quiet_ms <= InterByteTimeout + unserviced_ms

\* Every frame the host sent is accounted for: waiting for the AUX side, taken
\* by it, or counted as rejected because the queue was full, never because the
\* router judged differently from the decoder.
HostPacketsAccounted ==
  /\ metrics["decoded_packets"] = taken + Len(router.aux_tx) + metrics["rejected_packets"]
  /\ metrics["rejected_packets"] = router.aux_overflows
  /\ router.invalid_host_packets = 0

Rest == IF output_active
          THEN SubSeq(output.bytes, output_offset + 1, Size(output)) ELSE <<>>
Waiting == FlattenSeq([i \in 1..Len(router.host_tx) |-> router.host_tx[i].bytes])

\* The host gets the queued packets byte for byte, whole and in order, however
\* little the stream takes at a time: nothing repeated, skipped or interleaved.
DeliveredInOrder ==
  /\ delivered \o Rest \o Waiting = accepted
  /\ metrics["transmitted_bytes"] = Len(delivered)

\* Every queued packet reaches the host in the end.
EverythingDelivered == []<>(delivered = accepted)
================================================================================

-------------------------------- MODULE UsbBridge --------------------------------
(***************************************************************************)
(* ServiceUsbBridge of src/main.cpp: the loop that composes the router's   *)
(* queues, the transmitter, the echo tracker and the AUX decoder, on the   *)
(* AuxBus.  One round of the loop is the phases host, track, drain, start, *)
(* tick, recover, after; the bus moves and time passes between any two of  *)
(* them (recover uses the time tick has read).                             *)
(* Of the host's side only its effect on the two queues is here: it sends  *)
(* valid packets, and takes one at a time, in as many calls as it likes    *)
(* (HostTransport has the bytes).                                          *)
(***************************************************************************)
EXTENDS AuxBus, EchoTracker, AuxStreamDecoder, PacketRouter

CONSTANTS HostPackets,       \* the packets the host sends
          MountFrames,       \* the packets the mount sends
          RecoveryBackoff,   \* kBridgeRecoveryBackoffUs
          MaxHostPackets, MaxMountFrames   \* bounds: how many of each

ASSUME BridgeAssumption ==
  /\ MsMod = ClockMod
  /\ HostPackets \subseteq {p \in Packets : p.origin = "kHost" /\ HasValidAuxChecksum(p)}
  /\ MountFrames \subseteq AuxPacket
  /\ RecoveryBackoff \in 0..(ClockMod - 1)
  /\ {MaxHostPackets, MaxMountFrames} \subseteq Nat

VARIABLES pc,                           \* the phase of the round
          router,                       \* packet_router
          output_active,                \* output_active_ of host_transport
          tracker,                      \* bridge_echo_tracker
          aux_decoder,                  \* bridge_aux_decoder
          echo_tracking,                \* bridge_echo_tracking
          echo_matches_at_start,        \* bridge_echo_matches_at_start
          active_packet,                \* bridge_active_packet
          recovery_pending,             \* bridge_recovery_pending
          fault_started_us,             \* bridge_fault_started_us
          \* history:
          host_packets,                 \* how many packets the host sent
          delivered,                    \* the packets taken to be written to the host
          mount_begun,                  \* how many frames the mount has begun
          mount_frames,                 \* the frames that are due to the host
          raced,                        \* the mount's last frame began in our claim
          deaf_us,                      \* the silence still to come until the decoder
                                        \* is in step again after a reset in a frame
          refused                       \* the packets for the host that were refused
                                        \* up to the last such silence

service == <<router, output_active, tracker, aux_decoder, echo_tracking,
             echo_matches_at_start, active_packet, recovery_pending, fault_started_us>>
dues    == <<mount_frames, deaf_us, refused>>
history == <<host_packets, delivered, mount_begun, raced, dues>>
bridgeVars == <<vars, bus, pc, service, history>>

BridgeInit ==
  /\ BusInit
  /\ pc = "host"
  /\ router = InitRouter /\ output_active = FALSE
  /\ tracker = InitTracker /\ aux_decoder = InitDecoder
  /\ echo_tracking = FALSE /\ echo_matches_at_start = 0
  /\ active_packet = EmptyPacket
  /\ recovery_pending = FALSE /\ fault_started_us = 0
  /\ host_packets = 0 /\ delivered = <<>>
  /\ mount_begun = 0 /\ mount_frames = <<>> /\ raced = FALSE
  /\ deaf_us = 0 /\ refused = 0

\* millis(), in the same units.
Now == now_us

----------------------------------------------------------------------------
(* The host's turns: host_transport.service, before and after the bridge's. *)

\* The packet under way, or the next one, is written; it may take several calls.
DrainHostOutput(r) ==
  \/ /\ ~output_active /\ r.host_tx = <<>>
     /\ router' = r /\ UNCHANGED <<output_active, delivered>>
  \/ /\ ~output_active /\ r.host_tx # <<>>
     /\ router' = TakeForHost(r)
     /\ delivered' = Append(delivered, Head(r.host_tx).bytes)
     /\ output_active' \in BOOLEAN
  \/ /\ output_active /\ router' = r
     /\ output_active' \in BOOLEAN /\ UNCHANGED delivered

\* What the router refuses the host is not told.
HostService ==
  \/ DrainHostOutput(router) /\ UNCHANGED host_packets
  \/ \E p \in HostPackets :
       /\ host_packets < MaxHostPackets
       /\ host_packets' = host_packets + 1
       /\ DrainHostOutput(RouteFromHost(router, p).router)

\* The loop sleeps between two rounds, so time passes there.
HostTurn ==
  /\ \/ pc = "host" /\ round_us > 0 /\ pc' = "track"
     \/ pc = "after" /\ pc' = "host"
  /\ HostService
  /\ UNCHANGED <<vars, bus, tracker, aux_decoder, echo_tracking, echo_matches_at_start,
                 active_packet, recovery_pending, fault_started_us, mount_begun, raced,
                 dues>>

----------------------------------------------------------------------------
(* ServiceUsbBridge *)

\* RouteBridgeBytes: what is no echo goes through the decoder to the host.
RouteByte(side, byte) ==
  LET o == Feed(side.decoder, byte, Now, "kAuxBus")
  IN  [decoder |-> o.decoder,
       router  |-> IF o.result = "kPacket" THEN RouteFromAux(side.router, o.packet).router
                   ELSE side.router]

Routed(start, bytes) ==
  LET after[i \in 0..Len(bytes)] ==
        IF i = 0 THEN start ELSE RouteByte(after[i - 1], bytes[i])
  IN  after[Len(bytes)]

RouteBridgeBytes(bytes) ==
  LET side == Routed([decoder |-> aux_decoder, router |-> router], bytes)
  IN  aux_decoder' = side.decoder /\ router' = side.router

\* Mutant: tracking begins only when the transmitter waits for the echo.
BeginsTracking_Late == ~echo_tracking /\ state = "kEchoWait"

BeginsTracking == ~echo_tracking /\ state = "kWrite"

\* Begin to track before the write, and give back a partial echo that expired.
Track ==
  LET begun    == IF BeginsTracking THEN Begin(tracker, active_packet, Now) ELSE tracker
      tracking == IF BeginsTracking THEN Begins(active_packet) ELSE echo_tracking
      o        == IF tracking THEN Poll(begun, Now)
                  ELSE [tracker |-> begun, forward |-> <<>>]
  IN  /\ pc = "track" /\ pc' = "drain"
      /\ tracker' = o.tracker
      /\ echo_tracking' = (tracking /\ o.tracker.active)
      /\ echo_matches_at_start' =
           IF BeginsTracking THEN tracker.matches ELSE echo_matches_at_start
      /\ RouteBridgeBytes(o.forward)
      /\ UNCHANGED <<vars, bus, output_active, active_packet, recovery_pending,
                     fault_started_us, history>>

\* Mutant: any end of the tracking is taken for the echo.
IsEcho_AnyEnd(t) == ~t.active

\* The tracking ended, and in a match.
IsEcho(t) == ~t.active /\ t.matches > echo_matches_at_start

\* One received byte: to the tracker while it tracks, else on to the host.
DrainByte ==
  LET o == IF echo_tracking THEN FeedByte(tracker, Head(rx_fifo), Now)
           ELSE [tracker |-> tracker, forward |-> <<Head(rx_fifo)>>]
  IN  /\ pc = "drain" /\ rx_fifo # <<>>
      /\ rx_fifo' = Tail(rx_fifo)
      /\ tracker' = o.tracker
      /\ echo_tracking' = (echo_tracking /\ o.tracker.active)
      /\ IF echo_tracking /\ IsEcho(o.tracker)
           THEN NotifyEchoComplete ELSE UNCHANGED vars
      /\ RouteBridgeBytes(o.forward)
      /\ UNCHANGED <<pc, tx_fifo, mount, noise, round_us, driven, output_active,
                     active_packet, echo_matches_at_start, recovery_pending,
                     fault_started_us, history>>

DrainDone ==
  /\ pc = "drain" /\ rx_fifo = <<>>
  /\ pc' = "start"
  /\ UNCHANGED <<vars, bus, service, history>>

\* Mutant: the next packet is taken whatever the transmitter is doing.
ReadyForNext_Always == TRUE

ReadyForNext == state = "kIdle"

\* The result of start() is ignored: a packet it refused would be lost.
StartNext ==
  /\ pc = "start" /\ pc' = "tick"
  /\ \/ /\ ReadyForNext /\ router.aux_tx # <<>>
        /\ active_packet' = Head(router.aux_tx)
        /\ router' = TakeForAux(router)
        /\ Start(Head(router.aux_tx), "kUsbBridge", "kUsbBridge")
     \/ /\ ~ReadyForNext \/ router.aux_tx = <<>>
        /\ UNCHANGED <<vars, active_packet, router>>
  /\ UNCHANGED <<bus, output_active, tracker, aux_decoder, echo_tracking,
                 echo_matches_at_start, recovery_pending, fault_started_us, history>>

TickTransmitter ==
  /\ pc = "tick" /\ pc' = "recover"
  /\ TickOnBus
  /\ UNCHANGED <<service, history>>

\* Mutant: the tracker is left tracking the failed packet.
Abandon_KeepTracker ==
  /\ aux_decoder' = Reset(aux_decoder)
  /\ UNCHANGED <<tracker, echo_tracking>>

\* What a recovery forgets of the failed packet.
Abandon ==
  /\ tracker' = Cancel(tracker)
  /\ echo_tracking' = FALSE
  /\ aux_decoder' = Reset(aux_decoder)

\* Mutant: the time of the fault is not noted.
NoteFault_NoTime == recovery_pending' = TRUE /\ UNCHANGED fault_started_us

NoteFault == recovery_pending' = TRUE /\ fault_started_us' = now_us

\* Mutant: the fault is noted again in every round.
RecoverFromFault_Rearmed ==
  \/ /\ state = "kFault"
     /\ NoteFault
     /\ UNCHANGED <<vars, tracker, echo_tracking, aux_decoder>>
  \/ /\ state # "kFault"
     /\ recovery_pending' = FALSE
     /\ UNCHANGED <<vars, tracker, echo_tracking, aux_decoder, fault_started_us>>

RecoverFromFault ==
  \/ /\ state = "kFault" /\ ~recovery_pending
     /\ NoteFault
     /\ UNCHANGED <<vars, tracker, echo_tracking, aux_decoder>>
  \/ /\ state = "kFault" /\ recovery_pending
     /\ Delta(now_us, fault_started_us) >= RecoveryBackoff
     /\ Abandon
     /\ Recover
     /\ recovery_pending' = FALSE
     /\ UNCHANGED fault_started_us
  \/ /\ state = "kFault" /\ recovery_pending
     /\ Delta(now_us, fault_started_us) < RecoveryBackoff
     /\ UNCHANGED <<vars, tracker, echo_tracking, aux_decoder, recovery_pending,
                    fault_started_us>>
  \/ /\ state # "kFault"
     /\ recovery_pending' = FALSE
     /\ UNCHANGED <<vars, tracker, echo_tracking, aux_decoder, fault_started_us>>

\* After a reset in the middle of a frame only a silence tells the decoder where
\* the next one begins: the timeout, from the time the last byte is read, which may
\* be two rounds late.
Resynchronisation == InterByteTimeout + 2 * MaxRound

RecoverBridge ==
  /\ pc = "recover" /\ pc' = "after"
  /\ RecoverFromFault
  /\ deaf_us' = IF aux_decoder.buffer # <<>> /\ aux_decoder'.buffer = <<>>
                  THEN Resynchronisation ELSE deaf_us
  /\ UNCHANGED <<bus, router, output_active, echo_matches_at_start, active_packet,
                 host_packets, delivered, mount_begun, raced, mount_frames, refused>>

Round == \/ HostTurn \/ Track \/ DrainByte \/ DrainDone
         \/ StartNext \/ TickTransmitter \/ RecoverBridge

----------------------------------------------------------------------------
(* The bus *)

\* No age is measured, or only one that is past its timeout.
AtRest ==
  /\ state = "kIdle" /\ ~tracker.active
  /\ aux_decoder.buffer = <<>> \/ Expired(aux_decoder, Now)

\* What the host has been given, and what waits for it.
ToHost == delivered \o [i \in 1..Len(router.host_tx) |-> router.host_tx[i].bytes]

\* When the silence is over, what was sent before it is written off.
Listen ==
  /\ deaf_us' = IF deaf_us = 0 THEN 0
                 ELSE IF mount # <<>> THEN Resynchronisation ELSE deaf_us - 1
  /\ IF deaf_us # 0 /\ deaf_us' = 0
       THEN mount_frames' = ToHost /\ refused' = router.host_overflows
       ELSE UNCHANGED <<mount_frames, refused>>

BusSlot ==
  /\ pc \in {"host", "drain", "tick"}
  /\ BusMoves(AtRest)
  /\ Listen
  /\ UNCHANGED <<pc, service, host_packets, delivered, mount_begun, raced>>

MountBegins ==
  /\ pc \in {"host", "tick"} /\ mount_begun < MaxMountFrames
  /\ mount_begun' = mount_begun + 1
  /\ \E f \in MountFrames :
       MountSends(f) /\ mount_frames' = Append(mount_frames, f.bytes)
  /\ raced' = (state = "kBusyClaim")
  /\ UNCHANGED <<pc, service, host_packets, delivered, deaf_us, refused>>

BridgeNext == Round \/ BusSlot \/ MountBegins

BridgeSpec == BridgeInit /\ [][BridgeNext]_bridgeVars

\* The loop goes round, and time passes while it sleeps.
BridgeFairness == WF_bridgeVars(Round) /\ WF_bridgeVars(BusSlot)

FairBridgeSpec == BridgeSpec /\ BridgeFairness

----------------------------------------------------------------------------
(* What must be true of it on any bus *)

\* An echo noted for the transmitter belongs to the packet it is sending: none
\* is ever noted between the beginning of a transaction and its write, however
\* late the echo of an earlier, failed packet comes in.
EchoFlagFresh ==
  echo_complete => state \in {"kWrite", "kUartDrain", "kEchoWait", "kIdle", "kFault"}

\* Each completed packet has a match of its own: one echo never completes two.
CompletionsAreMatched ==
  metrics["completed_packets"] + (IF InFlight /\ echo_complete THEN 1 ELSE 0)
    <= tracker.matches

\* Every packet the host sent is waiting, in flight, completed, faulted or counted
\* as too many for the queue, though the loop ignores what start() says: none is
\* refused there or dropped without a trace.
NothingLost ==
  /\ host_packets = metrics["start_requests"] + Len(router.aux_tx) + router.aux_overflows
  /\ metrics["start_requests"] = metrics["completed_packets"] + metrics["faults"]
                                  + (IF InFlight THEN 1 ELSE 0)

\* The bridge keeps its hands off the bus for the recovery backoff after every
\* fault, its first as well as any later one.
RecoveryHoldsOff ==
  [][metrics'["recoveries"] # metrics["recoveries"]
       => state = "kFault" /\ Elapsed >= RecoveryBackoff]_bridgeVars

\* We drive the bus while the mount does only if its frame began in the one round
\* between our look at BUSY and our claim: a frame that began before we looked, or
\* after we claimed, is never driven over, however late the rounds come.
OnlyRacesCollide == tx_enabled /\ mount # <<>> => raced

\* Whatever the bus does, the bridge comes back to rest with its queue served:
\* no fault, missed echo or contention wedges it.
AlwaysReadyAgain == []<>(state = "kIdle" /\ router.aux_tx = <<>>)

----------------------------------------------------------------------------
(* What must be true of it on a clean bus: no noise, no race for BUSY, rounds *)
(* shorter than the echo window's margin, packets the drain timeout allows    *)

\* Every packet that got the bus is echoed and completed.
CleanBusCompletes ==
  metrics["faults"] > 0 => last_fault \in {"kContentionTimeout", "kNone"}

\* The host never gets its own packets back.
NoSelfEcho ==
  \A i \in 1..Len(ToHost) : \A p \in HostPackets : ToHost[i] # p.bytes

\* s is t without some of its elements, in the order of t.
ThinnedFrom(s, t) ==
  \E at \in [1..Len(s) -> 1..Len(t)] :
    /\ \A i \in 1..Len(s) : s[i] = t[at[i]]
    /\ \A i, j \in 1..Len(s) : i < j => at[i] < at[j]

\* Once they are read, the frames of the mount are what the host is given, in order
\* and each once, but for those counted as too many for its queue.  A recovery that
\* resets the decoder in the middle of a frame costs no more than the frames up to
\* the next silence.
MountHeard ==
  (mount = <<>> /\ rx_fifo = <<>> /\ deaf_us = 0) =>
    /\ ThinnedFrom(ToHost, mount_frames)
    /\ Len(mount_frames) = Len(ToHost) + router.host_overflows - refused

\* The TX buffer lets through bytes of the packet being sent only: nothing is
\* left in the UART of a packet that failed.
OnlyOwnBytesDriven ==
  tx_enabled => driven \o tx_fifo = IF handed_over THEN packet.bytes ELSE <<>>

================================================================================

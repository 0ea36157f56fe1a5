---------------------------- MODULE UsbBridgeProofs ----------------------------
(***************************************************************************)
(* Proofs about UsbBridge, for every traffic of the host and the mount,    *)
(* every noise, every timing and every length of the queues.               *)
(***************************************************************************)
EXTENDS UsbBridge, AuxTransmitterProofs, StreamProofs

----------------------------------------------------------------------------
(* A run of bytes through the decoder and the router *)

\* What every byte keeps, the run keeps.
LEMMA RoutedStays ==
  ASSUME NEW T, NEW start \in T, NEW bytes \in Seq(Byte),
         \A s \in T, b \in Byte : RouteByte(s, b) \in T
  PROVE  Routed(start, bytes) \in T
<1> DEFINE n == Len(bytes)
           Step(f, i) == IF i = 0 THEN start ELSE RouteByte(f[i - 1], bytes[i])
           IsRun(f) == f = [i \in 0..n |-> Step(f, i)]
           after == CHOOSE f : IsRun(f)
           step == [x \in T \X (1..n) |-> RouteByte(x[1], bytes[x[2]])]
<1>1. n \in Nat /\ \A i \in 1..n : bytes[i] \in Byte
  OBVIOUS
<1>2. step \in [T \X (1..n) -> T]
  BY <1>1
<1>3. Runs(T, start, n, step) # {}
  <2> HIDE DEF step, n
  <2> QED
    BY <1>1, <1>2, RunExists, Zenon
<1>4. PICK run \in [0..n -> T] :
        run[0] = start /\ \A i \in 1..n : run[i] = step[<<run[i - 1], i>>]
  <2> HIDE DEF step, n
  <2> QED
    BY <1>3 DEF Runs
<1>5. ASSUME NEW i \in 0..n
      PROVE  run[i] = Step(run, i)
  <2>1. CASE i = 0
    BY <1>4, <2>1
  <2>2. CASE i # 0
    <3>1. i \in 1..n /\ i - 1 \in 0..n
      BY <1>1, <2>2
    <3>2. <<run[i - 1], i>> \in T \X (1..n)
      BY <1>4, <3>1
    <3>3. step[<<run[i - 1], i>>] = RouteByte(run[i - 1], bytes[i])
      BY <3>2
    <3>4. QED
      BY <1>4, <2>2, <3>1, <3>3
  <2>3. QED
    BY <2>1, <2>2
<1>6. IsRun(run)
  BY <1>4, <1>5
<1>7. IsRun(after)
  <2> HIDE DEF IsRun
  <2> QED
    BY <1>6
<1>8. after[0] = start /\ \A i \in 1..n : after[i] = RouteByte(after[i - 1], bytes[i])
  <2> HIDE DEF after
  <2>1. \A i \in 0..n : after[i] = Step(after, i)
    BY <1>7
  <2>2. QED
    BY <1>1, <2>1
<1> HIDE DEF after, n
<1>9. after[n] \in T
  <2>1. ASSUME NEW i \in 1..n, after[i - 1] \in T
        PROVE  after[i] \in T
    BY <1>1, <1>8, <2>1
  <2>2. n \in Nat /\ after[0] \in T
    BY <1>1, <1>8
  <2>3. QED
    BY <2>1, <2>2, RunStays, Zenon
<1>10. QED
  BY <1>9 DEF Routed, after, n

----------------------------------------------------------------------------
(* The types *)

Router == [aux_tx : Seq(HostPackets), host_tx : Seq(AuxPacket),
           aux_overflows : Nat, host_overflows : Nat,
           invalid_host_packets : Nat, invalid_aux_packets : Nat]

FifoType == rx_fifo \in Seq(Byte) /\ tx_fifo \in Seq(Byte) /\ mount \in Seq(Byte)

ServiceType ==
  /\ router \in Router /\ TrackerOK(tracker) /\ aux_decoder \in Decoder
  /\ echo_tracking \in BOOLEAN /\ echo_matches_at_start \in Nat
  /\ active_packet \in AuxPacket
  /\ output_active \in BOOLEAN /\ recovery_pending \in BOOLEAN
  /\ host_packets \in Nat /\ raced \in BOOLEAN

BridgeType ==
  /\ pc \in {"host", "track", "drain", "start", "tick", "recover", "after"}
  /\ FifoType
  /\ ServiceType

\* What the router has been given for the bus and has not given on.
Received(r) == Len(r.aux_tx) + r.aux_overflows

\* The router's other half is left alone.
SameForAux(r, u) == u.aux_tx = r.aux_tx /\ u.aux_overflows = r.aux_overflows

LEMMA RouteFromAuxType ==
  ASSUME NEW r \in Router, NEW p \in AuxPacket
  PROVE  RouteFromAux(r, p).router \in Router /\ SameForAux(r, RouteFromAux(r, p).router)
<1>1. ASSUME NEW n \in Nat
      PROVE  LET u == [r EXCEPT !.invalid_aux_packets = n]
             IN  u \in Router /\ SameForAux(r, u)
  BY DEF Router, SameForAux
<1>2. ASSUME NEW n \in Nat
      PROVE  LET u == [r EXCEPT !.host_overflows = n]
             IN  u \in Router /\ SameForAux(r, u)
  BY DEF Router, SameForAux
<1>3. ASSUME NEW q \in Seq(AuxPacket)
      PROVE  LET u == [r EXCEPT !.host_tx = q]
             IN  u \in Router /\ SameForAux(r, u)
  BY DEF Router, SameForAux
<1>4. /\ r.invalid_aux_packets + 1 \in Nat /\ r.host_overflows + 1 \in Nat
      /\ Append(r.host_tx, p) \in Seq(AuxPacket)
  BY DEF Router
<1>5. QED
  BY <1>1, <1>2, <1>3, <1>4 DEF RouteFromAux

\* A packet of the host's is valid: it is queued, or counted as too many.
LEMMA RouteFromHostType ==
  ASSUME NEW r \in Router, NEW p \in HostPackets
  PROVE  LET u == RouteFromHost(r, p).router
         IN  u \in Router /\ Received(u) = Received(r) + 1
<1>1. p.origin = "kHost" /\ HasValidAuxChecksum(p)
  BY BridgeAssumption
<1>2. RouteFromHost(r, p).router = IF Len(r.aux_tx) = AuxTxCapacity
                                     THEN [r EXCEPT !.aux_overflows = r.aux_overflows + 1]
                                     ELSE [r EXCEPT !.aux_tx = Append(r.aux_tx, p)]
  BY <1>1 DEF RouteFromHost
<1>3. ASSUME NEW q \in Seq(HostPackets)
      PROVE  LET u == [r EXCEPT !.aux_tx = q]
             IN  u \in Router /\ u.aux_tx = q /\ u.aux_overflows = r.aux_overflows
  BY DEF Router
<1>4. ASSUME NEW n \in Nat
      PROVE  LET u == [r EXCEPT !.aux_overflows = n]
             IN  u \in Router /\ u.aux_tx = r.aux_tx /\ u.aux_overflows = n
  BY DEF Router
<1>5. /\ Append(r.aux_tx, p) \in Seq(HostPackets)
      /\ Len(Append(r.aux_tx, p)) = Len(r.aux_tx) + 1
      /\ Len(r.aux_tx) \in Nat /\ r.aux_overflows \in Nat /\ r.aux_overflows + 1 \in Nat
  BY DEF Router
<1>6. CASE Len(r.aux_tx) = AuxTxCapacity
  <2> DEFINE u == [r EXCEPT !.aux_overflows = r.aux_overflows + 1]
  <2>1. u \in Router /\ u.aux_tx = r.aux_tx /\ u.aux_overflows = r.aux_overflows + 1
    BY <1>4, <1>5
  <2>2. RouteFromHost(r, p).router = u
    BY <1>2, <1>6
  <2>3. Received(u) = Received(r) + 1
    <3>1. Received(u) = Len(u.aux_tx) + u.aux_overflows /\ Received(r) = Len(r.aux_tx) + r.aux_overflows
      BY DEF Received
    <3> HIDE DEF u
    <3>2. QED
      BY <1>5, <2>1, <3>1
  <2> HIDE DEF u
  <2>4. QED
    BY <2>1, <2>2, <2>3
<1>7. CASE Len(r.aux_tx) # AuxTxCapacity
  <2> DEFINE u == [r EXCEPT !.aux_tx = Append(r.aux_tx, p)]
  <2>1. /\ u \in Router /\ u.aux_tx = Append(r.aux_tx, p)
        /\ u.aux_overflows = r.aux_overflows
    BY <1>3, <1>5
  <2>2. RouteFromHost(r, p).router = u
    BY <1>2, <1>7
  <2>3. Received(u) = Received(r) + 1
    <3>1. Received(u) = Len(u.aux_tx) + u.aux_overflows /\ Received(r) = Len(r.aux_tx) + r.aux_overflows
      BY DEF Received
    <3> HIDE DEF u
    <3>2. QED
      BY <1>5, <2>1, <3>1
  <2> HIDE DEF u
  <2>4. QED
    BY <2>1, <2>2, <2>3
<1>8. QED
  BY <1>6, <1>7

LEMMA ReceivedIs ==
  ASSUME NEW r \in Router, NEW n \in Nat
  PROVE  Received(r) \in Nat /\ n + Len(r.aux_tx) + r.aux_overflows = n + Received(r)
<1>1. Len(r.aux_tx) \in Nat /\ r.aux_overflows \in Nat
  BY DEF Router
<1>2. QED
  BY <1>1 DEF Received

LEMMA TakeForHostType ==
  ASSUME NEW r \in Router, r.host_tx # <<>>
  PROVE  TakeForHost(r) \in Router /\ SameForAux(r, TakeForHost(r))
<1>1. Tail(r.host_tx) \in Seq(AuxPacket)
  BY DEF Router
<1>2. ASSUME NEW q \in Seq(AuxPacket)
      PROVE  LET u == [r EXCEPT !.host_tx = q]
             IN  u \in Router /\ SameForAux(r, u)
  BY DEF Router, SameForAux
<1>3. QED
  BY <1>1, <1>2 DEF TakeForHost

\* The host's reading is nothing to the bus's side.
LEMMA DrainHostOutputType ==
  ASSUME NEW r \in Router, output_active \in BOOLEAN, DrainHostOutput(r)
  PROVE  output_active' \in BOOLEAN /\ router' \in Router /\ Received(router') = Received(r)
<1>1. output_active' \in BOOLEAN
  BY DEF DrainHostOutput
<1>2. CASE router' = r
  BY <1>1, <1>2
<1>3. CASE r.host_tx # <<>> /\ router' = TakeForHost(r)
  <2>1. router' \in Router /\ SameForAux(r, router')
    BY <1>3, TakeForHostType
  <2>2. QED
    BY <1>1, <2>1 DEF SameForAux, Received
<1>4. QED
  BY <1>2, <1>3 DEF DrainHostOutput

LEMMA TakeForAuxType ==
  ASSUME NEW r \in Router, r.aux_tx # <<>>
  PROVE  /\ TakeForAux(r) \in Router
         /\ Received(TakeForAux(r)) = Received(r) - 1
         /\ Head(r.aux_tx) \in HostPackets
<1>1. r.aux_tx \in Seq(HostPackets) /\ r.aux_overflows \in Nat
  BY DEF Router
<1>2. /\ Tail(r.aux_tx) \in Seq(HostPackets) /\ Len(r.aux_tx) \in Nat
      /\ Len(Tail(r.aux_tx)) = Len(r.aux_tx) - 1 /\ Head(r.aux_tx) \in HostPackets
  BY <1>1
<1>3. ASSUME NEW q \in Seq(HostPackets)
      PROVE  LET u == [r EXCEPT !.aux_tx = q]
             IN  u \in Router /\ u.aux_tx = q /\ u.aux_overflows = r.aux_overflows
  BY DEF Router
<1>4. /\ TakeForAux(r) \in Router /\ TakeForAux(r).aux_tx = Tail(r.aux_tx)
      /\ TakeForAux(r).aux_overflows = r.aux_overflows
  BY <1>2, <1>3 DEF TakeForAux
<1>5. QED
  BY <1>1, <1>2, <1>4 DEF Received

\* Whatever the tracker gives back goes through the decoder, and leaves the
\* packets that wait for the bus alone.
LEMMA RouteBridgeBytesType ==
  ASSUME ServiceType, now_us \in Ms, NEW bytes \in Seq(Byte), RouteBridgeBytes(bytes)
  PROVE  aux_decoder' \in Decoder /\ router' \in Router /\ Received(router') = Received(router)
<1> DEFINE Routers == {r \in Router : SameForAux(router, r)}
           Sides   == [decoder : Decoder, router : Routers]
           start   == [decoder |-> aux_decoder, router |-> router]
<1>1. start \in Sides
  BY DEF ServiceType, SameForAux
<1>2. ASSUME NEW side \in Sides, NEW byte \in Byte
      PROVE  RouteByte(side, byte) \in Sides
  <2> DEFINE o == Feed(side.decoder, byte, Now, "kAuxBus")
  <2>1. side.decoder \in Decoder /\ side.router \in Routers
    OBVIOUS
  <2>2. o.decoder \in Decoder /\ o.packet \in AuxPacket
    BY <2>1, FeedType DEF Now, PacketOrigin
  <2>3. RouteFromAux(side.router, o.packet).router \in Routers
    BY <2>1, <2>2, RouteFromAuxType DEF SameForAux
  <2>4. RouteByte(side, byte) =
          [decoder |-> o.decoder,
           router |-> IF o.result = "kPacket" THEN RouteFromAux(side.router, o.packet).router
                      ELSE side.router]
    BY DEF RouteByte
  <2> HIDE DEF o, Routers
  <2>5. QED
    BY <2>1, <2>2, <2>3, <2>4
<1> DEFINE side == Routed(start, bytes)
<1>3. side \in Sides
  <2> HIDE DEF Sides, start
  <2> QED
    BY <1>1, <1>2, RoutedStays
<1>4. aux_decoder' = side.decoder /\ router' = side.router
  BY DEF RouteBridgeBytes
<1> HIDE DEF side
<1>5. QED
  BY <1>3, <1>4 DEF SameForAux, Received

----------------------------------------------------------------------------
(* The invariant *)

\* While we hold BUSY, or are about to claim it, the mount is silent, or has begun
\* since the tick before the claim, in which CTS was clear.
NoMountOnOurBus ==
  /\ mount = <<>> \/ raced \/ state \notin {"kBusyClaim"} \cup OwnerStates
  /\ raced => MountRaces

\* The loop notes a fault in the round it happens in, and forgets it when the
\* transmitter has recovered.
FaultNoted ==
  /\ recovery_pending => state = "kFault" /\ fault_started_us = state_entered_us
  /\ state = "kFault" /\ ~recovery_pending => pc = "recover" /\ state_entered_us = now_us

NeverControlled == ~controlled_transaction /\ state # "kResponseWait"

\* A tracking is of the packet being written, and open only until its echo is
\* noted; so it never reaches into the next transaction.
EchoOfThisPacket ==
  /\ EchoFlagFresh
  /\ echo_tracking => /\ state \in {"kWrite", "kUartDrain", "kEchoWait", "kFault"}
                      /\ ~echo_complete
                      /\ tracker.matches = echo_matches_at_start
  /\ state = "kWrite" /\ echo_complete => pc \in {"drain", "start", "tick"}

BridgeInv ==
  /\ IInv
  /\ BridgeType
  /\ NoMountOnOurBus
  /\ FaultNoted
  /\ NeverControlled
  /\ EchoOfThisPacket
  /\ CompletionsAreMatched
  /\ NothingLost

LEMMA ClocksAgree == Ms = Instant
BY BridgeAssumption DEF Ms, Instant

LEMMA NumbersType ==
  ASSUME BridgeInv
  PROVE  /\ metrics["completed_packets"] \in Nat /\ metrics["faults"] \in Nat
         /\ metrics["start_requests"] \in Nat /\ metrics["recoveries"] \in Nat
         /\ tracker.matches \in Nat /\ host_packets \in Nat
         /\ router.aux_tx \in Seq(HostPackets) /\ Received(router) \in Nat
<1>1. TypeOK /\ ServiceType
  BY DEF BridgeInv, IInv, BridgeType
<1>2. router.aux_tx \in Seq(HostPackets) /\ Received(router) \in Nat
  BY <1>1 DEF ServiceType, Router, Received
<1>3. tracker.matches \in Nat
  BY <1>1, TrackerFields DEF ServiceType
<1>4. QED
  BY <1>1, <1>2, <1>3 DEF TypeOK, Counters, ServiceType, Rejections

LEMMA BridgeInvInit == BridgeInit => BridgeInv
<1> SUFFICES ASSUME BridgeInit PROVE BridgeInv
  OBVIOUS
<1>1. IInv
  BY IInvInit DEF BridgeInit, BusInit
<1>2. BridgeType
  <2>1. /\ InitRouter \in Router /\ EmptyPacket \in AuxPacket
        /\ <<>> \in Seq(Byte)
    BY DEF InitRouter, Router, EmptyPacket, AuxPacket, PacketOrigin
  <2>2. InitDecoder \in Decoder
    BY MillisAssumption DEF InitDecoder, Decoder, Ms
  <2>3. QED
    BY <2>1, <2>2, InitTrackerOK DEF BridgeInit, BusInit, BridgeType, FifoType, ServiceType
<1>3. /\ state = "kIdle" /\ ~InFlight /\ ~echo_complete /\ ~controlled_transaction
      /\ metrics["completed_packets"] = 0 /\ metrics["faults"] = 0
      /\ metrics["start_requests"] = 0
  BY DEF BridgeInit, BusInit, Init, InFlight, Counters
<1>4. /\ tracker.matches = 0 /\ Len(router.aux_tx) = 0 /\ router.aux_overflows = 0
      /\ host_packets = 0 /\ mount = <<>> /\ raced = FALSE
      /\ echo_tracking = FALSE /\ recovery_pending = FALSE
  BY DEF BridgeInit, BusInit, InitTracker, InitRouter
<1>5. QED
  BY <1>1, <1>2, <1>3, <1>4 DEF BridgeInv, NoMountOnOurBus, FaultNoted, NeverControlled,
     EchoOfThisPacket, EchoFlagFresh, CompletionsAreMatched, NothingLost

\* Steps that leave the state of the transmitter and the faults alone.
LEMMA QuietKeeps ==
  ASSUME BridgeInv, IInv', BridgeType', pc # "recover", NoMountOnOurBus', EchoOfThisPacket',
         UNCHANGED <<state, state_entered_us, controlled_transaction, metrics,
                     recovery_pending, fault_started_us>>,
         \/ echo_complete' = echo_complete /\ tracker'.matches = tracker.matches
         \/ tracker'.matches = tracker.matches + 1,
         host_packets' - host_packets = Received(router') - Received(router),
         Received(router') \in Nat, host_packets' \in Nat
  PROVE  BridgeInv'
<1>1. FaultNoted' /\ NeverControlled'
  BY DEF BridgeInv, FaultNoted, NeverControlled
<1>2. CompletionsAreMatched'
  BY NumbersType DEF BridgeInv, CompletionsAreMatched, InFlight
<1>3. NothingLost'
  <2> DEFINE flight == IF InFlight THEN 1 ELSE 0
             flightNext == IF InFlight' THEN 1 ELSE 0
             waiting == Received(router)
             waitingNext == Received(router')
  <2>0. router \in Router /\ router' \in Router /\ metrics["start_requests"] \in Nat
    BY NumbersType DEF BridgeInv, BridgeType, ServiceType
  <2>1. /\ host_packets = metrics["start_requests"] + waiting
        /\ metrics["start_requests"] = metrics["completed_packets"] + metrics["faults"] + flight
        /\ metrics' = metrics /\ flightNext = flight
        /\ host_packets' - host_packets = waitingNext - waiting
    BY <2>0, ReceivedIs DEF BridgeInv, NothingLost, InFlight
  <2>2. /\ host_packets \in Nat /\ host_packets' \in Nat /\ waiting \in Nat
        /\ waitingNext \in Nat /\ metrics["start_requests"] \in Nat
    BY NumbersType
  <2> SUFFICES /\ host_packets' = metrics'["start_requests"] + waitingNext
               /\ metrics'["start_requests"] = metrics'["completed_packets"]
                                                 + metrics'["faults"] + flightNext
    BY <2>0, ReceivedIs DEF NothingLost
  <2> HIDE DEF flight, flightNext, waiting, waitingNext
  <2>3. QED
    BY <2>1, <2>2
<1>4. QED
  BY <1>1, <1>2, <1>3 DEF BridgeInv

LEMMA HostKeeps ==
  ASSUME BridgeInv, HostTurn
  PROVE  BridgeInv'
<1>1. /\ <<pc, pc'>> \in {<<"host", "track">>, <<"after", "host">>} /\ HostService
      /\ UNCHANGED <<vars, bus, tracker, aux_decoder, echo_tracking, echo_matches_at_start,
                     active_packet, recovery_pending, fault_started_us, raced>>
  BY DEF HostTurn
<1>2. IInv' /\ UNCHANGED <<state, state_entered_us, controlled_transaction, metrics,
                           echo_complete, mount>>
  BY <1>1, IInvStutter DEF BridgeInv, vars, counts, flags, bus
<1>3. ServiceType /\ router \in Router /\ output_active \in BOOLEAN /\ host_packets \in Nat
      /\ Received(router) \in Nat
  BY NumbersType DEF BridgeInv, BridgeType, ServiceType
<1>4. /\ router' \in Router /\ output_active' \in BOOLEAN /\ host_packets' \in Nat
      /\ host_packets' - host_packets = Received(router') - Received(router)
  <2>1. CASE DrainHostOutput(router) /\ UNCHANGED host_packets
    BY <1>3, <2>1, DrainHostOutputType
  <2>2. ASSUME NEW p \in HostPackets, host_packets' = host_packets + 1,
               DrainHostOutput(RouteFromHost(router, p).router)
        PROVE  /\ router' \in Router /\ output_active' \in BOOLEAN /\ host_packets' \in Nat
               /\ host_packets' - host_packets = Received(router') - Received(router)
    <3> DEFINE u == RouteFromHost(router, p).router
    <3>1. u \in Router /\ Received(u) = Received(router) + 1
      BY <1>3, RouteFromHostType
    <3> HIDE DEF u
    <3>2. /\ output_active' \in BOOLEAN /\ router' \in Router
          /\ Received(router') = Received(u)
      BY <1>3, <2>2, <3>1, DrainHostOutputType DEF u
    <3>3. QED
      BY <1>3, <2>2, <3>1, <3>2
  <2>3. QED
    BY <1>1, <2>1, <2>2 DEF HostService
<1>5. BridgeType'
  BY <1>1, <1>3, <1>4 DEF BridgeInv, BridgeType, FifoType, ServiceType, bus, fifos
<1>6. NoMountOnOurBus' /\ EchoOfThisPacket'
  BY <1>1, <1>2 DEF BridgeInv, NoMountOnOurBus, EchoOfThisPacket, EchoFlagFresh
<1>7. Received(router') \in Nat
  BY <1>4, ReceivedIs
<1>8. QED
  BY <1>1, <1>2, <1>4, <1>5, <1>6, <1>7, QuietKeeps

LEMMA TrackKeeps ==
  ASSUME BridgeInv, Track
  PROVE  BridgeInv'
<1> DEFINE begun    == IF BeginsTracking THEN Begin(tracker, active_packet, Now) ELSE tracker
           tracking == IF BeginsTracking THEN Begins(active_packet) ELSE echo_tracking
           o        == IF tracking THEN Poll(begun, Now)
                       ELSE [tracker |-> begun, forward |-> <<>>]
<1>1. /\ pc = "track" /\ pc' = "drain"
      /\ tracker' = o.tracker /\ echo_tracking' = (tracking /\ o.tracker.active)
      /\ echo_matches_at_start' =
           IF BeginsTracking THEN tracker.matches ELSE echo_matches_at_start
      /\ RouteBridgeBytes(o.forward)
      /\ UNCHANGED <<vars, bus, output_active, active_packet, recovery_pending,
                     fault_started_us, host_packets, raced>>
  BY DEF Track, history
<1>2. IInv' /\ UNCHANGED <<state, state_entered_us, controlled_transaction, metrics,
                           echo_complete, mount>>
  BY <1>1, IInvStutter DEF BridgeInv, vars, counts, flags, bus
<1>3. ServiceType /\ now_us \in Ms /\ tracker.matches \in Nat
  BY ClocksAgree, NumbersType DEF BridgeInv, BridgeType, IInv, TypeOK
<1>4. TrackerOK(begun) /\ begun.matches = tracker.matches
  BY <1>3, BeginOK DEF ServiceType, Now
<1>5. TrackerOK(o.tracker) /\ o.tracker.matches = tracker.matches /\ o.forward \in Seq(Byte)
  <2> HIDE DEF begun
  <2>1. <<>> \in Seq(Byte)
    OBVIOUS
  <2>2. QED
    BY <1>4, <2>1, PollOK
<1> HIDE DEF o, begun, tracking
<1>6. echo_tracking' \in BOOLEAN
  BY <1>1
<1>7. /\ aux_decoder' \in Decoder /\ router' \in Router
      /\ Received(router') = Received(router)
  BY <1>1, <1>3, <1>5, RouteBridgeBytesType
<1>8. BridgeType'
  BY <1>1, <1>3, <1>5, <1>6, <1>7
  DEF BridgeInv, BridgeType, FifoType, ServiceType, bus, fifos
<1>9. NoMountOnOurBus' /\ EchoOfThisPacket'
  BY <1>1, <1>2, <1>5 DEF BridgeInv, NoMountOnOurBus, EchoOfThisPacket, EchoFlagFresh,
     BeginsTracking, tracking
<1>10. /\ Received(router') \in Nat /\ host_packets' \in Nat
       /\ host_packets' - host_packets = Received(router') - Received(router)
  BY <1>1, <1>7, NumbersType
<1>11. QED
  BY <1>1, <1>2, <1>5, <1>8, <1>9, <1>10, QuietKeeps

LEMMA DrainKeeps ==
  ASSUME BridgeInv, DrainByte
  PROVE  BridgeInv'
<1> DEFINE byte == Head(rx_fifo)
           o    == IF echo_tracking THEN FeedByte(tracker, byte, Now)
                   ELSE [tracker |-> tracker, forward |-> <<byte>>]
           matched == echo_tracking /\ IsEcho(o.tracker)
<1>1. /\ pc = "drain" /\ pc' = "drain" /\ rx_fifo # <<>> /\ rx_fifo' = Tail(rx_fifo)
      /\ tracker' = o.tracker
      /\ echo_tracking' = (echo_tracking /\ o.tracker.active)
      /\ IF matched THEN NotifyEchoComplete ELSE UNCHANGED vars
      /\ RouteBridgeBytes(o.forward)
      /\ UNCHANGED <<tx_fifo, mount, output_active, active_packet, echo_matches_at_start,
                     recovery_pending, fault_started_us, host_packets, raced>>
  BY DEF DrainByte, history
<1>2. /\ IInv' /\ UNCHANGED <<state, state_entered_us, controlled_transaction, metrics>>
      /\ echo_complete' = (echo_complete \/ matched)
  <2>1. CASE matched
    BY <1>1, <2>1, IInvEcho DEF BridgeInv, NotifyEchoComplete, counts
  <2>2. CASE ~matched
    BY <1>1, <2>2, IInvStutter DEF BridgeInv, IInv, TypeOK, vars, counts, flags
  <2>3. QED
    BY <2>1, <2>2
<1>3. ServiceType /\ FifoType /\ now_us \in Ms /\ tracker.matches \in Nat
  BY ClocksAgree, NumbersType DEF BridgeInv, BridgeType, IInv, TypeOK
<1>4. byte \in Byte /\ rx_fifo' \in Seq(Byte) /\ <<byte>> \in Seq(Byte)
  BY <1>1, <1>3 DEF FifoType
<1>5. /\ TrackerOK(o.tracker) /\ o.forward \in Seq(Byte)
      /\ \/ o.tracker.matches = tracker.matches
         \/ /\ o.tracker.matches = tracker.matches + 1
            /\ echo_tracking /\ ~o.tracker.active
  <2> HIDE DEF byte
  <2>1. CASE echo_tracking
    BY <1>3, <1>4, <2>1, FeedByteOK DEF ServiceType
  <2>2. CASE ~echo_tracking
    BY <1>3, <1>4, <2>2 DEF ServiceType
  <2>3. QED
    BY <2>1, <2>2
<1>6. o.tracker.active \in BOOLEAN
  BY <1>5, TrackerFields
<1> HIDE DEF o, byte
<1>7. /\ aux_decoder' \in Decoder /\ router' \in Router
      /\ Received(router') = Received(router)
  BY <1>1, <1>3, <1>5, RouteBridgeBytesType
<1>8. BridgeType'
  BY <1>1, <1>3, <1>4, <1>5, <1>6, <1>7 DEF BridgeType, FifoType, ServiceType
<1>9. \/ ~matched /\ o.tracker.matches = tracker.matches
      \/ ~matched /\ o.tracker.matches = tracker.matches + 1
      \/ matched /\ o.tracker.matches = tracker.matches + 1
  BY <1>3, <1>5 DEF BridgeInv, EchoOfThisPacket, IsEcho
<1>10. NoMountOnOurBus'
  BY <1>1, <1>2 DEF BridgeInv, NoMountOnOurBus
<1>11. EchoOfThisPacket'
  BY <1>1, <1>2, <1>5, <1>6 DEF BridgeInv, EchoOfThisPacket, EchoFlagFresh, IsEcho
<1>12. /\ Received(router') \in Nat /\ host_packets' \in Nat
       /\ host_packets' - host_packets = Received(router') - Received(router)
  BY <1>1, <1>7, NumbersType
<1> HIDE DEF matched
<1>13. \/ echo_complete' = echo_complete /\ tracker'.matches = tracker.matches
       \/ tracker'.matches = tracker.matches + 1
  <2>1. echo_complete \in BOOLEAN
    BY DEF BridgeInv, IInv, TypeOK
  <2>2. QED
    BY <1>1, <1>2, <1>9, <2>1
<1>14. QED
  BY <1>1, <1>2, <1>8, <1>10, <1>11, <1>12, <1>13, QuietKeeps

\* Steps of the transmitter: what it counts, it had or gets in flight.
LEMMA BooksKeep ==
  ASSUME BridgeInv, NEW started \in 0..1, NEW completed \in 0..1, NEW faulted \in 0..1,
         metrics'["start_requests"] = metrics["start_requests"] + started,
         metrics'["completed_packets"] = metrics["completed_packets"] + completed,
         metrics'["faults"] = metrics["faults"] + faulted,
         (IF InFlight' THEN 1 ELSE 0)
           = (IF InFlight THEN 1 ELSE 0) + started - completed - faulted,
         (IF InFlight' /\ echo_complete' THEN 1 ELSE 0) + completed
           <= (IF InFlight /\ echo_complete THEN 1 ELSE 0),
         host_packets' = host_packets, tracker'.matches = tracker.matches,
         Received(router') = Received(router) - started, BridgeType'
  PROVE  CompletionsAreMatched' /\ NothingLost'
<1> DEFINE flight == IF InFlight THEN 1 ELSE 0
           flightNext == IF InFlight' THEN 1 ELSE 0
           echo == IF InFlight /\ echo_complete THEN 1 ELSE 0
           echoNext == IF InFlight' /\ echo_complete' THEN 1 ELSE 0
           waiting == Received(router)
           waitingNext == Received(router')
<1>0. /\ router \in Router /\ router' \in Router
      /\ metrics["start_requests"] \in Nat /\ metrics'["start_requests"] \in Nat
  BY NumbersType DEF BridgeInv, BridgeType, ServiceType
<1>1. /\ host_packets = metrics["start_requests"] + waiting
      /\ metrics["start_requests"] = metrics["completed_packets"] + metrics["faults"] + flight
      /\ metrics["completed_packets"] + echo <= tracker.matches
  BY <1>0, ReceivedIs DEF BridgeInv, NothingLost, CompletionsAreMatched
<1>2. /\ metrics["start_requests"] \in Nat /\ metrics["completed_packets"] \in Nat
      /\ metrics["faults"] \in Nat /\ tracker.matches \in Nat /\ waiting \in Nat
  BY NumbersType
<1>3. /\ flightNext = flight + started - completed - faulted
      /\ echoNext + completed <= echo
      /\ waitingNext = waiting - started
      /\ flight \in 0..1 /\ flightNext \in 0..1 /\ echo \in 0..1 /\ echoNext \in 0..1
  OBVIOUS
<1> SUFFICES /\ metrics'["completed_packets"] + echoNext <= tracker'.matches
             /\ host_packets' = metrics'["start_requests"] + waitingNext
             /\ metrics'["start_requests"] = metrics'["completed_packets"]
                                              + metrics'["faults"] + flightNext
  BY <1>0, ReceivedIs DEF NothingLost, CompletionsAreMatched
<1> HIDE DEF flight, flightNext, echo, echoNext, waiting, waitingNext
<1>4. metrics'["completed_packets"] + echoNext <= tracker'.matches
  BY <1>1, <1>2, <1>3
<1>5. host_packets' = metrics'["start_requests"] + waitingNext
  BY <1>1, <1>2, <1>3
<1>6. metrics'["start_requests"] = metrics'["completed_packets"]
                                     + metrics'["faults"] + flightNext
  <2> DEFINE s == metrics["start_requests"]
             c == metrics["completed_packets"]
             f == metrics["faults"]
  <2>1. /\ s \in Nat /\ c \in Nat /\ f \in Nat /\ flight \in 0..1 /\ flightNext \in 0..1
        /\ s = c + f + flight /\ flightNext = flight + started - completed - faulted
    BY <1>1, <1>2, <1>3
  <2> HIDE DEF s, c, f
  <2>2. s + started = (c + completed) + (f + faulted) + flightNext
    BY <2>1
  <2>3. QED
    BY <2>2 DEF s, c, f
<1>7. QED
  BY <1>4, <1>5, <1>6

\* A packet the loop takes from the queue is always accepted.
LEMMA StartAccepts ==
  ASSUME BridgeInv, NEW p \in HostPackets, ReadyForNext,
         Start(p, "kUsbBridge", "kUsbBridge")
  PROVE  AcceptStart(p, FALSE)
<1>1. /\ Authorized("kUsbBridge", "kUsbBridge")
      /\ Controlled("kUsbBridge", "kUsbBridge") = FALSE
  BY DEF Authorized, Controlled, Bridged, MayTransmitAux
<1>2. HasValidAuxChecksum(p) /\ state = "kIdle"
  BY BridgeAssumption DEF ReadyForNext
<1>3. Refusal(p, "kUsbBridge", "kUsbBridge") = "none"
  BY <1>1, <1>2 DEF Refusal
<1>4. QED
  BY <1>1, <1>3 DEF Start, RefuseStart

LEMMA StartKeeps ==
  ASSUME BridgeInv, StartNext
  PROVE  BridgeInv'
<1>1. /\ pc = "start" /\ pc' = "tick"
      /\ UNCHANGED <<bus, output_active, tracker, aux_decoder, echo_tracking,
                     echo_matches_at_start, recovery_pending, fault_started_us, history>>
  BY DEF StartNext
<1>2. ServiceType /\ FifoType
  BY DEF BridgeInv, BridgeType
<1>3. CASE /\ ReadyForNext /\ router.aux_tx # <<>>
           /\ active_packet' = Head(router.aux_tx)
           /\ router' = TakeForAux(router)
           /\ Start(Head(router.aux_tx), "kUsbBridge", "kUsbBridge")
  <2> DEFINE p == Head(router.aux_tx)
  <2>1. /\ p \in HostPackets /\ router' \in Router
        /\ Received(router') = Received(router) - 1
    BY <1>2, <1>3, TakeForAuxType DEF ServiceType
  <2>2. p \in Packets /\ p \in AuxPacket
    BY <2>1, BridgeAssumption, TransmitterAssumption
  <2>3. Start(p, "kUsbBridge", "kUsbBridge") /\ active_packet' = p
    BY <1>3
  <2> HIDE DEF p
  <2>4. IInv'
    BY <2>2, <2>3, IInvStart DEF BridgeInv, OperatingMode, AuxTxAuthorization
  <2>5. AcceptStart(p, FALSE)
    BY <1>3, <2>1, <2>3, StartAccepts
  <2>6. /\ state = "kIdle" /\ state' = "kBusWait" /\ ~echo_complete'
        /\ controlled_transaction' = FALSE /\ mount' = mount /\ raced' = raced
    BY <1>1, <1>3, <2>5 DEF ReadyForNext, AcceptStart, Transition, bus, history
  <2>7. /\ metrics'["start_requests"] = metrics["start_requests"] + 1
        /\ metrics'["completed_packets"] = metrics["completed_packets"]
        /\ metrics'["faults"] = metrics["faults"]
    BY <2>5 DEF AcceptStart, Count, Counters
  <2>8. BridgeType'
    BY <1>1, <1>2, <2>1, <2>2, <2>3
    DEF BridgeType, FifoType, ServiceType, bus, fifos, history
  <2>9. NoMountOnOurBus' /\ FaultNoted' /\ NeverControlled'
    BY <1>1, <2>6 DEF BridgeInv, NoMountOnOurBus, FaultNoted, NeverControlled, OwnerStates
  <2>10. EchoOfThisPacket'
    BY <1>1, <2>6 DEF BridgeInv, EchoOfThisPacket, EchoFlagFresh
  <2>11. /\ (IF InFlight' THEN 1 ELSE 0) = (IF InFlight THEN 1 ELSE 0) + 1 - 0 - 0
         /\ (IF InFlight' /\ echo_complete' THEN 1 ELSE 0) + 0
              <= (IF InFlight /\ echo_complete THEN 1 ELSE 0)
    BY <2>6 DEF InFlight
  <2>12. /\ metrics'["completed_packets"] = metrics["completed_packets"] + 0
         /\ metrics'["faults"] = metrics["faults"] + 0
    BY <2>7, NumbersType
  <2>13. CompletionsAreMatched' /\ NothingLost'
    BY <1>1, <2>1, <2>7, <2>8, <2>11, <2>12, BooksKeep DEF history
  <2>14. QED
    BY <2>4, <2>8, <2>9, <2>10, <2>13 DEF BridgeInv
<1>4. CASE UNCHANGED <<vars, active_packet, router>>
  <2>1. IInv' /\ UNCHANGED <<state, state_entered_us, controlled_transaction, metrics,
                             echo_complete, mount, raced, host_packets>>
    BY <1>1, <1>4, IInvStutter DEF BridgeInv, vars, counts, flags, bus, history
  <2>2. BridgeType'
    BY <1>1, <1>2, <1>4 DEF BridgeType, FifoType, ServiceType, bus, fifos, history
  <2>3. NoMountOnOurBus' /\ EchoOfThisPacket'
    BY <1>1, <2>1 DEF BridgeInv, NoMountOnOurBus, EchoOfThisPacket, EchoFlagFresh
  <2>4. /\ Received(router') \in Nat /\ host_packets' \in Nat
        /\ host_packets' - host_packets = Received(router') - Received(router)
    BY <1>4, <2>1, NumbersType
  <2>5. QED
    BY <1>1, <2>1, <2>2, <2>3, <2>4, QuietKeeps
<1>5. QED
  BY <1>3, <1>4 DEF StartNext

\* The write never waits: its tick hands the packet over or fails.
LEMMA WriteMoves ==
  ASSUME NEW bus_busy, NEW all_written \in BOOLEAN, NEW tx_complete, state = "kWrite",
         Tick(bus_busy, all_written, tx_complete)
  PROVE  state' \in {"kUartDrain", "kFault"}
<1>1. CASE TickOverdue
  BY <1>1 DEF TickOverdue, EnterFault, Transition
<1>2. CASE TickWrite(all_written)
  BY <1>2 DEF TickWrite, EnterFault, Transition
<1>3. QED
  BY <1>1, <1>2 DEF Tick, TickState, TickAtRest, TickBusWait, TickBusyClaim,
     TickClaimDelay, TickTxEnable, TickUartDrain, TickEchoWait, TickResponseWait,
     TickBackoff

\* A tick on the bus is a tick with some answer of the UART, which takes the whole
\* packet or, if it may, a part of it.
LEMMA TickOfBus ==
  ASSUME TickOnBus, packet.bytes \in Seq(Byte)
  PROVE  \E all_written \in BOOLEAN, taken \in Seq(Byte) :
           /\ Tick(mount # <<>>, all_written, tx_fifo = <<>>)
           /\ tx_fifo' = IF state = "kWrite" /\ ~Overdue THEN tx_fifo \o taken ELSE tx_fifo
           /\ ~ShortWrites => all_written /\ taken = packet.bytes
<1>1. PICK n \in Taken :
        /\ Tick(mount # <<>>, n = Size(packet), tx_fifo = <<>>)
        /\ tx_fifo' = IF Writing THEN tx_fifo \o SubSeq(packet.bytes, 1, n) ELSE tx_fifo
  BY DEF TickOnBus
<1>2. /\ Size(packet) = Len(packet.bytes) /\ n \in 0..Size(packet)
      /\ ~ShortWrites => n = Size(packet)
  BY <1>1 DEF Taken, Size
<1>3. /\ SubSeq(packet.bytes, 1, n) \in Seq(Byte)
      /\ n = Size(packet) => SubSeq(packet.bytes, 1, n) = packet.bytes
  BY <1>2
<1> DEFINE all_written == n = Size(packet)
           taken == SubSeq(packet.bytes, 1, n)
<1>4. /\ all_written \in BOOLEAN /\ taken \in Seq(Byte)
      /\ Tick(mount # <<>>, all_written, tx_fifo = <<>>)
      /\ tx_fifo' = IF state = "kWrite" /\ ~Overdue THEN tx_fifo \o taken ELSE tx_fifo
      /\ ~ShortWrites => all_written /\ taken = packet.bytes
  BY <1>1, <1>2, <1>3 DEF Writing
<1> HIDE DEF all_written, taken
<1>5. QED
  BY <1>4

LEMMA TickKeeps ==
  ASSUME BridgeInv, TickTransmitter
  PROVE  BridgeInv'
<1> DEFINE bus_busy == mount # <<>>
           tx_complete == tx_fifo = <<>>
<1>0. packet.bytes \in Seq(Byte) /\ TickOnBus
  BY DEF BridgeInv, IInv, TypeOK, AuxPacket, TickTransmitter
<1>1. PICK all_written \in BOOLEAN, taken \in Seq(Byte) :
        /\ pc = "tick" /\ pc' = "recover" /\ Tick(bus_busy, all_written, tx_complete)
        /\ UNCHANGED <<service, history>> /\ UNCHANGED <<rx_fifo, mount>>
        /\ tx_fifo' = IF state = "kWrite" /\ ~Overdue THEN tx_fifo \o taken ELSE tx_fifo
  <2>1. /\ pc = "tick" /\ pc' = "recover"
        /\ UNCHANGED <<service, history>> /\ UNCHANGED <<rx_fifo, mount>>
    BY DEF TickTransmitter, TickOnBus
  <2>2. QED
    BY <1>0, <2>1, TickOfBus
<1>2. bus_busy \in BOOLEAN /\ tx_complete \in BOOLEAN /\ IInv
  BY DEF BridgeInv
<1>3. ~bus_busy => mount = <<>>
  OBVIOUS
<1> HIDE DEF bus_busy, tx_complete
<1>4. IInv'
  BY <1>1, <1>2, IInvTick
<1>5. BridgeType'
  <2>1. FifoType'
    BY <1>1 DEF BridgeInv, BridgeType, FifoType
  <2>2. QED
    BY <1>1, <2>1 DEF BridgeInv, BridgeType, ServiceType, service, history
<1>6. state = "kWrite" => state' \in {"kUartDrain", "kFault"}
  BY <1>1, WriteMoves
<1>7. UNCHANGED <<tracker, router, echo_tracking, echo_matches_at_start,
                  recovery_pending, fault_started_us, host_packets, mount, raced>>
  BY <1>1 DEF service, history
<1>8. Received(router') = Received(router) - 0 /\ tracker'.matches = tracker.matches
  BY <1>7, NumbersType
<1>9. CASE UNCHANGED vars
  <2>1. UNCHANGED <<state, state_entered_us, controlled_transaction, metrics, echo_complete>>
    BY <1>9 DEF vars, counts, flags
  <2>2. NoMountOnOurBus' /\ EchoOfThisPacket'
    BY <1>6, <1>7, <2>1 DEF BridgeInv, NoMountOnOurBus, EchoOfThisPacket, EchoFlagFresh
  <2>3. /\ Received(router') \in Nat /\ host_packets' \in Nat
        /\ host_packets' - host_packets = Received(router') - Received(router)
    BY <1>7, NumbersType
  <2>4. QED
    BY <1>1, <1>4, <1>5, <1>7, <2>1, <2>2, <2>3, QuietKeeps
<1>10. CASE TickFrame /\ TickAdvances(bus_busy)
  <2>1. controlled_transaction' = FALSE /\ controlled_transaction = FALSE
    BY <1>10 DEF BridgeInv, NeverControlled, TickFrame, IInv, TypeOK
  <2>2. /\ state' \notin {"kFault", "kIdle", "kResponseWait"}
        /\ state \notin {"kFault", "kIdle"}
        /\ state' = "kBusyClaim" => ~bus_busy
        /\ state' \in OwnerStates => state \in {"kBusyClaim"} \cup OwnerStates
        /\ state = "kWrite" => state' = "kUartDrain"
        /\ state = "kUartDrain" => state' = "kEchoWait"
        /\ state # "kEchoWait"
        /\ state' = "kWrite" => state = "kTxEnable"
    BY <1>10, <2>1 DEF TickAdvances, OwnerStates
  <2>3. echo_complete' => echo_complete /\ state' # "kBusWait"
    BY <1>10 DEF TickAdvances, flags
  <2>4. ~echo_complete => ~echo_complete'
    BY <2>3
  <2>5. NoMountOnOurBus'
    BY <1>3, <1>7, <2>2 DEF BridgeInv, NoMountOnOurBus
  <2>6. FaultNoted' /\ NeverControlled'
    BY <1>7, <2>1, <2>2 DEF BridgeInv, FaultNoted, NeverControlled
  <2>7. EchoOfThisPacket'
    BY <1>1, <1>7, <2>2, <2>3, <2>4 DEF BridgeInv, EchoOfThisPacket, EchoFlagFresh
  <2>8. /\ metrics'["start_requests"] = metrics["start_requests"] + 0
        /\ metrics'["completed_packets"] = metrics["completed_packets"] + 0
        /\ metrics'["faults"] = metrics["faults"] + 0
    BY <1>10, NumbersType DEF TickAdvances, Counters
  <2>9. /\ (IF InFlight' THEN 1 ELSE 0) = (IF InFlight THEN 1 ELSE 0) + 0 - 0 - 0
        /\ (IF InFlight' /\ echo_complete' THEN 1 ELSE 0) + 0
             <= (IF InFlight /\ echo_complete THEN 1 ELSE 0)
    BY <2>2, <2>3 DEF InFlight
  <2>10. CompletionsAreMatched' /\ NothingLost'
    BY <1>5, <1>7, <1>8, <2>8, <2>9, BooksKeep
  <2>11. QED
    BY <1>4, <1>5, <2>5, <2>6, <2>7, <2>10 DEF BridgeInv
<1>11. CASE TickFrame /\ TickCompletes
  <2>1. /\ state = "kEchoWait" /\ echo_complete /\ state' = "kIdle"
        /\ Count({"completed_packets"}) /\ UNCHANGED controlled_transaction
    BY <1>11 DEF BridgeInv, NeverControlled, TickCompletes, CompletePacket, Transition,
       TickFrame
  <2>2. NoMountOnOurBus' /\ FaultNoted' /\ NeverControlled' /\ EchoOfThisPacket'
    BY <1>7, <2>1 DEF BridgeInv, NoMountOnOurBus, FaultNoted, NeverControlled,
       EchoOfThisPacket, EchoFlagFresh, OwnerStates
  <2>3. /\ metrics'["start_requests"] = metrics["start_requests"] + 0
        /\ metrics'["completed_packets"] = metrics["completed_packets"] + 1
        /\ metrics'["faults"] = metrics["faults"] + 0
    BY <2>1, NumbersType DEF Count, Counters
  <2>4. /\ (IF InFlight' THEN 1 ELSE 0) = (IF InFlight THEN 1 ELSE 0) + 0 - 1 - 0
        /\ (IF InFlight' /\ echo_complete' THEN 1 ELSE 0) + 1
             <= (IF InFlight /\ echo_complete THEN 1 ELSE 0)
    BY <2>1 DEF InFlight
  <2>5. CompletionsAreMatched' /\ NothingLost'
    BY <1>5, <1>7, <1>8, <2>3, <2>4, BooksKeep
  <2>6. QED
    BY <1>4, <1>5, <2>2, <2>5 DEF BridgeInv
<1>12. CASE TickFrame /\ TickFaults
  <2>1. PICK fault \in AuxTxFault \ {"kNone"} : EnterFault(fault)
    BY <1>12 DEF TickFaults
  <2>2. /\ InFlight /\ state' = "kFault" /\ state_entered_us' = now_us /\ now_us' = now_us
        /\ echo_complete' = echo_complete /\ UNCHANGED controlled_transaction
    BY <1>12, <2>1 DEF TickFaults, EnterFault, Transition, TickFrame, flags
  <2>3. NoMountOnOurBus' /\ FaultNoted' /\ NeverControlled' /\ EchoOfThisPacket'
    BY <1>1, <1>7, <2>2 DEF BridgeInv, NoMountOnOurBus, FaultNoted, NeverControlled,
       EchoOfThisPacket, EchoFlagFresh, OwnerStates, InFlight
  <2>4. /\ metrics'["start_requests"] = metrics["start_requests"] + 0
        /\ metrics'["completed_packets"] = metrics["completed_packets"] + 0
        /\ metrics'["faults"] = metrics["faults"] + 1
    BY <2>1, NumbersType DEF EnterFault, Count, Counters
  <2>5. /\ (IF InFlight' THEN 1 ELSE 0) = (IF InFlight THEN 1 ELSE 0) + 0 - 0 - 1
        /\ (IF InFlight' /\ echo_complete' THEN 1 ELSE 0) + 0
             <= (IF InFlight /\ echo_complete THEN 1 ELSE 0)
    BY <2>2 DEF InFlight
  <2>6. CompletionsAreMatched' /\ NothingLost'
    BY <1>5, <1>7, <1>8, <2>4, <2>5, BooksKeep
  <2>7. QED
    BY <1>4, <1>5, <2>3, <2>6 DEF BridgeInv
<1>13. QED
  BY <1>1, <1>2, <1>9, <1>10, <1>11, <1>12, TickOutcome

LEMMA RecoverKeeps ==
  ASSUME BridgeInv, RecoverBridge
  PROVE  BridgeInv'
<1>1. /\ pc = "recover" /\ pc' = "after" /\ RecoverFromFault
      /\ UNCHANGED <<bus, router, output_active, echo_matches_at_start, active_packet,
                     host_packets, raced>>
  BY DEF RecoverBridge
<1>2. ServiceType /\ FifoType /\ tracker.matches \in Nat
  BY NumbersType DEF BridgeInv, BridgeType
<1>3. CASE /\ state = "kFault" /\ recovery_pending
           /\ Abandon /\ Recover
           /\ recovery_pending' = FALSE
           /\ UNCHANGED fault_started_us
  <2>1. IInv'
    BY <1>3, IInvRecover DEF BridgeInv
  <2>2. /\ TrackerOK(tracker') /\ tracker'.matches = tracker.matches
        /\ echo_tracking' = FALSE /\ aux_decoder' \in Decoder
    BY <1>2, <1>3, CancelOK, ResetType DEF Abandon, ServiceType
  <2>3. BridgeType'
    BY <1>1, <1>2, <1>3, <2>2
    DEF BridgeType, FifoType, ServiceType, bus, fifos
  <2>4. /\ state = "kFault" /\ state' = "kIdle" /\ ~echo_complete' /\ mount' = mount
        /\ controlled_transaction' = FALSE /\ Count({"recoveries"})
    BY <1>1, <1>3 DEF Recover, bus
  <2>5. NoMountOnOurBus' /\ FaultNoted' /\ NeverControlled' /\ EchoOfThisPacket'
    BY <1>1, <1>3, <2>2, <2>4 DEF BridgeInv, NoMountOnOurBus, FaultNoted, NeverControlled,
       EchoOfThisPacket, EchoFlagFresh, OwnerStates
  <2>6. /\ metrics'["start_requests"] = metrics["start_requests"] + 0
        /\ metrics'["completed_packets"] = metrics["completed_packets"] + 0
        /\ metrics'["faults"] = metrics["faults"] + 0
    BY <2>4, NumbersType DEF Count, Counters
  <2>7. /\ (IF InFlight' THEN 1 ELSE 0) = (IF InFlight THEN 1 ELSE 0) + 0 - 0 - 0
        /\ (IF InFlight' /\ echo_complete' THEN 1 ELSE 0) + 0
             <= (IF InFlight /\ echo_complete THEN 1 ELSE 0)
    BY <2>4 DEF InFlight
  <2>8. Received(router') = Received(router) - 0 /\ host_packets' = host_packets
    BY <1>1, NumbersType
  <2>9. CompletionsAreMatched' /\ NothingLost'
    BY <2>2, <2>3, <2>6, <2>7, <2>8, BooksKeep
  <2>10. QED
    BY <2>1, <2>3, <2>5, <2>9 DEF BridgeInv
<1>4. CASE UNCHANGED <<vars, tracker, echo_tracking, aux_decoder>>
  <2>1. IInv' /\ UNCHANGED <<state, state_entered_us, controlled_transaction, metrics,
                             echo_complete, mount, host_packets, router>>
    BY <1>1, <1>4, IInvStutter DEF BridgeInv, vars, counts, flags, bus
  <2>2. /\ recovery_pending' \in BOOLEAN
        /\ recovery_pending' <=> state = "kFault"
        /\ recovery_pending' => fault_started_us' = state_entered_us
    BY <1>1, <1>2, <2>1 DEF BridgeInv, FaultNoted, RecoverFromFault, NoteFault, Recover,
       ServiceType
  <2>3. BridgeType'
    BY <1>1, <1>2, <1>4, <2>2
    DEF BridgeType, FifoType, ServiceType, bus, fifos
  <2>4. NoMountOnOurBus' /\ FaultNoted' /\ NeverControlled' /\ EchoOfThisPacket'
    BY <1>1, <1>4, <2>1, <2>2 DEF BridgeInv, NoMountOnOurBus, FaultNoted, NeverControlled,
       EchoOfThisPacket, EchoFlagFresh
  <2>5. CompletionsAreMatched' /\ NothingLost'
    BY <1>4, <2>1 DEF BridgeInv, CompletionsAreMatched, NothingLost, InFlight
  <2>6. QED
    BY <2>1, <2>3, <2>4, <2>5 DEF BridgeInv
<1>5. QED
  BY <1>1, <1>3, <1>4 DEF RecoverFromFault

----------------------------------------------------------------------------
(* The bus's steps, and the invariant *)

\* Whatever the bus carries and a frame of the mount are bytes.
LEMMA BusCarriesBytes ==
  ASSUME FifoType, NEW heard \in Heard
  PROVE  heard \in Seq(Byte)
<1>1. \A b \in Byte : <<b>> \in Seq(Byte)
  OBVIOUS
<1>2. <<>> \in Seq(Byte)
  OBVIOUS
<1>3. tx_fifo # <<>> => Head(tx_fifo) \in Byte
  BY DEF FifoType
<1>4. mount # <<>> => Head(mount) \in Byte
  BY DEF FifoType
<1>5. NoiseBytes \subseteq Byte
  BY BusAssumption
<1>6. QED
  BY <1>1, <1>2, <1>3, <1>4, <1>5 DEF Heard, Driving

LEMMA ShiftType ==
  ASSUME NEW fifo \in Seq(Byte)
  PROVE  Shift(fifo) \in Seq(Byte) /\ (fifo = <<>> => Shift(fifo) = <<>>)
BY DEF Shift

LEMMA SlotKeeps ==
  ASSUME BridgeInv, BusSlot
  PROVE  BridgeInv'
<1>1. /\ pc \in {"host", "drain", "tick"} /\ pc' = pc
      /\ UNCHANGED <<service, host_packets, raced>>
      /\ tx_fifo' = Shift(tx_fifo) /\ mount' = Shift(mount)
      /\ UNCHANGED vars \/ Elapse(1)
  BY DEF BusSlot, BusMoves
<1>2. PICK heard \in Heard : rx_fifo' = rx_fifo \o heard
  BY DEF BusSlot, BusMoves
<1>3. FifoType /\ ServiceType
  BY DEF BridgeInv, BridgeType
<1>4. /\ IInv'
      /\ UNCHANGED <<state, state_entered_us, controlled_transaction, metrics, echo_complete>>
  <2>1. CASE UNCHANGED vars
    BY <2>1, IInvStutter DEF BridgeInv, vars, counts, flags
  <2>2. CASE Elapse(1)
    <3>1. 1 \in 0..ClockMod
      BY TransmitterAssumption
    <3>2. QED
      BY <2>2, <3>1, IInvElapse DEF BridgeInv, Elapse, counts, flags
  <2>3. QED
    BY <1>1, <2>1, <2>2
<1>5. FifoType' /\ (mount = <<>> => mount' = <<>>)
  <2>1. /\ tx_fifo' \in Seq(Byte) /\ mount' \in Seq(Byte)
        /\ mount = <<>> => mount' = <<>>
    BY <1>1, <1>3, ShiftType DEF FifoType
  <2>2. rx_fifo' \in Seq(Byte)
    <3>1. heard \in Seq(Byte)
      BY <1>3, BusCarriesBytes
    <3>2. QED
      BY <1>2, <1>3, <3>1 DEF FifoType
  <2>3. QED
    BY <2>1, <2>2 DEF FifoType
<1>6. UNCHANGED <<tracker, router, echo_tracking, echo_matches_at_start,
                  recovery_pending, fault_started_us, host_packets>>
  BY <1>1 DEF service
<1>7. BridgeType'
  BY <1>1, <1>3, <1>5 DEF BridgeInv, BridgeType, ServiceType, service
<1>8. NoMountOnOurBus' /\ EchoOfThisPacket'
  BY <1>1, <1>4, <1>5, <1>6
  DEF BridgeInv, NoMountOnOurBus, EchoOfThisPacket, EchoFlagFresh
<1>9. /\ Received(router') \in Nat /\ host_packets' \in Nat
      /\ host_packets' - host_packets = Received(router') - Received(router)
  BY <1>6, NumbersType
<1>10. QED
  BY <1>1, <1>4, <1>6, <1>7, <1>8, <1>9, QuietKeeps

LEMMA MountKeeps ==
  ASSUME BridgeInv, MountBegins
  PROVE  BridgeInv'
<1>1. PICK f \in MountFrames : MountSends(f)
  BY DEF MountBegins
<1>2. /\ pc \in {"host", "tick"} /\ pc' = pc /\ mount' = f.bytes
      /\ ~busy_asserted /\ (MountRaces \/ state # "kBusyClaim")
      /\ raced' = (state = "kBusyClaim")
      /\ UNCHANGED <<vars, fifos>> /\ UNCHANGED service
      /\ UNCHANGED host_packets
  BY <1>1 DEF MountBegins, MountSends
<1>3. /\ IInv' /\ FifoType /\ ServiceType
      /\ UNCHANGED <<state, state_entered_us, controlled_transaction, metrics,
                     echo_complete>>
  BY <1>2, IInvStutter DEF BridgeInv, BridgeType, vars, counts, flags
<1>4. mount' \in Seq(Byte)
  BY <1>2, BridgeAssumption DEF AuxPacket
<1>5. UNCHANGED <<tracker, router, echo_tracking, echo_matches_at_start,
                  recovery_pending, fault_started_us, host_packets>>
  BY <1>2 DEF service
<1>6. BridgeType'
  BY <1>2, <1>3, <1>4 DEF BridgeInv, BridgeType, FifoType, ServiceType, service, fifos
<1>7. NoMountOnOurBus'
  BY <1>2, <1>3 DEF BridgeInv, IInv, OutputsFollowState, NoMountOnOurBus
<1>8. EchoOfThisPacket'
  BY <1>2, <1>3, <1>5 DEF BridgeInv, EchoOfThisPacket, EchoFlagFresh
<1>9. /\ Received(router') \in Nat /\ host_packets' \in Nat
      /\ host_packets' - host_packets = Received(router') - Received(router)
  BY <1>5, NumbersType
<1>10. QED
  BY <1>2, <1>3, <1>5, <1>6, <1>7, <1>8, <1>9, QuietKeeps

\* The end of the drain, and a step that changes nothing here.
LEMMA RestKeeps ==
  ASSUME BridgeInv, UNCHANGED <<vars, bus, service, history>>,
         pc' = pc \/ (pc = "drain" /\ pc' = "start")
  PROVE  BridgeInv'
<1>1. /\ IInv'
      /\ UNCHANGED <<state, state_entered_us, controlled_transaction, metrics,
                     echo_complete, now_us>>
  BY IInvStutter DEF BridgeInv, vars, counts, flags
<1>2. UNCHANGED <<tracker, router, echo_tracking, echo_matches_at_start,
                  recovery_pending, fault_started_us, host_packets, mount, raced>>
  BY DEF service, history, bus
<1>3. BridgeType'
  BY DEF BridgeInv, BridgeType, FifoType, ServiceType, service, history, bus, fifos
<1>4. QED
  BY <1>1, <1>2, <1>3 DEF BridgeInv, NoMountOnOurBus, FaultNoted, NeverControlled,
     EchoOfThisPacket, EchoFlagFresh, CompletionsAreMatched, NothingLost, InFlight

LEMMA BridgeInvStep == BridgeInv /\ [BridgeNext]_bridgeVars => BridgeInv'
<1>1. BridgeInv /\ DrainDone => BridgeInv'
  BY RestKeeps DEF DrainDone
<1>2. BridgeInv /\ UNCHANGED <<vars, bus, service, history>> /\ pc' = pc => BridgeInv'
  BY RestKeeps
<1>3. UNCHANGED bridgeVars => UNCHANGED <<vars, bus, service, history>> /\ pc' = pc
  BY DEF bridgeVars
<1>4. QED
  BY <1>1, <1>2, <1>3, HostKeeps, TrackKeeps, DrainKeeps, StartKeeps, TickKeeps,
     RecoverKeeps, SlotKeeps, MountKeeps DEF BridgeNext, Round

LEMMA BridgeInvariance == BridgeSpec => []BridgeInv
BY BridgeInvInit, BridgeInvStep, PTL DEF BridgeSpec

----------------------------------------------------------------------------
(* The theorems *)

\* However late the echo of a failed packet comes in, it is never noted for the
\* next one (EchoFlagFresh): ServiceUsbBridge notifies the transmitter only of
\* an echo whose tracking began in this transaction's write.
THEOREM EchoesStayFresh == BridgeSpec => []EchoFlagFresh
<1>1. BridgeInv => EchoFlagFresh
  BY DEF BridgeInv, EchoOfThisPacket
<1>2. QED
  BY <1>1, BridgeInvariance, PTL

\* The transmitter completes no packet without a match of its own
\* (CompletionsAreMatched), whatever noise and contention do to the echoes.
THEOREM OneEchoOneCompletion == BridgeSpec => []CompletionsAreMatched
<1>1. BridgeInv => CompletionsAreMatched
  BY DEF BridgeInv
<1>2. QED
  BY <1>1, BridgeInvariance, PTL

\* No packet of the host's disappears between the queue and the transmitter
\* (NothingLost): start() never refuses what the loop takes from the queue,
\* and each packet it takes ends in one completion or one fault.
THEOREM EveryPacketAccounted == BridgeSpec => []NothingLost
<1>1. BridgeInv => NothingLost
  BY DEF BridgeInv
<1>2. QED
  BY <1>1, BridgeInvariance, PTL

\* The bridge drives the bus while the mount does only if the mount's frame began
\* in the round between our look at CTS and our claim (OnlyRacesCollide), whatever
\* the timing of the rounds and of the mount: a frame under way keeps us off the bus,
\* and BUSY, held for as long as TX is enabled, keeps the mount off it.
THEOREM CollisionsAreRaces == BridgeSpec => []OnlyRacesCollide
<1>1. BridgeInv => OnlyRacesCollide
  BY DEF BridgeInv, IInv, OutputsFollowState, DrivingStates, OwnerStates,
     NoMountOnOurBus, OnlyRacesCollide
<1>2. QED
  BY <1>1, BridgeInvariance, PTL

\* A step counts a recovery only out of a fault as old as the backoff.
LEMMA RecoveryIsLate ==
  ASSUME BridgeInv, [BridgeNext]_bridgeVars,
         metrics'["recoveries"] # metrics["recoveries"]
  PROVE  state = "kFault" /\ Elapsed >= RecoveryBackoff
<1>1. CASE HostTurn \/ Track \/ DrainDone \/ MountBegins \/ UNCHANGED bridgeVars
  BY <1>1 DEF HostTurn, Track, DrainDone, MountBegins, MountSends, bridgeVars, vars, counts
<1>2. CASE DrainByte \/ BusSlot
  BY <1>2 DEF DrainByte, BusSlot, BusMoves, NotifyEchoComplete, Elapse, vars, counts
<1>3. CASE StartNext
  BY <1>3 DEF StartNext, Start, RefuseStart, AcceptStart, Refusal, Count, Counters,
     Rejections, vars, counts
<1>4. CASE TickTransmitter
  <2> DEFINE bus_busy == mount # <<>>
             tx_complete == tx_fifo = <<>>
  <2>0. packet.bytes \in Seq(Byte) /\ TickOnBus
    BY <1>4 DEF BridgeInv, IInv, TypeOK, AuxPacket, TickTransmitter
  <2>1. PICK all_written \in BOOLEAN : Tick(bus_busy, all_written, tx_complete)
    BY <2>0, TickOfBus
  <2>2. bus_busy \in BOOLEAN /\ tx_complete \in BOOLEAN /\ IInv
    BY DEF BridgeInv
  <2> HIDE DEF bus_busy, tx_complete
  <2>3. \/ UNCHANGED vars \/ TickAdvances(bus_busy) \/ TickCompletes \/ TickFaults
    BY <2>1, <2>2, TickOutcome
  <2>4. metrics'["recoveries"] = metrics["recoveries"]
    BY <2>3 DEF vars, counts, TickAdvances, TickCompletes, CompletePacket, TickFaults,
       EnterFault, Count, Counters
  <2>5. QED
    BY <2>4
<1>5. CASE RecoverBridge
  BY <1>5 DEF RecoverBridge, RecoverFromFault, BridgeInv, FaultNoted, Elapsed, vars, counts
<1>6. QED
  BY <1>1, <1>2, <1>3, <1>4, <1>5 DEF BridgeNext, Round

\* Every fault is followed by the whole backoff before the bridge takes the bus
\* up again (RecoveryHoldsOff): bridge_fault_started_us is the time of this
\* fault, never of an earlier one.
THEOREM BackoffIsKept == BridgeSpec => RecoveryHoldsOff
<1>1. BridgeInv /\ [BridgeNext]_bridgeVars =>
        [metrics'["recoveries"] # metrics["recoveries"]
           => state = "kFault" /\ Elapsed >= RecoveryBackoff]_bridgeVars
  BY RecoveryIsLate
<1>2. QED
  BY <1>1, BridgeInvariance, PTL DEF BridgeSpec, RecoveryHoldsOff
----------------------------------------------------------------------------
(* A clean bus *)

\* The echo window outlasts a packet and three rounds, but for the byte times in
\* which all three cannot fall: tracking begins up to a round before the write, the
\* drain is noticed up to a round after it ends, and read up to a round after that.
FitsWindow(size) == size + 3 * MaxRound < EchoWindowMs(size) + 3

\* No noise, no race for BUSY, no short write, and rounds short enough for the packets
\* the host sends: the echo window and the timeouts leave room for them.
CleanBus ==
  /\ MaxNoise = 0 /\ ~MountRaces /\ ~ShortWrites
  /\ \A p \in HostPackets : /\ Size(p) <= MaximumPacketSize
                            /\ FitsWindow(Size(p)) /\ FitsTimeouts(Size(p), MaxRound)

RoundTime ==
  /\ round_us \in 0..MaxRound /\ noise \in Nat
  /\ pc \in {"track", "drain", "start", "tick"} => round_us >= 1

OwnPacket == InFlight => active_packet = packet /\ packet \in HostPackets

\* Nothing is left to send but in the drain, and nothing to read from before the write.
Quiet ==
  /\ state # "kUartDrain" => tx_fifo = <<>>
  /\ \/ state = "kBusyClaim" /\ pc \in {"start", "tick"}
     \/ state \in {"kClaimDelay", "kTxEnable", "kWrite"}
     => rx_fifo = <<>>

InTime ==
  InFlight =>
    /\ HeldInTime(MaxRound, round_us) /\ DrainsInTime(Size(packet), round_us)
    /\ state = "kUartDrain" =>
         Len(tx_fifo) = IF Elapsed <= Size(packet) THEN Size(packet) - Elapsed ELSE 0

\* The time left until the tracker gives up.
Left == Delta(tracker.deadline_ms, now_us)

Tracked ==
  /\ echo_tracking /\ tracker.active /\ tracker.expected = packet.bytes
  /\ Left <= EchoWindowMs(Size(packet))

\* The echo is tracked from the write on, in order, and the window outlasts it; the
\* second round after the drain finds it complete.
EchoAwaited ==
  /\ state = "kWrite" /\ pc \notin {"drain", "start", "tick"} => ~echo_tracking
  /\ state = "kWrite" /\ pc \in {"drain", "start", "tick"} =>
       /\ Tracked /\ tracker.matched = 0
       /\ Left + round_us > EchoWindowMs(Size(packet))
  /\ state \in {"kUartDrain", "kEchoWait"} /\ ~echo_complete =>
       Tracked /\ EchoInOrder(packet.bytes, tracker.matched, rx_fifo, tx_fifo)
  /\ state = "kUartDrain" /\ ~echo_complete =>
       /\ Left + Elapsed + MaxRound > EchoWindowMs(Size(packet))
       /\ pc \in {"start", "tick"} => Elapsed + 1 < Size(packet) + round_us
  /\ state = "kEchoWait" /\ ~echo_complete =>
       /\ Left + round_us + Size(packet) + 2 * MaxRound > EchoWindowMs(Size(packet)) + 2
       /\ pc \notin {"start", "tick"}

CleanInv ==
  /\ BridgeInv
  /\ last_fault \in {"kContentionTimeout", "kNone"}
  /\ RoundTime /\ OwnPacket /\ Quiet /\ InTime /\ EchoAwaited

LEMMA SentPacket ==
  ASSUME CleanBus, BridgeInv, OwnPacket, InFlight
  PROVE  /\ packet \in HostPackets /\ packet \in AuxPacket /\ packet.bytes \in Seq(Byte)
         /\ Size(packet) = Len(packet.bytes) /\ Size(packet) \in Nat \ {0}
         /\ Begins(packet) /\ EchoWindowMs(Size(packet)) \in 1..(MsMod \div 2)
         /\ FitsWindow(Size(packet)) /\ FitsTimeouts(Size(packet), MaxRound)
         /\ MaxRound \in Nat \ {0}
<1>1. packet \in HostPackets /\ packet \in AuxPacket
  BY BridgeAssumption, TransmitterAssumption DEF OwnPacket
<1>2. packet.bytes \in Seq(Byte) /\ Size(packet) = Len(packet.bytes)
  BY <1>1 DEF AuxPacket, Size
<1>3. Size(packet) \in Nat \ {0}
  BY <1>1, <1>2, BridgeAssumption, ProtocolAssumption DEF HasValidAuxChecksum
<1>4. /\ Size(packet) <= MaximumPacketSize /\ FitsWindow(Size(packet))
      /\ FitsTimeouts(Size(packet), MaxRound)
  BY <1>1 DEF CleanBus
<1>5. Size(packet) \in 1..MaximumPacketSize
  BY <1>3, <1>4, ProtocolAssumption
<1>6. EchoWindowMs(Size(packet)) \in 1..(MsMod \div 2)
  BY <1>5, WindowBounds
<1>7. QED
  BY <1>1, <1>2, <1>3, <1>4, <1>5, <1>6, BusAssumption DEF Begins

\* While the echo is awaited the deadline is ahead, and the clock's next step brings it
\* one nearer.
LEMMA EchoInWindow ==
  ASSUME CleanBus, CleanInv,
         \/ state = "kWrite" /\ pc \in {"drain", "start", "tick"}
         \/ state \in {"kUartDrain", "kEchoWait"} /\ ~echo_complete
  PROVE  /\ Left \in 1..(MsMod \div 2) /\ ~DeadlineReached(now_us, tracker.deadline_ms)
         /\ TrackerOK(tracker) /\ tracker.deadline_ms \in Ms /\ now_us \in Ms
<1> DEFINE n == Size(packet)
           window == EchoWindowMs(n)
<1>1. /\ n \in Nat \ {0} /\ window \in 1..(MsMod \div 2) /\ MaxRound \in Nat \ {0}
      /\ n + 3 * MaxRound < window + 3
  BY SentPacket DEF CleanInv, InFlight, FitsWindow
<1>2. /\ TrackerOK(tracker) /\ tracker.deadline_ms \in Ms /\ now_us \in Ms
      /\ tracker.deadline_ms \in Instant /\ now_us \in Instant
  BY TrackerFields, ClocksAgree DEF CleanInv, BridgeInv, BridgeType, ServiceType, IInv, TypeOK
<1>3. Left \in Nat /\ Left = ElapsedMs(tracker.deadline_ms, now_us)
  BY <1>2, DeltaInstant, BridgeAssumption DEF Left, Delta, ElapsedMs, Instant
<1>4. Left <= window
  BY DEF CleanInv, EchoAwaited, Tracked
<1>5. Left >= 1
  <2>1. round_us \in 0..MaxRound /\ Elapsed \in Nat
    BY TimesType DEF CleanInv, RoundTime, BridgeInv
  <2>2. CASE state = "kWrite"
    <3>1. Left + round_us > window
      BY <2>2 DEF CleanInv, EchoAwaited
    <3>2. QED
      BY <1>1, <1>3, <2>1, <3>1
  <2>3. CASE state = "kUartDrain" /\ ~echo_complete
    <3>1. Left + Elapsed + MaxRound > window /\ Elapsed < n + round_us
      BY <2>3 DEF CleanInv, EchoAwaited, InTime, InFlight, DrainsInTime
    <3>2. QED
      BY <1>1, <1>3, <2>1, <3>1
  <2>4. CASE state = "kEchoWait" /\ ~echo_complete
    <3>1. Left + round_us + n + 2 * MaxRound > window + 2
      BY <2>4 DEF CleanInv, EchoAwaited
    <3>2. QED
      BY <1>1, <1>3, <2>1, <3>1
  <2>5. QED
    BY <2>2, <2>3, <2>4
<1>6. Left \in 1..(MsMod \div 2)
  BY <1>1, <1>3, <1>4, <1>5, MsHalf
<1>7. QED
  BY <1>2, <1>3, <1>6, NotYetDue

LEMMA CleanInvInit ==
  ASSUME CleanBus, BridgeInit
  PROVE  CleanInv
<1>1. state = "kIdle" /\ last_fault = "kNone" /\ ~InFlight
  BY DEF BridgeInit, BusInit, Init, InFlight
<1>2. tx_fifo = <<>> /\ round_us = 0 /\ noise = 0 /\ pc = "host"
  BY DEF BridgeInit, BusInit
<1>3. QED
  BY <1>1, <1>2, BridgeInvInit, BusAssumption
  DEF CleanInv, RoundTime, OwnPacket, Quiet, InTime, EchoAwaited

\* Steps that leave the transmitter, the tracker and the bus alone.
LEMMA RestCleanly ==
  ASSUME CleanInv, BridgeInv',
         UNCHANGED <<vars, fifos, noise, round_us, tracker, echo_tracking, active_packet>>,
         \/ pc' = pc
         \/ <<pc, pc'>> = <<"host", "track">> /\ round_us > 0
         \/ <<pc, pc'>> = <<"start", "tick">>
         \/ <<pc, pc'>> = <<"recover", "after">>
         \/ <<pc, pc'>> = <<"after", "host">>
  PROVE  CleanInv'
<1>1. /\ UNCHANGED <<now_us, state, packet, last_fault, echo_complete, tx_fifo, rx_fifo>>
      /\ InFlight' = InFlight /\ Elapsed' = Elapsed /\ Held' = Held /\ Left' = Left
  BY DEF vars, busy, counts, flags, fifos, InFlight, Elapsed, Held, Left, Delta
<1>2. RoundTime'
  BY DEF CleanInv, RoundTime
<1>3. OwnPacket' /\ Quiet'
  BY <1>1 DEF CleanInv, OwnPacket, Quiet
<1>4. InTime'
  BY <1>1 DEF CleanInv, InTime, HeldInTime, DrainsInTime, vars
<1>5. Tracked' <=> Tracked
  BY <1>1 DEF Tracked
<1>6. EchoAwaited'
  BY <1>1, <1>5 DEF CleanInv, EchoAwaited
<1>7. QED
  BY <1>1, <1>2, <1>3, <1>4, <1>6 DEF CleanInv

\* The tracker is polled before its deadline, and begun anew at the write.
LEMMA TrackCleanly ==
  ASSUME CleanBus, CleanInv, Track
  PROVE  CleanInv'
<1> DEFINE begun    == IF BeginsTracking THEN Begin(tracker, active_packet, Now) ELSE tracker
           tracking == IF BeginsTracking THEN Begins(active_packet) ELSE echo_tracking
           o        == IF tracking THEN Poll(begun, Now)
                       ELSE [tracker |-> begun, forward |-> <<>>]
<1>1. /\ pc = "track" /\ pc' = "drain"
      /\ tracker' = o.tracker /\ echo_tracking' = (tracking /\ o.tracker.active)
      /\ UNCHANGED <<vars, fifos, noise, round_us, active_packet>>
  BY DEF Track, bus
<1>2. BridgeInv'
  BY TrackKeeps DEF CleanInv
<1>3. /\ UNCHANGED <<now_us, state, packet, last_fault, echo_complete, tx_fifo, rx_fifo>>
      /\ InFlight' = InFlight /\ Elapsed' = Elapsed /\ Held' = Held
  BY <1>1 DEF vars, busy, counts, flags, fifos, InFlight, Elapsed, Held, Delta
<1>4. RoundTime' /\ OwnPacket' /\ Quiet'
  BY <1>1, <1>3 DEF CleanInv, RoundTime, OwnPacket, Quiet
<1>5. InTime'
  BY <1>1, <1>3 DEF CleanInv, InTime, HeldInTime, DrainsInTime, vars
<1>6. EchoAwaited'
  <2>1. CASE state = "kWrite"
    <3> DEFINE window == EchoWindowMs(Size(packet))
    <3>1. /\ InFlight /\ BeginsTracking /\ active_packet = packet
      BY <1>1, <2>1 DEF CleanInv, EchoAwaited, BeginsTracking, OwnPacket, InFlight
    <3>2. /\ packet \in AuxPacket /\ Begins(packet) /\ window \in 1..(MsMod \div 2)
      BY <3>1, SentPacket DEF CleanInv
    <3>3. now_us \in Ms /\ TrackerOK(tracker)
      BY ClocksAgree DEF CleanInv, BridgeInv, BridgeType, ServiceType, IInv, TypeOK
    <3>4. /\ begun = Begin(tracker, packet, now_us) /\ tracking
          /\ o = Poll(begun, now_us)
      BY <3>1, <3>2 DEF Now
    <3> HIDE DEF begun, tracking, o
    <3>5. /\ TrackerOK(begun) /\ begun.active /\ begun.expected = packet.bytes
          /\ begun.matched = 0 /\ begun.deadline_ms = (now_us + window) % MsMod
      BY <3>2, <3>3, <3>4, BeginOK
    <3>6. ElapsedMs(begun.deadline_ms, now_us) = window
      BY <3>2, <3>3, <3>5, SetAhead
    <3>7. begun.deadline_ms \in Ms
      BY <3>5, TrackerFields
    <3>8. ~DeadlineReached(now_us, begun.deadline_ms)
      BY <3>2, <3>3, <3>6, <3>7, NotYetDue
    <3>9. o = [tracker |-> begun, forward |-> <<>>]
      BY <3>4, <3>8 DEF Poll
    <3>10. tracker' = begun /\ echo_tracking'
      <4>1. o.tracker = begun
        BY <3>9
      <4>2. QED
        BY <1>1, <3>4, <3>5, <4>1
    <3>11. Left' = window
      BY <1>3, <3>6, <3>10, BridgeAssumption DEF Left, Delta, ElapsedMs
    <3>12. Tracked' /\ tracker'.matched = 0
      BY <1>3, <3>2, <3>5, <3>10, <3>11 DEF Tracked
    <3>13. Left' + round_us' > window
      BY <1>1, <3>2, <3>11 DEF CleanInv, RoundTime
    <3>14. QED
      BY <1>1, <1>3, <2>1, <3>12, <3>13 DEF EchoAwaited
  <2>2. CASE state \in {"kUartDrain", "kEchoWait"} /\ ~echo_complete
    <3>1. ~BeginsTracking /\ Tracked
      BY <2>2 DEF CleanInv, EchoAwaited, BeginsTracking
    <3>2. o = Poll(tracker, now_us)
      BY <3>1 DEF Tracked, Now
    <3> HIDE DEF o
    <3>3. ~DeadlineReached(now_us, tracker.deadline_ms)
      BY <2>2, EchoInWindow
    <3>4. o.tracker = tracker
      BY <3>2, <3>3 DEF Poll
    <3>5. tracker' = tracker /\ echo_tracking' = echo_tracking
      BY <1>1, <3>1, <3>4 DEF Tracked
    <3>6. Left' = Left /\ Tracked'
      BY <1>3, <3>1, <3>5 DEF Left, Delta, Tracked
    <3>7. QED
      BY <1>1, <1>3, <2>2, <3>5, <3>6 DEF CleanInv, EchoAwaited
  <2>3. QED
    BY <1>3, <2>1, <2>2 DEF EchoAwaited
<1>7. QED
  BY <1>2, <1>3, <1>4, <1>5, <1>6 DEF CleanInv

\* A byte read while the echo is awaited is the next of it, and the last completes it.
LEMMA DrainCleanly ==
  ASSUME CleanBus, CleanInv, DrainByte
  PROVE  CleanInv'
<1> DEFINE byte == Head(rx_fifo)
           o    == IF echo_tracking THEN FeedByte(tracker, byte, Now)
                   ELSE [tracker |-> tracker, forward |-> <<byte>>]
<1>1. /\ pc = "drain" /\ pc' = "drain" /\ rx_fifo # <<>> /\ rx_fifo' = Tail(rx_fifo)
      /\ tracker' = o.tracker
      /\ echo_tracking' = (echo_tracking /\ o.tracker.active)
      /\ IF echo_tracking /\ IsEcho(o.tracker) THEN NotifyEchoComplete ELSE UNCHANGED vars
      /\ UNCHANGED <<tx_fifo, noise, round_us, active_packet>>
  BY DEF DrainByte
<1>2. BridgeInv'
  BY DrainKeeps DEF CleanInv
<1>3. /\ UNCHANGED <<now_us, state, state_entered_us, busy_claimed_us, packet, last_fault>>
      /\ echo_complete => echo_complete'
      /\ InFlight' = InFlight /\ Elapsed' = Elapsed /\ Held' = Held
  BY <1>1 DEF NotifyEchoComplete, vars, busy, counts, flags, InFlight, Elapsed, Held, Delta
<1>4. RoundTime' /\ OwnPacket'
  BY <1>1, <1>3 DEF CleanInv, RoundTime, OwnPacket
<1>5. state \notin {"kClaimDelay", "kTxEnable", "kWrite"}
  BY <1>1 DEF CleanInv, Quiet
<1>6. Quiet'
  BY <1>1, <1>3, <1>5 DEF CleanInv, Quiet
<1>7. InTime'
  BY <1>1, <1>3 DEF CleanInv, InTime, HeldInTime, DrainsInTime
<1>8. EchoAwaited'
  <2>1. CASE state \in {"kUartDrain", "kEchoWait"} /\ ~echo_complete
    <3> DEFINE m == tracker.matched
    <3>1. /\ Tracked /\ EchoInOrder(packet.bytes, m, rx_fifo, tx_fifo)
          /\ TrackerOK(tracker) /\ ~DeadlineReached(now_us, tracker.deadline_ms)
      BY <2>1, EchoInWindow DEF CleanInv, EchoAwaited
    <3>2. /\ packet.bytes \in Seq(Byte) /\ rx_fifo \in Seq(Byte) /\ tx_fifo \in Seq(Byte)
          /\ m \in Nat /\ m < Len(packet.bytes)
      <4>1. packet.bytes \in Seq(Byte)
        BY <2>1, SentPacket DEF CleanInv, InFlight
      <4>2. rx_fifo \in Seq(Byte) /\ tx_fifo \in Seq(Byte)
        BY DEF CleanInv, BridgeInv, BridgeType, FifoType
      <4>3. QED
        BY <3>1, <4>1, <4>2, TrackerFields DEF Tracked, TrackerOK
    <3>3. /\ byte = packet.bytes[m + 1]
          /\ EchoInOrder(packet.bytes, m + 1, rx_fifo', tx_fifo)
      BY <1>1, <3>1, <3>2, EchoRead
    <3>4. o = FeedByte(tracker, byte, now_us)
      BY <3>1 DEF Tracked, Now
    <3> HIDE DEF o, byte
    <3>5. /\ o.tracker.expected = packet.bytes /\ o.tracker.deadline_ms = tracker.deadline_ms
          /\ o.tracker.matched = m + 1
          /\ o.tracker.active = (m + 1 # Len(packet.bytes))
          /\ o.tracker.matches = IF o.tracker.active THEN tracker.matches ELSE tracker.matches + 1
      BY <3>1, <3>3, <3>4, FeedMatches DEF Tracked
    <3>6. tracker.matches = echo_matches_at_start /\ tracker.matches \in Nat
      BY <3>1, NumbersType DEF CleanInv, BridgeInv, EchoOfThisPacket, Tracked
    <3>7. CASE o.tracker.active
      <4>1. UNCHANGED vars /\ echo_tracking' = TRUE
        BY <1>1, <3>1, <3>7 DEF IsEcho, Tracked
      <4>2. Left' = Left /\ Tracked'
        BY <1>1, <1>3, <3>1, <3>5, <3>7, <4>1 DEF Left, Delta, Tracked
      <4>3. EchoInOrder(packet.bytes, tracker.matched, rx_fifo, tx_fifo)'
        BY <1>1, <1>3, <3>3, <3>5
      <4>4. echo_complete' = echo_complete
        BY <4>1 DEF vars, flags
      <4>5. QED
        BY <1>1, <1>3, <2>1, <4>2, <4>3, <4>4 DEF CleanInv, EchoAwaited
    <3>8. CASE ~o.tracker.active
      <4>1. echo_tracking /\ IsEcho(o.tracker)
        BY <3>1, <3>5, <3>6, <3>8 DEF IsEcho, Tracked
      <4>2. echo_complete'
        BY <1>1, <4>1 DEF NotifyEchoComplete
      <4>3. QED
        BY <1>3, <1>5, <4>2 DEF EchoAwaited
    <3>9. QED
      BY <3>7, <3>8
  <2>2. CASE ~(state \in {"kUartDrain", "kEchoWait"} /\ ~echo_complete)
    BY <1>3, <1>5, <2>2 DEF EchoAwaited
  <2>3. QED
    BY <2>1, <2>2
<1>9. QED
  BY <1>2, <1>3, <1>4, <1>6, <1>7, <1>8 DEF CleanInv

\* With everything read and nothing to send the echo is complete.
LEMMA DrainEndsCleanly ==
  ASSUME CleanBus, CleanInv, DrainDone
  PROVE  CleanInv'
<1>1. /\ pc = "drain" /\ pc' = "start" /\ rx_fifo = <<>>
      /\ UNCHANGED <<vars, bus, service, history>>
  BY DEF DrainDone
<1>2. BridgeInv'
  BY <1>1, RestKeeps DEF CleanInv
<1>3. /\ UNCHANGED <<now_us, state, packet, last_fault, echo_complete, tx_fifo, rx_fifo,
                     tracker, echo_tracking, round_us, noise, active_packet>>
      /\ InFlight' = InFlight /\ Elapsed' = Elapsed /\ Held' = Held /\ Left' = Left
  BY <1>1 DEF vars, busy, counts, flags, bus, fifos, service, InFlight, Elapsed, Held, Left, Delta
<1>4. RoundTime' /\ OwnPacket' /\ Quiet'
  BY <1>1, <1>3 DEF CleanInv, RoundTime, OwnPacket, Quiet
<1>5. InTime'
  BY <1>1, <1>3 DEF CleanInv, InTime, HeldInTime, DrainsInTime, vars
<1>6. ASSUME state \in {"kUartDrain", "kEchoWait"}, ~echo_complete
      PROVE  tx_fifo # <<>>
  <2>1. SUFFICES ASSUME tx_fifo = <<>> PROVE FALSE
    OBVIOUS
  <2>2. /\ Tracked /\ EchoInOrder(packet.bytes, tracker.matched, <<>>, <<>>)
        /\ TrackerOK(tracker)
    BY <1>1, <1>6, <2>1, EchoInWindow DEF CleanInv, EchoAwaited
  <2>3. packet.bytes \in Seq(Byte) /\ tracker.matched \in Nat
    BY <1>6, <2>2, SentPacket, TrackerFields DEF CleanInv, InFlight
  <2>4. tracker.matched = Len(packet.bytes)
    BY <2>2, <2>3, EchoExhausted
  <2>5. QED
    BY <2>2, <2>3, <2>4 DEF Tracked, TrackerOK
<1>7. state = "kUartDrain" /\ ~echo_complete => Elapsed + 1 < Size(packet) + round_us
  <2> HAVE state = "kUartDrain" /\ ~echo_complete
  <2>1. tx_fifo # <<>> /\ tx_fifo \in Seq(Byte)
    BY <1>6 DEF CleanInv, BridgeInv, BridgeType, FifoType
  <2>2. Len(tx_fifo) = IF Elapsed <= Size(packet) THEN Size(packet) - Elapsed ELSE 0
    BY DEF CleanInv, InTime, InFlight
  <2>3. Elapsed \in Nat /\ Size(packet) \in Nat /\ round_us \in Nat /\ round_us >= 1
    BY <1>1, SentPacket, TimesType DEF CleanInv, BridgeInv, InFlight, RoundTime
  <2>4. Len(tx_fifo) # 0
    BY <2>1
  <2>5. QED
    BY <2>2, <2>3, <2>4
<1>8. state = "kEchoWait" => echo_complete
  BY <1>6 DEF CleanInv, Quiet
<1>9. Tracked' <=> Tracked
  BY <1>3 DEF Tracked
<1>10. EchoAwaited'
  BY <1>1, <1>3, <1>7, <1>8, <1>9 DEF CleanInv, EchoAwaited
<1>11. QED
  BY <1>2, <1>3, <1>4, <1>5, <1>10 DEF CleanInv

\* A packet taken from the queue is the host's.
LEMMA StartCleanly ==
  ASSUME CleanInv, StartNext
  PROVE  CleanInv'
<1>1. BridgeInv'
  BY StartKeeps DEF CleanInv
<1>2. /\ pc = "start" /\ pc' = "tick"
      /\ UNCHANGED <<fifos, noise, round_us, tracker, echo_tracking>>
  BY DEF StartNext, bus
<1>3. CASE UNCHANGED <<vars, active_packet>>
  BY <1>1, <1>2, <1>3, RestCleanly
<1>4. CASE /\ ReadyForNext /\ router.aux_tx # <<>>
           /\ active_packet' = Head(router.aux_tx)
           /\ Start(Head(router.aux_tx), "kUsbBridge", "kUsbBridge")
  <2> DEFINE p == Head(router.aux_tx)
  <2>1. p \in HostPackets
    BY <1>4, NumbersType DEF CleanInv
  <2>2. AcceptStart(p, FALSE)
    BY <1>4, <2>1, StartAccepts DEF CleanInv
  <2>3. state = "kIdle" /\ state' = "kBusWait" /\ packet' = p /\ UNCHANGED last_fault
    BY <1>4, <2>2 DEF AcceptStart, Transition, ReadyForNext
  <2>4. UNCHANGED <<tx_fifo, rx_fifo>>
    BY <1>2 DEF fifos
  <2> HIDE DEF p
  <2>5. active_packet' = packet' /\ packet' \in HostPackets
    BY <1>4, <2>1, <2>3 DEF p
  <2>6. RoundTime' /\ OwnPacket' /\ Quiet'
    BY <1>2, <2>3, <2>4, <2>5 DEF CleanInv, RoundTime, OwnPacket, Quiet
  <2>7. InTime' /\ EchoAwaited'
    BY <2>3 DEF InTime, HeldInTime, DrainsInTime, EchoAwaited
  <2>8. QED
    BY <1>1, <2>3, <2>6, <2>7 DEF CleanInv
<1>5. QED
  BY <1>3, <1>4 DEF StartNext

LEMMA RecoverCleanly ==
  ASSUME CleanInv, RecoverBridge
  PROVE  CleanInv'
<1>1. BridgeInv'
  BY RecoverKeeps DEF CleanInv
<1>2. /\ pc = "recover" /\ pc' = "after"
      /\ UNCHANGED <<fifos, noise, round_us, active_packet>> /\ UNCHANGED <<tx_fifo, rx_fifo>>
  BY DEF RecoverBridge, bus, fifos
<1>3. CASE UNCHANGED <<vars, tracker, echo_tracking>>
  BY <1>1, <1>2, <1>3, RestCleanly
<1>4. CASE state = "kFault" /\ Recover
  <2>1. state' = "kIdle" /\ last_fault' = "kNone"
    BY <1>4 DEF Recover
  <2>2. RoundTime' /\ OwnPacket' /\ Quiet' /\ InTime' /\ EchoAwaited'
    BY <1>2, <1>4, <2>1 DEF CleanInv, RoundTime, OwnPacket, InFlight, Quiet, InTime, EchoAwaited
  <2>3. QED
    BY <1>1, <2>1, <2>2 DEF CleanInv
<1>5. QED
  BY <1>3, <1>4 DEF RecoverBridge, RecoverFromFault

\* The tick: the only step that can fail, and it fails for want of the bus only.
LEMMA TickCleanly ==
  ASSUME CleanBus, CleanInv, TickTransmitter
  PROVE  CleanInv'
<1> DEFINE bus_busy == mount # <<>>
           tx_complete == tx_fifo = <<>>
<1>0. packet.bytes \in Seq(Byte) /\ TickOnBus /\ ~ShortWrites
  BY DEF CleanBus, CleanInv, BridgeInv, IInv, TypeOK, AuxPacket, TickTransmitter
<1>1. /\ pc = "tick" /\ pc' = "recover" /\ Tick(bus_busy, TRUE, tx_complete)
      /\ UNCHANGED <<tracker, echo_tracking, active_packet>> /\ UNCHANGED <<rx_fifo, noise>>
      /\ round_us' = 0
      /\ tx_fifo' = IF state = "kWrite" /\ ~Overdue THEN tx_fifo \o packet.bytes ELSE tx_fifo
  <2>1. PICK all_written \in BOOLEAN, taken \in Seq(Byte) :
          /\ Tick(bus_busy, all_written, tx_complete)
          /\ tx_fifo' = IF state = "kWrite" /\ ~Overdue THEN tx_fifo \o taken ELSE tx_fifo
          /\ ~ShortWrites => all_written /\ taken = packet.bytes
    BY <1>0, TickOfBus
  <2>2. all_written = TRUE /\ taken = packet.bytes
    BY <1>0, <2>1
  <2>3. QED
    BY <2>1, <2>2 DEF TickTransmitter, TickOnBus, service
<1>2. /\ bus_busy \in BOOLEAN /\ tx_complete \in BOOLEAN /\ IInv /\ BridgeInv
      /\ round_us \in 0..MaxRound /\ MaxRound \in Nat \ {0}
  BY BusAssumption DEF CleanInv, BridgeInv, RoundTime
<1>3. tx_complete <=> tx_fifo = <<>>
  OBVIOUS
<1> HIDE DEF bus_busy, tx_complete
<1>4. BridgeInv'
  BY TickKeeps DEF CleanInv
<1>5. RoundTime'
  BY <1>1, <1>2 DEF CleanInv, RoundTime
<1>6. CASE ~InFlight
  <2>1. UNCHANGED vars
    BY <1>1, <1>2, <1>6, TickOutcome DEF InFlight, TickAdvances, TickCompletes, TickFaults
  <2>2. /\ UNCHANGED <<state, last_fault, tx_fifo, rx_fifo>> /\ ~InFlight'
    BY <1>1, <1>6, <2>1 DEF InFlight, vars, counts
  <2>3. OwnPacket' /\ Quiet' /\ InTime' /\ EchoAwaited'
    BY <1>1, <2>2 DEF CleanInv, OwnPacket, InFlight, Quiet, InTime, EchoAwaited
  <2>4. QED
    BY <1>4, <1>5, <2>2, <2>3 DEF CleanInv
<1>7. CASE InFlight
  <2>1. PICK n \in Nat \ {0}, window \in Nat, late \in 0..MaxRound :
          /\ n = Size(packet) /\ window = EchoWindowMs(Size(packet)) /\ late = round_us
          /\ packet \in HostPackets /\ packet.bytes \in Seq(Byte) /\ n = Len(packet.bytes)
          /\ FitsTimeouts(n, MaxRound) /\ active_packet = packet
    <3>1. EchoWindowMs(Size(packet)) \in Nat
      BY <1>7, SentPacket, MsHalf DEF CleanInv
    <3>2. QED
      BY <1>2, <1>7, <3>1, SentPacket DEF CleanInv, OwnPacket
  <2>2. HeldInTime(MaxRound, late) /\ DrainsInTime(n, late)
    BY <1>7, <2>1 DEF CleanInv, InTime
  <2>3. state = "kUartDrain" /\ ~tx_complete => Elapsed < n
    BY <1>3, <1>7, <2>1, TimesType, <1>2 DEF CleanInv, InTime, BridgeInv, BridgeType, FifoType
  <2>4. state = "kEchoWait" => echo_complete
    BY <1>1 DEF CleanInv, EchoAwaited
  <2>5. /\ ~Overdue /\ HeldInTime(MaxRound, 0)' /\ DrainsInTime(n, 0)'
        /\ CleanOutcome(bus_busy, tx_complete)
    BY <1>1, <1>2, <2>1, <2>2, <2>3, <2>4, CleanTick
  <2>6. packet' = packet /\ now_us' = now_us /\ Left' = Left
    BY <1>1, <2>5 DEF CleanOutcome, TickFrame, vars, Left, Delta
  <2>7. OwnPacket'
    BY <1>1, <2>1, <2>6 DEF OwnPacket
  <2>8. Size(packet)' = n /\ EchoWindowMs(Size(packet))' = window
    BY <2>1, <2>6
  <2>9. /\ HeldInTime(MaxRound, round_us)' /\ DrainsInTime(Size(packet), round_us)'
    BY <1>1, <2>5, <2>8 DEF HeldInTime, DrainsInTime
  <2>10. state # "kWrite" => tx_fifo' = tx_fifo
    BY <1>1
  <2>11. CASE UNCHANGED vars
    <3>1. /\ state \notin {"kBusyClaim", "kTxEnable", "kWrite", "kEchoWait"}
          /\ UNCHANGED <<state, last_fault, echo_complete, tx_fifo, rx_fifo>>
          /\ Elapsed' = Elapsed
      <4>1. UNCHANGED <<state, last_fault, echo_complete>> /\ Elapsed' = Elapsed
        BY <2>11 DEF vars, flags, counts, Elapsed, Delta
      <4>2. state \notin {"kBusyClaim", "kTxEnable", "kWrite", "kEchoWait"}
        BY <1>2, <2>5, <4>1 DEF CleanOutcome, TickAdvances, TickCompletes, CompletePacket,
           EnterFault, Transition
      <4>3. QED
        BY <1>1, <2>10, <4>1, <4>2
    <3>2. Quiet' /\ InTime'
      BY <1>1, <1>7, <2>1, <2>8, <2>9, <3>1 DEF CleanInv, Quiet, InTime
    <3>3. EchoAwaited'
      BY <1>1, <2>6, <3>1 DEF CleanInv, EchoAwaited, Tracked
    <3>4. QED
      BY <1>4, <1>5, <2>7, <3>1, <3>2, <3>3 DEF CleanInv
  <2>12. CASE TickFrame /\ TickAdvances(bus_busy) /\ state_entered_us' = now_us
    <3>1. UNCHANGED last_fault
      BY <2>12 DEF TickAdvances
    <3>2. ~controlled_transaction
      BY DEF CleanInv, BridgeInv, NeverControlled
    <3>3. Elapsed' = 0
      BY <1>2, <2>6, <2>12, TimesType DEF Elapsed, Delta
    <3>4. /\ state # "kUartDrain" => tx_fifo = <<>>
          /\ state \in {"kBusyClaim", "kClaimDelay", "kTxEnable", "kWrite"} => rx_fifo = <<>>
      BY <1>1 DEF CleanInv, Quiet
    <3>5. CASE state = "kWrite"
      <4>1. state' = "kUartDrain"
        BY <2>12, <3>5 DEF TickAdvances
      <4>2. tx_fifo' = packet.bytes /\ rx_fifo' = <<>>
        BY <1>1, <2>1, <2>5, <3>4, <3>5
      <4>3. Quiet'
        BY <4>1 DEF Quiet
      <4>4. InTime'
        BY <2>1, <2>8, <2>9, <3>3, <4>1, <4>2 DEF InTime
      <4>5. /\ Tracked /\ tracker.matched = 0 /\ Left + round_us > window
        BY <1>1, <2>1, <3>5 DEF CleanInv, EchoAwaited
      <4>6. EchoInOrder(packet.bytes, tracker.matched, rx_fifo, tx_fifo)'
        BY <1>1, <2>1, <2>6, <4>2, <4>5, EchoBegins
      <4>7. Tracked'
        BY <1>1, <2>6, <4>5 DEF Tracked
      <4>8. Left' + Elapsed' + MaxRound > window
        <5>1. Left \in Int
          BY <3>5, <1>1, EchoInWindow
        <5>2. QED
          BY <1>2, <2>1, <2>6, <3>3, <4>5, <5>1
      <4>9. EchoAwaited'
        BY <1>1, <2>8, <4>1, <4>6, <4>7, <4>8 DEF EchoAwaited
      <4>10. QED
        BY <1>4, <1>5, <2>7, <3>1, <4>3, <4>4, <4>9 DEF CleanInv
    <3>6. CASE state = "kUartDrain"
      <4>1. state' = "kEchoWait" /\ tx_complete
        BY <2>5, <2>12, <3>2, <3>6 DEF CleanOutcome, TickAdvances, TickCompletes, vars
      <4>2. tx_fifo' = <<>> /\ tx_fifo = <<>>
        BY <1>3, <2>10, <3>6, <4>1
      <4>3. Quiet' /\ InTime'
        BY <2>9, <4>1, <4>2 DEF Quiet, InTime
      <4>4. echo_complete' = echo_complete
        BY <2>12, <4>1 DEF TickAdvances, flags
      <4>5. CASE ~echo_complete
        <5>1. /\ Tracked /\ EchoInOrder(packet.bytes, tracker.matched, rx_fifo, tx_fifo)
              /\ Left + Elapsed + MaxRound > window
              /\ Elapsed + 1 < n + round_us
          BY <1>1, <2>1, <3>6, <4>5 DEF CleanInv, EchoAwaited
        <5>2. Left \in Int /\ Elapsed \in Int
          BY <1>2, <3>6, <4>5, EchoInWindow, TimesType
        <5>3. Left' + round_us' + n + 2 * MaxRound > window + 2
          <6>1. Elapsed + 2 <= n + MaxRound
            BY <1>2, <2>1, <5>1, <5>2
          <6>2. \A left, elapsed \in Int, n1, r, w \in Nat :
                  left + elapsed + r > w /\ elapsed + 2 <= n1 + r
                    => left + 0 + n1 + 2 * r > w + 2
            OBVIOUS
          <6>3. Left + 0 + n + 2 * MaxRound > window + 2
            BY <1>2, <2>1, <5>1, <5>2, <6>1, <6>2
          <6>4. QED
            BY <1>1, <2>6, <6>3
        <5>4. Tracked'
          BY <1>1, <2>6, <5>1 DEF Tracked
        <5>5. EchoInOrder(packet.bytes, tracker.matched, rx_fifo, tx_fifo)'
          BY <1>1, <2>6, <4>2, <5>1
        <5>6. EchoAwaited'
          BY <1>1, <2>8, <4>1, <5>3, <5>4, <5>5 DEF EchoAwaited
        <5>7. QED
          BY <1>4, <1>5, <2>7, <3>1, <4>3, <5>6 DEF CleanInv
      <4>6. CASE echo_complete
        <5>1. EchoAwaited'
          BY <4>1, <4>4, <4>6 DEF EchoAwaited
        <5>2. QED
          BY <1>4, <1>5, <2>7, <3>1, <4>3, <5>1 DEF CleanInv
      <4>7. QED
        BY <4>5, <4>6
    <3>7. CASE state \notin {"kWrite", "kUartDrain"}
      <4>1. /\ state' \notin {"kUartDrain", "kEchoWait"}
            /\ state' = "kWrite" => state = "kTxEnable"
            /\ state' \in {"kClaimDelay", "kTxEnable", "kWrite"}
                 => state \in {"kBusyClaim", "kClaimDelay", "kTxEnable"}
        BY <2>4, <2>12, <3>2, <3>7 DEF TickAdvances
      <4>2. UNCHANGED <<tx_fifo, rx_fifo>> /\ tx_fifo = <<>>
        BY <1>1, <2>10, <3>4, <3>7
      <4>3. Quiet' /\ InTime'
        BY <1>1, <2>9, <3>4, <4>1, <4>2 DEF Quiet, InTime
      <4>4. state = "kTxEnable" => ~echo_tracking
        BY DEF CleanInv, BridgeInv, EchoOfThisPacket
      <4>5. EchoAwaited'
        BY <1>1, <4>1, <4>4 DEF EchoAwaited
      <4>6. QED
        BY <1>4, <1>5, <2>7, <3>1, <4>3, <4>5 DEF CleanInv
    <3>8. QED
      BY <3>5, <3>6, <3>7
  <2>13. CASE \/ TickCompletes
              \/ state = "kBusWait" /\ EnterFault("kContentionTimeout")
    <3>1. /\ state \in {"kEchoWait", "kResponseWait", "kBusWait"}
          /\ state' \in {"kIdle", "kFault"}
          /\ last_fault' \in {last_fault, "kContentionTimeout"}
      BY <2>13 DEF TickCompletes, CompletePacket, EnterFault, Transition
    <3>2. Quiet' /\ InTime' /\ EchoAwaited'
      BY <2>10, <3>1 DEF CleanInv, Quiet, InTime, InFlight, EchoAwaited
    <3>3. QED
      BY <1>4, <1>5, <2>7, <3>1, <3>2 DEF CleanInv
  <2>14. state # "kResponseWait"
    BY DEF CleanInv, BridgeInv, NeverControlled
  <2>15. QED
    BY <2>5, <2>11, <2>12, <2>13, <2>14 DEF CleanOutcome
<1>8. QED
  BY <1>6, <1>7

\* What the bus carries while it is ours is the packet, and before the write nothing.
LEMMA CleanlyHeard ==
  ASSUME CleanBus, CleanInv, NEW heard \in Heard
  PROVE  /\ heard \in Seq(Byte)
         /\ state \in {"kBusyClaim"} \cup OwnerStates /\ tx_fifo = <<>> => heard = <<>>
         /\ tx_fifo # <<>> => heard = <<Head(tx_fifo)>>
<1>1. FifoType /\ NoMountOnOurBus /\ ~MountRaces /\ noise \in Nat /\ MaxNoise = 0
  BY DEF CleanInv, BridgeInv, BridgeType, RoundTime, CleanBus
<1>2. heard \in Seq(Byte)
  BY <1>1, BusCarriesBytes
<1>3. state \in {"kBusyClaim"} \cup OwnerStates => mount = <<>>
  BY <1>1 DEF NoMountOnOurBus
<1>4. state \in {"kBusyClaim"} \cup OwnerStates /\ tx_fifo = <<>> => heard = <<>>
  BY <1>1, <1>3 DEF Heard, Driving
<1>5. tx_fifo # <<>> => state = "kUartDrain" /\ tx_enabled
  BY DEF CleanInv, Quiet, BridgeInv, IInv, OutputsFollowState, DrivingStates
<1>6. tx_fifo # <<>> => heard = <<Head(tx_fifo)>>
  BY <1>3, <1>5 DEF Heard, Driving, OwnerStates
<1>7. QED
  BY <1>2, <1>4, <1>6

\* Time passes: a byte leaves the UART and comes back.
LEMMA SlotCleanly ==
  ASSUME CleanBus, CleanInv, BusSlot
  PROVE  CleanInv'
<1>1. /\ pc \in {"host", "drain", "tick"} /\ pc' = pc /\ round_us < MaxRound
      /\ UNCHANGED <<tracker, echo_tracking, active_packet>>
      /\ tx_fifo' = Shift(tx_fifo) /\ round_us' = round_us + 1
      /\ Elapse(1) \/ (state = "kIdle" /\ UNCHANGED vars)
  BY DEF BusSlot, BusMoves, service, AtRest
<1>2. PICK heard \in Heard :
        /\ rx_fifo' = rx_fifo \o heard
        /\ noise' = IF tx_fifo = <<>> /\ mount = <<>> THEN noise + Len(heard) ELSE noise
  BY DEF BusSlot, BusMoves
<1>3. /\ heard \in Seq(Byte)
      /\ state \in {"kBusyClaim"} \cup OwnerStates /\ tx_fifo = <<>> => heard = <<>>
      /\ tx_fifo # <<>> => heard = <<Head(tx_fifo)>>
  BY CleanlyHeard
<1>4. BridgeInv'
  BY SlotKeeps DEF CleanInv
<1>5. /\ UNCHANGED <<state, packet, last_fault, echo_complete>> /\ InFlight' = InFlight
  BY <1>1 DEF Elapse, vars, counts, flags, InFlight
<1>6. /\ rx_fifo \in Seq(Byte) /\ tx_fifo \in Seq(Byte)
      /\ round_us \in Nat /\ MaxRound \in Nat \ {0} /\ noise \in Nat
  BY BusAssumption DEF CleanInv, BridgeInv, BridgeType, FifoType, RoundTime
<1>7. RoundTime' /\ OwnPacket'
  <2>1. noise' \in Nat /\ round_us' \in 0..MaxRound /\ round_us' >= 1
    BY <1>1, <1>2, <1>3, <1>6
  <2>2. QED
    BY <1>1, <1>5, <2>1 DEF CleanInv, RoundTime, OwnPacket
<1>8. tx_fifo = <<>> => tx_fifo' = <<>>
  BY <1>1 DEF Shift
<1>9. Quiet'
  <2>1. state # "kUartDrain" => tx_fifo' = <<>>
    BY <1>8 DEF CleanInv, Quiet
  <2>2. ASSUME state \in {"kBusyClaim", "kClaimDelay", "kTxEnable", "kWrite"}, rx_fifo = <<>>
        PROVE  rx_fifo' = <<>>
    <3>1. heard = <<>>
      BY <1>3, <2>2 DEF CleanInv, Quiet, OwnerStates
    <3>2. QED
      BY <1>2, <2>2, <3>1
  <2>3. QED
    BY <1>1, <1>5, <2>1, <2>2 DEF CleanInv, Quiet
<1>10. CASE ~InFlight
  <2>1. InTime' /\ EchoAwaited'
    BY <1>5, <1>10 DEF InTime, EchoAwaited, InFlight
  <2>2. QED
    BY <1>4, <1>5, <1>7, <1>9, <2>1 DEF CleanInv
<1>11. CASE InFlight
  <2>1. PICK n \in Nat \ {0}, window \in 1..(MsMod \div 2), late \in 0..(MaxRound - 1) :
          /\ n = Size(packet) /\ window = EchoWindowMs(Size(packet)) /\ late = round_us
          /\ packet.bytes \in Seq(Byte) /\ n = Len(packet.bytes)
          /\ FitsTimeouts(n, MaxRound)
    <3>1. round_us \in 0..(MaxRound - 1)
      BY <1>1, <1>6
    <3>2. QED
      BY <1>11, <3>1, SentPacket DEF CleanInv
  <2>2. Elapse(1) /\ IInv
    BY <1>1, <1>11 DEF InFlight, CleanInv, BridgeInv
  <2>3. HeldInTime(MaxRound, late) /\ DrainsInTime(n, late)
    BY <1>11, <2>1 DEF CleanInv, InTime
  <2>4. /\ HeldInTime(MaxRound, late + 1)' /\ DrainsInTime(n, late + 1)'
        /\ state = "kUartDrain" => Elapsed' = Elapsed + 1
    BY <1>6, <2>1, <2>2, <2>3, TimePasses
  <2>5. Size(packet)' = n /\ EchoWindowMs(Size(packet))' = window /\ round_us' = late + 1
    BY <1>1, <1>5, <2>1
  <2>6. /\ HeldInTime(MaxRound, round_us)' /\ DrainsInTime(Size(packet), round_us)'
    BY <2>4, <2>5 DEF HeldInTime, DrainsInTime
  <2>7. Elapsed \in Nat
    BY <2>2, TimesType
  <2>8. InTime'
    <3>1. CASE state # "kUartDrain"
      BY <1>5, <2>6, <3>1 DEF InTime
    <3>2. CASE state = "kUartDrain"
      <4>1. Len(tx_fifo) = IF Elapsed <= n THEN n - Elapsed ELSE 0
        BY <1>11, <2>1, <3>2 DEF CleanInv, InTime
      <4>2. Len(tx_fifo') = IF tx_fifo = <<>> THEN 0 ELSE Len(tx_fifo) - 1
        BY <1>1, <1>6 DEF Shift
      <4>3. Elapsed' = Elapsed + 1
        BY <2>4, <3>2
      <4>4. tx_fifo = <<>> <=> Len(tx_fifo) = 0
        BY <1>6
      <4>5. Len(tx_fifo') = IF Elapsed' <= n THEN n - Elapsed' ELSE 0
        BY <2>1, <2>7, <4>1, <4>2, <4>3, <4>4
      <4>6. QED
        BY <2>5, <2>6, <4>5 DEF InTime
    <3>3. QED
      BY <3>1, <3>2
  <2>9. EchoAwaited'
    <3>1. CASE \/ state = "kWrite" /\ pc \in {"drain", "start", "tick"}
               \/ state \in {"kUartDrain", "kEchoWait"} /\ ~echo_complete
      <4>1. /\ Left \in 1..(MsMod \div 2) /\ tracker.deadline_ms \in Instant
            /\ now_us \in Instant
        BY <3>1, EchoInWindow, ClocksAgree
      <4>2. Left' = Left - 1 /\ Left \in Nat
        BY <1>1, <2>2, <4>1, DeltaShrinks, MsHalf DEF Left, Elapse, Delta
      <4>3. Tracked
        BY <3>1 DEF CleanInv, EchoAwaited
      <4>4. Tracked'
        BY <1>1, <1>5, <2>1, <2>5, <4>2, <4>3, MsHalf DEF Tracked
      <4>5. CASE state = "kWrite" /\ pc \in {"drain", "start", "tick"}
        <5>1. tracker.matched = 0 /\ Left + late > window
          BY <2>1, <4>5 DEF CleanInv, EchoAwaited
        <5>2. Left' + round_us' > window
          BY <2>1, <2>5, <4>2, <5>1, MsHalf
        <5>3. QED
          BY <1>1, <1>5, <2>5, <4>4, <4>5, <5>1, <5>2 DEF EchoAwaited
      <4>6. CASE state \in {"kUartDrain", "kEchoWait"} /\ ~echo_complete
        <5>1. EchoInOrder(packet.bytes, tracker.matched, rx_fifo, tx_fifo)
          BY <4>6 DEF CleanInv, EchoAwaited
        <5>2. tracker.matched \in Nat
          BY TrackerFields DEF CleanInv, BridgeInv, BridgeType, ServiceType
        <5>3. EchoInOrder(packet.bytes, tracker.matched, rx_fifo', tx_fifo')
          <6>1. CASE tx_fifo = <<>>
            BY <1>2, <1>3, <1>6, <1>8, <2>1, <5>1, <5>2, <6>1, EchoFollowed
          <6>2. CASE tx_fifo # <<>>
            <7>1. tx_fifo' = Tail(tx_fifo) /\ rx_fifo' = rx_fifo \o <<Head(tx_fifo)>>
              BY <1>1, <1>2, <1>3, <6>2 DEF Shift
            <7>2. QED
              BY <1>6, <2>1, <5>1, <5>2, <6>2, <7>1, EchoHeard
          <6>3. QED
            BY <6>1, <6>2
        <5>4. EchoInOrder(packet.bytes, tracker.matched, rx_fifo, tx_fifo)'
          BY <1>1, <1>5, <5>3
        <5>5. CASE state = "kUartDrain"
          <6>1. /\ Left + Elapsed + MaxRound > window
                /\ pc \in {"start", "tick"} => Elapsed + 1 < n + late
            BY <2>1, <4>6, <5>5 DEF CleanInv, EchoAwaited
          <6>2. /\ Left' + Elapsed' + MaxRound > window
                /\ pc \in {"start", "tick"} => Elapsed' + 1 < n + round_us'
            <7>1. Elapsed' = Elapsed + 1 /\ round_us' = late + 1
              BY <2>4, <2>5, <5>5
            <7>2. Left' + Elapsed' = Left + Elapsed
              BY <2>7, <4>2, <7>1
            <7>3. Elapsed' + 1 < n + round_us' <=> Elapsed + 1 < n + late
              <8>1. \A e, l, k \in Nat : (e + 1) + 1 < k + (l + 1) <=> e + 1 < k + l
                OBVIOUS
              <8>2. n \in Nat /\ late \in Nat
                BY <2>1
              <8>3. QED
                BY <2>7, <7>1, <8>1, <8>2
            <7>4. QED
              BY <6>1, <7>2, <7>3
          <6>3. QED
            BY <1>1, <1>5, <2>5, <4>4, <4>6, <5>4, <5>5, <6>2 DEF EchoAwaited
        <5>6. CASE state = "kEchoWait"
          <6>1. /\ Left + late + n + 2 * MaxRound > window + 2
                /\ pc \notin {"start", "tick"}
            BY <2>1, <4>6, <5>6 DEF CleanInv, EchoAwaited
          <6>2. Left' + round_us' + n + 2 * MaxRound > window + 2
            <7>1. Left' + round_us' = Left + late
              BY <2>1, <2>5, <4>2
            <7>2. QED
              BY <6>1, <7>1
          <6>3. QED
            BY <1>1, <1>5, <2>5, <4>4, <4>6, <5>4, <5>6, <6>1, <6>2 DEF EchoAwaited
        <5>7. QED
          BY <4>6, <5>5, <5>6
      <4>7. QED
        BY <3>1, <4>5, <4>6
    <3>2. CASE ~(\/ state = "kWrite" /\ pc \in {"drain", "start", "tick"}
                 \/ state \in {"kUartDrain", "kEchoWait"} /\ ~echo_complete)
      BY <1>1, <1>5, <3>2 DEF CleanInv, EchoAwaited
    <3>3. QED
      BY <3>1, <3>2
  <2>10. QED
    BY <1>4, <1>5, <1>7, <1>9, <2>8, <2>9 DEF CleanInv
<1>12. QED
  BY <1>10, <1>11

LEMMA CleanInvStep ==
  ASSUME CleanBus, CleanInv, [BridgeNext]_bridgeVars
  PROVE  CleanInv'
<1>1. BridgeInv'
  BY BridgeInvStep DEF CleanInv
<1>2. CASE HostTurn
  BY <1>1, <1>2, RestCleanly DEF HostTurn, bus
<1>3. CASE MountBegins
  BY <1>1, <1>3, RestCleanly DEF MountBegins, MountSends, service
<1>4. CASE UNCHANGED bridgeVars
  BY <1>1, <1>4, RestCleanly DEF bridgeVars, bus, service
<1>5. QED
  BY <1>2, <1>3, <1>4, TrackCleanly, DrainCleanly, DrainEndsCleanly, StartCleanly,
     TickCleanly, RecoverCleanly, SlotCleanly DEF BridgeNext, Round

\* On a clean bus every packet that gets the bus is echoed and completed
\* (CleanBusCompletes): the transmitter fails for want of the bus only, as long as a
\* round of ServiceUsbBridge is short enough for the echo window and the timeouts.
THEOREM CleanBusServed ==
  ASSUME CleanBus
  PROVE  BridgeSpec => []CleanBusCompletes
<1>1. BridgeInit => CleanInv
  BY CleanInvInit
<1>2. CleanInv /\ [BridgeNext]_bridgeVars => CleanInv'
  BY CleanInvStep
<1>3. CleanInv => CleanBusCompletes
  BY DEF CleanInv, CleanBusCompletes
<1>4. QED
  BY <1>1, <1>2, <1>3, PTL DEF BridgeSpec

================================================================================

-------------------------- MODULE ControlledTestProofs --------------------------
(***************************************************************************)
(* Proofs about ControlledTest, for every set of destinations, every       *)
(* timing, bus and mount, given that a query is tried more than once.      *)
(***************************************************************************)
EXTENDS ControlledTest, AuxTransmitterProofs, StreamProofs

----------------------------------------------------------------------------
(* The loop and the transmitter agree *)

TestType ==
  /\ pc \in {"command", "poll", "tick", "settle"}
  /\ query_active \in BOOLEAN
  /\ reported \in [complete : Nat, fault : Nat]
  /\ destination_selected => selected_destination \in Destinations

\* The query in flight is the active one, for the destination shown.
QueryIsSelected ==
  InFlight => /\ packet = active_query
              /\ destination_selected /\ packet = QueryTo(selected_destination)

Reported(completed, faulted) ==
  /\ metrics["completed_packets"] = reported.complete + completed
  /\ metrics["faults"] = reported.fault + faulted

\* The state the loop saw last is the transmitter's, but for a RECOVER and an
\* ARM since; neither is a fault, and the ARM is on its first attempt.
LastStateSeen ==
  last_tx_state = state \/ state = "kIdle" \/ (state = "kBusWait" /\ attempts = 0)

\* Where the loop has settled with the transmitter, nothing is left to report.
Settled ==
  /\ query_active <=> InFlight
  /\ Reported(0, 0)

\* After the tick the end of a query is still to be reported, and the state the
\* loop saw last tells it apart from an end that was.
Unsettled ==
  \/ InFlight /\ query_active /\ Reported(0, 0)
  \/ state = "kIdle" /\ query_active /\ last_tx_state # "kIdle" /\ Reported(1, 0)
  \/ state = "kIdle" /\ ~query_active /\ Reported(0, 0)
  \/ state = "kFault" /\ query_active /\ last_tx_state # "kFault" /\ Reported(0, 1)
  \/ state = "kFault" /\ ~query_active /\ last_tx_state = "kFault" /\ Reported(0, 0)

TestInv ==
  /\ IInv
  /\ TestType
  /\ QueryIsSelected
  /\ pc # "settle" => Settled /\ LastStateSeen
  /\ pc = "settle" => Unsettled

LEMMA TestInvInit == TestInit => TestInv
<1> SUFFICES ASSUME TestInit PROVE TestInv
  OBVIOUS
<1>1. IInv
  BY IInvInit DEF TestInit, BusInit
<1>2. state = "kIdle" /\ metrics["completed_packets"] = 0 /\ metrics["faults"] = 0
  BY DEF TestInit, BusInit, Init, Counters
<1>3. /\ pc = "command" /\ ~query_active /\ query_active \in BOOLEAN /\ ~destination_selected
      /\ reported = [complete |-> 0, fault |-> 0]
  BY DEF TestInit
<1>4. TestType
  BY <1>3 DEF TestType
<1>5. ~InFlight
  BY <1>2 DEF InFlight
<1>6. Settled /\ LastStateSeen /\ QueryIsSelected
  BY <1>2, <1>3, <1>5 DEF Settled, Reported, LastStateSeen, QueryIsSelected
<1>7. QED
  BY <1>1, <1>3, <1>4, <1>6 DEF TestInv

\* A step that leaves the transmitter's part of the agreement alone.
LEMMA TestInvKept ==
  ASSUME TestInv, IInv', pc # "settle", pc' \in {"command", "poll", "tick"},
         UNCHANGED <<state, attempts, packet, metrics, selection, query,
                     last_tx_state, reported>>
  PROVE  TestInv'
BY DEF TestInv, TestType, QueryIsSelected, Settled, LastStateSeen, Reported,
   InFlight, selection, query

LEMMA SelectKeeps ==
  ASSUME TestInv, NEW d \in Destinations, SelectDestination(d)
  PROVE  TestInv'
<1>1. IInv'
  BY IInvStutter DEF TestInv, SelectDestination
<1>2. ~InFlight
  BY DEF SelectDestination, MaySelect, InFlight
<1>3. QED
  BY <1>1, <1>2 DEF SelectDestination, TestInv, TestType, QueryIsSelected, Settled,
     LastStateSeen, Reported, InFlight, vars, counts, query

LEMMA ArmKeeps ==
  ASSUME TestInv, ArmSingleVersionQuery
  PROVE  TestInv'
<1> DEFINE q == QueryTo(selected_destination)
           refusal == Refusal(q, "kControlledTest", "kControlledTest")
<1>1. q \in Packets /\ active_query' = q
  BY ControlledAssumption DEF ArmSingleVersionQuery, TestInv, TestType
<1>2. Start(q, "kControlledTest", "kControlledTest")
  BY <1>1 DEF ArmSingleVersionQuery
<1>3. IInv'
  BY <1>1, <1>2, IInvStart DEF TestInv, OperatingMode, AuxTxAuthorization
<1>4. state = "kIdle" /\ ~query_active /\ ~InFlight
  BY DEF ArmSingleVersionQuery, InFlight
<1>5. CASE refusal = "none" /\ AcceptStart(q, Controlled("kControlledTest", "kControlledTest"))
  <2>1. state' = "kBusWait" /\ attempts' = 0 /\ packet' = q /\ InFlight'
    BY <1>5 DEF AcceptStart, Transition, InFlight
  <2>2. query_active' = TRUE
    BY <1>1, <1>5 DEF ArmSingleVersionQuery
  <2>3. /\ metrics'["completed_packets"] = metrics["completed_packets"]
        /\ metrics'["faults"] = metrics["faults"]
    BY <1>5 DEF AcceptStart, Count, Counters
  <2>4. QED
    BY <1>1, <1>3, <1>4, <2>1, <2>2, <2>3 DEF ArmSingleVersionQuery, TestInv, TestType,
       QueryIsSelected, Settled, LastStateSeen, Reported, selection
<1>6. CASE RefuseStart(refusal)
  <2>1. UNCHANGED <<state, attempts, query_active>> /\ ~InFlight'
    BY <1>1, <1>4, <1>6 DEF RefuseStart, ArmSingleVersionQuery, InFlight
  <2>2. /\ metrics'["completed_packets"] = metrics["completed_packets"]
        /\ metrics'["faults"] = metrics["faults"]
    BY <1>6 DEF RefuseStart, Refusal, Count, Counters
  <2>3. QED
    BY <1>3, <1>4, <2>1, <2>2 DEF ArmSingleVersionQuery, TestInv, TestType,
       QueryIsSelected, Settled, LastStateSeen, Reported, selection
<1>7. QED
  BY <1>2, <1>5, <1>6 DEF Start

LEMMA RecoverKeeps ==
  ASSUME TestInv, RecoverCommand
  PROVE  TestInv'
<1>1. IInv'
  BY IInvRecover DEF TestInv, RecoverCommand
<1>2. state' = "kIdle" /\ ~InFlight' /\ ~query_active'
  BY DEF RecoverCommand, Recover, InFlight
<1>3. /\ metrics'["completed_packets"] = metrics["completed_packets"]
      /\ metrics'["faults"] = metrics["faults"]
  BY DEF RecoverCommand, Recover, Count, Counters
<1>4. QED
  BY <1>1, <1>2, <1>3 DEF RecoverCommand, TestInv, TestType, QueryIsSelected, Settled,
     LastStateSeen, Reported

LEMMA PollKeeps ==
  ASSUME TestInv, PollByte
  PROVE  TestInv'
<1>1. NotifyEchoComplete \/ UNCHANGED vars
  BY DEF PollByte
<1>2. IInv' /\ UNCHANGED <<state, attempts, packet, metrics>>
  BY <1>1, IInvEcho, IInvStutter DEF TestInv, NotifyEchoComplete, vars, counts
<1>3. pc # "settle" /\ pc' = "poll"
      /\ UNCHANGED <<selection, query, last_tx_state, reported>>
  BY DEF PollByte
<1>4. QED
  BY <1>2, <1>3, TestInvKept

\* A tick on the bus is a tick with some answer of the UART, which takes the whole
\* packet or, if it may, a part of it.
LEMMA TickOfBus ==
  ASSUME TickOnBus, packet.bytes \in Seq(Byte)
  PROVE  \E all_written \in BOOLEAN, taken \in Seq(Byte) :
           /\ Tick(mount # <<>>, all_written, tx_fifo = <<>>)
           /\ tx_fifo' = IF state = "kWrite" /\ ~Overdue THEN tx_fifo \o taken ELSE tx_fifo
           /\ ~ShortWrites => all_written /\ taken = packet.bytes
<1>1. PICK n \in Taken :
        /\ Tick(mount # <<>>, n = Size(packet), tx_fifo = <<>>)
        /\ tx_fifo' = IF Writing THEN tx_fifo \o SubSeq(packet.bytes, 1, n) ELSE tx_fifo
  BY DEF TickOnBus
<1>2. /\ Size(packet) = Len(packet.bytes) /\ n \in 0..Size(packet)
      /\ ~ShortWrites => n = Size(packet)
  BY <1>1 DEF Taken, Size
<1>3. /\ SubSeq(packet.bytes, 1, n) \in Seq(Byte)
      /\ n = Size(packet) => SubSeq(packet.bytes, 1, n) = packet.bytes
  BY <1>2
<1> DEFINE all_written == n = Size(packet)
           taken == SubSeq(packet.bytes, 1, n)
<1>4. /\ all_written \in BOOLEAN /\ taken \in Seq(Byte)
      /\ Tick(mount # <<>>, all_written, tx_fifo = <<>>)
      /\ tx_fifo' = IF state = "kWrite" /\ ~Overdue THEN tx_fifo \o taken ELSE tx_fifo
      /\ ~ShortWrites => all_written /\ taken = packet.bytes
  BY <1>1, <1>2, <1>3 DEF Writing
<1> HIDE DEF all_written, taken
<1>5. QED
  BY <1>4

\* The tick: the only step that completes or fails a query.
LEMMA TickKeeps ==
  ASSUME TestInv, TickTransmitter
  PROVE  TestInv'
<1> DEFINE bus_busy == mount # <<>>
           drained  == tx_fifo = <<>>
<1>0. packet.bytes \in Seq(Byte) /\ TickOnBus
  BY DEF TestInv, IInv, TypeOK, AuxPacket, TickTransmitter
<1>1. /\ \E all_written \in BOOLEAN : Tick(bus_busy, all_written, drained)
      /\ bus_busy \in BOOLEAN /\ drained \in BOOLEAN
  BY <1>0, TickOfBus
<1>2. IInv'
  BY <1>1, IInvTick DEF TestInv
<1>3. /\ pc = "tick" /\ pc' = "settle"
      /\ UNCHANGED <<selection, query, last_tx_state, reported>>
  BY DEF TickTransmitter
<1>4. TestType' /\ Settled /\ LastStateSeen /\ QueryIsSelected
  BY <1>3 DEF TestInv, TestType, selection, query
<1>5. /\ metrics["completed_packets"] \in Nat /\ metrics["faults"] \in Nat
      /\ attempts \in Nat /\ state \in AuxTxState /\ MaximumAttempts \in Nat
  BY TransmitterAssumption DEF TestInv, IInv, TypeOK, Counters
<1> HIDE DEF bus_busy, drained
<1>6. QueryIsSelected' /\ Unsettled'
  <2>1. CASE UNCHANGED vars
    BY <1>3, <1>4, <2>1, <1>5 DEF vars, counts, Settled, LastStateSeen, QueryIsSelected,
       Unsettled, Reported, InFlight, selection, query
  <2>2. CASE TickFrame /\ TickAdvances(bus_busy)
    <3>1. InFlight /\ InFlight' /\ UNCHANGED packet
      BY <2>2 DEF TickFrame, TickAdvances, InFlight
    <3>2. /\ metrics'["completed_packets"] = metrics["completed_packets"]
          /\ metrics'["faults"] = metrics["faults"]
      BY <2>2 DEF TickAdvances, Counters
    <3>3. QED
      BY <1>3, <1>4, <3>1, <3>2 DEF Settled, QueryIsSelected, Unsettled, Reported,
         selection, query
  <2>3. CASE TickFrame /\ TickCompletes
    <3>1. InFlight /\ last_tx_state # "kIdle" /\ state' = "kIdle" /\ ~InFlight'
      BY <1>4, <2>3 DEF TickCompletes, CompletePacket, Transition, InFlight, LastStateSeen
    <3>2. /\ metrics'["completed_packets"] = metrics["completed_packets"] + 1
          /\ metrics'["faults"] = metrics["faults"]
      BY <2>3 DEF TickCompletes, CompletePacket, Count, Counters
    <3>3. QED
      BY <1>3, <1>4, <1>5, <3>1, <3>2 DEF Settled, QueryIsSelected, Unsettled, Reported,
         query, TestType
  <2>4. CASE TickFrame /\ TickFaults
    <3>1. InFlight /\ state' = "kFault" /\ ~InFlight'
      BY <2>4 DEF TickFaults, EnterFault, Transition, InFlight
    <3>2. last_tx_state # "kFault"
      BY <1>4, <1>5, <2>4, <3>1, RetriesAssumption DEF TickFaults, LastStateSeen, InFlight
    <3>3. /\ metrics'["completed_packets"] = metrics["completed_packets"]
          /\ metrics'["faults"] = metrics["faults"] + 1
      BY <2>4 DEF TickFaults, EnterFault, Count, Counters
    <3>4. QED
      BY <1>3, <1>4, <1>5, <3>1, <3>2, <3>3 DEF Settled, QueryIsSelected, Unsettled,
         Reported, query, TestType
  <2>5. QED
    BY <1>1, <2>1, <2>2, <2>3, <2>4, TickOutcome DEF TestInv
<1>7. QED
  BY <1>2, <1>3, <1>4, <1>6 DEF TestInv

\* What follows the tick reports an end once and notes the state.
LEMMA SettleKeeps ==
  ASSUME TestInv, Settle
  PROVE  TestInv'
<1>1. (\E r : NotifyResponse(r)) \/ UNCHANGED vars
  BY DEF Settle
<1>2. IInv' /\ UNCHANGED <<state, attempts, packet, metrics>>
  BY <1>1, IInvResponse, IInvStutter DEF TestInv, NotifyResponse, vars, counts
<1>3. /\ pc = "settle" /\ pc' = "command" /\ last_tx_state' = state
      /\ query_active' = (query_active /\ ~(Completes \/ Fails))
      /\ reported' = [complete |-> reported.complete + IF Completes THEN 1 ELSE 0,
                      fault    |-> reported.fault + IF Fails THEN 1 ELSE 0]
      /\ UNCHANGED <<selection, active_query>>
  BY DEF Settle, NoteState
<1>4. TestType /\ Unsettled /\ QueryIsSelected
  BY <1>3 DEF TestInv
<1>5. TestType'
  BY <1>3, <1>4 DEF TestType, selection
<1>6. QueryIsSelected' /\ LastStateSeen'
  BY <1>2, <1>3, <1>4 DEF QueryIsSelected, LastStateSeen, InFlight, selection
<1>7. Settled'
  <2> DEFINE completed == metrics["completed_packets"]
             faulted   == metrics["faults"]
  <2> completed \in Nat /\ faulted \in Nat
    BY DEF TestInv, IInv, TypeOK, Counters
  <2> reported.complete \in Nat /\ reported.fault \in Nat
    BY <1>4 DEF TestType
  <2>1. CASE Completes
    <3>1. state = "kIdle" /\ ~Fails /\ Reported(1, 0)
      BY <1>4, <2>1 DEF Unsettled, Completes, Fails, InFlight
    <3>2. query_active' = FALSE /\ ~InFlight'
      BY <1>2, <1>3, <2>1, <3>1 DEF InFlight
    <3>3. reported'.complete = reported.complete + 1 /\ reported'.fault = reported.fault
      BY <1>3, <2>1, <3>1
    <3>4. QED
      BY <1>2, <3>1, <3>2, <3>3 DEF Settled, Reported
  <2>2. CASE Fails
    <3>1. state = "kFault" /\ ~Completes /\ Reported(0, 1)
      BY <1>4, <2>2 DEF Unsettled, Completes, Fails, InFlight
    <3>2. query_active' = FALSE /\ ~InFlight'
      BY <1>2, <1>3, <2>2, <3>1 DEF InFlight
    <3>3. reported'.complete = reported.complete /\ reported'.fault = reported.fault + 1
      BY <1>3, <2>2, <3>1
    <3>4. QED
      BY <1>2, <3>1, <3>2, <3>3 DEF Settled, Reported
  <2>3. CASE ~Completes /\ ~Fails
    <3>1. query_active' = query_active /\ Reported(0, 0) /\ (query_active <=> InFlight)
      BY <1>3, <1>4, <2>3 DEF TestType, Unsettled, Completes, Fails, InFlight
    <3>2. reported'.complete = reported.complete /\ reported'.fault = reported.fault
      BY <1>3, <1>4, <2>3 DEF TestType
    <3>3. QED
      BY <1>2, <3>1, <3>2 DEF Settled, Reported, InFlight
  <2>4. QED
    BY <2>1, <2>2, <2>3
<1>8. QED
  BY <1>2, <1>3, <1>5, <1>6, <1>7 DEF TestInv

LEMMA BusKeeps ==
  ASSUME TestInv, BusSlot \/ MountBegins
  PROVE  TestInv'
<1>1. Elapse(1) \/ UNCHANGED vars
  BY DEF BusSlot, BusMoves, MountBegins, MountSends
<1>2. 1 \in 0..ClockMod
  BY TransmitterAssumption
<1>3. IInv' /\ UNCHANGED <<state, attempts, packet, metrics>>
  BY <1>1, <1>2, IInvElapse, IInvStutter DEF TestInv, Elapse, vars, counts
<1>4. /\ pc = "tick" /\ pc' = "tick"
      /\ UNCHANGED <<selection, query, last_tx_state, reported>>
  BY DEF BusSlot, MountBegins
<1>5. QED
  BY <1>3, <1>4, TestInvKept

LEMMA TestInvStep == TestInv /\ [TestNext]_testVars => TestInv'
<1> SUFFICES ASSUME TestInv, [TestNext]_testVars PROVE TestInv'
  OBVIOUS
<1>1. CASE CommandsDone \/ PollDone
  BY <1>1, IInvStutter, TestInvKept DEF CommandsDone, PollDone, TestInv, vars, counts
<1>2. CASE UNCHANGED testVars
  <2>1. IInv'
    BY <1>2, IInvStutter DEF TestInv, testVars
  <2>2. QED
    BY <1>2, <2>1 DEF TestInv, TestType, QueryIsSelected, Settled, Unsettled, LastStateSeen,
       Reported, InFlight, testVars, vars, counts, selection, query
<1>3. QED
  BY <1>1, <1>2, SelectKeeps, ArmKeeps, RecoverKeeps, PollKeeps, TickKeeps,
     SettleKeeps, BusKeeps DEF TestNext, Round

LEMMA TestInvariance == TestSpec => []TestInv
BY TestInvInit, TestInvStep, PTL DEF TestSpec

\* Between rounds the loop's idea of its query is the transmitter's, and every
\* query that ended by itself was reported once, whatever the commands, the bus
\* and the mount do (QueryTracksTransmitter).
THEOREM LoopFollowsTransmitter == TestSpec => []QueryTracksTransmitter
<1>1. TestInv => QueryTracksTransmitter
  BY DEF TestInv, TestType, QueryTracksTransmitter, Settled, Reported, QueryIsSelected,
     IInv, TypeOK, Counters
<1>2. QED
  BY <1>1, TestInvariance, PTL

----------------------------------------------------------------------------
(* A run of bytes through the decoder *)

\* What every byte keeps, the run keeps.
LEMMA AfterBytesStays ==
  ASSUME NEW T, NEW start \in T, NEW bytes \in Seq(Byte),
         \A s \in T, b \in Byte : HearByte(s, b) \in T
  PROVE  AfterBytes(start, bytes) \in T
<1> DEFINE n == Len(bytes)
           Step(f, i) == IF i = 0 THEN start ELSE HearByte(f[i - 1], bytes[i])
           IsRun(f) == f = [i \in 0..n |-> Step(f, i)]
           after == CHOOSE f : IsRun(f)
           step == [x \in T \X (1..n) |-> HearByte(x[1], bytes[x[2]])]
<1>1. n \in Nat /\ \A i \in 1..n : bytes[i] \in Byte
  OBVIOUS
<1>2. step \in [T \X (1..n) -> T]
  BY <1>1
<1>3. Runs(T, start, n, step) # {}
  <2> HIDE DEF step, n
  <2> QED
    BY <1>1, <1>2, RunExists, Zenon
<1>4. PICK run \in [0..n -> T] :
        run[0] = start /\ \A i \in 1..n : run[i] = step[<<run[i - 1], i>>]
  <2> HIDE DEF step, n
  <2> QED
    BY <1>3 DEF Runs
<1>5. ASSUME NEW i \in 0..n
      PROVE  run[i] = Step(run, i)
  <2>1. CASE i = 0
    BY <1>4, <2>1
  <2>2. CASE i # 0
    <3>1. i \in 1..n /\ i - 1 \in 0..n
      BY <1>1, <2>2
    <3>2. <<run[i - 1], i>> \in T \X (1..n)
      BY <1>4, <3>1
    <3>3. step[<<run[i - 1], i>>] = HearByte(run[i - 1], bytes[i])
      BY <3>2
    <3>4. QED
      BY <1>4, <2>2, <3>1, <3>3
  <2>3. QED
    BY <2>1, <2>2
<1>6. IsRun(run)
  BY <1>4, <1>5
<1>7. IsRun(after)
  <2> HIDE DEF IsRun
  <2> QED
    BY <1>6
<1>8. after[0] = start /\ \A i \in 1..n : after[i] = HearByte(after[i - 1], bytes[i])
  <2> HIDE DEF after
  <2>1. \A i \in 0..n : after[i] = Step(after, i)
    BY <1>7
  <2>2. QED
    BY <1>1, <2>1
<1> HIDE DEF after, n
<1>9. after[n] \in T
  <2>1. ASSUME NEW i \in 1..n, after[i - 1] \in T
        PROVE  after[i] \in T
    BY <1>1, <1>8, <2>1
  <2>2. n \in Nat /\ after[0] \in T
    BY <1>1, <1>8
  <2>3. QED
    BY <2>1, <2>2, RunStays, Zenon
<1>10. QED
  BY <1>9 DEF AfterBytes, after, n

\* What is no echo goes through the decoder; if there is an answer to the query
\* in it, the last one is kept, and history has it as new.
LEMMA HearBytesKeeps ==
  ASSUME controlled_aux_decoder \in Decoder, now_us \in Ms, NEW bytes \in Seq(Byte),
         HearBytes(bytes), pending_response_valid \in BOOLEAN
  PROVE  /\ controlled_aux_decoder' \in Decoder
         /\ \/ UNCHANGED <<pending, answer>>
            \/ /\ pending_response_valid' = TRUE
               /\ IsControlledVersionResponse(active_query, pending_response')
               /\ answer' = IF answer = "none" THEN "new" ELSE answer
<1> DEFINE Answers(p) == IsControlledVersionResponse(active_query, p)
           Sides == {s \in [decoder : Decoder, kept : Seq(AuxPacket), heard : BOOLEAN] :
                       /\ s.heard <=> s.kept # <<>>
                       /\ s.kept # <<>> => Answers(s.kept[1])}
           start == [decoder |-> controlled_aux_decoder, kept |-> <<>>, heard |-> FALSE]
<1>1. start \in Sides
  <2>1. <<>> \in Seq(AuxPacket)
    OBVIOUS
  <2>2. QED
    BY <2>1
<1>2. ASSUME NEW side \in Sides, NEW byte \in Byte
      PROVE  HearByte(side, byte) \in Sides
  <2> DEFINE o == Feed(side.decoder, byte, now_us, "kAuxBus")
  <2>1. /\ side.decoder \in Decoder /\ side.kept \in Seq(AuxPacket) /\ side.heard \in BOOLEAN
        /\ side.heard <=> side.kept # <<>>
        /\ side.kept # <<>> => Answers(side.kept[1])
    OBVIOUS
  <2>2. o.decoder \in Decoder /\ o.packet \in AuxPacket
    BY <2>1, FeedType DEF PacketOrigin
  <2> HIDE DEF Answers
  <2>3. CASE o.result = "kPacket" /\ Answers(o.packet)
    <3>1. HearByte(side, byte) = [decoder |-> o.decoder, kept |-> <<o.packet>>, heard |-> TRUE]
      BY <2>1, <2>3 DEF HearByte, KeepsResponse, Answers
    <3> HIDE DEF o
    <3>2. <<o.packet>> \in Seq(AuxPacket) /\ <<o.packet>> # <<>> /\ <<o.packet>>[1] = o.packet
      BY <2>2
    <3>3. QED
      BY <2>2, <2>3, <3>1, <3>2
  <2>4. CASE ~(o.result = "kPacket" /\ Answers(o.packet))
    <3>1. HearByte(side, byte) = [decoder |-> o.decoder, kept |-> side.kept, heard |-> side.heard]
      BY <2>1, <2>4 DEF HearByte, KeepsResponse, Answers
    <3> HIDE DEF o
    <3>2. QED
      BY <2>1, <2>2, <3>1
  <2>5. QED
    BY <2>3, <2>4
<1> DEFINE side == AfterBytes(start, bytes)
<1>3. side \in Sides
  <2> HIDE DEF Sides, start
  <2> QED
    BY <1>1, <1>2, AfterBytesStays
<1>4. /\ controlled_aux_decoder' = side.decoder
      /\ pending_response_valid' = (pending_response_valid \/ side.kept # <<>>)
      /\ pending_response' = IF side.kept # <<>> THEN side.kept[1] ELSE pending_response
      /\ answer' = IF side.heard /\ answer = "none" THEN "new" ELSE answer
  BY DEF HearBytes
<1> HIDE DEF side
<1>5. QED
  BY <1>3, <1>4 DEF pending

----------------------------------------------------------------------------
(* Whose answer it is *)

FifoType == rx_fifo \in Seq(Byte) /\ tx_fifo \in Seq(Byte) /\ mount \in Seq(Byte)

PollType ==
  /\ FifoType
  /\ TrackerOK(tracker) /\ controlled_aux_decoder \in Decoder
  /\ echo_tracking \in BOOLEAN /\ pending_response_valid \in BOOLEAN
  /\ active_query \in AuxPacket
  /\ answer \in {"none", "new", "old"} /\ owed \subseteq Destinations

\* What has been read for the query in flight is kept until the transmitter
\* takes it, and taken in the round that finds it waiting.
AnswersCredited ==
  /\ InFlight /\ pending_response_valid =>
       answer # "none" /\ IsControlledVersionResponse(active_query, pending_response)
  /\ InFlight /\ response_complete => answer # "none"
  /\ InFlight /\ answer # "none" => pending_response_valid \/ response_complete
  /\ pc # "settle" /\ state = "kResponseWait" /\ answer = "old" => response_complete

CreditInv ==
  /\ TestInv
  /\ PollType
  /\ InFlight => controlled_transaction
  /\ state = "kFault" \/ last_fault = "kNone"
  /\ AnswersCredited
  /\ NoAnswerLost

LEMMA CreditInvInit == TestInit => CreditInv
<1> SUFFICES ASSUME TestInit PROVE CreditInv
  OBVIOUS
<1>1. <<>> \in Seq(Byte) /\ 0 \in Ms
  BY MillisAssumption DEF Ms
<1>2. PollType
  BY <1>1, InitTrackerOK DEF TestInit, BusInit, PollType, FifoType, InitDecoder, Decoder,
     EmptyPacket, AuxPacket, PacketOrigin
<1>3. QED
  BY <1>2, TestInvInit DEF TestInit, BusInit, Init, CreditInv, AnswersCredited, NoAnswerLost,
     InFlight

\* A step in which no transaction begins, moves or ends, and nothing is read.
LEMMA CreditKept ==
  ASSUME CreditInv, TestInv', FifoType', owed' \subseteq Destinations, pc # "settle",
         UNCHANGED <<state, response_complete, controlled_transaction, last_fault, tracker,
                     echo_tracking, controlled_aux_decoder, pending, active_query, answer>>
  PROVE  CreditInv'
BY DEF CreditInv, PollType, AnswersCredited, NoAnswerLost, InFlight, pending

LEMMA ArmCredits ==
  ASSUME CreditInv, ArmSingleVersionQuery
  PROVE  CreditInv'
<1> DEFINE q == QueryTo(selected_destination)
           refusal == Refusal(q, "kControlledTest", "kControlledTest")
<1>1. q \in Packets /\ active_query' = q /\ q \in AuxPacket
  BY ControlledAssumption, TransmitterAssumption
  DEF ArmSingleVersionQuery, CreditInv, TestInv, TestType
<1>2. Start(q, "kControlledTest", "kControlledTest")
  BY <1>1 DEF ArmSingleVersionQuery
<1>3. TestInv'
  BY ArmKeeps DEF CreditInv
<1>4. answer' = "none" /\ state = "kIdle" /\ last_fault = "kNone"
      /\ UNCHANGED <<fifos, mount, owed, tracker, controlled_aux_decoder>>
  BY DEF ArmSingleVersionQuery, CreditInv, bus
<1>5. CASE refusal = "none" /\ AcceptStart(q, Controlled("kControlledTest", "kControlledTest"))
  <2>1. state' = "kBusWait" /\ ~response_complete' /\ last_fault' = last_fault
        /\ controlled_transaction' = TRUE
    BY <1>5 DEF AcceptStart, Transition, Controlled
  <2>2. echo_tracking' = FALSE /\ pending_response_valid' = FALSE
    BY <1>1, <1>5 DEF ArmSingleVersionQuery, StopTracking, ForgetAnswers
  <2>3. PollType'
    BY <1>1, <1>4, <2>2 DEF CreditInv, PollType, FifoType, fifos
  <2>4. QED
    BY <1>3, <1>4, <2>1, <2>2, <2>3 DEF CreditInv, AnswersCredited, NoAnswerLost
<1>6. CASE RefuseStart(refusal)
  <2>1. UNCHANGED <<state, last_fault, echo_tracking, pending_response_valid>> /\ ~InFlight'
    BY <1>1, <1>4, <1>6 DEF RefuseStart, ArmSingleVersionQuery, InFlight
  <2>2. PollType'
    BY <1>1, <1>4, <2>1 DEF CreditInv, PollType, FifoType, fifos
  <2>3. QED
    BY <1>3, <1>4, <2>1, <2>2 DEF CreditInv, AnswersCredited, NoAnswerLost, InFlight
<1>7. QED
  BY <1>2, <1>5, <1>6 DEF Start

LEMMA RecoverCredits ==
  ASSUME CreditInv, RecoverCommand
  PROVE  CreditInv'
<1>1. TestInv'
  BY RecoverKeeps DEF CreditInv
<1>2. state' = "kIdle" /\ last_fault' = "kNone"
  BY DEF RecoverCommand, Recover
<1>3. PollType'
  BY DEF RecoverCommand, StopTracking, ForgetAnswers, CreditInv, PollType, FifoType,
     bus, fifos
<1>4. QED
  BY <1>1, <1>2, <1>3 DEF CreditInv, AnswersCredited, NoAnswerLost, InFlight

\* What a byte does to the tracker, while it tracks or not.
LEMMA PollByteTracks ==
  ASSUME PollType, PollByte
  PROVE  \E forward \in Seq(Byte) :
           /\ HearBytes(forward)
           /\ TrackerOK(tracker')
           /\ echo_tracking' \in BOOLEAN
           /\ rx_fifo' \in Seq(Byte)
<1> DEFINE byte == Head(rx_fifo)
           o == IF echo_tracking THEN FeedByte(tracker, byte, now_us)
                ELSE [tracker |-> tracker, forward |-> <<byte>>]
<1>1. /\ rx_fifo # <<>> /\ rx_fifo' = Tail(rx_fifo) /\ tracker' = o.tracker
      /\ echo_tracking' = (echo_tracking /\ ~(echo_tracking /\ ~o.tracker.active))
      /\ HearBytes(o.forward)
  BY DEF PollByte
<1>2. byte \in Byte /\ rx_fifo' \in Seq(Byte) /\ <<byte>> \in Seq(Byte)
  BY <1>1 DEF PollType, FifoType
<1>3. TrackerOK(o.tracker) /\ o.forward \in Seq(Byte)
  <2> HIDE DEF byte
  <2>1. CASE echo_tracking
    BY <1>2, <2>1, FeedByteOK DEF PollType
  <2>2. CASE ~echo_tracking
    BY <1>2, <2>2 DEF PollType
  <2>3. QED
    BY <2>1, <2>2
<1> HIDE DEF o
<1>4. QED
  BY <1>1, <1>2, <1>3

LEMMA PollCredits ==
  ASSUME CreditInv, PollByte
  PROVE  CreditInv'
<1>1. TestInv'
  BY PollKeeps DEF CreditInv
<1>2. /\ pc = "poll" /\ pc' = "poll" /\ (NotifyEchoComplete \/ UNCHANGED vars)
      /\ UNCHANGED <<tx_fifo, mount, owed, query>>
  BY DEF PollByte
<1>3. UNCHANGED <<state, response_complete, controlled_transaction, last_fault, active_query>>
  BY <1>2 DEF NotifyEchoComplete, vars, flags, query
<1>4. PICK forward \in Seq(Byte) :
        /\ HearBytes(forward) /\ TrackerOK(tracker') /\ echo_tracking' \in BOOLEAN
        /\ rx_fifo' \in Seq(Byte)
  BY PollByteTracks DEF CreditInv
<1>5. /\ controlled_aux_decoder \in Decoder /\ now_us \in Ms
      /\ pending_response_valid \in BOOLEAN
  BY ControlledAssumption DEF CreditInv, PollType, TestInv, IInv, TypeOK, Instant, Ms
<1>6. /\ controlled_aux_decoder' \in Decoder
      /\ \/ UNCHANGED <<pending, answer>>
         \/ /\ pending_response_valid' = TRUE
            /\ IsControlledVersionResponse(active_query, pending_response')
            /\ answer' = IF answer = "none" THEN "new" ELSE answer
  BY <1>4, <1>5, HearBytesKeeps
<1>7. PollType'
  BY <1>2, <1>3, <1>4, <1>6 DEF CreditInv, PollType, FifoType, pending
<1>8. AnswersCredited' /\ NoAnswerLost'
  <2>1. CASE UNCHANGED <<pending, answer>>
    BY <1>2, <1>3, <2>1 DEF CreditInv, AnswersCredited, NoAnswerLost, InFlight, pending
  <2>2. CASE /\ pending_response_valid' = TRUE
             /\ IsControlledVersionResponse(active_query, pending_response')
             /\ answer' = IF answer = "none" THEN "new" ELSE answer
    BY <1>2, <1>3, <2>2 DEF CreditInv, AnswersCredited, NoAnswerLost, InFlight
  <2>3. QED
    BY <1>6, <2>1, <2>2
<1>9. QED
  BY <1>1, <1>3, <1>7, <1>8 DEF CreditInv, InFlight

\* The tick that finds no answer and the deadline passed had none to find.
LEMMA TickCredits ==
  ASSUME CreditInv, TickTransmitter
  PROVE  CreditInv'
<1> DEFINE bus_busy == mount # <<>>
           drained  == tx_fifo = <<>>
<1>0. packet.bytes \in Seq(Byte) /\ TickOnBus
  BY DEF CreditInv, TestInv, IInv, TypeOK, AuxPacket, TickTransmitter
<1>1. PICK all_written \in BOOLEAN, taken \in Seq(Byte) :
        /\ pc = "tick" /\ pc' = "settle"
        /\ Tick(bus_busy, all_written, drained) /\ bus_busy \in BOOLEAN /\ drained \in BOOLEAN
        /\ UNCHANGED <<tracking, controlled_aux_decoder, pending, query, answer, owed, rx_fifo,
                       mount>>
        /\ tx_fifo' = IF state = "kWrite" /\ ~Overdue THEN tx_fifo \o taken ELSE tx_fifo
  <2>1. /\ pc = "tick" /\ pc' = "settle"
        /\ UNCHANGED <<tracking, controlled_aux_decoder, pending, query, answer, owed, rx_fifo,
                       mount>>
    BY DEF TickTransmitter, TickOnBus
  <2>2. QED
    BY <1>0, <2>1, TickOfBus
<1> HIDE DEF bus_busy, drained
<1>2. TestInv'
  BY TickKeeps DEF CreditInv
<1>3. tx_fifo' \in Seq(Byte)
  <2>1. packet.bytes \in Seq(Byte) /\ tx_fifo \in Seq(Byte)
    BY DEF CreditInv, TestInv, IInv, TypeOK, AuxPacket, PollType, FifoType
  <2>2. QED
    BY <1>1, <2>1
<1>4. PollType'
  BY <1>1, <1>3 DEF CreditInv, PollType, FifoType, tracking, pending, query
<1>5. IInv
  BY DEF CreditInv, TestInv
<1>6. QED
  <2>1. CASE UNCHANGED vars
    BY <1>1, <1>2, <1>4, <2>1 DEF vars, counts, flags, CreditInv, AnswersCredited,
       NoAnswerLost, InFlight, pending, query
  <2>2. CASE TickFrame /\ TickAdvances(bus_busy)
    <3>1. InFlight /\ InFlight' /\ UNCHANGED <<controlled_transaction, last_fault>>
      BY <2>2 DEF TickFrame, TickAdvances, InFlight
    <3>2. response_complete' = response_complete \/ (~response_complete /\ ~response_complete')
      BY <1>5, <2>2 DEF TickAdvances, IInv, ResponseFlagFresh, flags
    <3>3. AnswersCredited' /\ NoAnswerLost'
      BY <1>1, <3>1, <3>2 DEF CreditInv, AnswersCredited, NoAnswerLost, pending, query
    <3>4. QED
      BY <1>2, <1>4, <3>1, <3>3 DEF CreditInv, InFlight
  <2>3. CASE TickFrame /\ TickCompletes
    <3>1. ~InFlight' /\ InFlight /\ UNCHANGED last_fault
      BY <2>3 DEF TickCompletes, CompletePacket, Transition, InFlight
    <3>2. QED
      BY <1>1, <1>2, <1>4, <3>1 DEF CreditInv, AnswersCredited, NoAnswerLost, InFlight
  <2>4. CASE TickFrame /\ TickFaults
    <3>1. state' = "kFault" /\ ~InFlight'
      BY <2>4 DEF TickFaults, EnterFault, Transition, InFlight
    <3>2. last_fault' = "kResponseTimeout" => state = "kResponseWait" /\ ~response_complete
      BY <2>4 DEF TickFaults, EnterFault
    <3>3. QED
      BY <1>1, <1>2, <1>4, <3>1, <3>2 DEF CreditInv, AnswersCredited, NoAnswerLost, InFlight
  <2>5. QED
    BY <1>1, <1>5, <2>1, <2>2, <2>3, <2>4, TickOutcome

\* After the tick the transmitter is given what is kept; it takes it if it waits.
LEMMA SettleCredits ==
  ASSUME CreditInv, Settle
  PROVE  CreditInv'
<1> DEFINE accepted == pending_response_valid /\ AcceptsResponse(pending_response)
<1>1. /\ pc = "settle" /\ pc' = "command"
      /\ IF pending_response_valid THEN NotifyResponse(pending_response) ELSE UNCHANGED vars
      /\ pending_response_valid' =
           (pending_response_valid /\ ~accepted /\ ~(Completes \/ Fails))
      /\ tracker' = IF BeginsTracking THEN Begin(tracker, active_query, now_us) ELSE tracker
      /\ echo_tracking' = (~Fails /\ IF BeginsTracking THEN Begins(active_query)
                                      ELSE echo_tracking)
      /\ answer' = IF answer = "new" /\ InFlight THEN "old" ELSE answer
      /\ UNCHANGED <<bus, controlled_aux_decoder, pending_response, active_query, owed>>
  BY DEF Settle
<1>2. TestInv'
  BY SettleKeeps DEF CreditInv
<1>3. /\ UNCHANGED <<state, packet, controlled_transaction, last_fault>>
      /\ response_complete' = (response_complete \/ accepted)
  <2>1. CASE pending_response_valid
    BY <1>1, <2>1 DEF NotifyResponse
  <2>2. CASE ~pending_response_valid
    BY <1>1, <2>2 DEF vars, flags, CreditInv, TestInv, IInv, TypeOK
  <2>3. QED
    BY <2>1, <2>2
<1>4. TrackerOK(tracker')
  <2>1. TrackerOK(tracker) /\ active_query \in AuxPacket /\ now_us \in Ms
    BY ControlledAssumption DEF CreditInv, PollType, TestInv, IInv, TypeOK, Instant, Ms
  <2>2. QED
    BY <1>1, <2>1, BeginOK
<1>5. PollType'
  <2>1. echo_tracking' \in BOOLEAN /\ pending_response_valid' \in BOOLEAN
    BY <1>1 DEF CreditInv, PollType, Begins
  <2>2. QED
    BY <1>1, <1>4, <2>1 DEF CreditInv, PollType, FifoType, bus, fifos
<1>6. AnswersCredited' /\ NoAnswerLost'
  <2>1. CASE ~InFlight
    BY <1>1, <1>3, <2>1 DEF CreditInv, AnswersCredited, NoAnswerLost, InFlight
  <2>2. CASE InFlight
    <3>1. pending_response_valid' = (pending_response_valid /\ ~accepted)
      BY <1>1, <2>2 DEF Completes, Fails, InFlight, CreditInv, PollType
    <3>2. /\ InFlight' /\ last_fault' = "kNone"
          /\ answer' # "none" <=> answer # "none"
      BY <1>1, <1>3, <2>2 DEF InFlight, CreditInv
    <3>3. pending_response_valid /\ state = "kResponseWait" => accepted
      BY <2>2 DEF CreditInv, AnswersCredited, TestInv, QueryIsSelected, AcceptsResponse
    <3>4. accepted => answer # "none"
      BY <2>2 DEF CreditInv, AnswersCredited
    <3> HIDE DEF accepted
    <3>5. QED
      BY <1>1, <1>3, <2>2, <3>1, <3>2, <3>3, <3>4
      DEF CreditInv, AnswersCredited, NoAnswerLost
  <2>3. QED
    BY <2>1, <2>2
<1>7. QED
  BY <1>2, <1>3, <1>5, <1>6 DEF CreditInv, InFlight

LEMMA BusCarriesBytes ==
  ASSUME FifoType, NEW heard \in Heard
  PROVE  heard \in Seq(Byte) /\ Len(heard) <= 1
<1>1. tx_fifo # <<>> => Head(tx_fifo) \in Byte
  BY DEF FifoType
<1>2. mount # <<>> => Head(mount) \in Byte
  BY DEF FifoType
<1>3. NoiseBytes \subseteq Byte
  BY BusAssumption
<1>4. heard = <<>> \/ \E b \in Byte : heard = <<b>>
  BY <1>1, <1>2, <1>3 DEF Heard, Driving
<1>5. CASE heard = <<>>
  BY <1>5
<1>6. ASSUME NEW b \in Byte, heard = <<b>>
      PROVE  heard \in Seq(Byte) /\ Len(heard) <= 1
  BY <1>6
<1>7. QED
  BY <1>4, <1>5, <1>6

LEMMA ShiftType ==
  ASSUME NEW fifo \in Seq(Byte)
  PROVE  Shift(fifo) \in Seq(Byte)
BY DEF Shift

\* What the bus does in a step: it ages the transaction and carries bytes.
LEMMA SlotCredits ==
  ASSUME CreditInv, BusSlot
  PROVE  CreditInv'
<1>1. /\ pc = "tick" /\ pc' = "tick" /\ (Elapse(1) \/ UNCHANGED vars)
      /\ tx_fifo' = Shift(tx_fifo) /\ mount' = Shift(mount)
      /\ UNCHANGED <<tracking, controlled_aux_decoder, pending, query, answer>>
      /\ owed' \subseteq Destinations
  BY DEF BusSlot, BusMoves, CreditInv, PollType
<1>2. PICK heard \in Heard : rx_fifo' = rx_fifo \o heard
  BY DEF BusSlot, BusMoves
<1>3. UNCHANGED <<state, response_complete, controlled_transaction, last_fault>>
  BY <1>1 DEF Elapse, vars, flags
<1>4. FifoType
  BY DEF CreditInv, PollType
<1>5. rx_fifo' \in Seq(Byte)
  <2>1. heard \in Seq(Byte)
    BY <1>4, BusCarriesBytes
  <2>2. QED
    BY <1>2, <1>4, <2>1 DEF FifoType
<1>6. FifoType'
  BY <1>1, <1>4, <1>5, ShiftType DEF FifoType
<1>7. TestInv'
  BY BusKeeps DEF CreditInv
<1>8. QED
  BY <1>1, <1>3, <1>6, <1>7, CreditKept DEF tracking, query

LEMMA MountCredits ==
  ASSUME CreditInv, MountBegins
  PROVE  CreditInv'
<1>1. PICK d \in owed : MountSends(AnswerFrom(d)) /\ owed' = owed \ {d}
  BY DEF MountBegins
<1>2. /\ pc = "tick" /\ mount' = AnswerFrom(d).bytes
      /\ UNCHANGED <<vars, fifos, tracking, controlled_aux_decoder, pending, query, answer>>
  BY <1>1 DEF MountBegins, MountSends
<1>3. d \in Destinations /\ owed' \subseteq Destinations
  BY <1>1 DEF CreditInv, PollType
<1>4. mount' \in Seq(Byte)
  BY <1>2, <1>3, ControlledAssumption DEF AuxPacket
<1>5. FifoType'
  BY <1>2, <1>4 DEF CreditInv, PollType, FifoType, fifos
<1>6. TestInv'
  BY BusKeeps DEF CreditInv
<1>7. QED
  BY <1>2, <1>3, <1>5, <1>6, CreditKept DEF vars, flags, tracking, query

LEMMA CreditInvStep == CreditInv /\ [TestNext]_testVars => CreditInv'
<1> SUFFICES ASSUME CreditInv, [TestNext]_testVars PROVE CreditInv'
  OBVIOUS
<1>1. TestInv'
  BY TestInvStep DEF CreditInv
<1>2. FifoType /\ owed \subseteq Destinations
  BY DEF CreditInv, PollType
<1>3. CASE CommandsDone \/ PollDone \/ \E d \in Destinations : SelectDestination(d)
  <2>1. /\ pc # "settle"
        /\ UNCHANGED <<vars, bus, tracking, controlled_aux_decoder, pending, query,
                       answer, owed>>
    BY <1>3 DEF CommandsDone, PollDone, SelectDestination
  <2>2. QED
    BY <1>1, <1>2, <2>1, CreditKept DEF FifoType, vars, flags, bus, fifos, tracking, query
<1>4. CASE UNCHANGED testVars
  BY <1>1, <1>4 DEF testVars, vars, flags, bus, fifos, tracking, pending, query, CreditInv,
     PollType, FifoType, AnswersCredited, NoAnswerLost, InFlight
<1>5. QED
  BY <1>3, <1>4, ArmCredits, RecoverCredits, PollCredits, TickCredits, SettleCredits,
     SlotCredits, MountCredits DEF TestNext, Round

LEMMA CreditInvariance == TestSpec => []CreditInv
BY CreditInvInit, CreditInvStep, PTL DEF TestSpec

\* A query is completed by an answer read since its own ARM, although what was
\* read earlier for the same destination would pass for one (AnswerReadSinceArmed).
THEOREM NoStaleAnswer == TestSpec => []AnswerReadSinceArmed
<1>1. CreditInv => AnswerReadSinceArmed
  BY DEF CreditInv, AnswersCredited, AnswerReadSinceArmed
<1>2. QED
  BY <1>1, CreditInvariance, PTL

\* An answer read before the round of the deadline is never lost, in whatever
\* state of the transmitter it comes (NoAnswerLost).
THEOREM AnswersCount == TestSpec => []NoAnswerLost
<1>1. CreditInv => NoAnswerLost
  BY DEF CreditInv
<1>2. QED
  BY <1>1, CreditInvariance, PTL

----------------------------------------------------------------------------
(* Whose echo it is *)

\* A round of the loop is over before the bus has carried a whole query, six
\* bytes or 3.1 ms.  In a longer one stray bytes like the query could be read
\* between the beginning of the tracking and the write, and pass for its echo.
RoundShorterThanQuery == MaxRound < 6

BytesOfRound ==
  /\ round_us \in 0..MaxRound
  /\ Len(rx_fifo) <= MaxRound
  /\ pc = "tick" => Len(rx_fifo) <= round_us

\* Tracking is of the query being written, and ends when its echo is noted.
TrackingOfQuery ==
  echo_tracking =>
    /\ query_active /\ ~echo_complete
    /\ tracker.active /\ tracker.matches = echo_matches_at_start
    /\ state \in {"kWrite", "kUartDrain", "kEchoWait"} \/ (pc = "settle" /\ state = "kFault")
    /\ pc = "settle" => state # "kWrite"

EchoInv ==
  /\ CreditInv
  /\ BytesOfRound
  /\ state \in {"kBusWait", "kBusyClaim", "kClaimDelay", "kTxEnable", "kWrite", "kBackoff"}
       => ~echo_complete
  /\ TrackingOfQuery
  \* before the write no more than a round's bytes can be matched
  /\ echo_tracking /\ state = "kWrite" /\ pc # "tick" =>
       Len(tracker.expected) = 6 /\ tracker.matched + Len(rx_fifo) <= MaxRound

LEMMA EchoInvInit == TestInit => EchoInv
<1> SUFFICES ASSUME TestInit PROVE EchoInv
  OBVIOUS
<1>1. BytesOfRound
  BY BusAssumption DEF TestInit, BusInit, BytesOfRound
<1>2. QED
  BY <1>1, CreditInvInit DEF TestInit, BusInit, Init, EchoInv, TrackingOfQuery

LEMMA BeginStartsOver ==
  ASSUME NEW t, TrackerOK(t), NEW p, NEW now, Begins(p)
  PROVE  LET u == Begin(t, p, now)
         IN  u.active = TRUE /\ u.matched = 0 /\ u.expected = p.bytes /\ u.matches = t.matches
BY DEF TrackerOK, Tracker, Begin

\* A byte that is not the last of the echo completes no match.
LEMMA FeedBytePart ==
  ASSUME NEW t, TrackerOK(t), t.active, t.matched + 1 < Len(t.expected), NEW byte, NEW now
  PROVE  LET u == FeedByte(t, byte, now).tracker
         IN  /\ u.matches = t.matches
             /\ ~u.active \/ (u.matched = t.matched + 1 /\ u.expected = t.expected)
<1>1. CASE DeadlineReached(now, t.deadline_ms)
  BY <1>1, TrackerTimesOut DEF FeedByte
<1>2. CASE ~DeadlineReached(now, t.deadline_ms) /\ byte = t.expected[t.matched + 1]
  <2>1. t.matched + 1 # Len(t.expected)
    BY TrackerFields
  <2>2. FeedByte(t, byte, now).tracker =
          [t EXCEPT !.matched = @ + 1, !.active = TRUE, !.matches = @]
    BY <1>2, <2>1 DEF FeedByte
  <2>3. QED
    BY <2>2 DEF TrackerOK, Tracker
<1>3. CASE ~DeadlineReached(now, t.deadline_ms) /\ byte # t.expected[t.matched + 1]
  BY <1>3, TrackerMismatches DEF FeedByte
<1>4. QED
  BY <1>1, <1>2, <1>3

LEMMA FewBytes == EchoInv => Len(rx_fifo) \in Nat /\ MaxRound \in Nat /\ round_us \in Nat
BY BusAssumption DEF EchoInv, CreditInv, PollType, FifoType, BytesOfRound

\* The commands: a query begins with nothing tracked.
LEMMA ArmEchoes ==
  ASSUME EchoInv, ArmSingleVersionQuery
  PROVE  EchoInv'
<1> DEFINE q == QueryTo(selected_destination)
           refusal == Refusal(q, "kControlledTest", "kControlledTest")
<1>1. active_query' = q /\ Start(q, "kControlledTest", "kControlledTest")
  BY DEF ArmSingleVersionQuery
<1>2. CreditInv' /\ BytesOfRound'
  BY ArmCredits DEF EchoInv, ArmSingleVersionQuery, BytesOfRound, bus, fifos
<1>3. ~echo_tracking /\ state = "kIdle"
  BY DEF ArmSingleVersionQuery, EchoInv, TrackingOfQuery
<1>4. CASE refusal = "none" /\ AcceptStart(q, Controlled("kControlledTest", "kControlledTest"))
  <2>1. ~echo_complete' /\ ~echo_tracking'
    BY <1>1, <1>4 DEF AcceptStart, Transition, ArmSingleVersionQuery, StopTracking
  <2>2. QED
    BY <1>2, <2>1 DEF EchoInv, TrackingOfQuery
<1>5. CASE RefuseStart(refusal)
  <2>1. state' = "kIdle" /\ echo_tracking' = echo_tracking
    BY <1>1, <1>3, <1>5 DEF RefuseStart, ArmSingleVersionQuery
  <2>2. QED
    BY <1>2, <1>3, <2>1 DEF EchoInv, TrackingOfQuery
<1>6. QED
  BY <1>1, <1>4, <1>5 DEF Start

LEMMA RecoverEchoes ==
  ASSUME EchoInv, RecoverCommand
  PROVE  EchoInv'
<1>1. state' = "kIdle" /\ ~echo_tracking'
  BY DEF RecoverCommand, Recover, StopTracking
<1>2. CreditInv' /\ BytesOfRound'
  BY RecoverCredits DEF EchoInv, RecoverCommand, BytesOfRound, bus, fifos
<1>3. QED
  BY <1>1, <1>2 DEF EchoInv, TrackingOfQuery

LEMMA PollEchoes ==
  ASSUME EchoInv, PollByte, RoundShorterThanQuery
  PROVE  EchoInv'
<1> DEFINE byte == Head(rx_fifo)
           u == FeedByte(tracker, byte, now_us).tracker
<1>1. /\ pc = "poll" /\ pc' = "poll" /\ rx_fifo # <<>> /\ rx_fifo' = Tail(rx_fifo)
      /\ UNCHANGED <<round_us, echo_matches_at_start, query_active>>
  BY DEF PollByte, query
<1>2. /\ CreditInv' /\ TrackerOK(tracker) /\ byte \in Byte
      /\ Len(rx_fifo) >= 1 /\ Len(rx_fifo') = Len(rx_fifo) - 1
  BY <1>1, PollCredits DEF EchoInv, CreditInv, PollType, FifoType
<1>3. BytesOfRound'
  BY <1>1, <1>2, FewBytes DEF EchoInv, BytesOfRound
<1>4. UNCHANGED state
  BY DEF PollByte, NotifyEchoComplete, vars
<1>5. CASE ~echo_tracking
  <2>1. ~echo_tracking' /\ echo_complete' = echo_complete
    BY <1>5 DEF PollByte, vars, flags
  <2>2. QED
    BY <1>2, <1>3, <1>4, <2>1 DEF EchoInv, TrackingOfQuery
<1>6. CASE echo_tracking
  <2>1. /\ tracker' = u /\ echo_tracking' = (echo_tracking /\ ~(echo_tracking /\ ~u.active))
        /\ IF ~u.active /\ u.matches > echo_matches_at_start
             THEN NotifyEchoComplete ELSE UNCHANGED vars
    BY <1>6 DEF PollByte
  <2>2. /\ TrackerOK(u)
        /\ u.matches = tracker.matches \/ (u.matches = tracker.matches + 1 /\ ~u.active)
    <3> HIDE DEF byte
    <3> QED
      BY <1>2, FeedByteOK
  <2>3. state = "kWrite" =>
          /\ u.matches = tracker.matches
          /\ ~u.active \/ (u.matched = tracker.matched + 1 /\ u.expected = tracker.expected)
    <3>1. ASSUME state = "kWrite"
          PROVE  tracker.active /\ tracker.matched + 1 < Len(tracker.expected)
      <4>1. /\ tracker.active /\ Len(tracker.expected) = 6
            /\ tracker.matched + Len(rx_fifo) <= MaxRound /\ MaxRound < 6
        BY <1>1, <1>6, <3>1 DEF EchoInv, TrackingOfQuery, RoundShorterThanQuery
      <4>2. tracker.matched \in Nat /\ Len(rx_fifo) \in Nat /\ MaxRound \in Nat
        BY <1>2, FewBytes, TrackerFields
      <4>3. QED
        BY <1>2, <4>1, <4>2
    <3> HIDE DEF byte
    <3>2. QED
      BY <1>2, <3>1, FeedBytePart
  <2>4. tracker.matched \in Nat /\ tracker.matches \in Nat /\ u.active \in BOOLEAN
    BY <1>2, <2>2, TrackerFields
  <2> HIDE DEF u
  <2>5. CASE u.active
    <3>1. echo_tracking' = TRUE /\ echo_complete' = echo_complete
      BY <1>6, <2>1, <2>4, <2>5 DEF vars, flags
    <3>2. TrackingOfQuery'
      BY <1>1, <1>4, <1>6, <2>1, <2>2, <2>5, <3>1 DEF EchoInv, TrackingOfQuery
    <3>3. state = "kWrite" =>
            Len(tracker'.expected) = 6 /\ tracker'.matched + Len(rx_fifo') <= MaxRound
      BY <1>1, <1>2, <1>6, <2>1, <2>3, <2>4, <2>5, FewBytes DEF EchoInv
    <3>4. QED
      BY <1>2, <1>3, <1>4, <3>1, <3>2, <3>3 DEF EchoInv
  <2>6. CASE ~u.active
    <3>1. ~echo_tracking'
      BY <2>1, <2>6
    <3>2. state = "kWrite" => echo_complete' = echo_complete
      BY <1>6, <2>1, <2>3, <2>4 DEF EchoInv, TrackingOfQuery, vars, flags
    <3>3. tracker.active /\ state \in {"kWrite", "kUartDrain", "kEchoWait"}
      BY <1>1, <1>6 DEF EchoInv, TrackingOfQuery
    <3>4. QED
      BY <1>2, <1>3, <1>4, <3>1, <3>2, <3>3 DEF EchoInv, TrackingOfQuery
  <2>7. QED
    BY <2>5, <2>6
<1>7. QED
  BY <1>5, <1>6

LEMMA WriteMoves ==
  ASSUME NEW bus_busy, NEW all_written \in BOOLEAN, NEW tx_complete, state = "kWrite",
         Tick(bus_busy, all_written, tx_complete)
  PROVE  state' \in {"kUartDrain", "kFault"}
<1>1. CASE TickOverdue
  BY <1>1 DEF TickOverdue, EnterFault, Transition
<1>2. CASE TickWrite(all_written)
  BY <1>2 DEF TickWrite, EnterFault, Transition
<1>3. QED
  BY <1>1, <1>2 DEF Tick, TickState, TickAtRest, TickBusWait, TickBusyClaim,
     TickClaimDelay, TickTxEnable, TickUartDrain, TickEchoWait, TickResponseWait,
     TickBackoff

LEMMA TickEchoes ==
  ASSUME EchoInv, TickTransmitter
  PROVE  EchoInv'
<1> DEFINE bus_busy == mount # <<>>
           drained  == tx_fifo = <<>>
<1>0. packet.bytes \in Seq(Byte) /\ TickOnBus
  BY DEF EchoInv, CreditInv, TestInv, IInv, TypeOK, AuxPacket, TickTransmitter
<1>1. PICK all_written \in BOOLEAN :
        /\ pc = "tick" /\ pc' = "settle"
        /\ Tick(bus_busy, all_written, drained) /\ bus_busy \in BOOLEAN /\ drained \in BOOLEAN
        /\ UNCHANGED <<tracking, query, rx_fifo>> /\ round_us' = 0
  <2>1. /\ pc = "tick" /\ pc' = "settle"
        /\ UNCHANGED <<tracking, query, rx_fifo>> /\ round_us' = 0
    BY DEF TickTransmitter, TickOnBus
  <2>2. QED
    BY <1>0, <2>1, TickOfBus
<1> HIDE DEF bus_busy, drained
<1>2. CreditInv' /\ BytesOfRound' /\ IInv
  BY <1>1, TickCredits, FewBytes DEF EchoInv, BytesOfRound, CreditInv, TestInv
<1>3. state = "kWrite" => state' \in {"kUartDrain", "kFault"}
  BY <1>1, WriteMoves
<1>4. /\ UNCHANGED <<tracker, echo_tracking, echo_matches_at_start, query_active>>
      /\ echo_tracking => /\ state \in {"kWrite", "kUartDrain", "kEchoWait"}
                          /\ ~echo_complete
  BY <1>1 DEF EchoInv, TrackingOfQuery, tracking, query
<1>5. CASE UNCHANGED vars
  BY <1>1, <1>2, <1>3, <1>4, <1>5 DEF EchoInv, TrackingOfQuery, vars, flags
<1>6. CASE TickFrame /\ TickAdvances(bus_busy)
  <2>1. /\ state' \in {"kBusWait", "kBusyClaim", "kClaimDelay", "kTxEnable", "kWrite", "kBackoff"}
             => ~echo_complete'
        /\ echo_tracking => state' \in {"kUartDrain", "kEchoWait"} /\ ~echo_complete'
    BY <1>4, <1>6 DEF TickAdvances, EchoInv, flags
  <2>2. QED
    BY <1>1, <1>2, <1>4, <2>1 DEF EchoInv, TrackingOfQuery
<1>7. CASE TickFrame /\ TickCompletes
  <2>1. state' = "kIdle" /\ ~echo_tracking
    BY <1>4, <1>7 DEF TickCompletes, CompletePacket, Transition, EchoInv, CreditInv, InFlight
  <2>2. QED
    BY <1>1, <1>2, <1>4, <2>1 DEF EchoInv, TrackingOfQuery
<1>8. CASE TickFrame /\ TickFaults
  <2>1. state' = "kFault" /\ echo_complete' = echo_complete
    BY <1>8 DEF TickFaults, EnterFault, Transition, flags
  <2>2. QED
    BY <1>1, <1>2, <1>4, <2>1 DEF EchoInv, TrackingOfQuery
<1>9. QED
  BY <1>1, <1>2, <1>5, <1>6, <1>7, <1>8, TickOutcome

\* Tracking begins with the write to come, and a failed query is tracked no more.
LEMMA SettleEchoes ==
  ASSUME EchoInv, Settle
  PROVE  EchoInv'
<1>1. /\ pc = "settle" /\ pc' = "command"
      /\ (\E r : NotifyResponse(r)) \/ UNCHANGED vars
      /\ tracker' = IF BeginsTracking THEN Begin(tracker, active_query, now_us) ELSE tracker
      /\ echo_matches_at_start' =
           IF BeginsTracking THEN tracker.matches ELSE echo_matches_at_start
      /\ echo_tracking' = (~Fails /\ IF BeginsTracking THEN Begins(active_query)
                                      ELSE echo_tracking)
      /\ query_active' = (query_active /\ ~(Completes \/ Fails))
      /\ UNCHANGED <<bus, active_query>>
  BY DEF Settle
<1>2. CreditInv' /\ BytesOfRound' /\ TestInv /\ TrackerOK(tracker)
  BY <1>1, SettleCredits DEF EchoInv, BytesOfRound, CreditInv, PollType, bus, fifos
<1>3. state' = state /\ echo_complete' = echo_complete /\ rx_fifo' = rx_fifo
  BY <1>1 DEF NotifyResponse, vars, flags, bus, fifos
<1>4. CASE BeginsTracking
  <2>1. query_active /\ ~echo_tracking /\ state = "kWrite" /\ ~echo_complete
    BY <1>4 DEF BeginsTracking, EchoInv
  <2>2. query_active' = query_active /\ InFlight
    BY <1>1, <2>1 DEF Completes, Fails, InFlight
  <2>3. Len(active_query.bytes) = 6
    BY <2>2 DEF EchoInv, CreditInv, TestInv, QueryIsSelected, IInv, OnlyVettedPackets,
       IsControlledReadOnlyQuery, Size
  <2>4. CASE Begins(active_query)
    <3>1. /\ tracker'.active = TRUE /\ tracker'.matched = 0
          /\ tracker'.expected = active_query.bytes
          /\ tracker'.matches = echo_matches_at_start'
      BY <1>1, <1>2, <1>4, <2>4, BeginStartsOver
    <3>2. Len(rx_fifo') <= MaxRound /\ 0 + Len(rx_fifo') = Len(rx_fifo')
      BY <1>3, FewBytes DEF EchoInv, BytesOfRound
    <3>3. TrackingOfQuery'
      <4>1. pc' # "settle" /\ query_active' /\ ~echo_complete' /\ state' = "kWrite"
        <5>1. ~echo_complete' /\ query_active' /\ state' = "kWrite"
          BY <1>3, <2>1, <2>2, Zenon
        <5>2. QED
          BY <1>1, <5>1
      <4>2. QED
        BY <3>1, <4>1 DEF TrackingOfQuery
    <3>4. Len(tracker'.expected) = 6 /\ tracker'.matched + Len(rx_fifo') <= MaxRound
      BY <2>3, <3>1, <3>2
    <3>5. QED
      BY <1>2, <1>3, <2>1, <3>3, <3>4 DEF EchoInv
  <2>5. CASE ~Begins(active_query)
    BY <1>1, <1>2, <1>3, <1>4, <2>1, <2>5 DEF EchoInv, TrackingOfQuery
  <2>6. QED
    BY <2>4, <2>5
<1>5. CASE ~BeginsTracking
  <2>1. CASE ~echo_tracking
    BY <1>1, <1>2, <1>3, <1>5, <2>1 DEF EchoInv, TrackingOfQuery
  <2>2. CASE echo_tracking /\ state = "kFault"
    <3>1. Fails
      BY <1>1, <1>2, <2>2 DEF TestInv, Unsettled, Fails, EchoInv, TrackingOfQuery, InFlight
    <3>2. QED
      BY <1>1, <1>2, <1>3, <3>1, <2>2 DEF EchoInv, TrackingOfQuery
  <2>3. CASE echo_tracking /\ state # "kFault"
    <3>1. state \in {"kUartDrain", "kEchoWait"}
      BY <1>1, <2>3 DEF EchoInv, TrackingOfQuery
    <3>2. query_active' = query_active
      BY <1>1, <1>2, <3>1 DEF Completes, Fails, TestInv, TestType
    <3>3. /\ tracker' = tracker /\ echo_matches_at_start' = echo_matches_at_start
          /\ query_active /\ ~echo_complete
          /\ tracker.active /\ tracker.matches = echo_matches_at_start
      BY <1>1, <1>5, <2>3 DEF EchoInv, TrackingOfQuery
    <3>4. TrackingOfQuery'
      <4>1. pc' # "settle" /\ query_active' /\ ~echo_complete'
        <5>1. ~echo_complete' /\ query_active'
          BY <1>3, <3>2, <3>3, Zenon
        <5>2. QED
          BY <1>1, <5>1
      <4>2. tracker'.active /\ tracker'.matches = echo_matches_at_start'
        BY <3>3
      <4>3. state' \in {"kWrite", "kUartDrain", "kEchoWait"}
        BY <1>3, <3>1
      <4>4. QED
        BY <4>1, <4>2, <4>3 DEF TrackingOfQuery
    <3>5. QED
      BY <1>2, <1>3, <3>1, <3>4 DEF EchoInv
  <2>4. QED
    BY <2>1, <2>2, <2>3
<1>6. QED
  BY <1>4, <1>5

LEMMA SlotEchoes ==
  ASSUME EchoInv, BusSlot
  PROVE  EchoInv'
<1>1. /\ pc = "tick" /\ pc' = "tick" /\ (Elapse(1) \/ UNCHANGED vars)
      /\ round_us < MaxRound /\ round_us' = round_us + 1
      /\ UNCHANGED <<tracking, query>>
  BY DEF BusSlot, BusMoves
<1>2. PICK heard \in Heard : rx_fifo' = rx_fifo \o heard
  BY DEF BusSlot, BusMoves
<1>3. CreditInv' /\ FifoType
  BY SlotCredits DEF EchoInv, CreditInv, PollType
<1>4. BytesOfRound'
  <2>1. heard \in Seq(Byte) /\ Len(heard) <= 1
    BY <1>3, BusCarriesBytes
  <2>2. Len(rx_fifo') = Len(rx_fifo) + Len(heard) /\ Len(heard) \in Nat
    BY <1>2, <1>3, <2>1 DEF FifoType
  <2>3. QED
    BY <1>1, <2>1, <2>2, FewBytes DEF EchoInv, BytesOfRound
<1>5. UNCHANGED <<state, echo_complete>>
  BY <1>1 DEF Elapse, vars, flags
<1>6. QED
  BY <1>1, <1>3, <1>4, <1>5 DEF EchoInv, TrackingOfQuery, tracking, query

\* A step that reads nothing and leaves the transmitter alone.
LEMMA RestEchoes ==
  ASSUME EchoInv, [TestNext]_testVars, pc # "settle", pc' # "settle",
         pc = "tick" => pc' = "tick",
         UNCHANGED <<state, echo_complete, rx_fifo, round_us, tracking, query_active>>,
         pc' = "tick" => pc = "tick" \/ rx_fifo = <<>>
  PROVE  EchoInv'
<1>1. CreditInv'
  BY CreditInvStep DEF EchoInv
<1>2. Len(<<>>) = 0
  OBVIOUS
<1>3. BytesOfRound'
  BY <1>2, FewBytes DEF EchoInv, BytesOfRound
<1>4. QED
  BY <1>1, <1>3 DEF EchoInv, TrackingOfQuery, tracking

LEMMA EchoInvStep ==
  RoundShorterThanQuery /\ EchoInv /\ [TestNext]_testVars => EchoInv'
<1> SUFFICES ASSUME RoundShorterThanQuery, EchoInv, [TestNext]_testVars PROVE EchoInv'
  OBVIOUS
<1>1. CASE CommandsDone \/ PollDone \/ MountBegins \/ \E d \in Destinations : SelectDestination(d)
  BY <1>1, RestEchoes DEF CommandsDone, PollDone, MountBegins, MountSends, SelectDestination,
     vars, flags, bus, fifos, query
<1>2. CASE UNCHANGED testVars
  <2>1. CreditInv'
    BY CreditInvStep DEF EchoInv
  <2>2. QED
    BY <1>2, <2>1 DEF testVars, EchoInv, BytesOfRound, TrackingOfQuery, vars, flags, bus,
       fifos, tracking, query
<1>3. QED
  BY <1>1, <1>2, ArmEchoes, RecoverEchoes, PollEchoes, TickEchoes, SettleEchoes, SlotEchoes
  DEF TestNext, Round

\* If a round is shorter than a query is on the bus, an echo noted for a query was
\* heard after its write: nothing of an abandoned one passes for it, though RECOVER
\* leaves the tracker open (EchoIsOfThisQuery).
THEOREM EchoesAreOwn ==
  ASSUME RoundShorterThanQuery
  PROVE  TestSpec => []EchoIsOfThisQuery
<1>1. EchoInv => EchoIsOfThisQuery
  BY DEF EchoInv, CreditInv, TestInv, IInv, TypeOK, HandedOverByState, EchoIsOfThisQuery,
     InFlight, AuxTxState
<1>2. QED
  BY <1>1, EchoInvInit, EchoInvStep, PTL DEF TestSpec

----------------------------------------------------------------------------
(* A clean bus *)

QuerySize == 6        \* the bytes of a controlled query

Window == EchoWindowMs(QuerySize)

\* No noise, no race for BUSY, and rounds short enough for a query: the echo window
\* outlasts it and two rounds, one before the write and one after the last byte, and
\* the timeouts of the transmitter leave room for it.
CleanTest ==
  /\ MaxNoise = 0 /\ ~MountRaces /\ ~ShortWrites
  /\ QuerySize <= MaximumPacketSize
  /\ QuerySize + 2 * MaxRound <= Window
  /\ FitsTimeouts(QuerySize, MaxRound)

\* The bus moves between the poll and the tick, and the mount is silent on a bus that
\* is ours or about to be.
RoundTime ==
  /\ round_us \in 0..MaxRound /\ noise \in Nat
  /\ pc # "tick" => round_us = 0

MountSilent == state \in {"kBusyClaim"} \cup OwnerStates => mount = <<>>

\* A query is under way that was armed with an empty UART.
QuietQuery == quiet_line /\ InFlight

\* Nothing is left to send but in the drain, and nothing to read before the write.
Quiet ==
  /\ state # "kUartDrain" => tx_fifo = <<>>
  /\ \/ state = "kBusyClaim" /\ pc = "tick"
     \/ state \in {"kClaimDelay", "kTxEnable", "kWrite"}
     => rx_fifo = <<>>

InTime ==
  /\ HeldInTime(MaxRound, round_us) /\ DrainsInTime(QuerySize, round_us)
  /\ state = "kUartDrain" =>
       Len(tx_fifo) = IF Elapsed <= QuerySize THEN QuerySize - Elapsed ELSE 0

\* The time left until the tracker gives up.
Left == Delta(tracker.deadline_ms, now_us)

Tracked ==
  /\ echo_tracking /\ tracker.active /\ tracker.expected = packet.bytes
  /\ tracker.matches = echo_matches_at_start
  /\ Left <= Window

\* The echo is tracked from the round before the write on, in order, and the window
\* outlasts it; the poll after the drain finds it complete.
EchoAwaited ==
  /\ \/ state \in {"kBusWait", "kBusyClaim", "kClaimDelay", "kTxEnable", "kBackoff"}
     \/ state = "kWrite" /\ pc = "settle"
     => ~echo_tracking
  /\ state = "kWrite" /\ pc # "settle" =>
       Tracked /\ tracker.matched = 0 /\ Left + round_us >= Window
  /\ state \in {"kUartDrain", "kEchoWait"} /\ ~echo_complete =>
       Tracked /\ EchoInOrder(packet.bytes, tracker.matched, rx_fifo, tx_fifo)
  /\ state = "kUartDrain" /\ ~echo_complete => Left + Elapsed + MaxRound >= Window
  /\ state = "kEchoWait" /\ ~echo_complete =>
       Left + QuerySize + 2 * MaxRound > Window /\ pc # "tick"

CleanInv ==
  /\ CreditInv
  /\ RoundTime /\ MountSilent /\ CleanBusEchoes
  /\ QuietQuery => Quiet /\ InTime /\ EchoAwaited

LEMMA TestClocksAgree == Ms = Instant
BY ControlledAssumption DEF Ms, Instant

LEMMA QuietQuerySent ==
  ASSUME CleanTest, CreditInv, InFlight
  PROVE  /\ packet = active_query /\ packet \in AuxPacket /\ packet.bytes \in Seq(Byte)
         /\ Size(packet) = QuerySize /\ Len(packet.bytes) = QuerySize
         /\ QuerySize \in Nat \ {0} /\ Begins(packet)
         /\ Window \in 1..(MsMod \div 2) /\ Window \in Nat
         /\ MaxRound \in Nat \ {0} /\ last_fault = "kNone"
<1>1. packet = active_query /\ controlled_transaction /\ last_fault = "kNone"
  BY DEF CreditInv, TestInv, QueryIsSelected, InFlight
<1>2. packet \in AuxPacket /\ Size(packet) = 6
  BY <1>1 DEF CreditInv, TestInv, IInv, TypeOK, OnlyVettedPackets, IsControlledReadOnlyQuery
<1>3. packet.bytes \in Seq(Byte) /\ Len(packet.bytes) = 6
  BY <1>2 DEF AuxPacket, Size
<1>4. QuerySize = 6 /\ QuerySize \in 1..MaximumPacketSize
  BY ProtocolAssumption DEF CleanTest, QuerySize
<1>5. Window \in 1..(MsMod \div 2)
  BY <1>4, WindowBounds DEF Window
<1>6. QED
  BY <1>1, <1>2, <1>3, <1>4, <1>5, MsHalf, BusAssumption DEF Begins

\* While the echo is awaited the deadline is ahead.
LEMMA QueryInWindow ==
  ASSUME CleanTest, CleanInv, QuietQuery,
         \/ state = "kWrite" /\ pc # "settle"
         \/ state \in {"kUartDrain", "kEchoWait"} /\ ~echo_complete
  PROVE  /\ Left \in 1..(MsMod \div 2) /\ ~DeadlineReached(now_us, tracker.deadline_ms)
         /\ TrackerOK(tracker) /\ tracker.deadline_ms \in Ms /\ now_us \in Ms
<1>1. /\ QuerySize \in Nat /\ Window \in Nat /\ Window <= MsMod \div 2 /\ MsMod \div 2 \in Nat
      /\ MaxRound \in Nat /\ QuerySize + 2 * MaxRound <= Window
  BY QuietQuerySent, MsHalf DEF CleanInv, QuietQuery, CleanTest
<1>2. /\ TrackerOK(tracker) /\ tracker.deadline_ms \in Ms /\ now_us \in Ms
      /\ tracker.deadline_ms \in Instant /\ now_us \in Instant
  BY TrackerFields, TestClocksAgree DEF CleanInv, CreditInv, PollType, TestInv, IInv, TypeOK
<1>3. Left \in Nat /\ Left = ElapsedMs(tracker.deadline_ms, now_us)
  BY <1>2, DeltaInstant, ControlledAssumption DEF Left, Delta, ElapsedMs, Instant
<1>4. Left <= Window
  BY DEF CleanInv, EchoAwaited, Tracked
<1>5. Left >= 1
  <2>1. round_us \in 0..MaxRound /\ Elapsed \in Nat
    BY TimesType DEF CleanInv, RoundTime, CreditInv, TestInv
  <2>2. CASE state = "kWrite"
    <3>1. Left + round_us >= Window
      BY <2>2 DEF CleanInv, EchoAwaited
    <3>2. QuerySize >= 1
      BY DEF QuerySize
    <3>3. QED
      BY <1>1, <1>3, <2>1, <3>1, <3>2
  <2>3. CASE state = "kUartDrain" /\ ~echo_complete
    <3>1. Left + Elapsed + MaxRound >= Window /\ Elapsed < QuerySize + round_us
      BY <2>3 DEF CleanInv, EchoAwaited, InTime, DrainsInTime
    <3>2. QED
      BY <1>1, <1>3, <2>1, <3>1
  <2>4. CASE state = "kEchoWait" /\ ~echo_complete
    <3>1. Left + QuerySize + 2 * MaxRound > Window
      BY <2>4 DEF CleanInv, EchoAwaited
    <3>2. \A left, q, r, w \in Nat : left + q + 2 * r > w /\ q + 2 * r <= w => left >= 1
      OBVIOUS
    <3>3. QED
      BY <1>1, <1>3, <3>1, <3>2
  <2>5. QED
    BY <2>2, <2>3, <2>4
<1>6. Left \in 1..(MsMod \div 2)
  BY <1>1, <1>3, <1>4, <1>5
<1>7. QED
  BY <1>2, <1>3, <1>6, NotYetDue

LEMMA CleanInvInit ==
  ASSUME TestInit
  PROVE  CleanInv
<1>1. state = "kIdle" /\ last_fault = "kNone" /\ ~InFlight
  BY DEF TestInit, BusInit, Init, InFlight
<1>2. round_us = 0 /\ noise = 0 /\ mount = <<>>
  BY DEF TestInit, BusInit
<1>3. QED
  BY <1>1, <1>2, CreditInvInit, BusAssumption
  DEF CleanInv, RoundTime, MountSilent, CleanBusEchoes, QuietQuery

\* Steps that leave the transmitter, the tracker and the bus alone.
LEMMA RestCleanly ==
  ASSUME CleanInv, CreditInv', MountSilent',
         UNCHANGED <<vars, fifos, noise, round_us, tracking, quiet_line>>,
         pc # "settle", pc' # "settle", pc' = "tick" <=> pc = "tick"
  PROVE  CleanInv'
<1>1. /\ UNCHANGED <<now_us, state, packet, last_fault, echo_complete, tx_fifo, rx_fifo,
                     tracker, echo_tracking, echo_matches_at_start>>
      /\ InFlight' = InFlight /\ Elapsed' = Elapsed /\ Held' = Held /\ Left' = Left
  BY DEF vars, busy, counts, flags, fifos, tracking, InFlight, Elapsed, Held, Left, Delta
<1>2. RoundTime' /\ CleanBusEchoes' /\ QuietQuery' = QuietQuery
  BY <1>1 DEF CleanInv, RoundTime, CleanBusEchoes, QuietQuery
<1>3. CASE QuietQuery
  <2>1. Quiet' /\ InTime'
    BY <1>1, <1>3 DEF CleanInv, Quiet, InTime, HeldInTime, DrainsInTime, vars
  <2>2. Tracked' <=> Tracked
    BY <1>1 DEF Tracked
  <2>3. EchoAwaited'
    BY <1>1, <1>3, <2>2 DEF CleanInv, EchoAwaited
  <2>4. QED
    BY <1>2, <2>1, <2>3 DEF CleanInv
<1>4. CASE ~QuietQuery
  BY <1>2, <1>4 DEF CleanInv
<1>5. QED
  BY <1>3, <1>4

\* With everything read and nothing to send the echo is complete.
LEMMA PollEndsCleanly ==
  ASSUME CleanTest, CleanInv, PollDone
  PROVE  CleanInv'
<1>1. /\ pc = "poll" /\ pc' = "tick" /\ rx_fifo = <<>>
      /\ UNCHANGED <<vars, bus, tracking, quiet_line>>
  BY DEF PollDone
<1>2. CreditInv'
  BY CreditInvStep DEF CleanInv, PollDone, TestNext, Round
<1>3. /\ UNCHANGED <<now_us, state, packet, last_fault, echo_complete, tx_fifo, rx_fifo, mount,
                     noise, round_us, tracker, echo_tracking, echo_matches_at_start>>
      /\ InFlight' = InFlight /\ Elapsed' = Elapsed /\ Held' = Held /\ Left' = Left
  BY <1>1 DEF vars, busy, counts, flags, bus, fifos, tracking, InFlight, Elapsed, Held, Left, Delta
<1>4. RoundTime' /\ MountSilent' /\ CleanBusEchoes' /\ QuietQuery' = QuietQuery
  BY <1>1, <1>3 DEF CleanInv, RoundTime, MountSilent, CleanBusEchoes, QuietQuery
<1>5. CASE QuietQuery
  <2>1. Quiet' /\ InTime'
    BY <1>1, <1>3, <1>5 DEF CleanInv, Quiet, InTime, HeldInTime, DrainsInTime, vars
  <2>2. state = "kEchoWait" => echo_complete
    <3>1. SUFFICES ASSUME state = "kEchoWait", ~echo_complete PROVE FALSE
      OBVIOUS
    <3>2. /\ Tracked /\ EchoInOrder(packet.bytes, tracker.matched, <<>>, <<>>)
          /\ TrackerOK(tracker)
      BY <1>1, <1>5, <3>1, QueryInWindow DEF CleanInv, EchoAwaited, Quiet
    <3>3. packet.bytes \in Seq(Byte) /\ tracker.matched \in Nat
      BY <1>5, <3>2, QuietQuerySent, TrackerFields DEF CleanInv, QuietQuery
    <3>4. tracker.matched = Len(packet.bytes)
      BY <3>2, <3>3, EchoExhausted
    <3>5. QED
      BY <3>2, <3>3, <3>4 DEF Tracked, TrackerOK
  <2>3. Tracked' <=> Tracked
    BY <1>3 DEF Tracked
  <2>4. EchoAwaited'
    BY <1>1, <1>3, <1>5, <2>2, <2>3 DEF CleanInv, EchoAwaited
  <2>5. QED
    BY <1>2, <1>4, <2>1, <2>4 DEF CleanInv
<1>6. CASE ~QuietQuery
  BY <1>2, <1>4, <1>6 DEF CleanInv
<1>7. QED
  BY <1>5, <1>6

\* A query is armed with nothing tracked, on a line that is quiet or is not.
LEMMA ArmCleanly ==
  ASSUME CleanInv, ArmSingleVersionQuery
  PROVE  CleanInv'
<1> DEFINE q == QueryTo(selected_destination)
           refusal == Refusal(q, "kControlledTest", "kControlledTest")
<1>1. /\ active_query' = q /\ Start(q, "kControlledTest", "kControlledTest")
      /\ state = "kIdle" /\ quiet_line' = (tx_fifo = <<>>) /\ pc = "command"
      /\ UNCHANGED <<bus, pc>>
  BY DEF ArmSingleVersionQuery
<1>2. CreditInv'
  BY ArmCredits DEF CleanInv
<1>3. UNCHANGED <<tx_fifo, rx_fifo, mount, noise, round_us>> /\ last_fault = "kNone"
  BY <1>1 DEF bus, fifos, CleanInv, CreditInv
<1>4. CASE refusal = "none" /\ AcceptStart(q, Controlled("kControlledTest", "kControlledTest"))
  <2>1. state' = "kBusWait" /\ last_fault' = last_fault /\ ~echo_tracking'
    BY <1>1, <1>4 DEF AcceptStart, Transition, ArmSingleVersionQuery, StopTracking
  <2>2. RoundTime' /\ MountSilent' /\ CleanBusEchoes'
    BY <1>1, <1>3, <2>1 DEF CleanInv, RoundTime, MountSilent, CleanBusEchoes, OwnerStates
  <2>3. QuietQuery' => Quiet' /\ InTime' /\ EchoAwaited'
    BY <1>1, <1>3, <2>1 DEF QuietQuery, Quiet, InTime, HeldInTime, DrainsInTime, EchoAwaited
  <2>4. QED
    BY <1>2, <2>2, <2>3 DEF CleanInv
<1>5. CASE RefuseStart(refusal)
  <2>1. state' = "kIdle" /\ last_fault' = last_fault
    BY <1>1, <1>5 DEF RefuseStart
  <2>2. QED
    BY <1>1, <1>2, <1>3, <2>1 DEF CleanInv, RoundTime, MountSilent, CleanBusEchoes,
       OwnerStates, QuietQuery, InFlight
<1>6. QED
  BY <1>1, <1>4, <1>5 DEF Start

LEMMA RecoverCleanly ==
  ASSUME CleanInv, RecoverCommand
  PROVE  CleanInv'
<1>1. state' = "kIdle" /\ last_fault' = "kNone" /\ pc = "command"
      /\ UNCHANGED <<noise, round_us, pc>>
  BY DEF RecoverCommand, Recover, bus
<1>2. CreditInv'
  BY RecoverCredits DEF CleanInv
<1>3. QED
  BY <1>1, <1>2 DEF CleanInv, RoundTime, MountSilent, CleanBusEchoes, OwnerStates,
     QuietQuery, InFlight

\* A byte read while the echo is awaited is the next of it, and the last completes it.
LEMMA PollCleanly ==
  ASSUME CleanTest, CleanInv, PollByte
  PROVE  CleanInv'
<1> DEFINE byte == Head(rx_fifo)
           o == IF echo_tracking THEN FeedByte(tracker, byte, now_us)
                ELSE [tracker |-> tracker, forward |-> <<byte>>]
           ended == echo_tracking /\ ~o.tracker.active
<1>1. /\ pc = "poll" /\ pc' = "poll" /\ rx_fifo # <<>> /\ rx_fifo' = Tail(rx_fifo)
      /\ tracker' = o.tracker
      /\ echo_tracking' = (echo_tracking /\ ~ended)
      /\ IF ended /\ o.tracker.matches > echo_matches_at_start
           THEN NotifyEchoComplete ELSE UNCHANGED vars
      /\ UNCHANGED <<tx_fifo, mount, noise, round_us, echo_matches_at_start, quiet_line>>
  BY DEF PollByte
<1>2. CreditInv'
  BY PollCredits DEF CleanInv
<1>3. /\ UNCHANGED <<now_us, state, state_entered_us, busy_claimed_us, packet, last_fault>>
      /\ echo_complete => echo_complete'
      /\ InFlight' = InFlight /\ Elapsed' = Elapsed /\ Held' = Held
  BY <1>1 DEF NotifyEchoComplete, vars, busy, counts, flags, InFlight, Elapsed, Held, Delta
<1>4. RoundTime' /\ MountSilent' /\ CleanBusEchoes' /\ QuietQuery' = QuietQuery
  BY <1>1, <1>3 DEF CleanInv, RoundTime, MountSilent, CleanBusEchoes, QuietQuery
<1>5. CASE ~QuietQuery
  BY <1>2, <1>4, <1>5 DEF CleanInv
<1>6. CASE QuietQuery
  <2>1. Quiet /\ InTime /\ EchoAwaited
    BY <1>6 DEF CleanInv
  <2>2. state \notin {"kClaimDelay", "kTxEnable", "kWrite"}
    BY <1>1, <2>1 DEF Quiet
  <2>3. Quiet'
    BY <1>1, <1>3, <2>1, <2>2 DEF Quiet
  <2>4. InTime'
    BY <1>1, <1>3, <2>1 DEF InTime, HeldInTime, DrainsInTime
  <2>5. EchoAwaited'
    <3>1. CASE state \in {"kUartDrain", "kEchoWait"} /\ ~echo_complete
      <4> DEFINE m == tracker.matched
      <4>1. /\ Tracked /\ EchoInOrder(packet.bytes, m, rx_fifo, tx_fifo)
            /\ TrackerOK(tracker) /\ ~DeadlineReached(now_us, tracker.deadline_ms)
        BY <1>6, <2>1, <3>1, QueryInWindow DEF EchoAwaited
      <4>2. /\ packet.bytes \in Seq(Byte) /\ rx_fifo \in Seq(Byte) /\ tx_fifo \in Seq(Byte)
            /\ m \in Nat /\ m < Len(packet.bytes)
        <5>1. packet.bytes \in Seq(Byte)
          BY <1>6, QuietQuerySent DEF CleanInv, QuietQuery
        <5>2. rx_fifo \in Seq(Byte) /\ tx_fifo \in Seq(Byte)
          BY DEF CleanInv, CreditInv, PollType, FifoType
        <5>3. QED
          BY <4>1, <5>1, <5>2, TrackerFields DEF Tracked, TrackerOK
      <4>3. /\ byte = packet.bytes[m + 1]
            /\ EchoInOrder(packet.bytes, m + 1, rx_fifo', tx_fifo)
        BY <1>1, <4>1, <4>2, EchoRead
      <4>4. o = FeedByte(tracker, byte, now_us)
        BY <4>1 DEF Tracked
      <4> HIDE DEF o, byte
      <4>5. /\ o.tracker.expected = packet.bytes /\ o.tracker.deadline_ms = tracker.deadline_ms
            /\ o.tracker.matched = m + 1
            /\ o.tracker.active = (m + 1 # Len(packet.bytes))
            /\ o.tracker.matches = IF o.tracker.active THEN tracker.matches ELSE tracker.matches + 1
        BY <4>1, <4>3, <4>4, FeedMatches DEF Tracked
      <4>6. tracker.matches = echo_matches_at_start /\ tracker.matches \in Nat /\ echo_tracking
        BY <4>1, TrackerFields DEF Tracked
      <4>7. CASE o.tracker.active
        <5>1. UNCHANGED vars /\ echo_tracking'
          BY <1>1, <4>6, <4>7
        <5>2. Left' = Left /\ Tracked'
          BY <1>1, <1>3, <4>1, <4>5, <4>7, <5>1 DEF Left, Delta, Tracked
        <5>3. EchoInOrder(packet.bytes, tracker.matched, rx_fifo, tx_fifo)'
          BY <1>1, <1>3, <4>3, <4>5
        <5>4. echo_complete' = echo_complete
          BY <5>1 DEF vars, flags
        <5>5. QED
          BY <1>1, <1>3, <2>1, <3>1, <5>2, <5>3, <5>4 DEF EchoAwaited
      <4>8. CASE ~o.tracker.active
        <5>1. ended /\ o.tracker.matches > echo_matches_at_start
          BY <4>5, <4>6, <4>8
        <5>2. echo_complete'
          BY <1>1, <5>1 DEF NotifyEchoComplete
        <5>3. QED
          BY <1>3, <2>2, <3>1, <5>2 DEF EchoAwaited
      <4>9. QED
        BY <4>7, <4>8
    <3>2. CASE state \in {"kBusWait", "kBusyClaim", "kBackoff"}
      BY <1>1, <1>3, <2>1, <3>2 DEF EchoAwaited
    <3>3. CASE /\ state \notin {"kBusWait", "kBusyClaim", "kBackoff"}
               /\ ~(state \in {"kUartDrain", "kEchoWait"} /\ ~echo_complete)
      BY <1>3, <2>2, <3>3 DEF EchoAwaited
    <3>4. QED
      BY <3>1, <3>2, <3>3
  <2>6. QED
    BY <1>2, <1>4, <2>3, <2>4, <2>5 DEF CleanInv
<1>7. QED
  BY <1>5, <1>6

\* The tick: it fails for want of the bus or of the answer only.
LEMMA TickCleanly ==
  ASSUME CleanTest, CleanInv, TickTransmitter
  PROVE  CleanInv'
<1> DEFINE bus_busy == mount # <<>>
           tx_complete == tx_fifo = <<>>
<1>0. packet.bytes \in Seq(Byte) /\ TickOnBus /\ ~ShortWrites
  BY DEF CleanTest, CleanInv, CreditInv, TestInv, IInv, TypeOK, AuxPacket, TickTransmitter
<1>1. /\ pc = "tick" /\ pc' = "settle" /\ Tick(bus_busy, TRUE, tx_complete)
      /\ UNCHANGED <<rx_fifo, mount, noise, tracking, quiet_line>> /\ round_us' = 0
      /\ tx_fifo' = IF state = "kWrite" /\ ~Overdue THEN tx_fifo \o packet.bytes ELSE tx_fifo
  <2>1. PICK all_written \in BOOLEAN, taken \in Seq(Byte) :
          /\ Tick(bus_busy, all_written, tx_complete)
          /\ tx_fifo' = IF state = "kWrite" /\ ~Overdue THEN tx_fifo \o taken ELSE tx_fifo
          /\ ~ShortWrites => all_written /\ taken = packet.bytes
    BY <1>0, TickOfBus
  <2>2. all_written = TRUE /\ taken = packet.bytes
    BY <1>0, <2>1
  <2>3. QED
    BY <2>1, <2>2 DEF TickTransmitter, TickOnBus
<1>2. /\ bus_busy \in BOOLEAN /\ tx_complete \in BOOLEAN /\ IInv
      /\ round_us \in 0..MaxRound /\ MaxRound \in Nat \ {0}
  BY BusAssumption DEF CleanInv, CreditInv, TestInv, RoundTime
<1>3. (tx_complete <=> tx_fifo = <<>>) /\ (bus_busy <=> mount # <<>>)
  OBVIOUS
<1> HIDE DEF bus_busy, tx_complete
<1>4. CreditInv'
  BY TickCredits DEF CleanInv
<1>5. RoundTime'
  BY <1>1, <1>2 DEF CleanInv, RoundTime
<1>6. MountSilent'
  <2>1. \/ state' \notin {"kBusyClaim"} \cup OwnerStates
        \/ state' = state
        \/ state = "kBusWait" /\ ~bus_busy
        \/ state \in {"kBusyClaim"} \cup OwnerStates
    BY <1>1, <1>2, TickOutcome DEF TickAdvances, TickCompletes, CompletePacket, TickFaults,
       EnterFault, Transition, OwnerStates, vars
  <2>2. QED
    BY <1>1, <1>3, <2>1 DEF CleanInv, MountSilent
<1>7. CASE ~quiet_line
  BY <1>1, <1>4, <1>5, <1>6, <1>7 DEF CleanInv, CleanBusEchoes, QuietQuery
<1>8. CASE ~InFlight
  <2>1. UNCHANGED vars
    BY <1>1, <1>2, <1>8, TickOutcome DEF InFlight, TickAdvances, TickCompletes, TickFaults
  <2>2. ~InFlight' /\ UNCHANGED last_fault
    BY <1>8, <2>1 DEF InFlight, vars
  <2>3. QED
    BY <1>1, <1>4, <1>5, <1>6, <2>2 DEF CleanInv, CleanBusEchoes, QuietQuery
<1>9. CASE QuietQuery
  <2>1. Quiet /\ InTime /\ EchoAwaited
    BY <1>9 DEF CleanInv
  <2>2. PICK n \in Nat \ {0}, window \in Nat, late \in 0..MaxRound :
          /\ n = QuerySize /\ window = Window /\ late = round_us
          /\ packet.bytes \in Seq(Byte) /\ n = Len(packet.bytes)
          /\ FitsTimeouts(n, MaxRound) /\ last_fault = "kNone"
    BY <1>2, <1>9, QuietQuerySent DEF CleanInv, CleanTest, QuietQuery
  <2>3. HeldInTime(MaxRound, late) /\ DrainsInTime(n, late)
    BY <2>1, <2>2 DEF InTime
  <2>4. rx_fifo \in Seq(Byte) /\ tx_fifo \in Seq(Byte)
    BY DEF CleanInv, CreditInv, PollType, FifoType
  <2>5. state = "kUartDrain" /\ ~tx_complete => Elapsed < n
    BY <1>3, <2>1, <2>2, <2>4, TimesType, <1>2 DEF InTime
  <2>6. state = "kEchoWait" => echo_complete
    BY <1>1, <2>1 DEF EchoAwaited
  <2>7. /\ ~Overdue /\ HeldInTime(MaxRound, 0)' /\ DrainsInTime(n, 0)'
        /\ CleanOutcome(bus_busy, tx_complete)
    BY <1>1, <1>2, <2>2, <2>3, <2>5, <2>6, CleanTick
  <2>8. packet' = packet /\ now_us' = now_us /\ Left' = Left
        /\ UNCHANGED <<tracker, echo_tracking, echo_matches_at_start>>
    BY <1>1, <2>7 DEF CleanOutcome, TickFrame, vars, Left, Delta, tracking
  <2>9. HeldInTime(MaxRound, round_us)' /\ DrainsInTime(QuerySize, round_us)'
    BY <1>1, <2>2, <2>7 DEF HeldInTime, DrainsInTime
  <2>10. state # "kWrite" => tx_fifo' = tx_fifo
    BY <1>1
  <2>11. Tracked' <=> Tracked
    BY <2>8 DEF Tracked
  <2>12. SUFFICES CleanBusEchoes' /\ (InFlight' => Quiet' /\ InTime' /\ EchoAwaited')
    BY <1>4, <1>5, <1>6 DEF CleanInv, QuietQuery
  <2>13. CASE UNCHANGED vars
    <3>1. /\ state \notin {"kBusyClaim", "kTxEnable", "kWrite", "kEchoWait"}
          /\ UNCHANGED <<state, last_fault, echo_complete, tx_fifo, rx_fifo>>
          /\ Elapsed' = Elapsed
      <4>1. UNCHANGED <<state, last_fault, echo_complete>> /\ Elapsed' = Elapsed
        BY <2>13 DEF vars, flags, counts, Elapsed, Delta
      <4>2. state \notin {"kBusyClaim", "kTxEnable", "kWrite", "kEchoWait"}
        BY <1>2, <2>7, <4>1 DEF CleanOutcome, TickAdvances, TickCompletes, CompletePacket,
           EnterFault, Transition
      <4>3. QED
        BY <1>1, <2>10, <4>1, <4>2
    <3>2. Quiet' /\ InTime' /\ CleanBusEchoes'
      BY <1>1, <2>1, <2>2, <2>9, <3>1 DEF Quiet, InTime, CleanBusEchoes
    <3>3. EchoAwaited'
      BY <1>1, <2>1, <2>8, <2>11, <3>1 DEF EchoAwaited
    <3>4. QED
      BY <3>2, <3>3
  <2>14. CASE TickFrame /\ TickAdvances(bus_busy) /\ state_entered_us' = now_us
              /\ (state = "kUartDrain" => tx_complete)
    <3>1. CleanBusEchoes'
      BY <2>2, <2>14 DEF TickAdvances, CleanBusEchoes
    <3>2. Elapsed' = 0
      BY <1>2, <2>8, <2>14, TimesType DEF Elapsed, Delta
    <3>3. /\ state # "kUartDrain" => tx_fifo = <<>>
          /\ state \in {"kBusyClaim", "kClaimDelay", "kTxEnable", "kWrite"} => rx_fifo = <<>>
      BY <1>1, <2>1 DEF Quiet
    <3>4. CASE state = "kWrite"
      <4>1. state' = "kUartDrain"
        BY <2>14, <3>4 DEF TickAdvances
      <4>2. tx_fifo' = packet.bytes /\ rx_fifo' = <<>>
        BY <1>1, <2>2, <2>7, <3>3, <3>4
      <4>3. Quiet' /\ InTime'
        BY <2>2, <2>9, <3>2, <4>1, <4>2 DEF Quiet, InTime
      <4>4. /\ Tracked /\ tracker.matched = 0 /\ Left + late >= window
        BY <1>1, <2>1, <2>2, <3>4 DEF EchoAwaited
      <4>5. EchoInOrder(packet.bytes, tracker.matched, rx_fifo, tx_fifo)'
        BY <2>2, <2>8, <4>2, <4>4, EchoBegins
      <4>6. Left' + Elapsed' + MaxRound >= Window
        <5>1. Left \in Int
          BY <1>1, <1>9, <3>4, QueryInWindow
        <5>2. QED
          BY <1>2, <2>2, <2>8, <3>2, <4>4, <5>1
      <4>7. EchoAwaited'
        BY <1>1, <2>11, <4>1, <4>4, <4>5, <4>6 DEF EchoAwaited
      <4>8. QED
        BY <3>1, <4>3, <4>7
    <3>5. CASE state = "kUartDrain"
      <4>1. state' \in {"kEchoWait", "kResponseWait"} /\ echo_complete' = echo_complete
            /\ tx_complete
        BY <2>14, <3>5 DEF TickAdvances, flags
      <4>2. Quiet' /\ InTime'
        BY <1>3, <2>9, <2>10, <3>5, <4>1 DEF Quiet, InTime, OwnerStates
      <4>3. CASE ~echo_complete
        <5>1. /\ Tracked /\ EchoInOrder(packet.bytes, tracker.matched, rx_fifo, tx_fifo)
              /\ Left + Elapsed + MaxRound >= window /\ Elapsed < n + late
          BY <2>1, <2>2, <2>3, <3>5, <4>3 DEF EchoAwaited, DrainsInTime
        <5>2. Left \in Int /\ Elapsed \in Int
          BY <1>2, <1>9, <3>5, <4>3, QueryInWindow, TimesType
        <5>3. Left' + QuerySize + 2 * MaxRound > Window
          <6>1. \A left, elapsed \in Int, n1, r, l, w \in Nat :
                  left + elapsed + r >= w /\ elapsed < n1 + l /\ l <= r
                    => left + n1 + 2 * r > w
            OBVIOUS
          <6>2. n \in Nat /\ MaxRound \in Nat /\ late \in Nat /\ window \in Nat /\ late <= MaxRound
            BY <1>2, <2>2
          <6>3. Left + n + 2 * MaxRound > window
            BY <5>1, <5>2, <6>1, <6>2
          <6>4. QED
            BY <2>2, <2>8, <6>3
        <5>4. EchoInOrder(packet.bytes, tracker.matched, rx_fifo, tx_fifo)'
          BY <1>1, <2>8, <2>10, <3>5, <5>1
        <5>5. EchoAwaited'
          BY <1>1, <2>11, <4>1, <5>1, <5>3, <5>4 DEF EchoAwaited
        <5>6. QED
          BY <3>1, <4>2, <5>5
      <4>4. CASE echo_complete
        <5>1. EchoAwaited'
          BY <4>1, <4>4 DEF EchoAwaited
        <5>2. QED
          BY <3>1, <4>2, <5>1
      <4>5. QED
        BY <4>3, <4>4
    <3>6. CASE state = "kEchoWait"
      <4>1. state' = "kResponseWait"
        BY <2>14, <3>6 DEF TickAdvances
      <4>2. Quiet' /\ InTime' /\ EchoAwaited'
        BY <2>1, <2>9, <2>10, <3>6, <4>1 DEF Quiet, InTime, EchoAwaited
      <4>3. QED
        BY <3>1, <4>2
    <3>7. CASE state \notin {"kWrite", "kUartDrain", "kEchoWait"}
      <4>1. /\ state' \notin {"kUartDrain", "kEchoWait"}
            /\ state \in {"kBusWait", "kBusyClaim", "kClaimDelay", "kTxEnable", "kBackoff"}
            /\ state' \in {"kClaimDelay", "kTxEnable", "kWrite"}
                 => state \in {"kBusyClaim", "kClaimDelay", "kTxEnable"}
        BY <2>14, <3>7 DEF TickAdvances
      <4>2. UNCHANGED <<tx_fifo, rx_fifo>> /\ tx_fifo = <<>>
        BY <1>1, <2>10, <3>3, <3>7
      <4>3. Quiet' /\ InTime'
        BY <1>1, <2>9, <3>3, <4>1, <4>2 DEF Quiet, InTime
      <4>4. ~echo_tracking'
        BY <2>1, <2>8, <4>1 DEF EchoAwaited
      <4>5. EchoAwaited'
        BY <1>1, <4>1, <4>4 DEF EchoAwaited
      <4>6. QED
        BY <3>1, <4>3, <4>5
    <3>8. QED
      BY <3>4, <3>5, <3>6, <3>7
  <2>15. CASE \/ TickCompletes
              \/ state = "kBusWait" /\ EnterFault("kContentionTimeout")
              \/ state = "kResponseWait" /\ EnterFault("kResponseTimeout")
    BY <2>2, <2>15 DEF TickCompletes, CompletePacket, EnterFault, Transition, InFlight,
       CleanBusEchoes
  <2>16. QED
    BY <2>7, <2>13, <2>14, <2>15 DEF CleanOutcome
<1>10. QED
  BY <1>7, <1>8, <1>9 DEF QuietQuery

\* Tracking begins in the round before the write, with the whole window ahead.
LEMMA SettleCleanly ==
  ASSUME CleanTest, CleanInv, Settle
  PROVE  CleanInv'
<1>1. /\ pc = "settle" /\ pc' = "command"
      /\ (\E r : NotifyResponse(r)) \/ UNCHANGED vars
      /\ tracker' = IF BeginsTracking THEN Begin(tracker, active_query, now_us) ELSE tracker
      /\ echo_matches_at_start' =
           IF BeginsTracking THEN tracker.matches ELSE echo_matches_at_start
      /\ echo_tracking' = (~Fails /\ IF BeginsTracking THEN Begins(active_query)
                                      ELSE echo_tracking)
      /\ UNCHANGED <<bus, quiet_line>>
  BY DEF Settle
<1>2. CreditInv'
  BY SettleCredits DEF CleanInv
<1>3. /\ UNCHANGED <<now_us, state, state_entered_us, busy_claimed_us, packet, last_fault,
                     echo_complete, tx_fifo, rx_fifo, mount, noise, round_us>>
      /\ InFlight' = InFlight /\ Elapsed' = Elapsed /\ Held' = Held
  BY <1>1 DEF NotifyResponse, vars, busy, counts, flags, bus, fifos, InFlight, Elapsed, Held,
     Delta
<1>4. RoundTime' /\ MountSilent' /\ CleanBusEchoes' /\ QuietQuery' = QuietQuery
  BY <1>1, <1>3 DEF CleanInv, RoundTime, MountSilent, CleanBusEchoes, QuietQuery
<1>5. CASE ~QuietQuery
  BY <1>2, <1>4, <1>5 DEF CleanInv
<1>6. CASE QuietQuery
  <2>1. Quiet /\ InTime /\ EchoAwaited /\ InFlight
    BY <1>6 DEF CleanInv, QuietQuery
  <2>2. Quiet' /\ InTime'
    BY <1>1, <1>3, <2>1 DEF Quiet, InTime, HeldInTime, DrainsInTime
  <2>3. ~Fails /\ query_active
    BY <1>1, <2>1 DEF Fails, InFlight, CleanInv, CreditInv, TestInv, Unsettled
  <2>4. EchoAwaited'
    <3>1. CASE state = "kWrite"
      <4>1. BeginsTracking
        BY <1>1, <2>1, <2>3, <3>1 DEF EchoAwaited, BeginsTracking
      <4>2. /\ packet = active_query /\ packet \in AuxPacket /\ Begins(packet)
            /\ Size(packet) = QuerySize /\ Window \in 1..(MsMod \div 2)
        BY <2>1, QuietQuerySent DEF CleanInv
      <4>3. now_us \in Ms /\ TrackerOK(tracker)
        BY TestClocksAgree DEF CleanInv, CreditInv, PollType, TestInv, IInv, TypeOK
      <4> DEFINE begun == Begin(tracker, packet, now_us)
      <4>4. tracker' = begun /\ echo_tracking' /\ echo_matches_at_start' = tracker.matches
        BY <1>1, <2>3, <4>1, <4>2
      <4>5. /\ TrackerOK(begun) /\ begun.active /\ begun.expected = packet.bytes
            /\ begun.matched = 0 /\ begun.matches = tracker.matches
            /\ begun.deadline_ms = (now_us + Window) % MsMod
        BY <4>2, <4>3, BeginOK DEF Window
      <4> HIDE DEF begun
      <4>6. ElapsedMs(begun.deadline_ms, now_us) = Window
        BY <4>2, <4>3, <4>5, SetAhead
      <4>7. Left' = Window
        BY <1>3, <4>4, <4>6, ControlledAssumption DEF Left, Delta, ElapsedMs
      <4>8. Left' <= Window /\ Left' + round_us' >= Window
        BY <1>3, <4>2, <4>7, MsHalf DEF CleanInv, RoundTime
      <4>9. Tracked' /\ tracker'.matched = 0
        BY <1>3, <4>4, <4>5, <4>8 DEF Tracked
      <4>10. QED
        BY <1>1, <1>3, <3>1, <4>8, <4>9 DEF EchoAwaited
    <3>2. CASE state # "kWrite"
      <4>1. UNCHANGED <<tracker, echo_tracking, echo_matches_at_start>>
        BY <1>1, <2>3, <3>2 DEF BeginsTracking, CleanInv, CreditInv, PollType
      <4>2. Left' = Left /\ (Tracked' <=> Tracked)
        BY <1>3, <4>1 DEF Left, Delta, Tracked
      <4>3. QED
        BY <1>1, <1>3, <2>1, <3>2, <4>1, <4>2 DEF EchoAwaited
    <3>3. QED
      BY <3>1, <3>2
  <2>5. QED
    BY <1>2, <1>4, <2>2, <2>4 DEF CleanInv
<1>7. QED
  BY <1>5, <1>6

\* What the bus carries while it is ours is the query, and before the write nothing.
LEMMA CleanlyHeard ==
  ASSUME CleanTest, CleanInv, QuietQuery, NEW heard \in Heard
  PROVE  /\ heard \in Seq(Byte)
         /\ state \in {"kBusyClaim"} \cup OwnerStates /\ tx_fifo = <<>> => heard = <<>>
         /\ tx_fifo # <<>> => heard = <<Head(tx_fifo)>>
<1>1. FifoType /\ MountSilent /\ noise \in Nat /\ MaxNoise = 0
  BY DEF CleanInv, CreditInv, PollType, RoundTime, CleanTest
<1>2. heard \in Seq(Byte)
  BY <1>1, BusCarriesBytes
<1>3. state \in {"kBusyClaim"} \cup OwnerStates /\ tx_fifo = <<>> => heard = <<>>
  BY <1>1 DEF MountSilent, Heard, Driving
<1>4. tx_fifo # <<>> => state = "kUartDrain" /\ tx_enabled
  BY DEF CleanInv, Quiet, CreditInv, TestInv, IInv, OutputsFollowState, DrivingStates
<1>5. tx_fifo # <<>> => heard = <<Head(tx_fifo)>>
  BY <1>1, <1>4 DEF MountSilent, Heard, Driving, OwnerStates
<1>6. QED
  BY <1>2, <1>3, <1>5

\* Time passes: a byte leaves the UART and comes back.
LEMMA SlotCleanly ==
  ASSUME CleanTest, CleanInv, BusSlot
  PROVE  CleanInv'
<1>1. /\ pc = "tick" /\ pc' = "tick" /\ round_us < MaxRound
      /\ UNCHANGED <<tracker, echo_tracking, echo_matches_at_start, quiet_line>>
      /\ tx_fifo' = Shift(tx_fifo) /\ mount' = Shift(mount) /\ round_us' = round_us + 1
      /\ Elapse(1) \/ (state \in {"kIdle", "kFault"} /\ UNCHANGED vars)
  BY DEF BusSlot, BusMoves, tracking
<1>2. PICK heard \in Heard :
        /\ rx_fifo' = rx_fifo \o heard
        /\ noise' = IF tx_fifo = <<>> /\ mount = <<>> THEN noise + Len(heard) ELSE noise
  BY DEF BusSlot, BusMoves
<1>3. CreditInv'
  BY SlotCredits DEF CleanInv
<1>4. /\ UNCHANGED <<state, packet, last_fault, echo_complete>> /\ InFlight' = InFlight
  BY <1>1 DEF Elapse, vars, counts, flags, InFlight
<1>5. /\ rx_fifo \in Seq(Byte) /\ tx_fifo \in Seq(Byte) /\ FifoType
      /\ round_us \in Nat /\ MaxRound \in Nat \ {0} /\ noise \in Nat
  BY BusAssumption DEF CleanInv, CreditInv, PollType, FifoType, RoundTime
<1>6. RoundTime'
  <2>1. heard \in Seq(Byte)
    BY <1>5, BusCarriesBytes
  <2>2. noise' \in Nat /\ round_us' \in 0..MaxRound
    BY <1>1, <1>2, <1>5, <2>1
  <2>3. QED
    BY <1>1, <2>2 DEF RoundTime
<1>7. MountSilent' /\ CleanBusEchoes' /\ QuietQuery' = QuietQuery
  BY <1>1, <1>4 DEF CleanInv, MountSilent, CleanBusEchoes, QuietQuery, Shift
<1>8. CASE ~QuietQuery
  BY <1>3, <1>6, <1>7, <1>8 DEF CleanInv
<1>9. CASE QuietQuery
  <2>1. Quiet /\ InTime /\ EchoAwaited /\ InFlight
    BY <1>9 DEF CleanInv, QuietQuery
  <2>2. /\ heard \in Seq(Byte)
        /\ state \in {"kBusyClaim"} \cup OwnerStates /\ tx_fifo = <<>> => heard = <<>>
        /\ tx_fifo # <<>> => heard = <<Head(tx_fifo)>>
    BY <1>9, CleanlyHeard
  <2>3. PICK n \in Nat \ {0}, window \in 1..(MsMod \div 2), late \in 0..(MaxRound - 1) :
          /\ n = QuerySize /\ window = Window /\ late = round_us
          /\ packet.bytes \in Seq(Byte) /\ FitsTimeouts(n, MaxRound)
    <3>1. round_us \in 0..(MaxRound - 1)
      BY <1>1, <1>5
    <3>2. QED
      BY <2>1, <3>1, QuietQuerySent DEF CleanInv, CleanTest
  <2>4. Elapse(1) /\ IInv
    BY <1>1, <2>1 DEF InFlight, CleanInv, CreditInv, TestInv
  <2>5. HeldInTime(MaxRound, late) /\ DrainsInTime(n, late)
    BY <2>1, <2>3 DEF InTime
  <2>6. /\ HeldInTime(MaxRound, late + 1)' /\ DrainsInTime(n, late + 1)'
        /\ state = "kUartDrain" => Elapsed' = Elapsed + 1
    BY <1>5, <2>3, <2>4, <2>5, TimePasses
  <2>7. HeldInTime(MaxRound, round_us)' /\ DrainsInTime(QuerySize, round_us)'
    BY <1>1, <2>3, <2>6 DEF HeldInTime, DrainsInTime
  <2>8. Elapsed \in Nat
    BY <2>4, TimesType
  <2>9. tx_fifo = <<>> => tx_fifo' = <<>>
    BY <1>1 DEF Shift
  <2>10. Quiet'
    <3>1. ASSUME state \in {"kBusyClaim", "kClaimDelay", "kTxEnable", "kWrite"}, rx_fifo = <<>>
          PROVE  rx_fifo' = <<>>
      <4>1. heard = <<>>
        BY <2>1, <2>2, <3>1 DEF Quiet, OwnerStates
      <4>2. QED
        BY <1>2, <3>1, <4>1
    <3>2. QED
      BY <1>1, <1>4, <2>1, <2>9, <3>1 DEF Quiet
  <2>11. InTime'
    <3>1. CASE state # "kUartDrain"
      BY <1>4, <2>7, <3>1 DEF InTime
    <3>2. CASE state = "kUartDrain"
      <4>1. Len(tx_fifo) = IF Elapsed <= n THEN n - Elapsed ELSE 0
        BY <2>1, <2>3, <3>2 DEF InTime
      <4>2. Len(tx_fifo') = IF tx_fifo = <<>> THEN 0 ELSE Len(tx_fifo) - 1
        BY <1>1, <1>5 DEF Shift
      <4>3. Elapsed' = Elapsed + 1
        BY <2>6, <3>2
      <4>4. tx_fifo = <<>> <=> Len(tx_fifo) = 0
        BY <1>5
      <4>5. Len(tx_fifo') = IF Elapsed' <= n THEN n - Elapsed' ELSE 0
        BY <2>3, <2>8, <4>1, <4>2, <4>3, <4>4
      <4>6. QED
        BY <2>3, <2>7, <4>5 DEF InTime
    <3>3. QED
      BY <3>1, <3>2
  <2>12. EchoAwaited'
    <3>1. CASE \/ state = "kWrite"
               \/ state \in {"kUartDrain", "kEchoWait"} /\ ~echo_complete
      <4>1. /\ Left \in 1..(MsMod \div 2) /\ tracker.deadline_ms \in Instant
            /\ now_us \in Instant
        BY <1>1, <1>9, <3>1, QueryInWindow, TestClocksAgree
      <4>2. Left' = Left - 1 /\ Left \in Nat
        BY <1>1, <2>4, <4>1, DeltaShrinks, MsHalf DEF Left, Elapse, Delta
      <4>3. Tracked
        BY <1>1, <2>1, <3>1 DEF EchoAwaited
      <4>4. Tracked'
        BY <1>1, <1>4, <2>3, <4>2, <4>3, MsHalf DEF Tracked
      <4>5. CASE state = "kWrite"
        <5>1. tracker.matched = 0 /\ Left + late >= window
          BY <1>1, <2>1, <2>3, <4>5 DEF EchoAwaited
        <5>2. Left' + round_us' >= Window
          BY <1>1, <2>3, <4>2, <5>1, MsHalf
        <5>3. QED
          BY <1>1, <1>4, <4>4, <4>5, <5>1, <5>2 DEF EchoAwaited
      <4>6. CASE state = "kUartDrain" /\ ~echo_complete
        <5>1. /\ EchoInOrder(packet.bytes, tracker.matched, rx_fifo, tx_fifo)
              /\ Left + Elapsed + MaxRound >= Window
          BY <2>1, <4>6 DEF EchoAwaited
        <5>2. tracker.matched \in Nat
          BY TrackerFields DEF CleanInv, CreditInv, PollType
        <5>3. EchoInOrder(packet.bytes, tracker.matched, rx_fifo', tx_fifo')
          <6>1. CASE tx_fifo = <<>>
            BY <1>2, <1>5, <2>2, <2>3, <2>9, <5>1, <5>2, <6>1, EchoFollowed
          <6>2. CASE tx_fifo # <<>>
            <7>1. tx_fifo' = Tail(tx_fifo) /\ rx_fifo' = rx_fifo \o <<Head(tx_fifo)>>
              BY <1>1, <1>2, <2>2, <6>2 DEF Shift
            <7>2. QED
              BY <1>5, <2>3, <5>1, <5>2, <6>2, <7>1, EchoHeard
          <6>3. QED
            BY <6>1, <6>2
        <5>4. EchoInOrder(packet.bytes, tracker.matched, rx_fifo, tx_fifo)'
          BY <1>1, <1>4, <5>3
        <5>5. Left' + Elapsed' + MaxRound >= Window
          <6>1. Left' + Elapsed' = Left + Elapsed
            BY <2>6, <2>8, <4>2, <4>6
          <6>2. QED
            BY <5>1, <6>1
        <5>6. QED
          BY <1>1, <1>4, <4>4, <4>6, <5>4, <5>5 DEF EchoAwaited
      <4>7. CASE state = "kEchoWait" /\ ~echo_complete
        BY <1>1, <2>1, <4>7 DEF EchoAwaited
      <4>8. QED
        BY <3>1, <4>5, <4>6, <4>7
    <3>2. CASE ~(\/ state = "kWrite"
                 \/ state \in {"kUartDrain", "kEchoWait"} /\ ~echo_complete)
      BY <1>1, <1>4, <2>1, <3>2 DEF EchoAwaited
    <3>3. QED
      BY <3>1, <3>2
  <2>13. QED
    BY <1>3, <1>6, <1>7, <2>10, <2>11, <2>12 DEF CleanInv
<1>10. QED
  BY <1>8, <1>9

LEMMA CleanInvStep ==
  ASSUME CleanTest, CleanInv, [TestNext]_testVars
  PROVE  CleanInv'
<1>1. CreditInv'
  BY CreditInvStep DEF CleanInv
<1>2. CASE CommandsDone \/ \E d \in Destinations : SelectDestination(d)
  <2>1. /\ UNCHANGED <<vars, bus, tracking, quiet_line>> /\ pc = "command"
        /\ pc' \in {"command", "poll"}
    BY <1>2 DEF CommandsDone, SelectDestination
  <2>2. MountSilent'
    BY <2>1 DEF CleanInv, MountSilent, vars, bus
  <2>3. QED
    BY <1>1, <2>1, <2>2, RestCleanly DEF bus
<1>3. CASE MountBegins
  <2>1. /\ UNCHANGED <<vars, fifos, noise, round_us, tracking, quiet_line>>
        /\ pc = "tick" /\ pc' = "tick"
        /\ ~busy_asserted /\ (MountRaces \/ state # "kBusyClaim")
    BY <1>3 DEF MountBegins, MountSends
  <2>2. MountSilent'
    BY <2>1 DEF MountSilent, CleanTest, CleanInv, CreditInv, TestInv, IInv,
       OutputsFollowState, vars
  <2>3. QED
    BY <1>1, <2>1, <2>2, RestCleanly
<1>4. CASE UNCHANGED testVars
  <2>1. /\ UNCHANGED <<vars, bus, tracking, quiet_line, pc>>
    BY <1>4 DEF testVars
  <2>2. /\ UNCHANGED <<now_us, state, packet, last_fault, echo_complete, tx_fifo, rx_fifo, mount,
                       noise, round_us, tracker, echo_tracking, echo_matches_at_start>>
        /\ InFlight' = InFlight /\ Elapsed' = Elapsed /\ Held' = Held /\ Left' = Left
    BY <2>1 DEF vars, busy, counts, flags, bus, fifos, tracking, InFlight, Elapsed, Held, Left,
       Delta
  <2>3. Tracked' <=> Tracked
    BY <2>2 DEF Tracked
  <2>4. QED
    BY <1>1, <2>1, <2>2, <2>3 DEF CleanInv, RoundTime, MountSilent, CleanBusEchoes, QuietQuery,
       Quiet, InTime, HeldInTime, DrainsInTime, EchoAwaited
<1>5. QED
  BY <1>2, <1>3, <1>4, ArmCleanly, RecoverCleanly, PollCleanly, PollEndsCleanly, TickCleanly,
     SettleCleanly, SlotCleanly DEF TestNext, Round

\* On a clean bus the echo of a query that was armed with an empty UART is always
\* recognised (CleanBusEchoes): the query fails for want of the bus or of an answer
\* only, as long as the rounds are short enough for the echo window and the timeouts.
THEOREM QueriesAreEchoed ==
  ASSUME CleanTest
  PROVE  TestSpec => []CleanBusEchoes
<1>1. TestInit => CleanInv
  BY CleanInvInit
<1>2. CleanInv /\ [TestNext]_testVars => CleanInv'
  BY CleanInvStep
<1>3. CleanInv => CleanBusEchoes
  BY DEF CleanInv
<1>4. QED
  BY <1>1, <1>2, <1>3, PTL DEF TestSpec
================================================================================

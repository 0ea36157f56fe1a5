-------------------------- MODULE AuxTransmitterProofs --------------------------
(***************************************************************************)
(* Proofs about AuxTransmitter, for every set of packets, every clock      *)
(* length and every choice of timeouts.                                    *)
(***************************************************************************)
EXTENDS AuxTransmitter, TLAPS

\* The frame predicates stay opaque: the proofs need none of their insides.

\* The clock arithmetic never leaves the clock.
LEMMA DeltaInstant ==
  ASSUME NEW now \in Instant, NEW then \in Instant
  PROVE  Delta(now, then) \in Instant
BY TransmitterAssumption DEF Delta, Instant

LEMMA LaterInstant ==
  ASSUME now_us \in Instant, NEW d \in 0..ClockMod
  PROVE  Later(d) \in Instant
BY TransmitterAssumption DEF Later, Instant

\* An age that stays below the clock grows with it, and a time ahead shrinks.
LEMMA DeltaGrows ==
  ASSUME now_us \in Instant, NEW then \in Instant, Delta(now_us, then) + 1 < ClockMod
  PROVE  Delta(Later(1), then) = Delta(now_us, then) + 1
BY TransmitterAssumption DEF Delta, Later, Instant

LEMMA DeltaShrinks ==
  ASSUME now_us \in Instant, NEW due \in Instant, Delta(due, now_us) >= 1
  PROVE  Delta(due, Later(1)) = Delta(due, now_us) - 1
BY TransmitterAssumption DEF Delta, Later, Instant

LEMMA TypeInit == Init => TypeOK
<1> SUFFICES ASSUME Init PROVE TypeOK
  OBVIOUS
<1>1. EmptyPacket \in AuxPacket
  BY DEF EmptyPacket, AuxPacket, PacketOrigin
<1>2. 0 \in Instant
  BY TransmitterAssumption DEF Instant
<1>3. /\ now_us \in Instant /\ state_entered_us \in Instant
      /\ busy_claimed_us \in Instant /\ maximum_busy_hold_us \in Instant
  BY <1>2 DEF Init
<1>4. metrics \in [Counters -> Nat]
  BY DEF Init
<1>5. packet \in AuxPacket
  BY <1>1 DEF Init
<1>6. state \in AuxTxState /\ last_fault \in AuxTxFault /\ attempts \in Nat
  BY DEF Init, AuxTxState, AuxTxFault
<1>7. QED
  BY <1>2, <1>3, <1>4, <1>5, <1>6 DEF Init, TypeOK

----------------------------------------------------------------------------
(* Type correctness, helper by helper *)

LEMMA CountType ==
  ASSUME TypeOK, NEW names, Count(names)
  PROVE  metrics' \in [Counters -> Nat]
BY DEF TypeOK, Count

LEMMA TransitionType ==
  ASSUME TypeOK, NEW s \in AuxTxState, Transition(s)
  PROVE  /\ state' \in AuxTxState /\ state_entered_us' \in Instant
         /\ echo_complete' \in BOOLEAN /\ response_complete' \in BOOLEAN
BY DEF TypeOK, Transition, flags

LEMMA ForceSafeType ==
  ASSUME TypeOK, ForceSafe
  PROVE  /\ busy_claimed' \in BOOLEAN /\ busy_claimed_us' \in Instant
         /\ busy_asserted' \in BOOLEAN /\ tx_enabled' \in BOOLEAN
BY DEF TypeOK, ForceSafe

LEMMA RecordBusyHoldType ==
  ASSUME TypeOK, RecordBusyHold
  PROVE  maximum_busy_hold_us' \in Instant
<1>1. Delta(now_us, busy_claimed_us) \in Instant
  BY DeltaInstant DEF TypeOK
<1>2. QED
  BY <1>1 DEF TypeOK, RecordBusyHold

\* A fault changes everything but the packet, its kind and its attempts.
LEMMA EnterFaultType ==
  ASSUME TypeOK, NEW fault \in AuxTxFault, EnterFault(fault)
  PROVE  /\ state' \in AuxTxState /\ state_entered_us' \in Instant
         /\ echo_complete' \in BOOLEAN /\ response_complete' \in BOOLEAN
         /\ busy_claimed' \in BOOLEAN /\ busy_claimed_us' \in Instant
         /\ busy_asserted' \in BOOLEAN /\ tx_enabled' \in BOOLEAN
         /\ last_fault' \in AuxTxFault
         /\ metrics' \in [Counters -> Nat] /\ maximum_busy_hold_us' \in Instant
<1>1. "kFault" \in AuxTxState
  BY DEF AuxTxState
<1>2. metrics' \in [Counters -> Nat]
  BY CountType DEF EnterFault
<1>3. QED
  BY <1>1, <1>2, TransitionType, ForceSafeType, RecordBusyHoldType DEF EnterFault

LEMMA StartType ==
  ASSUME TypeOK, NEW p \in Packets,
         NEW mode \in OperatingMode, NEW auth \in AuxTxAuthorization,
         Start(p, mode, auth)
  PROVE  TypeOK'
<1>1. CASE RefuseStart(Refusal(p, mode, auth))
  <2>1. metrics' \in [Counters -> Nat]
    BY <1>1, CountType DEF RefuseStart
  <2>2. QED
    BY <1>1, <2>1 DEF TypeOK, RefuseStart, flags, busy
<1>2. CASE AcceptStart(p, Controlled(mode, auth))
  <2>1. metrics' \in [Counters -> Nat]
    BY <1>2, CountType DEF AcceptStart
  <2>2. p \in AuxPacket /\ Controlled(mode, auth) \in BOOLEAN
    BY TransmitterAssumption DEF Controlled
  <2>3. "kBusWait" \in AuxTxState
    BY DEF AuxTxState
  <2>4. QED
    BY <1>2, <2>1, <2>2, <2>3, TransitionType DEF TypeOK, AcceptStart, busy
<1>3. QED
  BY <1>1, <1>2 DEF Start

\* A tick that faults, whatever state it finds.
LEMMA FaultTickType ==
  ASSUME TypeOK, NEW fault \in AuxTxFault, EnterFault(fault), TickFrame,
         attempts' \in Nat, handed_over' \in BOOLEAN
  PROVE  TypeOK'
BY EnterFaultType DEF TypeOK, TickFrame

\* A tick that only moves the state.
LEMMA MoveTickType ==
  ASSUME TypeOK, NEW s \in AuxTxState, Transition(s), MoveFrame,
         UNCHANGED busy, UNCHANGED tx_enabled
  PROVE  TypeOK'
BY TransitionType DEF TypeOK, MoveFrame, TickFrame, busy, counts

\* A tick that completes the packet.
LEMMA CompleteTickType ==
  ASSUME TypeOK, CompletePacket, FaultFrame,
         UNCHANGED <<busy, tx_enabled, last_fault, maximum_busy_hold_us>>
  PROVE  TypeOK'
<1>1. metrics' \in [Counters -> Nat]
  BY CountType DEF CompletePacket
<1>2. "kIdle" \in AuxTxState
  BY DEF AuxTxState
<1>3. QED
  BY <1>1, <1>2, TransitionType
  DEF TypeOK, CompletePacket, FaultFrame, TickFrame, busy

LEMMA BusWaitType ==
  ASSUME TypeOK, NEW bus_busy \in BOOLEAN, TickBusWait(bus_busy)
  PROVE  TypeOK'
<1> USE DEF AuxTxState, AuxTxFault
<1>1. CASE /\ Transition("kBusyClaim")
           /\ MoveFrame /\ UNCHANGED <<busy, tx_enabled>>
  BY <1>1, MoveTickType
<1>2. CASE RetryOrFault /\ TickFrame /\ UNCHANGED handed_over
  <2>1. attempts' \in Nat
    BY <1>2 DEF TypeOK, RetryOrFault
  <2>2. CASE EnterFault("kContentionTimeout")
    BY <1>2, <2>1, <2>2, FaultTickType DEF TypeOK
  <2>3. CASE /\ Count({"contention_retries"}) /\ ForceSafe
             /\ Transition("kBackoff")
             /\ UNCHANGED <<last_fault, maximum_busy_hold_us>>
    <3>1. metrics' \in [Counters -> Nat]
      BY <2>3, CountType
    <3>2. QED
      BY <1>2, <2>1, <2>3, <3>1, TransitionType, ForceSafeType
      DEF TypeOK, TickFrame
  <2>4. QED
    BY <1>2, <2>2, <2>3 DEF RetryOrFault
<1>3. CASE UNCHANGED vars
  BY <1>3 DEF TypeOK, vars, flags, busy, counts
<1>4. QED
  BY <1>1, <1>2, <1>3 DEF TickBusWait

LEMMA ClaimType ==
  ASSUME TypeOK, TickBusyClaim
  PROVE  TypeOK'
<1>1. "kClaimDelay" \in AuxTxState
  BY DEF AuxTxState
<1>2. QED
  BY <1>1, TransitionType
  DEF TypeOK, TickBusyClaim, MoveFrame, TickFrame, counts

LEMMA EnableType ==
  ASSUME TypeOK, TickTxEnable
  PROVE  TypeOK'
<1>1. "kWrite" \in AuxTxState
  BY DEF AuxTxState
<1>2. QED
  BY <1>1, TransitionType
  DEF TypeOK, TickTxEnable, MoveFrame, TickFrame, counts, busy

LEMMA WriteType ==
  ASSUME TypeOK, NEW all_written \in BOOLEAN, TickWrite(all_written)
  PROVE  TypeOK'
<1> USE DEF AuxTxState, AuxTxFault
<1>1. CASE /\ Transition("kUartDrain")
           /\ UNCHANGED <<busy, tx_enabled, last_fault, counts>>
  BY <1>1, TransitionType DEF TypeOK, TickWrite, TickFrame, busy, counts
<1>2. CASE EnterFault("kWriteFailure")
  BY <1>2, FaultTickType DEF TypeOK, TickWrite
<1>3. QED
  BY <1>1, <1>2 DEF TickWrite

LEMMA DrainType ==
  ASSUME TypeOK, NEW tx_complete \in BOOLEAN, TickUartDrain(tx_complete)
  PROVE  TypeOK'
<1> USE DEF AuxTxState, AuxTxFault
<1> DEFINE next == IF controlled_transaction /\ echo_complete
                     THEN "kResponseWait" ELSE "kEchoWait"
<1>1. CASE /\ ReleaseBus /\ Transition(next)
           /\ FaultFrame /\ UNCHANGED <<metrics, last_fault>>
  <2>1. next \in AuxTxState
    OBVIOUS
  <2>2. /\ RecordBusyHold /\ ForceSafe
    BY <1>1 DEF ReleaseBus
  <2>3. maximum_busy_hold_us' \in Instant
    BY <2>2, RecordBusyHoldType
  <2>4. QED
    BY <1>1, <2>1, <2>2, <2>3, TransitionType, ForceSafeType
    DEF TypeOK, FaultFrame, TickFrame
<1>2. CASE EnterFault("kUartDrainTimeout") /\ FaultFrame
  BY <1>2, FaultTickType DEF TypeOK, FaultFrame
<1>3. CASE UNCHANGED vars
  BY <1>3 DEF TypeOK, vars, flags, busy, counts
<1>4. QED
  BY <1>1, <1>2, <1>3 DEF TickUartDrain

LEMMA EchoWaitType ==
  ASSUME TypeOK, TickEchoWait
  PROVE  TypeOK'
<1> USE DEF AuxTxState, AuxTxFault
<1>1. CASE /\ Transition("kResponseWait")
           /\ MoveFrame /\ UNCHANGED <<busy, tx_enabled>>
  BY <1>1, MoveTickType
<1>2. CASE /\ CompletePacket /\ FaultFrame
           /\ UNCHANGED <<busy, tx_enabled, last_fault, maximum_busy_hold_us>>
  BY <1>2, CompleteTickType
<1>3. CASE EnterFault("kEchoTimeout") /\ FaultFrame
  BY <1>3, FaultTickType DEF TypeOK, FaultFrame
<1>4. CASE UNCHANGED vars
  BY <1>4 DEF TypeOK, vars, flags, busy, counts
<1>5. QED
  BY <1>1, <1>2, <1>3, <1>4 DEF TickEchoWait

LEMMA ResponseWaitType ==
  ASSUME TypeOK, TickResponseWait
  PROVE  TypeOK'
<1> USE DEF AuxTxState, AuxTxFault
<1>1. CASE /\ CompletePacket /\ FaultFrame
           /\ UNCHANGED <<busy, tx_enabled, last_fault, maximum_busy_hold_us>>
  BY <1>1, CompleteTickType
<1>2. CASE EnterFault("kResponseTimeout") /\ FaultFrame
  BY <1>2, FaultTickType DEF TypeOK, FaultFrame
<1>3. CASE UNCHANGED vars
  BY <1>3 DEF TypeOK, vars, flags, busy, counts
<1>4. QED
  BY <1>1, <1>2, <1>3 DEF TickResponseWait

LEMMA TickType ==
  ASSUME TypeOK, NEW bus_busy \in BOOLEAN, NEW all_written \in BOOLEAN,
         NEW tx_complete \in BOOLEAN,
         Tick(bus_busy, all_written, tx_complete)
  PROVE  TypeOK'
<1> USE DEF AuxTxState, AuxTxFault
<1>1. CASE TickOverdue
  BY <1>1, FaultTickType DEF TypeOK, TickOverdue, FaultFrame
<1>2. CASE TickAtRest
  BY <1>2 DEF TypeOK, TickAtRest, vars, flags, busy, counts
<1>3. CASE TickClaimDelay
  <2>1. CASE /\ Transition("kTxEnable")
             /\ MoveFrame /\ UNCHANGED <<busy, tx_enabled>>
    BY <2>1, MoveTickType
  <2>2. CASE UNCHANGED vars
    BY <2>2 DEF TypeOK, vars, flags, busy, counts
  <2>3. QED
    BY <1>3, <2>1, <2>2 DEF TickClaimDelay
<1>4. CASE TickBackoff
  <2>1. CASE /\ Transition("kBusWait")
             /\ MoveFrame /\ UNCHANGED <<busy, tx_enabled>>
    BY <2>1, MoveTickType
  <2>2. CASE UNCHANGED vars
    BY <2>2 DEF TypeOK, vars, flags, busy, counts
  <2>3. QED
    BY <1>4, <2>1, <2>2 DEF TickBackoff
<1>5. QED
  BY <1>1, <1>2, <1>3, <1>4, BusWaitType, ClaimType, EnableType, WriteType,
     DrainType, EchoWaitType, ResponseWaitType DEF Tick, TickState

LEMMA RecoverType ==
  ASSUME TypeOK, Recover
  PROVE  TypeOK'
<1>1. metrics' \in [Counters -> Nat]
  BY CountType DEF Recover
<1>2. QED
  BY <1>1, ForceSafeType DEF TypeOK, Recover, AuxTxState, AuxTxFault

LEMMA TypeStep == TypeOK /\ [Next]_vars => TypeOK'
<1> SUFFICES ASSUME TypeOK, [Next]_vars PROVE TypeOK'
  OBVIOUS
<1>1. ASSUME NEW p \in Packets, NEW mode \in OperatingMode,
             NEW auth \in AuxTxAuthorization, Start(p, mode, auth)
      PROVE  TypeOK'
  BY <1>1, StartType
<1>2. ASSUME NEW bus_busy \in BOOLEAN, NEW all_written \in BOOLEAN,
             NEW tx_complete \in BOOLEAN,
             Tick(bus_busy, all_written, tx_complete)
      PROVE  TypeOK'
  BY <1>2, TickType
<1>3. CASE NotifyEchoComplete
  BY <1>3 DEF TypeOK, NotifyEchoComplete, busy, counts
<1>4. ASSUME NEW r \in Packets, NotifyResponse(r)
      PROVE  TypeOK'
  BY <1>4 DEF TypeOK, NotifyResponse, busy, counts
<1>5. CASE Recover
  BY <1>5, RecoverType
<1>6. ASSUME NEW d \in 1..MaxElapse, Elapse(d)
      PROVE  TypeOK'
  <2>1. d \in 0..ClockMod
    BY TransmitterAssumption
  <2>2. now_us' \in Instant
    BY <1>6, <2>1, LaterInstant DEF TypeOK, Elapse
  <2>3. QED
    BY <1>6, <2>2 DEF TypeOK, Elapse, flags, busy, counts
<1>7. CASE UNCHANGED vars
  BY <1>7 DEF TypeOK, vars, flags, busy, counts
<1>8. QED
  BY <1>1, <1>2, <1>3, <1>4, <1>5, <1>6, <1>7 DEF Next

\* The transmitter's state is well typed for ever (TypeOK): no operation, in
\* any order, leaves the clock's range, an undefined state or fault, or a
\* negative counter.
THEOREM TypeCorrect == Spec => []TypeOK
BY TypeInit, TypeStep, PTL DEF Spec

----------------------------------------------------------------------------
(* The safety invariant *)

\* Where in a transaction the packet has been handed to the UART.
HandedOverByState ==
  /\ state \in {"kBusWait", "kBusyClaim", "kClaimDelay", "kTxEnable",
                "kWrite", "kBackoff"} => ~handed_over
  /\ state \in {"kUartDrain", "kEchoWait", "kResponseWait"} => handed_over

\* OutputsFollowState decides the overdue and the faulting ticks of the other
\* conjuncts: BUSY is claimed only where no response has been noted yet, and
\* what leaves a state with TX on has been written.
IInv ==
  /\ TypeOK
  /\ OutputsFollowState
  /\ HandedOverByState
  /\ OnlyVettedPackets
  /\ ResponseFlagFresh

LEMMA IInvInit == Init => IInv
<1> SUFFICES ASSUME Init PROVE IInv
  OBVIOUS
<1>1. TypeOK
  BY TypeInit
<1>2. QED
  BY <1>1 DEF Init, IInv, OutputsFollowState, HandedOverByState,
     OnlyVettedPackets, ResponseFlagFresh, InFlight, DrivingStates, OwnerStates

\* A fault or a recovery leaves nothing on the lines and nothing in flight.
LEMMA FaultInvariant ==
  ASSUME IInv, NEW fault, EnterFault(fault),
         state # "kIdle", state = "kResponseWait" => ~response_complete
  PROVE  /\ OutputsFollowState' /\ HandedOverByState'
         /\ OnlyVettedPackets' /\ ResponseFlagFresh'
BY DEF IInv, EnterFault, ForceSafe, Transition, flags, OutputsFollowState,
   HandedOverByState, OnlyVettedPackets, ResponseFlagFresh, InFlight,
   DrivingStates, OwnerStates

LEMMA StartInvariant ==
  ASSUME IInv, NEW p \in Packets,
         NEW mode \in OperatingMode, NEW auth \in AuxTxAuthorization,
         Start(p, mode, auth)
  PROVE  /\ OutputsFollowState' /\ HandedOverByState'
         /\ OnlyVettedPackets' /\ ResponseFlagFresh'
<1> USE DEF IInv, OutputsFollowState, HandedOverByState, OnlyVettedPackets,
            ResponseFlagFresh, InFlight, DrivingStates, OwnerStates
<1>1. CASE RefuseStart(Refusal(p, mode, auth))
  BY <1>1 DEF RefuseStart, flags, busy
<1>2. CASE /\ Refusal(p, mode, auth) = "none"
           /\ AcceptStart(p, Controlled(mode, auth))
  <2>1. /\ state = "kIdle"
        /\ HasValidAuxChecksum(p)
        /\ Controlled(mode, auth) => IsControlledReadOnlyQuery(p)
    BY <1>2 DEF Refusal
  <2>2. QED
    BY <1>2, <2>1 DEF AcceptStart, Transition, busy
<1>3. QED
  BY <1>1, <1>2 DEF Start

\* A tick that only moves the state, from one side of the write to the same.
LEMMA MoveInvariant ==
  ASSUME IInv, NEW s, Transition(s), MoveFrame, UNCHANGED <<busy, tx_enabled>>,
         InFlight, s \notin {"kIdle", "kFault"}, state # "kResponseWait",
         s \in DrivingStates <=> state \in DrivingStates,
         s \in OwnerStates <=> state \in OwnerStates,
         s \in {"kUartDrain", "kEchoWait", "kResponseWait"}
           <=> state \in {"kUartDrain", "kEchoWait", "kResponseWait"}
  PROVE  /\ OutputsFollowState' /\ HandedOverByState'
         /\ OnlyVettedPackets' /\ ResponseFlagFresh'
BY DEF IInv, OutputsFollowState, HandedOverByState, OnlyVettedPackets,
   ResponseFlagFresh, InFlight, DrivingStates, OwnerStates,
   Transition, MoveFrame, TickFrame, flags, busy, TypeOK, AuxTxState

LEMMA StutterInvariant ==
  ASSUME IInv, UNCHANGED vars
  PROVE  /\ OutputsFollowState' /\ HandedOverByState'
         /\ OnlyVettedPackets' /\ ResponseFlagFresh'
BY DEF IInv, OutputsFollowState, HandedOverByState, OnlyVettedPackets,
   ResponseFlagFresh, InFlight, DrivingStates, OwnerStates,
   vars, flags, busy, counts

\* What a completed packet leaves behind: nothing claimed, nothing in flight.
LEMMA CompleteInvariant ==
  ASSUME IInv, state \in {"kEchoWait", "kResponseWait"},
         CompletePacket, UNCHANGED <<busy, tx_enabled>>
  PROVE  /\ OutputsFollowState' /\ HandedOverByState'
         /\ OnlyVettedPackets' /\ ResponseFlagFresh'
BY DEF IInv, OutputsFollowState, HandedOverByState, OnlyVettedPackets,
   ResponseFlagFresh, InFlight, DrivingStates, OwnerStates,
   CompletePacket, Transition, flags, busy

LEMMA BusWaitInvariant ==
  ASSUME IInv, NEW bus_busy \in BOOLEAN, TickBusWait(bus_busy)
  PROVE  /\ OutputsFollowState' /\ HandedOverByState'
         /\ OnlyVettedPackets' /\ ResponseFlagFresh'
<1>1. state = "kBusWait"
  BY DEF TickBusWait
<1>2. CASE /\ Transition("kBusyClaim")
           /\ MoveFrame /\ UNCHANGED <<busy, tx_enabled>>
  BY <1>1, <1>2, MoveInvariant DEF InFlight, DrivingStates, OwnerStates
<1>3. CASE RetryOrFault /\ TickFrame /\ UNCHANGED handed_over
  <2>1. CASE EnterFault("kContentionTimeout")
    BY <1>1, <2>1, FaultInvariant
  <2>2. CASE ForceSafe /\ Transition("kBackoff")
    BY <1>1, <1>3, <2>2
    DEF IInv, OutputsFollowState, HandedOverByState, OnlyVettedPackets,
        ResponseFlagFresh, InFlight, DrivingStates, OwnerStates,
        ForceSafe, Transition, TickFrame, flags
  <2>3. QED
    BY <1>3, <2>1, <2>2 DEF RetryOrFault
<1>4. CASE UNCHANGED vars
  BY <1>4, StutterInvariant
<1>5. QED
  BY <1>2, <1>3, <1>4 DEF TickBusWait

LEMMA OwnerInvariant ==
  ASSUME IInv, TickBusyClaim \/ TickClaimDelay \/ TickTxEnable
  PROVE  /\ OutputsFollowState' /\ HandedOverByState'
         /\ OnlyVettedPackets' /\ ResponseFlagFresh'
<1> USE DEF IInv, OutputsFollowState, HandedOverByState, OnlyVettedPackets,
            ResponseFlagFresh, InFlight, DrivingStates, OwnerStates
<1>1. CASE TickBusyClaim
  BY <1>1 DEF TickBusyClaim, Transition, MoveFrame, TickFrame, flags
<1>2. CASE TickClaimDelay
  <2>1. CASE UNCHANGED vars
    BY <2>1, StutterInvariant
  <2>2. CASE /\ Transition("kTxEnable")
             /\ MoveFrame /\ UNCHANGED <<busy, tx_enabled>>
    BY <1>2, <2>2, MoveInvariant DEF TickClaimDelay
  <2>3. QED
    BY <1>2, <2>1, <2>2 DEF TickClaimDelay
<1>3. CASE TickTxEnable
  BY <1>3 DEF TickTxEnable, Transition, MoveFrame, TickFrame, flags, busy
<1>4. QED
  BY <1>1, <1>2, <1>3

LEMMA WriteInvariant ==
  ASSUME IInv, NEW all_written \in BOOLEAN, TickWrite(all_written)
  PROVE  /\ OutputsFollowState' /\ HandedOverByState'
         /\ OnlyVettedPackets' /\ ResponseFlagFresh'
<1>1. CASE /\ Transition("kUartDrain")
           /\ UNCHANGED <<busy, tx_enabled, last_fault, counts>>
  BY <1>1 DEF TickWrite, IInv, OutputsFollowState, HandedOverByState,
     OnlyVettedPackets, ResponseFlagFresh, InFlight, DrivingStates,
     OwnerStates, Transition, TickFrame, flags, busy
<1>2. CASE EnterFault("kWriteFailure")
  BY <1>2, FaultInvariant DEF TickWrite
<1>3. QED
  BY <1>1, <1>2 DEF TickWrite

LEMMA DrainInvariant ==
  ASSUME IInv, NEW tx_complete \in BOOLEAN, TickUartDrain(tx_complete)
  PROVE  /\ OutputsFollowState' /\ HandedOverByState'
         /\ OnlyVettedPackets' /\ ResponseFlagFresh'
<1> DEFINE next == IF controlled_transaction /\ echo_complete
                     THEN "kResponseWait" ELSE "kEchoWait"
<1>1. CASE ReleaseBus /\ Transition(next) /\ FaultFrame
  <2>1. next \in {"kResponseWait", "kEchoWait"}
    OBVIOUS
  <2>2. QED
    BY <1>1, <2>1
    DEF TickUartDrain, IInv, OutputsFollowState, HandedOverByState,
        OnlyVettedPackets, ResponseFlagFresh, InFlight, DrivingStates,
        OwnerStates, ReleaseBus, ForceSafe, Transition, FaultFrame,
        TickFrame, flags
<1>2. CASE EnterFault("kUartDrainTimeout")
  BY <1>2, FaultInvariant DEF TickUartDrain
<1>3. CASE UNCHANGED vars
  BY <1>3, StutterInvariant
<1>4. QED
  BY <1>1, <1>2, <1>3 DEF TickUartDrain

LEMMA AwaitInvariant ==
  ASSUME IInv, TickEchoWait \/ TickResponseWait
  PROVE  /\ OutputsFollowState' /\ HandedOverByState'
         /\ OnlyVettedPackets' /\ ResponseFlagFresh'
<1>1. CASE UNCHANGED vars
  BY <1>1, StutterInvariant
<1>2. CASE CompletePacket /\ UNCHANGED <<busy, tx_enabled>>
  BY <1>2, CompleteInvariant DEF TickEchoWait, TickResponseWait
<1>3. CASE /\ TickEchoWait
           /\ Transition("kResponseWait")
           /\ MoveFrame /\ UNCHANGED <<busy, tx_enabled>>
  BY <1>3, MoveInvariant DEF TickEchoWait, InFlight, DrivingStates, OwnerStates
<1>4. CASE TickEchoWait /\ EnterFault("kEchoTimeout")
  BY <1>4, FaultInvariant DEF TickEchoWait
<1>5. CASE /\ TickResponseWait /\ ~response_complete
           /\ EnterFault("kResponseTimeout")
  BY <1>5, FaultInvariant DEF TickResponseWait
<1>6. QED
  BY <1>1, <1>2, <1>3, <1>4, <1>5 DEF TickEchoWait, TickResponseWait

LEMMA TickInvariant ==
  ASSUME IInv, NEW bus_busy \in BOOLEAN, NEW all_written \in BOOLEAN,
         NEW tx_complete \in BOOLEAN,
         Tick(bus_busy, all_written, tx_complete)
  PROVE  /\ OutputsFollowState' /\ HandedOverByState'
         /\ OnlyVettedPackets' /\ ResponseFlagFresh'
<1>1. CASE TickOverdue
  <2>1. state \in OwnerStates
    BY <1>1 DEF IInv, OutputsFollowState, TickOverdue, Overdue
  <2>2. QED
    BY <1>1, <2>1, FaultInvariant DEF TickOverdue, OwnerStates
<1>2. CASE TickAtRest
  BY <1>2, StutterInvariant DEF TickAtRest
<1>3. CASE TickBackoff
  <2>1. CASE UNCHANGED vars
    BY <2>1, StutterInvariant
  <2>2. CASE /\ Transition("kBusWait")
             /\ MoveFrame /\ UNCHANGED <<busy, tx_enabled>>
    BY <1>3, <2>2, MoveInvariant
    DEF TickBackoff, InFlight, DrivingStates, OwnerStates
  <2>3. QED
    BY <1>3, <2>1, <2>2 DEF TickBackoff
<1>4. QED
  BY <1>1, <1>2, <1>3, BusWaitInvariant, OwnerInvariant, WriteInvariant,
     DrainInvariant, AwaitInvariant DEF Tick, TickState

(* The invariant, call by call: owners that compose the transmitter with     *)
(* other components cite these.                                              *)

LEMMA IInvStart ==
  ASSUME IInv, NEW p \in Packets,
         NEW mode \in OperatingMode, NEW auth \in AuxTxAuthorization,
         Start(p, mode, auth)
  PROVE  IInv'
BY StartType, StartInvariant DEF IInv

LEMMA IInvTick ==
  ASSUME IInv, NEW bus_busy \in BOOLEAN, NEW all_written \in BOOLEAN,
         NEW tx_complete \in BOOLEAN,
         Tick(bus_busy, all_written, tx_complete)
  PROVE  IInv'
BY TickType, TickInvariant DEF IInv

LEMMA IInvEcho ==
  ASSUME IInv, NotifyEchoComplete
  PROVE  IInv'
<1>1. TypeOK'
  BY DEF IInv, TypeOK, NotifyEchoComplete, busy, counts
<1>2. QED
  BY <1>1 DEF IInv, NotifyEchoComplete, busy, OutputsFollowState, HandedOverByState,
     OnlyVettedPackets, ResponseFlagFresh, InFlight, DrivingStates, OwnerStates

\* Whatever the owner takes for a response.
LEMMA IInvResponse ==
  ASSUME IInv, NEW r, NotifyResponse(r)
  PROVE  IInv'
<1>1. TypeOK'
  BY DEF IInv, TypeOK, NotifyResponse, busy, counts
<1>2. QED
  BY <1>1 DEF IInv, NotifyResponse, AcceptsResponse, busy, OutputsFollowState,
     HandedOverByState, OnlyVettedPackets, ResponseFlagFresh, InFlight,
     DrivingStates, OwnerStates

LEMMA IInvRecover ==
  ASSUME IInv, Recover
  PROVE  IInv'
<1>1. TypeOK'
  BY RecoverType DEF IInv
<1>2. QED
  BY <1>1 DEF IInv, Recover, ForceSafe, OutputsFollowState, HandedOverByState,
     OnlyVettedPackets, ResponseFlagFresh, InFlight, DrivingStates, OwnerStates

LEMMA IInvElapse ==
  ASSUME IInv, NEW d \in 0..ClockMod, Elapse(d)
  PROVE  IInv'
<1>1. now_us' \in Instant
  BY LaterInstant DEF IInv, TypeOK, Elapse
<1>2. TypeOK'
  BY <1>1 DEF IInv, TypeOK, Elapse, flags, busy, counts
<1>3. QED
  BY <1>2 DEF IInv, Elapse, flags, busy, OutputsFollowState, HandedOverByState,
     OnlyVettedPackets, ResponseFlagFresh, InFlight, DrivingStates, OwnerStates

LEMMA IInvStutter ==
  ASSUME IInv, UNCHANGED vars
  PROVE  IInv'
<1>1. TypeOK'
  BY DEF IInv, TypeOK, vars, flags, busy, counts
<1>2. QED
  BY <1>1, StutterInvariant DEF IInv

LEMMA IInvStep == IInv /\ [Next]_vars => IInv'
<1> SUFFICES ASSUME IInv, [Next]_vars PROVE IInv'
  OBVIOUS
<1>1. ASSUME NEW d \in 1..MaxElapse, Elapse(d)
      PROVE  IInv'
  <2>1. d \in 0..ClockMod
    BY TransmitterAssumption
  <2>2. QED
    BY <1>1, <2>1, IInvElapse
<1>2. QED
  BY <1>1, IInvStart, IInvTick, IInvEcho, IInvResponse, IInvRecover, IInvStutter
  DEF Next

----------------------------------------------------------------------------
(* What a tick comes to, for owners that watch the state and the counters *)

\* A transaction on its way moves from state to state, and only contention
\* forgets an answer.
TickAdvances(bus_busy) ==
  /\ \/ state = "kBusWait" /\ ~bus_busy /\ state' = "kBusyClaim"
     \/ state = "kBusWait" /\ state' = "kBackoff"
     \/ state = "kBackoff" /\ state' = "kBusWait"
     \/ state = "kBusyClaim" /\ state' = "kClaimDelay"
     \/ state = "kClaimDelay" /\ state' = "kTxEnable"
     \/ state = "kTxEnable" /\ state' = "kWrite"
     \/ state = "kWrite" /\ state' = "kUartDrain"
     \/ state = "kUartDrain" /\ state' = "kEchoWait"
     \/ state \in {"kUartDrain", "kEchoWait"} /\ controlled_transaction /\ echo_complete
          /\ state' = "kResponseWait"
  /\ IF state' = "kBusWait" THEN ~echo_complete' /\ ~response_complete' ELSE UNCHANGED flags
  /\ \A c \in Counters \ {"contention_retries"} : metrics'[c] = metrics[c]
  /\ UNCHANGED last_fault

\* It completes with the answer it waits for.
TickCompletes ==
  /\ \/ state = "kEchoWait" /\ echo_complete /\ ~controlled_transaction
     \/ state = "kResponseWait" /\ response_complete
  /\ CompletePacket
  /\ UNCHANGED last_fault

\* Or it fails, for want of the bus only when the attempts are used up.
TickFaults ==
  /\ InFlight
  /\ state = "kBusWait" => attempts + 1 >= MaximumAttempts
  /\ \E fault \in AuxTxFault \ {"kNone"} :
       /\ EnterFault(fault)
       /\ fault = "kResponseTimeout" => state = "kResponseWait" /\ ~response_complete

LEMMA TickOutcome ==
  ASSUME IInv, NEW bus_busy \in BOOLEAN, NEW all_written \in BOOLEAN,
         NEW tx_complete \in BOOLEAN,
         Tick(bus_busy, all_written, tx_complete)
  PROVE  \/ UNCHANGED vars
         \/ TickFrame /\ (TickAdvances(bus_busy) \/ TickCompletes \/ TickFaults)
<1> USE DEF TickAdvances, MoveFrame, FaultFrame, counts, flags
<1>1. CASE TickOverdue
  BY <1>1 DEF TickOverdue, Overdue, IInv, OutputsFollowState, OwnerStates,
     InFlight, AuxTxFault, TickFaults
<1>2. CASE TickAtRest
  BY <1>2 DEF TickAtRest
<1>3. CASE TickBusWait(bus_busy)
  <2>1. CASE RetryOrFault
    <3>1. CASE EnterFault("kContentionTimeout") /\ attempts + 1 >= MaximumAttempts
      BY <1>3, <3>1 DEF TickBusWait, TickFaults, InFlight, AuxTxFault, vars
    <3>2. CASE /\ Count({"contention_retries"}) /\ Transition("kBackoff")
               /\ UNCHANGED last_fault
      BY <1>3, <3>2 DEF TickBusWait, Transition, Count, vars, Counters
    <3>3. QED
      BY <2>1, <3>1, <3>2 DEF RetryOrFault
  <2>2. QED
    BY <1>3, <2>1 DEF TickBusWait, Transition
<1>4. CASE TickBusyClaim
  BY <1>4 DEF TickBusyClaim, Transition
<1>5. CASE TickClaimDelay
  BY <1>5 DEF TickClaimDelay, Transition
<1>6. CASE TickTxEnable
  BY <1>6 DEF TickTxEnable, Transition
<1>7. CASE TickWrite(all_written)
  BY <1>7 DEF TickWrite, Transition, TickFaults, InFlight, AuxTxFault
<1>8. CASE TickUartDrain(tx_complete)
  BY <1>8 DEF TickUartDrain, Transition, TickFaults, InFlight, AuxTxFault
<1>9. CASE TickEchoWait
  BY <1>9 DEF TickEchoWait, Transition, TickFaults, TickCompletes, InFlight, AuxTxFault
<1>10. CASE TickResponseWait
  BY <1>10 DEF TickResponseWait, TickFaults, TickCompletes, InFlight, AuxTxFault
<1>11. CASE TickBackoff
  BY <1>11 DEF TickBackoff, Transition
<1>12. QED
  BY <1>1, <1>2, <1>3, <1>4, <1>5, <1>6, <1>7, <1>8, <1>9, <1>10, <1>11
  DEF Tick, TickState

----------------------------------------------------------------------------
(* What a tick comes to when ticks come at most `stall` apart and the bus is  *)
(* clean, for owners that give it packets it can send in time                 *)

Held == Delta(now_us, busy_claimed_us)

\* How long BUSY has been ours, `unticked` after the last tick.
HeldInTime(stall, unticked) ==
  /\ state = "kClaimDelay" => Held = Elapsed /\ Held <= ClaimDelay + unticked
  /\ state = "kTxEnable" => Held <= ClaimDelay + stall + unticked
  /\ state = "kWrite" => Held <= ClaimDelay + 2 * stall + unticked
  /\ state = "kUartDrain" => Held <= ClaimDelay + 3 * stall + Elapsed

\* A packet of `size` is out of the UART that many steps after it was written, and
\* the drain ends at the next tick.
DrainsInTime(size, unticked) ==
  state = "kUartDrain" => unticked <= Elapsed /\ Elapsed < size + unticked

FitsTimeouts(size, stall) ==
  size <= UartDrainTimeout /\ ClaimDelay + 4 * stall + size <= TransactionTimeout

LEMMA TimesType ==
  ASSUME IInv
  PROVE  /\ now_us \in Instant /\ state_entered_us \in Instant /\ busy_claimed_us \in Instant
         /\ Elapsed \in 0..(ClockMod - 1) /\ Held \in 0..(ClockMod - 1)
         /\ Delta(now_us, now_us) = 0
         /\ ClockMod \in Nat \ {0} /\ ClaimDelay \in Nat /\ UartDrainTimeout \in Nat
         /\ TransactionTimeout \in 0..(ClockMod - 1)
<1>1. /\ now_us \in Instant /\ state_entered_us \in Instant /\ busy_claimed_us \in Instant
  BY DEF IInv, TypeOK
<1>2. Elapsed \in Instant /\ Held \in Instant
  BY <1>1, DeltaInstant DEF Elapsed, Held
<1>3. Delta(now_us, now_us) = 0
  BY <1>1 DEF Delta, Instant
<1>4. QED
  BY <1>1, <1>2, <1>3, TransmitterAssumption DEF Instant

LEMMA NeverOverdue ==
  ASSUME IInv, NEW size \in Nat \ {0}, NEW stall \in Nat \ {0}, NEW unticked \in 0..stall,
         FitsTimeouts(size, stall), HeldInTime(stall, unticked), DrainsInTime(size, unticked)
  PROVE  ~Overdue /\ (state \in OwnerStates => Held + 1 < ClockMod /\ Held < TransactionTimeout)
<1>1. busy_claimed <=> state \in OwnerStates
  BY DEF IInv, OutputsFollowState
<1>2. state \in OwnerStates => Held < TransactionTimeout
  BY TimesType DEF OwnerStates, HeldInTime, DrainsInTime, FitsTimeouts
<1>3. QED
  BY <1>1, <1>2, TimesType DEF Overdue, Held

\* A step of time, before the next tick is due.
LEMMA TimePasses ==
  ASSUME IInv, NEW size \in Nat \ {0}, NEW stall \in Nat \ {0}, NEW unticked \in 0..(stall - 1),
         FitsTimeouts(size, stall), HeldInTime(stall, unticked), DrainsInTime(size, unticked),
         Elapse(1)
  PROVE  /\ HeldInTime(stall, unticked + 1)' /\ DrainsInTime(size, unticked + 1)'
         /\ state = "kUartDrain" => Elapsed' = Elapsed + 1
<1>1. /\ now_us' = Later(1)
      /\ UNCHANGED <<state, state_entered_us, busy_claimed_us>>
  BY DEF Elapse, busy
<1>2. state \in OwnerStates => Held' = Held + 1
  <2>1. state \in OwnerStates => Held + 1 < ClockMod
    BY NeverOverdue
  <2>2. QED
    BY <1>1, <2>1, TimesType, DeltaGrows DEF Held, Delta
<1>3. state \in {"kClaimDelay", "kUartDrain"} => Elapsed' = Elapsed + 1
  <2>1. state = "kClaimDelay" => Elapsed + 1 < ClockMod
    BY NeverOverdue DEF HeldInTime, OwnerStates
  <2>2. state = "kUartDrain" => Elapsed + 1 < ClockMod
    BY TimesType DEF DrainsInTime, FitsTimeouts
  <2>3. QED
    BY <1>1, <2>1, <2>2, TimesType, DeltaGrows DEF Elapsed, Delta
<1>4. HeldInTime(stall, unticked + 1)'
  BY <1>1, <1>2, <1>3, TimesType DEF HeldInTime, OwnerStates
<1>5. DrainsInTime(size, unticked + 1)'
  BY <1>1, <1>3, TimesType DEF DrainsInTime
<1>6. QED
  BY <1>1, <1>3, <1>4, <1>5

\* What a tick can come to on a clean bus.
CleanOutcome(bus_busy, tx_complete) ==
  \/ /\ UNCHANGED vars
     /\ state \notin {"kBusyClaim", "kTxEnable", "kWrite", "kEchoWait"}
     /\ state = "kUartDrain" => ~tx_complete
  \/ /\ TickFrame /\ TickAdvances(bus_busy) /\ state_entered_us' = now_us
     /\ state = "kUartDrain" => tx_complete
  \/ TickFrame /\ TickCompletes
  \/ TickFrame /\ state = "kBusWait" /\ EnterFault("kContentionTimeout")
  \/ TickFrame /\ state = "kResponseWait" /\ EnterFault("kResponseTimeout")

\* A tick that moves the transaction on.
LEMMA MovedOn ==
  ASSUME IInv, NEW stall \in Nat \ {0}, NEW unticked \in 0..stall, NEW size \in Nat \ {0},
         HeldInTime(stall, unticked), TickFrame, NEW s, Transition(s),
         \/ s \notin OwnerStates
         \/ s = "kClaimDelay" /\ busy_claimed_us' = now_us
         \/ /\ busy_claimed_us' = busy_claimed_us
            /\ <<state, s>> \in {<<"kClaimDelay", "kTxEnable">>, <<"kTxEnable", "kWrite">>,
                                 <<"kWrite", "kUartDrain">>}
  PROVE  HeldInTime(stall, 0)' /\ DrainsInTime(size, 0)'
<1>1. /\ now_us' = now_us /\ state' = s /\ state_entered_us' = now_us
  BY DEF TickFrame, Transition
<1>2. Elapsed' = 0
  BY <1>1, TimesType DEF Elapsed, Delta
<1>3. busy_claimed_us' = now_us => Held' = 0
  BY <1>1, TimesType DEF Held, Delta
<1>4. busy_claimed_us' = busy_claimed_us => Held' = Held
  BY <1>1 DEF Held, Delta
<1>5. DrainsInTime(size, 0)'
  BY <1>2 DEF DrainsInTime
<1>6. HeldInTime(stall, 0)'
  BY <1>1, <1>2, <1>3, <1>4, TimesType DEF HeldInTime, OwnerStates
<1>7. QED
  BY <1>5, <1>6

\* A tick that changes nothing.
LEMMA StoodStill ==
  ASSUME IInv, NEW stall \in Nat \ {0}, NEW unticked \in 0..stall, NEW size \in Nat \ {0},
         HeldInTime(stall, unticked), UNCHANGED vars,
         state \notin {"kTxEnable", "kWrite"},
         state = "kClaimDelay" => Elapsed < ClaimDelay,
         state = "kUartDrain" => Elapsed < size
  PROVE  HeldInTime(stall, 0)' /\ DrainsInTime(size, 0)'
<1>1. state' = state /\ Elapsed' = Elapsed /\ Held' = Held
  BY DEF vars, busy, Elapsed, Held, Delta
<1>2. QED
  BY <1>1, TimesType DEF HeldInTime, DrainsInTime

\* No tick fails but for want of the bus or of the answer.
LEMMA CleanTick ==
  ASSUME IInv, NEW size \in Nat \ {0}, NEW stall \in Nat \ {0}, NEW unticked \in 0..stall,
         FitsTimeouts(size, stall), HeldInTime(stall, unticked), DrainsInTime(size, unticked),
         NEW bus_busy \in BOOLEAN, NEW tx_complete \in BOOLEAN,
         state = "kUartDrain" /\ ~tx_complete => Elapsed < size,
         state = "kEchoWait" => echo_complete,
         Tick(bus_busy, TRUE, tx_complete)
  PROVE  /\ ~Overdue
         /\ HeldInTime(stall, 0)' /\ DrainsInTime(size, 0)'
         /\ CleanOutcome(bus_busy, tx_complete)
<1> DEFINE Goal == /\ HeldInTime(stall, 0)' /\ DrainsInTime(size, 0)'
                   /\ CleanOutcome(bus_busy, tx_complete)
<1> USE DEF TickAdvances, MoveFrame, FaultFrame, counts, flags
<1>1. /\ ~Overdue
      /\ TickState(bus_busy, TRUE, tx_complete)
  BY NeverOverdue DEF Tick, TickOverdue
<1>0. SUFFICES Goal
  BY <1>1
<1>2. ASSUME NEW s \in AuxTxState \ OwnerStates, TickFrame, Transition(s),
             CleanOutcome(bus_busy, tx_complete)
      PROVE  Goal
  <2>1. HeldInTime(stall, 0)' /\ DrainsInTime(size, 0)'
    BY <1>2, MovedOn
  <2>2. QED
    BY <1>2, <2>1
<1>3. ASSUME UNCHANGED vars, state \notin OwnerStates \cup {"kBusyClaim", "kEchoWait"}
      PROVE  Goal
  <2>1. HeldInTime(stall, 0)' /\ DrainsInTime(size, 0)'
    BY <1>3, StoodStill DEF OwnerStates
  <2>2. QED
    BY <1>3, <2>1 DEF CleanOutcome, OwnerStates
<1>4. CASE TickAtRest
  BY <1>3, <1>4 DEF TickAtRest, OwnerStates
<1>5. CASE TickBusWait(bus_busy)
  <2>1. CASE ~bus_busy /\ Transition("kBusyClaim") /\ MoveFrame
    <3>1. CleanOutcome(bus_busy, tx_complete)
      BY <1>5, <2>1 DEF TickBusWait, Transition, CleanOutcome
    <3>2. QED
      BY <1>2, <2>1, <3>1 DEF OwnerStates, AuxTxState
  <2>2. CASE EnterFault("kContentionTimeout") /\ TickFrame
    <3>1. CleanOutcome(bus_busy, tx_complete)
      BY <1>5, <2>2 DEF TickBusWait, CleanOutcome
    <3>2. QED
      BY <1>2, <2>2, <3>1 DEF OwnerStates, AuxTxState, EnterFault
  <2>3. CASE Count({"contention_retries"}) /\ Transition("kBackoff") /\ UNCHANGED last_fault /\ TickFrame
    <3>1. CleanOutcome(bus_busy, tx_complete)
      BY <1>5, <2>3 DEF TickBusWait, Transition, CleanOutcome, Count, Counters
    <3>2. QED
      BY <1>2, <2>3, <3>1 DEF OwnerStates, AuxTxState
  <2>4. CASE UNCHANGED vars
    BY <1>3, <1>5, <2>4 DEF TickBusWait, OwnerStates
  <2>5. QED
    BY <1>5, <2>1, <2>2, <2>3, <2>4 DEF TickBusWait, RetryOrFault
<1>6. CASE TickBusyClaim
  <2>1. HeldInTime(stall, 0)' /\ DrainsInTime(size, 0)'
    BY <1>6, MovedOn DEF TickBusyClaim
  <2>2. CleanOutcome(bus_busy, tx_complete)
    BY <1>6 DEF TickBusyClaim, Transition, CleanOutcome
  <2>3. QED
    BY <2>1, <2>2
<1>7. CASE TickClaimDelay
  <2>1. CASE Transition("kTxEnable") /\ MoveFrame /\ UNCHANGED busy
    <3>1. HeldInTime(stall, 0)' /\ DrainsInTime(size, 0)'
      BY <1>7, <2>1, MovedOn DEF TickClaimDelay, busy
    <3>2. CleanOutcome(bus_busy, tx_complete)
      BY <1>7, <2>1 DEF TickClaimDelay, Transition, CleanOutcome
    <3>3. QED
      BY <3>1, <3>2
  <2>2. CASE UNCHANGED vars /\ Elapsed < ClaimDelay
    <3>1. HeldInTime(stall, 0)' /\ DrainsInTime(size, 0)'
      BY <1>7, <2>2, StoodStill DEF TickClaimDelay
    <3>2. QED
      BY <1>7, <2>2, <3>1 DEF TickClaimDelay, CleanOutcome
  <2>3. QED
    BY <1>7, <2>1, <2>2 DEF TickClaimDelay
<1>8. CASE TickTxEnable
  <2>1. HeldInTime(stall, 0)' /\ DrainsInTime(size, 0)'
    BY <1>8, MovedOn DEF TickTxEnable, busy
  <2>2. CleanOutcome(bus_busy, tx_complete)
    BY <1>8 DEF TickTxEnable, Transition, CleanOutcome
  <2>3. QED
    BY <2>1, <2>2
<1>9. CASE TickWrite(TRUE)
  <2>1. HeldInTime(stall, 0)' /\ DrainsInTime(size, 0)'
    BY <1>9, MovedOn DEF TickWrite, busy
  <2>2. CleanOutcome(bus_busy, tx_complete)
    BY <1>9 DEF TickWrite, Transition, CleanOutcome
  <2>3. QED
    BY <2>1, <2>2
<1>10. CASE TickUartDrain(tx_complete)
  <2> DEFINE next == IF controlled_transaction /\ echo_complete
                       THEN "kResponseWait" ELSE "kEchoWait"
  <2>1. CASE tx_complete /\ Transition(next) /\ FaultFrame /\ UNCHANGED <<metrics, last_fault>>
    <3>1. next \in AuxTxState \ OwnerStates
      BY DEF AuxTxState, OwnerStates
    <3>2. CleanOutcome(bus_busy, tx_complete)
      BY <1>10, <2>1 DEF TickUartDrain, Transition, CleanOutcome
    <3> HIDE DEF next
    <3>3. QED
      BY <1>2, <2>1, <3>1, <3>2
  <2>2. CASE UNCHANGED vars /\ ~tx_complete
    <3>1. HeldInTime(stall, 0)' /\ DrainsInTime(size, 0)'
      BY <1>10, <2>2, StoodStill DEF TickUartDrain
    <3>2. QED
      BY <1>10, <2>2, <3>1 DEF TickUartDrain, CleanOutcome
  <2>3. ~(~tx_complete /\ Elapsed >= UartDrainTimeout)
    BY <1>10, TimesType DEF TickUartDrain, FitsTimeouts
  <2>4. QED
    BY <1>10, <2>1, <2>2, <2>3 DEF TickUartDrain
<1>11. CASE TickEchoWait
  <2>1. CASE controlled_transaction /\ Transition("kResponseWait") /\ MoveFrame
    <3>1. CleanOutcome(bus_busy, tx_complete)
      BY <1>11, <2>1 DEF TickEchoWait, Transition, CleanOutcome
    <3>2. QED
      BY <1>2, <2>1, <3>1 DEF OwnerStates, AuxTxState
  <2>2. CASE CompletePacket /\ ~controlled_transaction
    <3>1. CleanOutcome(bus_busy, tx_complete) /\ TickFrame
      BY <1>11, <2>2 DEF TickEchoWait, Transition, CompletePacket, CleanOutcome, TickCompletes
    <3>2. QED
      BY <1>2, <2>2, <3>1 DEF OwnerStates, AuxTxState, CompletePacket
  <2>3. QED
    BY <1>11, <2>1, <2>2 DEF TickEchoWait
<1>12. CASE TickResponseWait
  <2>1. CASE CompletePacket /\ response_complete
    <3>1. CleanOutcome(bus_busy, tx_complete) /\ TickFrame
      BY <1>12, <2>1 DEF TickResponseWait, Transition, CompletePacket, CleanOutcome, TickCompletes
    <3>2. QED
      BY <1>2, <2>1, <3>1 DEF OwnerStates, AuxTxState, CompletePacket
  <2>2. CASE EnterFault("kResponseTimeout") /\ TickFrame
    <3>1. CleanOutcome(bus_busy, tx_complete)
      BY <1>12, <2>2 DEF TickResponseWait, CleanOutcome
    <3>2. QED
      BY <1>2, <2>2, <3>1 DEF OwnerStates, AuxTxState, EnterFault
  <2>3. CASE UNCHANGED vars
    BY <1>3, <1>12, <2>3 DEF TickResponseWait, OwnerStates
  <2>4. QED
    BY <1>12, <2>1, <2>2, <2>3 DEF TickResponseWait
<1>13. CASE TickBackoff
  <2>1. CASE Transition("kBusWait") /\ MoveFrame
    <3>1. CleanOutcome(bus_busy, tx_complete)
      BY <1>13, <2>1 DEF TickBackoff, Transition, CleanOutcome
    <3>2. QED
      BY <1>2, <2>1, <3>1 DEF OwnerStates, AuxTxState
  <2>2. CASE UNCHANGED vars
    BY <1>3, <1>13, <2>2 DEF TickBackoff, OwnerStates
  <2>3. QED
    BY <1>13, <2>1, <2>2 DEF TickBackoff
<1>14. QED
  BY <1>1, <1>4, <1>5, <1>6, <1>7, <1>8, <1>9, <1>10, <1>11, <1>12, <1>13
  DEF TickState

LEMMA Invariance == Spec => []IInv
BY IInvInit, IInvStep, PTL DEF Spec

\* On every path through the state machine TX is enabled exactly while a
\* packet is written or drained and BUSY asserted exactly from its claim to
\* the end of the drain (OutputsFollowState).
THEOREM LinesFollowState == Spec => []OutputsFollowState
<1>1. IInv => OutputsFollowState
  BY DEF IInv
<1>2. QED
  BY <1>1, Invariance, PTL

\* Nothing is in flight that did not pass the checksum check, nor, under a
\* controlled test, anything but the read-only query (OnlyVettedPackets).
THEOREM NothingUnvettedInFlight == Spec => []OnlyVettedPackets
<1>1. IInv => OnlyVettedPackets
  BY DEF IInv
<1>2. QED
  BY <1>1, Invariance, PTL

\* A response noted for one transaction cannot complete a later one
\* (ResponseFlagFresh).
THEOREM ResponsesStayFresh == Spec => []ResponseFlagFresh
<1>1. IInv => ResponseFlagFresh
  BY DEF IInv
<1>2. QED
  BY <1>1, Invariance, PTL

----------------------------------------------------------------------------
(* The transmitter implements the abstract transaction *)

LEMMA Phases ==
  /\ PhaseOf("kIdle") = "rest"
  /\ PhaseOf("kFault") = "failed"
  /\ \A s \in {"kBusWait", "kBusyClaim", "kBackoff"} : PhaseOf(s) = "contend"
  /\ \A s \in OwnerStates : PhaseOf(s) = "own"
  /\ \A s \in {"kEchoWait", "kResponseWait"} : PhaseOf(s) = "await"
BY DEF PhaseOf, OwnerStates

LEMMA RefineStutter ==
  ASSUME PhaseOf(state') = PhaseOf(state), busy_asserted' = busy_asserted,
         tx_enabled' = tx_enabled, handed_over' = handed_over
  PROVE  UNCHANGED Transaction!vars
BY DEF Transaction!vars

\* Every fault in flight is a failure of the transaction; the write that was
\* cut short is the only one that also hands bytes over.
LEMMA RefineFault ==
  ASSUME IInv, NEW fault, EnterFault(fault), InFlight,
         handed_over' = handed_over \/ (tx_enabled /\ handed_over' = TRUE)
  PROVE  Transaction!Fail
<1>1. state' = "kFault" /\ busy_asserted' = FALSE /\ tx_enabled' = FALSE
  BY DEF EnterFault, ForceSafe, Transition
<1>2. PhaseOf(state) \in {"contend", "own", "await"}
  BY Phases DEF IInv, TypeOK, AuxTxState, InFlight, OwnerStates
<1>3. PhaseOf(state') = "failed"
  BY <1>1, Phases
<1>4. QED
  BY <1>1, <1>2, <1>3 DEF Transaction!Fail

LEMMA RefineTick ==
  ASSUME IInv, NEW bus_busy \in BOOLEAN, NEW all_written \in BOOLEAN,
         NEW tx_complete \in BOOLEAN,
         Tick(bus_busy, all_written, tx_complete)
  PROVE  Transaction!Next \/ UNCHANGED Transaction!vars
<1> USE DEF Transaction!Next
<1>1. CASE UNCHANGED vars
  BY <1>1, RefineStutter DEF vars, busy
<1>2. CASE TickOverdue
  <2>1. InFlight
    BY <1>2 DEF IInv, OutputsFollowState, TickOverdue, Overdue, OwnerStates,
       InFlight
  <2>2. QED
    BY <1>2, <2>1, RefineFault DEF TickOverdue, FaultFrame
<1>3. CASE TickBusWait(bus_busy)
  <2>1. /\ state = "kBusWait" /\ InFlight
        /\ busy_asserted = FALSE /\ tx_enabled = FALSE
    BY <1>3 DEF IInv, TypeOK, OutputsFollowState, OwnerStates, DrivingStates,
       TickBusWait, InFlight
  <2>2. CASE /\ Transition("kBusyClaim")
             /\ MoveFrame /\ UNCHANGED <<busy, tx_enabled>>
    BY <2>1, <2>2, Phases, RefineStutter DEF Transition, MoveFrame, busy
  <2>3. CASE RetryOrFault /\ UNCHANGED handed_over
    <3>1. CASE EnterFault("kContentionTimeout")
      BY <2>1, <2>3, <3>1, RefineFault
    <3>2. CASE ForceSafe /\ Transition("kBackoff")
      BY <2>1, <2>3, <3>2, Phases, RefineStutter DEF ForceSafe, Transition
    <3>3. QED
      BY <2>3, <3>1, <3>2 DEF RetryOrFault
  <2>4. QED
    BY <1>1, <1>3, <2>2, <2>3 DEF TickBusWait
<1>4. CASE TickBusyClaim
  BY <1>4, Phases
  DEF TickBusyClaim, Transition, MoveFrame, OwnerStates, Transaction!Claim
<1>5. CASE TickClaimDelay
  <2>1. CASE /\ Transition("kTxEnable")
             /\ MoveFrame /\ UNCHANGED <<busy, tx_enabled>>
    BY <1>5, <2>1, Phases, RefineStutter
    DEF TickClaimDelay, Transition, MoveFrame, busy, OwnerStates
  <2>2. QED
    BY <1>1, <1>5, <2>1 DEF TickClaimDelay
<1>6. CASE TickTxEnable
  <2>1. ~handed_over /\ busy_asserted /\ ~tx_enabled
    BY <1>6 DEF TickTxEnable, IInv, OutputsFollowState, HandedOverByState,
       OwnerStates, DrivingStates
  <2>2. QED
    BY <1>6, <2>1, Phases DEF TickTxEnable, Transition, MoveFrame, busy,
       OwnerStates, Transaction!Drive
<1>7. CASE TickWrite(all_written)
  <2>1. ~handed_over /\ busy_asserted /\ tx_enabled = TRUE /\ InFlight
    BY <1>7 DEF TickWrite, IInv, TypeOK, OutputsFollowState, HandedOverByState,
       OwnerStates, DrivingStates, InFlight
  <2>2. CASE EnterFault("kWriteFailure")
    BY <1>7, <2>1, <2>2, RefineFault DEF TickWrite
  <2>3. CASE Transition("kUartDrain") /\ UNCHANGED <<busy, tx_enabled>>
    BY <1>7, <2>1, <2>3, Phases DEF TickWrite, Transition, busy,
       OwnerStates, Transaction!Send
  <2>4. QED
    BY <1>7, <2>2, <2>3 DEF TickWrite
<1>8. CASE TickUartDrain(tx_complete)
  <2>1. state = "kUartDrain" /\ handed_over /\ InFlight
    BY <1>8 DEF TickUartDrain, IInv, HandedOverByState, InFlight
  <2>2. CASE EnterFault("kUartDrainTimeout") /\ FaultFrame
    BY <2>1, <2>2, RefineFault DEF FaultFrame
  <2>3. CASE /\ ReleaseBus /\ FaultFrame
             /\ Transition(IF controlled_transaction /\ echo_complete
                             THEN "kResponseWait" ELSE "kEchoWait")
    <3>1. state' \in {"kEchoWait", "kResponseWait"}
      BY <2>3 DEF Transition
    <3>2. QED
      BY <2>1, <2>3, <3>1, Phases DEF ReleaseBus, ForceSafe, FaultFrame,
         OwnerStates, Transaction!Release
  <2>4. QED
    BY <1>1, <1>8, <2>2, <2>3 DEF TickUartDrain
<1>9. CASE TickEchoWait \/ TickResponseWait
  <2>1. state \in {"kEchoWait", "kResponseWait"} /\ handed_over /\ InFlight
    BY <1>9 DEF TickEchoWait, TickResponseWait, IInv, HandedOverByState, InFlight
  <2>2. CASE CompletePacket /\ FaultFrame /\ UNCHANGED <<busy, tx_enabled>>
    BY <2>1, <2>2, Phases DEF CompletePacket, Transition, FaultFrame, busy,
       Transaction!Complete
  <2>3. CASE Transition("kResponseWait") /\ MoveFrame /\ UNCHANGED <<busy, tx_enabled>>
    BY <2>1, <2>3, Phases, RefineStutter DEF Transition, MoveFrame, busy
  <2>4. CASE EnterFault("kEchoTimeout") /\ FaultFrame
    BY <2>1, <2>4, RefineFault DEF FaultFrame
  <2>5. CASE EnterFault("kResponseTimeout") /\ FaultFrame
    BY <2>1, <2>5, RefineFault DEF FaultFrame
  <2>6. QED
    BY <1>1, <1>9, <2>2, <2>3, <2>4, <2>5 DEF TickEchoWait, TickResponseWait
<1>10. CASE TickBackoff
  <2>1. CASE /\ Transition("kBusWait")
             /\ MoveFrame /\ UNCHANGED <<busy, tx_enabled>>
    BY <1>10, <2>1, Phases, RefineStutter
    DEF TickBackoff, Transition, MoveFrame, busy
  <2>2. QED
    BY <1>1, <1>10, <2>1 DEF TickBackoff
<1>11. QED
  BY <1>1, <1>2, <1>3, <1>4, <1>5, <1>6, <1>7, <1>8, <1>9, <1>10
  DEF Tick, TickState, TickAtRest

LEMMA RefineStep == IInv /\ [Next]_vars => [Transaction!Next]_(Transaction!vars)
<1> SUFFICES ASSUME IInv, [Next]_vars
             PROVE  Transaction!Next \/ UNCHANGED Transaction!vars
  OBVIOUS
<1>1. ASSUME NEW p \in Packets, NEW mode \in OperatingMode,
             NEW auth \in AuxTxAuthorization, Start(p, mode, auth)
      PROVE  Transaction!Next \/ UNCHANGED Transaction!vars
  <2>1. CASE RefuseStart(Refusal(p, mode, auth))
    BY <2>1, RefineStutter DEF RefuseStart, busy
  <2>2. CASE /\ Refusal(p, mode, auth) = "none"
             /\ AcceptStart(p, Controlled(mode, auth))
    <3>1. state = "kIdle" /\ state' = "kBusWait"
      BY <2>2 DEF Refusal, AcceptStart, Transition
    <3>2. QED
      BY <2>2, <3>1, Phases
      DEF AcceptStart, busy, Transaction!Next, Transaction!Accept
  <2>3. QED
    BY <1>1, <2>1, <2>2 DEF Start
<1>2. ASSUME NEW bus_busy \in BOOLEAN, NEW all_written \in BOOLEAN,
             NEW tx_complete \in BOOLEAN,
             Tick(bus_busy, all_written, tx_complete)
      PROVE  Transaction!Next \/ UNCHANGED Transaction!vars
  BY <1>2, RefineTick
<1>3. CASE NotifyEchoComplete
  BY <1>3, RefineStutter DEF NotifyEchoComplete, busy
<1>4. ASSUME NEW r \in Packets, NotifyResponse(r)
      PROVE  Transaction!Next \/ UNCHANGED Transaction!vars
  BY <1>4, RefineStutter DEF NotifyResponse, busy
<1>5. CASE Recover
  BY <1>5, Phases DEF Recover, ForceSafe, Transaction!Next, Transaction!Recover
<1>6. ASSUME NEW d \in 1..MaxElapse, Elapse(d)
      PROVE  Transaction!Next \/ UNCHANGED Transaction!vars
  BY <1>6, RefineStutter DEF Elapse, busy
<1>7. CASE UNCHANGED vars
  BY <1>7, RefineStutter DEF vars, busy
<1>8. QED
  BY <1>1, <1>2, <1>3, <1>4, <1>5, <1>6, <1>7 DEF Next

\* For every set of packets, timing and order of calls the transmitter is an
\* AuxTransaction (ImplementsTransaction): it never drives the bus without
\* owning BUSY, never writes an accepted packet twice, lets go of both lines
\* before it waits, and completes nothing it has not written.
THEOREM TransmitterImplementsTransaction == Spec => ImplementsTransaction
<1>1. Init => Transaction!Init
  BY Phases DEF Init, Transaction!Init
<1>2. QED
  BY <1>1, RefineStep, Invariance, PTL
  DEF Spec, ImplementsTransaction, Transaction!Spec

----------------------------------------------------------------------------
(* The hold of BUSY is recorded *)

LEMMA ReleaseRecords ==
  ASSUME TypeOK, RecordBusyHold, busy_claimed
  PROVE  maximum_busy_hold_us' >= Delta(now_us, busy_claimed_us)
<1>1. Delta(now_us, busy_claimed_us) \in Int /\ maximum_busy_hold_us \in Int
  BY DeltaInstant DEF TypeOK, Instant
<1>2. QED
  BY <1>1 DEF RecordBusyHold

LEMMA BusyHoldStep ==
  ASSUME IInv, [Next]_vars, busy_claimed, ~busy_claimed',
         metrics'["recoveries"] = metrics["recoveries"]
  PROVE  maximum_busy_hold_us' >= Delta(now_us, busy_claimed_us)
<1>1. state \in OwnerStates /\ TypeOK
  BY DEF IInv, OutputsFollowState
<1>2. ASSUME NEW p \in Packets, NEW mode \in OperatingMode,
             NEW auth \in AuxTxAuthorization, Start(p, mode, auth)
      PROVE  FALSE
  BY <1>2 DEF Start, RefuseStart, AcceptStart, busy
<1>3. ASSUME NEW bus_busy \in BOOLEAN, NEW all_written \in BOOLEAN,
             NEW tx_complete \in BOOLEAN,
             Tick(bus_busy, all_written, tx_complete)
      PROVE  RecordBusyHold
  <2>1. CASE TickOverdue
    BY <2>1 DEF TickOverdue, EnterFault
  <2>2. CASE TickAtRest \/ TickBusWait(bus_busy) \/ TickBusyClaim
             \/ TickEchoWait \/ TickResponseWait \/ TickBackoff
    BY <1>1, <2>2 DEF TickAtRest, TickBusWait, TickBusyClaim, TickEchoWait,
       TickResponseWait, TickBackoff, OwnerStates
  <2>3. CASE TickClaimDelay \/ TickTxEnable
    BY <2>3 DEF TickClaimDelay, TickTxEnable, vars, busy
  <2>4. CASE TickWrite(all_written)
    BY <2>4 DEF TickWrite, EnterFault, busy
  <2>5. CASE TickUartDrain(tx_complete)
    BY <2>5 DEF TickUartDrain, ReleaseBus, EnterFault, vars, busy
  <2>6. QED
    BY <1>3, <2>1, <2>2, <2>3, <2>4, <2>5 DEF Tick, TickState
<1>4. CASE NotifyEchoComplete
  BY <1>4 DEF NotifyEchoComplete, busy
<1>5. ASSUME NEW r \in Packets, NotifyResponse(r)
      PROVE  FALSE
  BY <1>5 DEF NotifyResponse, busy
<1>6. CASE Recover
  <2>1. metrics'["recoveries"] = metrics["recoveries"] + 1
    BY <1>6 DEF Recover, Count, Counters
  <2>2. metrics["recoveries"] \in Nat
    BY <1>1 DEF TypeOK, Counters
  <2>3. QED
    BY <2>1, <2>2
<1>7. ASSUME NEW d \in 1..MaxElapse, Elapse(d)
      PROVE  FALSE
  BY <1>7 DEF Elapse, busy
<1>8. CASE UNCHANGED vars
  BY <1>8 DEF vars, busy
<1>9. QED
  BY <1>1, <1>2, <1>3, <1>4, <1>5, <1>6, <1>7, <1>8, ReleaseRecords DEF Next

\* Whatever ends a hold of BUSY, except a recovery in the middle of it, the
\* reported maximum covers the hold (BusyHoldRecorded).
THEOREM HoldsAreRecorded == Spec => BusyHoldRecorded
<1>1. IInv /\ [Next]_vars =>
        [busy_claimed /\ ~busy_claimed'
           /\ metrics'["recoveries"] = metrics["recoveries"]
           => maximum_busy_hold_us' >= Delta(now_us, busy_claimed_us)]_vars
  BY BusyHoldStep
<1>2. QED
  BY <1>1, Invariance, PTL DEF Spec, BusyHoldRecorded

----------------------------------------------------------------------------
(* The counters add up *)

LEMMA CountValue ==
  ASSUME NEW names, Count(names), NEW c \in Counters
  PROVE  metrics'[c] = IF c \in names THEN metrics[c] + 1 ELSE metrics[c]
BY DEF Count

LEMMA LedgerInit == Init => Ledger
BY DEF Init, Ledger, Unaccounted, Accepted, Sum4, InFlight, Counters, Rejections

\* The four ways a step can change the books, each as Count names it.
LEMMA LedgerStill ==
  ASSUME TypeOK, Ledger, metrics' = metrics, InFlight' = InFlight
  PROVE  Ledger'
BY DEF Ledger, Unaccounted, Accepted, Sum4

LEMMA LedgerRetry ==
  ASSUME TypeOK, Ledger, Count({"contention_retries"}), InFlight' = InFlight
  PROVE  Ledger'
BY CountValue DEF TypeOK, Ledger, Unaccounted, Accepted, Sum4, Counters, Rejections

LEMMA LedgerReject ==
  ASSUME TypeOK, Ledger, NEW reason \in Rejections,
         Count({"start_requests", reason}), InFlight' = InFlight
  PROVE  Ledger'
BY CountValue DEF TypeOK, Ledger, Unaccounted, Accepted, Sum4, Counters, Rejections

LEMMA LedgerAccept ==
  ASSUME TypeOK, Ledger, Count({"start_requests"}), ~InFlight, InFlight'
  PROVE  Ledger'
BY CountValue DEF TypeOK, Ledger, Unaccounted, Accepted, Sum4, Counters, Rejections

LEMMA LedgerComplete ==
  ASSUME TypeOK, Ledger, Count({"completed_packets"}), InFlight, ~InFlight'
  PROVE  Ledger'
BY CountValue DEF TypeOK, Ledger, Unaccounted, Accepted, Sum4, Counters, Rejections

LEMMA LedgerFault ==
  ASSUME TypeOK, Ledger, NEW fault, EnterFault(fault), InFlight
  PROVE  Ledger'
<1>1. ~InFlight'
  BY DEF EnterFault, Transition, InFlight
<1>2. CASE fault = "kTransactionTimeout"
  <2>1. Count({"faults", "busy_timeouts"})
    BY <1>2 DEF EnterFault, Count
  <2>2. QED
    BY <1>1, <2>1, CountValue
    DEF TypeOK, Ledger, Unaccounted, Accepted, Sum4, Counters, Rejections
<1>3. CASE fault # "kTransactionTimeout"
  <2>1. Count({"faults"})
    BY <1>3 DEF EnterFault, Count
  <2>2. QED
    BY <1>1, <2>1, CountValue
    DEF TypeOK, Ledger, Unaccounted, Accepted, Sum4, Counters, Rejections
<1>4. QED
  BY <1>2, <1>3

LEMMA LedgerRecover ==
  ASSUME TypeOK, Ledger, Count({"recoveries"}), ~InFlight'
  PROVE  Ledger'
BY CountValue DEF TypeOK, Ledger, Unaccounted, Accepted, Sum4, Counters, Rejections

LEMMA LedgerTick ==
  ASSUME IInv, Ledger, NEW bus_busy \in BOOLEAN, NEW all_written \in BOOLEAN,
         NEW tx_complete \in BOOLEAN,
         Tick(bus_busy, all_written, tx_complete)
  PROVE  Ledger'
<1>1. TypeOK
  BY DEF IInv
<1>2. CASE UNCHANGED vars
  BY <1>1, <1>2, LedgerStill DEF vars, counts, InFlight
<1>3. CASE \E fault \in AuxTxFault : EnterFault(fault) /\ InFlight
  BY <1>1, <1>3, LedgerFault
<1>4. CASE CompletePacket /\ InFlight
  <2>1. ~InFlight'
    BY <1>4 DEF CompletePacket, Transition, InFlight
  <2>2. QED
    BY <1>1, <1>4, <2>1, LedgerComplete DEF CompletePacket
<1>5. CASE metrics' = metrics /\ InFlight /\ InFlight'
  BY <1>1, <1>5, LedgerStill
<1>6. CASE Count({"contention_retries"}) /\ InFlight /\ InFlight'
  BY <1>1, <1>6, LedgerRetry
<1>7. QED
  <2>1. CASE TickOverdue
    BY <1>3, <2>1 DEF TickOverdue, Overdue, IInv, OutputsFollowState,
       OwnerStates, InFlight, AuxTxFault
  <2>2. CASE TickAtRest
    BY <1>2, <2>2 DEF TickAtRest
  <2>3. CASE TickBusWait(bus_busy)
    BY <1>2, <1>3, <1>5, <1>6, <2>3 DEF TickBusWait, RetryOrFault, Transition,
       MoveFrame, counts, InFlight, AuxTxFault
  <2>4. CASE TickBusyClaim \/ TickClaimDelay \/ TickTxEnable
    BY <1>2, <1>5, <2>4 DEF TickBusyClaim, TickClaimDelay, TickTxEnable,
       Transition, MoveFrame, counts, InFlight
  <2>5. CASE TickWrite(all_written)
    BY <1>3, <1>5, <2>5 DEF TickWrite, Transition, counts, InFlight, AuxTxFault
  <2>6. CASE TickUartDrain(tx_complete)
    BY <1>2, <1>3, <1>5, <2>6
    DEF TickUartDrain, Transition, InFlight, AuxTxFault
  <2>7. CASE TickEchoWait \/ TickResponseWait
    BY <1>2, <1>3, <1>4, <1>5, <2>7 DEF TickEchoWait, TickResponseWait,
       Transition, MoveFrame, counts, InFlight, AuxTxFault
  <2>8. CASE TickBackoff
    BY <1>2, <1>5, <2>8
    DEF TickBackoff, Transition, MoveFrame, counts, InFlight
  <2>9. QED
    BY <2>1, <2>2, <2>3, <2>4, <2>5, <2>6, <2>7, <2>8 DEF Tick, TickState

LEMMA LedgerStep == IInv /\ Ledger /\ [Next]_vars => Ledger'
<1> SUFFICES ASSUME IInv, Ledger, [Next]_vars PROVE Ledger'
  OBVIOUS
<1>1. TypeOK
  BY DEF IInv
<1>2. ASSUME NEW p \in Packets, NEW mode \in OperatingMode,
             NEW auth \in AuxTxAuthorization, Start(p, mode, auth)
      PROVE  Ledger'
  <2>1. CASE RefuseStart(Refusal(p, mode, auth))
    <3>1. Refusal(p, mode, auth) \in Rejections
      BY <2>1 DEF RefuseStart, Refusal, Rejections
    <3>2. QED
      BY <1>1, <2>1, <3>1, LedgerReject DEF RefuseStart, InFlight
  <2>2. CASE /\ Refusal(p, mode, auth) = "none"
             /\ AcceptStart(p, Controlled(mode, auth))
    <3>1. ~InFlight /\ InFlight'
      BY <2>2 DEF Refusal, AcceptStart, Transition, InFlight
    <3>2. QED
      BY <1>1, <2>2, <3>1, LedgerAccept DEF AcceptStart
  <2>3. QED
    BY <1>2, <2>1, <2>2 DEF Start
<1>3. ASSUME NEW bus_busy \in BOOLEAN, NEW all_written \in BOOLEAN,
             NEW tx_complete \in BOOLEAN,
             Tick(bus_busy, all_written, tx_complete)
      PROVE  Ledger'
  BY <1>3, LedgerTick
<1>4. CASE NotifyEchoComplete
  BY <1>1, <1>4, LedgerStill DEF NotifyEchoComplete, counts, InFlight
<1>5. ASSUME NEW r \in Packets, NotifyResponse(r)
      PROVE  Ledger'
  BY <1>1, <1>5, LedgerStill DEF NotifyResponse, counts, InFlight
<1>6. CASE Recover
  <2>1. Count({"recoveries"}) /\ ~InFlight'
    BY <1>6 DEF Recover, InFlight
  <2>2. QED
    BY <1>1, <2>1, LedgerRecover
<1>7. ASSUME NEW d \in 1..MaxElapse, Elapse(d)
      PROVE  Ledger'
  BY <1>1, <1>7, LedgerStill DEF Elapse, counts, InFlight
<1>8. CASE UNCHANGED vars
  BY <1>1, <1>8, LedgerStill DEF vars, counts, InFlight
<1>9. QED
  BY <1>2, <1>3, <1>4, <1>5, <1>6, <1>7, <1>8 DEF Next

\* The status counters add up for ever (Ledger): every start request is
\* rejected for one reason, in flight, completed, faulted, or dropped by a
\* recovery, and there were at least as many recoveries as dropped packets.
THEOREM CountersAddUp == Spec => []Ledger
BY LedgerInit, LedgerStep, Invariance, PTL DEF Spec
================================================================================

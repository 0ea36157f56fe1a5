----------------------- MODULE AuxTransmitterTimingProofs -----------------------
(***************************************************************************)
(* Proofs about AuxTransmitterTiming: what the timeouts and the cadence of *)
(* tick() bound, for every choice of timeouts, attempts, stall and clock.  *)
(***************************************************************************)
EXTENDS AuxTransmitterTiming, AuxTransmitterProofs

----------------------------------------------------------------------------
(* The invariant *)

\* The time that k attempts and the backoff after each of them can take.
Waited(k) == k * (Dwell(BusWaitTimeout) + Dwell(BackoffTime))

\* The age of a state that is left at the first tick `timeout` after its entry.
Age(timeout) == Elapsed + MaxStall <= Dwell(timeout) + unticked_us

\* The state was entered by `start`; no backoff follows the last attempt.
Since(start) == inflight_us + Dwell(BackoffTime) <= start + Elapsed

\* BUSY is claimed by then, and let go of by then.
Claimed  == Waited(MaximumAttempts) + MaxStall
Released == Claimed + (TransactionTimeout - 1)

StopwatchesOK ==
  /\ unticked_us \in 0..MaxStall /\ held_us \in Nat /\ inflight_us \in Nat
  /\ ~busy_claimed => held_us = 0
  /\ ~InFlight => inflight_us = 0

WaitsInTime ==
  /\ state = "kBusWait" => /\ attempts < MaximumAttempts /\ Age(BusWaitTimeout)
                           /\ inflight_us <= Waited(attempts) + Elapsed
  /\ state = "kBackoff" => /\ attempts < MaximumAttempts /\ Age(BackoffTime)
                           /\ Since(Waited(attempts))
  /\ state = "kBusyClaim" => Age(0) /\ Since(Waited(MaximumAttempts))
  /\ state \in OwnerStates => inflight_us + Dwell(BackoffTime) <= Claimed + held_us
  /\ state = "kEchoWait" => Age(EchoTimeout) /\ Since(Released)
  /\ state = "kResponseWait" =>
       Age(ResponseTimeout) /\ Since(Released + Dwell(EchoTimeout))

Timed == StopwatchesOK /\ BusyHoldBounded /\ WaitsInTime

TimedInv == IInv /\ Timed

----------------------------------------------------------------------------
(* The bounds *)

Timeouts == {BusWaitTimeout, EchoTimeout, ResponseTimeout, BackoffTime, 0}

LEMMA Cadence ==
  /\ MaxStall \in Nat \ {0} /\ ClockMod \in Nat \ {0}
  /\ MaximumAttempts \in Nat \ {0}
  /\ TransactionTimeout \in Nat \ {0} /\ TransactionTimeout + MaxStall < ClockMod
BY CadenceAssumption, TransmitterAssumption

LEMMA DwellBounds ==
  ASSUME NEW timeout \in Timeouts
  PROVE  /\ timeout \in Nat /\ Dwell(timeout) \in Nat
         /\ MaxStall <= Dwell(timeout) /\ Dwell(timeout) < ClockMod
         /\ Dwell(timeout) = IF timeout = 0 THEN MaxStall ELSE MaxStall + timeout - 1
<1>1. timeout \in Nat /\ timeout + MaxStall < ClockMod
  BY CadenceAssumption, TransmitterAssumption DEF Timeouts
<1>2. QED
  BY <1>1, Cadence DEF Dwell

LEMMA ProductMonotone ==
  ASSUME NEW w \in Nat, NEW m \in Int, NEW n \in Int, m <= n
  PROVE  m * w <= n * w
OBVIOUS

LEMMA WaitedGrows ==
  ASSUME NEW k \in Nat
  PROVE  /\ Waited(k) \in Nat
         /\ Waited(k + 1) = Waited(k) + Dwell(BusWaitTimeout) + Dwell(BackoffTime)
         /\ k <= MaximumAttempts => Waited(k) <= Waited(MaximumAttempts)
<1> DEFINE round == Dwell(BusWaitTimeout) + Dwell(BackoffTime)
<1>1. round \in Nat
  BY DwellBounds DEF Timeouts
<1>2. /\ Dwell(BusWaitTimeout) \in Nat /\ Dwell(BackoffTime) \in Nat
      /\ MaximumAttempts \in Nat
  BY DwellBounds, Cadence DEF Timeouts
<1>3. Waited(k) = k * round /\ Waited(k + 1) = (k + 1) * round
      /\ Waited(MaximumAttempts) = MaximumAttempts * round
  BY DEF Waited
<1>4. ASSUME NEW w \in Nat
      PROVE  k * w \in Nat /\ (k + 1) * w = k * w + w
  OBVIOUS
<1>5. ASSUME NEW w \in Nat, NEW n \in Int, k <= n
      PROVE  k * w <= n * w
  BY <1>5, ProductMonotone
<1>6. Waited(k + 1) = Waited(k) + round
  <2> HIDE DEF round
  <2> QED
    BY <1>1, <1>3, <1>4
<1>7. Waited(k) \in Nat /\ (k <= MaximumAttempts => Waited(k) <= Waited(MaximumAttempts))
  <2> HIDE DEF round
  <2> QED
    BY <1>1, <1>2, <1>3, <1>4, <1>5
<1>8. QED
  BY <1>2, <1>6, <1>7

LEMMA Instants ==
  ASSUME IInv
  PROVE  /\ now_us \in Instant /\ state_entered_us \in Instant /\ busy_claimed_us \in Instant
         /\ Elapsed \in Nat /\ Delta(now_us, now_us) = 0
         /\ attempts \in Nat /\ maximum_busy_hold_us \in Nat /\ state \in AuxTxState
<1>1. now_us \in Instant /\ state_entered_us \in Instant /\ busy_claimed_us \in Instant
      /\ attempts \in Nat /\ maximum_busy_hold_us \in Instant /\ state \in AuxTxState
  BY DEF IInv, TypeOK
<1>2. Elapsed \in Instant
  BY <1>1, DeltaInstant DEF Elapsed
<1>3. \A x \in Instant : x \in Nat
  BY Cadence DEF Instant
<1>4. Delta(now_us, now_us) = 0
  BY <1>1, <1>3 DEF Delta
<1>5. QED
  BY <1>1, <1>2, <1>3, <1>4

\* A state that a step enters is new.
LEMMA EnteredNow ==
  ASSUME IInv, state_entered_us' = now_us, now_us' = now_us
  PROVE  Elapsed' = 0
BY Instants DEF Elapsed

\* Where BUSY is not ours it is not claimed.
LEMMA ClaimedByState ==
  ASSUME IInv
  PROVE  busy_claimed <=> state \in OwnerStates
BY DEF IInv, OutputsFollowState

----------------------------------------------------------------------------
(* The steps, by where they lead *)

\* To rest: nothing is held and nothing is in flight.
LEMMA TimedRest ==
  ASSUME TimedInv, state' \in {"kIdle", "kFault"}, ~busy_claimed', Watches,
         unticked_us' \in 0..MaxStall,
         maximum_busy_hold_us' < TransactionTimeout + MaxStall
  PROVE  Timed'
<1>1. held_us' = 0 /\ inflight_us' = 0
  BY DEF Watches, InFlight
<1>2. StopwatchesOK'
  BY <1>1 DEF StopwatchesOK
<1>3. BusyHoldBounded'
  BY DEF BusyHoldBounded
<1>4. WaitsInTime'
  BY DEF WaitsInTime, OwnerStates
<1>5. QED
  BY <1>2, <1>3, <1>4 DEF Timed

\* Nothing that is timed changes.
LEMMA TimedStill ==
  ASSUME TimedInv, Watches, unticked_us' = unticked_us,
         UNCHANGED <<now_us, state, state_entered_us, attempts, busy_claimed,
                     busy_claimed_us, maximum_busy_hold_us>>
  PROVE  Timed'
<1>1. Elapsed' = Elapsed /\ InFlight' = InFlight
  BY DEF Elapsed, InFlight
<1>2. held_us' = held_us /\ inflight_us' = inflight_us
  BY <1>1 DEF TimedInv, Timed, StopwatchesOK, Watches
<1>3. QED
  BY <1>1, <1>2 DEF TimedInv, Timed, StopwatchesOK, BusyHoldBounded, WaitsInTime,
     Age, Since, Claimed, Released

\* The hold that ends is one the deadline has bounded.
LEMMA RecordedHold ==
  ASSUME TimedInv, RecordBusyHold
  PROVE  maximum_busy_hold_us' < TransactionTimeout + MaxStall
<1>1. /\ busy_claimed => /\ held_us < TransactionTimeout + unticked_us
                         /\ held_us = Delta(now_us, busy_claimed_us)
      /\ maximum_busy_hold_us < TransactionTimeout + MaxStall
      /\ unticked_us \in 0..MaxStall /\ held_us \in Nat
  BY DEF TimedInv, Timed, StopwatchesOK, BusyHoldBounded
<1>2. busy_claimed => Delta(now_us, busy_claimed_us) < TransactionTimeout + MaxStall
  BY <1>1, Cadence
<1>3. QED
  BY <1>1, <1>2 DEF RecordBusyHold

LEMMA FaultTimed ==
  ASSUME TimedInv, NEW fault, EnterFault(fault), Watches, unticked_us' = 0
  PROVE  Timed'
<1>1. state' = "kFault" /\ ~busy_claimed' /\ RecordBusyHold
  BY DEF EnterFault, ForceSafe, Transition
<1>2. unticked_us' \in 0..MaxStall
  BY Cadence
<1>3. QED
  BY <1>1, <1>2, RecordedHold, TimedRest

\* The owner of BUSY stays its owner: the deadline has not passed.
LEMMA OwnerTimed ==
  ASSUME TimedInv, ~Overdue, state \in OwnerStates, state' \in OwnerStates,
         now_us' = now_us, UNCHANGED busy, UNCHANGED maximum_busy_hold_us,
         Watches, unticked_us' = 0
  PROVE  Timed'
<1>1. /\ busy_claimed = TRUE /\ busy_claimed' = TRUE
      /\ busy_claimed_us' = busy_claimed_us
  BY ClaimedByState DEF TimedInv, IInv, TypeOK, busy
<1>2. InFlight' /\ InFlight
  BY DEF InFlight, OwnerStates
<1>3. held_us' = held_us /\ inflight_us' = inflight_us
  BY <1>1, <1>2 DEF Watches
<1>4. held_us = Delta(now_us, busy_claimed_us) /\ held_us \in Nat
  BY <1>1 DEF TimedInv, Timed, BusyHoldBounded, StopwatchesOK
<1>5. held_us < TransactionTimeout
  BY <1>1, <1>4, Cadence DEF Overdue
<1>6. StopwatchesOK'
  BY <1>1, <1>2, <1>3, Cadence DEF TimedInv, Timed, StopwatchesOK
<1>7. BusyHoldBounded'
  BY <1>1, <1>3, <1>4, <1>5, Cadence DEF TimedInv, Timed, BusyHoldBounded
<1>8. inflight_us + Dwell(BackoffTime) <= Claimed + held_us
  BY DEF TimedInv, Timed, WaitsInTime
<1>9. Claimed' = Claimed
  BY DEF Claimed
<1>10. WaitsInTime'
  BY <1>3, <1>8, <1>9 DEF WaitsInTime, OwnerStates
<1>11. QED
  BY <1>6, <1>7, <1>10 DEF Timed

\* A state in which BUSY is not held, when its wait fits.
LEMMA WaitTimed ==
  ASSUME TimedInv, ~busy_claimed', Watches, unticked_us' = 0,
         maximum_busy_hold_us' < TransactionTimeout + MaxStall, WaitsInTime'
  PROVE  Timed'
<1>1. unticked_us' \in 0..MaxStall /\ held_us' = 0 /\ inflight_us' \in Nat
      /\ (~InFlight' => inflight_us' = 0)
  BY Cadence DEF Watches, TimedInv, Timed, StopwatchesOK
<1>2. StopwatchesOK'
  BY <1>1 DEF StopwatchesOK
<1>3. BusyHoldBounded'
  BY DEF BusyHoldBounded
<1>4. QED
  BY <1>2, <1>3 DEF Timed

----------------------------------------------------------------------------
(* The states of tick() *)

LEMMA BusWaitTimed ==
  ASSUME TimedInv, NEW bus_busy \in BOOLEAN, TickBusWait(bus_busy), Watches,
         unticked_us' = 0
  PROVE  Timed'
<1>1. /\ state = "kBusWait" /\ attempts \in Nat /\ attempts < MaximumAttempts
      /\ Elapsed \in Nat /\ unticked_us \in 0..MaxStall /\ inflight_us \in Nat
      /\ Elapsed + MaxStall <= Dwell(BusWaitTimeout) + unticked_us
      /\ inflight_us <= Waited(attempts) + Elapsed
      /\ maximum_busy_hold_us < TransactionTimeout + MaxStall
  BY Instants DEF TickBusWait, TimedInv, Timed, StopwatchesOK, WaitsInTime, Age,
     BusyHoldBounded
<1>2. ~busy_claimed
  BY <1>1, ClaimedByState DEF TimedInv, OwnerStates
<1>3. /\ Dwell(BusWaitTimeout) \in Nat /\ Dwell(BackoffTime) \in Nat
      /\ MaximumAttempts \in Nat /\ MaxStall \in Nat
      /\ Dwell(0) \in Nat /\ MaxStall <= Dwell(0) /\ MaxStall <= Dwell(BackoffTime)
  BY DwellBounds, Cadence DEF Timeouts
<1>4. /\ Waited(attempts) \in Nat /\ Waited(MaximumAttempts) \in Nat
      /\ Waited(attempts + 1) = Waited(attempts) + Dwell(BusWaitTimeout) + Dwell(BackoffTime)
      /\ Waited(attempts + 1) <= Waited(MaximumAttempts)
  BY <1>1, <1>3, WaitedGrows
<1>5. inflight_us + Dwell(BackoffTime) <= Waited(attempts + 1)
  BY <1>1, <1>3, <1>4
<1>6. CASE /\ Transition("kBusyClaim")
           /\ MoveFrame /\ UNCHANGED <<busy, tx_enabled>>
  <2>1. /\ state' = "kBusyClaim" /\ Elapsed' = 0 /\ ~busy_claimed'
        /\ maximum_busy_hold_us' = maximum_busy_hold_us
    BY <1>2, <1>6, EnteredNow DEF Transition, MoveFrame, TickFrame, busy, counts, TimedInv
  <2>2. inflight_us' = inflight_us
    BY <2>1 DEF Watches, InFlight
  <2>3. Age(0)'
    BY <1>3, <2>1 DEF Age
  <2>4. Since(Waited(MaximumAttempts))'
    BY <1>3, <1>4, <1>5, <1>1, <2>1, <2>2 DEF Since
  <2>5. WaitsInTime'
    BY <2>1, <2>3, <2>4 DEF WaitsInTime, OwnerStates
  <2>6. QED
    BY <1>1, <2>1, <2>5, WaitTimed
<1>7. CASE RetryOrFault /\ TickFrame
  <2>1. CASE EnterFault("kContentionTimeout")
    BY <2>1, FaultTimed
  <2>2. CASE /\ attempts + 1 < MaximumAttempts /\ ForceSafe /\ Transition("kBackoff")
             /\ UNCHANGED maximum_busy_hold_us
    <3>1. /\ state' = "kBackoff" /\ Elapsed' = 0 /\ ~busy_claimed'
          /\ maximum_busy_hold_us' = maximum_busy_hold_us
          /\ attempts' = attempts + 1
      BY <1>7, <2>2, EnteredNow DEF Transition, TickFrame, ForceSafe, TimedInv, RetryOrFault
    <3>2. inflight_us' = inflight_us
      BY <3>1 DEF Watches, InFlight
    <3>3. Age(BackoffTime)'
      BY <1>3, <3>1 DEF Age
    <3>4. Waited(attempts') = Waited(attempts + 1) /\ Waited(attempts + 1) \in Nat
      BY <1>1, <3>1, WaitedGrows
    <3>5. inflight_us' + Dwell(BackoffTime) <= Waited(attempts') + Elapsed'
      BY <1>3, <1>4, <1>5, <1>1, <3>1, <3>2, <3>4
    <3>6. Since(Waited(attempts))'
      BY <3>5 DEF Since, Waited
    <3>7. WaitsInTime'
      BY <2>2, <3>1, <3>3, <3>6 DEF WaitsInTime, OwnerStates
    <3>8. QED
      BY <1>1, <3>1, <3>7, WaitTimed
  <2>3. QED
    BY <1>7, <2>1, <2>2 DEF RetryOrFault
<1>8. CASE Elapsed < BusWaitTimeout /\ UNCHANGED vars
  <2>1. /\ state' = state /\ Elapsed' = Elapsed /\ busy_claimed' = busy_claimed
        /\ maximum_busy_hold_us' = maximum_busy_hold_us /\ attempts' = attempts
    BY <1>8 DEF vars, busy, counts, Elapsed
  <2>2. inflight_us' = inflight_us
    BY <1>1, <2>1 DEF Watches, InFlight
  <2>3. Elapsed + MaxStall <= Dwell(BusWaitTimeout)
    BY <1>1, <1>3, <1>8, DwellBounds DEF Timeouts
  <2>4. Age(BusWaitTimeout)'
    BY <1>3, <2>1, <2>3 DEF Age
  <2>5. WaitsInTime'
    BY <1>1, <2>1, <2>2, <2>4 DEF WaitsInTime, OwnerStates, Waited
  <2>6. QED
    BY <1>1, <1>2, <2>1, <2>5, WaitTimed
<1>9. QED
  BY <1>6, <1>7, <1>8 DEF TickBusWait

LEMMA ClaimTimed ==
  ASSUME TimedInv, TickBusyClaim, Watches, unticked_us' = 0
  PROVE  Timed'
<1>1. /\ state = "kBusyClaim" /\ Elapsed \in Nat /\ unticked_us \in 0..MaxStall
      /\ inflight_us \in Nat
      /\ Elapsed + MaxStall <= Dwell(0) + unticked_us
      /\ inflight_us + Dwell(BackoffTime) <= Waited(MaximumAttempts) + Elapsed
      /\ maximum_busy_hold_us < TransactionTimeout + MaxStall
  BY Instants DEF TickBusyClaim, TimedInv, Timed, StopwatchesOK, WaitsInTime, Age, Since,
     BusyHoldBounded
<1>2. ~busy_claimed /\ held_us = 0
  BY <1>1, ClaimedByState DEF TimedInv, Timed, StopwatchesOK, OwnerStates
<1>3. /\ state' = "kClaimDelay" /\ now_us' = now_us /\ busy_claimed' = TRUE
      /\ busy_claimed_us' = now_us /\ maximum_busy_hold_us' = maximum_busy_hold_us
  BY DEF TickBusyClaim, Transition, MoveFrame, TickFrame, counts
<1>4. held_us' = 0 /\ inflight_us' = inflight_us
  BY <1>2, <1>3 DEF Watches, InFlight
<1>5. StopwatchesOK'
  BY <1>1, <1>3, <1>4, Cadence DEF StopwatchesOK, InFlight
<1>6. BusyHoldBounded'
  BY <1>1, <1>3, <1>4, Cadence, Instants DEF BusyHoldBounded, TimedInv
<1>7. inflight_us + Dwell(BackoffTime) <= Claimed
  <2>1. Dwell(0) = MaxStall /\ Dwell(BackoffTime) \in Nat /\ MaxStall \in Nat
        /\ Waited(MaximumAttempts) \in Nat
    BY DwellBounds, Cadence, WaitedGrows DEF Timeouts
  <2>2. QED
    BY <1>1, <2>1 DEF Claimed
<1>8. Claimed' = Claimed /\ Claimed \in Nat
  BY Cadence, WaitedGrows DEF Claimed
<1>9. inflight_us' + Dwell(BackoffTime) <= Claimed' + held_us'
  BY <1>4, <1>7, <1>8
<1>10. WaitsInTime'
  BY <1>3, <1>9 DEF WaitsInTime, OwnerStates
<1>11. QED
  BY <1>5, <1>6, <1>10 DEF Timed

LEMMA DrainTimed ==
  ASSUME TimedInv, ~Overdue, NEW tx_complete \in BOOLEAN, TickUartDrain(tx_complete),
         Watches, unticked_us' = 0
  PROVE  Timed'
<1>1. state = "kUartDrain"
  BY DEF TickUartDrain
<1>2. CASE /\ ReleaseBus
           /\ Transition(IF controlled_transaction /\ echo_complete
                           THEN "kResponseWait" ELSE "kEchoWait")
           /\ FaultFrame
  <2>1. /\ state' \in {"kResponseWait", "kEchoWait"} /\ Elapsed' = 0 /\ ~busy_claimed'
        /\ RecordBusyHold
    BY <1>2, EnteredNow
    DEF Transition, FaultFrame, TickFrame, ReleaseBus, ForceSafe, TimedInv
  <2>2. inflight_us' = inflight_us
    BY <2>1 DEF Watches, InFlight
  <2>3. /\ held_us < TransactionTimeout /\ held_us \in Nat /\ inflight_us \in Nat
        /\ inflight_us + Dwell(BackoffTime) <= Claimed + held_us
    <3>1. busy_claimed /\ state \in OwnerStates
      BY <1>1, ClaimedByState DEF TimedInv, OwnerStates
    <3>2. held_us = Delta(now_us, busy_claimed_us) /\ held_us \in Nat /\ inflight_us \in Nat
          /\ inflight_us + Dwell(BackoffTime) <= Claimed + held_us
      BY <3>1 DEF TimedInv, Timed, StopwatchesOK, BusyHoldBounded, WaitsInTime
    <3>3. QED
      BY <3>1, <3>2, Cadence DEF Overdue
  <2>4. /\ Claimed \in Nat /\ TransactionTimeout \in Nat \ {0}
        /\ Dwell(BackoffTime) \in Nat /\ Dwell(EchoTimeout) \in Nat
        /\ MaxStall <= Dwell(EchoTimeout) /\ MaxStall <= Dwell(ResponseTimeout)
        /\ Dwell(ResponseTimeout) \in Nat /\ MaxStall \in Nat
    BY DwellBounds, Cadence, WaitedGrows DEF Timeouts, Claimed
  <2>5. Released' = Released /\ Released = Claimed + (TransactionTimeout - 1)
    BY DEF Released, Claimed
  <2>6. /\ inflight_us' + Dwell(BackoffTime) <= Released' + Elapsed'
        /\ inflight_us' + Dwell(BackoffTime) <= (Released' + Dwell(EchoTimeout)) + Elapsed'
    BY <2>1, <2>2, <2>3, <2>4, <2>5
  <2>7. Age(EchoTimeout)' /\ Age(ResponseTimeout)'
    BY <2>1, <2>4 DEF Age
  <2>8. WaitsInTime'
    BY <2>1, <2>6, <2>7 DEF WaitsInTime, OwnerStates, Since
  <2>9. QED
    BY <2>1, <2>8, WaitTimed, RecordedHold
<1>3. CASE EnterFault("kUartDrainTimeout")
  BY <1>3, FaultTimed
<1>4. CASE UNCHANGED vars
  BY <1>1, <1>4, OwnerTimed DEF vars, counts, OwnerStates
<1>5. QED
  BY <1>2, <1>3, <1>4 DEF TickUartDrain

\* A packet is completed where BUSY is not held.
LEMMA CompleteTimed ==
  ASSUME TimedInv, state \in {"kEchoWait", "kResponseWait"}, CompletePacket,
         UNCHANGED <<busy, maximum_busy_hold_us>>, Watches, unticked_us' = 0
  PROVE  Timed'
<1>1. ~busy_claimed'
  BY ClaimedByState DEF TimedInv, OwnerStates, busy
<1>2. state' = "kIdle" /\ maximum_busy_hold_us' < TransactionTimeout + MaxStall
  BY DEF CompletePacket, Transition, TimedInv, Timed, BusyHoldBounded
<1>3. unticked_us' \in 0..MaxStall
  BY Cadence
<1>4. QED
  BY <1>1, <1>2, <1>3, TimedRest

LEMMA EchoTimed ==
  ASSUME TimedInv, TickEchoWait, Watches, unticked_us' = 0
  PROVE  Timed'
<1>1. /\ state = "kEchoWait" /\ Elapsed \in Nat /\ unticked_us \in 0..MaxStall
      /\ inflight_us \in Nat
      /\ Elapsed + MaxStall <= Dwell(EchoTimeout) + unticked_us
      /\ inflight_us + Dwell(BackoffTime) <= Released + Elapsed
      /\ maximum_busy_hold_us < TransactionTimeout + MaxStall
  BY Instants DEF TickEchoWait, TimedInv, Timed, StopwatchesOK, WaitsInTime, Age, Since,
     BusyHoldBounded
<1>2. ~busy_claimed
  BY <1>1, ClaimedByState DEF TimedInv, OwnerStates
<1>3. /\ Released \in Nat /\ Dwell(BackoffTime) \in Nat /\ MaxStall \in Nat
      /\ Dwell(EchoTimeout) \in Nat /\ Dwell(ResponseTimeout) \in Nat
      /\ MaxStall <= Dwell(ResponseTimeout)
  BY DwellBounds, Cadence, WaitedGrows DEF Timeouts, Released, Claimed
<1>4. Released' = Released
  BY DEF Released, Claimed
<1>5. CASE /\ Transition("kResponseWait")
           /\ MoveFrame /\ UNCHANGED <<busy, tx_enabled>>
  <2>1. /\ state' = "kResponseWait" /\ Elapsed' = 0 /\ ~busy_claimed'
        /\ maximum_busy_hold_us' = maximum_busy_hold_us
    BY <1>2, <1>5, EnteredNow DEF Transition, MoveFrame, TickFrame, busy, counts, TimedInv
  <2>2. inflight_us' = inflight_us
    BY <2>1 DEF Watches, InFlight
  <2>3. Age(ResponseTimeout)'
    BY <1>3, <2>1 DEF Age
  <2>4. inflight_us' + Dwell(BackoffTime) <= (Released' + Dwell(EchoTimeout)) + Elapsed'
    BY <1>1, <1>3, <1>4, <2>1, <2>2
  <2>5. WaitsInTime'
    BY <2>1, <2>3, <2>4 DEF WaitsInTime, OwnerStates, Since
  <2>6. QED
    BY <1>1, <2>1, <2>5, WaitTimed
<1>6. CASE CompletePacket /\ UNCHANGED <<busy, maximum_busy_hold_us>>
  BY <1>1, <1>6, CompleteTimed
<1>7. CASE EnterFault("kEchoTimeout")
  BY <1>7, FaultTimed
<1>8. CASE Elapsed < EchoTimeout /\ UNCHANGED vars
  <2>1. /\ state' = state /\ Elapsed' = Elapsed /\ busy_claimed' = busy_claimed
        /\ maximum_busy_hold_us' = maximum_busy_hold_us
    BY <1>8 DEF vars, busy, counts, Elapsed
  <2>2. inflight_us' = inflight_us
    BY <1>1, <2>1 DEF Watches, InFlight
  <2>3. Elapsed + MaxStall <= Dwell(EchoTimeout)
    BY <1>1, <1>3, <1>8, DwellBounds DEF Timeouts
  <2>4. Age(EchoTimeout)'
    BY <1>3, <2>1, <2>3 DEF Age
  <2>5. WaitsInTime'
    BY <1>1, <1>4, <2>1, <2>2, <2>4 DEF WaitsInTime, OwnerStates, Since
  <2>6. QED
    BY <1>1, <1>2, <2>1, <2>5, WaitTimed
<1>9. QED
  BY <1>5, <1>6, <1>7, <1>8 DEF TickEchoWait

LEMMA ResponseTimed ==
  ASSUME TimedInv, TickResponseWait, Watches, unticked_us' = 0
  PROVE  Timed'
<1>1. /\ state = "kResponseWait" /\ Elapsed \in Nat /\ inflight_us \in Nat
      /\ inflight_us + Dwell(BackoffTime) <= (Released + Dwell(EchoTimeout)) + Elapsed
      /\ maximum_busy_hold_us < TransactionTimeout + MaxStall
  BY Instants DEF TickResponseWait, TimedInv, Timed, StopwatchesOK, WaitsInTime, Since,
     BusyHoldBounded
<1>2. ~busy_claimed
  BY <1>1, ClaimedByState DEF TimedInv, OwnerStates
<1>3. CASE CompletePacket /\ UNCHANGED <<busy, maximum_busy_hold_us>>
  BY <1>1, <1>3, CompleteTimed
<1>4. CASE EnterFault("kResponseTimeout")
  BY <1>4, FaultTimed
<1>5. CASE Elapsed < ResponseTimeout /\ UNCHANGED vars
  <2>1. /\ state' = state /\ Elapsed' = Elapsed /\ busy_claimed' = busy_claimed
        /\ maximum_busy_hold_us' = maximum_busy_hold_us /\ Released' = Released
    BY <1>5 DEF vars, busy, counts, Elapsed, Released, Claimed
  <2>2. inflight_us' = inflight_us
    BY <1>1, <2>1 DEF Watches, InFlight
  <2>3. Elapsed + MaxStall <= Dwell(ResponseTimeout) /\ Dwell(ResponseTimeout) \in Nat
    <3>1. /\ ResponseTimeout \in Nat /\ Dwell(ResponseTimeout) \in Nat /\ MaxStall \in Nat
          /\ Dwell(ResponseTimeout)
               = IF ResponseTimeout = 0 THEN MaxStall ELSE MaxStall + ResponseTimeout - 1
      BY DwellBounds, Cadence DEF Timeouts
    <3>2. QED
      BY <1>1, <1>5, <3>1
  <2>4. Age(ResponseTimeout)'
    BY <2>1, <2>3 DEF Age
  <2>5. WaitsInTime'
    BY <1>1, <2>1, <2>2, <2>4 DEF WaitsInTime, OwnerStates, Since
  <2>6. QED
    BY <1>1, <1>2, <2>1, <2>5, WaitTimed
<1>6. QED
  BY <1>3, <1>4, <1>5 DEF TickResponseWait

LEMMA BackoffTimed ==
  ASSUME TimedInv, TickBackoff, Watches, unticked_us' = 0
  PROVE  Timed'
<1>1. /\ state = "kBackoff" /\ attempts \in Nat /\ attempts < MaximumAttempts
      /\ Elapsed \in Nat /\ unticked_us \in 0..MaxStall /\ inflight_us \in Nat
      /\ Elapsed + MaxStall <= Dwell(BackoffTime) + unticked_us
      /\ inflight_us + Dwell(BackoffTime) <= Waited(attempts) + Elapsed
      /\ maximum_busy_hold_us < TransactionTimeout + MaxStall
  BY Instants DEF TickBackoff, TimedInv, Timed, StopwatchesOK, WaitsInTime, Age, Since,
     BusyHoldBounded
<1>2. ~busy_claimed
  BY <1>1, ClaimedByState DEF TimedInv, OwnerStates
<1>3. /\ Waited(attempts) \in Nat /\ Dwell(BackoffTime) \in Nat /\ MaxStall \in Nat
      /\ Dwell(BusWaitTimeout) \in Nat /\ MaxStall <= Dwell(BusWaitTimeout)
  BY <1>1, DwellBounds, Cadence, WaitedGrows DEF Timeouts
<1>4. CASE /\ Transition("kBusWait")
           /\ MoveFrame /\ UNCHANGED <<busy, tx_enabled>>
  <2>1. /\ state' = "kBusWait" /\ Elapsed' = 0 /\ ~busy_claimed' /\ attempts' = attempts
        /\ maximum_busy_hold_us' = maximum_busy_hold_us
    BY <1>2, <1>4, EnteredNow DEF Transition, MoveFrame, TickFrame, busy, counts, TimedInv
  <2>2. inflight_us' = inflight_us
    BY <2>1 DEF Watches, InFlight
  <2>3. Age(BusWaitTimeout)'
    BY <1>3, <2>1 DEF Age
  <2>4. inflight_us' <= Waited(attempts') + Elapsed'
    BY <1>1, <1>3, <2>1, <2>2
  <2>5. WaitsInTime'
    BY <1>1, <2>1, <2>3, <2>4 DEF WaitsInTime, OwnerStates, Waited
  <2>6. QED
    BY <1>1, <2>1, <2>5, WaitTimed
<1>5. CASE Elapsed < BackoffTime /\ UNCHANGED vars
  <2>1. /\ state' = state /\ Elapsed' = Elapsed /\ busy_claimed' = busy_claimed
        /\ maximum_busy_hold_us' = maximum_busy_hold_us /\ attempts' = attempts
    BY <1>5 DEF vars, busy, counts, Elapsed
  <2>2. inflight_us' = inflight_us
    BY <1>1, <2>1 DEF Watches, InFlight
  <2>3. Elapsed + MaxStall <= Dwell(BackoffTime)
    BY <1>1, <1>3, <1>5, DwellBounds DEF Timeouts
  <2>4. Age(BackoffTime)'
    BY <1>3, <2>1, <2>3 DEF Age
  <2>5. WaitsInTime'
    BY <1>1, <2>1, <2>2, <2>4 DEF WaitsInTime, OwnerStates, Since, Waited
  <2>6. QED
    BY <1>1, <1>2, <2>1, <2>5, WaitTimed
<1>6. QED
  BY <1>4, <1>5 DEF TickBackoff

----------------------------------------------------------------------------
(* The steps *)

LEMMA TickTimed ==
  ASSUME TimedInv, NEW bus_busy \in BOOLEAN, NEW all_written \in BOOLEAN,
         NEW tx_complete \in BOOLEAN, TimedTick(bus_busy, all_written, tx_complete)
  PROVE  Timed'
<1>1. Tick(bus_busy, all_written, tx_complete) /\ unticked_us' = 0 /\ Watches
  BY DEF TimedTick
<1>2. CASE TickOverdue
  BY <1>1, <1>2, FaultTimed DEF TickOverdue
<1>3. CASE TickAtRest
  <2>1. ~busy_claimed
    BY <1>3, ClaimedByState DEF TickAtRest, TimedInv, OwnerStates
  <2>2. /\ state' \in {"kIdle", "kFault"} /\ ~busy_claimed'
        /\ maximum_busy_hold_us' < TransactionTimeout + MaxStall
    BY <1>3, <2>1 DEF TickAtRest, vars, busy, counts, TimedInv, Timed, BusyHoldBounded
  <2>3. QED
    BY <1>1, <2>2, Cadence, TimedRest
<1>4. CASE ~Overdue /\ TickClaimDelay
  <2>1. state = "kClaimDelay" /\ state' \in {"kClaimDelay", "kTxEnable"} /\ now_us' = now_us
        /\ UNCHANGED busy /\ UNCHANGED maximum_busy_hold_us
    BY <1>4 DEF TickClaimDelay, Transition, MoveFrame, TickFrame, vars, counts
  <2>2. QED
    BY <1>1, <1>4, <2>1, OwnerTimed DEF OwnerStates
<1>5. CASE ~Overdue /\ TickTxEnable
  <2>1. state = "kTxEnable" /\ state' = "kWrite" /\ now_us' = now_us
        /\ UNCHANGED busy /\ UNCHANGED maximum_busy_hold_us
    BY <1>5 DEF TickTxEnable, Transition, MoveFrame, TickFrame, counts
  <2>2. QED
    BY <1>1, <1>5, <2>1, OwnerTimed DEF OwnerStates
<1>6. CASE ~Overdue /\ TickWrite(all_written)
  <2>1. CASE EnterFault("kWriteFailure")
    BY <1>1, <2>1, FaultTimed
  <2>2. CASE Transition("kUartDrain") /\ UNCHANGED <<busy, counts>>
    <3>1. state = "kWrite" /\ state' = "kUartDrain" /\ now_us' = now_us
          /\ UNCHANGED busy /\ UNCHANGED maximum_busy_hold_us
      BY <1>6, <2>2 DEF TickWrite, Transition, TickFrame, counts
    <3>2. QED
      BY <1>1, <1>6, <3>1, OwnerTimed DEF OwnerStates
  <2>3. QED
    BY <1>6, <2>1, <2>2 DEF TickWrite
<1>7. CASE ~Overdue /\ TickUartDrain(tx_complete)
  BY <1>1, <1>7, DrainTimed
<1>8. QED
  BY <1>1, <1>2, <1>3, <1>4, <1>5, <1>6, <1>7, BusWaitTimed, ClaimTimed, EchoTimed,
     ResponseTimed, BackoffTimed DEF Tick, TickState

LEMMA StartTimed ==
  ASSUME TimedInv, NEW p \in Packets, NEW mode \in OperatingMode,
         NEW auth \in AuxTxAuthorization, Start(p, mode, auth),
         unticked_us' = unticked_us, Watches
  PROVE  Timed'
<1>1. CASE RefuseStart(Refusal(p, mode, auth))
  BY <1>1, TimedStill DEF RefuseStart, busy
<1>2. CASE Refusal(p, mode, auth) = "none" /\ AcceptStart(p, Controlled(mode, auth))
  <2>1. state = "kIdle"
    BY <1>2 DEF Refusal
  <2>2. /\ ~busy_claimed /\ inflight_us = 0 /\ unticked_us \in 0..MaxStall
        /\ maximum_busy_hold_us < TransactionTimeout + MaxStall
    BY <2>1, ClaimedByState
    DEF TimedInv, Timed, StopwatchesOK, BusyHoldBounded, InFlight, OwnerStates
  <2>3. /\ state' = "kBusWait" /\ Elapsed' = 0 /\ ~busy_claimed' /\ attempts' = 0
        /\ maximum_busy_hold_us' = maximum_busy_hold_us
    BY <1>2, <2>2, EnteredNow DEF AcceptStart, Transition, busy, TimedInv
  <2>4. inflight_us' = 0 /\ held_us' = 0
    BY <2>2, <2>3 DEF Watches, InFlight
  <2>5. StopwatchesOK' /\ BusyHoldBounded'
    BY <2>2, <2>3, <2>4 DEF StopwatchesOK, BusyHoldBounded
  <2>6. Age(BusWaitTimeout)'
    <3>1. /\ Dwell(BusWaitTimeout) \in Nat /\ MaxStall \in Nat
          /\ MaxStall <= Dwell(BusWaitTimeout)
      BY DwellBounds, Cadence DEF Timeouts
    <3>2. QED
      BY <2>2, <2>3, <3>1 DEF Age
  <2>7. inflight_us' <= Waited(attempts') + Elapsed'
    <3>1. Waited(0) \in Nat
      BY WaitedGrows
    <3>2. QED
      BY <2>3, <2>4, <3>1
  <2>8. WaitsInTime'
    BY <2>3, <2>6, <2>7, Cadence DEF WaitsInTime, OwnerStates, Waited
  <2>9. QED
    BY <2>5, <2>8 DEF Timed
<1>3. QED
  BY <1>1, <1>2 DEF Start

LEMMA CallTimed ==
  ASSUME TimedInv, TimedCall
  PROVE  Timed'
<1>1. unticked_us' = unticked_us /\ Watches
  BY DEF TimedCall
<1>2. ASSUME NEW p \in Packets, NEW mode \in OperatingMode,
             NEW auth \in AuxTxAuthorization, Start(p, mode, auth)
      PROVE  Timed'
  BY <1>1, <1>2, StartTimed
<1>3. CASE NotifyEchoComplete
  BY <1>1, <1>3, TimedStill DEF NotifyEchoComplete, busy, counts
<1>4. ASSUME NEW r \in Packets, NotifyResponse(r)
      PROVE  Timed'
  BY <1>1, <1>4, TimedStill DEF NotifyResponse, busy, counts
<1>5. CASE Recover
  <2>1. /\ state' = "kIdle" /\ ~busy_claimed' /\ unticked_us' \in 0..MaxStall
        /\ maximum_busy_hold_us' < TransactionTimeout + MaxStall
    BY <1>1, <1>5 DEF Recover, ForceSafe, TimedInv, Timed, StopwatchesOK, BusyHoldBounded
  <2>2. QED
    BY <1>1, <2>1, TimedRest
<1>6. QED
  BY <1>2, <1>3, <1>4, <1>5 DEF TimedCall

\* Every stopwatch and every age grow together, short of the clock.
LEMMA ElapseTimed ==
  ASSUME TimedInv, TimedElapse
  PROVE  Timed'
<1>1. /\ unticked_us < MaxStall /\ unticked_us' = unticked_us + 1 /\ now_us' = Later(1)
      /\ state' = state /\ state_entered_us' = state_entered_us /\ attempts' = attempts
      /\ busy_claimed' = busy_claimed /\ busy_claimed_us' = busy_claimed_us
      /\ maximum_busy_hold_us' = maximum_busy_hold_us
      /\ held_us' = (IF busy_claimed THEN held_us + 1 ELSE 0)
      /\ inflight_us' = (IF InFlight THEN inflight_us + 1 ELSE 0)
  BY DEF TimedElapse, Elapse, busy, counts
<1>2. /\ unticked_us \in 0..MaxStall /\ held_us \in Nat /\ inflight_us \in Nat
      /\ maximum_busy_hold_us < TransactionTimeout + MaxStall
      /\ Elapsed \in Nat /\ MaxStall \in Nat /\ TransactionTimeout \in Nat
      /\ ClockMod \in Nat
  BY Cadence, Instants DEF TimedInv, Timed, StopwatchesOK, BusyHoldBounded
<1>3. InFlight' = InFlight /\ Waited(attempts') = Waited(attempts)
      /\ Claimed' = Claimed /\ Released' = Released
  BY <1>1 DEF InFlight, Claimed, Released
<1>4. StopwatchesOK'
  BY <1>1, <1>2, <1>3 DEF StopwatchesOK
<1>5. BusyHoldBounded'
  <2>1. ASSUME busy_claimed
        PROVE  /\ held_us' < TransactionTimeout + unticked_us'
               /\ held_us' = Delta(now_us', busy_claimed_us')
    <3>1. held_us < TransactionTimeout + unticked_us
          /\ held_us = Delta(now_us, busy_claimed_us)
      BY <2>1 DEF TimedInv, Timed, BusyHoldBounded
    <3>2. Delta(now_us, busy_claimed_us) + 1 < ClockMod
      BY <1>1, <1>2, <3>1, Cadence
    <3>3. Delta(Later(1), busy_claimed_us) = held_us + 1
      BY <3>1, <3>2, DeltaGrows, Instants DEF TimedInv
    <3>4. held_us' = held_us + 1
      BY <1>1, <2>1
    <3>5. QED
      BY <1>1, <1>2, <3>1, <3>3, <3>4
  <2>2. QED
    BY <1>1, <1>2, <2>1 DEF BusyHoldBounded
<1>6. ASSUME NEW timeout \in Timeouts, Age(timeout)
      PROVE  Age(timeout)' /\ Elapsed' = Elapsed + 1
  <2>1. Elapsed + MaxStall <= Dwell(timeout) + unticked_us
    BY <1>6 DEF Age
  <2>2. Dwell(timeout) \in Nat /\ Dwell(timeout) < ClockMod
    BY DwellBounds
  <2>3. Elapsed + 1 < ClockMod
    BY <1>1, <1>2, <2>1, <2>2
  <2>4. Delta(now_us, state_entered_us) = Elapsed
    BY DEF Elapsed
  <2>5. Elapsed' = Delta(Later(1), state_entered_us)
    BY <1>1 DEF Elapsed
  <2>6. Elapsed' = Elapsed + 1
    BY <2>3, <2>4, <2>5, DeltaGrows, Instants DEF TimedInv
  <2>7. QED
    BY <1>1, <1>2, <2>1, <2>2, <2>6 DEF Age
<1>7. InFlight => inflight_us' = inflight_us + 1
  BY <1>1
<1>8. /\ Dwell(BackoffTime) \in Nat /\ Claimed \in Nat /\ Released \in Nat
      /\ Dwell(EchoTimeout) \in Nat /\ Waited(MaximumAttempts) \in Nat
      /\ Waited(attempts) \in Nat
  BY DwellBounds, Cadence, WaitedGrows, Instants DEF Timeouts, Released, Claimed, TimedInv
<1>9. ASSUME NEW start \in Nat, Since(start), Elapsed' = Elapsed + 1, InFlight
      PROVE  inflight_us' + Dwell(BackoffTime) <= start + Elapsed'
  BY <1>2, <1>7, <1>8, <1>9 DEF Since
<1>10. WaitsInTime'
  <2>1. CASE state = "kBusWait"
    <3>1. /\ attempts < MaximumAttempts /\ Age(BusWaitTimeout) /\ InFlight
          /\ inflight_us <= Waited(attempts) + Elapsed
      BY <2>1 DEF TimedInv, Timed, WaitsInTime, InFlight
    <3>2. Age(BusWaitTimeout)' /\ Elapsed' = Elapsed + 1
      BY <1>6, <3>1 DEF Timeouts
    <3>3. inflight_us' <= Waited(attempts') + Elapsed'
      BY <1>2, <1>3, <1>7, <1>8, <3>1, <3>2
    <3>4. QED
      BY <1>1, <2>1, <3>1, <3>2, <3>3 DEF WaitsInTime, OwnerStates, Waited
  <2>2. CASE state = "kBackoff"
    <3>1. /\ attempts < MaximumAttempts /\ Age(BackoffTime) /\ InFlight
          /\ Since(Waited(attempts))
      BY <2>2 DEF TimedInv, Timed, WaitsInTime, InFlight
    <3>2. Age(BackoffTime)' /\ Elapsed' = Elapsed + 1
      BY <1>6, <3>1 DEF Timeouts
    <3>3. inflight_us' + Dwell(BackoffTime) <= Waited(attempts') + Elapsed'
      BY <1>3, <1>8, <1>9, <3>1, <3>2
    <3>4. QED
      BY <1>1, <2>2, <3>1, <3>2, <3>3 DEF WaitsInTime, OwnerStates, Waited, Since
  <2>3. CASE state = "kBusyClaim"
    <3>1. Age(0) /\ InFlight /\ Since(Waited(MaximumAttempts))
      BY <2>3 DEF TimedInv, Timed, WaitsInTime, InFlight
    <3>2. Age(0)' /\ Elapsed' = Elapsed + 1
      BY <1>6, <3>1 DEF Timeouts
    <3>3. inflight_us' + Dwell(BackoffTime) <= Waited(MaximumAttempts) + Elapsed'
      BY <1>8, <1>9, <3>1, <3>2
    <3>4. QED
      BY <1>1, <2>3, <3>2, <3>3 DEF WaitsInTime, OwnerStates, Since
  <2>4. CASE state \in OwnerStates
    <3>1. inflight_us + Dwell(BackoffTime) <= Claimed + held_us /\ InFlight /\ busy_claimed
      BY <2>4, ClaimedByState
      DEF TimedInv, Timed, WaitsInTime, InFlight, OwnerStates
    <3>2. inflight_us' + Dwell(BackoffTime) <= Claimed' + held_us'
      BY <1>1, <1>2, <1>3, <1>7, <1>8, <3>1
    <3>3. QED
      BY <1>1, <2>4, <3>2 DEF WaitsInTime, OwnerStates
  <2>5. CASE state = "kEchoWait"
    <3>1. Age(EchoTimeout) /\ InFlight /\ Since(Released)
      BY <2>5 DEF TimedInv, Timed, WaitsInTime, InFlight
    <3>2. Age(EchoTimeout)' /\ Elapsed' = Elapsed + 1
      BY <1>6, <3>1 DEF Timeouts
    <3>3. inflight_us' + Dwell(BackoffTime) <= Released' + Elapsed'
      BY <1>3, <1>8, <1>9, <3>1, <3>2
    <3>4. QED
      BY <1>1, <2>5, <3>2, <3>3 DEF WaitsInTime, OwnerStates, Since
  <2>6. CASE state = "kResponseWait"
    <3>1. Age(ResponseTimeout) /\ InFlight /\ Since(Released + Dwell(EchoTimeout))
      BY <2>6 DEF TimedInv, Timed, WaitsInTime, InFlight
    <3>2. Age(ResponseTimeout)' /\ Elapsed' = Elapsed + 1
      BY <1>6, <3>1 DEF Timeouts
    <3>3. inflight_us' + Dwell(BackoffTime) <= (Released' + Dwell(EchoTimeout)) + Elapsed'
      BY <1>3, <1>8, <1>9, <3>1, <3>2
    <3>4. QED
      BY <1>1, <2>6, <3>2, <3>3 DEF WaitsInTime, OwnerStates, Since
  <2>7. CASE state \in {"kIdle", "kFault"}
    BY <1>1, <2>7 DEF WaitsInTime, OwnerStates
  <2>8. QED
    BY <2>1, <2>2, <2>3, <2>4, <2>5, <2>6, <2>7, Instants
    DEF TimedInv, AuxTxState, OwnerStates
<1>11. QED
  BY <1>4, <1>5, <1>10 DEF Timed

LEMMA TimedInvInit == TimedInit => TimedInv
<1> SUFFICES ASSUME TimedInit PROVE TimedInv
  OBVIOUS
<1>1. IInv
  BY IInvInit DEF TimedInit
<1>2. Timed
  BY Cadence DEF TimedInit, Init, Timed, StopwatchesOK, BusyHoldBounded, WaitsInTime,
     InFlight, OwnerStates
<1>3. QED
  BY <1>1, <1>2 DEF TimedInv

LEMMA TimedInvStep == TimedInv /\ [TimedNext]_timedVars => TimedInv'
<1> SUFFICES ASSUME TimedInv, [TimedNext]_timedVars PROVE TimedInv'
  OBVIOUS
<1>1. ASSUME NEW bus_busy \in BOOLEAN, NEW all_written \in BOOLEAN,
             NEW tx_complete \in BOOLEAN, TimedTick(bus_busy, all_written, tx_complete)
      PROVE  TimedInv'
  BY <1>1, TickTimed, IInvTick DEF TimedTick, TimedInv
<1>2. CASE TimedCall
  <2>1. Timed'
    BY <1>2, CallTimed
  <2>2. IInv'
    BY <1>2, IInvStart, IInvEcho, IInvResponse, IInvRecover DEF TimedCall, TimedInv
  <2>3. QED
    BY <2>1, <2>2 DEF TimedInv
<1>3. CASE TimedElapse
  <2>1. Timed'
    BY <1>3, ElapseTimed
  <2>2. 1 \in 0..ClockMod
    BY Cadence
  <2>3. IInv'
    BY <1>3, <2>2, IInvElapse DEF TimedElapse, TimedInv
  <2>4. QED
    BY <2>1, <2>3 DEF TimedInv
<1>4. CASE UNCHANGED timedVars
  <2>1. IInv'
    BY <1>4, IInvStutter DEF timedVars, TimedInv
  <2>2. /\ UNCHANGED <<now_us, state, state_entered_us, attempts, busy_claimed,
                       busy_claimed_us, maximum_busy_hold_us>>
        /\ UNCHANGED <<unticked_us, held_us, inflight_us>>
    BY <1>4 DEF timedVars, vars, busy, counts
  <2>3. Watches
    BY <2>2 DEF Watches, InFlight, TimedInv, Timed, StopwatchesOK
  <2>4. Timed'
    BY <2>2, <2>3, TimedStill
  <2>5. QED
    BY <2>1, <2>4 DEF TimedInv
<1>5. QED
  BY <1>1, <1>2, <1>3, <1>4 DEF TimedNext

LEMMA TimedInvariance == TimedSpec => []TimedInv
BY TimedInvInit, TimedInvStep, PTL DEF TimedSpec

\* BUSY is never held past the transaction timeout and the stall that hides its
\* expiry (AuxTransmitter::tick and Delta): no wrap of the clock makes the
\* deadline late, and no longer hold is ever reported.
THEOREM BusyReleasedInTime == TimedSpec => []BusyHoldBounded
<1>1. TimedInv => BusyHoldBounded
  BY DEF TimedInv, Timed
<1>2. QED
  BY <1>1, TimedInvariance, PTL

\* Every packet start() accepts is completed or faulted within the sum of its
\* waits, whatever the bus, the UART and the responder do.
THEOREM TransmitterNeverHangs == TimedSpec => []ResolvedInTime
<1>1. ASSUME TimedInv
      PROVE  ResolvedInTime
  <2> DEFINE bw == Dwell(BusWaitTimeout)
             bo == Dwell(BackoffTime)
             e  == Dwell(EchoTimeout)
             r  == Dwell(ResponseTimeout)
             n  == MaximumAttempts
             total == n * bw + (n - 1) * bo
  <2>1. /\ bw \in Nat /\ bo \in Nat /\ e \in Nat /\ r \in Nat /\ n \in Nat \ {0}
        /\ MaxStall \in Nat \ {0} /\ MaxStall <= bw /\ MaxStall <= bo
        /\ MaxStall <= e /\ MaxStall <= r
        /\ Dwell(0) = MaxStall /\ TransactionTimeout \in Nat \ {0}
    BY DwellBounds, Cadence DEF Timeouts
  <2>2. Waited(n) = n * (bw + bo)
    BY DEF Waited
  <2>3. /\ attempts \in Nat /\ Elapsed \in Nat /\ state \in AuxTxState
        /\ unticked_us \in 0..MaxStall /\ inflight_us \in Nat /\ held_us \in Nat
    BY <1>1, Instants DEF TimedInv, Timed, StopwatchesOK
  <2>4. attempts < n => /\ Waited(attempts) \in Nat
                        /\ Waited(attempts) + bw + bo <= Waited(n)
    <3>1. attempts < n => attempts + 1 \in Nat /\ attempts + 1 <= n
      BY <2>1, <2>3
    <3>2. QED
      BY <2>1, <2>3, <3>1, WaitedGrows
  <2>5. ASSUME NEW timeout \in Timeouts, Age(timeout)
        PROVE  Elapsed <= Dwell(timeout)
    <3>1. Dwell(timeout) \in Nat
      BY DwellBounds
    <3>2. QED
      BY <2>1, <2>3, <2>5, <3>1 DEF Age
  <2>6. Waited(n) \in Nat
    BY <2>1, WaitedGrows
  <2> HIDE DEF bw, bo, e, r, n
  <2>7. total + bo = Waited(n) /\ total \in Int
    <3>1. ASSUME NEW k \in Int, NEW x \in Int, NEW y \in Int
          PROVE  /\ k * (x + y) = k * x + k * y
                 /\ (k - 1) * y = k * y - y
                 /\ k * x \in Int /\ k * y \in Int
      OBVIOUS
    <3>2. QED
      BY <2>1, <2>2, <3>1
  <2> HIDE DEF total
  <2>8. inflight_us <= total + MaxStall + (TransactionTimeout - 1) + e + r
    <3>1. CASE state = "kBusWait"
      <4>1. /\ attempts < n /\ Elapsed <= bw
            /\ inflight_us <= Waited(attempts) + Elapsed
        BY <1>1, <2>5, <3>1 DEF TimedInv, Timed, WaitsInTime, Timeouts, n, bw
      <4>2. QED
        BY <2>1, <2>3, <2>4, <2>6, <2>7, <4>1
    <3>2. CASE state = "kBackoff"
      <4>1. /\ attempts < n /\ Elapsed <= bo
            /\ inflight_us + bo <= Waited(attempts) + Elapsed
        BY <1>1, <2>5, <3>2 DEF TimedInv, Timed, WaitsInTime, Timeouts, Since, n, bo
      <4>2. QED
        BY <2>1, <2>3, <2>4, <2>6, <2>7, <4>1
    <3>3. CASE state = "kBusyClaim"
      <4>1. Elapsed <= MaxStall /\ inflight_us + bo <= Waited(n) + Elapsed
        BY <1>1, <2>1, <2>5, <3>3 DEF TimedInv, Timed, WaitsInTime, Timeouts, Since, n, bo
      <4>2. QED
        BY <2>1, <2>3, <2>6, <2>7, <4>1
    <3>4. CASE state \in OwnerStates
      <4>1. busy_claimed
        BY <1>1, <3>4, ClaimedByState DEF TimedInv
      <4>2. /\ held_us < TransactionTimeout + unticked_us
            /\ inflight_us + bo <= Waited(n) + MaxStall + held_us
        BY <1>1, <3>4, <4>1 DEF TimedInv, Timed, WaitsInTime, BusyHoldBounded, Claimed, n, bo
      <4>3. QED
        BY <2>1, <2>3, <2>6, <2>7, <4>2
    <3>5. CASE state = "kEchoWait"
      <4>1. /\ Elapsed <= e
            /\ inflight_us + bo <= Waited(n) + MaxStall + (TransactionTimeout - 1) + Elapsed
        BY <1>1, <2>5, <3>5
        DEF TimedInv, Timed, WaitsInTime, Timeouts, Since, Released, Claimed, n, bo, e
      <4>2. QED
        BY <2>1, <2>3, <2>6, <2>7, <4>1
    <3>6. CASE state = "kResponseWait"
      <4>1. /\ Elapsed <= r
            /\ inflight_us + bo
                 <= Waited(n) + MaxStall + (TransactionTimeout - 1) + e + Elapsed
        BY <1>1, <2>5, <3>6
        DEF TimedInv, Timed, WaitsInTime, Timeouts, Since, Released, Claimed, n, bo, e, r
      <4>2. QED
        BY <2>1, <2>3, <2>6, <2>7, <4>1
    <3>7. CASE state \in {"kIdle", "kFault"}
      <4>1. inflight_us = 0
        BY <1>1, <3>7 DEF TimedInv, Timed, StopwatchesOK, InFlight
      <4>2. total >= 0
        <5>1. Waited(n) >= bo
          <6>1. Waited(0) \in Nat /\ Waited(0 + 1) = Waited(0) + bw + bo
            BY WaitedGrows DEF bw, bo
          <6>2. Waited(1) <= Waited(n)
            BY <2>1, WaitedGrows DEF n
          <6>3. QED
            BY <2>1, <2>6, <6>1, <6>2
        <5>2. QED
          BY <2>1, <2>6, <2>7, <5>1
      <4>3. QED
        BY <2>1, <2>7, <4>1, <4>2
    <3>8. QED
      BY <2>3, <3>1, <3>2, <3>3, <3>4, <3>5, <3>6, <3>7 DEF AuxTxState, OwnerStates
  <2>9. QED
    BY <2>1, <2>8 DEF ResolvedInTime, total, bw, bo, e, r, n
<1>2. QED
  BY <1>1, TimedInvariance, PTL
================================================================================

----------------------------- MODULE AuxTransmitter -----------------------------
(***************************************************************************)
(* include/aux_transmitter.hpp: the state machine that alone may drive the *)
(* AUX bus.  Its owner calls start, tick, notifyEchoComplete,              *)
(* notifyResponse and recover in any order and at any time; the pins and   *)
(* the UART (class AuxTxIo) answer tick's questions as they like.  The     *)
(* clock is the 32-bit microsecond counter, here ClockMod ticks long, and  *)
(* it wraps.  Variables have the names of the C++ members.                 *)
(***************************************************************************)
EXTENDS AuxProtocol

CONSTANTS Packets,           \* the packets start and notifyResponse are given
          ClockMod,          \* number of values of the clock (2^32)
          ClaimDelay,        \* timing_.claim_delay_us
          BusWaitTimeout,    \* timing_.bus_wait_timeout_us
          UartDrainTimeout,  \* timing_.uart_drain_timeout_us
          EchoTimeout,       \* timing_.echo_timeout_us
          ResponseTimeout,   \* timing_.response_timeout_us
          TransactionTimeout,\* timing_.transaction_timeout_us
          BackoffTime,       \* timing_.backoff_us
          MaximumAttempts,   \* timing_.maximum_attempts
          MaxElapse,         \* bound: the longest gap between two calls
          MaxStarts,         \* bound: how often start is called
          MaxRecoveries      \* bound: how often recover is called

ASSUME TransmitterAssumption ==
  /\ Packets \subseteq AuxPacket
  /\ ClockMod \in Nat \ {0}
  /\ {ClaimDelay, BusWaitTimeout, UartDrainTimeout, EchoTimeout,
      ResponseTimeout, TransactionTimeout, BackoffTime} \subseteq 0..(ClockMod - 1)
  /\ MaximumAttempts \in Nat
  /\ MaxElapse \in 0..(ClockMod - 1)
  /\ MaxStarts \in Nat
  /\ MaxRecoveries \in Nat

VARIABLES now_us,                 \* micros()
          state, state_entered_us,
          packet, controlled_transaction,
          attempts,
          echo_complete, response_complete,
          busy_claimed, busy_claimed_us,
          last_fault,
          metrics,                \* the counters of AuxTxMetrics
          maximum_busy_hold_us,
          tx_enabled,             \* the TX buffer, as setTxEnabled left it
          busy_asserted,          \* the BUSY line, as setBusyAsserted left it
          handed_over             \* history: io_.write was called since start

flags  == <<echo_complete, response_complete>>
busy   == <<busy_claimed, busy_claimed_us, busy_asserted>>
counts == <<metrics, maximum_busy_hold_us>>
vars   == <<now_us, state, state_entered_us, packet, controlled_transaction,
            attempts, flags, busy, last_fault, counts, tx_enabled, handed_over>>

AuxTxState ==
  {"kIdle", "kBusWait", "kBusyClaim", "kClaimDelay", "kTxEnable", "kWrite",
   "kUartDrain", "kEchoWait", "kResponseWait", "kBackoff", "kFault"}

AuxTxFault ==
  {"kNone", "kContentionTimeout", "kWriteFailure", "kUartDrainTimeout",
   "kEchoTimeout", "kTransactionTimeout", "kResponseTimeout"}

Rejections == {"rejected_not_idle", "rejected_unauthorized",
               "rejected_policy", "rejected_checksum"}

Counters == Rejections \cup
  {"start_requests", "contention_retries", "completed_packets", "faults",
   "busy_timeouts", "recoveries"}

\* The states in which BUSY is ours, and those in which the TX buffer is on.
OwnerStates   == {"kClaimDelay", "kTxEnable", "kWrite", "kUartDrain"}
DrivingStates == {"kWrite", "kUartDrain"}
InFlight      == state \notin {"kIdle", "kFault"}

Instant == 0..(ClockMod - 1)

\* Mutant: an age that saturates at a wrap instead of crossing it.
Delta_Saturating(now, then) == IF now >= then THEN now - then ELSE 0

\* uint32_t subtraction: right across a wrap of the clock.
Delta(now, then) == IF now >= then THEN now - then ELSE now - then + ClockMod
Later(d) == IF now_us + d < ClockMod THEN now_us + d ELSE now_us + d - ClockMod
Elapsed == Delta(now_us, state_entered_us)

Init ==
  /\ now_us = 0
  /\ state = "kIdle" /\ state_entered_us = 0
  /\ packet = EmptyPacket /\ controlled_transaction = FALSE
  /\ attempts = 0
  /\ echo_complete = FALSE /\ response_complete = FALSE
  /\ busy_claimed = FALSE /\ busy_claimed_us = 0 /\ busy_asserted = FALSE
  /\ last_fault = "kNone"
  /\ metrics = [c \in Counters |-> 0] /\ maximum_busy_hold_us = 0
  /\ tx_enabled = FALSE
  /\ handed_over = FALSE

----------------------------------------------------------------------------
(* The private helpers *)

Count(names) ==
  metrics' = [c \in Counters |-> IF c \in names THEN metrics[c] + 1 ELSE metrics[c]]

\* Mutant: contention clears the echo flag only.
Transition_KeepResponse(s) ==
  /\ state' = s
  /\ state_entered_us' = now_us
  /\ echo_complete' = (echo_complete /\ s # "kBusWait")
  /\ UNCHANGED response_complete

\* transition(): a transaction that (re)enters contention forgets its answers.
Transition(s) ==
  /\ state' = s
  /\ state_entered_us' = now_us
  /\ IF s = "kBusWait"
       THEN echo_complete' = FALSE /\ response_complete' = FALSE
       ELSE UNCHANGED flags

\* Mutant: the TX buffer is forgotten.
ForceSafe_TxLeftOn ==
  /\ busy_asserted' = FALSE
  /\ busy_claimed' = FALSE
  /\ UNCHANGED <<busy_claimed_us, tx_enabled>>

\* forceSafe(): nothing of ours on the wire.
ForceSafe ==
  /\ tx_enabled' = FALSE
  /\ busy_asserted' = FALSE
  /\ busy_claimed' = FALSE
  /\ UNCHANGED busy_claimed_us

\* Mutant: the holds are added up.
RecordBusyHold_Total ==
  maximum_busy_hold_us' =
    maximum_busy_hold_us + IF busy_claimed THEN Delta(now_us, busy_claimed_us) ELSE 0

\* recordBusyHold(), its assignment to busy_claimed left to the caller.
RecordBusyHold ==
  LET held_us == Delta(now_us, busy_claimed_us)
  IN  maximum_busy_hold_us' =
        IF busy_claimed /\ held_us > maximum_busy_hold_us
          THEN held_us ELSE maximum_busy_hold_us

\* Mutant: a missing echo is answered by sending the packet again.
EnterFault_Replay(fault) ==
  /\ RecordBusyHold
  /\ ForceSafe
  /\ last_fault' = fault
  /\ Count({"faults"})
  /\ Transition(IF fault = "kEchoTimeout" THEN "kBackoff" ELSE "kFault")

EnterFault(fault) ==
  /\ RecordBusyHold
  /\ ForceSafe
  /\ last_fault' = fault
  /\ Count({"faults"} \cup
           IF fault = "kTransactionTimeout" THEN {"busy_timeouts"} ELSE {})
  /\ Transition("kFault")

RetryOrFault ==
  /\ attempts' = attempts + 1
  /\ \/ /\ attempts + 1 >= MaximumAttempts
        /\ EnterFault("kContentionTimeout")
     \/ /\ attempts + 1 < MaximumAttempts
        /\ Count({"contention_retries"})
        /\ ForceSafe
        /\ Transition("kBackoff")
        /\ UNCHANGED <<last_fault, maximum_busy_hold_us>>

\* Mutant: the completion is not counted.
CompletePacket_Uncounted == UNCHANGED metrics /\ Transition("kIdle")

CompletePacket ==
  /\ Count({"completed_packets"})
  /\ Transition("kIdle")

----------------------------------------------------------------------------
(* start() *)

\* Mutant: the read-only policy of a controlled test is not checked.
Refusal_NoPolicy(p, mode, authorization) ==
  IF state # "kIdle" THEN "rejected_not_idle"
  ELSE IF ~Authorized(mode, authorization) THEN "rejected_unauthorized"
  ELSE IF ~HasValidAuxChecksum(p) THEN "rejected_checksum"
  ELSE "none"

\* The counter the first failing check of start() increments, or "none".
Refusal(p, mode, authorization) ==
  IF state # "kIdle" THEN "rejected_not_idle"
  ELSE IF ~Authorized(mode, authorization) THEN "rejected_unauthorized"
  ELSE IF ~HasValidAuxChecksum(p) THEN "rejected_checksum"
  ELSE IF Controlled(mode, authorization) /\ ~IsControlledReadOnlyQuery(p)
    THEN "rejected_policy"
  ELSE "none"

RefuseStart(reason) ==
  /\ reason # "none"
  /\ Count({"start_requests", reason})
  /\ UNCHANGED <<now_us, state, state_entered_us, packet, controlled_transaction,
                 attempts, flags, busy, last_fault, maximum_busy_hold_us,
                 tx_enabled, handed_over>>

AcceptStart(p, controlled) ==
  /\ Count({"start_requests"})
  /\ packet' = p
  /\ controlled_transaction' = controlled
  /\ attempts' = 0
  /\ handed_over' = FALSE
  /\ Transition("kBusWait")
  /\ UNCHANGED <<now_us, busy, last_fault, maximum_busy_hold_us, tx_enabled>>

Start(p, mode, authorization) ==
  LET reason == Refusal(p, mode, authorization)
  IN  \/ RefuseStart(reason)
      \/ reason = "none" /\ AcceptStart(p, Controlled(mode, authorization))

----------------------------------------------------------------------------
(* tick(): one case of the switch per action; the deadline on the BUSY hold *)
(* is looked at first, in every state.                                      *)

\* Mutant: the deadline runs from the last transition, not from the claim.
Overdue_SinceTransition == busy_claimed /\ Elapsed >= TransactionTimeout

Overdue == busy_claimed /\ Delta(now_us, busy_claimed_us) >= TransactionTimeout

\* What no tick changes, and what a tick that only moves the state leaves too.
TickFrame == UNCHANGED <<now_us, packet, controlled_transaction>>
MoveFrame ==
  TickFrame /\ UNCHANGED <<attempts, last_fault, counts, handed_over>>
FaultFrame == TickFrame /\ UNCHANGED <<attempts, handed_over>>

TickOverdue == Overdue /\ EnterFault("kTransactionTimeout") /\ FaultFrame

TickAtRest == state \in {"kIdle", "kFault"} /\ UNCHANGED vars

\* Mutant: the bus is taken for free.
TickBusWait_Unarbitrated(bus_busy) ==
  /\ state = "kBusWait"
  /\ Transition("kBusyClaim")
  /\ MoveFrame /\ UNCHANGED <<busy, tx_enabled>>

TickBusWait(bus_busy) ==
  /\ state = "kBusWait"
  /\ \/ /\ ~bus_busy
        /\ Transition("kBusyClaim")
        /\ MoveFrame /\ UNCHANGED <<busy, tx_enabled>>
     \/ /\ bus_busy /\ Elapsed >= BusWaitTimeout
        /\ RetryOrFault
        /\ TickFrame /\ UNCHANGED handed_over
     \/ bus_busy /\ Elapsed < BusWaitTimeout /\ UNCHANGED vars

TickBusyClaim ==
  /\ state = "kBusyClaim"
  /\ busy_asserted' = TRUE
  /\ busy_claimed' = TRUE
  /\ busy_claimed_us' = now_us
  /\ Transition("kClaimDelay")
  /\ MoveFrame /\ UNCHANGED tx_enabled

TickClaimDelay ==
  /\ state = "kClaimDelay"
  /\ \/ /\ Elapsed >= ClaimDelay
        /\ Transition("kTxEnable")
        /\ MoveFrame /\ UNCHANGED <<busy, tx_enabled>>
     \/ Elapsed < ClaimDelay /\ UNCHANGED vars

TickTxEnable ==
  /\ state = "kTxEnable"
  /\ tx_enabled' = TRUE
  /\ Transition("kWrite")
  /\ MoveFrame /\ UNCHANGED busy

\* all_written: io_.write took the whole packet.
TickWrite(all_written) ==
  /\ state = "kWrite"
  /\ handed_over' = TRUE
  /\ \/ /\ all_written
        /\ Transition("kUartDrain")
        /\ UNCHANGED <<busy, tx_enabled, last_fault, counts>>
     \/ ~all_written /\ EnterFault("kWriteFailure")
  /\ TickFrame /\ UNCHANGED attempts

\* Mutant: the hold that ends with the drain is not recorded.
ReleaseBus_Unrecorded == ForceSafe /\ UNCHANGED maximum_busy_hold_us

\* The drained transmitter lets go of TX, then of BUSY, in one call.
ReleaseBus == RecordBusyHold /\ ForceSafe

TickUartDrain(tx_complete) ==
  /\ state = "kUartDrain"
  /\ \/ /\ tx_complete
        /\ ReleaseBus
        /\ Transition(IF controlled_transaction /\ echo_complete
                        THEN "kResponseWait" ELSE "kEchoWait")
        /\ FaultFrame /\ UNCHANGED <<metrics, last_fault>>
     \/ /\ ~tx_complete /\ Elapsed >= UartDrainTimeout
        /\ EnterFault("kUartDrainTimeout")
        /\ FaultFrame
     \/ ~tx_complete /\ Elapsed < UartDrainTimeout /\ UNCHANGED vars

TickEchoWait ==
  /\ state = "kEchoWait"
  /\ \/ /\ echo_complete /\ controlled_transaction
        /\ Transition("kResponseWait")
        /\ MoveFrame /\ UNCHANGED <<busy, tx_enabled>>
     \/ /\ echo_complete /\ ~controlled_transaction
        /\ CompletePacket
        /\ FaultFrame
        /\ UNCHANGED <<busy, tx_enabled, last_fault, maximum_busy_hold_us>>
     \/ /\ ~echo_complete /\ Elapsed >= EchoTimeout
        /\ EnterFault("kEchoTimeout")
        /\ FaultFrame
     \/ ~echo_complete /\ Elapsed < EchoTimeout /\ UNCHANGED vars

TickResponseWait ==
  /\ state = "kResponseWait"
  /\ \/ /\ response_complete
        /\ CompletePacket
        /\ FaultFrame
        /\ UNCHANGED <<busy, tx_enabled, last_fault, maximum_busy_hold_us>>
     \/ /\ ~response_complete /\ Elapsed >= ResponseTimeout
        /\ EnterFault("kResponseTimeout")
        /\ FaultFrame
     \/ ~response_complete /\ Elapsed < ResponseTimeout /\ UNCHANGED vars

TickBackoff ==
  /\ state = "kBackoff"
  /\ \/ /\ Elapsed >= BackoffTime
        /\ Transition("kBusWait")
        /\ MoveFrame /\ UNCHANGED <<busy, tx_enabled>>
     \/ Elapsed < BackoffTime /\ UNCHANGED vars

TickState(bus_busy, all_written, tx_complete) ==
  \/ TickAtRest
  \/ TickBusWait(bus_busy)
  \/ TickBusyClaim
  \/ TickClaimDelay
  \/ TickTxEnable
  \/ TickWrite(all_written)
  \/ TickUartDrain(tx_complete)
  \/ TickEchoWait
  \/ TickResponseWait
  \/ TickBackoff

Tick(bus_busy, all_written, tx_complete) ==
  \/ TickOverdue
  \/ ~Overdue /\ TickState(bus_busy, all_written, tx_complete)

----------------------------------------------------------------------------
(* The other calls, and time *)

NotifyEchoComplete ==
  /\ echo_complete' = TRUE
  /\ UNCHANGED <<now_us, state, state_entered_us, packet, controlled_transaction,
                 attempts, response_complete, busy, last_fault, counts,
                 tx_enabled, handed_over>>

AcceptsResponse(r) ==
  /\ controlled_transaction
  /\ state = "kResponseWait"
  /\ IsControlledVersionResponse(packet, r)

NotifyResponse(r) ==
  /\ response_complete' = (response_complete \/ AcceptsResponse(r))
  /\ UNCHANGED <<now_us, state, state_entered_us, packet, controlled_transaction,
                 attempts, echo_complete, busy, last_fault, counts,
                 tx_enabled, handed_over>>

Recover ==
  /\ ForceSafe
  /\ last_fault' = "kNone"
  /\ attempts' = 0
  /\ echo_complete' = FALSE
  /\ response_complete' = FALSE
  /\ controlled_transaction' = FALSE
  /\ Count({"recoveries"})
  /\ state' = "kIdle"
  /\ state_entered_us' = now_us
  /\ UNCHANGED <<now_us, packet, maximum_busy_hold_us, handed_over>>

Elapse(d) ==
  /\ now_us' = Later(d)
  /\ UNCHANGED <<state, state_entered_us, packet, controlled_transaction,
                 attempts, flags, busy, last_fault, counts, tx_enabled,
                 handed_over>>

Next ==
  \/ \E p \in Packets, mode \in OperatingMode, auth \in AuxTxAuthorization :
       metrics["start_requests"] < MaxStarts /\ Start(p, mode, auth)
  \/ \E bus_busy, all_written, tx_complete \in BOOLEAN :
       Tick(bus_busy, all_written, tx_complete)
  \/ NotifyEchoComplete
  \/ \E r \in Packets : NotifyResponse(r)
  \/ metrics["recoveries"] < MaxRecoveries /\ Recover
  \/ \E d \in 1..MaxElapse : Elapse(d)

Spec == Init /\ [][Next]_vars

----------------------------------------------------------------------------
(* What must be true of it *)

\* Every variable keeps its type: the clock and the recorded instants are
\* clock values, the counters never go below zero.
TypeOK ==
  /\ now_us \in Instant
  /\ state \in AuxTxState /\ state_entered_us \in Instant
  /\ packet \in AuxPacket /\ controlled_transaction \in BOOLEAN
  /\ attempts \in Nat
  /\ echo_complete \in BOOLEAN /\ response_complete \in BOOLEAN
  /\ busy_claimed \in BOOLEAN /\ busy_claimed_us \in Instant
  /\ busy_asserted \in BOOLEAN /\ tx_enabled \in BOOLEAN
  /\ last_fault \in AuxTxFault
  /\ metrics \in [Counters -> Nat] /\ maximum_busy_hold_us \in Instant
  /\ handed_over \in BOOLEAN

\* The lines follow the state on every path, the faulting and the recovering
\* ones included: TX is on exactly while a packet is being written or
\* drained, BUSY is asserted exactly from its claim to the end of the drain,
\* and the flag the deadline looks at never disagrees with the line.
OutputsFollowState ==
  /\ tx_enabled <=> state \in DrivingStates
  /\ busy_asserted <=> state \in OwnerStates
  /\ busy_claimed <=> busy_asserted

\* What may be on its way to the bus passed every check of start() together:
\* a good checksum, and under a controlled test the read-only query alone,
\* however the transaction got to where it is.
OnlyVettedPackets ==
  InFlight => /\ HasValidAuxChecksum(packet)
              /\ controlled_transaction => IsControlledReadOnlyQuery(packet)

\* A response noted for one transaction is never still noted in a later one
\* before that one waits for its own: notifyResponse leaves the flag set after
\* completion, and only contention clears it.
ResponseFlagFresh ==
  response_complete => state \in {"kResponseWait", "kIdle"}

Sum4 == metrics["rejected_not_idle"] + metrics["rejected_unauthorized"]
        + metrics["rejected_policy"] + metrics["rejected_checksum"]

Accepted == metrics["start_requests"] - Sum4

\* The started packets no counter accounts for.
Unaccounted ==
  Accepted - metrics["completed_packets"] - metrics["faults"]
  - (IF InFlight THEN 1 ELSE 0)

\* The status counters add up: a request is rejected for one reason, in
\* flight, completed, faulted, or was dropped by a recovery, and no recovery
\* drops more than one.
Ledger ==
  /\ Unaccounted \in 0..metrics["recoveries"]
  /\ metrics["busy_timeouts"] <= metrics["faults"]

\* Every hold of BUSY that the state machine ends itself, on the good path or
\* on any fault, is covered by maximum_busy_hold_us.
BusyHoldRecorded ==
  [][busy_claimed /\ ~busy_claimed' /\ metrics'["recoveries"] = metrics["recoveries"]
       => maximum_busy_hold_us' >= Delta(now_us, busy_claimed_us)]_vars

\* The abstract transaction this state machine implements.
PhaseOf(s) == CASE s = "kIdle" -> "rest"
                [] s \in {"kBusWait", "kBusyClaim", "kBackoff"} -> "contend"
                [] s \in OwnerStates -> "own"
                [] s \in {"kEchoWait", "kResponseWait"} -> "await"
                [] OTHER -> "failed"

Transaction == INSTANCE AuxTransaction
  WITH phase <- PhaseOf(state), holding <- busy_asserted,
       driving <- tx_enabled, sent <- handed_over

\* Whatever order the calls come in, the bus sees an AuxTransaction: at most
\* one write per accepted packet, only as the owner of BUSY with TX on, no
\* line kept while waiting for an answer, no completion without a write, and
\* never a second write after a fault or a recovery.
ImplementsTransaction == Transaction!Spec
================================================================================

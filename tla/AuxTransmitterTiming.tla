-------------------------- MODULE AuxTransmitterTiming --------------------------
(***************************************************************************)
(* The transmitter under the cadence its owner keeps: the loop of main.cpp *)
(* calls tick again and again, and however long one round takes (a slow    *)
(* host write, the other tasks of the core), two ticks are at most MaxStall*)
(* apart.  Two stopwatches that never wrap say how long BUSY has really    *)
(* been held and how long the packet has been in flight; the properties    *)
(* compare the machine, whose clock wraps, with them.                      *)
(***************************************************************************)
EXTENDS AuxTransmitter

CONSTANT MaxStall   \* the longest time between two ticks

\* No wait outlasts the clock before its expiry is seen (milliseconds against
\* over an hour), and AuxTxTiming leaves a transaction some time and an attempt.
ASSUME CadenceAssumption ==
  /\ MaxStall \in Nat \ {0}
  /\ \A timeout \in {BusWaitTimeout, EchoTimeout, ResponseTimeout,
                      TransactionTimeout, BackoffTime} : timeout + MaxStall < ClockMod
  /\ TransactionTimeout # 0 /\ MaximumAttempts # 0

VARIABLES unticked_us,  \* time since the last tick
          held_us,      \* how long BUSY has been held, 0 when it is not
          inflight_us   \* how long the packet has been in flight, 0 at rest

timedVars == <<vars, unticked_us, held_us, inflight_us>>

TimedInit == Init /\ unticked_us = 0 /\ held_us = 0 /\ inflight_us = 0

\* The stopwatches of a step that takes no time.
Watches ==
  /\ held_us' = IF busy_claimed' THEN held_us ELSE 0
  /\ inflight_us' = IF InFlight' THEN inflight_us ELSE 0

TimedTick(bus_busy, all_written, tx_complete) ==
  /\ Tick(bus_busy, all_written, tx_complete)
  /\ unticked_us' = 0
  /\ Watches

TimedCall ==
  /\ \/ \E p \in Packets, mode \in OperatingMode, auth \in AuxTxAuthorization :
          metrics["start_requests"] < MaxStarts /\ Start(p, mode, auth)
     \/ NotifyEchoComplete
     \/ \E r \in Packets : NotifyResponse(r)
     \/ metrics["recoveries"] < MaxRecoveries /\ Recover
  /\ UNCHANGED unticked_us
  /\ Watches

\* Time passes for everyone, never past the next tick.
TimedElapse ==
  /\ unticked_us < MaxStall
  /\ Elapse(1)
  /\ unticked_us' = unticked_us + 1
  /\ held_us' = IF busy_claimed THEN held_us + 1 ELSE 0
  /\ inflight_us' = IF InFlight THEN inflight_us + 1 ELSE 0

TimedNext ==
  \/ \E bus_busy, all_written, tx_complete \in BOOLEAN :
       TimedTick(bus_busy, all_written, tx_complete)
  \/ TimedCall
  \/ TimedElapse

TimedSpec == TimedInit /\ [][TimedNext]_timedVars

----------------------------------------------------------------------------
(* What must be true of it *)

\* BUSY is never held beyond the transaction timeout and the stall that hides
\* its expiry, and the age the machine computes from its wrapping clock is
\* the true one, so the deadline cannot be missed by a wrap.  Nor is a longer
\* hold ever reported.
BusyHoldBounded ==
  /\ busy_claimed => /\ held_us < TransactionTimeout + unticked_us
                     /\ held_us = Delta(now_us, busy_claimed_us)
  /\ maximum_busy_hold_us < TransactionTimeout + MaxStall

\* The longest stay in a state left at the first tick `timeout` after its entry.
Dwell(timeout) == MaxStall + (IF timeout = 0 THEN 0 ELSE timeout - 1)

\* Every started packet is completed or faulted within the sum of its waits,
\* whatever the bus, the UART and the responder do: its contended attempts and
\* the backoffs between them, the claim, the time BUSY may be held, the echo
\* and the response.  The transmitter cannot hang.
ResolvedInTime ==
  inflight_us <= MaximumAttempts * Dwell(BusWaitTimeout)
                 + (MaximumAttempts - 1) * Dwell(BackoffTime)
                 + Dwell(0) + (TransactionTimeout - 1)
                 + Dwell(EchoTimeout) + Dwell(ResponseTimeout)
================================================================================

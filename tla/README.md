# TLA+ models of the NexStar AUX bridge firmware

The firmware is an ESP32 between a USB host and the AUX bus of a telescope
mount. The bus is one shared half-duplex wire at 19200 baud with a BUSY line: a
device looks whether BUSY is free, asserts it, enables its driver, writes a
frame, and hears its own bytes back. These modules model the part of the
firmware that decides what is driven onto that bus and when, what is taken for
an echo, and what reaches either side.

## The system

| Component | Source | State | Operations |
| --- | --- | --- | --- |
| Packet codec | `include/aux_protocol.hpp`, `controlled_aux_query.hpp` | none | checksum, the controlled version query and its answer |
| Stream decoder | `aux_protocol.hpp` | bytes of the frame begun, time of the last | `feed`, `expire`, `reset` |
| Transmitter | `aux_transmitter.hpp` | a state machine of 10 states, the packet, attempts, two flags, BUSY and TX, counters | `start`, `tick`, `notifyEchoComplete`, `notifyResponse`, `recover` |
| Echo tracker | `echo_tracker.hpp` | expected bytes, how many matched, a deadline, counters | `begin`, `feed`, `poll`, `cancel` |
| Router | `packet_router.hpp` | two ring buffers, counters | `routeFromHost`, `routeFromAux`, `takeForAux`, `takeForHost` |
| Host transport | `host_transport.hpp` | a decoder, the packet being written and an offset, counters | `service` |
| USB bridge service | `main.cpp` 100-188 | the tracking flag, the match count at its start, the active packet, the pending recovery and its time | `ServiceUsbBridge`, once a round of `loop` |
| Controlled test | `main.cpp` 254-510 | a selected destination, the active query, a pending response, the transmitter's state last seen | SELECT, ARM, STATUS, RECOVER, `ServiceControlledTest` |
| Listen-only capture | `main.cpp` 193-252 | a decoder, counters | `PollAuxCapture` |
| Diagnostics | `diagnostics.hpp` | a ring of 32 events, saturating counters | `record`, `increment` |
| Display model | `display_model.hpp` | the last snapshot, three deadlines | `update` |
| Display controller | `display_controller.cpp` | the model, the view last drawn and when, the boot screen | `begin`, `update` |
| Display service | `display_service.cpp`, the end of `loop` | a one-slot queue, a task on the other core | `publish`, `run` |
| Board, modes, setup | `board_*.hpp`, `operating_mode.hpp`, `firmware_profile.hpp`, `main.cpp` | constants; start-up levels of the pins | `setup`, `loop` |

How they interact. Everything but the display runs in one loop, so calls do not
interleave; what interleaves with the loop is the hardware: the clocks, the UART
that shifts bytes out and in, the mount, the host. In the bridge profile one
round is `host_transport.service`, `ServiceUsbBridge`, `host_transport.service`
and a sleep of a tick. The host transport decodes the host's bytes into the AUX
queue and writes the host queue out. `ServiceUsbBridge` begins to track the echo
when it sees the transmitter about to write, gives every received byte to the
tracker while it tracks and what comes back to the decoder, hands decoded
packets to the host queue, starts the next packet when the transmitter is idle,
calls `tick`, and recovers the transmitter 2 ms after a fault.

The bench image has no host: one round is the commands typed so far, the UART's
bytes, `tick`, the answer that was read, and a look at the transmitter's state;
it does not sleep. In every profile the loop ends by publishing a snapshot of the
counters, every 250 ms, for the display task, the only other thread; the queue
between them is overwritten. (Only `esp32dev_listen_only_tft` and
`esp32dev_diagnostic` of `platformio.ini` compile the display in; in the other
environments `publish` does nothing. The model takes every profile's branch of
`RefreshDisplaySnapshot` as a build with the display on.)

What is hard about it, and where it bites (PROJECT.json lists each hazard with
its line and its properties):

- **time**: six timeouts over two clocks that wrap, compared in three different
  ways; each of them polled, so each is late by up to a round;
- **a stale sample**: BUSY is sampled in one round and claimed in the next;
- **late or foreign bytes**: an echo that comes after its transaction failed, a
  mount's byte or a glitch in the middle of an echo;
- **state that outlives a transaction**: the echo and response flags, the match
  counter, the decoder's half frame, the recovery's start time, the UART's bytes;
- **partial failure**: a recovery that forgets in four places, a write taken in part;
- **edges**: the end of a query is seen as a change since the last round, activity
  as a count that differs from the last snapshot, of which some are never taken;
- **bounds**: the rings, the length byte, the drain timeout against long packets.

## Modules

| Module | Models | Kind |
| --- | --- | --- |
| `AuxProtocol` | codec, query, transmit policy | operators |
| `AuxTransaction` | what a transmitter promises about the bus | abstract specification |
| `AuxTransmitter` | `AuxTransmitter`, one action per call, one disjunct of `Tick` per state | specification, refines `AuxTransaction` |
| `AuxTransmitterTiming` | the same calls, ticked at most `MaxStall` apart, with stopwatches that do not wrap | specification |
| `AuxTransmitterProofs` | the transmitter | proofs |
| `AuxTransmitterTimingProofs` | its time bounds, over the invariant of the former | proofs |
| `Millis` | `millis()` and ages by it | operators |
| `AuxStreamDecoder` | the decoder as a record, its methods as operators | operators |
| `DecoderStream` | one decoder and every stream | specification |
| `EchoTracker` | the tracker as a record, its methods as operators | operators |
| `TrackerCalls` | one tracker and every sequence of calls | specification |
| `StreamProofs` | the operators of decoder and tracker, the clock, runs of steps | proofs |
| `DriversProofs` | the tracker under every sequence of calls, the decoder over every stream | proofs |
| `BoundedFifo` | what a queue promises | abstract specification |
| `BoundedQueue` | the ring | specification, refines `BoundedFifo` |
| `PacketRouter` | two queues and their guards | operators |
| `HostTransport` | `service` with its decoder and router, the host, the AUX side | specification |
| `AuxBus` | the transmitter on its pins: UART, bus, mount | operators over its own variables |
| `UsbBridge` | `ServiceUsbBridge` composing transmitter, tracker, decoder, router on the `AuxBus` | specification |
| `UsbBridgeProofs` | the bridge, over the transmitter's and the operators' proofs | proofs |
| `ControlledTest` | `ServiceControlledTest` and its commands composing transmitter, tracker, decoder on the `AuxBus` | specification |
| `ControlledTestProofs` | the bench image, over the same | proofs |
| `DisplayController` | display model and controller as records, their methods as operators | operators |
| `DisplayService` | the end of the loop, the queue, the task and its controller | specification |
| `DisplayProofs` | the display, from the counters to the panel | proofs |
| `QueueProofs` | the router's ring, and the host transport | proofs |
| `MC...` | values for TLC | |

The components a larger one owns (decoder, tracker, router) are written as pure
operators on a record, as the C++ objects are plain data with methods: their
owner applies them within its own step, and a small driver specification checks
them alone under every sequence of calls. The transmitter has side effects on
the pins, so it is a state machine of its own; `AuxBus` extends it with the wire,
and `UsbBridge` and `ControlledTest`, the two firmwares that transmit, extend that.

### Correspondence with the code

- Variables bear the names of the members without the trailing underscore (in
  `UsbBridge`, those of the globals without `bridge_` where that is unambiguous).
- `AuxTransmitter`: `Start` is `start` with its four refusals in order;
  `Tick(bus_busy, all_written, tx_complete)` is `tick` with what `AuxTxIo`
  returns as parameters, the overdue check first and then the state's disjunct.
  The pins are the variables `busy_asserted` and `tx_enabled`. `handed_over` is
  history: some byte of the packet was given to the UART. `Delta` is the uint32
  subtraction over a clock of `ClockMod` values.
- `AuxStreamDecoder`: `buffer` is `buffer_` up to `size_`; `expected_size_`
  follows from the second byte. `Feed` has the code's order: expire, preamble,
  length, overflow, completion.
- `PacketRouter` holds each queue as a sequence; `BoundedQueue` shows that the
  ring implements one.
- `HostTransport`: `Service(written)` is the whole of `service`, `written` what
  the stream's `write` returns. The reads are a recursive function over the bytes
  available (`ReadAll`), since nothing else happens between two of them.
- `UsbBridge`: a round is cut into the phases host, track, drain (one step per
  byte), start, tick, recover, and the bus may move between any two steps in
  which the code reads the clock, the UART or the pins. `recover` reuses the
  time `tick` read, so no time passes between these two. `HostTurn` stands for
  the two calls of `service` that surround the sleep; of the transport only its
  effect on the two queues is kept: a call may route a packet from the host, which a
  full AUX queue counts and drops, and works on one packet for the host
  (`DrainHostOutput`, `output_active`), which may take it several calls. So both
  queues fill up. History: `delivered` is what was taken for the host, `ToHost` that
  and what is queued for it, hence never what the router refused.
- `AuxBus`: where `ShortWrites` the UART may take any part of a write, nothing
  included; what it took goes out though the transmitter fails (`TickOnBus`).
- `ControlledTest`: a round is the phases command, poll (one step per byte), tick,
  settle; the last is everything after `tick` up to `last_tx_state`. `StopTracking`
  and `ForgetAnswers` are the two assignments that ARM and RECOVER share.
  History: `answer` (was one read since ARM, in this round or before), `reported`
  (the COMPLETE and FAULT lines), `quiet_line` (the UART was empty at ARM).
- `DisplayController`: `UpdateModel` and `View` are the two halves of
  `DisplayModel::update`; `UpdateController` has the early returns of `update`
  in order. A screen is its kind and the view it was drawn from.
- `DisplayService`: `CountPacket`, `CountError` and `CountOther` are what the other
  components do to the counters the snapshot is made of; `counted.moved` stands
  for the counters that are compared with their last value. `Publish` is the end
  of `loop`, `BeginTask` and `TaskRound` the task. `begin` reads its time before it
  starts the panel, hence `BeginTime`.

Abstractions of data and time in `UsbBridge`: bytes are 0..3 with 3 the preamble,
frames of four to six bytes (15 in one run). One step of the bus is one byte
time, and `millis` and `micros` both count it; all timeouts are given in it. The
real ratios are kept where a property depends on them (the echo window has a
margin over the transmission time; the drain timeout is above or below the
packet's time on the wire, as the run says), not elsewhere. When nothing is
being aged (`AtRest`: the transmitter is idle, the tracker closed, and what the
decoder holds, if anything, is past its timeout) the clock stands still; this
changes the outcome of no guard that compares an age and keeps the state space
finite. Bytes that collide on the bus
are heard as anything.

## Runs

| Run | Question | States |
| --- | --- | --- |
| `transmitter` | under every order of calls: do the lines follow the state, do the counters add up, is BUSY released and every packet resolved in time, does the machine implement `AuxTransaction`? | 2.0 M |
| `decoder` | does the decoder resynchronise at every silence and decode only what was heard? | 1.7 M |
| `echo_tracker` | is any byte lost or invented, may anything but a whole echo in time count as a match? | 1.6 M |
| `queue` | does the router's ring implement a queue? | 1.6 k |
| `host` | do frames from the host arrive whole, are broken ones forgotten, all accounted for, and are packets for the host delivered byte for byte, in order and in the end? | 760 k |
| `bridge_clean` | on a clean bus, does a packet that gets the bus complete, does the host never get its own back, and does it get the mount's frames in order, each once, through recoveries in the middle of a frame and full queues? | 12 M |
| `bridge_faulty` | with glitches and cut-off packets, is an echo ever credited to another packet, or a packet lost? | 9.5 M |
| `bridge_live` | with a mount that collides with us and a UART that takes a part of a write, is a race for BUSY the only way to collide, and does the bridge always come back to rest with its queue served? | 340 k |
| `controlled` | do the bench image's loop and its transmitter stay in step, and are echo and answer credited only to a query they came after? | 8.2 M |
| `display` | do marks and overlays appear in time, do they go out again, and does the panel end up showing what was counted? | 4.5 M |

Bounds, and why they are enough:

- *transmitter*: two starts over three packets (the query, its answer, the query
  damaged) and one recovery. What one transaction leaves for another is left by
  the first for the second. A clock of six values wraps within a transaction.
  Ticks are up to two steps apart, so every deadline is seen on time and late;
  longer stalls, with which an age could wrap unseen, are excluded for the two
  timing properties (`CadenceAssumption`: a timeout and a stall fit in the clock;
  the longest timeout is 250 ms, the clock wraps after 71 minutes), and the proofs of
  the others need no bound on them.
- *decoder*: four byte values of which 3 is the preamble and also a length;
  frames take four to six bytes and a burst eight, so garbage before a frame, a
  preamble inside one, an oversized length and two frames back to back all occur.
- *echo_tracker*: two overlapping packets, the longest as long as the buffer, five
  heard bytes: a full match, a mismatch at each position, and bytes after it. A byte
  takes half a millisecond, so that the window of three bytes is rounded.
- *queue* (its type invariant is proved, not run): three slots and two refusals:
  every fill level at every position of the head.
- *host*: two bursts of four kinds (a frame, two back to back, one broken off, one
  damaged) and up to four packets from the AUX side, fewer with more bursts
  (`Traffic`), reads of two bytes at a time, queues of two, writes of
  nothing, a byte, or a whole packet and more than is left of one: a broken burst before or after a good one, a full
  queue, and every split of every write. The decoder ages by the time of reading, so
  a loop that stalls 20 ms may take its own delay for the host's silence:
  `ServiceGap` is as long as the timeout, and a delay of that length that meets a
  begun frame ends `intact`, hence the promise of `HostFramesDecoded` for that burst
  (without that it is violated) but for no later one.
- The bridge's runs: rounds last one or two byte times; the real loop sleeps one tick
  of 1 ms, about two byte times. *bridge_faulty* has two packets, so that one
  transaction meets what the other left, at most one stray byte, no mount frame and
  room for one packet in the AUX queue; its long packet is one byte over the drain
  timeout. *bridge_live* has one packet, two attempts and one mount frame.
- *bridge_clean*: one packet, which takes the whole drain timeout; `CleanBusCompletes`
  is also proved for any number of them. A finding along the way: `NoSelfEcho` needs an echo
  window margin of twice the longest round (`DeadlineMargin` 4 with `MaxRound` 2
  holds, 3 does not), since the window opens up to one round before
  the write and its end is looked at up to one round late. With the code's 5 ms
  that is a round of at most 2.5 ms; a longer stall of the loop during an echo
  makes the bridge hand its own packet to the host.
- *bridge_clean*, for `MountHeard`: three frames of two kinds at any time, so that two can be swapped,
  lost or repeated before, between and after each other; one packet of ours with one
  attempt, whose contention fault is recovered while the frame is still being heard;
  queues of one packet and a host that may stay in the middle of one for ever. The
  decoder is reset in mid-frame, frames are lost to that, and the host queue
  overflows. Frames due are followed by `deaf_us`: after a reset within a frame the
  decoder is in step again with the first silence of `Resynchronisation`, and what
  was sent before its end is written off.
- *controlled*: two queries, as many destinations, and one recovery before the
  second: what a query leaves, the recovery or the next query meets. The first
  query is to the first destination (`MCTestSpec`), the second to either; they
  differ in name only. Bytes come between the poll and the tick, at most one in a
  round: each is then as stale in the tick, and as early in the poll, as it can
  be. The mount may answer each query once, at any time or never, so that an
  answer may come after the fault, after the recovery or during the next query.
  The mount sends nothing unasked, as `bridge_faulty` covers what strays.
- *display*: a step is a quarter of a second; three events at any time, in each
  profile, over twenty steps: power-up, the boot screen and two overlays' time.
  The task is at most one step late. Uptime is bounded below half the clock; the
  run `display_uptime` is about what lies beyond.

Deadlock is checked in every run but the two of the display, whose bound on the
uptime ends every behaviour: elsewhere the clocks and the loop never stop.

Each property of a passing run has a mutant beside the definition it changes (a
dropped guard, a missing reset, a wrong comparison) under which TLC finds it
violated. They are the operators named `Definition_Change`.

### Fairness

Safety runs state none. `host` assumes that, again and again, a `Service` happens in
which the stream takes at least one byte (`HostFairness`, which is weak fairness
of an action that is always enabled, written without ENABLED for TLC's sake): the
loop calls `service` twice a round and `Serial` empties its buffer at the host's
baud rate. A host that stops reading for ever is outside `EverythingDelivered`.
`bridge_live` assumes weak
fairness of the loop's next step and of time passing while the loop is where it
sleeps or waits: the loop has no blocking call but the UART's, and the scheduler
returns from `vTaskDelay`. Nothing is assumed of the mount or the host.

### Findings

Two runs expect a violation. Each checks one sentence of the repository's own
documentation against what the code does.

1. `bridge_residue`: the drain timeout is 20 ms (38 bytes at 19200 baud) whatever
   the length of the packet, though frames of 258 bytes are accepted; after such
   a fault the recovery leaves the rest of the packet in the UART, and it goes out
   once the next transaction enables TX.
2. `display_uptime`: deadlines of the display model are compared as signed
   differences and never cleared, so the deadline 0 of a firmware that has seen no
   error is "pending" again when `millis()` passes 2^31: after 24.8 days the fault
   screen comes on, for as long again. (`OverlayTemporary` holds in `display`.)

More limits of the code show when a constant of `MCUsbBridgeClean.cfg` is changed,
and are the reason it is what it is:

- With `MountRaces = TRUE` we do drive over the mount, as in `bridge_live`: BUSY is
  sampled in one tick and claimed in the next without a second look
  (`aux_transmitter.hpp` 127-139), a round of the loop apart. `OnlyRacesCollide`
  says that a frame which began in that round is the only one that is hit.
- `UartDrainTimeout = 3` violates `CleanBusCompletes`: a packet longer than the
  drain timeout always faults.
- With `MaximumAttempts = 1`, as in this run, the recovery after a contention
  fault resets the decoder (`main.cpp` 181) in the middle of the very frame that
  caused the contention: that frame, and any that follow it without a silence, do not
  reach the host. The code's three attempts of 5 ms, 2 ms apart, and the 2 ms to the
  recovery need a mount that is busy for some 20 ms: a frame of 40 bytes, or several.
- `MaxNoise = 1` violates `NoSelfEcho`: one stray byte before the echo ends the
  tracking (`echo_tracker.hpp` 63), and the bridge forwards its own packet to the
  host. README.md 35-36 promises non-echo packets only.

And limits of the other components, which the properties leave room for:

- `recover()` releases BUSY without entering the hold into `maximum_busy_hold_us`
  (`aux_transmitter.hpp` 220), so the bench log's maximum can be too small after a
  RECOVER: `BusyHoldRecorded` speaks of the other ends.
- Controlled test: an answer to an abandoned query that comes while the next query
  to the same destination is in flight completes that one (`main.cpp` 462 compares
  with `active_query` alone); `AnswerReadSinceArmed` asks only that it was read
  since ARM. An answer read in the very round whose tick finds the deadline passed
  is dropped; `NoAnswerLost` speaks of earlier rounds. RECOVER and ARM within a few
  bytes' time leave the first query's rest in the UART, as in `bridge_residue`;
  `CleanBusEchoes` asks for an empty one.
- Display: packets counted while the boot screen is on get no mark; the bridge's
  own transmitter faults never reach the snapshot, whose `error_count` is the host
  transport's; a `host_active` pulse of one publication may fall between two
  drawings, which are 500 ms apart. `ActivityShown` is about RX and TX packets.

So the clean-bus properties say: given that the mount does not begin between
our look and our claim, that writes are taken whole and that packets fit the drain
timeout, every packet that gets the bus completes (`CleanBusCompletes` permits
contention faults), the host never gets its own packets, and it gets the mount's but
for those that a recovery or a full queue costs.

## Proofs

TLAPS checks these for every value of the constants that the named assumptions
allow. The assumptions stand in the modules that declare the constants, and TLC
evaluates each of them in a run.

| Theorem | Says | Rests on |
| --- | --- | --- |
| `AuxTransmitterProofs` | | |
| `TypeCorrect`, `LinesFollowState`, `NothingUnvettedInFlight`, `ResponsesStayFresh`, `CountersAddUp`, `HoldsAreRecorded` | `TypeOK`, `OutputsFollowState`, `OnlyVettedPackets`, `ResponseFlagFresh`, `Ledger`, `BusyHoldRecorded` | `TransmitterAssumption` |
| `TransmitterImplementsTransaction` | the refinement of `AuxTransaction` | the same |
| `AuxTransmitterTimingProofs` | | |
| `BusyReleasedInTime`, `TransmitterNeverHangs` | `BusyHoldBounded`, `ResolvedInTime` | and `CadenceAssumption` |
| `QueueProofs` | | |
| `HostFramesArrive`, `BrokenFramesExpire`, `FramesAreAccounted`, `OutputStaysInOrder` | `HostFramesDecoded`, `BrokenFrameForgotten`, `HostPacketsAccounted`, `DeliveredInOrder` | `TransportAssumption` and those of decoder and clock |
| `RingTypeCorrect`, `RingImplementsFifo` | the ring implements a bounded queue | `CapacityAssumption` |
| `StreamProofs` | | |
| `WindowCoversTransmission` | the echo window covers the time on the wire and the margin | `TrackerAssumption` |
| `DriversProofs` | | |
| `NothingSwallowed`, `TrackingEndsInTime`, `MatchesAreEchoes` | `BytesConserved`, `TrackingBounded`, `MatchIsTheEcho` | and `WindowAssumption`, `CallsAssumption` |
| `BufferStaysBegun`, `PacketsAreHeard`, `SilenceResynchronises` | `BufferIsFrameBegun`, `DecodedIsHeard`, `FramesAfterSilenceDecoded` | `ProtocolAssumption`, `DecoderAssumption`, `StreamAssumption` |
| `UsbBridgeProofs` | | |
| `EchoesStayFresh`, `OneEchoOneCompletion`, `EveryPacketAccounted`, `BackoffIsKept` | `EchoFlagFresh`, `CompletionsAreMatched`, `NothingLost`, `RecoveryHoldsOff` | all of the bridge's |
| `CollisionsAreRaces` | `OnlyRacesCollide` | the same |
| `CleanBusServed` | `CleanBusCompletes` | and `CleanBus` |
| `ControlledTestProofs` | | |
| `LoopFollowsTransmitter` | `QueryTracksTransmitter` | `ControlledAssumption`, `RetriesAssumption` |
| `NoStaleAnswer`, `AnswersCount` | `AnswerReadSinceArmed`, `NoAnswerLost` | the same |
| `EchoesAreOwn` | `EchoIsOfThisQuery` | and `RoundShorterThanQuery` |
| `QueriesAreEchoed` | `CleanBusEchoes` | and `CleanTest` |
| `DisplayProofs` | | |
| `PacketsAreShown`, `ErrorsAreShown`, `ScreenComesToRest`, `OverlayGoesOff` | `ActivityShown`, `FaultShown`, `ScreenSettles`, `OverlayTemporary` | `ServiceAssumption`, `WaitsAssumption`, `BelowHalfTheClock` |

What the assumptions ask, where they say more than that a constant is a number of
the right range, and why the code meets them:

- `CadenceAssumption`: every timeout plus the longest stall between two ticks is
  less than the clock, the transaction's timeout is not zero and there is an
  attempt (`aux_transmitter.hpp` 65-74: at most 250 ms against 71 minutes).
- `WindowAssumption`, `CallsAssumption`: an echo window, and the gap between two
  polls, is at most half the clock; above it the signed comparison of
  `echo_tracker.hpp` 105 turns round. `StreamAssumption`: every length byte fits the
  buffer (`ByteMod + 2 <= MaximumPacketSize`: 256 and 258).
- `TransportAssumption`: the clock outlasts the decoder's timeout of 20 ms and the
  longest delay of the loop together, and every length byte fits the buffer, as above.
- `BridgeAssumption`: host packets have a valid checksum, as the router lets
  through no other (`packet_router.hpp` 51). `ControlledAssumption`: a query and an
  answer are packets the protocol can carry.
- `RetriesAssumption`: `MaximumAttempts >= 2` (the code has 3). It is needed: with one
  attempt a fault in the very round of RECOVER and ARM goes unreported.
- `CleanBus`: no noise, the mount does not begin between our look at BUSY and our
  claim (`~MountRaces`), the UART takes every packet whole (`~ShortWrites`; a short
  write is a fault, `aux_transmitter.hpp` 153), and for every packet of the host that it
  fits the drain timeout, that the echo window outlasts it by three rounds
  (`FitsWindow`), and that a claim, four rounds and the packet fit the transaction's
  timeout (`FitsTimeouts`). The window has a margin of 5 ms over the time on the wire
  (`echo_tracker.hpp` 20, 99). The bridge's loop sleeps one tick of 1 ms in every round
  (`main.cpp` 49, 640), so a round lasts 1 ms and its work; three rounds fit the margin
  if one lasts no more than 1.6 ms, which leaves 0.6 ms for the work. The drain timeout of 20 ms is what limits the
  packets, to 38 bytes; the longer ones the router accepts are outside this theorem, and
  `bridge_residue` shows what becomes of them. `MCUsbBridgeClean.cfg` meets it with
  nothing to spare but in the transaction's timeout (4 + 6 < 8 + 3, 4 <= 4,
  1 + 8 + 4 <= 14).
- `CleanTest`: the same of a query of six bytes; two rounds are enough for the window,
  because the bench image polls the UART and ticks in one round. `MCControlledTest.cfg`
  meets it (6 + 2 <= 9, 6 <= 8, 1 + 4 + 6 <= 12).
- `RoundShorterThanQuery`: a round of the bench loop, which does not sleep, is over
  before the bus carries six bytes, 3.1 ms.
- `WaitsAssumption`: a drawing put off, or the end of the boot screen, still finds
  its mark or overlay on (`display_controller.cpp` 20-21, `display_model.hpp` 39-40:
  500 ms is at most 1800, and with a gap of the task at most 750; 1800 ms with it at
  most 2000). So a gap, the 50 ms of the receive timeout and one drawing, may last
  200 ms.
- `BelowHalfTheClock`: the firmware has been up for less than half of `millis()`, 24.8
  days, less an overlay. Beyond it `OverlayTemporary` is false (`display_uptime`).

The arguments, module by module:

- `AuxTransmitterProofs`. The invariants are not inductive alone:
  `OutputsFollowState` must hold for a fault to record the hold, and what has been
  handed to the UART depends on the state. So `IInv` is the conjunction of `TypeOK`,
  `OutputsFollowState`, `HandedOverByState` (in the states before the write nothing
  of this packet has been handed over), `OnlyVettedPackets` and
  `ResponseFlagFresh`; `IInvStep` has a lemma for each call and for each state of
  `tick`. In the refinement each call maps to one step of `AuxTransaction` or to
  none. `CountersAddUp` carries `Ledger` beside `IInv`. `TickOutcome` says once what
  a tick comes to (it stutters, advances, completes or faults); the two firmwares
  use that and none of `tick`'s cases.
- `AuxTransmitterTimingProofs`. `TimedInv` adds to `IInv` that the stopwatches agree
  with the ages the machine computes from its wrapping clock, and `WaitsInTime`: for
  every state a bound on the time since the packet was accepted, the sum of the
  longest waits of the attempts so far. It grows with `attempts`, so the proof
  multiplies by a variable: `ProductMonotone` and `WaitedGrows` are the only places
  where that is looked into.
- `QueueProofs`, the host transport. `HostInv` has two sides that touch only in the
  metrics. On the way in, the burst is cut into what was read, what has come in and
  what is to come (`BurstUnderWay`), and the decoder is where a reader of the first
  part would be (`ReadInStep`, by `Synced` of `StreamProofs`). That a byte of the rest
  finds the decoder unexpired is a matter of time: `ReadInTime` bounds the age of the
  buffer by the host's pause while nothing has come in, and by the time since the last
  `service` once something has, and `NotStalled` bounds that; before the burst's first
  byte the buffer is older than the timeout (`BufferIsYoung` relates its age to the silence). On the way out,
  what waits is the flattened queue; `FlattenAppend` and `FlattenHead` say what a
  packet routed and a packet taken do to it, `WriteAdvances` what a partial write
  does to the rest. `ReadAllKeeps` is the induction over the bytes of one call.
- `QueueProofs`, the ring. The argument is about remainders: `Wrap` says what
  `% Capacity` is below twice the capacity, and `SlotsDiffer` that two items less than a
  capacity apart are in different slots; so a push appends to `Contents` and a pop
  takes its tail.
- `StreamProofs`. What the operators of decoder and tracker return, case by case,
  and the clock: `MsWraps` and `MsHalf`. A run of bytes is a recursive function, and
  what every step keeps a run keeps (`RunExists`, `RunStays`). The library's
  induction takes a predicate, which the provers cannot instantiate;
  `NatSetInduction` takes a set instead and follows from the well-foundedness of
  `<` on the naturals, so these folds are within reach. Of frames: `Synced` says that
  for every way to cut a burst into frames and a beginning, what was decoded is those
  frames and the buffer that beginning, and `SyncedGrows` that a byte keeps it so: a
  sequence of frames cut in two ways is cut at the same places, since a frame's second
  byte says where it ends. The decoder and the host transport both rest on it.
- `DriversProofs`, the tracker. `CallsInv`: while it tracks, what was heard is the
  matched prefix (`OpenTracking`); afterwards it is what was given back, or a whole
  echo (`ClosedTracking`); and the wrapping deadline is as far off as the true age
  says (`ClockFollowsAge`). `ReachedIsOver` turns the signed comparison into that age,
  and `WireTimeIsWindow` the window, a quotient rounded up, into bits on the wire.
- `DriversProofs`, the decoder. `FramesAfterSilenceDecoded` speaks of whole frames
  only, which says nothing about the bytes before a frame is complete. The inductive
  invariant follows each frame from its first byte: what was heard since the silence
  and the decoder are `Synced`. `EndsWith` ties the buffer and the last packet to the
  end of what was heard.
- `UsbBridgeProofs`. `BridgeInv` has `IInv`, the types, the two counting
  properties, and the three facts that explain them: `NoMountOnOurBus`,
  `FaultNoted` (a pending recovery is of this fault, and a fault not yet noted is of
  this round) and `EchoOfThisPacket` (tracking is open only from the write to the
  echo, with the match count of its beginning). `BooksKeep` does the counting for
  every step from what `TickOutcome` says.
- `UsbBridgeProofs`, a clean bus. `CleanInv` adds to `BridgeInv` where each byte of the
  packet is and when. Before the write nothing is in the receive buffer or the UART
  (`Quiet`: the claim is made on an idle bus, after the round's reads). From then on
  what the tracker has matched, what waits to be read and what is still in the UART
  are the packet, in that order (`EchoInOrder` of `StreamProofs`), and the UART gets
  shorter by a byte in each byte time. `InTime` bounds the hold of BUSY and the drain by
  the rounds (`HeldInTime`, `DrainsInTime`, with `CleanTick` for every state of
  `tick`), so that neither timeout comes first; `EchoAwaited` bounds what is left of
  the echo window (`Left`), and says that the second round after the drain no longer
  finds the echo missing. The bytes need the times: a window that ended would give them
  to the decoder, and the echo would never be complete.
- `ControlledTestProofs`. The loop sees ends as changes of the state since its last
  look. `TestInv` is what holds at a settled point, what is still to be reported
  after a tick (`Unsettled`), and that the state seen last tells an end that was
  reported from one that was not (`LastStateSeen`). `CreditInv` adds that an answer
  read is kept until the transmitter takes it (`AnswersCredited`), and that no fault
  is left over in a transaction. `EchoInv` adds that tracking is of the query being
  written, and how many bytes a round can have brought before the write. On a clean
  bus its own `CleanInv` is `CreditInv` with the same parts for a query armed with an
  empty UART (`QuietQuery`), RECOVER and ARM included: RECOVER leaves the tracker
  active, but the loop feeds it nothing until the new query's write begins it afresh.
- `DisplayProofs`. `RoundOutcome` says what a round of the task comes to (it leaves
  the boot screen, or the drawing, or draws), and the rest uses that. `SettledInv`
  follows the counts along their way: a silence longer than the time since the last
  publication has put them into the queue, longer by the task's gap into its snapshot,
  longer by the drawing interval on the panel. The properties differ in what may be
  put off. A drawing put off needs its deadline still to come when it is made up for:
  `PutOffInTime` relates the age of a count, the deadline it set and the last drawing,
  and is where `WaitsAssumption` is used. Going off is the other direction:
  `OverlayInv` and `MarksInv` bound every deadline by the silence (no deadline is
  further off than its hold, less the silence since what set it). The proof of
  `ScreenComesToRest` corrected the property: the task puts a mark's deadline off in
  every round in which the snapshot it holds still has the pulse, which is until the
  publication after the packet's, so the mark's time runs from the second of the two
  (`MarkTime`). The instance of `display`, with an interval of one step, does not tell
  the two apart.

Only model-checked:

- `EverythingDelivered` and `AlwaysReadyAgain`: liveness, of which the prover has no
  fairness to offer.
- `NoSelfEcho` and `MountHeard`: they are about what the decoder makes of the mount's
  bytes. A recovery after a contention fault resets the decoder within the mount's
  frame, so their proof would have to follow every frame of the mount from the inside
  as well as the packet and its echo.
- `OnlyOwnBytesDriven` and, beyond half the clock, `OverlayTemporary`: violated, see
  the findings.

## Not modelled

- Board I/O: pin numbers, polarities and start-up levels, constants whose effect is
  the initial state `tx_enabled = busy_asserted = FALSE`. Mode and profile names.
- `setup`, but for what it leaves in the snapshot: it opens ports and prints. The
  static allocation of the display's queue and task is taken to succeed.
- Printing: STATUS, LIMITS, captured packets, the layout of screens. How a command
  line is put together from characters: a line too long is cut and its rest taken
  for a line of its own, so any line may be any command, as in the model.
- The diagnostics ring (`diagnostics.hpp`): `setup` records three events into its 32
  slots and nothing reads them or counts with it, so none of its edges is met.
- `write_backpressure`, and counters that only the status printout reads.
- Progress of the controlled test: `ResolvedInTime` bounds a transaction and
  `QueryTracksTransmitter` ties the prompt to it; a liveness property over
  `ControlledTest` is beyond TLC's time at these bounds.

## Plan

Done: the modules above, in the order codec, transmitter, timing, decoder,
tracker, queue, router, transport, bridge; then display, bus and controlled test.

Proved: what the section on proofs lists, from the transmitter outwards to the two
firmwares that transmit, and the display from the counters to the panel.

Left:

- `NoSelfEcho` and `MountHeard` only together with the mount: a recovery after a
  contention fault resets the decoder in the middle of what the mount is sending, so
  that they rest on what its frames look like from the inside.
- Liveness of the controlled test; that the ring's users may take it for a sequence.

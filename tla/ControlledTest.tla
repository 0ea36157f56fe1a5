----------------------------- MODULE ControlledTest -----------------------------
(***************************************************************************)
(* ServiceControlledTest of src/main.cpp: the bench image, which sends one *)
(* version query for each ARM an operator types, on the AuxBus.  One round *)
(* of the loop is the phases command, poll, tick, settle; the loop does    *)
(* not sleep, so rounds may follow each other in no time, or a few bytes   *)
(* of the bus apart.                                                       *)
(* A line of input is the command it holds; a line that is refused, and    *)
(* STATUS, change nothing and are left out.                                *)
(***************************************************************************)
EXTENDS AuxBus, EchoTracker, AuxStreamDecoder

CONSTANT Destinations      \* the destinations the operator may select

ControlledTestSource == 3  \* kControlledTestSource

QueryTo(d) == BuildControlledVersionQuery(ControlledTestSource, d)

\* The mount's answer, with some version in it.
AnswerFrom(d) == Frame(<<d, ControlledTestSource, GetVersion, 0, 0>>, "kAuxBus")

ASSUME ControlledAssumption ==
  /\ MsMod = ClockMod
  /\ Destinations \subseteq Byte /\ ControlledTestSource \in Byte
  /\ {QueryTo(d) : d \in Destinations} \subseteq Packets
  /\ {AnswerFrom(d) : d \in Destinations} \subseteq AuxPacket

\* The first look at a busy bus does not fail a query: a fault in the very round
\* of RECOVER and ARM would leave the state the loop saw last, and go unnoticed.
ASSUME RetriesAssumption == MaximumAttempts >= 2

VARIABLES pc,                     \* the phase of the round
          tracker, controlled_aux_decoder,
          active_query,
          pending_response, pending_response_valid,
          last_tx_state,
          query_active, echo_tracking,
          destination_selected, selected_destination,
          echo_matches_at_start,
          \* outside the program:
          owed,                   \* the destinations that owe an answer
          \* history:
          answer,                 \* since ARM an answer was read: "none", or in
                                  \* this round, "new", or "old", in an earlier
                                  \* round the query outlived
          reported,               \* how many COMPLETE and FAULT lines were printed
          quiet_line              \* the UART was empty when the query was armed

tracking  == <<tracker, echo_tracking, echo_matches_at_start>>
pending   == <<pending_response, pending_response_valid>>
selection == <<destination_selected, selected_destination>>
query     == <<active_query, query_active>>
testVars  == <<vars, bus, pc, tracking, controlled_aux_decoder, pending, last_tx_state,
               selection, query, owed, answer, reported, quiet_line>>

TestInit ==
  /\ BusInit
  /\ pc = "command"
  /\ tracker = InitTracker /\ echo_tracking = FALSE /\ echo_matches_at_start = 0
  /\ controlled_aux_decoder = InitDecoder
  /\ pending_response = EmptyPacket /\ pending_response_valid = FALSE
  /\ last_tx_state = "kIdle"
  /\ destination_selected = FALSE /\ selected_destination = 0
  /\ active_query = EmptyPacket /\ query_active = FALSE
  /\ owed = {}
  /\ answer = "none" /\ reported = [complete |-> 0, fault |-> 0] /\ quiet_line = TRUE

----------------------------------------------------------------------------
(* PollControlledTestCommands: any number of lines *)

MaySelect == ~query_active /\ state = "kIdle"

SelectDestination(d) ==
  /\ pc = "command" /\ MaySelect
  /\ selected_destination' = d /\ destination_selected' = TRUE
  /\ UNCHANGED <<vars, bus, pc, tracking, controlled_aux_decoder, pending,
                 last_tx_state, query, owed, answer, reported, quiet_line>>

\* Mutant: the tracker's bytes are still taken for an echo.
StopTracking_Not == UNCHANGED echo_tracking

StopTracking == echo_tracking' = FALSE

\* Mutant: a response left over from an earlier query is kept.
ForgetAnswers_Not == UNCHANGED pending_response_valid

ForgetAnswers == pending_response_valid' = FALSE

ArmSingleVersionQuery ==
  /\ pc = "command" /\ metrics["start_requests"] < MaxStarts
  /\ ~query_active /\ state = "kIdle" /\ destination_selected
  /\ active_query' = QueryTo(selected_destination)
  /\ Start(active_query', "kControlledTest", "kControlledTest")
  /\ IF Refusal(active_query', "kControlledTest", "kControlledTest") = "none"
       THEN /\ query_active' = TRUE
            /\ StopTracking
            /\ ForgetAnswers
       ELSE UNCHANGED <<query_active, echo_tracking, pending_response_valid>>
  /\ answer' = "none" /\ quiet_line' = (tx_fifo = <<>>)
  /\ UNCHANGED <<bus, pc, tracker, echo_matches_at_start, controlled_aux_decoder,
                 pending_response, last_tx_state, selection, owed, reported>>

RecoverCommand ==
  /\ pc = "command" /\ metrics["recoveries"] < MaxRecoveries
  /\ metrics["start_requests"] < MaxStarts       \* bound: a query is to follow
  /\ Recover
  /\ query_active' = FALSE
  /\ StopTracking
  /\ ForgetAnswers
  /\ destination_selected' = FALSE
  /\ UNCHANGED <<bus, pc, tracker, echo_matches_at_start, controlled_aux_decoder,
                 pending_response, last_tx_state, selected_destination, active_query,
                 owed, answer, reported, quiet_line>>

CommandsDone ==
  /\ pc = "command" /\ pc' = "poll"
  /\ UNCHANGED <<vars, bus, tracking, controlled_aux_decoder, pending, last_tx_state,
                 selection, query, owed, answer, reported, quiet_line>>

----------------------------------------------------------------------------
(* PollControlledAux *)

\* Mutant: a response is kept only if the transmitter already waits for it.
KeepsResponse_IfAwaited(p) ==
  IsControlledVersionResponse(active_query, p) /\ state = "kResponseWait"

KeepsResponse(p) == IsControlledVersionResponse(active_query, p)

\* What a byte that is no echo does, in a state of the decoder and the response.
HearByte(side, byte) ==
  LET o == Feed(side.decoder, byte, now_us, "kAuxBus")
  IN  [decoder |-> o.decoder,
       kept    |-> IF o.result = "kPacket" /\ KeepsResponse(o.packet)
                     THEN <<o.packet>> ELSE side.kept,
       heard   |-> side.heard \/ (o.result = "kPacket"
                                  /\ IsControlledVersionResponse(active_query, o.packet))]

AfterBytes(start, bytes) ==
  LET after[i \in 0..Len(bytes)] ==
        IF i = 0 THEN start ELSE HearByte(after[i - 1], bytes[i])
  IN  after[Len(bytes)]

HearBytes(bytes) ==
  LET side == AfterBytes([decoder |-> controlled_aux_decoder, kept |-> <<>>,
                          heard |-> FALSE], bytes)
  IN  /\ controlled_aux_decoder' = side.decoder
      /\ pending_response_valid' = (pending_response_valid \/ side.kept # <<>>)
      /\ pending_response' = IF side.kept # <<>> THEN side.kept[1] ELSE pending_response
      /\ answer' = IF side.heard /\ answer = "none" THEN "new" ELSE answer

PollByte ==
  LET o == IF echo_tracking THEN FeedByte(tracker, Head(rx_fifo), now_us)
           ELSE [tracker |-> tracker, forward |-> <<Head(rx_fifo)>>]
      ended == echo_tracking /\ ~o.tracker.active
  IN  /\ pc = "poll" /\ rx_fifo # <<>>
      /\ rx_fifo' = Tail(rx_fifo)
      /\ tracker' = o.tracker
      /\ echo_tracking' = (echo_tracking /\ ~ended)
      /\ IF ended /\ o.tracker.matches > echo_matches_at_start
           THEN NotifyEchoComplete ELSE UNCHANGED vars
      /\ HearBytes(o.forward)
      /\ UNCHANGED <<pc, tx_fifo, mount, noise, round_us, driven, echo_matches_at_start,
                     last_tx_state, selection, query, owed, reported, quiet_line>>

PollDone ==
  /\ pc = "poll" /\ rx_fifo = <<>>
  /\ pc' = "tick"
  /\ UNCHANGED <<vars, bus, tracking, controlled_aux_decoder, pending, last_tx_state,
                 selection, query, owed, answer, reported, quiet_line>>

----------------------------------------------------------------------------
(* The tick, and what the loop makes of it *)

TickTransmitter ==
  /\ pc = "tick" /\ pc' = "settle"
  /\ TickOnBus
  /\ UNCHANGED <<tracking, controlled_aux_decoder, pending, last_tx_state, selection,
                 query, owed, answer, reported, quiet_line>>

\* Mutant: tracking begins only when the transmitter waits for the echo.
BeginsTracking_Late == query_active /\ ~echo_tracking /\ state = "kEchoWait"

BeginsTracking == query_active /\ ~echo_tracking /\ state = "kWrite"

\* Mutant: the state is noted only when a query ends.
NoteState_AtEnds(ends) == last_tx_state' = IF ends THEN state ELSE last_tx_state

NoteState(ends) == last_tx_state' = state

Completes == state # last_tx_state /\ state = "kIdle" /\ query_active
Fails     == state # last_tx_state /\ state = "kFault"

Settle ==
  LET accepted == pending_response_valid /\ AcceptsResponse(pending_response)
      ends     == Completes \/ Fails
  IN  /\ pc = "settle" /\ pc' = "command"
      /\ IF pending_response_valid THEN NotifyResponse(pending_response)
         ELSE UNCHANGED vars
      /\ pending_response_valid' = (pending_response_valid /\ ~accepted /\ ~ends)
      /\ tracker' = IF BeginsTracking THEN Begin(tracker, active_query, now_us) ELSE tracker
      /\ echo_matches_at_start' =
           IF BeginsTracking THEN tracker.matches ELSE echo_matches_at_start
      /\ echo_tracking' = (~Fails /\ IF BeginsTracking THEN Begins(active_query)
                                      ELSE echo_tracking)
      /\ query_active' = (query_active /\ ~ends)
      /\ NoteState(ends)
      /\ reported' = [complete |-> reported.complete + IF Completes THEN 1 ELSE 0,
                      fault    |-> reported.fault + IF Fails THEN 1 ELSE 0]
      /\ answer' = IF answer = "new" /\ InFlight THEN "old" ELSE answer
      /\ UNCHANGED <<bus, controlled_aux_decoder, pending_response, selection,
                     active_query, owed, quiet_line>>

Round ==
  \/ \E d \in Destinations : SelectDestination(d)
  \/ ArmSingleVersionQuery \/ RecoverCommand \/ CommandsDone
  \/ PollByte \/ PollDone
  \/ TickTransmitter \/ Settle

----------------------------------------------------------------------------
(* The bus.  Bytes come between the poll and the tick: as late as they can to be
   read in this round, as early as they can to be out of date in the tick. *)

\* A destination that has heard the whole of a query owes an answer.
BusSlot ==
  /\ pc = "tick"
  /\ BusMoves(/\ state \in {"kIdle", "kFault"} /\ ~echo_tracking
              /\ controlled_aux_decoder.buffer = <<>>)
  /\ owed' = owed \cup {d \in Destinations : driven # driven' /\ driven' = QueryTo(d).bytes}
  /\ UNCHANGED <<pc, tracking, controlled_aux_decoder, pending, last_tx_state, selection,
                 query, answer, reported, quiet_line>>

\* The mount answers sooner or later, or never.
MountBegins ==
  /\ pc = "tick"
  /\ \E d \in owed : MountSends(AnswerFrom(d)) /\ owed' = owed \ {d}
  /\ UNCHANGED <<pc, tracking, controlled_aux_decoder, pending, last_tx_state, selection,
                 query, answer, reported, quiet_line>>

TestNext == Round \/ BusSlot \/ MountBegins

TestSpec == TestInit /\ [][TestNext]_testVars

----------------------------------------------------------------------------
(* What must be true of it *)

\* Between rounds the loop and the transmitter agree: the query the loop counts
\* as active is the packet in flight and goes to the destination the operator
\* sees selected, and every query that ended by itself was reported, each once,
\* although the loop only compares the state with the one it saw last.
QueryTracksTransmitter ==
  pc = "command" =>
    /\ query_active <=> InFlight
    /\ InFlight => /\ packet = active_query
                   /\ destination_selected /\ packet = QueryTo(selected_destination)
    /\ reported.complete = metrics["completed_packets"]
    /\ reported.fault = metrics["faults"]

\* A query is completed by an answer read since it was armed, never by one left
\* over from an earlier query that failed or was recovered from.
AnswerReadSinceArmed == (response_complete /\ InFlight) => answer # "none"

\* An echo noted for a query came after that query's own write: one that ends before
\* it, of an abandoned query whose tracking goes on, is not taken for it, though the
\* tracker itself is never cancelled.
EchoIsOfThisQuery == (echo_complete /\ InFlight) => handed_over

\* An answer that was read in an earlier round than the one whose tick finds the
\* deadline passed counts, also one that arrived before the transmitter had come
\* to wait for it.
NoAnswerLost == last_fault = "kResponseTimeout" => answer # "old"

\* On a clean bus the echo is always recognised, so a query that was armed with
\* an empty UART only fails for want of the bus or of an answer.
CleanBusEchoes ==
  quiet_line => last_fault \in {"kNone", "kContentionTimeout", "kResponseTimeout"}
================================================================================

------------------------------ MODULE TrackerCalls ------------------------------
(***************************************************************************)
(* One EchoTracker and every sequence of the calls main.cpp makes: begin   *)
(* for each packet, poll and feed while it tracks, cancel on a recovery.   *)
(***************************************************************************)
EXTENDS EchoTracker

CONSTANTS EchoPackets,  \* the packets begin is given
          MaxPollGap,   \* bound: the longest time without feed or poll
          MaxHeard,     \* bound: the bytes fed between two begins
          MaxBegins     \* bound: how often begin is called

ASSUME CallsAssumption ==
  /\ EchoPackets \subseteq AuxPacket
  /\ {MaxHeard, MaxBegins} \subseteq Nat
  /\ MaxPollGap \in 0..(MsMod \div 2)

VARIABLES tracker, clock_ms,
          begins,      \* how often begin was called, up to MaxBegins
          awaited,     \* history: the bytes of the last begun packet
          heard,       \* history: the bytes fed since begin
          released,    \* history: the bytes forwarded since begin
          abandoned,   \* history: this tracking ended in cancel()
          age_ms,      \* history: the true time since begin, while active
          unpolled_ms  \* history: the time since the last feed or poll

trackerVars == <<tracker, clock_ms, begins, awaited, heard, released,
                 abandoned, age_ms, unpolled_ms>>

TrackerInit ==
  /\ tracker = InitTracker /\ clock_ms = 0
  /\ begins = 0
  /\ awaited = <<>> /\ heard = <<>> /\ released = <<>> /\ abandoned = FALSE
  /\ age_ms = 0 /\ unpolled_ms = 0

\* A refused packet leaves the last tracking and its history alone.
CallBegin(p) ==
  /\ begins < MaxBegins
  /\ begins' = begins + 1
  /\ tracker' = Begin(tracker, p, clock_ms)
  /\ IF Begins(p)
       THEN /\ awaited' = p.bytes
            /\ heard' = <<>> /\ released' = <<>> /\ abandoned' = FALSE
            /\ age_ms' = 0 /\ unpolled_ms' = 0
       ELSE UNCHANGED <<awaited, heard, released, abandoned, age_ms, unpolled_ms>>
  /\ UNCHANGED clock_ms

CallFeed(byte) ==
  LET o == FeedByte(tracker, byte, clock_ms)
  IN  /\ Len(heard) < MaxHeard
      /\ tracker' = o.tracker
      /\ heard' = Append(heard, byte)
      /\ released' = released \o o.forward
      /\ unpolled_ms' = 0
      /\ UNCHANGED <<clock_ms, begins, awaited, abandoned, age_ms>>

CallPoll ==
  LET o == Poll(tracker, clock_ms)
  IN  /\ tracker' = o.tracker
      /\ released' = released \o o.forward
      /\ unpolled_ms' = 0
      /\ UNCHANGED <<clock_ms, begins, awaited, heard, abandoned, age_ms>>

CallCancel ==
  /\ tracker' = Cancel(tracker)
  /\ abandoned' = (abandoned \/ tracker.active)
  /\ UNCHANGED <<clock_ms, begins, awaited, heard, released, age_ms, unpolled_ms>>

PassMs ==
  /\ tracker.active => unpolled_ms < MaxPollGap
  /\ clock_ms' = (clock_ms + 1) % MsMod
  /\ age_ms' = IF tracker.active THEN age_ms + 1 ELSE age_ms
  /\ unpolled_ms' = IF tracker.active THEN unpolled_ms + 1 ELSE 0
  /\ UNCHANGED <<tracker, begins, awaited, heard, released, abandoned>>

TrackerNext ==
  \/ \E p \in EchoPackets : CallBegin(p)
  \/ \E byte \in Byte : CallFeed(byte)
  \/ CallPoll
  \/ CallCancel
  \/ PassMs

TrackerSpec == TrackerInit /\ [][TrackerNext]_trackerVars

----------------------------------------------------------------------------
(* What must be true of it *)

\* No byte of the bus is lost or invented: of what was heard since begin, a
\* whole echo or nothing is swallowed, the rest forwarded in order, whether the
\* tracking ended by a match, a mismatch or a deadline; while it is open the
\* swallowed bytes are the matched prefix.  Only cancel() drops a prefix.
BytesConserved ==
  LET swallowed ==
        IF tracker.active THEN Partial(tracker)
        ELSE IF heard = released THEN <<>> ELSE awaited
  IN  abandoned \/ heard = swallowed \o released

\* The time the awaited bytes take on the wire has passed since begin, and then the
\* margin: Baud times the milliseconds against the bits, so that nothing is rounded.
WireTimeOver(ms) == (ms - DeadlineMargin) * Baud >= Len(awaited) * BitsPerCharacter * 1000

\* A tracking is not cut short while its bytes and the margin can still be on the
\* wire, and outlives them by no more than the time to the next poll or byte:
\* however the time on the wire divides by the baud rate, and across wraps.
TrackingBounded ==
  tracker.active =>
    /\ ~WireTimeOver(age_ms - unpolled_ms)
    /\ DeadlineReached(clock_ms, tracker.deadline_ms) <=> WireTimeOver(age_ms)

\* The owner takes a growing match count for an echo: it grows only with a byte
\* that completes the very bytes sent, heard in full since begin, in time.
MatchIsTheEcho ==
  [][tracker'.matches # tracker.matches =>
       /\ heard' = awaited
       /\ ~WireTimeOver(age_ms)
       /\ released' = <<>>]_trackerVars
================================================================================

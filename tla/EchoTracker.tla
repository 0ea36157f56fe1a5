------------------------------- MODULE EchoTracker -------------------------------
(***************************************************************************)
(* class EchoTracker of include/echo_tracker.hpp: swallows the echo of a   *)
(* packet this firmware sends and gives back everything else.  A tracker   *)
(* is a record; its methods are operators whose result carries the bytes   *)
(* to forward (EchoForward).                                               *)
(***************************************************************************)
EXTENDS AuxProtocol, Millis

CONSTANTS Baud,              \* kBaud
          BitsPerCharacter,  \* kBitsPerCharacter
          DeadlineMargin     \* kDeadlineMarginMs

ASSUME TrackerAssumption ==
  /\ Baud \in Nat \ {0}
  /\ BitsPerCharacter \in Nat \ {0}
  /\ DeadlineMargin \in Nat

Tracker == [expected : Seq(Byte), matched : Nat, deadline_ms : Ms,
            active : BOOLEAN, matches : Nat, mismatches : Nat, timeouts : Nat]

InitTracker == [expected |-> <<>>, matched |-> 0, deadline_ms |-> 0,
                active |-> FALSE, matches |-> 0, mismatches |-> 0, timeouts |-> 0]

\* Mutant: no margin.
EchoWindowMs_NoMargin(size) ==
  (size * BitsPerCharacter * 1000 + Baud - 1) \div Baud

\* Mutant: the time on the wire is rounded down.
EchoWindowMs_RoundedDown(size) ==
  (size * BitsPerCharacter * 1000) \div Baud + DeadlineMargin

\* The time the bytes take on the wire, rounded up, and a margin.
EchoWindowMs(size) ==
  (size * BitsPerCharacter * 1000 + Baud - 1) \div Baud + DeadlineMargin

\* No deadline is set more than half the clock ahead: it would be taken for past.
ASSUME WindowAssumption == EchoWindowMs(MaximumPacketSize) <= MsMod \div 2

\* Mutant: an absolute comparison, wrong when the deadline is past the wrap.
DeadlineReached_Absolute(now, deadline) == now >= deadline

\* The sign of a 32-bit difference: reached for half the clock's values.
DeadlineReached(now, deadline) == (now - deadline) % MsMod < MsMod \div 2

\* begin() refuses an empty or oversized packet and leaves the tracker alone.
Begins(p) == Size(p) \in 1..MaximumPacketSize

\* Mutant: the matched prefix of an earlier packet is kept.
Begin_KeepMatched(t, p, now) ==
  IF Begins(p)
    THEN [t EXCEPT !.expected = p.bytes,
                   !.deadline_ms = (now + EchoWindowMs(Size(p))) % MsMod,
                   !.active = TRUE]
    ELSE t

Begin(t, p, now) ==
  IF Begins(p)
    THEN [t EXCEPT !.expected = p.bytes,
                   !.matched = 0,
                   !.deadline_ms = (now + EchoWindowMs(Size(p))) % MsMod,
                   !.active = TRUE]
    ELSE t

\* releasePartial(): what was swallowed so far.
Partial(t) == SubSeq(t.expected, 1, t.matched)

\* The byte that ends the tracking follows the partial echo if it fits.
WithByte(forward, byte) ==
  IF Len(forward) < MaximumPacketSize THEN Append(forward, byte) ELSE forward

\* Mutant: a mismatch gives back the odd byte but not the matched prefix.
FeedByte_DropPartial(t, byte, now) ==
  CASE ~t.active -> [tracker |-> t, forward |-> <<byte>>]
    [] t.active /\ byte = t.expected[t.matched + 1] ->
         LET whole == t.matched + 1 = Len(t.expected)
         IN  [tracker |-> [t EXCEPT !.matched = @ + 1, !.active = ~whole,
                                    !.matches = IF whole THEN @ + 1 ELSE @],
              forward |-> <<>>]
    [] OTHER ->
         [tracker |-> [t EXCEPT !.active = FALSE, !.mismatches = @ + 1],
          forward |-> <<byte>>]

FeedByte(t, byte, now) ==
  CASE ~t.active -> [tracker |-> t, forward |-> <<byte>>]
    [] t.active /\ DeadlineReached(now, t.deadline_ms) ->
         [tracker |-> [t EXCEPT !.active = FALSE, !.timeouts = @ + 1],
          forward |-> WithByte(Partial(t), byte)]
    [] t.active /\ ~DeadlineReached(now, t.deadline_ms)
         /\ byte = t.expected[t.matched + 1] ->
         LET whole == t.matched + 1 = Len(t.expected)
         IN  [tracker |-> [t EXCEPT !.matched = @ + 1, !.active = ~whole,
                                    !.matches = IF whole THEN @ + 1 ELSE @],
              forward |-> <<>>]
    [] OTHER ->
         [tracker |-> [t EXCEPT !.active = FALSE, !.mismatches = @ + 1],
          forward |-> WithByte(Partial(t), byte)]

Poll(t, now) ==
  IF t.active /\ DeadlineReached(now, t.deadline_ms)
    THEN [tracker |-> [t EXCEPT !.active = FALSE, !.timeouts = @ + 1],
          forward |-> Partial(t)]
    ELSE [tracker |-> t, forward |-> <<>>]

Cancel(t) == [t EXCEPT !.expected = <<>>, !.matched = 0, !.active = FALSE]
================================================================================

----------------------------- MODULE DriversProofs -----------------------------
(***************************************************************************)
(* Proofs about the two drivers of the components that read the bus byte   *)
(* by byte: TrackerCalls, for every packet, every byte heard and every     *)
(* order of the calls, and DecoderStream, for every stream of bytes, every *)
(* spacing and every frame length; both for every clock length.            *)
(***************************************************************************)
EXTENDS TrackerCalls, DecoderStream, StreamProofs

----------------------------------------------------------------------------
(* The tracker under every sequence of calls *)

Window == EchoWindowMs(Len(awaited))

CallsType ==
  /\ TrackerOK(tracker) /\ clock_ms \in Ms /\ begins \in Nat
  /\ awaited \in Seq(Byte) /\ heard \in Seq(Byte) /\ released \in Seq(Byte)
  /\ abandoned \in BOOLEAN /\ age_ms \in Nat /\ unpolled_ms \in Nat

\* While it tracks, all it heard is the matched prefix, and it forwarded nothing.
OpenTracking ==
  tracker.active =>
    /\ tracker.expected = awaited /\ Len(awaited) \in 1..MaximumPacketSize
    /\ heard = Partial(tracker) /\ released = <<>> /\ ~abandoned

ClosedTracking ==
  ~tracker.active /\ ~abandoned => heard = released \/ heard = awaited \o released

\* The clock and the deadline are as far apart as the true age and the window,
\* but for one turn of the clock.
ClockFollowsAge ==
  tracker.active =>
    /\ age_ms < Window + unpolled_ms /\ unpolled_ms <= MaxPollGap
    /\ (clock_ms - tracker.deadline_ms) - (age_ms - Window) \in {-MsMod, 0, MsMod}

CallsInv == CallsType /\ OpenTracking /\ ClosedTracking /\ ClockFollowsAge

----------------------------------------------------------------------------
(* The clock *)

\* So the deadline is reached exactly when the window is over.
LEMMA ReachedIsOver ==
  ASSUME CallsInv, tracker.active
  PROVE  /\ Window \in 1..(MsMod \div 2)
         /\ DeadlineReached(clock_ms, tracker.deadline_ms) <=> age_ms >= Window
<1> DEFINE x == clock_ms - tracker.deadline_ms
           d == age_ms - Window
<1>1. Window \in 1..(MsMod \div 2)
  BY WindowBounds DEF CallsInv, OpenTracking, Window
<1>2. /\ clock_ms \in Int /\ tracker.deadline_ms \in Int /\ age_ms \in Nat
      /\ unpolled_ms \in Nat
  BY TrackerFields DEF CallsInv, CallsType, Ms
<1>3. /\ age_ms < Window + unpolled_ms /\ unpolled_ms <= MaxPollGap
      /\ x - d \in {-MsMod, 0, MsMod}
  BY DEF CallsInv, ClockFollowsAge
<1>4. MsMod \div 2 \in Nat /\ MaxPollGap \in Nat /\ MaxPollGap <= MsMod \div 2
  BY MsHalf, CallsAssumption
<1>5. x \in Int /\ d \in Int /\ -(MsMod \div 2) <= d /\ d < MsMod \div 2
  BY <1>1, <1>2, <1>3, <1>4
<1>6. d >= 0 <=> age_ms >= Window
  BY <1>1, <1>2
<1>7. DeadlineReached(clock_ms, tracker.deadline_ms) <=> x % MsMod < MsMod \div 2
  BY DEF DeadlineReached
<1> HIDE DEF x, d
<1>8. x % MsMod < MsMod \div 2 <=> d >= 0
  BY <1>3, <1>5, SignOfDifference
<1>9. QED
  BY <1>1, <1>6, <1>7, <1>8

\* The time on the wire, unrounded, is over when the window is.
LEMMA WireTimeIsWindow ==
  ASSUME CallsInv, NEW ms \in Int
  PROVE  Window \in Nat /\ (ms >= Window <=> WireTimeOver(ms))
<1>1. Len(awaited) \in Nat
  BY DEF CallsInv, CallsType
<1>2. QED
  BY <1>1, WindowIsWireTime DEF Window, WireTimeOver

----------------------------------------------------------------------------
(* The calls *)

LEMMA CallsInvInit == TrackerInit => CallsInv
<1> SUFFICES ASSUME TrackerInit PROVE CallsInv
  OBVIOUS
<1>1. /\ TrackerOK(tracker) /\ ~tracker.active /\ 0 \in Ms /\ <<>> \in Seq(Byte)
  BY InitTrackerOK, MillisAssumption DEF TrackerInit, InitTracker, Ms
<1>2. QED
  BY <1>1 DEF TrackerInit, CallsInv, CallsType, OpenTracking, ClosedTracking,
     ClockFollowsAge

LEMMA BeginKeeps ==
  ASSUME CallsInv, NEW p \in EchoPackets, CallBegin(p)
  PROVE  CallsInv'
<1>1. p \in AuxPacket /\ CallsType
  BY CallsAssumption DEF CallsInv
<1>2. CASE ~Begins(p)
  <2>1. UNCHANGED <<tracker, clock_ms, awaited, heard, released, abandoned, age_ms, unpolled_ms>>
    BY <1>2 DEF CallBegin, Begin
  <2>2. begins' \in Nat
    BY <1>1 DEF CallBegin, CallsType
  <2>3. QED
    BY <2>1, <2>2 DEF CallsInv, CallsType, OpenTracking, ClosedTracking, ClockFollowsAge,
       Window
<1>3. CASE Begins(p)
  <2> DEFINE w == EchoWindowMs(Size(p))
             deadline == (clock_ms + w) % MsMod
  <2>1. /\ awaited' = p.bytes /\ heard' = <<>> /\ released' = <<>> /\ abandoned' = FALSE
        /\ age_ms' = 0 /\ unpolled_ms' = 0 /\ clock_ms' = clock_ms /\ begins' = begins + 1
        /\ tracker' = Begin(tracker, p, clock_ms)
    BY <1>3 DEF CallBegin
  <2>2. /\ TrackerOK(tracker') /\ tracker'.active
    BY <1>1, <1>3, <2>1, BeginOK DEF CallsType
  <2>3. Size(p) = Len(awaited') /\ Size(p) \in 1..MaximumPacketSize /\ Window' = w
    BY <1>3, <2>1 DEF Size, Begins, Window
  <2>4. w \in 1..(MsMod \div 2)
    BY <2>3, WindowBounds
  <2> HIDE DEF w
  <2>5. deadline - clock_ms - w \in {-MsMod, 0}
    <3>1. clock_ms + w \in 0..(2 * MsMod - 1)
      BY <1>1, <2>4, MsHalf DEF CallsType, Ms
    <3>2. deadline = IF clock_ms + w < MsMod THEN clock_ms + w ELSE clock_ms + w - MsMod
      <4> DEFINE x == clock_ms + w
      <4>1. x \in 0..(2 * MsMod - 1)
        BY <3>1
      <4>2. deadline = x % MsMod /\ x = clock_ms + w
        OBVIOUS
      <4> HIDE DEF x, deadline
      <4>3. deadline = IF x < MsMod THEN x ELSE x - MsMod
        BY <4>1, <4>2, MsWraps
      <4>4. QED
        BY <1>1, <2>4, <4>2, <4>3, MsHalf DEF CallsType, Ms
    <3> HIDE DEF deadline
    <3>3. QED
      BY <1>1, <2>4, <3>2, MsHalf DEF CallsType, Ms
  <2> HIDE DEF deadline
  <2>6. /\ tracker'.expected = p.bytes /\ tracker'.matched = 0
        /\ tracker'.deadline_ms = deadline
    <3>1. tracker \in Tracker
      BY <1>1 DEF CallsType, TrackerOK
    <3>2. tracker' = [tracker EXCEPT !.expected = p.bytes, !.matched = 0,
                                     !.deadline_ms = deadline, !.active = TRUE]
      BY <1>3, <2>1 DEF Begin, deadline, w
    <3>3. QED
      BY <3>1, <3>2 DEF Tracker
  <2>7. Partial(tracker') = <<>>
    BY <1>1, <2>6 DEF Partial, AuxPacket
  <2>8. CallsType'
    <3>1. p.bytes \in Seq(Byte) /\ <<>> \in Seq(Byte) /\ begins + 1 \in Nat
      BY <1>1 DEF CallsType, AuxPacket
    <3>2. QED
      BY <1>1, <2>1, <2>2, <3>1 DEF CallsType
  <2>9. OpenTracking' /\ ClosedTracking'
    BY <2>1, <2>2, <2>3, <2>6, <2>7 DEF OpenTracking, ClosedTracking
  <2>10. ClockFollowsAge'
    <3>1. MaxPollGap \in Nat
      BY CallsAssumption, MsHalf
    <3>2. /\ clock_ms \in Int /\ MsMod \in Nat /\ deadline \in Int
      BY <1>1, <2>2, <2>6, MsHalf, TrackerFields DEF CallsType, Ms
    <3>3. (clock_ms - deadline) - (0 - w) \in {-MsMod, 0, MsMod}
      BY <2>4, <2>5, <3>2, MsHalf
    <3>4. 0 < w + 0 /\ 0 <= MaxPollGap
      BY <2>4, <3>1, MsHalf
    <3>5. QED
      BY <2>1, <2>3, <2>6, <3>3, <3>4 DEF ClockFollowsAge
  <2>11. QED
    BY <2>8, <2>9, <2>10 DEF CallsInv
<1>4. QED
  BY <1>2, <1>3

\* What a byte comes to, field by field.
LEMMA FeedByteFields ==
  ASSUME NEW t, TrackerOK(t), t.active, NEW byte \in Byte, NEW now
  PROVE  LET o == FeedByte(t, byte, now)
         IN  \/ /\ ~o.tracker.active /\ o.tracker.matches = t.matches
                /\ o.forward = WithByte(Partial(t), byte)
             \/ /\ ~DeadlineReached(now, t.deadline_ms)
                /\ byte = t.expected[t.matched + 1] /\ o.forward = <<>>
                /\ o.tracker.expected = t.expected
                /\ o.tracker.deadline_ms = t.deadline_ms
                /\ o.tracker.matched = t.matched + 1
                /\ o.tracker.active = (t.matched + 1 # Len(t.expected))
                /\ o.tracker.matches = IF o.tracker.active THEN t.matches ELSE t.matches + 1
<1> DEFINE o == FeedByte(t, byte, now)
<1>1. t \in Tracker
  BY DEF TrackerOK
<1>2. CASE DeadlineReached(now, t.deadline_ms)
  <2> DEFINE u == [t EXCEPT !.active = FALSE, !.timeouts = @ + 1]
  <2>1. o = [tracker |-> u, forward |-> WithByte(Partial(t), byte)]
    BY <1>2 DEF FeedByte
  <2>2. ~u.active /\ u.matches = t.matches
    BY TrackerTimesOut
  <2> HIDE DEF u, o
  <2>3. ~o.tracker.active /\ o.tracker.matches = t.matches
        /\ o.forward = WithByte(Partial(t), byte)
    BY <2>1, <2>2
  <2>4. QED
    BY <2>3 DEF o
<1>3. CASE ~DeadlineReached(now, t.deadline_ms) /\ byte # t.expected[t.matched + 1]
  <2> DEFINE u == [t EXCEPT !.active = FALSE, !.mismatches = @ + 1]
  <2>1. o = [tracker |-> u, forward |-> WithByte(Partial(t), byte)]
    BY <1>3 DEF FeedByte
  <2>2. ~u.active /\ u.matches = t.matches
    BY TrackerMismatches
  <2> HIDE DEF u, o
  <2>3. ~o.tracker.active /\ o.tracker.matches = t.matches
        /\ o.forward = WithByte(Partial(t), byte)
    BY <2>1, <2>2
  <2>4. QED
    BY <2>3 DEF o
<1>4. CASE ~DeadlineReached(now, t.deadline_ms) /\ byte = t.expected[t.matched + 1]
  BY <1>4, FeedMatches
<1>5. QED
  BY <1>2, <1>3, <1>4

\* The next byte of the echo extends the matched prefix.
LEMMA PartialGrows ==
  ASSUME NEW t, TrackerOK(t), t.active
  PROVE  /\ Append(Partial(t), t.expected[t.matched + 1])
              = SubSeq(t.expected, 1, t.matched + 1)
         /\ t.matched + 1 = Len(t.expected)
              => SubSeq(t.expected, 1, t.matched + 1) = t.expected
<1>1. /\ t.expected \in Seq(Byte) /\ t.matched \in Nat
      /\ t.matched + 1 <= Len(t.expected)
  BY TrackerFields DEF TrackerOK
<1>2. QED
  BY <1>1 DEF Partial

\* A step that keeps the tracker closed, or closes it with all it heard given
\* back.
LEMMA FeedKeeps ==
  ASSUME CallsInv, NEW byte \in Byte, CallFeed(byte)
  PROVE  CallsInv'
<1> DEFINE o == FeedByte(tracker, byte, clock_ms)
<1>1. /\ tracker' = o.tracker /\ heard' = Append(heard, byte)
      /\ released' = released \o o.forward /\ unpolled_ms' = 0
      /\ UNCHANGED <<clock_ms, begins, awaited, abandoned, age_ms>>
  BY DEF CallFeed
<1>2. CallsType /\ <<byte>> \in Seq(Byte)
  BY DEF CallsInv
<1>3. TrackerOK(o.tracker) /\ o.forward \in Seq(Byte)
  BY <1>2, FeedByteOK DEF CallsType
<1>4. CallsType'
  <2> HIDE DEF o
  <2>1. Append(heard, byte) \in Seq(Byte) /\ released \o o.forward \in Seq(Byte) /\ 0 \in Nat
    BY <1>2, <1>3 DEF CallsType
  <2>2. QED
    BY <1>1, <1>2, <1>3, <2>1 DEF CallsType
<1>5. CASE ~tracker.active
  <2>1. o = [tracker |-> tracker, forward |-> <<byte>>]
    BY <1>5 DEF FeedByte
  <2> HIDE DEF o
  <2>2. tracker' = tracker /\ released' = released \o <<byte>>
    BY <1>1, <2>1
  <2>3. released' = Append(released, byte)
    BY <1>2, <2>2 DEF CallsType
  <2>4. awaited \o Append(released, byte) = Append(awaited \o released, byte)
    BY <1>2 DEF CallsType
  <2>5. QED
    BY <1>1, <1>4, <1>5, <2>2, <2>3, <2>4
    DEF CallsInv, OpenTracking, ClosedTracking, ClockFollowsAge
<1>6. CASE tracker.active
  <2>1. /\ tracker.expected = awaited /\ heard = Partial(tracker) /\ released = <<>>
        /\ ~abandoned /\ Len(awaited) \in 1..MaximumPacketSize
    BY <1>6 DEF CallsInv, OpenTracking
  <2>2. CASE /\ ~o.tracker.active /\ o.forward = WithByte(Partial(tracker), byte)
    <3>1. Len(Partial(tracker)) < MaximumPacketSize
      <4>1. /\ Len(Partial(tracker)) = tracker.matched /\ tracker.matched \in Nat
            /\ tracker.matched < Len(tracker.expected)
        BY <1>2, <1>6, PartialType, TrackerFields DEF CallsType, TrackerOK
      <4>2. QED
        BY <2>1, <4>1, ProtocolAssumption
    <3>2. o.forward = Append(heard, byte)
      BY <2>1, <2>2, <3>1 DEF WithByte
    <3> HIDE DEF o
    <3>3. released' = heard' /\ ~tracker'.active
      BY <1>1, <1>2, <2>1, <2>2, <3>2 DEF CallsType
    <3>4. QED
      BY <1>4, <3>3 DEF CallsInv, OpenTracking, ClosedTracking, ClockFollowsAge
  <2>3. CASE /\ ~DeadlineReached(clock_ms, tracker.deadline_ms)
             /\ byte = tracker.expected[tracker.matched + 1] /\ o.forward = <<>>
             /\ o.tracker.expected = tracker.expected
             /\ o.tracker.deadline_ms = tracker.deadline_ms
             /\ o.tracker.matched = tracker.matched + 1
             /\ o.tracker.active = (tracker.matched + 1 # Len(tracker.expected))
    <3>1. /\ heard' = SubSeq(tracker.expected, 1, tracker.matched + 1)
          /\ tracker.matched + 1 = Len(tracker.expected) => heard' = awaited
      BY <1>1, <1>2, <1>6, <2>1, <2>3, PartialGrows DEF CallsType
    <3>2. released' = <<>>
      BY <1>1, <2>1, <2>3
    <3> HIDE DEF o
    <3>3. OpenTracking'
      BY <1>1, <2>1, <2>3, <3>1, <3>2 DEF OpenTracking, Partial
    <3>4. ClosedTracking'
      <4>1. awaited \o <<>> = awaited
        BY <1>2 DEF CallsType
      <4>2. QED
        BY <1>1, <2>3, <3>1, <3>2, <4>1 DEF ClosedTracking
    <3>5. ClockFollowsAge'
      <4>1. age_ms < Window /\ Window \in Int /\ MaxPollGap \in Nat
        <5>1. ~(age_ms >= Window) /\ Window \in Int
          BY <1>6, <2>3, ReachedIsOver
        <5>2. QED
          BY <1>2, <5>1, CallsAssumption, MsHalf DEF CallsType
      <4>2. UNCHANGED <<Window, clock_ms, age_ms>> /\ tracker'.deadline_ms = tracker.deadline_ms
        BY <1>1, <2>3 DEF Window
      <4>3. age_ms < Window + 0 /\ 0 <= MaxPollGap
        BY <4>1
      <4>4. QED
        BY <1>1, <1>6, <4>2, <4>3 DEF CallsInv, ClockFollowsAge
    <3>6. QED
      BY <1>4, <3>3, <3>4, <3>5 DEF CallsInv
  <2>4. QED
    BY <1>2, <1>6, <2>2, <2>3, FeedByteFields DEF CallsType
<1>7. QED
  BY <1>5, <1>6

LEMMA PollKeeps ==
  ASSUME CallsInv, CallPoll
  PROVE  CallsInv'
<1> DEFINE o == Poll(tracker, clock_ms)
           late == tracker.active /\ DeadlineReached(clock_ms, tracker.deadline_ms)
<1>1. /\ tracker' = o.tracker /\ released' = released \o o.forward /\ unpolled_ms' = 0
      /\ UNCHANGED <<clock_ms, begins, awaited, heard, abandoned, age_ms>>
  BY DEF CallPoll
<1>2. CallsType /\ TrackerOK(o.tracker) /\ o.forward \in Seq(Byte)
  BY PollOK DEF CallsInv, CallsType
<1>3. CallsType'
  <2> HIDE DEF o
  <2>1. released \o o.forward \in Seq(Byte) /\ 0 \in Nat
    BY <1>2 DEF CallsType
  <2>2. QED
    BY <1>1, <1>2, <2>1 DEF CallsType
<1>4. CASE late
  <2>1. o.forward = Partial(tracker) /\ ~o.tracker.active
    BY <1>2, <1>4, TrackerTimesOut DEF Poll, CallsType
  <2> HIDE DEF o
  <2>2. heard = Partial(tracker) /\ released = <<>>
    BY <1>4 DEF CallsInv, OpenTracking
  <2>3. released' = heard' /\ ~tracker'.active
    BY <1>1, <1>2, <2>1, <2>2 DEF CallsType
  <2>4. QED
    BY <1>3, <2>3 DEF CallsInv, OpenTracking, ClosedTracking, ClockFollowsAge
<1>5. CASE ~late
  <2>1. o = [tracker |-> tracker, forward |-> <<>>]
    BY <1>5 DEF Poll
  <2> HIDE DEF o
  <2>2. tracker' = tracker /\ released' = released
    BY <1>1, <1>2, <2>1 DEF CallsType
  <2>3. UNCHANGED Window
    BY <1>1 DEF Window
  <2>4. tracker.active => age_ms < Window + 0 /\ 0 <= MaxPollGap
    <3>1. tracker.active => Window \in Int /\ ~(age_ms >= Window)
      BY <1>5, ReachedIsOver
    <3>2. QED
      BY <1>2, <3>1, CallsAssumption, MsHalf DEF CallsType
  <2>5. ClockFollowsAge'
    BY <1>1, <2>2, <2>3, <2>4 DEF CallsInv, ClockFollowsAge
  <2>6. QED
    BY <1>1, <1>3, <2>2, <2>5 DEF CallsInv, OpenTracking, ClosedTracking
<1>6. QED
  BY <1>4, <1>5

LEMMA CancelKeeps ==
  ASSUME CallsInv, CallCancel
  PROVE  CallsInv'
<1>1. /\ tracker' = Cancel(tracker) /\ abandoned' = (abandoned \/ tracker.active)
      /\ UNCHANGED <<clock_ms, begins, awaited, heard, released, age_ms, unpolled_ms>>
  BY DEF CallCancel
<1>2. TrackerOK(tracker') /\ ~tracker'.active
  BY <1>1, CancelOK DEF CallsInv, CallsType
<1>3. CallsType'
  BY <1>1, <1>2 DEF CallsInv, CallsType
<1>4. QED
  BY <1>1, <1>2, <1>3 DEF CallsInv, OpenTracking, ClosedTracking, ClockFollowsAge

LEMMA PassKeeps ==
  ASSUME CallsInv, PassMs
  PROVE  CallsInv'
<1>1. /\ clock_ms' = (clock_ms + 1) % MsMod
      /\ UNCHANGED <<tracker, begins, awaited, heard, released, abandoned>>
  BY DEF PassMs
<1>2. CallsType /\ clock_ms \in 0..(MsMod - 1)
  BY DEF CallsInv, CallsType, Ms
<1>3. clock_ms' = IF clock_ms + 1 < MsMod THEN clock_ms + 1 ELSE clock_ms + 1 - MsMod
  <2> DEFINE x == clock_ms + 1
  <2>1. x \in 0..(2 * MsMod - 1) /\ clock_ms' = x % MsMod /\ x = clock_ms + 1
    BY <1>1, <1>2, MsHalf
  <2> HIDE DEF x
  <2>2. clock_ms' = IF x < MsMod THEN x ELSE x - MsMod
    BY <2>1, MsWraps
  <2>3. QED
    BY <1>2, <2>1, <2>2, MsHalf
<1>4. clock_ms' \in Ms
  BY <1>2, <1>3, MsHalf DEF Ms
<1>5. age_ms' \in Nat /\ unpolled_ms' \in Nat
  BY <1>2 DEF PassMs, CallsType
<1>6. CallsType'
  BY <1>1, <1>2, <1>4, <1>5 DEF CallsType
<1>7. CASE tracker.active
  <2>1. /\ age_ms' = age_ms + 1 /\ unpolled_ms' = unpolled_ms + 1
        /\ unpolled_ms < MaxPollGap /\ UNCHANGED Window
        /\ tracker'.deadline_ms = tracker.deadline_ms
    BY <1>1, <1>7 DEF PassMs, Window
  <2>2. /\ Window \in Int /\ Window <= MsMod \div 2 /\ Window >= 1
    BY <1>7, ReachedIsOver, MsHalf
  <2>3. /\ age_ms \in Nat /\ unpolled_ms \in Nat /\ MaxPollGap \in Nat
        /\ tracker.deadline_ms \in 0..(MsMod - 1) /\ MaxPollGap <= MsMod \div 2
    BY <1>2, TrackerFields, CallsAssumption, MsHalf DEF CallsType, Ms
  <2>4. /\ age_ms < Window + unpolled_ms
        /\ (clock_ms - tracker.deadline_ms) - (age_ms - Window) \in {-MsMod, 0, MsMod}
    BY <1>7 DEF CallsInv, ClockFollowsAge
  <2>5. age_ms + 1 < Window + (unpolled_ms + 1) /\ unpolled_ms + 1 <= MaxPollGap
    BY <2>1, <2>2, <2>3, <2>4
  <2>6. (clock_ms' - tracker.deadline_ms) - ((age_ms + 1) - Window) \in {-MsMod, 0, MsMod}
    <3> DEFINE deadline == tracker.deadline_ms
               w == Window
               half == MsMod \div 2
    <3>1. /\ deadline \in 0..(MsMod - 1) /\ w \in Int /\ 1 <= w /\ w <= half
          /\ (clock_ms - deadline) - (age_ms - w) \in {-MsMod, 0, MsMod}
          /\ half \in Nat /\ 2 * half <= MsMod /\ MsMod \in Nat \ {0}
          /\ age_ms < w + half
      BY <2>1, <2>2, <2>3, <2>4, MsHalf
    <3> HIDE DEF deadline, w, half
    <3>2. (clock_ms' - deadline) - ((age_ms + 1) - w) \in {-MsMod, 0, MsMod}
      BY <1>2, <1>3, <2>3, <3>1
    <3>3. QED
      BY <3>2 DEF deadline, w
  <2>7. ClockFollowsAge'
    BY <2>1, <2>5, <2>6 DEF ClockFollowsAge
  <2>8. QED
    BY <1>1, <1>6, <2>7 DEF CallsInv, OpenTracking, ClosedTracking
<1>8. CASE ~tracker.active
  BY <1>1, <1>6, <1>8 DEF CallsInv, OpenTracking, ClosedTracking, ClockFollowsAge
<1>9. QED
  BY <1>7, <1>8

LEMMA CallsInvStep == CallsInv /\ [TrackerNext]_trackerVars => CallsInv'
<1>1. CallsInv /\ UNCHANGED trackerVars => CallsInv'
  BY DEF trackerVars, CallsInv, CallsType, OpenTracking, ClosedTracking, ClockFollowsAge,
     Window
<1>2. QED
  BY <1>1, BeginKeeps, FeedKeeps, PollKeeps, CancelKeeps, PassKeeps DEF TrackerNext

LEMMA CallsInvariance == TrackerSpec => []CallsInv
BY CallsInvInit, CallsInvStep, PTL DEF TrackerSpec

----------------------------------------------------------------------------
(* The theorems *)

\* The tracker loses and invents no byte of the bus (BytesConserved): it swallows
\* a whole echo or nothing, for every packet, noise and timing.
THEOREM NothingSwallowed == TrackerSpec => []BytesConserved
<1>1. CallsInv => BytesConserved
  <2> SUFFICES ASSUME CallsInv, ~abandoned PROVE BytesConserved
    BY DEF BytesConserved
  <2>1. /\ Partial(tracker) \in Seq(Byte) /\ released \in Seq(Byte) /\ heard \in Seq(Byte)
    BY PartialType DEF CallsInv, CallsType
  <2>2. <<>> \o released = released /\ Partial(tracker) \o <<>> = Partial(tracker)
    BY <2>1
  <2>3. QED
    BY <2>2 DEF CallsInv, OpenTracking, ClosedTracking, BytesConserved
<1>2. QED
  BY <1>1, CallsInvariance, PTL

\* A tracking ends with the first poll or byte after its bytes have been on the wire
\* and the margin is over, and never before, however the rate divides and however often the clock has wrapped (TrackingBounded), as long as
\* the loop polls within half a turn of the clock.
THEOREM TrackingEndsInTime == TrackerSpec => []TrackingBounded
<1>1. ASSUME CallsInv, tracker.active
      PROVE  /\ ~WireTimeOver(age_ms - unpolled_ms)
             /\ DeadlineReached(clock_ms, tracker.deadline_ms) <=> WireTimeOver(age_ms)
  <2>1. age_ms < Window + unpolled_ms /\ age_ms \in Nat /\ unpolled_ms \in Nat
    BY <1>1 DEF CallsInv, CallsType, ClockFollowsAge
  <2>2. /\ Window \in Nat /\ age_ms >= Window <=> WireTimeOver(age_ms)
        /\ age_ms - unpolled_ms >= Window <=> WireTimeOver(age_ms - unpolled_ms)
    BY <1>1, <2>1, WireTimeIsWindow
  <2>3. QED
    BY <1>1, <2>1, <2>2, ReachedIsOver
<1>2. QED
  BY <1>1, CallsInvariance, PTL DEF TrackingBounded

LEMMA MatchIsHeard ==
  ASSUME CallsInv, [TrackerNext]_trackerVars, tracker'.matches # tracker.matches
  PROVE  /\ heard' = awaited /\ ~WireTimeOver(age_ms) /\ released' = <<>>
<1>1. CallsType
  BY DEF CallsInv
<1>2. ASSUME NEW p \in EchoPackets, CallBegin(p)
      PROVE  FALSE
  BY <1>1, <1>2, BeginOK, CallsAssumption DEF CallBegin, CallsType
<1>3. CASE CallPoll
  BY <1>1, <1>3, PollOK DEF CallPoll, CallsType
<1>4. CASE CallCancel
  BY <1>1, <1>4, CancelOK DEF CallCancel, CallsType
<1>5. CASE PassMs \/ UNCHANGED trackerVars
  BY <1>5 DEF PassMs, trackerVars
<1>6. ASSUME NEW byte \in Byte, CallFeed(byte)
      PROVE  /\ heard' = awaited /\ ~WireTimeOver(age_ms) /\ released' = <<>>
  <2> DEFINE o == FeedByte(tracker, byte, clock_ms)
  <2>1. /\ tracker' = o.tracker /\ heard' = Append(heard, byte)
        /\ released' = released \o o.forward
    BY <1>6 DEF CallFeed
  <2>2. tracker.active
    BY <2>1 DEF FeedByte
  <2>3. /\ ~DeadlineReached(clock_ms, tracker.deadline_ms)
        /\ byte = tracker.expected[tracker.matched + 1] /\ o.forward = <<>>
        /\ tracker.matched + 1 = Len(tracker.expected)
    <3>1. \/ /\ ~o.tracker.active /\ o.tracker.matches = tracker.matches
             /\ o.forward = WithByte(Partial(tracker), byte)
          \/ /\ ~DeadlineReached(clock_ms, tracker.deadline_ms)
             /\ byte = tracker.expected[tracker.matched + 1] /\ o.forward = <<>>
             /\ o.tracker.active = (tracker.matched + 1 # Len(tracker.expected))
             /\ o.tracker.matches = IF o.tracker.active THEN tracker.matches
                                    ELSE tracker.matches + 1
      BY <1>1, <2>2, FeedByteFields DEF CallsType
    <3>2. o.tracker.matches # tracker.matches
      BY <2>1
    <3> HIDE DEF o
    <3>3. QED
      BY <3>1, <3>2
  <2> HIDE DEF o
  <2>4. /\ tracker.expected = awaited /\ heard = Partial(tracker) /\ released = <<>>
    BY <2>2 DEF CallsInv, OpenTracking
  <2>5. heard' = awaited
    BY <1>1, <2>1, <2>2, <2>3, <2>4, PartialGrows DEF CallsType
  <2>6. ~WireTimeOver(age_ms)
    <3>1. ~(age_ms >= Window)
      BY <2>2, <2>3, ReachedIsOver
    <3>2. QED
      BY <1>1, <3>1, WireTimeIsWindow DEF CallsType
  <2>7. released' = <<>>
    BY <2>1, <2>3, <2>4
  <2>8. QED
    BY <2>5, <2>6, <2>7
<1>7. QED
  BY <1>2, <1>3, <1>4, <1>5, <1>6 DEF TrackerNext

\* The match counter the bridge watches grows only with a whole echo, heard
\* within its window (MatchIsTheEcho).
THEOREM MatchesAreEchoes == TrackerSpec => MatchIsTheEcho
<1>1. CallsInv /\ [TrackerNext]_trackerVars =>
        [tracker'.matches # tracker.matches =>
           /\ heard' = awaited
           /\ ~WireTimeOver(age_ms)
           /\ released' = <<>>]_trackerVars
  BY MatchIsHeard
<1>2. QED
  BY <1>1, CallsInvariance, PTL DEF TrackerSpec, MatchIsTheEcho

----------------------------------------------------------------------------
(* The decoder over every stream *)

----------------------------------------------------------------------------
(* Ends of sequences *)

\* The last elements of t are s.
EndsWith(t, s) ==
  Len(s) <= Len(t) /\ \A i \in 1..Len(s) : s[i] = t[(Len(t) - Len(s)) + i]

LEMMA SuffixIsEnd ==
  ASSUME NEW s \in Seq(Byte), NEW t \in Seq(Byte), EndsWith(t, s)
  PROVE  IsSuffix(s, t)
<1> DEFINE m == Len(s)
           n == Len(t)
           rs == Reverse(s)
           rt == Reverse(t)
<1>1. m \in Nat /\ n \in Nat /\ m <= n
  BY DEF EndsWith
<1>2. /\ rs \in Seq(Byte) /\ Len(rs) = m /\ \A i \in 1..m : rs[i] = s[(m - i) + 1]
      /\ rt \in Seq(Byte) /\ Len(rt) = n /\ \A i \in 1..n : rt[i] = t[(n - i) + 1]
  BY <1>1 DEF Reverse
<1>3. ASSUME NEW i \in 1..m
      PROVE  rs[i] = rt[i]
  <2>1. (m - i) + 1 \in 1..m /\ i \in 1..n /\ (n - m) + ((m - i) + 1) = (n - i) + 1
    BY <1>1
  <2>2. s[(m - i) + 1] = t[(n - m) + ((m - i) + 1)]
    BY <2>1 DEF EndsWith
  <2>3. QED
    BY <1>2, <2>1, <2>2
<1> HIDE DEF rs, rt
<1>4. SubSeq(rs, 1, m) = SubSeq(rt, 1, m)
  BY <1>1, <1>2, <1>3
<1>5. QED
  BY <1>1, <1>2, <1>4 DEF IsSuffix, IsPrefix, rs, rt

LEMMA EndGrows ==
  ASSUME NEW s \in Seq(Byte), NEW t \in Seq(Byte), EndsWith(t, s), NEW x \in Byte
  PROVE  EndsWith(Append(t, x), Append(s, x))
BY DEF EndsWith

LEMMA EndOfAll ==
  ASSUME NEW t \in Seq(Byte)
  PROVE  /\ EndsWith(t, <<>>) /\ EndsWith(t, t)
         /\ \A x \in Byte : EndsWith(Append(t, x), <<x>>)
BY DEF EndsWith

----------------------------------------------------------------------------
(* The invariant *)

StreamType ==
  /\ decoder \in Decoder /\ now_ms \in Ms /\ silence_ms \in Ms
  /\ last_packet \in AuxPacket /\ burst \in Seq(Byte)

\* What is in the buffer is as old as the silence.
AgeIsSilence ==
  decoder.buffer # <<>> => ElapsedMs(now_ms, decoder.last_byte_ms) = silence_ms

Silent == silence_ms > InterByteTimeout

StreamInv ==
  /\ StreamType
  /\ AgeIsSilence
  /\ Partway(decoder.buffer) /\ EndsWith(burst, decoder.buffer)
  /\ last_result = "kPacket" =>
       HasValidAuxChecksum(last_packet) /\ EndsWith(burst, last_packet.bytes)
  /\ Synced(burst, decoded, decoder.buffer, Silent)

----------------------------------------------------------------------------
(* The steps *)

LEMMA AllLengthsFit == LengthsFit
BY StreamAssumption DEF LengthsFit

LEMMA StreamInvInit == DecoderInit => StreamInv
<1> SUFFICES ASSUME DecoderInit PROVE StreamInv
  OBVIOUS
<1>1. <<>> \in Seq(Byte) /\ Len(<<>>) = 0 /\ 0 \in Ms /\ EmptyPacket \in AuxPacket
  BY MillisAssumption DEF Ms, AuxPacket, EmptyPacket, PacketOrigin
<1>2. decoder \in Decoder /\ decoder.buffer = <<>>
  BY <1>1 DEF DecoderInit, InitDecoder, Decoder
<1>3. EndsWith(<<>>, <<>>) /\ Partway(<<>>)
  BY <1>1, EndOfAll DEF Partway
<1>4. Synced(<<>>, <<>>, <<>>, Silent)
  BY <1>1 DEF Synced, Follows
<1>5. QED
  BY <1>1, <1>2, <1>3, <1>4 DEF DecoderInit, StreamInv, StreamType, AgeIsSilence

\* A silence longer than the timeout is what the decoder takes for one.
LEMMA ExpireIsSilence ==
  ASSUME StreamInv
  PROVE  /\ Silent => Expire(decoder, now_ms).buffer = <<>>
         /\ ~Silent => Expire(decoder, now_ms) = decoder
         /\ decoder.buffer = <<>> => Expire(decoder, now_ms) = decoder
<1>1. decoder \in Decoder /\ AgeIsSilence
  BY DEF StreamInv, StreamType
<1>2. CASE decoder.buffer = <<>>
  BY <1>2 DEF Expire, Expired
<1>3. CASE decoder.buffer # <<>>
  <2>1. Expired(decoder, now_ms) <=> Silent
    BY <1>1, <1>3 DEF Expired, AgeIsSilence, Silent
  <2>2. QED
    BY <1>1, <1>3, <2>1, ResetType DEF Expire
<1>4. QED
  BY <1>2, <1>3

LEMMA HearKeeps ==
  ASSUME StreamInv, NEW byte \in Byte, Hear(byte)
  PROVE  StreamInv'
<1> DEFINE buffer == Expire(decoder, now_ms).buffer
           o      == Feed(decoder, byte, now_ms, "kAuxBus")
           before == IF Silent THEN <<>> ELSE burst
           frames == IF Silent THEN <<>> ELSE decoded
           g      == Append(buffer, byte)
<1>1. /\ decoder \in Decoder /\ now_ms \in Ms /\ burst \in Seq(Byte)
      /\ <<>> \in Seq(Byte) /\ "kAuxBus" \in PacketOrigin /\ 0 \in Ms
  BY MillisAssumption DEF StreamInv, StreamType, PacketOrigin, Ms
<1>2. /\ decoder' = o.decoder /\ last_result' = o.result /\ last_packet' = o.packet
      /\ silence_ms' = 0 /\ now_ms' = now_ms
      /\ burst' = Append(before, byte)
      /\ decoded' = frames \o (IF o.result = "kPacket" THEN <<o.packet.bytes>> ELSE <<>>)
  BY DEF Hear, Silent
<1>3. /\ before \in Seq(Byte) /\ buffer \in Seq(Byte)
      /\ Partway(buffer) /\ EndsWith(before, buffer)
      /\ Synced(before, frames, buffer, FALSE)
  <2>1. CASE Silent
    <3>1. buffer = <<>> /\ before = <<>> /\ frames = <<>>
      BY <2>1, ExpireIsSilence
    <3>2. Partway(<<>>) /\ EndsWith(<<>>, <<>>)
      BY <1>1, EndOfAll DEF Partway
    <3>3. Synced(<<>>, <<>>, <<>>, FALSE)
      BY <1>1 DEF Synced, Follows
    <3> HIDE DEF buffer, before, frames
    <3>4. QED
      BY <1>1, <3>1, <3>2, <3>3
  <2>2. CASE ~Silent
    <3>1. buffer = decoder.buffer /\ before = burst /\ frames = decoded
      BY <2>2, ExpireIsSilence
    <3>2. Partway(decoder.buffer) /\ EndsWith(burst, decoder.buffer)
          /\ Synced(burst, decoded, decoder.buffer, Silent)
      BY DEF StreamInv
    <3>3. Synced(burst, decoded, decoder.buffer, FALSE)
      <4>1. Silent = FALSE
        BY <2>2 DEF Silent
      <4> HIDE DEF Silent
      <4>2. QED
        BY <3>2, <4>1
    <3>4. decoder.buffer \in Seq(Byte)
      BY <1>1 DEF Decoder
    <3> HIDE DEF buffer, before, frames
    <3>5. QED
      BY <1>1, <3>1, <3>2, <3>3, <3>4
  <2>3. QED
    BY <2>1, <2>2
<1>4. /\ Partway(o.decoder.buffer) /\ o.decoder.last_byte_ms = now_ms
      /\ o.decoder.buffer \in {<<>>, <<byte>>, g}
      /\ o.result = "kPacket" => o.packet.bytes = g
  BY <1>1, <1>3, FeedBegins, AllLengthsFit
<1>5. /\ o.decoder \in Decoder /\ o.packet \in AuxPacket
      /\ o.result = "kPacket" => HasValidAuxChecksum(o.packet)
  BY <1>1, FeedType DEF FeedGivesValid
<1>6. Synced(burst', decoded', o.decoder.buffer, FALSE)
  BY <1>1, <1>2, <1>3, SyncedGrows, AllLengthsFit
<1> HIDE DEF o, before, frames, buffer
<1>7. EndsWith(burst', g) /\ EndsWith(burst', <<byte>>) /\ EndsWith(burst', <<>>)
  <2>1. burst' = Append(before, byte) /\ Append(before, byte) \in Seq(Byte)
    BY <1>2, <1>3
  <2>2. EndsWith(Append(before, byte), g)
    BY <1>3, EndGrows
  <2>3. EndsWith(Append(before, byte), <<byte>>)
    BY <1>3, EndOfAll
  <2>4. EndsWith(Append(before, byte), <<>>)
    BY <2>1, EndOfAll
  <2> HIDE DEF g
  <2>5. QED
    BY <2>1, <2>2, <2>3, <2>4
<1>8. EndsWith(burst', o.decoder.buffer)
  BY <1>4, <1>7
<1>9. Synced(burst', decoded', o.decoder.buffer, Silent')
  BY <1>6, SyncedForgets
<1>10. AgeIsSilence'
  <2>1. ElapsedMs(now_ms, now_ms) = 0
    BY <1>1 DEF ElapsedMs, Ms
  <2>2. QED
    BY <1>2, <1>4, <2>1 DEF AgeIsSilence
<1>11. burst' \in Seq(Byte)
  BY <1>2, <1>3
<1>12. StreamType'
  BY <1>1, <1>2, <1>5, <1>11 DEF StreamType
<1>13. last_result' = "kPacket" =>
         HasValidAuxChecksum(last_packet') /\ EndsWith(burst', last_packet'.bytes)
  BY <1>2, <1>4, <1>5, <1>7
<1>14. QED
  BY <1>2, <1>4, <1>8, <1>9, <1>10, <1>12, <1>13 DEF StreamInv

LEMMA ExpireKeeps ==
  ASSUME StreamInv, ExpireIdle
  PROVE  StreamInv'
<1>1. /\ decoder' = Expire(decoder, now_ms) /\ now_ms' = now_ms
      /\ last_result' = last_result /\ last_packet' = last_packet
      /\ silence_ms' = silence_ms /\ burst' = burst /\ decoded' = decoded
  BY DEF ExpireIdle
<1>2. CASE decoder' = decoder
  BY <1>1, <1>2 DEF StreamInv, StreamType, AgeIsSilence, Silent
<1>3. CASE decoder' # decoder
  <2>1. Silent /\ decoder'.buffer = <<>>
    BY <1>1, <1>3, ExpireIsSilence
  <2>2. StreamType'
    BY <1>1, ExpireType DEF StreamInv, StreamType
  <2>3. AgeIsSilence' /\ Partway(decoder'.buffer)
    BY <2>1 DEF AgeIsSilence, Partway
  <2>4. EndsWith(burst', decoder'.buffer)
    BY <2>1, <2>2, EndOfAll DEF StreamType
  <2>5. Synced(burst, decoded, decoder'.buffer, Silent)
    BY <2>1, SyncedForgets DEF StreamInv
  <2>6. Silent' = Silent
    BY <1>1 DEF Silent
  <2>7. QED
    BY <1>1, <2>2, <2>3, <2>4, <2>5, <2>6 DEF StreamInv
<1>4. QED
  BY <1>2, <1>3

LEMMA SilenceKeeps ==
  ASSUME StreamInv, Pass
  PROVE  StreamInv'
<1>1. /\ silence_ms < MsMod - 1 /\ now_ms' = (now_ms + 1) % MsMod
      /\ silence_ms' = silence_ms + 1
      /\ decoder' = decoder /\ last_result' = last_result /\ last_packet' = last_packet
      /\ burst' = burst /\ decoded' = decoded
  BY DEF Pass
<1>2. /\ now_ms \in Ms /\ silence_ms \in Ms /\ decoder \in Decoder
      /\ MsMod \in Nat \ {0} /\ InterByteTimeout \in Int
  BY MillisAssumption, DecoderAssumption DEF StreamInv, StreamType
<1>3. now_ms' = IF now_ms + 1 < MsMod THEN now_ms + 1 ELSE 0
  <2>1. now_ms + 1 \in 0..(2 * MsMod - 1) /\ (now_ms + 1 >= MsMod => now_ms + 1 = MsMod)
    BY <1>2 DEF Ms
  <2>2. (now_ms + 1) % MsMod
          = IF now_ms + 1 < MsMod THEN now_ms + 1 ELSE (now_ms + 1) - MsMod
    BY <2>1, MsWraps
  <2>3. QED
    BY <1>1, <1>2, <2>1, <2>2 DEF Ms
<1>4. now_ms' \in Ms /\ silence_ms' \in Ms
  BY <1>1, <1>2, <1>3 DEF Ms
<1>5. AgeIsSilence'
  <2> SUFFICES ASSUME decoder.buffer # <<>>
               PROVE  ElapsedMs(now_ms', decoder.last_byte_ms) = silence_ms + 1
    BY <1>1 DEF AgeIsSilence
  <2>1. ElapsedMs(now_ms, decoder.last_byte_ms) = silence_ms
    BY DEF StreamInv, AgeIsSilence
  <2>2. decoder.last_byte_ms \in Ms
    BY <1>2 DEF Decoder
  <2>3. QED
    BY <1>1, <1>2, <1>3, <2>1, <2>2 DEF ElapsedMs, Ms
<1>6. Silent => Silent'
  BY <1>1, <1>2 DEF Silent, Ms
<1>7. Synced(burst, decoded, decoder.buffer, Silent')
  BY <1>6, SyncedForgets DEF StreamInv
<1>8. StreamType'
  BY <1>1, <1>4 DEF StreamInv, StreamType
<1>9. QED
  BY <1>1, <1>5, <1>7, <1>8 DEF StreamInv

LEMMA StreamInvStep == StreamInv /\ [DecoderNext]_decoderVars => StreamInv'
<1> SUFFICES ASSUME StreamInv, [DecoderNext]_decoderVars PROVE StreamInv'
  OBVIOUS
<1>1. CASE \E byte \in Byte : Hear(byte)
  BY <1>1, HearKeeps
<1>2. CASE ExpireIdle
  BY <1>2, ExpireKeeps
<1>3. CASE Pass
  BY <1>3, SilenceKeeps
<1>4. CASE UNCHANGED decoderVars
  BY <1>4 DEF decoderVars, StreamInv, StreamType, AgeIsSilence, Silent
<1>5. QED
  BY <1>1, <1>2, <1>3, <1>4 DEF DecoderNext

LEMMA StreamInvariance == DecoderSpec => []StreamInv
BY StreamInvInit, StreamInvStep, PTL DEF DecoderSpec

----------------------------------------------------------------------------
(* What follows *)

\* The decoder's buffer is the beginning of a frame and the last that was heard
\* (AuxStreamDecoder::feed), for every stream: its overflow checks never fire.
THEOREM BufferStaysBegun == DecoderSpec => []BufferIsFrameBegun
<1>1. ASSUME StreamInv
      PROVE  BufferIsFrameBegun
  <2>1. decoder.buffer \in Seq(Byte) /\ burst \in Seq(Byte)
    BY <1>1 DEF StreamInv, StreamType, Decoder
  <2>2. IsSuffix(decoder.buffer, burst)
    BY <1>1, <2>1, SuffixIsEnd DEF StreamInv
  <2>3. Len(<<>>) = 0
    OBVIOUS
  <2>4. QED
    BY <1>1, <2>2, <2>3 DEF StreamInv, Partway, Begun, BufferIsFrameBegun
<1>2. QED
  BY <1>1, StreamInvariance, PTL

\* What feed() returns as a packet has a good checksum and is the last that was
\* heard, no silence inside it.
THEOREM PacketsAreHeard == DecoderSpec => []DecodedIsHeard
<1>1. ASSUME StreamInv
      PROVE  DecodedIsHeard
  <2>1. last_packet.bytes \in Seq(Byte) /\ burst \in Seq(Byte)
    BY <1>1 DEF StreamInv, StreamType, AuxPacket
  <2>2. QED
    BY <1>1, <2>1, SuffixIsEnd DEF StreamInv, DecodedIsHeard
<1>2. QED
  BY <1>1, StreamInvariance, PTL

\* After every silence the decoder is in step again: one frame or two back to
\* back are decoded, each whole and in order, whatever came before.
THEOREM SilenceResynchronises == DecoderSpec => []FramesAfterSilenceDecoded
<1>1. ASSUME StreamInv
      PROVE  FramesAfterSilenceDecoded
  <2>1. burst \in Seq(Byte) /\ Synced(burst, decoded, decoder.buffer, Silent)
    BY <1>1 DEF StreamInv, StreamType
  <2>2. QED
    BY <2>1, SyncedFrames DEF FramesAfterSilenceDecoded
<1>2. QED
  BY <1>1, StreamInvariance, PTL

================================================================================

------------------------------ MODULE StreamProofs ------------------------------
(***************************************************************************)
(* What the stream decoder and the echo tracker do to one byte, for every  *)
(* byte, frame size, baud rate and clock, and what that says of a run of   *)
(* bytes: the lemmas that the proofs about their owners rest on.           *)
(***************************************************************************)
EXTENDS EchoTracker, AuxStreamDecoder, SequencesExt, SequenceTheorems,
        WellFoundedInduction, TLAPS

----------------------------------------------------------------------------
(* Induction, as a statement about sets *)

Below == {ss \in Nat \X Nat : ss[1] < ss[2]}

LEMMA BelowWellFounded == IsWellFoundedOn(Below, Nat)
BY NatLessThanWellFounded DEF OpToRel, Below

LEMMA NatSetInduction ==
  ASSUME NEW T, 0 \in T, \A n \in Nat : n \in T => n + 1 \in T
  PROVE  \A n \in Nat : n \in T
<1> SUFFICES ASSUME Nat \ T # {} PROVE FALSE
  OBVIOUS
<1> DEFINE U == Nat \ T
<1>1. U \subseteq Nat /\ U # {}
  OBVIOUS
<1>2. \E x \in U : \A y \in U : <<y, x>> \notin Below
  <2> HIDE DEF U
  <2> QED
    BY <1>1, BelowWellFounded, WFMin
<1>3. PICK x \in U : \A y \in U : <<y, x>> \notin Below
  BY <1>2
<1>4. x \in Nat /\ x # 0 /\ x - 1 \in Nat
  BY <1>3
<1>5. <<x - 1, x>> \in Below
  BY <1>4 DEF Below
<1>6. x - 1 \in T
  BY <1>3, <1>4, <1>5
<1>7. QED
  BY <1>3, <1>4, <1>6

\* The runs of n steps, from the start: the i-th takes the value before it.
Runs(T, start, n, step) ==
  {run \in [0..n -> T] :
     run[0] = start /\ \A i \in 1..n : run[i] = step[<<run[i - 1], i>>]}

\* A step that stays in T can be taken any number of times.
LEMMA RunExists ==
  ASSUME NEW T, NEW start \in T, NEW n \in Nat, NEW step \in [T \X (1..n) -> T]
  PROVE  Runs(T, start, n, step) # {}
<1> DEFINE RunsTo(k) == {run \in [0..k -> T] :
             run[0] = start /\ \A i \in 1..k : run[i] = step[<<run[i - 1], i>>]}
           Possible == {k \in Nat : k <= n => RunsTo(k) # {}}
<1>1. 0 \in Possible
  <2>1. [i \in 0..0 |-> start] \in RunsTo(0)
    OBVIOUS
  <2>2. QED
    BY <2>1
<1>2. ASSUME NEW k \in Nat, k \in Possible
      PROVE  k + 1 \in Possible
  <2> SUFFICES ASSUME k + 1 <= n PROVE RunsTo(k + 1) # {}
    OBVIOUS
  <2>1. PICK run \in [0..k -> T] :
          run[0] = start /\ \A i \in 1..k : run[i] = step[<<run[i - 1], i>>]
    BY <1>2
  <2> DEFINE next == step[<<run[k], k + 1>>]
             more == [i \in 0..(k + 1) |-> IF i = k + 1 THEN next ELSE run[i]]
  <2>2. next \in T
    BY <2>1
  <2>3. more \in [0..(k + 1) -> T] /\ more[0] = start
    BY <2>1, <2>2
  <2>4. more[k + 1] = next /\ more[k] = run[k]
    OBVIOUS
  <2>5. ASSUME NEW i \in 1..(k + 1)
        PROVE  more[i] = step[<<more[i - 1], i>>]
    <3>1. CASE i = k + 1
      BY <2>4, <3>1
    <3>2. CASE i \in 1..k
      BY <2>1, <3>2
    <3>3. QED
      BY <3>1, <3>2
  <2>6. more \in RunsTo(k + 1)
    BY <2>3, <2>5
  <2>7. QED
    BY <2>6
<1> HIDE DEF Possible
<1>3. n \in Possible
  BY <1>1, <1>2, NatSetInduction
<1>4. RunsTo(n) # {}
  BY <1>3 DEF Possible
<1>5. QED
  BY <1>4 DEF Runs

\* And where each step stays in T, so does the run.
LEMMA RunStays ==
  ASSUME NEW T, NEW n \in Nat, NEW run, run[0] \in T,
         \A i \in 1..n : run[i - 1] \in T => run[i] \in T
  PROVE  run[n] \in T
<1> DEFINE Reached == {k \in Nat : k <= n => run[k] \in T}
<1>1. 0 \in Reached
  OBVIOUS
<1>2. ASSUME NEW k \in Nat, k \in Reached
      PROVE  k + 1 \in Reached
  BY <1>2
<1> HIDE DEF Reached
<1>3. n \in Reached
  BY <1>1, <1>2, NatSetInduction
<1>4. QED
  BY <1>3 DEF Reached

----------------------------------------------------------------------------
(* The clock *)

LEMMA MsWraps ==
  ASSUME NEW x \in 0..(2 * MsMod - 1)
  PROVE  x % MsMod = IF x < MsMod THEN x ELSE x - MsMod
<1>1. MsMod \in Nat \ {0} /\ x \in Nat
  BY MillisAssumption
<1>2. CASE x < MsMod
  BY <1>1, <1>2, Z3
<1>3. CASE x >= MsMod
  <2>1. x - MsMod \in 0..(MsMod - 1)
    BY <1>1, <1>3
  <2>2. x = 1 * MsMod + (x - MsMod)
    BY <1>1
  <2>3. QED
    BY <1>1, <1>3, <2>1, <2>2, Z3
<1>4. QED
  BY <1>1, <1>2, <1>3

LEMMA MsHalf ==
  /\ MsMod \in Nat \ {0} /\ MsMod \div 2 \in Nat
  /\ 2 * (MsMod \div 2) <= MsMod /\ MsMod < 2 * (MsMod \div 2) + 2
<1>1. MsMod \in Nat \ {0}
  BY MillisAssumption
<1>2. QED
  BY <1>1, Z3

\* A difference that is congruent to d, with d in the half clock around zero, is
\* taken for reached exactly when d is not negative.
LEMMA SignOfDifference ==
  ASSUME NEW x \in Int, NEW d \in Int, x - d \in {-MsMod, 0, MsMod},
         -(MsMod \div 2) <= d, d < MsMod \div 2
  PROVE  x % MsMod < MsMod \div 2 <=> d >= 0
<1> DEFINE half == MsMod \div 2
<1>1. MsMod \in Nat \ {0} /\ half \in Nat /\ 2 * half <= MsMod
  BY MsHalf
<1> DEFINE r == IF d >= 0 THEN d ELSE d + MsMod
<1>2. r \in 0..(MsMod - 1) /\ (r < half <=> d >= 0)
  BY <1>1
<1>3. x = r \/ x = r - MsMod \/ x = r + MsMod \/ x = r - 2 * MsMod
  BY <1>1
<1>4. x = 0 * MsMod + r \/ x = (-1) * MsMod + r \/ x = 1 * MsMod + r
        \/ x = (-2) * MsMod + r
  BY <1>1, <1>2, <1>3
<1> HIDE DEF r, half
<1>5. x % MsMod = r
  BY <1>1, <1>2, <1>4, Z3
<1>6. QED
  BY <1>2, <1>5 DEF half

\* A deadline still ahead, by no more than half the clock, is not taken for past.
LEMMA NotYetDue ==
  ASSUME NEW now \in Ms, NEW deadline \in Ms, ElapsedMs(deadline, now) \in 1..(MsMod \div 2)
  PROVE  ~DeadlineReached(now, deadline)
<1> DEFINE left == ElapsedMs(deadline, now)
           d    == -left
           x    == now - deadline
<1>1. /\ MsMod \in Nat \ {0} /\ MsMod \div 2 \in Nat /\ now \in Nat /\ deadline \in Nat
      /\ left \in Int /\ left >= 1 /\ left <= MsMod \div 2
  BY MsHalf DEF Ms
<1>2. x - d \in {-MsMod, 0, MsMod}
  BY <1>1 DEF ElapsedMs
<1>3. x \in Int /\ d \in Int /\ -(MsMod \div 2) <= d /\ d < MsMod \div 2 /\ ~(d >= 0)
  BY <1>1
<1> HIDE DEF d
<1>4. ~(x % MsMod < MsMod \div 2)
  BY <1>2, <1>3, SignOfDifference
<1>5. QED
  BY <1>4 DEF DeadlineReached

\* A deadline is as far ahead as it was set.
LEMMA SetAhead ==
  ASSUME NEW now \in Ms, NEW window \in 1..(MsMod \div 2)
  PROVE  ElapsedMs((now + window) % MsMod, now) = window
<1>1. /\ MsMod \in Nat \ {0} /\ window \in 1..(MsMod - 1) /\ now \in 0..(MsMod - 1)
  BY MsHalf DEF Ms
<1> DEFINE x == now + window
<1>2. x % MsMod = IF x < MsMod THEN x ELSE x - MsMod
  <2>1. x \in 0..(2 * MsMod - 1)
    BY <1>1
  <2> HIDE DEF x
  <2>2. QED
    BY <2>1, MsWraps
<1> HIDE DEF x
<1>3. ElapsedMs(x % MsMod, now) = window
  <2>1. x = now + window
    BY DEF x
  <2>2. QED
    BY <1>1, <1>2, <2>1 DEF ElapsedMs
<1>4. QED
  BY <1>3 DEF x

----------------------------------------------------------------------------
(* AuxStreamDecoder *)

LEMMA ResetType ==
  ASSUME NEW d \in Decoder
  PROVE  Reset(d) \in Decoder /\ Reset(d).buffer = <<>>
<1>1. <<>> \in Seq(Byte)
  OBVIOUS
<1>2. QED
  BY <1>1 DEF Reset, Decoder

LEMMA OutcomeType ==
  ASSUME NEW buffer \in Seq(Byte), NEW now \in Ms, NEW result, NEW p
  PROVE  /\ Outcome(buffer, now, result, p).decoder \in Decoder
         /\ Outcome(buffer, now, result, p).result = result
         /\ Outcome(buffer, now, result, p).packet = p
BY DEF Outcome, Decoder

LEMMA RestartBufferType ==
  ASSUME NEW byte \in Byte
  PROVE  RestartBuffer(byte) \in Seq(Byte) /\ Len(RestartBuffer(byte)) <= 1
BY DEF RestartBuffer

Results == {"kNone", "kRejected", "kPacket"}

\* A decoded packet has a good checksum and the origin feed was given.
FeedGivesValid(o, origin) ==
  o.result = "kPacket" => HasValidAuxChecksum(o.packet) /\ o.packet.origin = origin

LEMMA FinishFrameType ==
  ASSUME NEW frame \in Seq(Byte), NEW byte \in Byte, NEW now \in Ms,
         NEW origin \in PacketOrigin
  PROVE  LET o == FinishFrame(frame, byte, now, origin)
         IN  o.decoder \in Decoder /\ o.result \in Results /\ o.packet \in AuxPacket
             /\ FeedGivesValid(o, origin)
<1> DEFINE candidate == [bytes |-> frame, origin |-> origin]
<1>1. candidate.origin = origin
  OBVIOUS
<1>2. candidate \in AuxPacket /\ EmptyPacket \in AuxPacket
  BY DEF AuxPacket, EmptyPacket, PacketOrigin
<1>3. <<>> \in Seq(Byte) /\ RestartBuffer(byte) \in Seq(Byte)
  BY RestartBufferType
<1> HIDE DEF candidate
<1>4. CASE HasValidAuxChecksum(candidate)
  <2>1. FinishFrame(frame, byte, now, origin) = Outcome(<<>>, now, "kPacket", candidate)
    BY <1>4 DEF FinishFrame, candidate
  <2> DEFINE o == Outcome(<<>>, now, "kPacket", candidate)
  <2>2. o.decoder \in Decoder /\ o.result = "kPacket" /\ o.packet = candidate
    BY <1>3 DEF Outcome, Decoder
  <2> HIDE DEF o
  <2>3. QED
    BY <1>1, <1>2, <1>4, <2>1, <2>2 DEF Results, FeedGivesValid, o
<1>5. CASE ~HasValidAuxChecksum(candidate)
  <2>1. FinishFrame(frame, byte, now, origin)
          = Outcome(RestartBuffer(byte), now, "kRejected", EmptyPacket)
    BY <1>5 DEF FinishFrame, candidate
  <2>2. QED
    BY <1>2, <1>3, <2>1, OutcomeType DEF Results, FeedGivesValid
<1>6. QED
  BY <1>4, <1>5

LEMMA ExpireType ==
  ASSUME NEW d \in Decoder, NEW now
  PROVE  Expire(d, now) \in Decoder /\ Expire(d, now).buffer \in {<<>>, d.buffer}
BY ResetType DEF Expire

\* feed(), case by case.
LEMMA FeedCases ==
  ASSUME NEW d \in Decoder, NEW byte \in Byte, NEW now, NEW origin
  PROVE  LET b     == Expire(d, now).buffer
             grown == Append(b, byte)
             full  == Len(b) >= MaximumPacketSize \/ Len(b) >= ExpectedSize(b)
             whole == Len(grown) = ExpectedSize(grown)
             short == byte < MinimumMessageLength \/ byte + 3 > MaximumPacketSize
             o     == Feed(d, byte, now, origin)
         IN  \/ b = <<>> /\ o = Outcome(RestartBuffer(byte), now, "kNone", EmptyPacket)
             \/ Len(b) = 1 /\ short /\ o = Outcome(<<>>, now, "kRejected", EmptyPacket)
             \/ Len(b) = 1 /\ ~short /\ o = Outcome(grown, now, "kNone", EmptyPacket)
             \/ Len(b) >= 2 /\ full /\ o = Outcome(<<>>, now, "kRejected", EmptyPacket)
             \/ /\ Len(b) >= 2 /\ ~full /\ ~whole
                /\ o = Outcome(grown, now, "kNone", EmptyPacket)
             \/ Len(b) >= 2 /\ ~full /\ whole /\ o = FinishFrame(grown, byte, now, origin)
<1> DEFINE b == Expire(d, now).buffer
<1>1. b \in Seq(Byte)
  BY ExpireType DEF Decoder
<1> HIDE DEF b
<1>2. Len(b) \in Nat /\ (Len(b) = 0 => b = <<>>) /\ Len(<<>>) = 0
  BY <1>1
<1>3. \A n \in Nat : n = 0 \/ n = 1 \/ n >= 2
  OBVIOUS
<1>4. b = <<>> \/ Len(b) = 1 \/ Len(b) >= 2
  BY <1>2, <1>3, Zenon
<1>5. CASE b = <<>>
  BY <1>2, <1>5 DEF Feed, b
<1>6. CASE Len(b) = 1
  BY <1>2, <1>6 DEF Feed, b
<1>7. CASE Len(b) >= 2
  BY <1>2, <1>7 DEF Feed, b
<1>8. QED
  BY <1>4, <1>5, <1>6, <1>7 DEF b

LEMMA FeedType ==
  ASSUME NEW d \in Decoder, NEW byte \in Byte, NEW now \in Ms, NEW origin \in PacketOrigin
  PROVE  LET o == Feed(d, byte, now, origin)
         IN  o.decoder \in Decoder /\ o.result \in Results /\ o.packet \in AuxPacket
             /\ FeedGivesValid(o, origin)
<1> DEFINE b     == Expire(d, now).buffer
           grown == Append(b, byte)
           o     == Feed(d, byte, now, origin)
<1>1. b \in Seq(Byte) /\ grown \in Seq(Byte) /\ <<>> \in Seq(Byte)
  BY ExpireType DEF Decoder
<1>2. EmptyPacket \in AuxPacket
  BY DEF AuxPacket, EmptyPacket, PacketOrigin
<1>3. RestartBuffer(byte) \in Seq(Byte)
  BY RestartBufferType
<1>4. \/ o = FinishFrame(grown, byte, now, origin)
      \/ \E buffer \in Seq(Byte), result \in {"kNone", "kRejected"} :
           o = Outcome(buffer, now, result, EmptyPacket)
  BY <1>1, <1>3, FeedCases
<1> HIDE DEF b, grown, o
<1>5. CASE o = FinishFrame(grown, byte, now, origin)
  BY <1>1, <1>5, FinishFrameType DEF o
<1>6. ASSUME NEW buffer \in Seq(Byte), NEW result \in {"kNone", "kRejected"},
             o = Outcome(buffer, now, result, EmptyPacket)
      PROVE  /\ o.decoder \in Decoder /\ o.result \in Results /\ o.packet \in AuxPacket
             /\ o.result # "kPacket"
  BY <1>2, <1>6, OutcomeType DEF Results
<1>7. QED
  BY <1>4, <1>5, <1>6 DEF o, FeedGivesValid

----------------------------------------------------------------------------
(* Frames and their beginnings *)

\* b is the beginning of a frame that can still be completed.
Begun(b) ==
  /\ b # <<>> /\ b[1] = Preamble
  /\ Len(b) >= 2 => /\ b[2] >= MinimumMessageLength
                    /\ Len(b) < ExpectedSize(b)
                    /\ ExpectedSize(b) <= MaximumPacketSize

Partway(b) == b = <<>> \/ Begun(b)

\* The decoder holds r, unless a silence made it forget.
Follows(buffer, r, silent) == buffer = r \/ (silent /\ buffer = <<>>)

\* The decoder is where a reader of the burst b would be, if b is the beginning
\* of a frame, a frame and the beginning of one, or two frames.
Synced(b, frames, buffer, silent) ==
  /\ Partway(b) => frames = <<>> /\ Follows(buffer, b, silent)
  /\ \A i \in 1..Len(b) :
       LET f == SubSeq(b, 1, i)
           r == SubSeq(b, i + 1, Len(b))
       IN  IsFrame(f) => /\ Partway(r) => frames = <<f>> /\ Follows(buffer, r, silent)
                         /\ IsFrame(r) => frames = <<f, r>>

LEMMA FrameShape ==
  ASSUME NEW g \in Seq(Byte), IsFrame(g)
  PROVE  /\ Len(g) >= MinimumMessageLength + 3 /\ Len(g) >= 4
         /\ g[1] = Preamble /\ Len(g) = g[2] + 3
<1>1. MinimumMessageLength \in Nat /\ MinimumMessageLength >= 1 /\ Len(g) \in Nat
  BY ProtocolAssumption
<1>2. Len(g) >= MinimumMessageLength + 3 /\ g[1] = Preamble /\ Len(g) = g[2] + 3
  BY DEF IsFrame, HasValidAuxChecksum, Size
<1>3. QED
  BY <1>1, <1>2

LEMMA NoneOneMore == \A n \in Nat : n = 0 \/ n = 1 \/ n >= 2
OBVIOUS

\* Every length a frame can have fits the buffer.
LengthsFit == ByteMod + 2 <= MaximumPacketSize

LEMMA ByteFits ==
  ASSUME LengthsFit, NEW x \in Byte
  PROVE  x \in Nat /\ x + 3 <= MaximumPacketSize /\ MaximumPacketSize \in Nat
BY ProtocolAssumption DEF Byte, LengthsFit

\* Without its last byte, the beginning of a frame is one or nothing, and a
\* frame is the beginning of one.
LEMMA BeforeLast ==
  ASSUME LengthsFit, NEW r \in Seq(Byte), NEW byte \in Byte
  PROVE  /\ Begun(Append(r, byte)) => Partway(r)
         /\ IsFrame(Append(r, byte)) => Begun(r) /\ Len(r) >= 3
<1> DEFINE g == Append(r, byte)
<1>1. /\ g \in Seq(Byte) /\ Len(r) \in Nat /\ Len(g) = Len(r) + 1
      /\ \A i \in 1..Len(r) : g[i] = r[i] /\ r[i] \in Byte
  OBVIOUS
<1>2. Len(r) = 0 => r = <<>>
  OBVIOUS
<1> HIDE DEF g
<1>3. ASSUME Begun(g)
      PROVE  Partway(r)
  <2>1. CASE Len(r) = 0
    BY <1>2, <2>1 DEF Partway
  <2>2. CASE Len(r) = 1
    BY <1>1, <1>3, <2>2 DEF Partway, Begun
  <2>3. CASE Len(r) >= 2
    <3>1. r[1] = g[1] /\ r[2] = g[2] /\ Len(g) >= 2 /\ r # <<>> /\ r[2] \in Nat
      BY <1>1, <2>3 DEF Byte
    <3>2. /\ g[1] = Preamble /\ g[2] >= MinimumMessageLength /\ Len(g) < g[2] + 3
          /\ g[2] + 3 <= MaximumPacketSize
      BY <1>3, <3>1 DEF Begun, ExpectedSize
    <3>3. Len(r) < r[2] + 3
      BY <1>1, <3>1, <3>2
    <3>4. QED
      BY <3>1, <3>2, <3>3 DEF Partway, Begun, ExpectedSize
  <2>4. QED
    BY <1>1, <2>1, <2>2, <2>3, NoneOneMore, Zenon
<1>4. ASSUME IsFrame(g)
      PROVE  Begun(r) /\ Len(r) >= 3
  <2>1. /\ Len(g) >= MinimumMessageLength + 3 /\ Len(g) >= 4
        /\ g[1] = Preamble /\ Len(g) = g[2] + 3
    BY <1>1, <1>4, FrameShape
  <2>2. Len(r) >= 3 /\ r # <<>>
    BY <1>1, <2>1
  <2>3. r[1] = g[1] /\ r[2] = g[2] /\ r[2] \in Byte
    BY <1>1, <2>2
  <2>4. r[2] \in Nat /\ r[2] + 3 <= MaximumPacketSize /\ MinimumMessageLength \in Nat
    BY <2>3, ByteFits, ProtocolAssumption
  <2>5. Len(r) < r[2] + 3 /\ r[2] >= MinimumMessageLength
    BY <1>1, <2>1, <2>3, <2>4
  <2>6. QED
    BY <2>1, <2>2, <2>3, <2>4, <2>5 DEF Begun, ExpectedSize
<1>5. QED
  BY <1>3, <1>4 DEF g

----------------------------------------------------------------------------
(* feed() *)

\* It goes along with the beginning of a frame, and ends with the frame.
LEMMA FeedFollows ==
  ASSUME LengthsFit, NEW d \in Decoder, NEW byte \in Byte, NEW now \in Ms,
         NEW origin \in PacketOrigin, Partway(Expire(d, now).buffer)
  PROVE  LET g == Append(Expire(d, now).buffer, byte)
             o == Feed(d, byte, now, origin)
         IN  /\ Begun(g) => o.result = "kNone" /\ o.decoder.buffer = g
             /\ IsFrame(g) => /\ o.result = "kPacket" /\ o.decoder.buffer = <<>>
                              /\ o.packet.bytes = g
<1> DEFINE b == Expire(d, now).buffer
           g == Append(b, byte)
           o == Feed(d, byte, now, origin)
           full  == Len(b) >= MaximumPacketSize \/ Len(b) >= ExpectedSize(b)
           whole == Len(g) = ExpectedSize(g)
           short == byte < MinimumMessageLength \/ byte + 3 > MaximumPacketSize
<1>1. \/ b = <<>> /\ o = Outcome(RestartBuffer(byte), now, "kNone", EmptyPacket)
      \/ Len(b) = 1 /\ short /\ o = Outcome(<<>>, now, "kRejected", EmptyPacket)
      \/ Len(b) = 1 /\ ~short /\ o = Outcome(g, now, "kNone", EmptyPacket)
      \/ Len(b) >= 2 /\ full /\ o = Outcome(<<>>, now, "kRejected", EmptyPacket)
      \/ /\ Len(b) >= 2 /\ ~full /\ ~whole
         /\ o = Outcome(g, now, "kNone", EmptyPacket)
      \/ Len(b) >= 2 /\ ~full /\ whole /\ o = FinishFrame(g, byte, now, origin)
  BY FeedCases
<1>2. b \in Seq(Byte) /\ Partway(b)
  BY ExpireType DEF Decoder
<1> HIDE DEF b, o
<1>3. /\ g \in Seq(Byte) /\ Len(b) \in Nat /\ Len(g) = Len(b) + 1
      /\ \A i \in 1..Len(b) : g[i] = b[i]
      /\ g[Len(b) + 1] = byte
  BY <1>2
<1>4. b = <<>> => g = <<byte>> /\ Len(b) = 0
  BY <1>2
<1> HIDE DEF g
<1>5. Len(b) >= 2 => ~full
  <2> SUFFICES ASSUME Len(b) >= 2 PROVE ~full
    OBVIOUS
  <2>1. b # <<>>
    BY <1>4
  <2>2. Len(b) < ExpectedSize(b) /\ ExpectedSize(b) <= MaximumPacketSize
    BY <1>2, <2>1 DEF Partway, Begun
  <2>3. ExpectedSize(b) \in Int /\ MaximumPacketSize \in Int
    <3>1. b[2] \in Byte
      BY <1>2
    <3>2. QED
      BY <3>1, ByteFits DEF ExpectedSize
  <2>4. QED
    BY <1>3, <2>2, <2>3
<1>6. ASSUME Begun(g)
      PROVE  o.result = "kNone" /\ o.decoder.buffer = g
  <2>1. CASE b = <<>>
    <3>1. RestartBuffer(byte) = g
      BY <1>3, <1>4, <1>6, <2>1 DEF Begun, RestartBuffer
    <3>2. o = Outcome(g, now, "kNone", EmptyPacket)
      BY <1>1, <1>4, <2>1, <3>1
    <3>3. QED
      BY <3>2 DEF Outcome
  <2>2. CASE Len(b) = 1
    <3>1. ~short
      <4>1. g[2] = byte /\ Len(g) >= 2 /\ byte \in Nat /\ MaximumPacketSize \in Nat
            /\ MinimumMessageLength \in Nat
        BY <1>3, <2>2, ByteFits, ProtocolAssumption
      <4>2. byte >= MinimumMessageLength /\ byte + 3 <= MaximumPacketSize
        BY <1>6, <4>1 DEF Begun, ExpectedSize
      <4>3. QED
        BY <4>1, <4>2
    <3>2. b # <<>> /\ o = Outcome(g, now, "kNone", EmptyPacket)
      BY <1>1, <1>4, <2>2, <3>1
    <3>3. QED
      BY <3>2 DEF Outcome
  <2>3. CASE Len(b) >= 2
    <3>1. ~whole
      <4>1. Len(g) >= 2 /\ Len(g) \in Nat
        BY <1>3, <2>3
      <4>2. Len(g) < ExpectedSize(g) /\ ExpectedSize(g) \in Int
        <5>1. g[2] \in Byte
          BY <1>3, <4>1
        <5>2. QED
          BY <1>6, <4>1, <5>1, ByteFits DEF Begun, ExpectedSize
      <4>3. QED
        BY <4>1, <4>2
    <3>2. b # <<>> /\ Len(b) # 1
      BY <1>3, <1>4, <2>3
    <3> HIDE DEF full, whole, short
    <3>3. o = Outcome(g, now, "kNone", EmptyPacket)
      BY <1>1, <1>5, <2>3, <3>1, <3>2
    <3>4. QED
      BY <3>3 DEF Outcome
  <2>4. Len(b) = 0 => b = <<>>
    BY <1>2
  <2>5. QED
    BY <1>3, <2>1, <2>2, <2>3, <2>4, NoneOneMore, Zenon
<1>7. ASSUME IsFrame(g)
      PROVE  o.result = "kPacket" /\ o.decoder.buffer = <<>> /\ o.packet.bytes = g
  <2>1. Len(b) >= 3 /\ Len(g) = g[2] + 3
    BY <1>2, <1>3, <1>7, BeforeLast, FrameShape DEF g
  <2>2. Len(b) >= 2 /\ b # <<>> /\ Len(b) # 1 /\ whole
    BY <1>3, <1>4, <2>1 DEF ExpectedSize
  <2> HIDE DEF full, whole, short
  <2>3. o = FinishFrame(g, byte, now, origin)
    BY <1>1, <1>5, <2>2
  <2>4. o = Outcome(<<>>, now, "kPacket", [bytes |-> g, origin |-> origin])
    BY <1>7, <2>3 DEF FinishFrame, IsFrame, HasValidAuxChecksum, Size
  <2>5. QED
    BY <2>4 DEF Outcome
<1>8. QED
  BY <1>6, <1>7 DEF b, g, o

\* Whatever the byte, the decoder is left with nothing or the beginning of a
\* frame that ends with the byte, and a packet ends with it too.
LEMMA FeedBegins ==
  ASSUME LengthsFit, NEW d \in Decoder, NEW byte \in Byte, NEW now \in Ms,
         NEW origin \in PacketOrigin, Partway(Expire(d, now).buffer)
  PROVE  LET g == Append(Expire(d, now).buffer, byte)
             o == Feed(d, byte, now, origin)
         IN  /\ Partway(o.decoder.buffer) /\ o.decoder.last_byte_ms = now
             /\ o.decoder.buffer \in {<<>>, <<byte>>, g}
             /\ o.result = "kPacket" => o.packet.bytes = g
<1> DEFINE b == Expire(d, now).buffer
           g == Append(b, byte)
           o == Feed(d, byte, now, origin)
           full  == Len(b) >= MaximumPacketSize \/ Len(b) >= ExpectedSize(b)
           whole == Len(g) = ExpectedSize(g)
           short == byte < MinimumMessageLength \/ byte + 3 > MaximumPacketSize
           Good(u) == /\ Partway(u.decoder.buffer) /\ u.decoder.last_byte_ms = now
                      /\ u.decoder.buffer \in {<<>>, <<byte>>, g}
                      /\ u.result = "kPacket" => u.packet.bytes = g
<1> SUFFICES Good(o)
  OBVIOUS
<1>1. \/ b = <<>> /\ o = Outcome(RestartBuffer(byte), now, "kNone", EmptyPacket)
      \/ Len(b) = 1 /\ short /\ o = Outcome(<<>>, now, "kRejected", EmptyPacket)
      \/ Len(b) = 1 /\ ~short /\ o = Outcome(g, now, "kNone", EmptyPacket)
      \/ Len(b) >= 2 /\ full /\ o = Outcome(<<>>, now, "kRejected", EmptyPacket)
      \/ /\ Len(b) >= 2 /\ ~full /\ ~whole
         /\ o = Outcome(g, now, "kNone", EmptyPacket)
      \/ Len(b) >= 2 /\ ~full /\ whole /\ o = FinishFrame(g, byte, now, origin)
  BY FeedCases
<1>2. b \in Seq(Byte) /\ Partway(b)
  BY ExpireType DEF Decoder
<1> HIDE DEF b, o
<1>3. /\ g \in Seq(Byte) /\ Len(b) \in Nat /\ Len(g) = Len(b) + 1
      /\ \A i \in 1..Len(b) : g[i] = b[i]
      /\ g[Len(b) + 1] = byte
  BY <1>2
<1>4. Len(<<>>) = 0 /\ Partway(<<>>)
  BY DEF Partway
<1>5. Partway(RestartBuffer(byte)) /\ RestartBuffer(byte) \in {<<>>, <<byte>>}
  BY DEF RestartBuffer, Partway, Begun
<1> HIDE DEF g
<1>6. ASSUME NEW buffer \in {<<>>, <<byte>>, g}, Partway(buffer), NEW result, NEW packet,
             result = "kPacket" => packet.bytes = g
      PROVE  Good(Outcome(buffer, now, result, packet))
  BY <1>6 DEF Outcome
<1>7. CASE Len(b) = 1 /\ ~short /\ o = Outcome(g, now, "kNone", EmptyPacket)
  <2>1. b # <<>> /\ g[1] = Preamble /\ g[2] = byte /\ Len(g) = 2 /\ g # <<>>
    <3>1. Len(b) = 1
      BY <1>7
    <3>2. b # <<>> /\ g[1] = b[1] /\ g[2] = byte /\ Len(g) = 2 /\ g # <<>>
      <4>1. 1 \in 1..Len(b) /\ Len(b) + 1 = 2 /\ Len(g) = 2
        BY <1>3, <3>1
      <4>2. b # <<>> /\ g # <<>>
        <5>1. Len(<<>>) # Len(b) /\ Len(<<>>) # Len(g)
          BY <1>4, <3>1, <4>1
        <5>2. QED
          BY <5>1
      <4>3. QED
        BY <1>3, <4>1, <4>2
    <3>3. QED
      BY <1>2, <3>2 DEF Partway, Begun
  <2>2. Partway(g)
    <3>1. /\ byte \in Nat /\ MinimumMessageLength \in Nat /\ MaximumPacketSize \in Nat
          /\ byte >= MinimumMessageLength /\ byte + 3 <= MaximumPacketSize
      BY <1>7, ByteFits, ProtocolAssumption
    <3>2. 2 < byte + 3
      BY <3>1
    <3>3. QED
      BY <2>1, <3>1, <3>2 DEF Partway, Begun, ExpectedSize
  <2>3. Good(Outcome(g, now, "kNone", EmptyPacket))
    BY <1>6, <2>2
  <2> HIDE DEF Good
  <2>4. QED
    BY <1>7, <2>3 DEF Good, o, g, b
<1>8. CASE /\ Len(b) >= 2 /\ ~full /\ ~whole
           /\ o = Outcome(g, now, "kNone", EmptyPacket)
  <2>1. /\ b # <<>> /\ b[1] = Preamble /\ b[2] >= MinimumMessageLength
        /\ Len(b) < ExpectedSize(b) /\ ExpectedSize(b) <= MaximumPacketSize
    BY <1>2, <1>4, <1>8 DEF Partway, Begun
  <2>2. g[1] = b[1] /\ g[2] = b[2] /\ b[2] \in Nat /\ g # <<>>
    <3>1. Len(b) >= 2
      BY <1>8
    <3>2. 1 \in 1..Len(b) /\ 2 \in 1..Len(b) /\ Len(g) # 0
      BY <1>3, <3>1
    <3>3. b[2] \in Byte
      BY <1>2, <3>2
    <3>4. g # <<>>
      BY <1>4, <3>2
    <3>5. QED
      BY <1>3, <3>2, <3>3, <3>4 DEF Byte
  <2>3. Len(g) < ExpectedSize(g)
    BY <1>3, <1>8, <2>1, <2>2 DEF ExpectedSize
  <2>4. Partway(g)
    BY <2>1, <2>2, <2>3 DEF Partway, Begun, ExpectedSize
  <2>5. Good(Outcome(g, now, "kNone", EmptyPacket))
    BY <1>6, <2>4
  <2> HIDE DEF Good
  <2>6. QED
    BY <1>8, <2>5 DEF Good, o, g, b
<1>9. Good(Outcome(RestartBuffer(byte), now, "kNone", EmptyPacket))
      /\ Good(Outcome(<<>>, now, "kRejected", EmptyPacket))
      /\ Good(FinishFrame(g, byte, now, origin))
  <2>1. ASSUME NEW result, NEW packet, result = "kPacket" => packet.bytes = g
        PROVE  /\ Good(Outcome(RestartBuffer(byte), now, result, packet))
               /\ Good(Outcome(<<>>, now, result, packet))
    BY <1>4, <1>5, <1>6, <2>1
  <2>2. [bytes |-> g, origin |-> origin].bytes = g
    OBVIOUS
  <2> HIDE DEF Good
  <2>3. QED
    BY <2>1, <2>2 DEF FinishFrame
<1> HIDE DEF Good, full, whole, short
<1>10. Good(o)
  <2>1. CASE o = Outcome(RestartBuffer(byte), now, "kNone", EmptyPacket)
    BY <1>9, <2>1 DEF Good
  <2>2. CASE o = Outcome(<<>>, now, "kRejected", EmptyPacket)
    BY <1>9, <2>2 DEF Good
  <2>3. CASE o = FinishFrame(g, byte, now, origin)
    BY <1>9, <2>3 DEF Good
  <2>4. QED
    BY <1>1, <1>7, <1>8, <2>1, <2>2, <2>3, Zenon
<1>11. QED
  BY <1>10 DEF Good, o, g, b

----------------------------------------------------------------------------
(* Resynchronisation *)

LEMMA SyncedForgets ==
  ASSUME NEW b, NEW frames, NEW buffer, NEW left, NEW before, NEW after,
         Synced(b, frames, buffer, before), before => after,
         left = buffer \/ (after /\ left = <<>>)
  PROVE  Synced(b, frames, left, after)
<1>1. \A r : Follows(buffer, r, before) => Follows(left, r, after)
  BY DEF Follows
<1> SUFFICES ASSUME TRUE
             PROVE  /\ Partway(b) => frames = <<>> /\ Follows(left, b, after)
                    /\ \A i \in 1..Len(b) :
                         IsFrame(SubSeq(b, 1, i)) =>
                           /\ Partway(SubSeq(b, i + 1, Len(b)))
                                => /\ frames = <<SubSeq(b, 1, i)>>
                                   /\ Follows(left, SubSeq(b, i + 1, Len(b)), after)
                           /\ IsFrame(SubSeq(b, i + 1, Len(b)))
                                => frames = <<SubSeq(b, 1, i), SubSeq(b, i + 1, Len(b))>>
  BY DEF Synced
<1>2. /\ Partway(b) => frames = <<>> /\ Follows(buffer, b, before)
      /\ \A i \in 1..Len(b) :
           IsFrame(SubSeq(b, 1, i)) =>
             /\ Partway(SubSeq(b, i + 1, Len(b)))
                  => /\ frames = <<SubSeq(b, 1, i)>>
                     /\ Follows(buffer, SubSeq(b, i + 1, Len(b)), before)
             /\ IsFrame(SubSeq(b, i + 1, Len(b)))
                  => frames = <<SubSeq(b, 1, i), SubSeq(b, i + 1, Len(b))>>
  BY DEF Synced
<1>3. QED
  BY <1>1, <1>2

LEMMA Joined ==
  ASSUME NEW T, NEW s \in Seq(T), NEW t \in Seq(T), Len(s) = 1, Len(t) = 1
  PROVE  s \o t \in Seq(T) /\ Len(s \o t) = 2 /\ (s \o t)[1] = s[1] /\ (s \o t)[2] = t[1]
<1>1. s \o t \in Seq(T) /\ Len(s \o t) = 2
  OBVIOUS
<1>2. (s \o t)[1] = s[1]
  OBVIOUS
<1>3. (s \o t)[2] = t[2 - Len(s)] /\ 2 - Len(s) = 1
  BY ConcatProperties
<1>4. QED
  BY <1>1, <1>2, <1>3

LEMMA Concatenations ==
  ASSUME NEW T, NEW x \in T
  PROVE  /\ <<>> \o <<x>> = <<x>> /\ <<x>> \o <<>> = <<x>>
         /\ \A y \in T : <<x>> \o <<y>> = <<x, y>>
<1> DEFINE none == <<>>
           one  == <<x>>
<1>1. none \in Seq(T) /\ one \in Seq(T) /\ Len(none) = 0 /\ Len(one) = 1 /\ one[1] = x
  OBVIOUS
<1> HIDE DEF none
<1>2. none \o one = one
  BY <1>1
<1>3. one \o none = one
  BY <1>1
<1>4. ASSUME NEW y \in T
      PROVE  <<x>> \o <<y>> = <<x, y>>
  <2> DEFINE two    == <<y>>
             joined == one \o two
             pair   == <<x, y>>
  <2>1. two \in Seq(T) /\ Len(two) = 1 /\ two[1] = y
    OBVIOUS
  <2> HIDE DEF two, one
  <2>2. joined \in Seq(T) /\ Len(joined) = 2 /\ joined[1] = x /\ joined[2] = y
    BY <1>1, <2>1, Joined
  <2>3. pair \in Seq(T) /\ Len(pair) = 2 /\ pair[1] = x /\ pair[2] = y
    OBVIOUS
  <2> HIDE DEF joined, pair
  <2>4. \A k \in 1..2 : joined[k] = pair[k]
    <3>1. \A k \in 1..2 : k = 1 \/ k = 2
      OBVIOUS
    <3>2. QED
      BY <2>2, <2>3, <3>1
  <2>5. joined = pair
    BY <2>2, <2>3, <2>4
  <2>6. QED
    BY <2>5 DEF joined, pair, one, two
<1>5. QED
  BY <1>2, <1>3, <1>4 DEF none

LEMMA TailGrows ==
  ASSUME NEW b \in Seq(Byte), NEW x \in Byte, NEW i \in 1..Len(b)
  PROVE  LET g == Append(b, x)
         IN  SubSeq(g, i + 1, Len(g)) = Append(SubSeq(b, i + 1, Len(b)), x)
<1> DEFINE g  == Append(b, x)
           r  == SubSeq(g, i + 1, Len(g))
           r0 == SubSeq(b, i + 1, Len(b))
           m  == Len(b)
<1>1. /\ g \in Seq(Byte) /\ m \in Nat /\ Len(g) = m + 1 /\ g[m + 1] = x
      /\ \A k \in 1..m : g[k] = b[k]
      /\ i \in 1..m
  OBVIOUS
<1> HIDE DEF g, m
<1>2. r \in Seq(Byte) /\ Len(r) = (m - i) + 1 /\ \A k \in 1..((m - i) + 1) : r[k] = g[i + k]
  BY <1>1
<1>3. r0 \in Seq(Byte) /\ Len(r0) = m - i /\ \A k \in 1..(m - i) : r0[k] = b[i + k]
  BY <1>1 DEF m
<1> HIDE DEF r, r0
<1>4. ASSUME NEW k \in 1..((m - i) + 1)
      PROVE  r[k] = Append(r0, x)[k]
  <2>1. CASE k = (m - i) + 1
    <3>1. i + k = m + 1
      BY <1>1, <2>1
    <3>2. r[k] = x
      BY <1>1, <1>2, <3>1
    <3>3. Append(r0, x)[Len(r0) + 1] = x
      BY <1>3
    <3>4. QED
      BY <1>3, <2>1, <3>2, <3>3
  <2>2. CASE k # (m - i) + 1
    <3>1. k \in 1..(m - i) /\ i + k \in 1..m
      BY <1>1, <2>2
    <3>2. Append(r0, x)[k] = r0[k]
      BY <1>1, <1>3, <3>1
    <3>3. QED
      BY <1>1, <1>2, <1>3, <3>1, <3>2
  <2>3. QED
    BY <2>1, <2>2
<1>5. Append(r0, x) \in Seq(Byte) /\ Len(Append(r0, x)) = (m - i) + 1
  BY <1>3
<1>6. r = Append(r0, x)
  BY <1>1, <1>2, <1>4, <1>5
<1>7. QED
  BY <1>6 DEF r, r0, g

\* A byte keeps the decoder with the reader of the burst.
LEMMA SyncedGrows ==
  ASSUME NEW b \in Seq(Byte), NEW frames, NEW d \in Decoder, NEW byte \in Byte,
         NEW now \in Ms, NEW origin \in PacketOrigin,
         LengthsFit, Partway(Expire(d, now).buffer),
         Synced(b, frames, Expire(d, now).buffer, FALSE)
  PROVE  LET o == Feed(d, byte, now, origin)
         IN  Synced(Append(b, byte),
                    frames \o (IF o.result = "kPacket" THEN <<o.packet.bytes>> ELSE <<>>),
                    o.decoder.buffer, FALSE)
<1> DEFINE buffer == Expire(d, now).buffer
           o      == Feed(d, byte, now, origin)
           grown  == Append(b, byte)
           found  == frames \o (IF o.result = "kPacket" THEN <<o.packet.bytes>> ELSE <<>>)
           Result(r)  == /\ Begun(Append(r, byte)) =>
                              o.result = "kNone" /\ o.decoder.buffer = Append(r, byte)
                         /\ IsFrame(Append(r, byte)) =>
                              /\ o.result = "kPacket" /\ o.decoder.buffer = <<>>
                              /\ o.packet.bytes = Append(r, byte)
<1>1. Result(buffer)
  BY FeedFollows
<1>2. \A r : Follows(buffer, r, FALSE) => buffer = r
  BY DEF Follows
<1>3. /\ grown \in Seq(Byte) /\ Len(b) \in Nat /\ Len(grown) = Len(b) + 1 /\ grown # <<>>
  OBVIOUS
<1>4. /\ Partway(b) => frames = <<>> /\ Follows(buffer, b, FALSE)
      /\ \A i \in 1..Len(b) :
           IsFrame(SubSeq(b, 1, i)) /\ Partway(SubSeq(b, i + 1, Len(b)))
             => /\ frames = <<SubSeq(b, 1, i)>>
                /\ Follows(buffer, SubSeq(b, i + 1, Len(b)), FALSE)
  BY DEF Synced
<1>5. <<>> \o <<>> = <<>>
  OBVIOUS
<1>6. ASSUME NEW x \in Seq(Byte)
      PROVE  <<>> \o <<x>> = <<x>> /\ <<x>> \o <<>> = <<x>>
             /\ \A y \in Seq(Byte) : <<x>> \o <<y>> = <<x, y>>
  BY Concatenations
<1> HIDE DEF buffer, o
<1>7. Partway(grown) => found = <<>> /\ Follows(o.decoder.buffer, grown, FALSE)
  <2> SUFFICES ASSUME Begun(grown)
               PROVE  found = <<>> /\ Follows(o.decoder.buffer, grown, FALSE)
    BY <1>3 DEF Partway
  <2>1. frames = <<>> /\ buffer = b
    BY <1>2, <1>4, BeforeLast
  <2>2. o.result = "kNone" /\ o.decoder.buffer = grown
    BY <1>1, <2>1
  <2>3. QED
    BY <1>5, <2>1, <2>2 DEF Follows
<1>8. ASSUME NEW i \in 1..Len(grown), IsFrame(SubSeq(grown, 1, i))
      PROVE  LET f == SubSeq(grown, 1, i)
                 r == SubSeq(grown, i + 1, Len(grown))
             IN  /\ Partway(r) => found = <<f>> /\ Follows(o.decoder.buffer, r, FALSE)
                 /\ IsFrame(r) => found = <<f, r>>
  <2> DEFINE f == SubSeq(grown, 1, i)
             r == SubSeq(grown, i + 1, Len(grown))
             r0 == SubSeq(b, i + 1, Len(b))
  <2>1. CASE i = Len(b) + 1
    <3>1. f = grown /\ r = <<>>
      BY <1>3, <2>1
    <3>2. ~IsFrame(r)
      <4>1. <<>> \in Seq(Byte) /\ ~(Len(<<>>) >= 4)
        OBVIOUS
      <4>2. QED
        BY <3>1, <4>1, FrameShape
    <3>3. IsFrame(grown) /\ frames = <<>> /\ buffer = b
      BY <1>2, <1>4, <1>8, <3>1, BeforeLast DEF Partway
    <3>4. o.result = "kPacket" /\ o.decoder.buffer = <<>> /\ o.packet.bytes = grown
      BY <1>1, <3>3
    <3> HIDE DEF f, r, grown
    <3>5. found = <<grown>> /\ Follows(o.decoder.buffer, r, FALSE)
      BY <1>3, <1>6, <3>1, <3>3, <3>4 DEF Follows
    <3>6. QED
      BY <3>1, <3>2, <3>5 DEF f, r
  <2>2. CASE i # Len(b) + 1
    <3>1. i \in 1..Len(b)
      BY <1>3, <2>2
    <3>2. f = SubSeq(b, 1, i) /\ f \in Seq(Byte) /\ r0 \in Seq(Byte)
      BY <1>3, <3>1
    <3>3. r = Append(r0, byte) /\ r # <<>> /\ r \in Seq(Byte)
      <4>1. r = Append(r0, byte)
        BY <3>1, TailGrows
      <4>2. r0 \in Seq(Byte)
        BY <3>2
      <4> HIDE DEF r, r0
      <4>3. QED
        BY <4>1, <4>2
    <3> HIDE DEF f, r, grown
    <3>4. IsFrame(f)
      BY <1>8 DEF f
    <3>5. Partway(r0) => frames = <<f>> /\ buffer = r0
      BY <1>2, <1>4, <3>1, <3>2, <3>4
    <3> HIDE DEF r0
    <3>6. ASSUME Partway(r)
          PROVE  found = <<f>> /\ Follows(o.decoder.buffer, r, FALSE)
      <4>1. Begun(r) /\ Partway(r0)
        BY <3>2, <3>3, <3>6, BeforeLast DEF Partway
      <4>2. o.result = "kNone" /\ o.decoder.buffer = r
        BY <1>1, <3>3, <3>5, <4>1
      <4>3. QED
        BY <1>6, <3>2, <3>5, <4>1, <4>2 DEF Follows
    <3>7. ASSUME IsFrame(r)
          PROVE  found = <<f, r>>
      <4>1. Partway(r0)
        BY <3>2, <3>3, <3>7, BeforeLast DEF Partway
      <4>2. o.result = "kPacket" /\ o.packet.bytes = r
        BY <1>1, <3>3, <3>5, <3>7, <4>1
      <4>3. QED
        BY <1>6, <3>2, <3>3, <3>5, <4>1, <4>2
    <3>8. QED
      BY <3>6, <3>7 DEF f, r
  <2>3. QED
    BY <2>1, <2>2
<1> HIDE DEF grown, found
<1>9. Synced(grown, found, o.decoder.buffer, FALSE)
  BY <1>7, <1>8 DEF Synced
<1>10. QED
  BY <1>9 DEF grown, found, o

\* FlattenSeq of one or two sequences.
LEMMA FlattenOne ==
  ASSUME NEW x
  PROVE  FlattenSeq(<<x>>) = x
<1> DEFINE Eq(h) == h = [i \in 1..1 |-> IF i = 1 THEN <<x>>[i] ELSE h[i - 1] \o <<x>>[i]]
           flatten == CHOOSE h : Eq(h)
<1>1. Eq([i \in 1..1 |-> x])
  OBVIOUS
<1>2. Eq(flatten)
  BY <1>1
<1>3. flatten[1] = x
  BY <1>2
<1>4. Len(<<x>>) = 1
  OBVIOUS
<1>5. FlattenSeq(<<x>>) = flatten[1]
  BY <1>4 DEF FlattenSeq
<1>6. QED
  BY <1>3, <1>5

LEMMA FlattenTwo ==
  ASSUME NEW x, NEW y
  PROVE  FlattenSeq(<<x, y>>) = x \o y
<1> DEFINE Eq(h) == h = [i \in 1..2 |-> IF i = 1 THEN <<x, y>>[i]
                                                 ELSE h[i - 1] \o <<x, y>>[i]]
           flatten == CHOOSE h : Eq(h)
           witness == [i \in 1..2 |-> IF i = 1 THEN x ELSE x \o y]
<1>1. Eq(witness)
  OBVIOUS
<1>2. Eq(flatten)
  BY <1>1
<1> HIDE DEF flatten
<1>3. flatten[2] = x \o y
  <2>1. <<x, y>>[1] = x /\ <<x, y>>[2] = y
    OBVIOUS
  <2>2. flatten[2] = flatten[1] \o <<x, y>>[2]
    <3> DEFINE s == <<x, y>>
               joined(i) == IF i = 1 THEN s[i] ELSE flatten[i - 1] \o s[i]
    <3>1. flatten = [i \in 1..2 |-> joined(i)]
      BY <1>2
    <3> HIDE DEF joined
    <3>2. 2 \in 1..2 /\ 2 - 1 = 1 /\ 2 # 1
      OBVIOUS
    <3>3. flatten[2] = joined(2)
      BY <3>1, <3>2
    <3>4. joined(2) = flatten[2 - 1] \o s[2]
      BY <3>2, Zenon DEF joined
    <3>5. QED
      BY <3>2, <3>3, <3>4
  <2>3. flatten[1] = <<x, y>>[1]
    BY <1>2
  <2>4. QED
    BY <2>1, <2>2, <2>3, Zenon
<1>4. Len(<<x, y>>) = 2
  OBVIOUS
<1>5. FlattenSeq(<<x, y>>) = flatten[2]
  BY <1>4 DEF FlattenSeq, flatten
<1>6. QED
  BY <1>3, <1>5

LEMMA SplitJoins ==
  ASSUME NEW b \in Seq(Byte), NEW i \in 1..Len(b)
  PROVE  SubSeq(b, 1, i) \o SubSeq(b, i + 1, Len(b)) = b
OBVIOUS

\* Of one frame or two, the decoder has made just these.
LEMMA SyncedFrames ==
  ASSUME NEW b \in Seq(Byte), NEW frames, NEW buffer, NEW silent,
         Synced(b, frames, buffer, silent), IsFrames(b)
  PROVE  FlattenSeq(frames) = b
<1>1. PICK i \in 1..Len(b) : /\ IsFrame(SubSeq(b, 1, i))
                             /\ i = Len(b) \/ IsFrame(SubSeq(b, i + 1, Len(b)))
  BY DEF IsFrames
<1> DEFINE f == SubSeq(b, 1, i)
           r == SubSeq(b, i + 1, Len(b))
<1>2. f \o r = b
  BY SplitJoins
<1>3. /\ Partway(r) => frames = <<f>>
      /\ IsFrame(r) => frames = <<f, r>>
  BY <1>1 DEF Synced
<1>4. i = Len(b) => r = <<>> /\ f = b
  OBVIOUS
<1>5. IsFrame(f) /\ (i = Len(b) \/ IsFrame(r))
  BY <1>1
<1> HIDE DEF f, r
<1>6. CASE i = Len(b)
  BY <1>3, <1>4, <1>6, FlattenOne DEF Partway
<1>7. CASE IsFrame(r)
  BY <1>2, <1>3, <1>7, FlattenTwo
<1>8. QED
  BY <1>5, <1>6, <1>7

----------------------------------------------------------------------------
(* EchoTracker *)

\* What a tracker is in at any time: the part of the echo it still awaits is not
\* empty while it tracks.
TrackerOK(t) ==
  /\ t \in Tracker
  /\ t.matched <= Len(t.expected)
  /\ t.active => t.matched < Len(t.expected)

LEMMA TrackerFields ==
  ASSUME NEW t, TrackerOK(t)
  PROVE  /\ t.matched \in Nat /\ t.matches \in Nat /\ Len(t.expected) \in Nat
         /\ t.expected \in Seq(Byte) /\ t.active \in BOOLEAN /\ t.deadline_ms \in Ms
         /\ {t.matched + 1, t.matches + 1, t.mismatches + 1, t.timeouts + 1} \subseteq Nat
BY DEF TrackerOK, Tracker

LEMMA TrackerTimesOut ==
  ASSUME NEW t, TrackerOK(t)
  PROVE  LET u == [t EXCEPT !.active = FALSE, !.timeouts = @ + 1]
         IN  TrackerOK(u) /\ ~u.active /\ u.matches = t.matches
<1>1. ASSUME NEW n \in Nat
      PROVE  LET u == [t EXCEPT !.active = FALSE, !.timeouts = n]
             IN  TrackerOK(u) /\ ~u.active /\ u.matches = t.matches
  BY DEF TrackerOK, Tracker
<1>2. QED
  BY <1>1, TrackerFields

LEMMA TrackerMismatches ==
  ASSUME NEW t, TrackerOK(t)
  PROVE  LET u == [t EXCEPT !.active = FALSE, !.mismatches = @ + 1]
         IN  TrackerOK(u) /\ ~u.active /\ u.matches = t.matches
<1>1. ASSUME NEW n \in Nat
      PROVE  LET u == [t EXCEPT !.active = FALSE, !.mismatches = n]
             IN  TrackerOK(u) /\ ~u.active /\ u.matches = t.matches
  BY DEF TrackerOK, Tracker
<1>2. QED
  BY <1>1, TrackerFields

LEMMA TrackerMatches ==
  ASSUME NEW t, TrackerOK(t), t.active
  PROVE  LET whole == t.matched + 1 = Len(t.expected)
             u     == [t EXCEPT !.matched = @ + 1, !.active = ~whole,
                                !.matches = IF whole THEN @ + 1 ELSE @]
         IN  TrackerOK(u) /\ u.active = ~whole
             /\ u.matches = IF whole THEN t.matches + 1 ELSE t.matches
<1> DEFINE whole == t.matched + 1 = Len(t.expected)
           open  == ~whole
           next  == t.matched + 1
           count == IF whole THEN t.matches + 1 ELSE t.matches
<1>1. next <= Len(t.expected) /\ (open => next < Len(t.expected))
  BY TrackerFields DEF TrackerOK
<1>2. count \in Nat /\ next \in Nat /\ open \in BOOLEAN
  BY TrackerFields
<1> HIDE DEF open, count, next
<1> DEFINE u == [t EXCEPT !.matched = next, !.active = open, !.matches = count]
<1>3. t \in Tracker
  BY DEF TrackerOK
<1>4. u \in Tracker
  BY <1>2, <1>3 DEF Tracker
<1>5. u.matched = next /\ u.expected = t.expected /\ u.matches = count /\ u.active = open
  BY <1>2, <1>3 DEF Tracker
<1> HIDE DEF u
<1>6. TrackerOK(u)
  BY <1>1, <1>4, <1>5 DEF TrackerOK
<1>7. QED
  BY <1>5, <1>6 DEF open, count, next, u

LEMMA InitTrackerOK == TrackerOK(InitTracker)
BY MillisAssumption DEF TrackerOK, InitTracker, Tracker, Ms

LEMMA BeginOK ==
  ASSUME NEW t, TrackerOK(t), NEW p \in AuxPacket, NEW now \in Ms
  PROVE  /\ TrackerOK(Begin(t, p, now))
         /\ Begin(t, p, now).matches = t.matches
         /\ Begins(p) =>
              LET u == Begin(t, p, now)
              IN  /\ u.active /\ u.expected = p.bytes /\ u.matched = 0
                  /\ u.deadline_ms = (now + EchoWindowMs(Size(p))) % MsMod
         /\ ~Begins(p) => Begin(t, p, now) = t
<1> DEFINE deadline == (now + EchoWindowMs(Size(p))) % MsMod
<1>1. CASE ~Begins(p)
  BY <1>1 DEF Begin
<1>2. CASE Begins(p)
  <2>1. deadline \in Ms
    <3>1. Size(p) \in Nat /\ now \in Int /\ MsMod \in Nat \ {0}
      BY MillisAssumption DEF Size, AuxPacket, Ms
    <3>2. EchoWindowMs(Size(p)) \in Int
      <4>1. Size(p) * BitsPerCharacter \in Int
        BY <3>1, TrackerAssumption
      <4>2. Size(p) * BitsPerCharacter * 1000 + Baud - 1 \in Int
        BY <4>1, TrackerAssumption
      <4>3. (Size(p) * BitsPerCharacter * 1000 + Baud - 1) \div Baud \in Int
        BY <4>2, TrackerAssumption
      <4>4. QED
        BY <4>3, TrackerAssumption DEF EchoWindowMs
    <3>3. now + EchoWindowMs(Size(p)) \in Int
      BY <3>1, <3>2
    <3>4. QED
      BY <3>1, <3>3 DEF Ms
  <2> HIDE DEF deadline
  <2>2. Begin(t, p, now) = [t EXCEPT !.expected = p.bytes, !.matched = 0,
                                     !.deadline_ms = deadline, !.active = TRUE]
    BY <1>2 DEF Begin, deadline
  <2>3. p.bytes \in Seq(Byte) /\ Len(p.bytes) \in Nat /\ Len(p.bytes) >= 1
    BY <1>2 DEF AuxPacket, Begins, Size
  <2>4. QED
    <3> DEFINE u == Begin(t, p, now)
    <3>1. u = [expected |-> p.bytes, matched |-> 0, deadline_ms |-> deadline,
               active |-> TRUE, matches |-> t.matches, mismatches |-> t.mismatches,
               timeouts |-> t.timeouts]
      BY <2>2 DEF TrackerOK, Tracker
    <3> HIDE DEF u
    <3>2. u \in Tracker
      BY <2>1, <2>3, <3>1 DEF TrackerOK, Tracker
    <3>3. /\ u.matched = 0 /\ u.expected = p.bytes /\ u.matches = t.matches /\ u.active
          /\ u.deadline_ms = deadline
      BY <3>1
    <3>4. TrackerOK(u)
      BY <1>2, <2>3, <3>2, <3>3 DEF TrackerOK
    <3>5. QED
      BY <1>2, <3>3, <3>4 DEF u, deadline
<1>3. QED
  BY <1>1, <1>2

LEMMA PartialType ==
  ASSUME NEW t, TrackerOK(t)
  PROVE  Partial(t) \in Seq(Byte) /\ Len(Partial(t)) = t.matched
BY DEF TrackerOK, Tracker, Partial

LEMMA WithByteType ==
  ASSUME NEW forward \in Seq(Byte), NEW byte \in Byte
  PROVE  WithByte(forward, byte) \in Seq(Byte)
BY DEF WithByte

\* A byte is swallowed, the last one of the echo counts a match, or the tracking
\* ends without one.
LEMMA FeedByteOK ==
  ASSUME NEW t, TrackerOK(t), NEW byte \in Byte, NEW now
  PROVE  LET o == FeedByte(t, byte, now)
         IN  /\ TrackerOK(o.tracker) /\ o.forward \in Seq(Byte)
             /\ \/ o.tracker.matches = t.matches
                \/ o.tracker.matches = t.matches + 1 /\ t.active /\ ~o.tracker.active
<1> DEFINE o     == FeedByte(t, byte, now)
           whole == t.matched + 1 = Len(t.expected)
           Good(u, f) == /\ TrackerOK(u) /\ f \in Seq(Byte)
                         /\ \/ u.matches = t.matches
                            \/ u.matches = t.matches + 1 /\ t.active /\ ~u.active
<1> SUFFICES Good(o.tracker, o.forward)
  OBVIOUS
<1>1. <<byte>> \in Seq(Byte) /\ <<>> \in Seq(Byte)
  OBVIOUS
<1>2. WithByte(Partial(t), byte) \in Seq(Byte)
  BY PartialType, WithByteType
<1>3. CASE ~t.active
  <2>1. o = [tracker |-> t, forward |-> <<byte>>]
    BY <1>3 DEF FeedByte
  <2>2. Good(t, <<byte>>)
    BY <1>1
  <2> HIDE DEF o, Good
  <2>3. QED
    BY <2>1, <2>2
<1>4. CASE t.active /\ DeadlineReached(now, t.deadline_ms)
  <2> DEFINE u == [t EXCEPT !.active = FALSE, !.timeouts = @ + 1]
  <2>1. o = [tracker |-> u, forward |-> WithByte(Partial(t), byte)]
    BY <1>4 DEF FeedByte
  <2>2. Good(u, WithByte(Partial(t), byte))
    BY <1>2, TrackerTimesOut
  <2> HIDE DEF o, u, Good
  <2>3. QED
    BY <2>1, <2>2
<1>5. CASE /\ t.active /\ ~DeadlineReached(now, t.deadline_ms)
           /\ byte = t.expected[t.matched + 1]
  <2> DEFINE u == [t EXCEPT !.matched = @ + 1, !.active = ~whole,
                            !.matches = IF whole THEN @ + 1 ELSE @]
  <2>1. o = [tracker |-> u, forward |-> <<>>]
    BY <1>5 DEF FeedByte
  <2>2. TrackerOK(u) /\ u.active = ~whole
        /\ u.matches = IF whole THEN t.matches + 1 ELSE t.matches
    BY <1>5, TrackerMatches
  <2> HIDE DEF u, whole
  <2>3. Good(u, <<>>)
    BY <1>1, <1>5, <2>2
  <2> HIDE DEF o, Good
  <2>4. QED
    BY <2>1, <2>3
<1>6. CASE /\ t.active /\ ~DeadlineReached(now, t.deadline_ms)
           /\ byte # t.expected[t.matched + 1]
  <2> DEFINE u == [t EXCEPT !.active = FALSE, !.mismatches = @ + 1]
  <2>1. o = [tracker |-> u, forward |-> WithByte(Partial(t), byte)]
    BY <1>6 DEF FeedByte
  <2>2. Good(u, WithByte(Partial(t), byte))
    BY <1>2, TrackerMismatches
  <2> HIDE DEF o, u, Good
  <2>3. QED
    BY <2>1, <2>2
<1>7. QED
  BY <1>3, <1>4, <1>5, <1>6

\* The byte it awaits, in time, is one more of the echo.
LEMMA FeedMatches ==
  ASSUME NEW t, TrackerOK(t), t.active, NEW byte, NEW now,
         ~DeadlineReached(now, t.deadline_ms), byte = t.expected[t.matched + 1]
  PROVE  LET o == FeedByte(t, byte, now)
         IN  /\ o.forward = <<>>
             /\ o.tracker.expected = t.expected
             /\ o.tracker.deadline_ms = t.deadline_ms
             /\ o.tracker.matched = t.matched + 1
             /\ o.tracker.active = (t.matched + 1 # Len(t.expected))
             /\ o.tracker.matches = IF o.tracker.active THEN t.matches ELSE t.matches + 1
<1> DEFINE o     == FeedByte(t, byte, now)
           whole == t.matched + 1 = Len(t.expected)
           u     == [t EXCEPT !.matched = @ + 1, !.active = ~whole,
                              !.matches = IF whole THEN @ + 1 ELSE @]
<1>1. t \in Tracker
  BY DEF TrackerOK
<1>2. o = [tracker |-> u, forward |-> <<>>]
  BY DEF FeedByte
<1>3. u.active = ~whole /\ u.matches = IF whole THEN t.matches + 1 ELSE t.matches
  BY TrackerMatches
<1>4. u.matched = t.matched + 1 /\ u.expected = t.expected /\ u.deadline_ms = t.deadline_ms
  BY <1>1 DEF Tracker
<1> HIDE DEF u
<1>5. o.tracker = u /\ o.forward = <<>>
  BY <1>2
<1> HIDE DEF o
<1>6. /\ o.tracker.matched = t.matched + 1 /\ o.tracker.expected = t.expected
      /\ o.tracker.deadline_ms = t.deadline_ms
      /\ o.tracker.active = (t.matched + 1 # Len(t.expected))
      /\ o.tracker.matches = IF o.tracker.active THEN t.matches ELSE t.matches + 1
  BY <1>3, <1>4, <1>5
<1>7. QED
  BY <1>5, <1>6 DEF o

LEMMA PollOK ==
  ASSUME NEW t, TrackerOK(t), NEW now
  PROVE  /\ TrackerOK(Poll(t, now).tracker)
         /\ Poll(t, now).forward \in Seq(Byte)
         /\ Poll(t, now).tracker.matches = t.matches
<1>1. CASE t.active /\ DeadlineReached(now, t.deadline_ms)
  <2>1. QED
    BY <1>1, TrackerTimesOut, PartialType DEF Poll
<1>2. CASE ~(t.active /\ DeadlineReached(now, t.deadline_ms))
  <2>1. <<>> \in Seq(Byte)
    OBVIOUS
  <2>2. QED
    BY <1>2, <2>1 DEF Poll
<1>3. QED
  BY <1>1, <1>2

\* The bytes the UART has sent and is still to send, as the tracker is to hear them:
\* `rx` begins with what was sent and not matched yet, and `tx` is the rest; what else
\* was received came after the last byte was out.
EchoInOrder(bytes, matched, rx, tx) ==
  LET sent == Len(bytes) - Len(tx)
  IN  /\ matched <= sent /\ sent <= Len(bytes)
      /\ \A i \in 1..Len(tx) : tx[i] = bytes[sent + i]
      /\ sent - matched <= Len(rx)
      /\ tx # <<>> => Len(rx) = sent - matched
      /\ \A i \in 1..(sent - matched) : rx[i] = bytes[matched + i]

LEMMA EchoBegins ==
  ASSUME NEW bytes \in Seq(Byte)
  PROVE  EchoInOrder(bytes, 0, <<>>, bytes)
BY DEF EchoInOrder

\* A byte out is the next one in.
LEMMA EchoHeard ==
  ASSUME NEW bytes \in Seq(Byte), NEW matched \in Nat, NEW rx \in Seq(Byte), NEW tx \in Seq(Byte),
         EchoInOrder(bytes, matched, rx, tx), tx # <<>>
  PROVE  EchoInOrder(bytes, matched, rx \o <<Head(tx)>>, Tail(tx))
<1> DEFINE sent == Len(bytes) - Len(tx)
           rx1  == rx \o <<Head(tx)>>
           tx1  == Tail(tx)
<1>1. /\ Len(tx) \in Nat \ {0} /\ Len(rx) \in Nat /\ Len(bytes) \in Nat
      /\ tx1 \in Seq(Byte) /\ Len(tx1) = Len(tx) - 1
      /\ \A i \in 1..Len(tx1) : tx1[i] = tx[i + 1]
  OBVIOUS
<1>2. /\ rx1 \in Seq(Byte) /\ Len(rx1) = Len(rx) + 1 /\ rx1[Len(rx) + 1] = tx[1]
      /\ \A i \in 1..Len(rx) : rx1[i] = rx[i]
  OBVIOUS
<1>3. /\ matched <= sent /\ sent <= Len(bytes) /\ Len(rx) = sent - matched
      /\ \A i \in 1..Len(tx) : tx[i] = bytes[sent + i]
      /\ \A i \in 1..(sent - matched) : rx[i] = bytes[matched + i]
  BY DEF EchoInOrder
<1> HIDE DEF rx1, tx1
<1>4. /\ Len(bytes) - Len(tx1) = sent + 1 /\ sent \in Int
      /\ Len(rx) = sent - matched /\ Len(rx) \in Nat /\ sent + 1 <= Len(bytes)
      /\ matched <= sent + 1 /\ Len(rx1) = sent + 1 - matched
  BY <1>1, <1>2, <1>3
<1>5. \A i \in 1..Len(tx1) : tx1[i] = bytes[sent + 1 + i]
  <2>1. TAKE i \in 1..Len(tx1)
  <2>2. i + 1 \in 1..Len(tx) /\ sent + (i + 1) = sent + 1 + i
    BY <1>1, <1>4
  <2>3. QED
    BY <1>1, <1>3, <2>2
<1>6. \A i \in 1..(sent + 1 - matched) : rx1[i] = bytes[matched + i]
  <2>1. TAKE i \in 1..(sent + 1 - matched)
  <2>2. CASE i = Len(rx) + 1
    <3>1. 1 \in 1..Len(tx) /\ matched + i = sent + 1
      BY <1>1, <1>3, <1>4, <2>2
    <3>2. QED
      BY <1>2, <1>3, <2>2, <3>1
  <2>3. CASE i # Len(rx) + 1
    <3>1. i \in 1..Len(rx) /\ i \in 1..(sent - matched)
      BY <1>4, <2>3
    <3>2. QED
      BY <1>2, <1>3, <3>1
  <2>4. QED
    BY <2>2, <2>3
<1>7. EchoInOrder(bytes, matched, rx1, tx1)
  <2> HIDE DEF sent
  <2> DEFINE sent1 == Len(bytes) - Len(tx1)
  <2>1. sent1 = sent + 1
    BY <1>4
  <2>2. /\ matched <= sent1 /\ sent1 <= Len(bytes)
        /\ sent1 - matched <= Len(rx1) /\ Len(rx1) = sent1 - matched
        /\ \A i \in 1..Len(tx1) : tx1[i] = bytes[sent1 + i]
        /\ \A i \in 1..(sent1 - matched) : rx1[i] = bytes[matched + i]
    <3> HIDE DEF sent1
    <3>1. QED
      BY <1>1, <1>4, <1>5, <1>6, <2>1
  <2>3. QED
    BY <2>2 DEF EchoInOrder
<1>8. QED
  BY <1>7 DEF rx1, tx1

\* What comes after the last byte does not disturb it.
LEMMA EchoFollowed ==
  ASSUME NEW bytes \in Seq(Byte), NEW matched \in Nat, NEW rx \in Seq(Byte), NEW heard \in Seq(Byte),
         EchoInOrder(bytes, matched, rx, <<>>)
  PROVE  EchoInOrder(bytes, matched, rx \o heard, <<>>)
<1> DEFINE rx1 == rx \o heard
<1>1. /\ Len(rx1) \in Nat /\ Len(rx) \in Nat /\ Len(rx1) >= Len(rx)
      /\ \A i \in 1..Len(rx) : rx1[i] = rx[i]
  OBVIOUS
<1> HIDE DEF rx1
<1>2. EchoInOrder(bytes, matched, rx1, <<>>)
  BY <1>1 DEF EchoInOrder
<1>3. QED
  BY <1>2 DEF rx1

\* The next byte received is the next of the echo.
LEMMA EchoRead ==
  ASSUME NEW bytes \in Seq(Byte), NEW matched \in Nat, NEW rx \in Seq(Byte), NEW tx \in Seq(Byte),
         EchoInOrder(bytes, matched, rx, tx), rx # <<>>, matched < Len(bytes)
  PROVE  Head(rx) = bytes[matched + 1] /\ EchoInOrder(bytes, matched + 1, Tail(rx), tx)
<1> DEFINE sent == Len(bytes) - Len(tx)
           rx1  == Tail(rx)
<1>1. /\ Len(rx) \in Nat \ {0} /\ Len(tx) \in Nat /\ Len(bytes) \in Nat
      /\ rx1 \in Seq(Byte) /\ Len(rx1) = Len(rx) - 1 /\ Head(rx) = rx[1]
      /\ \A i \in 1..Len(rx1) : rx1[i] = rx[i + 1]
      /\ tx = <<>> <=> Len(tx) = 0
  OBVIOUS
<1>2. /\ matched <= sent /\ sent <= Len(bytes) /\ sent - matched <= Len(rx)
      /\ tx # <<>> => Len(rx) = sent - matched
      /\ \A i \in 1..Len(tx) : tx[i] = bytes[sent + i]
      /\ \A i \in 1..(sent - matched) : rx[i] = bytes[matched + i]
  BY DEF EchoInOrder
<1>3. sent - matched >= 1 /\ sent \in Int
  BY <1>1, <1>2
<1> HIDE DEF rx1
<1>4. rx[1] = bytes[matched + 1]
  BY <1>2, <1>3
<1>5. \A i \in 1..(sent - (matched + 1)) : rx1[i] = bytes[matched + 1 + i]
  <2>1. TAKE i \in 1..(sent - (matched + 1))
  <2>2. i + 1 \in 1..(sent - matched) /\ matched + (i + 1) = matched + 1 + i /\ i \in 1..Len(rx1)
    BY <1>1, <1>2, <1>3
  <2>3. QED
    BY <1>1, <1>2, <2>2
<1>6. EchoInOrder(bytes, matched + 1, rx1, tx)
  BY <1>1, <1>2, <1>3, <1>5 DEF EchoInOrder
<1>7. QED
  BY <1>1, <1>4, <1>6 DEF rx1

\* With all sent and all read, all is matched.
LEMMA EchoExhausted ==
  ASSUME NEW bytes \in Seq(Byte), NEW matched \in Nat, EchoInOrder(bytes, matched, <<>>, <<>>)
  PROVE  matched = Len(bytes)
BY DEF EchoInOrder

LEMMA CancelOK ==
  ASSUME NEW t, TrackerOK(t)
  PROVE  TrackerOK(Cancel(t)) /\ Cancel(t).matches = t.matches /\ ~Cancel(t).active
<1>1. <<>> \in Seq(Byte) /\ Len(<<>>) = 0
  OBVIOUS
<1>2. ASSUME NEW empty \in Seq(Byte), Len(empty) = 0
      PROVE  LET u == [t EXCEPT !.expected = empty, !.matched = 0, !.active = FALSE]
             IN  TrackerOK(u) /\ u.matches = t.matches /\ ~u.active
  <2> DEFINE u == [t EXCEPT !.expected = empty, !.matched = 0, !.active = FALSE]
  <2>1. t \in Tracker
    BY DEF TrackerOK
  <2>2. u \in Tracker
    BY <2>1 DEF Tracker
  <2>3. u.matched = 0 /\ u.expected = empty /\ u.matches = t.matches /\ u.active = FALSE
    BY <2>1 DEF Tracker
  <2> HIDE DEF u
  <2>4. TrackerOK(u) /\ u.matches = t.matches /\ ~u.active
    BY <1>2, <2>2, <2>3 DEF TrackerOK
  <2>5. QED
    BY <2>4 DEF u
<1>3. QED
  BY <1>1, <1>2 DEF Cancel

----------------------------------------------------------------------------
\* A quotient rounded up.
LEMMA CeilingBounds ==
  ASSUME NEW a \in Nat, NEW b \in Nat \ {0}
  PROVE  /\ (a + b - 1) \div b \in Nat
         /\ ((a + b - 1) \div b) * b >= a
         /\ ((a + b - 1) \div b) * b < a + b
<1> DEFINE n == a + b - 1
<1>1. n \in Nat
  OBVIOUS
<1>2. n = (n \div b) * b + (n % b) /\ n % b \in 0..(b - 1) /\ n \div b \in Int
  BY <1>1, Z3
<1>3. n \div b >= 0
  BY <1>1, Z3
<1>4. QED
  BY <1>1, <1>2, <1>3, Z3

LEMMA ProductGrows ==
  ASSUME NEW k \in Nat, NEW a \in Int, NEW b \in Int, a <= b
  PROVE  a * k <= b * k
OBVIOUS

LEMMA CeilingGrows ==
  ASSUME NEW a \in Nat, NEW c \in Nat, a <= c, NEW b \in Nat \ {0}
  PROVE  (a + b - 1) \div b <= (c + b - 1) \div b
<1> DEFINE q == (a + b - 1) \div b
           r == (c + b - 1) \div b
<1>1. q \in Nat /\ r \in Nat /\ q * b < a + b /\ r * b >= c
  BY CeilingBounds
<1> HIDE DEF q, r
<1>2. CASE q > r
  <2>1. q >= r + 1
    BY <1>1, <1>2
  <2>2. q * b >= (r + 1) * b
    BY <1>1, <2>1, ProductGrows
  <2>3. (r + 1) * b = r * b + b
    BY <1>1
  <2>4. QED
    BY <1>1, <2>2, <2>3
<1>3. QED
  BY <1>1, <1>2 DEF q, r

\* The time of the bytes on the wire, before it is rounded.
WireBits(size) == size * BitsPerCharacter * 1000

LEMMA WireBitsGrow ==
  ASSUME NEW size \in Nat
  PROVE  /\ WireBits(size) \in Nat
         /\ size >= 1 => WireBits(size) >= 1
         /\ \A n \in 0..size : WireBits(n) <= WireBits(size)
<1>1. BitsPerCharacter \in Nat \ {0}
  BY TrackerAssumption
<1>2. ASSUME NEW n \in Nat PROVE n * BitsPerCharacter \in Nat
  BY <1>1
<1>3. size >= 1 => size * BitsPerCharacter >= 1 * BitsPerCharacter
  BY <1>1, ProductGrows
<1>4. \A n \in 0..size : n * BitsPerCharacter <= size * BitsPerCharacter
  BY <1>1, ProductGrows
<1>5. \A k, l \in Nat : k * 1000 \in Nat /\ (k >= 1 => k * 1000 >= 1)
                        /\ (l <= k => l * 1000 <= k * 1000)
  OBVIOUS
<1>6. QED
  BY <1>1, <1>2, <1>3, <1>4, <1>5 DEF WireBits

\* The window is never empty, grows with the packet, and is at most half the
\* clock long for every packet begin() takes.
LEMMA WindowBounds ==
  ASSUME NEW size \in 1..MaximumPacketSize
  PROVE  EchoWindowMs(size) \in 1..(MsMod \div 2)
<1> DEFINE bits  == WireBits(size)
           most  == WireBits(MaximumPacketSize)
           wire  == (bits + Baud - 1) \div Baud
           limit == (most + Baud - 1) \div Baud
<1>1. MaximumPacketSize \in Nat /\ Baud \in Nat \ {0} /\ DeadlineMargin \in Nat
  BY ProtocolAssumption, TrackerAssumption
<1>2. bits \in Nat /\ most \in Nat /\ 1 <= bits /\ bits <= most
  BY <1>1, WireBitsGrow
<1>3. EchoWindowMs(size) = wire + DeadlineMargin
  BY DEF EchoWindowMs, WireBits
<1>4. EchoWindowMs(MaximumPacketSize) = limit + DeadlineMargin
  BY DEF EchoWindowMs, WireBits
<1> HIDE DEF bits, most
<1>5. /\ wire \in Nat /\ limit \in Nat /\ wire <= limit /\ wire * Baud >= bits
  BY <1>1, <1>2, CeilingBounds, CeilingGrows
<1> HIDE DEF wire, limit
<1>6. wire # 0
  BY <1>1, <1>2, <1>5
<1>7. MsMod \div 2 \in Int
  BY MillisAssumption
<1>8. QED
  BY <1>1, <1>3, <1>4, <1>5, <1>6, <1>7, WindowAssumption

\* The window is over as soon as the bytes have been on the wire and the margin is
\* over, and no earlier.
LEMMA WindowIsWireTime ==
  ASSUME NEW size \in Nat, NEW ms \in Int
  PROVE  /\ EchoWindowMs(size) \in Nat
         /\ ms >= EchoWindowMs(size) <=>
              (ms - DeadlineMargin) * Baud >= size * BitsPerCharacter * 1000
<1> DEFINE bits == size * BitsPerCharacter * 1000
           wire == (bits + Baud - 1) \div Baud
           x    == ms - DeadlineMargin
<1>1. bits \in Nat /\ Baud \in Nat \ {0} /\ DeadlineMargin \in Nat
  BY WireBitsGrow, TrackerAssumption DEF WireBits
<1>2. EchoWindowMs(size) = wire + DeadlineMargin
  BY DEF EchoWindowMs
<1> HIDE DEF bits
<1>3. wire \in Nat /\ wire * Baud >= bits /\ wire * Baud < bits + Baud
  BY <1>1, CeilingBounds
<1> HIDE DEF wire
<1>4. x \in Int /\ (ms >= EchoWindowMs(size) <=> x >= wire) /\ EchoWindowMs(size) \in Nat
  BY <1>1, <1>2, <1>3
<1> HIDE DEF x
<1>5. CASE x >= wire
  <2>1. x * Baud >= wire * Baud
    BY <1>1, <1>3, <1>4, <1>5, ProductGrows
  <2>2. x * Baud >= bits
    BY <1>1, <1>3, <1>4, <2>1
  <2>3. QED
    BY <1>4, <1>5, <2>2 DEF x, bits
<1>6. CASE x < wire
  <2>1. x + 1 <= wire
    BY <1>3, <1>4, <1>6
  <2>2. (x + 1) * Baud <= wire * Baud
    BY <1>1, <1>3, <1>4, <2>1, ProductGrows
  <2>3. (x + 1) * Baud = x * Baud + Baud
    BY <1>1, <1>4
  <2>4. ~(x * Baud >= bits)
    BY <1>1, <1>3, <1>4, <2>2, <2>3
  <2>5. QED
    BY <1>3, <1>4, <1>6, <2>4 DEF x, bits
<1>7. QED
  BY <1>3, <1>4, <1>5, <1>6

\* The echo window, less its margin, is never shorter than the time the packet
\* takes on the wire (EchoWindowMs): rounding cannot close it early.
THEOREM WindowCoversTransmission ==
  ASSUME NEW size \in Nat
  PROVE  (EchoWindowMs(size) - DeadlineMargin) * Baud >= size * BitsPerCharacter * 1000
<1>1. /\ EchoWindowMs(size) \in Nat
      /\ \A ms \in Int : ms >= EchoWindowMs(size) <=>
           (ms - DeadlineMargin) * Baud >= size * BitsPerCharacter * 1000
  BY WindowIsWireTime
<1>2. EchoWindowMs(size) \in Int /\ EchoWindowMs(size) >= EchoWindowMs(size)
  BY <1>1
<1> HIDE DEF EchoWindowMs
<1>3. QED
  BY <1>1, <1>2
================================================================================

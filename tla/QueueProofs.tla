------------------------------- MODULE QueueProofs -----------------------------
(***************************************************************************)
(* Proofs about what is queued: HostTransport, for every burst of the      *)
(* host, every packet of the AUX side, every write, queue, bound on the    *)
(* reads and clock; and BoundedQueue, the ring that its router's queues    *)
(* are, which implements a bounded queue.                                  *)
(***************************************************************************)
EXTENDS HostTransport, BoundedQueue, StreamProofs

----------------------------------------------------------------------------
(* Sequences put together from sequences *)

\* The beginnings of a flattened sequence, from nothing to the whole.
Joins(s, run) ==
  /\ run \in [0..Len(s) -> Seq(Byte)]
  /\ run[0] = <<>>
  /\ \A i \in 1..Len(s) : run[i] = run[i - 1] \o s[i]

LEMMA JoinsExist ==
  ASSUME NEW s \in Seq(Seq(Byte))
  PROVE  \E run : Joins(s, run)
<1> DEFINE T == Seq(Byte)
           n == Len(s)
           step == [x \in T \X (1..n) |-> x[1] \o s[x[2]]]
<1>1. n \in Nat /\ \A i \in 1..n : s[i] \in T
  OBVIOUS
<1>2. step \in [T \X (1..n) -> T]
  <2>1. ASSUME NEW x \in T \X (1..n)
        PROVE  x[1] \o s[x[2]] \in T
    <3>1. x[1] \in T /\ s[x[2]] \in T
      BY <1>1
    <3> HIDE DEF n
    <3>2. QED
      BY <3>1
  <2> HIDE DEF T, n
  <2>2. QED
    BY <2>1
<1>3. <<>> \in T
  OBVIOUS
<1>4. PICK run \in [0..n -> T] :
        run[0] = <<>> /\ \A i \in 1..n : run[i] = step[<<run[i - 1], i>>]
  <2>1. Runs(T, <<>>, n, step) # {}
    <3> HIDE DEF step, n, T
    <3> QED
      BY <1>1, <1>2, <1>3, RunExists, Zenon
  <2> HIDE DEF step, n, T
  <2>2. QED
    BY <2>1 DEF Runs
<1>5. ASSUME NEW i \in 1..n
      PROVE  run[i] = run[i - 1] \o s[i]
  <2>1. i - 1 \in 0..n
    BY <1>1
  <2>2. <<run[i - 1], i>> \in T \X (1..n)
    BY <1>4, <2>1
  <2>3. step[<<run[i - 1], i>>] = run[i - 1] \o s[i]
    BY <2>2
  <2>4. QED
    BY <1>4, <2>3
<1>6. QED
  BY <1>4, <1>5 DEF Joins

LEMMA FlattenJoins ==
  ASSUME NEW s \in Seq(Seq(Byte)), NEW run, Joins(s, run)
  PROVE  FlattenSeq(s) = run[Len(s)]
<1> DEFINE n == Len(s)
           joined(f, i) == IF i = 1 THEN s[i] ELSE f[i - 1] \o s[i]
           IsFlat(f) == f = [i \in 1..n |-> joined(f, i)]
           flat == CHOOSE f : IsFlat(f)
           witness == [i \in 1..n |-> run[i]]
<1>1. n \in Nat /\ \A i \in 1..n : s[i] \in Seq(Byte)
  OBVIOUS
<1>2. run \in [0..n -> Seq(Byte)] /\ run[0] = <<>> /\ \A i \in 1..n : run[i] = run[i - 1] \o s[i]
  BY DEF Joins
<1>3. CASE n = 0
  <2>1. s = <<>>
    BY <1>3
  <2>2. QED
    BY <1>2, <1>3, <2>1 DEF FlattenSeq
<1>4. CASE n # 0
  <2>1. ASSUME NEW i \in 1..n
        PROVE  witness[i] = joined(witness, i)
    <3>1. CASE i = 1
      <4>1. 1 \in 1..n /\ 1 - 1 = 0
        BY <3>1
      <4>2. run[1] = <<>> \o s[1] /\ s[1] \in Seq(Byte)
        BY <1>1, <1>2, <4>1
      <4>3. run[1] = s[1]
        BY <4>2
      <4>4. QED
        BY <3>1, <4>3
    <3>2. CASE i # 1
      <4>1. i - 1 \in 1..n
        BY <1>1, <3>2
      <4>2. QED
        BY <1>2, <3>2, <4>1
    <3>3. QED
      BY <3>1, <3>2
  <2>2. IsFlat(witness)
    BY <2>1
  <2>3. IsFlat(flat)
    <3> HIDE DEF IsFlat
    <3> QED
      BY <2>2
  <2> HIDE DEF flat
  <2>4. \A i \in 1..n : flat[i] = joined(flat, i)
    BY <2>3
  <2>5. FlattenSeq(s) = flat[n]
    BY <1>4 DEF FlattenSeq, flat
  <2> DEFINE Same == {k \in Nat : k + 1 <= n => flat[k + 1] = run[k + 1]}
  <2>6. 0 \in Same
    <3>1. 1 \in 1..n /\ 1 - 1 = 0
      BY <1>1, <1>4
    <3>2. flat[1] = s[1]
      BY <2>4, <3>1
    <3>3. run[1] = <<>> \o s[1] /\ s[1] \in Seq(Byte)
      BY <1>1, <1>2, <3>1
    <3>4. run[1] = s[1]
      BY <3>3
    <3>5. QED
      BY <3>2, <3>4
  <2>7. ASSUME NEW k \in Nat, k \in Same
        PROVE  k + 1 \in Same
    <3> SUFFICES ASSUME k + 2 <= n
                 PROVE  flat[k + 2] = run[k + 2]
      OBVIOUS
    <3>1. k + 2 \in 1..n /\ k + 2 # 1 /\ (k + 2) - 1 = k + 1 /\ k + 1 <= n
      BY <1>1
    <3>2. joined(flat, k + 2) = flat[(k + 2) - 1] \o s[k + 2]
      BY <3>1
    <3>3. flat[k + 2] = flat[k + 1] \o s[k + 2]
      BY <2>4, <3>1, <3>2
    <3>4. QED
      BY <1>2, <2>7, <3>1, <3>3
  <2> HIDE DEF Same
  <2>8. n - 1 \in Same
    BY <1>1, <1>4, <2>6, <2>7, NatSetInduction
  <2>9. QED
    BY <1>1, <1>4, <2>5, <2>8 DEF Same
<1>5. QED
  BY <1>3, <1>4

LEMMA FlattenAppend ==
  ASSUME NEW s \in Seq(Seq(Byte)), NEW x \in Seq(Byte)
  PROVE  /\ FlattenSeq(s) \in Seq(Byte)
         /\ FlattenSeq(Append(s, x)) = FlattenSeq(s) \o x
<1> DEFINE t == Append(s, x)
           n == Len(s)
<1>1. t \in Seq(Seq(Byte)) /\ n \in Nat /\ Len(t) = n + 1 /\ t[n + 1] = x
      /\ \A i \in 1..n : t[i] = s[i]
  OBVIOUS
<1>2. PICK run : Joins(s, run)
  BY JoinsExist
<1> HIDE DEF t
<1>3. PICK long : Joins(t, long)
  BY <1>1, JoinsExist
<1>4. FlattenSeq(s) = run[n] /\ FlattenSeq(t) = long[n + 1]
  BY <1>1, <1>2, <1>3, FlattenJoins
<1>5. /\ run[0] = <<>> /\ run[n] \in Seq(Byte) /\ \A i \in 1..n : run[i] = run[i - 1] \o s[i]
      /\ long[0] = <<>> /\ \A i \in 1..(n + 1) : long[i] = long[i - 1] \o t[i]
  <2>1. n \in 0..n
    BY <1>1
  <2>2. run[0] = <<>> /\ run[n] \in Seq(Byte) /\ \A i \in 1..n : run[i] = run[i - 1] \o s[i]
    BY <1>2, <2>1 DEF Joins
  <2>3. long[0] = <<>> /\ \A i \in 1..(n + 1) : long[i] = long[i - 1] \o t[i]
    BY <1>1, <1>3 DEF Joins
  <2>4. QED
    BY <2>2, <2>3
<1> DEFINE Same == {k \in Nat : k <= n => long[k] = run[k]}
<1>6. 0 \in Same
  BY <1>5
<1>7. ASSUME NEW k \in Nat, k \in Same
      PROVE  k + 1 \in Same
  <2> SUFFICES ASSUME k + 1 <= n
               PROVE  long[k + 1] = run[k + 1]
    OBVIOUS
  <2>1. k + 1 \in 1..n /\ k + 1 \in 1..(n + 1) /\ (k + 1) - 1 = k /\ k <= n
    BY <1>1
  <2>2. QED
    BY <1>1, <1>5, <1>7, <2>1
<1> HIDE DEF Same
<1>8. n \in Same
  BY <1>1, <1>6, <1>7, NatSetInduction
<1>9. long[n] = run[n]
  BY <1>1, <1>8 DEF Same
<1>10. n + 1 \in 1..(n + 1) /\ (n + 1) - 1 = n
  BY <1>1
<1>11. QED
  BY <1>1, <1>4, <1>5, <1>9, <1>10 DEF t

LEMMA FlattenHead ==
  ASSUME NEW s \in Seq(Seq(Byte)), s # <<>>
  PROVE  /\ FlattenSeq(Tail(s)) \in Seq(Byte) /\ Head(s) \in Seq(Byte)
         /\ FlattenSeq(s) = Head(s) \o FlattenSeq(Tail(s))
<1> DEFINE t == Tail(s)
           x == Head(s)
           n == Len(t)
<1>1. /\ t \in Seq(Seq(Byte)) /\ n \in Nat /\ Len(s) = n + 1
      /\ x = s[1] /\ x \in Seq(Byte)
      /\ \A i \in 1..n : t[i] = s[i + 1] /\ t[i] \in Seq(Byte)
  OBVIOUS
<1>2. PICK long : Joins(s, long)
  BY JoinsExist
<1> HIDE DEF t, n, x
<1>3. PICK run : Joins(t, run)
  BY <1>1, JoinsExist
<1>4. FlattenSeq(s) = long[n + 1] /\ FlattenSeq(t) = run[n]
  BY <1>1, <1>2, <1>3, FlattenJoins DEF n
<1>5. /\ run[0] = <<>> /\ run \in [0..n -> Seq(Byte)]
      /\ \A i \in 1..n : run[i] = run[i - 1] \o t[i]
      /\ long[0] = <<>> /\ \A i \in 1..(n + 1) : long[i] = long[i - 1] \o s[i]
  BY <1>1, <1>2, <1>3 DEF Joins, n
<1> DEFINE Same == {k \in Nat : k <= n => long[k + 1] = x \o run[k]}
<1>6. 0 \in Same
  <2>1. 1 \in 1..(n + 1) /\ 1 - 1 = 0
    BY <1>1
  <2>2. long[1] = <<>> \o x
    BY <1>1, <1>5, <2>1
  <2>3. <<>> \o x = x /\ x \o <<>> = x
    BY <1>1
  <2>4. long[0 + 1] = x \o run[0]
    BY <1>5, <2>2, <2>3
  <2>5. QED
    BY <2>4
<1>7. ASSUME NEW k \in Nat, k \in Same
      PROVE  k + 1 \in Same
  <2> SUFFICES ASSUME k + 1 <= n
               PROVE  long[k + 2] = x \o run[k + 1]
    OBVIOUS
  <2>1. /\ k + 1 \in 1..n /\ k + 2 \in 1..(n + 1) /\ (k + 2) - 1 = k + 1 /\ (k + 1) - 1 = k
        /\ k <= n /\ (k + 1) + 1 = k + 2 /\ k \in 0..n
    BY <1>1
  <2>2. long[k + 2] = (x \o run[k]) \o t[k + 1]
    BY <1>1, <1>5, <1>7, <2>1
  <2>3. run[k + 1] = run[k] \o t[k + 1]
    BY <1>5, <2>1
  <2>4. run[k] \in Seq(Byte) /\ t[k + 1] \in Seq(Byte)
    BY <1>1, <1>5, <2>1
  <2>5. (x \o run[k]) \o t[k + 1] = x \o (run[k] \o t[k + 1])
    <3>1. \A u, v, w \in Seq(Byte) : (u \o v) \o w = u \o (v \o w)
      OBVIOUS
    <3>2. QED
      BY <1>1, <2>4, <3>1, Zenon
  <2>6. QED
    BY <2>2, <2>3, <2>5
<1> HIDE DEF Same
<1>8. n \in Same
  BY <1>1, <1>6, <1>7, NatSetInduction
<1>9. long[n + 1] = x \o run[n] /\ run[n] \in Seq(Byte)
  <2>1. n \in 0..n
    BY <1>1
  <2>2. QED
    BY <1>5, <1>8, <2>1 DEF Same
<1>10. QED
  BY <1>1, <1>4, <1>9 DEF t, x

----------------------------------------------------------------------------
(* The types *)

Queues == [aux_tx : Seq(AuxPacket), host_tx : Seq(AuxPacket),
           aux_overflows : Nat, host_overflows : Nat,
           invalid_host_packets : Nat, invalid_aux_packets : Nat]

Metrics == [Counters -> Nat]

Inputs == [decoder : Decoder, router : Queues, metrics : Metrics, decoded : Seq(Seq(Byte))]

HostType ==
  /\ now_ms \in Ms /\ Input \in Inputs /\ taken \in Nat
  /\ output \in AuxPacket /\ output_offset \in 0..Size(output) /\ output_active \in BOOLEAN
  /\ incoming \in Seq(Byte) /\ sending \in Seq(Byte) /\ burst \in Seq(Byte)
  /\ accepted \in Seq(Byte) /\ delivered \in Seq(Byte)
  /\ unserviced_ms \in 0..ServiceGap /\ quiet_ms \in Nat /\ unsent_ms \in 0..1
  /\ intact \in BOOLEAN

LEMMA BumpType ==
  ASSUME NEW m \in Metrics, NEW names
  PROVE  /\ Bump(m, names) \in Metrics
         /\ \A c \in Counters : Bump(m, names)[c] = IF c \in names THEN m[c] + 1 ELSE m[c]
<1>1. \A c \in Counters : m[c] \in Nat /\ m[c] + 1 \in Nat
  BY DEF Metrics
<1>2. QED
  BY <1>1 DEF Bump, Metrics

LEMMA CounterNames ==
  {"received_bytes", "decoded_packets", "malformed_packets", "inter_byte_timeouts",
   "rejected_packets", "transmitted_bytes"} \subseteq Counters
BY DEF Counters

----------------------------------------------------------------------------
(* The accounts of what the host sent *)

\* Every decoded frame is queued, taken or rejected, and rejected for one reason.
Accounted(in) ==
  /\ in.metrics["decoded_packets"] =
       taken + Len(in.router.aux_tx) + in.metrics["rejected_packets"]
  /\ in.metrics["rejected_packets"] = in.router.aux_overflows
  /\ in.router.invalid_host_packets = 0

\* What reading leaves alone.
SameOutput(in, out) ==
  /\ out.router.host_tx = in.router.host_tx
  /\ out.metrics["transmitted_bytes"] = in.metrics["transmitted_bytes"]

Heard(in, d, m) == [in EXCEPT !.decoder = d, !.metrics = m]

LEMMA HeardFields ==
  ASSUME NEW in \in Inputs, NEW d \in Decoder, NEW m \in Metrics
  PROVE  /\ Heard(in, d, m) \in Inputs
         /\ Heard(in, d, m).decoder = d /\ Heard(in, d, m).metrics = m
         /\ Heard(in, d, m).router = in.router /\ Heard(in, d, m).decoded = in.decoded
BY DEF Inputs, Heard

LEMMA RouteDecodedKeeps ==
  ASSUME NEW in \in Inputs, NEW p \in AuxPacket, taken \in Nat,
         HasValidAuxChecksum(p), p.origin = "kHost"
  PROVE  LET out == RouteDecoded(in, p)
         IN  /\ out \in Inputs /\ out.decoder = in.decoder
             /\ out.decoded = Append(in.decoded, p.bytes)
             /\ SameOutput(in, out)
             /\ Accounted(in) => Accounted(out)
<1> DEFINE r == in.router
           m == in.metrics
           full == Len(r.aux_tx) = AuxTxCapacity
           counted == Bump(m, {"decoded_packets"} \cup IF full THEN {"rejected_packets"} ELSE {})
           routed == IF full THEN [r EXCEPT !.aux_overflows = @ + 1]
                             ELSE [r EXCEPT !.aux_tx = Append(@, p)]
           out == RouteDecoded(in, p)
<1>1. /\ r \in Queues /\ m \in Metrics /\ in.decoder \in Decoder
      /\ in.decoded \in Seq(Seq(Byte)) /\ p.bytes \in Seq(Byte)
  BY DEF Inputs, AuxPacket
<1>2. /\ r.aux_tx \in Seq(AuxPacket) /\ Len(r.aux_tx) \in Nat /\ r.aux_overflows \in Nat
      /\ Append(r.aux_tx, p) \in Seq(AuxPacket)
      /\ Len(Append(r.aux_tx, p)) = Len(r.aux_tx) + 1 /\ r.aux_overflows + 1 \in Nat
  BY <1>1 DEF Queues
<1>3. RouteFromHost(r, p) = IF full THEN [router |-> routed, queued |-> FALSE]
                                   ELSE [router |-> routed, queued |-> TRUE]
  BY DEF RouteFromHost
<1>4. /\ routed \in Queues /\ routed.host_tx = r.host_tx
      /\ routed.invalid_host_packets = r.invalid_host_packets
      /\ IF full THEN routed.aux_tx = r.aux_tx /\ routed.aux_overflows = r.aux_overflows + 1
                 ELSE /\ Len(routed.aux_tx) = Len(r.aux_tx) + 1
                      /\ routed.aux_overflows = r.aux_overflows
  <2>1. CASE full
    <3>1. ASSUME NEW n \in Nat
          PROVE  LET u == [r EXCEPT !.aux_overflows = n]
                 IN  /\ u \in Queues /\ u.host_tx = r.host_tx /\ u.aux_tx = r.aux_tx
                     /\ u.invalid_host_packets = r.invalid_host_packets
                     /\ u.aux_overflows = n
      BY <1>1 DEF Queues
    <3>2. routed = [r EXCEPT !.aux_overflows = r.aux_overflows + 1]
      BY <2>1
    <3> HIDE DEF routed, full, r
    <3>3. QED
      BY <1>2, <2>1, <3>1, <3>2
  <2>2. CASE ~full
    <3>1. ASSUME NEW q \in Seq(AuxPacket)
          PROVE  LET u == [r EXCEPT !.aux_tx = q]
                 IN  /\ u \in Queues /\ u.host_tx = r.host_tx /\ u.aux_tx = q
                     /\ u.invalid_host_packets = r.invalid_host_packets
                     /\ u.aux_overflows = r.aux_overflows
      BY <1>1 DEF Queues
    <3>2. routed = [r EXCEPT !.aux_tx = Append(r.aux_tx, p)]
      BY <2>2
    <3> HIDE DEF routed, full, r
    <3>3. QED
      BY <1>2, <2>2, <3>1, <3>2
  <2>3. QED
    BY <2>1, <2>2
<1>5. /\ counted \in Metrics
      /\ counted["decoded_packets"] = m["decoded_packets"] + 1
      /\ counted["rejected_packets"] =
           IF full THEN m["rejected_packets"] + 1 ELSE m["rejected_packets"]
      /\ counted["transmitted_bytes"] = m["transmitted_bytes"]
  BY <1>1, BumpType, CounterNames
<1>6. out = [decoder |-> in.decoder, router |-> routed, metrics |-> counted,
             decoded |-> Append(in.decoded, p.bytes)]
  <2> DEFINE route == RouteFromHost(r, p)
             lost(open) == IF open THEN {} ELSE {"rejected_packets"}
  <2> HIDE DEF routed, full
  <2>1. route.router = routed /\ (route.queued <=> ~full)
    BY <1>3
  <2>2. out = [in EXCEPT !.router = route.router,
                         !.metrics = Bump(m, {"decoded_packets"} \cup lost(route.queued)),
                         !.decoded = Append(@, p.bytes)]
    BY DEF RouteDecoded
  <2> HIDE DEF route
  <2>3. {"decoded_packets"} \cup lost(route.queued) =
          {"decoded_packets"} \cup IF full THEN {"rejected_packets"} ELSE {}
    BY <2>1
  <2> HIDE DEF lost
  <2>4. out = [in EXCEPT !.router = routed, !.metrics = counted,
                         !.decoded = Append(@, p.bytes)]
    BY <2>1, <2>2, <2>3
  <2> HIDE DEF counted, out
  <2>5. QED
    BY <2>4 DEF Inputs
<1>7. m["decoded_packets"] \in Nat /\ m["rejected_packets"] \in Nat
  BY <1>1, CounterNames DEF Metrics
<1> HIDE DEF out, routed, counted, full
<1>8. out \in Inputs
  <2>1. Append(in.decoded, p.bytes) \in Seq(Seq(Byte))
    BY <1>1
  <2>2. QED
    BY <1>1, <1>4, <1>5, <1>6, <2>1 DEF Inputs
<1>9. /\ out.decoder = in.decoder /\ out.decoded = Append(in.decoded, p.bytes)
      /\ out.router = routed /\ out.metrics = counted
  BY <1>6
<1>10. SameOutput(in, out)
  BY <1>4, <1>5, <1>9 DEF SameOutput
<1>11. ASSUME Accounted(in)
       PROVE  Accounted(out)
  <2>1. /\ m["decoded_packets"] = taken + Len(r.aux_tx) + m["rejected_packets"]
        /\ m["rejected_packets"] = r.aux_overflows /\ r.invalid_host_packets = 0
    BY <1>11 DEF Accounted
  <2>2. /\ counted["decoded_packets"] =
             taken + Len(routed.aux_tx) + counted["rejected_packets"]
        /\ counted["rejected_packets"] = routed.aux_overflows
        /\ routed.invalid_host_packets = 0
    <3> HIDE DEF r, m
    <3>1. CASE full
      BY <1>2, <1>4, <1>5, <1>7, <2>1, <3>1
    <3>2. CASE ~full
      <4>1. /\ Len(routed.aux_tx) = Len(r.aux_tx) + 1
            /\ routed.aux_overflows = r.aux_overflows
            /\ routed.invalid_host_packets = r.invalid_host_packets
        BY <1>4, <3>2
      <4>2. /\ counted["decoded_packets"] = m["decoded_packets"] + 1
            /\ counted["rejected_packets"] = m["rejected_packets"]
        BY <1>5, <3>2
      <4>3. \A a, b, c, d \in Nat : a = b + c + d => a + 1 = b + (c + 1) + d
        OBVIOUS
      <4>4. QED
        BY <1>2, <1>7, <2>1, <4>1, <4>2, <4>3
    <3>3. QED
      BY <3>1, <3>2
  <2>3. QED
    BY <1>9, <2>2 DEF Accounted
<1>12. QED
  BY <1>8, <1>9, <1>10, <1>11 DEF out

\* One byte of the host: what the decoder makes of it, and where that goes.
LEMMA ReadByteKeeps ==
  ASSUME NEW in \in Inputs, NEW byte \in Byte, now_ms \in Ms, taken \in Nat
  PROVE  LET o   == Feed(in.decoder, byte, now_ms, "kHost")
             out == ReadByte(in, byte)
         IN  /\ out \in Inputs /\ out.decoder = o.decoder
             /\ out.decoded = in.decoded \o
                  (IF o.result = "kPacket" THEN <<o.packet.bytes>> ELSE <<>>)
             /\ SameOutput(in, out)
             /\ Accounted(in) => Accounted(out)
<1> DEFINE o     == Feed(in.decoder, byte, now_ms, "kHost")
           read  == Bump(in.metrics, {"received_bytes"})
           heard == Heard(in, o.decoder, read)
           out   == ReadByte(in, byte)
           found == IF o.result = "kPacket" THEN <<o.packet.bytes>> ELSE <<>>
           Good(u) == /\ u \in Inputs /\ u.decoder = o.decoder
                      /\ SameOutput(in, u)
                      /\ Accounted(in) => Accounted(u)
<1> SUFFICES Good(out) /\ out.decoded = in.decoded \o found
  OBVIOUS
<1>1. /\ in.router \in Queues /\ in.metrics \in Metrics /\ in.decoder \in Decoder
      /\ in.decoded \in Seq(Seq(Byte))
  BY DEF Inputs
<1>2. /\ o.decoder \in Decoder /\ o.result \in Results /\ o.packet \in AuxPacket
      /\ o.result = "kPacket" => HasValidAuxChecksum(o.packet) /\ o.packet.origin = "kHost"
  BY <1>1, FeedType DEF PacketOrigin, FeedGivesValid
<1> HIDE DEF o
<1>3. ASSUME NEW m \in Metrics,
             \A c \in {"decoded_packets", "rejected_packets", "transmitted_bytes"} :
               m[c] = in.metrics[c]
      PROVE  LET u == Heard(in, o.decoder, m)
             IN  Good(u) /\ u.decoded = in.decoded /\ u.metrics = m
  <2> DEFINE u == Heard(in, o.decoder, m)
  <2>1. /\ u \in Inputs /\ u.decoder = o.decoder /\ u.metrics = m
        /\ u.router = in.router /\ u.decoded = in.decoded
    BY <1>2, <1>3, HeardFields
  <2> HIDE DEF u
  <2>2. SameOutput(in, u) /\ (Accounted(in) => Accounted(u))
    BY <1>3, <2>1 DEF SameOutput, Accounted
  <2>3. QED
    BY <2>1, <2>2 DEF u
<1>4. /\ read \in Metrics
      /\ \A c \in {"decoded_packets", "rejected_packets", "transmitted_bytes"} :
           read[c] = in.metrics[c]
  BY <1>1, BumpType, CounterNames
<1> HIDE DEF read
<1>5. Good(heard) /\ heard.decoded = in.decoded /\ heard.metrics = read
  BY <1>3, <1>4
<1> HIDE DEF heard
<1>6. out = CASE o.result = "kNone"     -> heard
              [] o.result = "kRejected" ->
                   [heard EXCEPT !.metrics = Bump(@, {"malformed_packets"})]
              [] o.result = "kPacket"   -> RouteDecoded(heard, o.packet)
  <2>1. heard = [in EXCEPT !.decoder = o.decoder, !.metrics = Bump(@, {"received_bytes"})]
    BY DEF heard, read, Heard
  <2>2. QED
    BY <2>1 DEF ReadByte, o
<1> HIDE DEF out
<1>7. ASSUME NEW s \in Seq(Seq(Byte)) PROVE s \o <<>> = s
  OBVIOUS
<1>8. CASE o.result = "kNone"
  BY <1>1, <1>5, <1>6, <1>7, <1>8
<1>9. CASE o.result = "kRejected"
  <2> DEFINE bad == Bump(heard.metrics, {"malformed_packets"})
  <2>1. /\ bad \in Metrics
        /\ \A c \in {"decoded_packets", "rejected_packets", "transmitted_bytes"} :
             bad[c] = in.metrics[c]
    BY <1>4, <1>5, BumpType, CounterNames
  <2>2. out = [heard EXCEPT !.metrics = bad]
    BY <1>6, <1>9
  <2> HIDE DEF bad
  <2>3. out = Heard(in, o.decoder, bad)
    BY <2>2 DEF heard, Inputs, Heard
  <2>4. Good(out) /\ out.decoded = in.decoded
    BY <1>3, <2>1, <2>3
  <2> HIDE DEF Good
  <2>5. found = <<>>
    BY <1>9
  <2>6. QED
    BY <1>1, <1>7, <2>4, <2>5
<1>10. CASE o.result = "kPacket"
  <2>1. out = RouteDecoded(heard, o.packet)
    BY <1>6, <1>10
  <2>2. /\ out \in Inputs /\ out.decoder = heard.decoder
        /\ out.decoded = Append(heard.decoded, o.packet.bytes)
        /\ SameOutput(heard, out)
        /\ Accounted(heard) => Accounted(out)
    BY <1>2, <1>5, <1>10, <2>1, RouteDecodedKeeps
  <2>3. Good(out)
    BY <1>5, <2>2 DEF SameOutput
  <2>4. out.decoded = in.decoded \o found
    <3>1. o.packet.bytes \in Seq(Byte) /\ found = <<o.packet.bytes>>
      BY <1>2, <1>10 DEF AuxPacket
    <3>2. \A s \in Seq(Seq(Byte)), x \in Seq(Byte) : Append(s, x) = s \o <<x>>
      OBVIOUS
    <3> HIDE DEF found
    <3>3. QED
      BY <1>1, <1>5, <2>2, <3>1, <3>2
  <2>5. QED
    BY <2>3, <2>4
<1>11. QED
  BY <1>2, <1>8, <1>9, <1>10 DEF Results

----------------------------------------------------------------------------
(* The bytes of one call *)

\* The values that reading goes through.
LEMMA ReadRun ==
  ASSUME NEW start \in Inputs, NEW bytes \in Seq(Byte), now_ms \in Ms, taken \in Nat
  PROVE  \E run \in [0..Len(bytes) -> Inputs] :
           /\ run[0] = start
           /\ \A i \in 1..Len(bytes) : run[i] = ReadByte(run[i - 1], bytes[i])
           /\ ReadAll(start, bytes) = run[Len(bytes)]
<1> DEFINE n == Len(bytes)
           Step(f, i) == IF i = 0 THEN start ELSE ReadByte(f[i - 1], bytes[i])
           IsRun(f) == f = [i \in 0..n |-> Step(f, i)]
           after == CHOOSE f : IsRun(f)
           step == [x \in Inputs \X (1..n) |-> ReadByte(x[1], bytes[x[2]])]
<1>1. n \in Nat /\ \A i \in 1..n : bytes[i] \in Byte
  OBVIOUS
<1>2. step \in [Inputs \X (1..n) -> Inputs]
  BY <1>1, ReadByteKeeps
<1>3. Runs(Inputs, start, n, step) # {}
  <2> HIDE DEF step, n
  <2> QED
    BY <1>1, <1>2, RunExists, Zenon
<1>4. PICK run \in [0..n -> Inputs] :
        run[0] = start /\ \A i \in 1..n : run[i] = step[<<run[i - 1], i>>]
  <2> HIDE DEF step, n
  <2> QED
    BY <1>3 DEF Runs
<1>5. ASSUME NEW i \in 0..n
      PROVE  run[i] = Step(run, i)
  <2>1. CASE i = 0
    BY <1>4, <2>1
  <2>2. CASE i # 0
    <3>1. i \in 1..n /\ i - 1 \in 0..n
      BY <1>1, <2>2
    <3>2. <<run[i - 1], i>> \in Inputs \X (1..n)
      BY <1>4, <3>1
    <3>3. step[<<run[i - 1], i>>] = ReadByte(run[i - 1], bytes[i])
      BY <3>2
    <3>4. QED
      BY <1>4, <2>2, <3>1, <3>3
  <2>3. QED
    BY <2>1, <2>2
<1>6. IsRun(run)
  BY <1>4, <1>5
<1>7. IsRun(after)
  <2> HIDE DEF IsRun
  <2> QED
    BY <1>6
<1>8. after[0] = start /\ \A i \in 1..n : after[i] = ReadByte(after[i - 1], bytes[i])
  <2> HIDE DEF after
  <2>1. \A i \in 0..n : after[i] = Step(after, i)
    BY <1>7
  <2>2. QED
    BY <1>1, <2>1
<1>9. after \in [0..n -> Inputs]
  <2>1. after = [i \in 0..n |-> Step(after, i)]
    <3> HIDE DEF after, Step
    <3> QED
      BY <1>7
  <2> HIDE DEF after
  <2> DEFINE Same == {k \in Nat : k <= n => after[k] = run[k]}
  <2>2. \A i \in 1..n : run[i] = ReadByte(run[i - 1], bytes[i])
    BY <1>1, <1>5
  <2>3. 0 \in Same
    BY <1>4, <1>8
  <2>4. ASSUME NEW k \in Nat, k \in Same
        PROVE  k + 1 \in Same
    <3> SUFFICES ASSUME k + 1 <= n
                 PROVE  after[k + 1] = run[k + 1]
      OBVIOUS
    <3>1. k + 1 \in 1..n /\ (k + 1) - 1 = k /\ k <= n
      BY <1>1
    <3>2. QED
      BY <1>8, <2>2, <2>4, <3>1
  <2> HIDE DEF Same
  <2>5. \A k \in Nat : k \in Same
    BY <2>3, <2>4, NatSetInduction
  <2>6. \A i \in 0..n : after[i] \in Inputs
    BY <1>1, <1>4, <2>5 DEF Same
  <2> HIDE DEF Step
  <2>7. QED
    BY <2>1, <2>6
<1>10. ReadAll(start, bytes) = after[n]
  BY DEF ReadAll
<1> HIDE DEF after
<1>11. QED
  BY <1>8, <1>9, <1>10

\* A byte read at this very time is not old.
LEMMA JustRead ==
  ASSUME NEW d \in Decoder, now_ms \in Ms, d.last_byte_ms = now_ms
  PROVE  ~Expired(d, now_ms)
<1>1. ElapsedMs(now_ms, d.last_byte_ms) = 0 /\ InterByteTimeout \in Nat
  BY DecoderAssumption, MillisAssumption DEF ElapsedMs, Ms
<1>2. QED
  BY <1>1 DEF Expired

LEMMA HostLengthsFit == LengthsFit
BY TransportAssumption DEF LengthsFit

\* Reading keeps the accounts, and the decoder in step with the burst.
LEMMA ReadAllKeeps ==
  ASSUME NEW start \in Inputs, NEW bytes \in Seq(Byte), now_ms \in Ms, taken \in Nat,
         Accounted(start), Partway(start.decoder.buffer), ~Expired(start.decoder, now_ms)
  PROVE  LET in == ReadAll(start, bytes)
         IN  /\ in \in Inputs /\ SameOutput(start, in)
             /\ Accounted(in) /\ Partway(in.decoder.buffer)
             /\ IF bytes = <<>> THEN in = start ELSE in.decoder.last_byte_ms = now_ms
             /\ \A b \in Seq(Byte), read \in Nat :
                  /\ read + Len(bytes) <= Len(b)
                  /\ \A i \in 1..Len(bytes) : bytes[i] = b[read + i]
                  /\ Synced(SubSeq(b, 1, read), start.decoded, start.decoder.buffer, FALSE)
                  => Synced(SubSeq(b, 1, read + Len(bytes)), in.decoded, in.decoder.buffer,
                            FALSE)
<1> DEFINE n == Len(bytes)
           in == ReadAll(start, bytes)
<1>1. n \in Nat /\ \A i \in 1..n : bytes[i] \in Byte
  OBVIOUS
<1>2. PICK run \in [0..n -> Inputs] :
        /\ run[0] = start /\ in = run[n]
        /\ \A i \in 1..n : run[i] = ReadByte(run[i - 1], bytes[i])
  BY ReadRun
<1> HIDE DEF in
<1> DEFINE Steps == {k \in Nat : k <= n =>
             /\ SameOutput(start, run[k]) /\ Accounted(run[k])
             /\ Partway(run[k].decoder.buffer) /\ ~Expired(run[k].decoder, now_ms)
             /\ k > 0 => run[k].decoder.last_byte_ms = now_ms}
<1>3. ASSUME NEW k \in 1..n, Partway(run[k - 1].decoder.buffer),
             ~Expired(run[k - 1].decoder, now_ms)
      PROVE  LET d == run[k - 1].decoder
                 o == Feed(d, bytes[k], now_ms, "kHost")
             IN  /\ Expire(d, now_ms) = d /\ d \in Decoder
                 /\ run[k] \in Inputs /\ run[k].decoder = o.decoder
                 /\ run[k].decoded = run[k - 1].decoded \o
                      (IF o.result = "kPacket" THEN <<o.packet.bytes>> ELSE <<>>)
                 /\ SameOutput(run[k - 1], run[k])
                 /\ Accounted(run[k - 1]) => Accounted(run[k])
                 /\ Partway(run[k].decoder.buffer) /\ run[k].decoder.last_byte_ms = now_ms
                 /\ ~Expired(run[k].decoder, now_ms)
  <2> DEFINE last == run[k - 1]
             d == last.decoder
             o == Feed(d, bytes[k], now_ms, "kHost")
  <2>1. k - 1 \in 0..n /\ bytes[k] \in Byte
    BY <1>1
  <2>2. last \in Inputs /\ run[k] = ReadByte(last, bytes[k])
    BY <1>2, <2>1
  <2> HIDE DEF last
  <2>3. /\ run[k] \in Inputs /\ run[k].decoder = o.decoder
        /\ run[k].decoded = last.decoded \o
             (IF o.result = "kPacket" THEN <<o.packet.bytes>> ELSE <<>>)
        /\ SameOutput(last, run[k])
        /\ Accounted(last) => Accounted(run[k])
    BY <2>1, <2>2, ReadByteKeeps
  <2>4. Expire(d, now_ms) = d
    BY <1>3 DEF Expire, last
  <2>5. d \in Decoder /\ run[k].decoder \in Decoder
    BY <2>2, <2>3 DEF Inputs
  <2>6. Partway(o.decoder.buffer) /\ o.decoder.last_byte_ms = now_ms
    BY <1>3, <2>1, <2>4, <2>5, FeedBegins, HostLengthsFit DEF PacketOrigin, last
  <2>7. ~Expired(run[k].decoder, now_ms)
    BY <2>3, <2>5, <2>6, JustRead
  <2> HIDE DEF o
  <2>8. QED
    BY <2>3, <2>4, <2>5, <2>6, <2>7 DEF o, last
<1>4. 0 \in Steps
  BY <1>2 DEF SameOutput
<1>5. ASSUME NEW k \in Nat, k \in Steps
      PROVE  k + 1 \in Steps
  <2> SUFFICES ASSUME k + 1 <= n
               PROVE  /\ SameOutput(start, run[k + 1]) /\ Accounted(run[k + 1])
                      /\ Partway(run[k + 1].decoder.buffer)
                      /\ ~Expired(run[k + 1].decoder, now_ms)
                      /\ run[k + 1].decoder.last_byte_ms = now_ms
    OBVIOUS
  <2>1. k + 1 \in 1..n /\ (k + 1) - 1 = k /\ k <= n
    BY <1>1
  <2>2. /\ SameOutput(start, run[k]) /\ Accounted(run[k])
        /\ Partway(run[k].decoder.buffer) /\ ~Expired(run[k].decoder, now_ms)
    BY <1>5, <2>1
  <2>3. /\ SameOutput(run[k], run[k + 1]) /\ Accounted(run[k + 1])
        /\ Partway(run[k + 1].decoder.buffer) /\ run[k + 1].decoder.last_byte_ms = now_ms
        /\ ~Expired(run[k + 1].decoder, now_ms)
    BY <1>3, <2>1, <2>2
  <2>4. QED
    BY <2>2, <2>3 DEF SameOutput
<1> HIDE DEF Steps
<1>6. ASSUME NEW k \in 0..n
      PROVE  /\ SameOutput(start, run[k]) /\ Accounted(run[k])
             /\ Partway(run[k].decoder.buffer) /\ ~Expired(run[k].decoder, now_ms)
             /\ k > 0 => run[k].decoder.last_byte_ms = now_ms
  <2>1. k \in Nat /\ k <= n
    BY <1>1
  <2>2. k \in Steps
    BY <1>4, <1>5, <2>1, NatSetInduction
  <2>3. QED
    BY <2>1, <2>2 DEF Steps
<1>7. n \in 0..n
  BY <1>1
<1>8. /\ in \in Inputs /\ SameOutput(start, in) /\ Accounted(in) /\ Partway(in.decoder.buffer)
      /\ n > 0 => in.decoder.last_byte_ms = now_ms
      /\ n = 0 => in = start
  BY <1>2, <1>6, <1>7
<1>9. ASSUME NEW b \in Seq(Byte), NEW read \in Nat, read + n <= Len(b),
             \A i \in 1..n : bytes[i] = b[read + i],
             Synced(SubSeq(b, 1, read), start.decoded, start.decoder.buffer, FALSE)
      PROVE  Synced(SubSeq(b, 1, read + n), in.decoded, in.decoder.buffer, FALSE)
  <2> DEFINE At(k) ==
               Synced(SubSeq(b, 1, read + k), run[k].decoded, run[k].decoder.buffer, FALSE)
             InStep == {k \in Nat : k <= n => At(k)}
  <2>1. 0 \in InStep
    <3>1. read + 0 = read
      OBVIOUS
    <3>2. At(0)
      BY <1>2, <1>9, <3>1, Zenon
    <3> HIDE DEF At
    <3>3. QED
      BY <3>2
  <2>2. ASSUME NEW k \in Nat, k \in InStep
        PROVE  k + 1 \in InStep
    <3> SUFFICES ASSUME k + 1 <= n
                 PROVE  At(k + 1)
      <4> HIDE DEF At
      <4> QED
        OBVIOUS
    <3> DEFINE d == run[k].decoder
               o == Feed(d, bytes[k + 1], now_ms, "kHost")
               r == SubSeq(b, 1, read + k)
    <3>1. k + 1 \in 1..n /\ (k + 1) - 1 = k /\ k \in 0..n
      BY <1>1
    <3>2. Partway(d.buffer) /\ ~Expired(d, now_ms)
      BY <1>6, <3>1
    <3>3. /\ Expire(d, now_ms) = d /\ d \in Decoder
          /\ run[k + 1].decoder = o.decoder
          /\ run[k + 1].decoded = run[k].decoded \o
               (IF o.result = "kPacket" THEN <<o.packet.bytes>> ELSE <<>>)
      BY <1>3, <3>1, <3>2
    <3>4. /\ r \in Seq(Byte) /\ bytes[k + 1] \in Byte
          /\ SubSeq(b, 1, read + (k + 1)) = Append(r, bytes[k + 1])
      <4>1. bytes[k + 1] = b[read + (k + 1)] /\ bytes[k + 1] \in Byte
        BY <1>1, <1>9, <3>1
      <4>2. read + (k + 1) \in 1..Len(b) /\ read + (k + 1) = (read + k) + 1
        BY <1>1, <1>9
      <4>3. \A j \in Nat : j + 1 \in 1..Len(b) =>
              SubSeq(b, 1, j) \in Seq(Byte)
              /\ SubSeq(b, 1, j + 1) = Append(SubSeq(b, 1, j), b[j + 1])
        OBVIOUS
      <4>4. read + k \in Nat /\ (read + k) + 1 \in 1..Len(b)
        BY <3>1, <4>2
      <4>5. SubSeq(b, 1, read + k) \in Seq(Byte)
            /\ SubSeq(b, 1, (read + k) + 1) = Append(SubSeq(b, 1, read + k), b[(read + k) + 1])
        BY <4>3, <4>4
      <4>6. QED
        BY <4>1, <4>2, <4>5
    <3>5. At(k)
      <4> HIDE DEF At
      <4> QED
        BY <1>1, <2>2, <3>1
    <3>6. Synced(r, run[k].decoded, d.buffer, FALSE)
      BY <3>5
    <3> HIDE DEF r
    <3>7. Synced(Append(r, bytes[k + 1]),
                 run[k].decoded \o
                   (IF o.result = "kPacket" THEN <<o.packet.bytes>> ELSE <<>>),
                 o.decoder.buffer, FALSE)
      BY <3>2, <3>3, <3>4, <3>6, SyncedGrows, HostLengthsFit DEF PacketOrigin
    <3> HIDE DEF o, d
    <3>8. QED
      BY <3>3, <3>4, <3>7, Zenon
  <2> HIDE DEF InStep
  <2>3. n \in InStep
    BY <1>1, <2>1, <2>2, NatSetInduction
  <2>4. QED
    BY <1>1, <1>2, <2>3 DEF InStep
<1>10. n = 0 <=> bytes = <<>>
  OBVIOUS
<1>11. n = 0 \/ n > 0
  BY <1>1
<1>12. QED
  BY <1>8, <1>9, <1>10, <1>11 DEF in

----------------------------------------------------------------------------
(* drainHostOutput() *)

LEMMA MinOfTwo ==
  ASSUME NEW x \in Int, NEW y \in Int
  PROVE  Min({x, y}) = IF x <= y THEN x ELSE y
<1> DEFINE least == IF x <= y THEN x ELSE y
           IsMin(z) == z \in {x, y} /\ \A w \in {x, y} : z <= w
<1>1. IsMin(least)
  OBVIOUS
<1>2. \A z : IsMin(z) => z = least
  OBVIOUS
<1>3. Min({x, y}) = CHOOSE z : IsMin(z)
  BY DEF Min
<1> HIDE DEF IsMin, least
<1>4. (CHOOSE z : IsMin(z)) = least
  BY <1>1, <1>2
<1>5. QED
  BY <1>3, <1>4 DEF least

\* The bytes of the packets that wait for the host.
WaitingIn(q) == FlattenSeq([i \in 1..Len(q) |-> q[i].bytes])

LEMMA SameSequence ==
  ASSUME NEW T, NEW s \in Seq(T), NEW t \in Seq(T), Len(s) = Len(t),
         \A i \in 1..Len(s) : s[i] = t[i]
  PROVE  s = t
OBVIOUS

LEMMA PacketBytes ==
  ASSUME NEW q \in Seq(AuxPacket)
  PROVE  /\ [i \in 1..Len(q) |-> q[i].bytes] \in Seq(Seq(Byte))
         /\ Len([i \in 1..Len(q) |-> q[i].bytes]) = Len(q)
<1>1. \A i \in 1..Len(q) : q[i] \in AuxPacket
  OBVIOUS
<1>2. \A p \in AuxPacket : p.bytes \in Seq(Byte)
  BY DEF AuxPacket
<1>3. \A i \in 1..Len(q) : q[i].bytes \in Seq(Byte)
  BY <1>1, <1>2
<1>4. QED
  BY <1>3

LEMMA NothingWaiting == WaitingIn(<<>>) = <<>>
<1>1. Len(<<>>) = 0 /\ Len([i \in 1..0 |-> <<>>[i].bytes]) = 0
      /\ [i \in 1..0 |-> <<>>[i].bytes] = <<>>
  OBVIOUS
<1>2. QED
  BY <1>1 DEF WaitingIn, FlattenSeq

LEMMA WaitingGrows ==
  ASSUME NEW q \in Seq(AuxPacket), NEW p \in AuxPacket
  PROVE  /\ WaitingIn(q) \in Seq(Byte)
         /\ WaitingIn(Append(q, p)) = WaitingIn(q) \o p.bytes
<1> DEFINE s == [i \in 1..Len(q) |-> q[i].bytes]
           g == Append(q, p)
           t == [i \in 1..Len(g) |-> g[i].bytes]
<1>1. /\ g \in Seq(AuxPacket) /\ Len(q) \in Nat /\ Len(g) = Len(q) + 1 /\ g[Len(q) + 1] = p
      /\ \A i \in 1..Len(q) : g[i] = q[i]
  OBVIOUS
<1> HIDE DEF g
<1>2. /\ s \in Seq(Seq(Byte)) /\ Len(s) = Len(q) /\ t \in Seq(Seq(Byte)) /\ Len(t) = Len(q) + 1
      /\ p.bytes \in Seq(Byte)
  BY <1>1, PacketBytes DEF AuxPacket
<1>3. \A i \in 1..Len(q) : t[i] = s[i]
  BY <1>1
<1>4. t[Len(q) + 1] = p.bytes
  BY <1>1
<1> HIDE DEF s, t
<1>5. t = Append(s, p.bytes)
  <2> DEFINE u == Append(s, p.bytes)
  <2>1. /\ u \in Seq(Seq(Byte)) /\ Len(u) = Len(q) + 1 /\ u[Len(q) + 1] = p.bytes
        /\ \A i \in 1..Len(q) : u[i] = s[i]
    BY <1>1, <1>2
  <2> HIDE DEF u
  <2>2. \A i \in 1..(Len(q) + 1) : i \in 1..Len(q) \/ i = Len(q) + 1
    BY <1>1
  <2>3. \A i \in 1..(Len(q) + 1) : t[i] = u[i]
    BY <1>3, <1>4, <2>1, <2>2, Zenon
  <2>4. t = u
    BY <1>1, <1>2, <2>1, <2>3
  <2>5. QED
    BY <2>4 DEF u
<1>6. FlattenSeq(s) \in Seq(Byte) /\ FlattenSeq(t) = FlattenSeq(s) \o p.bytes
  BY <1>2, <1>5, FlattenAppend
<1>7. QED
  BY <1>6 DEF WaitingIn, s, t, g

LEMMA WaitingShrinks ==
  ASSUME NEW q \in Seq(AuxPacket), q # <<>>
  PROVE  /\ Head(q) \in AuxPacket /\ Head(q).bytes \in Seq(Byte)
         /\ Tail(q) \in Seq(AuxPacket) /\ WaitingIn(Tail(q)) \in Seq(Byte)
         /\ WaitingIn(q) = Head(q).bytes \o WaitingIn(Tail(q))
<1> DEFINE s == [i \in 1..Len(q) |-> q[i].bytes]
           g == Tail(q)
           t == [i \in 1..Len(g) |-> g[i].bytes]
<1>1. /\ g \in Seq(AuxPacket) /\ Len(g) \in Nat /\ Len(q) = Len(g) + 1
      /\ Head(q) = q[1] /\ Head(q) \in AuxPacket
      /\ \A i \in 1..Len(g) : g[i] = q[i + 1]
  OBVIOUS
<1> HIDE DEF g
<1>2. /\ s \in Seq(Seq(Byte)) /\ Len(s) = Len(g) + 1 /\ t \in Seq(Seq(Byte)) /\ Len(t) = Len(g)
      /\ Head(q).bytes \in Seq(Byte)
  BY <1>1, PacketBytes DEF AuxPacket
<1>3. \A i \in 1..Len(g) : t[i] = s[i + 1]
  BY <1>1
<1>4. s[1] = Head(q).bytes
  BY <1>1
<1> HIDE DEF s, t
<1>5. Tail(s) = t /\ Head(s) = Head(q).bytes /\ s # <<>>
  <2> DEFINE u == Tail(s)
  <2>1. /\ u \in Seq(Seq(Byte)) /\ Len(u) = Len(g) /\ s # <<>> /\ Head(s) = s[1]
        /\ \A i \in 1..Len(g) : u[i] = s[i + 1]
    BY <1>1, <1>2
  <2> HIDE DEF u
  <2>2. \A i \in 1..Len(g) : t[i] = u[i]
    BY <1>3, <2>1, Zenon
  <2>3. Len(t) = Len(u) /\ \A i \in 1..Len(t) : t[i] = u[i]
    BY <1>2, <2>1, <2>2
  <2>4. t = u
    BY <1>2, <2>1, <2>3, SameSequence
  <2>5. QED
    BY <1>4, <2>1, <2>4 DEF u
<1>6. FlattenSeq(t) \in Seq(Byte) /\ FlattenSeq(s) = Head(q).bytes \o FlattenSeq(t)
  BY <1>2, <1>5, FlattenHead
<1>7. QED
  BY <1>1, <1>2, <1>6 DEF WaitingIn, s, t, g

LEMMA Associates ==
  \A u, v, w \in Seq(Byte) : (u \o v) \o w = u \o (v \o w)
OBVIOUS

LEMMA Concatenated ==
  \A u, v \in Seq(Byte) : u \o v \in Seq(Byte) /\ Len(u \o v) = Len(u) + Len(v)
OBVIOUS

\* A write takes some of what is left, and leaves the rest.
LEMMA WriteAdvances ==
  ASSUME NEW b \in Seq(Byte), NEW offset \in 0..Len(b), NEW written \in Nat
  PROVE  LET last == WroteUpTo(offset, written, Len(b))
         IN  /\ last \in offset..Len(b) /\ Min({offset + written, Len(b)}) = last
             /\ SubSeq(b, offset + 1, last) \in Seq(Byte)
             /\ Len(SubSeq(b, offset + 1, last)) = last - offset
             /\ SubSeq(b, last + 1, Len(b)) \in Seq(Byte)
             /\ SubSeq(b, offset + 1, last) \o SubSeq(b, last + 1, Len(b)) =
                  SubSeq(b, offset + 1, Len(b))
<1> DEFINE last == WroteUpTo(offset, written, Len(b))
           Good(x) ==
             /\ x \in offset..Len(b) /\ Min({offset + written, Len(b)}) = x
             /\ SubSeq(b, offset + 1, x) \in Seq(Byte)
             /\ Len(SubSeq(b, offset + 1, x)) = x - offset
             /\ SubSeq(b, x + 1, Len(b)) \in Seq(Byte)
             /\ SubSeq(b, offset + 1, x) \o SubSeq(b, x + 1, Len(b)) =
                  SubSeq(b, offset + 1, Len(b))
<1> SUFFICES Good(last)
  OBVIOUS
<1>1. Len(b) \in Nat /\ offset \in Nat /\ offset <= Len(b)
  OBVIOUS
<1>2. last = IF offset + written <= Len(b) THEN offset + written ELSE Len(b)
  BY <1>1 DEF WroteUpTo
<1>3. last \in Nat /\ offset <= last /\ last <= Len(b)
  BY <1>1, <1>2
<1>4. Min({offset + written, Len(b)}) = last
  BY <1>1, <1>2, MinOfTwo
<1> HIDE DEF last
<1>5. /\ SubSeq(b, offset + 1, last) \in Seq(Byte)
      /\ Len(SubSeq(b, offset + 1, last)) = last - offset
      /\ SubSeq(b, last + 1, Len(b)) \in Seq(Byte)
  BY <1>1, <1>3
<1>6. SubSeq(b, offset + 1, last) \o SubSeq(b, last + 1, Len(b)) = SubSeq(b, offset + 1, Len(b))
  <2> DEFINE u    == SubSeq(b, offset + 1, last)
             v    == SubSeq(b, last + 1, Len(b))
             left == SubSeq(b, offset + 1, Len(b))
             both == u \o v
             n    == Len(b)
  <2>1. /\ u \in Seq(Byte) /\ Len(u) = last - offset
        /\ \A i \in 1..(last - offset) : u[i] = b[offset + i]
    BY <1>1, <1>3
  <2>2. /\ v \in Seq(Byte) /\ Len(v) = n - last
        /\ \A i \in 1..(n - last) : v[i] = b[last + i]
    BY <1>1, <1>3
  <2>3. /\ left \in Seq(Byte) /\ Len(left) = n - offset
        /\ \A i \in 1..(n - offset) : left[i] = b[offset + i]
    BY <1>1, <1>3
  <2> HIDE DEF u, v, left, n
  <2>4. n \in Nat /\ offset \in Nat /\ last \in Nat /\ offset <= last /\ last <= n
    BY <1>1, <1>3 DEF n
  <2>5. both \in Seq(Byte) /\ Len(both) = n - offset
    <3>1. both \in Seq(Byte) /\ Len(both) = (last - offset) + (n - last)
      BY <2>1, <2>2, Concatenated
    <3>2. QED
      BY <2>4, <3>1
  <2>6. ASSUME NEW i \in 1..(n - offset)
        PROVE  both[i] = left[i]
    <3>1. CASE i <= last - offset
      <4>1. i \in 1..(last - offset) /\ i \in 1..Len(u)
        BY <2>1, <2>4, <3>1
      <4>2. both[i] = u[i]
        BY <2>1, <2>2, <4>1
      <4>3. QED
        BY <2>1, <2>3, <4>1, <4>2
    <3>2. CASE i > last - offset
      <4>1. i - (last - offset) \in 1..(n - last) /\ last + (i - (last - offset)) = offset + i
        BY <2>4, <3>2
      <4>2. both[i] = v[i - (last - offset)]
        BY <2>1, <2>2, <2>4, <3>2
      <4>3. QED
        BY <2>2, <2>3, <4>1, <4>2
    <3>3. i <= last - offset \/ i > last - offset
      BY <2>4
    <3>4. QED
      BY <3>1, <3>2, <3>3
  <2> HIDE DEF both
  <2>7. both = left
    BY <2>3, <2>5, <2>6
  <2>8. QED
    BY <2>7 DEF both, u, v, left, n
<1>7. last \in offset..Len(b)
  BY <1>1, <1>3
<1>8. QED
  BY <1>4, <1>5, <1>6, <1>7

\* The counter of what was written goes from one offset to the other.
Advanced(m, last, offset) == [m EXCEPT !["transmitted_bytes"] = @ + last - offset]

LEMMA AdvancedKeeps ==
  ASSUME NEW m \in Metrics, NEW offset \in Nat, NEW last \in Nat, offset <= last
  PROVE  /\ Advanced(m, last, offset) \in Metrics
         /\ \A c \in {"decoded_packets", "rejected_packets"} :
              Advanced(m, last, offset)[c] = m[c]
         /\ Advanced(m, last, offset)["transmitted_bytes"] =
              (m["transmitted_bytes"] + last) - offset
<1>1. m["transmitted_bytes"] \in Nat /\ (m["transmitted_bytes"] + last) - offset \in Nat
  BY CounterNames DEF Metrics
<1>2. QED
  BY <1>1, CounterNames DEF Advanced, Metrics

LEMMA TakeForHostKeeps ==
  ASSUME NEW r \in Queues, r.host_tx # <<>>
  PROVE  /\ TakeForHost(r) \in Queues /\ TakeForHost(r).host_tx = Tail(r.host_tx)
         /\ TakeForHost(r).aux_tx = r.aux_tx /\ TakeForHost(r).aux_overflows = r.aux_overflows
         /\ TakeForHost(r).invalid_host_packets = r.invalid_host_packets
<1>1. ASSUME NEW q \in Seq(AuxPacket)
      PROVE  LET u == [r EXCEPT !.host_tx = q]
             IN  /\ u \in Queues /\ u.host_tx = q /\ u.aux_tx = r.aux_tx
                 /\ u.aux_overflows = r.aux_overflows
                 /\ u.invalid_host_packets = r.invalid_host_packets
  BY DEF Queues
<1>2. Tail(r.host_tx) \in Seq(AuxPacket)
  BY DEF Queues
<1>3. QED
  BY <1>1, <1>2 DEF TakeForHost

\* Of the packet under way and those that wait, a write moves bytes from the
\* front to what was delivered, and nothing else.
LEMMA DrainKeeps ==
  ASSUME NEW r \in Queues, NEW m \in Metrics, NEW written \in Nat,
         output \in AuxPacket, output_offset \in 0..Size(output), output_active \in BOOLEAN,
         delivered \in Seq(Byte), DrainHostOutput(r, m, written)
  PROVE  /\ router' \in Queues /\ router'.aux_tx = r.aux_tx
         /\ router'.aux_overflows = r.aux_overflows
         /\ router'.invalid_host_packets = r.invalid_host_packets
         /\ metrics' \in Metrics
         /\ \A c \in {"decoded_packets", "rejected_packets"} : metrics'[c] = m[c]
         /\ output' \in AuxPacket /\ output_offset' \in 0..Size(output')
         /\ output_active' \in BOOLEAN /\ delivered' \in Seq(Byte)
         /\ (delivered' \o Rest') \o WaitingIn(router'.host_tx)
              = (delivered \o Rest) \o WaitingIn(r.host_tx)
         /\ m["transmitted_bytes"] = Len(delivered)
              => metrics'["transmitted_bytes"] = Len(delivered')
<1>1. CASE /\ ~output_active /\ r.host_tx = <<>>
           /\ router' = r /\ metrics' = m
           /\ UNCHANGED <<output, output_offset, output_active, delivered>>
  BY <1>1 DEF Rest, Size
<1>2. CASE /\ output_active \/ r.host_tx # <<>>
           /\ LET turn == Pending(r)
                  last == WroteUpTo(turn.offset, written, Size(turn.packet))
              IN  /\ output' = turn.packet
                  /\ output_offset' = last
                  /\ output_active' = ~Finished(last, turn.packet)
                  /\ router' = turn.router
                  /\ metrics' = [m EXCEPT !["transmitted_bytes"] = @ + last - turn.offset]
                  /\ delivered' =
                       delivered \o SubSeq(turn.packet.bytes, turn.offset + 1,
                                           Min({turn.offset + written, Size(turn.packet)}))
  <2> DEFINE turn   == Pending(r)
             p      == turn.packet
             b      == p.bytes
             offset == turn.offset
             q      == turn.router
             last   == WroteUpTo(offset, written, Len(b))
             wrote  == SubSeq(b, offset + 1, last)
             rest   == SubSeq(b, last + 1, Len(b))
             most   == WaitingIn(q.host_tx)
  <2>1. /\ output' = p /\ output_offset' = last /\ output_active' = (last # Len(b))
        /\ router' = q
        /\ metrics' = Advanced(m, last, offset)
        /\ delivered' = delivered \o SubSeq(b, offset + 1, Min({offset + written, Len(b)}))
    <3> HIDE DEF turn
    <3> QED
      BY <1>2 DEF Size, Finished, Advanced, turn
  <2>2. /\ p \in AuxPacket /\ b \in Seq(Byte) /\ offset \in 0..Len(b)
        /\ q \in Queues /\ q.aux_tx = r.aux_tx /\ q.aux_overflows = r.aux_overflows
        /\ q.invalid_host_packets = r.invalid_host_packets
        /\ Rest \in Seq(Byte) /\ most \in Seq(Byte) /\ WaitingIn(r.host_tx) \in Seq(Byte)
        /\ SubSeq(b, offset + 1, Len(b)) \o most = Rest \o WaitingIn(r.host_tx)
    <3>1. r.host_tx \in Seq(AuxPacket)
      BY DEF Queues
    <3>2. WaitingIn(r.host_tx) \in Seq(Byte)
      <4>1. EmptyPacket \in AuxPacket
        BY DEF AuxPacket, EmptyPacket, PacketOrigin
      <4>2. QED
        BY <3>1, <4>1, WaitingGrows
    <3>3. CASE output_active
      <4>1. p = output /\ offset = output_offset /\ q = r
        BY <3>3 DEF Pending
      <4> HIDE DEF p, offset, q
      <4>2. b \in Seq(Byte) /\ offset \in 0..Len(b) /\ Rest = SubSeq(b, offset + 1, Len(b))
        BY <3>3, <4>1 DEF Rest, Size, AuxPacket
      <4>3. Rest \in Seq(Byte)
        BY <4>2
      <4>4. QED
        BY <3>2, <4>1, <4>2, <4>3
    <3>4. CASE ~output_active
      <4>1. r.host_tx # <<>>
        BY <1>2, <3>4
      <4>2. p = Head(r.host_tx) /\ offset = 0 /\ q = TakeForHost(r)
        BY <3>4 DEF Pending
      <4> HIDE DEF p, offset, q
      <4>3. /\ p \in AuxPacket /\ b \in Seq(Byte) /\ WaitingIn(Tail(r.host_tx)) \in Seq(Byte)
            /\ WaitingIn(r.host_tx) = b \o WaitingIn(Tail(r.host_tx))
        BY <3>1, <4>1, <4>2, WaitingShrinks
      <4>4. /\ q \in Queues /\ q.aux_tx = r.aux_tx /\ q.aux_overflows = r.aux_overflows
            /\ q.invalid_host_packets = r.invalid_host_packets
            /\ q.host_tx = Tail(r.host_tx)
        BY <4>1, <4>2, TakeForHostKeeps
      <4>5. Rest = <<>> /\ Rest \in Seq(Byte)
        BY <3>4 DEF Rest
      <4>6. \A s \in Seq(Byte) : <<>> \o s = s /\ SubSeq(s, 0 + 1, Len(s)) = s
                                 /\ 0 \in 0..Len(s)
        OBVIOUS
      <4>7. QED
        BY <3>2, <4>2, <4>3, <4>4, <4>5, <4>6
    <3>5. QED
      BY <3>3, <3>4
  <2> HIDE DEF p, offset, q
  <2>3. /\ last \in offset..Len(b) /\ Min({offset + written, Len(b)}) = last
        /\ wrote \in Seq(Byte) /\ Len(wrote) = last - offset
        /\ rest \in Seq(Byte)
        /\ wrote \o rest = SubSeq(b, offset + 1, Len(b))
    BY <2>2, WriteAdvances
  <2>4. last \in 0..Len(b) /\ last \in Nat /\ offset \in Nat
    BY <2>2, <2>3
  <2>5. Rest' = rest
    <3>1. Rest' = IF last # Len(b) THEN rest ELSE <<>>
      BY <2>1 DEF Rest, Size
    <3>2. last = Len(b) => rest = <<>>
      BY <2>2, <2>4
    <3> HIDE DEF rest, last
    <3>3. QED
      BY <3>1, <3>2
  <2>6. delivered' = delivered \o wrote
    <3> HIDE DEF last
    <3> QED
      BY <2>1, <2>3
  <2> HIDE DEF rest, wrote, last, most
  <2>7. delivered' \in Seq(Byte) /\ Len(delivered') = Len(delivered) + (last - offset)
    BY <2>3, <2>6, Concatenated
  <2>8. (delivered' \o Rest') \o most = (delivered \o Rest) \o WaitingIn(r.host_tx)
    <3> DEFINE all == WaitingIn(r.host_tx)
    <3>1. (delivered' \o Rest') \o most = ((delivered \o wrote) \o rest) \o most
      BY <2>5, <2>6
    <3>2. all \in Seq(Byte)
      BY <2>2
    <3> HIDE DEF all
    <3>3. ((delivered \o wrote) \o rest) \o most = delivered \o ((wrote \o rest) \o most)
      <4>1. wrote \o rest \in Seq(Byte) /\ delivered \o wrote \in Seq(Byte)
        BY <2>3, Concatenated
      <4>2. (delivered \o wrote) \o rest = delivered \o (wrote \o rest)
        BY <2>3, Associates
      <4>3. (delivered \o (wrote \o rest)) \o most = delivered \o ((wrote \o rest) \o most)
        BY <2>2, <4>1, Associates
      <4>4. QED
        BY <4>2, <4>3
    <3>4. (wrote \o rest) \o most = Rest \o all
      BY <2>2, <2>3 DEF all
    <3>5. delivered \o (Rest \o all) = (delivered \o Rest) \o all
      BY <2>2, <3>2, Associates
    <3>6. QED
      BY <3>1, <3>3, <3>4, <3>5 DEF all
  <2>9. /\ metrics' \in Metrics
        /\ \A c \in {"decoded_packets", "rejected_packets"} : metrics'[c] = m[c]
        /\ metrics'["transmitted_bytes"] = (m["transmitted_bytes"] + last) - offset
    <3>1. offset <= last
      BY <2>2, <2>3, <2>4
    <3>2. QED
      BY <2>1, <2>4, <3>1, AdvancedKeeps
  <2>10. m["transmitted_bytes"] = Len(delivered)
           => metrics'["transmitted_bytes"] = Len(delivered')
    BY <2>4, <2>7, <2>9
  <2>11. output' \in AuxPacket /\ output_offset' \in 0..Size(output')
    BY <2>1, <2>2, <2>4 DEF Size
  <2>12. QED
    BY <2>1, <2>2, <2>7, <2>8, <2>9, <2>10, <2>11 DEF most
<1>3. QED
  BY <1>1, <1>2 DEF DrainHostOutput

----------------------------------------------------------------------------
(* The inductive invariant *)

\* How old the last byte is by the decoder's clock.
Age == ElapsedMs(now_ms, decoder.last_byte_ms)

\* What is buffered is no older than the last call of service could tell, and
\* nothing was sent or read since that is younger.
BufferIsYoung ==
  decoder.buffer # <<>> => quiet_ms <= Age /\ Age <= InterByteTimeout + unserviced_ms

\* How much of the burst was read, and whether that is all.
ReadSoFar == Len(burst) - Len(incoming) - Len(sending)
AllRead == incoming = <<>> /\ sending = <<>>

\* An unbroken burst is what was read, what has come in and what is to come.
BurstUnderWay ==
  intact =>
    /\ ReadSoFar \in Nat
    /\ \A i \in 1..Len(incoming) : incoming[i] = burst[ReadSoFar + i]
    /\ \A i \in 1..Len(sending) : sending[i] = burst[ReadSoFar + Len(incoming) + i]

\* The decoder is where a reader of the burst would be; before its first byte,
\* what the decoder holds is old enough to be forgotten.
ReadInStep ==
  intact =>
    /\ ReadSoFar = 0 => decoded = <<>> /\ (decoder.buffer = <<>> \/ Age > InterByteTimeout)
    /\ ReadSoFar # 0 => Synced(SubSeq(burst, 1, ReadSoFar), decoded, decoder.buffer, AllRead)

\* Inside a burst the decoder waits a millisecond for the host, and for the
\* transport as long as service was not called.
ReadInTime ==
  intact /\ ReadSoFar # 0 /\ ~AllRead /\ decoder.buffer # <<>> =>
    Age <= IF incoming = <<>> THEN unsent_ms ELSE unserviced_ms + 1

\* Nor was a frame begun of it left alone as long as the timeout.
NotStalled ==
  intact /\ ReadSoFar # 0 /\ decoder.buffer # <<>> => unserviced_ms < InterByteTimeout

InputSide ==
  /\ Partway(decoder.buffer) /\ BufferIsYoung
  /\ BurstUnderWay /\ ReadInStep /\ ReadInTime /\ NotStalled

OutputSide ==
  /\ (delivered \o Rest) \o WaitingIn(router.host_tx) = accepted
  /\ metrics["transmitted_bytes"] = Len(delivered)

HostInv == HostType /\ Accounted(Input) /\ InputSide /\ OutputSide

LEMMA InputFields ==
  /\ Input.decoder = decoder /\ Input.router = router
  /\ Input.metrics = metrics /\ Input.decoded = decoded
  /\ Input \in Inputs <=> /\ decoder \in Decoder /\ router \in Queues
                          /\ metrics \in Metrics /\ decoded \in Seq(Seq(Byte))
BY DEF Input, Inputs

\* The constants and the clock, as the provers need them.
LEMMA TransportFacts ==
  /\ InterByteTimeout \in Nat /\ ServiceGap \in Nat /\ MaxReadBytes \in Nat \ {0}
  /\ Writes \subseteq Nat /\ InterByteTimeout # 0
  /\ InterByteTimeout + ServiceGap < MsMod /\ MsMod \in Nat \ {0}
BY TransportAssumption, DecoderAssumption, MillisAssumption

LEMMA AgeType ==
  ASSUME HostType
  PROVE  /\ decoder \in Decoder /\ decoder.last_byte_ms \in Ms /\ Age \in Nat
         /\ Expired(decoder, now_ms) <=> decoder.buffer # <<>> /\ Age > InterByteTimeout
<1>1. decoder \in Decoder /\ now_ms \in Ms
  BY InputFields DEF HostType
<1>2. decoder.last_byte_ms \in Ms
  BY <1>1 DEF Decoder
<1>3. QED
  BY <1>1, <1>2, MillisAssumption DEF Age, ElapsedMs, Ms, Expired

LEMMA HostInvInit == HostInit => HostInv
<1> SUFFICES ASSUME HostInit PROVE HostInv
  OBVIOUS
<1>1. <<>> \in Seq(Byte) /\ <<>> \in Seq(Seq(Byte)) /\ <<>> \in Seq(AuxPacket)
      /\ Len(<<>>) = 0 /\ 0 \in Ms /\ <<>> \o <<>> = <<>>
  BY MillisAssumption DEF Ms
<1>2. decoder \in Decoder /\ decoder.buffer = <<>>
  BY <1>1 DEF HostInit, InitDecoder, Decoder
<1>3. /\ router \in Queues /\ router.aux_tx = <<>> /\ router.host_tx = <<>>
      /\ router.aux_overflows = 0 /\ router.invalid_host_packets = 0
  BY <1>1 DEF HostInit, InitRouter, Queues
<1>4. metrics \in Metrics /\ \A c \in Counters : metrics[c] = 0
  BY DEF HostInit, Metrics
<1>5. EmptyPacket \in AuxPacket /\ Size(EmptyPacket) = 0
  BY <1>1 DEF EmptyPacket, AuxPacket, PacketOrigin, Size
<1>6. HostType
  <2>1. Input \in Inputs
    BY <1>1, <1>2, <1>3, <1>4, InputFields DEF HostInit
  <2>2. 0 \in 0..Size(output) /\ 0 \in 0..ServiceGap /\ 0 \in 0..1
    BY <1>5, TransportFacts DEF HostInit
  <2>3. QED
    BY <1>1, <1>5, <2>1, <2>2 DEF HostInit, HostType
<1>7. Accounted(Input)
  BY <1>1, <1>3, <1>4, InputFields, CounterNames DEF Accounted, HostInit
<1>8. InputSide
  BY <1>2 DEF InputSide, Partway, BufferIsYoung, BurstUnderWay, ReadInStep, ReadInTime,
     NotStalled, HostInit
<1>9. OutputSide
  <2>1. Rest = <<>> /\ delivered = <<>> /\ accepted = <<>>
    BY DEF Rest, HostInit
  <2>2. WaitingIn(router.host_tx) = <<>>
    BY <1>3, NothingWaiting
  <2>3. metrics["transmitted_bytes"] = 0
    BY <1>4, CounterNames
  <2>4. QED
    BY <1>1, <2>1, <2>2, <2>3 DEF OutputSide
<1>10. QED
  BY <1>6, <1>7, <1>8, <1>9 DEF HostInv

----------------------------------------------------------------------------
(* The steps of the two ends *)

LEMMA InputKept ==
  ASSUME InputSide, UNCHANGED <<now_ms, unserviced_ms, inputVars>>
  PROVE  InputSide'
<1>1. /\ now_ms' = now_ms /\ unserviced_ms' = unserviced_ms /\ decoder' = decoder
      /\ incoming' = incoming /\ sending' = sending /\ burst' = burst
      /\ quiet_ms' = quiet_ms /\ unsent_ms' = unsent_ms /\ intact' = intact
      /\ decoded' = decoded
  BY DEF inputVars
<1>2. Age' = Age /\ ReadSoFar' = ReadSoFar /\ AllRead' = AllRead
  BY <1>1 DEF Age, ReadSoFar, AllRead
<1>3. QED
  BY <1>1, <1>2 DEF InputSide, BufferIsYoung, BurstUnderWay, ReadInStep, ReadInTime,
     NotStalled

LEMMA OutputKept ==
  ASSUME OutputSide, UNCHANGED <<router, metrics, outputVars>>
  PROVE  OutputSide'
<1>1. Rest' = Rest
  BY DEF Rest, outputVars, Size
<1>2. QED
  BY <1>1 DEF OutputSide, outputVars

LEMMA AuxTakesKeeps ==
  ASSUME HostInv, AuxTakes
  PROVE  HostInv'
<1>1. /\ router.aux_tx # <<>> /\ router' = TakeForAux(router) /\ taken' = taken + 1
      /\ UNCHANGED <<now_ms, metrics, unserviced_ms, inputVars, outputVars>>
  BY DEF AuxTakes
<1>2. /\ router \in Queues /\ taken \in Nat /\ metrics \in Metrics
  BY InputFields DEF HostInv, HostType
<1>3. /\ router' \in Queues /\ router'.aux_tx = Tail(router.aux_tx)
      /\ router'.host_tx = router.host_tx /\ router'.aux_overflows = router.aux_overflows
      /\ router'.invalid_host_packets = router.invalid_host_packets
  <2>1. ASSUME NEW q \in Seq(AuxPacket)
        PROVE  LET u == [router EXCEPT !.aux_tx = q]
               IN  /\ u \in Queues /\ u.aux_tx = q /\ u.host_tx = router.host_tx
                   /\ u.aux_overflows = router.aux_overflows
                   /\ u.invalid_host_packets = router.invalid_host_packets
    BY <1>2 DEF Queues
  <2>2. Tail(router.aux_tx) \in Seq(AuxPacket)
    BY <1>1, <1>2 DEF Queues
  <2>3. router' = [router EXCEPT !.aux_tx = Tail(router.aux_tx)]
    BY <1>1 DEF TakeForAux
  <2>4. QED
    BY <2>1, <2>2, <2>3
<1>4. /\ Len(router.aux_tx) \in Nat /\ Len(router'.aux_tx) = Len(router.aux_tx) - 1
      /\ metrics["rejected_packets"] \in Nat
  BY <1>1, <1>2, <1>3, CounterNames DEF Queues, Metrics
<1>5. HostType'
  <2>1. Input' \in Inputs
    BY <1>1, <1>2, <1>3, InputFields DEF HostInv, HostType, inputVars, Input, Inputs
  <2>2. QED
    BY <1>1, <1>2, <2>1 DEF HostInv, HostType, inputVars, outputVars, Size
<1>6. Accounted(Input)'
  <2>1. /\ metrics["decoded_packets"] =
             taken + Len(router.aux_tx) + metrics["rejected_packets"]
        /\ metrics["rejected_packets"] = router.aux_overflows
        /\ router.invalid_host_packets = 0
    BY InputFields DEF HostInv, Accounted
  <2>2. taken + Len(router.aux_tx) = (taken + 1) + (Len(router.aux_tx) - 1)
    <3>1. \A x, y \in Nat : x + y = (x + 1) + (y - 1)
      OBVIOUS
    <3>2. QED
      BY <1>2, <1>4, <3>1
  <2>3. QED
    BY <1>1, <1>3, <1>4, <2>1, <2>2 DEF Accounted, Input
<1>7. InputSide'
  BY <1>1, InputKept DEF HostInv
<1>8. OutputSide'
  <2>1. Rest' = Rest
    BY <1>1 DEF Rest, outputVars, Size
  <2>2. QED
    BY <1>1, <1>3, <2>1 DEF HostInv, OutputSide, outputVars
<1>9. QED
  BY <1>5, <1>6, <1>7, <1>8 DEF HostInv

\* A queue's counter, or the host queue, changes and nothing else.
LEMMA CounterChanges ==
  ASSUME NEW r \in Queues, NEW u,
         \E n \in Nat : u \in {[r EXCEPT !.invalid_aux_packets = n],
                               [r EXCEPT !.host_overflows = n]}
  PROVE  /\ u \in Queues /\ u.aux_tx = r.aux_tx /\ u.host_tx = r.host_tx
         /\ u.aux_overflows = r.aux_overflows
         /\ u.invalid_host_packets = r.invalid_host_packets
BY DEF Queues

WithHostQueue(r, q) == [r EXCEPT !.host_tx = q]

LEMMA HostQueueChanges ==
  ASSUME NEW r \in Queues, NEW q \in Seq(AuxPacket)
  PROVE  LET u == WithHostQueue(r, q)
         IN  /\ u \in Queues /\ u.aux_tx = r.aux_tx /\ u.host_tx = q
             /\ u.aux_overflows = r.aux_overflows
             /\ u.invalid_host_packets = r.invalid_host_packets
BY DEF Queues, WithHostQueue

\* A packet the AUX side routes is queued, and then accepted, or refused.
LEMMA RouteFromAuxCases ==
  ASSUME NEW r \in Queues, NEW p \in AuxPacket
  PROVE  LET route == RouteFromAux(r, p)
         IN  /\ route.router \in Queues /\ route.router.aux_tx = r.aux_tx
             /\ route.router.aux_overflows = r.aux_overflows
             /\ route.router.invalid_host_packets = r.invalid_host_packets
             /\ route.router.host_tx = IF route.queued THEN Append(r.host_tx, p) ELSE r.host_tx
<1> DEFINE route == RouteFromAux(r, p)
           bad   == p.origin # "kAuxBus" \/ ~HasValidAuxChecksum(p)
<1>1. /\ r.host_tx \in Seq(AuxPacket) /\ Append(r.host_tx, p) \in Seq(AuxPacket)
      /\ r.invalid_aux_packets + 1 \in Nat /\ r.host_overflows + 1 \in Nat
  <2>1. r.host_tx \in Seq(AuxPacket) /\ r.invalid_aux_packets \in Nat /\ r.host_overflows \in Nat
    BY DEF Queues
  <2>2. QED
    BY <2>1
<1>2. CASE bad
  <2>1. route = [router |-> [r EXCEPT !.invalid_aux_packets = r.invalid_aux_packets + 1],
                 queued |-> FALSE]
    BY <1>2 DEF RouteFromAux
  <2>2. QED
    BY <1>1, <2>1, CounterChanges
<1>3. CASE ~bad /\ Len(r.host_tx) = HostTxCapacity
  <2>1. route = [router |-> [r EXCEPT !.host_overflows = r.host_overflows + 1],
                 queued |-> FALSE]
    BY <1>3 DEF RouteFromAux
  <2>2. QED
    BY <1>1, <2>1, CounterChanges
<1>4. CASE ~bad /\ Len(r.host_tx) # HostTxCapacity
  <2> DEFINE q == Append(r.host_tx, p)
             u == WithHostQueue(r, q)
  <2>1. route = [router |-> u, queued |-> TRUE]
    BY <1>4 DEF RouteFromAux, WithHostQueue
  <2>2. q \in Seq(AuxPacket)
    BY <1>1
  <2> HIDE DEF q
  <2>3. /\ u \in Queues /\ u.aux_tx = r.aux_tx /\ u.host_tx = q
        /\ u.aux_overflows = r.aux_overflows
        /\ u.invalid_host_packets = r.invalid_host_packets
    BY <2>2, HostQueueChanges
  <2> HIDE DEF route, u
  <2>4. route.router = u /\ route.queued
    BY <2>1
  <2>5. QED
    BY <2>3, <2>4 DEF route, q
<1>5. QED
  BY <1>2, <1>3, <1>4

LEMMA AuxRoutesKeeps ==
  ASSUME HostInv, NEW p \in AuxFrames, AuxRoutes(p)
  PROVE  HostInv'
<1> DEFINE route == RouteFromAux(router, p)
<1>1. /\ router' = route.router
      /\ accepted' = IF route.queued THEN accepted \o p.bytes ELSE accepted
      /\ UNCHANGED <<now_ms, metrics, unserviced_ms, taken, inputVars, output,
                     output_offset, output_active, delivered>>
  BY DEF AuxRoutes
<1>2. /\ router \in Queues /\ accepted \in Seq(Byte) /\ p \in AuxPacket /\ p.bytes \in Seq(Byte)
      /\ router.host_tx \in Seq(AuxPacket)
  BY InputFields, TransportAssumption DEF HostInv, HostType, AuxPacket, Queues
<1>3. /\ router' \in Queues /\ router'.aux_tx = router.aux_tx
      /\ router'.aux_overflows = router.aux_overflows
      /\ router'.invalid_host_packets = router.invalid_host_packets
      /\ router'.host_tx = IF route.queued THEN Append(router.host_tx, p) ELSE router.host_tx
  BY <1>1, <1>2, RouteFromAuxCases
<1> HIDE DEF route
<1>4. accepted' \in Seq(Byte)
  BY <1>1, <1>2, Concatenated
<1>5. HostType'
  <2>1. Input' \in Inputs
    BY <1>1, <1>3, InputFields DEF HostInv, HostType, inputVars, Input, Inputs
  <2>2. QED
    BY <1>1, <1>4, <2>1 DEF HostInv, HostType, inputVars, Size
<1>6. Accounted(Input)'
  BY <1>1, <1>3, InputFields DEF HostInv, Accounted, Input
<1>7. InputSide'
  BY <1>1, InputKept DEF HostInv
<1>8. OutputSide'
  <2> DEFINE all == WaitingIn(router.host_tx)
             sent == delivered \o Rest
  <2>1. Rest' = Rest
    BY <1>1 DEF Rest, Size
  <2>2. sent \o all = accepted /\ metrics["transmitted_bytes"] = Len(delivered)
    BY DEF HostInv, OutputSide
  <2>3. all \in Seq(Byte) /\ WaitingIn(Append(router.host_tx, p)) = all \o p.bytes
    BY <1>2, WaitingGrows
  <2>4. sent \in Seq(Byte)
    <3>1. delivered \in Seq(Byte) /\ Rest \in Seq(Byte)
      BY DEF HostInv, HostType, Rest, Size, AuxPacket
    <3>2. QED
      BY <3>1, Concatenated
  <2> HIDE DEF all, sent
  <2>5. sent \o (all \o p.bytes) = accepted \o p.bytes
    BY <1>2, <2>2, <2>3, <2>4, Associates
  <2>6. sent' = sent /\ metrics' = metrics /\ delivered' = delivered
    BY <1>1, <2>1 DEF sent
  <2>7. sent' \o WaitingIn(router'.host_tx) = accepted'
    <3>1. CASE route.queued
      BY <1>1, <1>3, <2>3, <2>5, <2>6, <3>1
    <3>2. CASE ~route.queued
      BY <1>1, <1>3, <2>2, <2>6, <3>2 DEF all
    <3>3. QED
      BY <3>1, <3>2
  <2>8. QED
    BY <2>2, <2>6, <2>7 DEF OutputSide, sent
<1>9. QED
  BY <1>5, <1>6, <1>7, <1>8 DEF HostInv

LEMMA BeginBurstKeeps ==
  ASSUME HostInv, NEW b \in HostBursts, BeginBurst(b)
  PROVE  HostInv'
<1>1. /\ sending = <<>> /\ sending' = b /\ burst' = b /\ decoded' = <<>>
      /\ intact' = (incoming = <<>> /\ quiet_ms > InterByteTimeout)
      /\ UNCHANGED <<now_ms, router, metrics, unserviced_ms, taken, decoder, incoming,
                     quiet_ms, unsent_ms, outputVars>>
  BY DEF BeginBurst
<1>2. b \in Seq(Byte) /\ Len(b) \in Nat /\ <<>> \in Seq(Seq(Byte)) /\ Len(<<>>) = 0
  BY TransportAssumption
<1>3. HostType
  BY DEF HostInv
<1>4. HostType'
  <2>1. Input' \in Inputs
    BY <1>1, <1>2, <1>3, InputFields DEF HostType, Input, Inputs
  <2>2. QED
    BY <1>1, <1>2, <1>3, <2>1 DEF HostType, outputVars, Size
<1>5. Accounted(Input)'
  BY <1>1, InputFields DEF HostInv, Accounted, Input
<1>6. OutputSide'
  BY <1>1, OutputKept DEF HostInv
<1>7. InputSide'
  <2>1. Age' = Age /\ Age \in Nat /\ InterByteTimeout \in Nat /\ quiet_ms \in Nat
    BY <1>1, <1>3, AgeType, TransportFacts DEF Age, HostType
  <2>2. Partway(decoder.buffer)' /\ BufferIsYoung'
    BY <1>1, <2>1 DEF HostInv, InputSide, BufferIsYoung
  <2>3. CASE ~intact'
    BY <2>2, <2>3 DEF InputSide, BurstUnderWay, ReadInStep, ReadInTime, NotStalled
  <2>4. CASE intact'
    <3>1. incoming' = <<>> /\ Len(incoming') = 0 /\ quiet_ms > InterByteTimeout
      BY <1>1, <1>2, <2>4
    <3>2. ReadSoFar' = 0
      BY <1>1, <1>2, <3>1 DEF ReadSoFar
    <3>3. BurstUnderWay'
      BY <1>1, <1>2, <3>1, <3>2 DEF BurstUnderWay
    <3>4. decoder.buffer = <<>> \/ Age > InterByteTimeout
      BY <2>1, <3>1 DEF HostInv, InputSide, BufferIsYoung
    <3>5. ReadInStep' /\ ReadInTime' /\ NotStalled'
      BY <1>1, <2>1, <3>2, <3>4 DEF ReadInStep, ReadInTime, NotStalled
    <3>6. QED
      BY <2>2, <3>3, <3>5 DEF InputSide
  <2>5. QED
    BY <2>3, <2>4
<1>8. QED
  BY <1>4, <1>5, <1>6, <1>7 DEF HostInv

LEMMA SendByteKeeps ==
  ASSUME HostInv, SendByte
  PROVE  HostInv'
<1>1. /\ sending # <<>> /\ incoming' = Append(incoming, Head(sending))
      /\ sending' = Tail(sending) /\ quiet_ms' = 0 /\ unsent_ms' = 0
      /\ UNCHANGED <<now_ms, router, metrics, unserviced_ms, taken, decoder, bursts,
                     burst, intact, decoded, outputVars>>
  BY DEF SendByte
<1>2. HostType /\ InputSide
  BY DEF HostInv
<1>3. /\ sending \in Seq(Byte) /\ incoming \in Seq(Byte) /\ burst \in Seq(Byte)
      /\ unserviced_ms \in Nat /\ unsent_ms \in 0..1
  BY <1>2, TransportFacts DEF HostType
<1> DEFINE n == Len(incoming)
           m == Len(sending)
<1>4. /\ n \in Nat /\ m \in Nat \ {0}
      /\ incoming' \in Seq(Byte) /\ Len(incoming') = n + 1 /\ incoming' # <<>>
      /\ incoming'[n + 1] = sending[1] /\ \A i \in 1..n : incoming'[i] = incoming[i]
      /\ sending' \in Seq(Byte) /\ Len(sending') = m - 1
      /\ \A i \in 1..(m - 1) : sending'[i] = sending[i + 1]
  BY <1>1, <1>3
<1>5. HostType'
  <2>1. Input' \in Inputs
    BY <1>1, <1>2, InputFields DEF HostType, Input, Inputs
  <2>2. QED
    BY <1>1, <1>2, <1>4, <2>1 DEF HostType, outputVars, Size
<1>6. Accounted(Input)'
  BY <1>1, InputFields DEF HostInv, Accounted, Input
<1>7. OutputSide'
  BY <1>1, OutputKept DEF HostInv
<1>8. InputSide'
  <2>1. /\ Age' = Age /\ Age \in Nat
        /\ AllRead = FALSE /\ AllRead' = FALSE
    BY <1>1, <1>2, <1>4, AgeType DEF Age, AllRead
  <2>2. ReadSoFar' = ReadSoFar
    <3>1. \A x, y, z \in Int : x - (y + 1) - (z - 1) = x - y - z
      OBVIOUS
    <3>2. Len(burst) \in Int
      BY <1>3
    <3>3. Len(burst) - (n + 1) - (m - 1) = Len(burst) - n - m
      BY <1>4, <3>1, <3>2
    <3>4. QED
      BY <1>1, <1>4, <3>3 DEF ReadSoFar
  <2>3. Partway(decoder.buffer)' /\ BufferIsYoung'
    BY <1>1, <1>2, <2>1 DEF InputSide, BufferIsYoung
  <2>4. BurstUnderWay'
    <3> SUFFICES ASSUME intact
                 PROVE  /\ ReadSoFar \in Nat
                        /\ \A i \in 1..(n + 1) : incoming'[i] = burst[ReadSoFar + i]
                        /\ \A i \in 1..(m - 1) : sending'[i] = burst[ReadSoFar + (n + 1) + i]
      BY <1>1, <1>4, <2>2 DEF BurstUnderWay
    <3>1. /\ ReadSoFar \in Nat
          /\ \A i \in 1..n : incoming[i] = burst[ReadSoFar + i]
          /\ \A i \in 1..m : sending[i] = burst[ReadSoFar + n + i]
      BY <1>2 DEF InputSide, BurstUnderWay
    <3> HIDE DEF n, m
    <3>2. ASSUME NEW i \in 1..(n + 1)
          PROVE  incoming'[i] = burst[ReadSoFar + i]
      <4>1. CASE i \in 1..n
        BY <1>4, <3>1, <4>1
      <4>2. CASE i = n + 1
        <5>1. 1 \in 1..m /\ ReadSoFar + n + 1 = ReadSoFar + (n + 1)
          BY <1>4, <3>1
        <5>2. QED
          BY <1>4, <3>1, <4>2, <5>1
      <4>3. QED
        BY <1>4, <4>1, <4>2
    <3>3. ASSUME NEW i \in 1..(m - 1)
          PROVE  sending'[i] = burst[ReadSoFar + (n + 1) + i]
      <4>1. i + 1 \in 1..m /\ ReadSoFar + n + (i + 1) = ReadSoFar + (n + 1) + i
        BY <1>4, <3>1
      <4>2. QED
        BY <1>4, <3>1, <4>1
    <3>4. QED
      BY <3>1, <3>2, <3>3
  <2>5. ReadInStep'
    BY <1>1, <1>2, <2>1, <2>2 DEF InputSide, ReadInStep
  <2>6. ReadInTime'
    <3> SUFFICES ASSUME intact, ReadSoFar # 0, decoder.buffer # <<>>
                 PROVE  Age <= unserviced_ms + 1
      BY <1>1, <1>4, <2>1, <2>2 DEF ReadInTime
    <3>1. Age <= IF incoming = <<>> THEN unsent_ms ELSE unserviced_ms + 1
      BY <1>2, <2>1 DEF InputSide, ReadInTime
    <3>2. QED
      BY <1>3, <2>1, <3>1
  <2>7. NotStalled'
    BY <1>1, <1>2, <2>2 DEF InputSide, NotStalled
  <2>8. QED
    BY <2>3, <2>4, <2>5, <2>6, <2>7 DEF InputSide
<1>9. QED
  BY <1>5, <1>6, <1>7, <1>8 DEF HostInv

LEMMA PassMsKeeps ==
  ASSUME HostInv, PassMs
  PROVE  HostInv'
<1>1. /\ unserviced_ms < ServiceGap
      /\ (sending # <<>> /\ sending # burst) => unsent_ms = 0
      /\ now_ms' = (now_ms + 1) % MsMod /\ unserviced_ms' = unserviced_ms + 1
      /\ quiet_ms' = Min({quiet_ms + 1, LongSilence}) /\ unsent_ms' = 1
      /\ intact' = (intact /\ (decoder.buffer # <<>> => unserviced_ms' < InterByteTimeout))
      /\ UNCHANGED <<router, metrics, taken, decoder, incoming, sending, bursts, burst,
                     decoded, outputVars>>
  BY DEF PassMs
<1>2. HostType /\ InputSide
  BY DEF HostInv
<1>3. /\ now_ms \in Ms /\ unserviced_ms \in Nat /\ quiet_ms \in Nat
      /\ sending \in Seq(Byte) /\ incoming \in Seq(Byte) /\ burst \in Seq(Byte)
      /\ decoder.last_byte_ms \in Ms
  BY <1>2, TransportFacts, AgeType DEF HostType
<1>4. now_ms' = (IF now_ms + 1 < MsMod THEN now_ms + 1 ELSE 0) /\ now_ms' \in Ms
  <2>1. now_ms + 1 \in 0..(2 * MsMod - 1) /\ (now_ms + 1 >= MsMod => now_ms + 1 = MsMod)
    BY <1>3, TransportFacts DEF Ms
  <2>2. (now_ms + 1) % MsMod
          = IF now_ms + 1 < MsMod THEN now_ms + 1 ELSE (now_ms + 1) - MsMod
    BY <2>1, MsWraps
  <2>3. now_ms' = IF now_ms + 1 < MsMod THEN now_ms + 1 ELSE 0
    BY <1>1, <1>3, <2>1, <2>2, TransportFacts DEF Ms
  <2>4. QED
    BY <1>3, <2>3, TransportFacts DEF Ms
<1>5. quiet_ms' \in Nat /\ quiet_ms' <= quiet_ms + 1
  <2>1. LongSilence \in Nat
    BY TransportFacts DEF LongSilence
  <2>2. Min({quiet_ms + 1, LongSilence}) =
          IF quiet_ms + 1 <= LongSilence THEN quiet_ms + 1 ELSE LongSilence
    BY <1>3, <2>1, MinOfTwo
  <2>3. QED
    BY <1>1, <1>3, <2>1, <2>2
<1>6. HostType'
  <2>1. Input' \in Inputs
    BY <1>1, <1>2, InputFields DEF HostType, Input, Inputs
  <2>2. unserviced_ms' \in 0..ServiceGap
    BY <1>1, <1>3, TransportFacts
  <2>3. QED
    BY <1>1, <1>2, <1>4, <1>5, <2>1, <2>2 DEF HostType, outputVars, Size
<1>7. Accounted(Input)'
  BY <1>1, InputFields DEF HostInv, Accounted, Input
<1>8. OutputSide'
  BY <1>1, OutputKept DEF HostInv
<1>9. InputSide'
  <2>1. ReadSoFar' = ReadSoFar /\ AllRead' = AllRead /\ Age \in Nat
    BY <1>1, <1>2, AgeType DEF ReadSoFar, AllRead
  <2>2. ASSUME decoder.buffer # <<>>
        PROVE  /\ quiet_ms <= Age /\ Age <= InterByteTimeout + unserviced_ms
               /\ Age' = Age + 1
    <3>1. quiet_ms <= Age /\ Age <= InterByteTimeout + unserviced_ms
      BY <1>2, <2>2 DEF InputSide, BufferIsYoung
    <3>2. Age + 1 < MsMod
      BY <1>1, <1>3, <2>1, <3>1, TransportFacts
    <3>3. Age' = ElapsedMs(now_ms', decoder.last_byte_ms)
      BY <1>1 DEF Age
    <3>4. Age' = Age + 1
      BY <1>3, <1>4, <3>2, <3>3, TransportFacts DEF Age, ElapsedMs, Ms
    <3>5. QED
      BY <3>1, <3>4
  <2>3. Partway(decoder.buffer)' /\ BufferIsYoung'
    <3>1. decoder.buffer # <<>> =>
            quiet_ms' <= Age' /\ Age' <= InterByteTimeout + (unserviced_ms + 1)
      BY <1>3, <1>5, <2>1, <2>2, TransportFacts
    <3>2. QED
      BY <1>1, <1>2, <3>1 DEF InputSide, BufferIsYoung
  <2>4. BurstUnderWay'
    BY <1>1, <1>2, <2>1 DEF InputSide, BurstUnderWay
  <2>5. ReadInStep'
    <3>1. decoder.buffer # <<>> /\ Age > InterByteTimeout => Age' > InterByteTimeout
      BY <2>1, <2>2, TransportFacts
    <3>2. QED
      BY <1>1, <1>2, <2>1, <3>1 DEF InputSide, ReadInStep
  <2>6. ReadInTime'
    <3> SUFFICES ASSUME intact, ReadSoFar # 0, ~AllRead, decoder.buffer # <<>>
                 PROVE  Age' <= IF incoming = <<>> THEN 1 ELSE (unserviced_ms + 1) + 1
      BY <1>1, <2>1 DEF ReadInTime
    <3>1. Age <= IF incoming = <<>> THEN unsent_ms ELSE unserviced_ms + 1
      BY <1>2 DEF InputSide, ReadInTime
    <3>2. CASE incoming # <<>>
      BY <1>3, <2>1, <2>2, <3>1, <3>2
    <3>3. CASE incoming = <<>>
      <4>1. sending # <<>>
        BY <3>3 DEF AllRead
      <4>2. sending # burst
        <5>1. ReadSoFar \in Nat
          BY <1>2 DEF InputSide, BurstUnderWay
        <5>2. Len(incoming) = 0 /\ Len(sending) \in Nat /\ Len(burst) \in Nat
          BY <1>3, <3>3
        <5>3. Len(burst) # Len(sending)
          BY <5>1, <5>2 DEF ReadSoFar
        <5>4. QED
          BY <5>3
      <4>3. Age <= 0
        BY <1>1, <3>1, <3>3, <4>1, <4>2
      <4>4. QED
        BY <2>1, <2>2, <3>3, <4>3
    <3>4. QED
      BY <3>2, <3>3
  <2>7. NotStalled'
    BY <1>1 DEF NotStalled
  <2>8. QED
    BY <2>3, <2>4, <2>5, <2>6, <2>7 DEF InputSide
<1>10. QED
  BY <1>6, <1>7, <1>8, <1>9 DEF HostInv

----------------------------------------------------------------------------
(* service() *)

LEMMA BumpedFields ==
  ASSUME NEW in \in Inputs, NEW d \in Decoder, NEW names \in {{}, {"inter_byte_timeouts"}}
  PROVE  LET out == Heard(in, d, Bump(in.metrics, names))
         IN  /\ out \in Inputs /\ out.decoder = d /\ out.decoded = in.decoded
             /\ out.router = in.router
             /\ \A c \in {"decoded_packets", "rejected_packets", "transmitted_bytes"} :
                  out.metrics[c] = in.metrics[c]
<1>1. in.metrics \in Metrics
  BY DEF Inputs
<1>2. /\ Bump(in.metrics, names) \in Metrics
      /\ \A c \in {"decoded_packets", "rejected_packets", "transmitted_bytes"} :
           Bump(in.metrics, names)[c] = in.metrics[c]
  BY <1>1, BumpType, CounterNames
<1>3. QED
  BY <1>2, HeardFields

\* What expire() leaves for the bytes of the call.
LEMMA ExpiryKeeps ==
  ASSUME HostInv
  PROVE  /\ Expiry \in Inputs /\ SameOutput(Input, Expiry) /\ Accounted(Expiry)
         /\ Expiry.decoder = Expire(decoder, now_ms) /\ Expiry.decoded = decoded
         /\ Partway(Expiry.decoder.buffer) /\ ~Expired(Expiry.decoder, now_ms)
         /\ Expiry.decoder.last_byte_ms = decoder.last_byte_ms
<1> DEFINE d     == Expire(decoder, now_ms)
           names == IF Expired(decoder, now_ms) THEN {"inter_byte_timeouts"} ELSE {}
<1>1. Input \in Inputs /\ decoder \in Decoder /\ metrics = Input.metrics
  BY InputFields DEF HostInv, HostType
<1>2. /\ d \in Decoder /\ d.last_byte_ms = decoder.last_byte_ms
      /\ Partway(d.buffer) /\ ~Expired(d, now_ms)
  <2>1. CASE Expired(decoder, now_ms)
    <3>1. /\ d \in Decoder /\ d.buffer = <<>>
      BY <1>1, <2>1, ResetType DEF Expire
    <3>2. d.last_byte_ms = decoder.last_byte_ms
      BY <1>1, <2>1 DEF Expire, Reset, Decoder
    <3> HIDE DEF d
    <3>3. QED
      BY <3>1, <3>2 DEF Partway, Expired
  <2>2. CASE ~Expired(decoder, now_ms)
    BY <1>1, <2>2 DEF Expire, HostInv, InputSide
  <2>3. QED
    BY <2>1, <2>2
<1>3. Expiry = Heard(Input, d, Bump(Input.metrics, names))
  BY <1>1 DEF Expiry, Heard
<1>4. names \in {{}, {"inter_byte_timeouts"}}
  OBVIOUS
<1> HIDE DEF d, names
<1>5. /\ Expiry \in Inputs /\ Expiry.decoder = d /\ Expiry.decoded = Input.decoded
      /\ Expiry.router = Input.router
      /\ \A c \in {"decoded_packets", "rejected_packets", "transmitted_bytes"} :
           Expiry.metrics[c] = Input.metrics[c]
  BY <1>1, <1>2, <1>3, <1>4, BumpedFields
<1>6. SameOutput(Input, Expiry) /\ Accounted(Expiry)
  BY <1>5 DEF SameOutput, Accounted, HostInv
<1>7. QED
  BY <1>2, <1>5, <1>6, InputFields DEF d

\* A call reads the beginning of what has come in, and something if there is.
LEMMA WhatIsRead ==
  ASSUME NEW come \in Seq(Byte)
  PROVE  LET reads == Min({MaxReadBytes, Len(come)})
             bytes == SubSeq(come, 1, reads)
             left  == SubSeq(come, reads + 1, Len(come))
         IN  /\ reads \in 0..Len(come) /\ (reads = 0 <=> come = <<>>)
             /\ bytes \in Seq(Byte) /\ Len(bytes) = reads
             /\ \A i \in 1..reads : bytes[i] = come[i]
             /\ left \in Seq(Byte) /\ Len(left) = Len(come) - reads
             /\ \A i \in 1..(Len(come) - reads) : left[i] = come[reads + i]
             /\ bytes = <<>> <=> reads = 0
<1> DEFINE reads == Min({MaxReadBytes, Len(come)})
<1>1. reads = IF MaxReadBytes <= Len(come) THEN MaxReadBytes ELSE Len(come)
  BY MinOfTwo, TransportFacts
<1>2. Len(come) \in Nat /\ (Len(come) = 0 <=> come = <<>>)
  OBVIOUS
<1>3. reads \in 0..Len(come) /\ (reads = 0 <=> come = <<>>)
  BY <1>1, <1>2, TransportFacts
<1> HIDE DEF reads
<1>4. /\ SubSeq(come, 1, reads) \in Seq(Byte) /\ Len(SubSeq(come, 1, reads)) = reads
      /\ \A i \in 1..reads : SubSeq(come, 1, reads)[i] = come[i]
  BY <1>3
<1>5. /\ SubSeq(come, reads + 1, Len(come)) \in Seq(Byte)
      /\ Len(SubSeq(come, reads + 1, Len(come))) = Len(come) - reads
      /\ \A i \in 1..(Len(come) - reads) :
           SubSeq(come, reads + 1, Len(come))[i] = come[reads + i]
  BY <1>3
<1>6. SubSeq(come, 1, reads) = <<>> <=> reads = 0
  BY <1>3, <1>4
<1>7. QED
  BY <1>3, <1>4, <1>5, <1>6 DEF reads

LEMMA ServiceKeeps ==
  ASSUME HostInv, NEW written \in Writes, Service(written)
  PROVE  HostInv'
<1> DEFINE reads == Min({MaxReadBytes, Len(incoming)})
           bytes == SubSeq(incoming, 1, reads)
           in    == ReadAll(Expiry, bytes)
           n     == Len(incoming)
           m     == Len(sending)
<1>1. /\ decoder' = in.decoder /\ decoded' = in.decoded
      /\ incoming' = SubSeq(incoming, reads + 1, n)
      /\ quiet_ms' = (IF reads > 0 THEN 0 ELSE quiet_ms) /\ unserviced_ms' = 0
      /\ DrainHostOutput(in.router, in.metrics, written)
      /\ UNCHANGED <<now_ms, sending, bursts, burst, unsent_ms, intact, taken, accepted,
                     aux_frames>>
  BY DEF Service
<1>2. HostType /\ Accounted(Input) /\ InputSide /\ OutputSide
  BY DEF HostInv
<1>3. /\ now_ms \in Ms /\ taken \in Nat /\ written \in Nat /\ incoming \in Seq(Byte)
      /\ sending \in Seq(Byte) /\ burst \in Seq(Byte) /\ quiet_ms \in Nat /\ Input \in Inputs
  BY <1>2, TransportFacts DEF HostType
<1>4. /\ reads \in 0..n /\ (reads = 0 <=> incoming = <<>>)
      /\ bytes \in Seq(Byte) /\ Len(bytes) = reads /\ (bytes = <<>> <=> reads = 0)
      /\ \A i \in 1..reads : bytes[i] = incoming[i]
      /\ incoming' \in Seq(Byte) /\ Len(incoming') = n - reads
      /\ \A i \in 1..(n - reads) : incoming'[i] = incoming[reads + i]
  BY <1>1, <1>3, WhatIsRead
<1>5. /\ Expiry \in Inputs /\ SameOutput(Input, Expiry) /\ Accounted(Expiry)
      /\ Expiry.decoder = Expire(decoder, now_ms) /\ Expiry.decoded = decoded
      /\ Partway(Expiry.decoder.buffer) /\ ~Expired(Expiry.decoder, now_ms)
      /\ Expiry.decoder.last_byte_ms = decoder.last_byte_ms
  BY ExpiryKeeps
<1> HIDE DEF reads, bytes
<1>6. /\ in \in Inputs /\ SameOutput(Expiry, in)
      /\ Accounted(in) /\ Partway(in.decoder.buffer)
      /\ IF bytes = <<>> THEN in = Expiry ELSE in.decoder.last_byte_ms = now_ms
      /\ \A b \in Seq(Byte), read \in Nat :
           /\ read + Len(bytes) <= Len(b)
           /\ \A i \in 1..Len(bytes) : bytes[i] = b[read + i]
           /\ Synced(SubSeq(b, 1, read), Expiry.decoded, Expiry.decoder.buffer, FALSE)
           => Synced(SubSeq(b, 1, read + Len(bytes)), in.decoded, in.decoder.buffer, FALSE)
  BY <1>3, <1>4, <1>5, ReadAllKeeps
<1> HIDE DEF in
<1>7. /\ in.router \in Queues /\ in.metrics \in Metrics
      /\ in.decoder \in Decoder /\ in.decoded \in Seq(Seq(Byte))
      /\ in.router.host_tx = router.host_tx
      /\ in.metrics["transmitted_bytes"] = metrics["transmitted_bytes"]
  BY <1>5, <1>6, InputFields DEF Inputs, SameOutput
<1>8. /\ router' \in Queues /\ router'.aux_tx = in.router.aux_tx
      /\ router'.aux_overflows = in.router.aux_overflows
      /\ router'.invalid_host_packets = in.router.invalid_host_packets
      /\ metrics' \in Metrics
      /\ \A c \in {"decoded_packets", "rejected_packets"} : metrics'[c] = in.metrics[c]
      /\ output' \in AuxPacket /\ output_offset' \in 0..Size(output')
      /\ output_active' \in BOOLEAN /\ delivered' \in Seq(Byte)
      /\ (delivered' \o Rest') \o WaitingIn(router'.host_tx)
           = (delivered \o Rest) \o WaitingIn(in.router.host_tx)
      /\ in.metrics["transmitted_bytes"] = Len(delivered)
           => metrics'["transmitted_bytes"] = Len(delivered')
  <2>1. /\ output \in AuxPacket /\ output_offset \in 0..Size(output)
        /\ output_active \in BOOLEAN /\ delivered \in Seq(Byte)
    BY <1>2 DEF HostType
  <2>2. DrainHostOutput(in.router, in.metrics, written)
    BY <1>1
  <2>3. QED
    BY <1>3, <1>7, <2>1, <2>2, DrainKeeps
<1>9. HostType'
  <2>1. Input' \in Inputs
    BY <1>1, <1>7, <1>8 DEF Input, Inputs
  <2>2. unserviced_ms' \in 0..ServiceGap /\ quiet_ms' \in Nat
    BY <1>1, <1>3, TransportFacts
  <2>3. /\ now_ms' = now_ms /\ taken' = taken /\ sending' = sending /\ burst' = burst
        /\ accepted' = accepted /\ unsent_ms' = unsent_ms /\ intact' = intact
    BY <1>1
  <2>4. QED
    BY <1>2, <1>4, <1>8, <2>1, <2>2, <2>3 DEF HostType
<1>10. Accounted(Input)'
  BY <1>1, <1>6, <1>8 DEF Accounted, Input
<1>11. OutputSide'
  BY <1>1, <1>2, <1>7, <1>8 DEF OutputSide
<1>12. InputSide'
  <2>1. /\ Age \in Nat
        /\ Expired(decoder, now_ms) <=> decoder.buffer # <<>> /\ Age > InterByteTimeout
        /\ InterByteTimeout \in Nat
    BY <1>2, AgeType, TransportFacts
  <2>2. CASE reads = 0
    <3>1. /\ decoder' = Expire(decoder, now_ms) /\ decoded' = decoded
          /\ decoder'.last_byte_ms = decoder.last_byte_ms
          /\ incoming = <<>> /\ incoming' = <<>> /\ quiet_ms' = quiet_ms
      BY <1>1, <1>4, <1>5, <1>6, <2>2
    <3>2. decoder'.buffer = decoder.buffer \/ decoder'.buffer = <<>>
      BY <2>1, <3>1, AgeType, ExpireType, <1>2
    <3>3. decoder'.buffer # <<>> => decoder' = decoder /\ Age <= InterByteTimeout
      <4>1. CASE Expired(decoder, now_ms)
        BY <1>2, <3>1, <4>1, AgeType, ResetType DEF Expire
      <4>2. CASE ~Expired(decoder, now_ms)
        BY <2>1, <3>1, <4>2 DEF Expire
      <4>3. QED
        BY <4>1, <4>2
    <3>4. Age' = Age /\ ReadSoFar' = ReadSoFar /\ AllRead' = AllRead
      BY <1>1, <3>1 DEF Age, ReadSoFar, AllRead
    <3>5. Partway(decoder.buffer)'
      BY <1>1, <1>6
    <3>6. BufferIsYoung'
      BY <1>1, <1>2, <2>1, <3>1, <3>3, <3>4 DEF InputSide, BufferIsYoung
    <3>7. BurstUnderWay'
      BY <1>1, <1>2, <3>1, <3>4 DEF InputSide, BurstUnderWay
    <3>8. ReadInTime'
      BY <1>1, <1>2, <3>1, <3>3, <3>4 DEF InputSide, ReadInTime
    <3>9. ReadInStep'
      <4> SUFFICES ASSUME intact
                   PROVE  /\ ReadSoFar = 0 => /\ decoded = <<>>
                                              /\ decoder'.buffer = <<>> \/ Age > InterByteTimeout
                          /\ ReadSoFar # 0 =>
                               Synced(SubSeq(burst, 1, ReadSoFar), decoded, decoder'.buffer,
                                      AllRead)
        BY <1>1, <3>1, <3>4 DEF ReadInStep
      <4>1. /\ ReadSoFar = 0 => decoded = <<>> /\ (decoder.buffer = <<>> \/ Age > InterByteTimeout)
            /\ ReadSoFar # 0 => Synced(SubSeq(burst, 1, ReadSoFar), decoded, decoder.buffer, AllRead)
        BY <1>2 DEF InputSide, ReadInStep
      <4>2. ASSUME ReadSoFar # 0, ~AllRead
            PROVE  decoder'.buffer = decoder.buffer
        <5>1. decoder.buffer # <<>> => Age <= 1
          BY <1>2, <2>1, <3>1, <4>2 DEF InputSide, ReadInTime, HostType
        <5>2. ~Expired(decoder, now_ms)
          BY <2>1, <5>1, TransportFacts
        <5>3. QED
          BY <3>1, <5>2 DEF Expire
      <4>3. ASSUME ReadSoFar # 0
            PROVE  Synced(SubSeq(burst, 1, ReadSoFar), decoded, decoder'.buffer, AllRead)
        <5>1. decoder'.buffer = decoder.buffer \/ (AllRead /\ decoder'.buffer = <<>>)
          BY <3>2, <4>2, <4>3
        <5> HIDE DEF AllRead
        <5>2. QED
          BY <4>1, <4>3, <5>1, SyncedForgets
      <4>4. QED
        BY <3>2, <4>1, <4>3
    <3>10. NotStalled'
      BY <1>1, <2>1, TransportFacts DEF NotStalled
    <3>11. QED
      BY <3>5, <3>6, <3>7, <3>8, <3>9, <3>10 DEF InputSide
  <2>3. CASE reads # 0
    <3>1. /\ decoder'.last_byte_ms = now_ms /\ quiet_ms' = 0 /\ incoming # <<>>
      BY <1>1, <1>4, <1>6, <2>3
    <3>2. Age' = 0
      BY <1>1, <1>3, <3>1, MillisAssumption DEF Age, ElapsedMs, Ms
    <3>3. /\ n \in Nat /\ m \in Nat /\ reads \in Nat \ {0} /\ reads <= n
          /\ Len(burst) \in Nat
      BY <1>3, <1>4, <2>3
    <3>4. ReadSoFar = Len(burst) - n - m /\ ReadSoFar' = ReadSoFar + reads
      <4>1. ReadSoFar' = Len(burst) - (n - reads) - m
        BY <1>1, <1>4 DEF ReadSoFar
      <4>2. \A x, y, z, w \in Int : x - (y - w) - z = (x - y - z) + w
        OBVIOUS
      <4>3. QED
        BY <3>3, <4>1, <4>2 DEF ReadSoFar
    <3>5. Partway(decoder.buffer)'
      BY <1>1, <1>6
    <3>6. BufferIsYoung'
      BY <1>1, <2>1, <3>1, <3>2 DEF BufferIsYoung
    <3>7. ReadInTime'
      BY <1>1, <1>2, <3>2 DEF ReadInTime, HostType
    <3> HIDE DEF n, m
    <3>8. BurstUnderWay'
      <4> SUFFICES ASSUME intact
                   PROVE  /\ ReadSoFar + reads \in Nat
                          /\ \A i \in 1..(n - reads) :
                               incoming'[i] = burst[(ReadSoFar + reads) + i]
                          /\ \A i \in 1..m :
                               sending[i] = burst[(ReadSoFar + reads) + (n - reads) + i]
        BY <1>1, <1>4, <3>4 DEF BurstUnderWay, m
      <4>1. /\ ReadSoFar \in Nat
            /\ \A i \in 1..n : incoming[i] = burst[ReadSoFar + i]
            /\ \A i \in 1..m : sending[i] = burst[ReadSoFar + n + i]
        BY <1>2 DEF InputSide, BurstUnderWay, n, m
      <4>2. ASSUME NEW i \in 1..(n - reads)
            PROVE  incoming'[i] = burst[(ReadSoFar + reads) + i]
        <5>1. reads + i \in 1..n /\ ReadSoFar + (reads + i) = (ReadSoFar + reads) + i
          BY <3>3, <4>1
        <5>2. QED
          BY <1>4, <4>1, <5>1
      <4>3. ASSUME NEW i \in 1..m
            PROVE  sending[i] = burst[(ReadSoFar + reads) + (n - reads) + i]
        <5>1. (ReadSoFar + reads) + (n - reads) + i = ReadSoFar + n + i
          BY <3>3, <4>1
        <5>2. QED
          BY <4>1, <5>1
      <4>4. QED
        BY <3>3, <4>1, <4>2, <4>3
    <3>9. ReadInStep'
      <4> SUFFICES ASSUME intact
                   PROVE  Synced(SubSeq(burst, 1, ReadSoFar + reads), decoded', decoder'.buffer,
                                 AllRead') /\ ReadSoFar + reads # 0
        BY <1>1, <3>4 DEF ReadInStep
      <4>1. /\ ReadSoFar \in Nat /\ ReadSoFar + n <= Len(burst)
            /\ \A i \in 1..n : incoming[i] = burst[ReadSoFar + i]
        BY <1>2, <3>3, <3>4 DEF InputSide, BurstUnderWay, n
      <4>2. Synced(SubSeq(burst, 1, ReadSoFar), decoded, Expiry.decoder.buffer, FALSE)
        <5>1. CASE ReadSoFar = 0
          <6>1. decoded = <<>> /\ (decoder.buffer = <<>> \/ Age > InterByteTimeout)
            BY <1>2, <5>1 DEF InputSide, ReadInStep
          <6>2. Expiry.decoder.buffer = <<>>
            BY <1>2, <1>5, <2>1, <6>1, AgeType, ResetType DEF Expire
          <6>3. SubSeq(burst, 1, ReadSoFar) = <<>> /\ Len(<<>>) = 0
            BY <1>3, <5>1
          <6>4. Synced(<<>>, <<>>, <<>>, FALSE)
            BY <6>3 DEF Synced, Follows
          <6>5. QED
            BY <6>1, <6>2, <6>3, <6>4
        <5>2. CASE ReadSoFar # 0
          <6>1. AllRead = FALSE
            BY <3>1 DEF AllRead
          <6>2. Synced(SubSeq(burst, 1, ReadSoFar), decoded, decoder.buffer, FALSE)
            BY <1>2, <5>2, <6>1 DEF InputSide, ReadInStep
          <6>3. decoder.buffer # <<>> => Age <= unserviced_ms + 1
            BY <1>2, <3>1, <5>2, <6>1 DEF InputSide, ReadInTime
          <6>4. decoder.buffer # <<>> => unserviced_ms < InterByteTimeout
            BY <1>2, <5>2 DEF InputSide, NotStalled
          <6>5. unserviced_ms \in Nat
            BY <1>2, TransportFacts DEF HostType
          <6>6. ~Expired(decoder, now_ms)
            BY <2>1, <6>3, <6>4, <6>5
          <6>7. Expiry.decoder = decoder
            BY <1>5, <6>6 DEF Expire
          <6>8. QED
            BY <6>2, <6>7
        <5>3. QED
          BY <5>1, <5>2
      <4>3. ReadSoFar + Len(bytes) <= Len(burst)
            /\ \A i \in 1..Len(bytes) : bytes[i] = burst[ReadSoFar + i]
        <5>1. Len(bytes) = reads /\ \A i \in 1..reads : i \in 1..n /\ bytes[i] = incoming[i]
          BY <1>4, <3>3
        <5> HIDE DEF reads, bytes
        <5>2. ReadSoFar + reads <= Len(burst)
          BY <3>3, <4>1
        <5>3. QED
          BY <4>1, <5>1, <5>2
      <4>4. Synced(SubSeq(burst, 1, ReadSoFar + reads), in.decoded, in.decoder.buffer, FALSE)
        BY <1>3, <1>4, <1>5, <1>6, <4>1, <4>2, <4>3
      <4>5. Synced(SubSeq(burst, 1, ReadSoFar + reads), decoded', decoder'.buffer, AllRead')
        BY <1>1, <4>4, SyncedForgets
      <4>6. QED
        BY <3>3, <4>1, <4>5
    <3>10. NotStalled'
      BY <1>1, <2>1, TransportFacts DEF NotStalled
    <3>11. QED
      BY <3>5, <3>6, <3>7, <3>8, <3>9, <3>10 DEF InputSide
  <2>4. QED
    BY <2>2, <2>3
<1>13. QED
  BY <1>9, <1>10, <1>11, <1>12 DEF HostInv
----------------------------------------------------------------------------
(* The theorems *)

LEMMA HostInvStep == HostInv /\ [HostNext]_hostVars => HostInv'
<1> SUFFICES ASSUME HostInv, [HostNext]_hostVars PROVE HostInv'
  OBVIOUS
<1>1. CASE \E written \in Writes : Service(written)
  BY <1>1, ServiceKeeps
<1>2. CASE \E b \in HostBursts : BeginBurst(b)
  BY <1>2, BeginBurstKeeps
<1>3. CASE SendByte
  BY <1>3, SendByteKeeps
<1>4. CASE AuxTakes
  BY <1>4, AuxTakesKeeps
<1>5. CASE \E p \in AuxFrames : AuxRoutes(p)
  BY <1>5, AuxRoutesKeeps
<1>6. CASE PassMs
  BY <1>6, PassMsKeeps
<1>7. CASE UNCHANGED hostVars
  <2>1. UNCHANGED <<now_ms, unserviced_ms, inputVars>> /\ UNCHANGED <<router, metrics, outputVars>>
        /\ taken' = taken
    BY <1>7 DEF hostVars
  <2>2. InputSide' /\ OutputSide'
    BY <2>1, InputKept, OutputKept DEF HostInv
  <2>3. HostType' /\ Accounted(Input)'
    BY <2>1 DEF HostInv, HostType, Accounted, Input, inputVars, outputVars, Size
  <2>4. QED
    BY <2>2, <2>3 DEF HostInv
<1>8. QED
  BY <1>1, <1>2, <1>3, <1>4, <1>5, <1>6, <1>7 DEF HostNext

LEMMA HostInvariance == HostSpec => []HostInv
BY HostInvInit, HostInvStep, PTL DEF HostSpec

\* Every frame the host sent is waiting, taken or counted as rejected, and the
\* router never judges otherwise than the decoder (HostTransport::service).
THEOREM FramesAreAccounted == HostSpec => []HostPacketsAccounted
<1>1. HostInv => HostPacketsAccounted
  BY InputFields DEF HostInv, Accounted, HostPacketsAccounted
<1>2. QED
  BY <1>1, HostInvariance, PTL

\* A frame the host broke off is gone once the timeout has passed, at the next
\* call of service at the latest, whether or not another byte comes.
THEOREM BrokenFramesExpire == HostSpec => []BrokenFrameForgotten
<1>1. ASSUME HostInv
      PROVE  BrokenFrameForgotten
  <2>1. Age \in Nat /\ quiet_ms \in Nat /\ unserviced_ms \in Nat
    BY <1>1, AgeType, TransportFacts DEF HostInv, HostType
  <2>2. QED
    BY <1>1, <2>1, TransportFacts DEF HostInv, InputSide, BufferIsYoung, BrokenFrameForgotten
<1>2. QED
  BY <1>1, HostInvariance, PTL

\* What the host got, the rest of the packet under way and what waits are the
\* accepted packets, byte for byte (HostTransport::drainHostOutput).
THEOREM OutputStaysInOrder == HostSpec => []DeliveredInOrder
<1>1. HostInv => DeliveredInOrder
  <2>1. WaitingIn(router.host_tx) = Waiting
    BY DEF WaitingIn, Waiting
  <2>2. QED
    BY <2>1 DEF HostInv, OutputSide, DeliveredInOrder
<1>2. QED
  BY <1>1, HostInvariance, PTL

\* A burst after a silence arrives whole and in order, however the reads cut it
\* up, while service is called more often than the timeout.
THEOREM HostFramesArrive == HostSpec => []HostFramesDecoded
<1>1. ASSUME HostInv
      PROVE  HostFramesDecoded
  <2> SUFFICES ASSUME intact, sending = <<>>, incoming = <<>>, IsFrames(burst)
               PROVE  FlattenSeq(decoded) = burst
    BY DEF HostFramesDecoded
  <2>1. burst \in Seq(Byte) /\ decoded \in Seq(Seq(Byte))
    BY <1>1, InputFields DEF HostInv, HostType
  <2>2. ReadSoFar = Len(burst) /\ Len(burst) # 0 /\ SubSeq(burst, 1, Len(burst)) = burst
    <3>1. Len(burst) # 0
      BY DEF IsFrames
    <3>2. QED
      BY <2>1, <3>1 DEF ReadSoFar
  <2>3. Synced(burst, decoded, decoder.buffer, AllRead)
    BY <1>1, <2>2 DEF HostInv, InputSide, ReadInStep
  <2>4. QED
    BY <2>1, <2>3, SyncedFrames
<1>2. QED
  BY <1>1, HostInvariance, PTL

----------------------------------------------------------------------------
(* BoundedQueue *)

\* One turn of the ring: all the modulo arithmetic the ring needs.
LEMMA Wrap ==
  ASSUME NEW x \in 0..(2 * Capacity - 1)
  PROVE  x % Capacity = IF x < Capacity THEN x ELSE x - Capacity
<1>1. Capacity \in Nat \ {0} /\ x \in Nat
  BY CapacityAssumption
<1>2. CASE x < Capacity
  BY <1>1, <1>2, Z3
<1>3. CASE x >= Capacity
  <2>1. x - Capacity \in 0..(Capacity - 1)
    BY <1>1, <1>3
  <2>2. x = 1 * Capacity + (x - Capacity)
    BY <1>1
  <2>3. QED
    BY <1>1, <1>3, <2>1, <2>2, Z3
<1>4. QED
  BY <1>1, <1>2, <1>3

LEMMA WrapSlot ==
  ASSUME NEW x \in 0..(2 * Capacity - 1)
  PROVE  x % Capacity \in Slots
<1>1. Capacity \in Nat \ {0}
  BY CapacityAssumption
<1>2. (IF x < Capacity THEN x ELSE x - Capacity) \in 0..(Capacity - 1)
  BY <1>1
<1>3. QED
  BY <1>2, Wrap DEF Slots

LEMMA TypeInit == Init => TypeOK
BY CapacityAssumption DEF Init, TypeOK, Slots

LEMMA TypeStep == TypeOK /\ [Next]_vars => TypeOK'
<1> SUFFICES ASSUME TypeOK, [Next]_vars PROVE TypeOK'
  OBVIOUS
<1>1. ASSUME NEW item \in Items, Push(item)
      PROVE  TypeOK'
  <2>1. PushSlot \in Slots
    BY WrapSlot, CapacityAssumption DEF PushSlot, TypeOK, Slots
  <2>2. CASE size = Capacity /\ overflows' = overflows + 1
             /\ UNCHANGED <<items, head, size, popped>>
    BY <2>2 DEF TypeOK
  <2>3. CASE /\ size < Capacity
             /\ items' = [items EXCEPT ![PushSlot] = item]
             /\ size' = size + 1
             /\ UNCHANGED <<head, overflows, popped>>
    <3>1. items' \in [Slots -> Items]
      BY <1>1, <2>1, <2>3 DEF TypeOK
    <3>2. size' \in 0..Capacity
      BY <2>3, CapacityAssumption DEF TypeOK
    <3>3. QED
      BY <2>3, <3>1, <3>2 DEF TypeOK
  <2>4. QED
    BY <1>1, <2>2, <2>3 DEF Push
<1>2. CASE Pop
  <2>1. CASE size > 0
    <3>1. NextHead \in Slots
      BY WrapSlot, CapacityAssumption DEF NextHead, TypeOK, Slots
    <3>2. QED
      BY <1>2, <2>1, <3>1, CapacityAssumption DEF Pop, TypeOK
  <2>2. CASE size = 0
    BY <1>2, <2>2 DEF Pop, TypeOK, vars
  <2>3. QED
    BY <2>1, <2>2 DEF TypeOK
<1>3. CASE UNCHANGED vars
  BY <1>3 DEF TypeOK, vars
<1>4. QED
  BY <1>1, <1>2, <1>3 DEF Next

\* The ring's indices and its fill level stay in range (TypeOK).
THEOREM RingTypeCorrect == Spec => []TypeOK
BY TypeInit, TypeStep, PTL DEF Spec

----------------------------------------------------------------------------
(* The ring is a first-in first-out queue *)

\* The slot of the i-th item of a ring whose oldest item is in slot h.
SlotOf(h, i) == (h + i - 1) % Capacity

\* The contents of a ring as a function of its state.
ContentsOf(its, h, n) == [i \in 1..n |-> its[SlotOf(h, i)]]

LEMMA SlotValue ==
  ASSUME NEW h \in Slots, NEW i \in 1..Capacity
  PROVE  /\ SlotOf(h, i) = IF h + i - 1 < Capacity THEN h + i - 1
                           ELSE h + i - 1 - Capacity
         /\ SlotOf(h, i) \in Slots
<1>1. h + i - 1 \in 0..(2 * Capacity - 1)
  BY CapacityAssumption DEF Slots
<1>2. PICK x : x = h + i - 1
  OBVIOUS
<1>3. SlotOf(h, i) = x % Capacity /\ x \in 0..(2 * Capacity - 1)
  BY <1>1, <1>2 DEF SlotOf
<1>4. x % Capacity = IF x < Capacity THEN x ELSE x - Capacity
  BY <1>3, Wrap, Zenon
<1>5. x % Capacity \in Slots
  BY <1>3, WrapSlot, Zenon
<1>6. /\ SlotOf(h, i) = IF x < Capacity THEN x ELSE x - Capacity
      /\ SlotOf(h, i) \in Slots
  BY <1>3, <1>4, <1>5, Zenon
<1>7. QED
  BY <1>6, <1>2, CapacityAssumption DEF Slots

\* Distinct items are in distinct slots.
LEMMA SlotsDiffer ==
  ASSUME NEW h \in Slots, NEW i \in 1..Capacity, NEW j \in 1..Capacity, i # j
  PROVE  SlotOf(h, i) # SlotOf(h, j)
<1>1. SlotOf(h, i) = IF h + i - 1 < Capacity THEN h + i - 1
                     ELSE h + i - 1 - Capacity
  BY SlotValue
<1>2. SlotOf(h, j) = IF h + j - 1 < Capacity THEN h + j - 1
                     ELSE h + j - 1 - Capacity
  BY SlotValue
<1>3. Capacity \in Nat \ {0} /\ h \in 0..(Capacity - 1)
  BY CapacityAssumption DEF Slots
<1>4. QED
  BY <1>1, <1>2, <1>3

LEMMA ContentsIsASeq ==
  ASSUME NEW its \in [Slots -> Items], NEW h \in Slots, NEW n \in 0..Capacity
  PROVE  /\ ContentsOf(its, h, n) \in Seq(Items)
         /\ Len(ContentsOf(its, h, n)) = n
         /\ \A i \in 1..n : ContentsOf(its, h, n)[i] = its[SlotOf(h, i)]
<1>1. n \in Nat /\ \A i \in 1..n : i \in 1..Capacity
  BY CapacityAssumption
<1>2. \A i \in 1..n : its[SlotOf(h, i)] \in Items
  BY <1>1, SlotValue
<1>3. ContentsOf(its, h, n) \in [1..n -> Items]
  BY <1>2 DEF ContentsOf
<1>4. ContentsOf(its, h, n) \in Seq(Items)
  BY <1>1, <1>3, SeqDef
<1>5. QED
  BY <1>1, <1>3, <1>4, LenProperties DEF ContentsOf

\* Writing the slot after the last item appends to the contents.
LEMMA WriteAppends ==
  ASSUME NEW its \in [Slots -> Items], NEW h \in Slots, NEW n \in 0..Capacity,
         n < Capacity, NEW item \in Items
  PROVE  ContentsOf([its EXCEPT ![SlotOf(h, n + 1)] = item], h, n + 1)
           = Append(ContentsOf(its, h, n), item)
<1> DEFINE new == [its EXCEPT ![SlotOf(h, n + 1)] = item]
           old == ContentsOf(its, h, n)
<1>1. n + 1 \in 1..Capacity /\ n + 1 \in 0..Capacity /\ n \in Nat
  BY CapacityAssumption
<1>2. SlotOf(h, n + 1) \in Slots
  BY <1>1, SlotValue
<1>3. new \in [Slots -> Items]
  OBVIOUS
<1>4. /\ old \in Seq(Items)
      /\ Len(old) = n
      /\ \A i \in 1..n : old[i] = its[SlotOf(h, i)]
  BY ContentsIsASeq
<1>5. /\ ContentsOf(new, h, n + 1) \in Seq(Items)
      /\ Len(ContentsOf(new, h, n + 1)) = n + 1
      /\ \A i \in 1..(n + 1) : ContentsOf(new, h, n + 1)[i] = new[SlotOf(h, i)]
  <2> HIDE DEF new
  <2>1. QED
    BY <1>1, <1>3, ContentsIsASeq
<1>6. /\ Append(old, item) \in Seq(Items)
      /\ Len(Append(old, item)) = n + 1
      /\ \A i \in 1..n : Append(old, item)[i] = old[i]
      /\ Append(old, item)[n + 1] = item
  <2> HIDE DEF old
  <2>1. QED
    BY <1>4, AppendProperties
<1>7. ASSUME NEW i \in 1..(n + 1)
      PROVE  ContentsOf(new, h, n + 1)[i] = Append(old, item)[i]
  <2>1. CASE i = n + 1
    <3>1. new[SlotOf(h, n + 1)] = item
      BY <1>2
    <3>2. QED
      BY <1>5, <1>6, <2>1, <3>1
  <2>2. CASE i # n + 1
    <3>1. i \in 1..n /\ i \in 1..Capacity
      BY <1>1, <2>2, CapacityAssumption
    <3>2. SlotOf(h, i) # SlotOf(h, n + 1) /\ SlotOf(h, i) \in Slots
      BY <1>1, <2>2, <3>1, SlotsDiffer, SlotValue
    <3>3. new[SlotOf(h, i)] = its[SlotOf(h, i)]
      BY <3>2
    <3>4. QED
      BY <1>4, <1>5, <1>6, <3>1, <3>3
  <2>3. QED
    BY <2>1, <2>2
<1>8. QED
  <2> HIDE DEF new, old
  <2>1. ContentsOf(new, h, n + 1) = Append(old, item)
    BY <1>5, <1>6, <1>7, SeqEqual
  <2>2. QED
    BY <2>1 DEF new, old

\* Advancing the head takes the first item off the contents.
LEMMA AdvanceIsTail ==
  ASSUME NEW its \in [Slots -> Items], NEW h \in Slots, NEW n \in 0..Capacity, n > 0
  PROVE  /\ ContentsOf(its, h, n) # <<>>
         /\ Head(ContentsOf(its, h, n)) = its[h]
         /\ ContentsOf(its, (h + 1) % Capacity, n - 1) = Tail(ContentsOf(its, h, n))
<1> DEFINE next == (h + 1) % Capacity
           old  == ContentsOf(its, h, n)
<1>1. /\ Capacity \in Nat \ {0} /\ h \in 0..(Capacity - 1) /\ n \in 1..Capacity
      /\ n - 1 \in 0..Capacity /\ 1 \in 1..Capacity /\ n - 1 \in Nat
  BY CapacityAssumption DEF Slots
<1>2. h + 1 \in 0..(2 * Capacity - 1)
  BY <1>1
<1>3. next = (IF h + 1 < Capacity THEN h + 1 ELSE h + 1 - Capacity) /\ next \in Slots
  <2>1. PICK x : x = h + 1
    OBVIOUS
  <2>2. x \in 0..(2 * Capacity - 1)
    BY <1>2, <2>1
  <2>3. x % Capacity = IF x < Capacity THEN x ELSE x - Capacity
    BY <2>2, Wrap, Zenon
  <2>4. x % Capacity \in Slots
    BY <2>2, WrapSlot, Zenon
  <2>5. next = x % Capacity
    BY <2>1 DEF next
  <2>6. next = (IF x < Capacity THEN x ELSE x - Capacity) /\ next \in Slots
    BY <2>3, <2>4, <2>5, Zenon
  <2>7. QED
    BY <2>6, <2>1, CapacityAssumption DEF Slots
<1> HIDE DEF next
<1>4. /\ old \in Seq(Items)
      /\ Len(old) = n
      /\ \A i \in 1..n : old[i] = its[SlotOf(h, i)]
  BY ContentsIsASeq
<1>5. /\ ContentsOf(its, next, n - 1) \in Seq(Items)
      /\ Len(ContentsOf(its, next, n - 1)) = n - 1
      /\ \A i \in 1..(n - 1) : ContentsOf(its, next, n - 1)[i] = its[SlotOf(next, i)]
  BY <1>1, <1>3, ContentsIsASeq
<1> HIDE DEF old
<1>6. old # <<>> /\ Head(old) = old[1]
  BY <1>1, <1>4
<1>7. SlotOf(h, 1) = h
  <2>1. h + 1 - 1 = h
    BY <1>1
  <2>2. QED
    BY <1>1, <2>1, SlotValue
<1>8. /\ Tail(old) \in Seq(Items)
      /\ Len(Tail(old)) = n - 1
      /\ \A i \in 1..(n - 1) : Tail(old)[i] = old[i + 1]
  BY <1>1, <1>4, <1>6, HeadTailProperties
<1>9. ASSUME NEW i \in 1..(n - 1)
      PROVE  SlotOf(next, i) = SlotOf(h, i + 1)
  <2>1. i \in 1..Capacity /\ i + 1 \in 1..Capacity
    BY <1>1
  <2>2. SlotOf(next, i) = IF next + i - 1 < Capacity THEN next + i - 1
                          ELSE next + i - 1 - Capacity
    BY <1>3, <2>1, SlotValue
  <2>3. SlotOf(h, i + 1) = IF h + (i + 1) - 1 < Capacity THEN h + (i + 1) - 1
                           ELSE h + (i + 1) - 1 - Capacity
    BY <2>1, SlotValue
  <2>4. QED
    BY <1>1, <1>3, <2>1, <2>2, <2>3
<1>10. ContentsOf(its, next, n - 1) = Tail(old)
  <2>1. ASSUME NEW i \in 1..(n - 1)
        PROVE  ContentsOf(its, next, n - 1)[i] = Tail(old)[i]
    <3>1. i + 1 \in 1..n
      BY <1>1
    <3>2. QED
      BY <1>4, <1>5, <1>8, <1>9, <3>1
  <2>2. QED
    BY <1>5, <1>8, <2>1, SeqEqual
<1>11. QED
  BY <1>1, <1>4, <1>6, <1>7, <1>10 DEF old, next

LEMMA ContentsIs ==
  /\ Contents = ContentsOf(items, head, size)
  /\ Contents' = ContentsOf(items', head', size')
BY DEF Contents, ContentsOf, SlotOf

LEMMA FifoInit == Init => Fifo!Init
<1> SUFFICES ASSUME Init PROVE Fifo!Init
  OBVIOUS
<1>1. Contents = <<>>
  BY DEF Init, Contents
<1>2. QED
  BY <1>1 DEF Init, Fifo!Init

LEMMA FifoStep == TypeOK /\ [Next]_vars => [Fifo!Next]_(Fifo!vars)
<1> SUFFICES ASSUME TypeOK, [Next]_vars
             PROVE  Fifo!Next \/ UNCHANGED Fifo!vars
  OBVIOUS
<1>1. /\ items \in [Slots -> Items] /\ head \in Slots /\ size \in 0..Capacity
      /\ Len(Contents) = size
  BY ContentsIs, ContentsIsASeq DEF TypeOK
<1>2. ASSUME NEW item \in Items, Push(item)
      PROVE  Fifo!Push(item)
  <2>1. CASE size = Capacity
    <3>1. overflows' = overflows + 1 /\ UNCHANGED <<items, head, size, popped>>
      BY <1>1, <1>2, <2>1, CapacityAssumption DEF Push
    <3>2. Contents' = Contents
      BY <3>1, ContentsIs
    <3>3. QED
      BY <1>1, <2>1, <3>1, <3>2 DEF Fifo!Push
  <2>2. CASE size < Capacity
    <3>1. /\ items' = [items EXCEPT ![PushSlot] = item]
          /\ size' = size + 1
          /\ UNCHANGED <<head, overflows, popped>>
      BY <1>1, <1>2, <2>2, CapacityAssumption DEF Push
    <3>2. PushSlot = SlotOf(head, size + 1)
      <4>1. head + (size + 1) - 1 = head + size
        BY <1>1, CapacityAssumption DEF Slots
      <4>2. QED
        BY <4>1 DEF PushSlot, SlotOf
    <3>3. Contents' = Append(Contents, item)
      BY <1>1, <2>2, <3>1, <3>2, ContentsIs, WriteAppends
    <3>4. QED
      BY <1>1, <2>2, <3>1, <3>3 DEF Fifo!Push
  <2>3. QED
    BY <1>1, <2>1, <2>2, CapacityAssumption
<1>3. CASE Pop
  <2>1. CASE size = 0
    <3>1. UNCHANGED vars
      BY <1>3, <2>1 DEF Pop
    <3>2. Contents' = Contents
      BY <3>1, ContentsIs DEF vars
    <3>3. QED
      BY <3>1, <3>2 DEF vars, Fifo!vars
  <2>2. CASE size > 0
    <3>1. /\ popped' = items[head] /\ head' = NextHead /\ size' = size - 1
          /\ UNCHANGED <<items, overflows>>
      BY <1>3, <2>2 DEF Pop
    <3>2. /\ Contents # <<>>
          /\ Head(Contents) = items[head]
          /\ Contents' = Tail(Contents)
      BY <1>1, <2>2, <3>1, ContentsIs, AdvanceIsTail DEF NextHead
    <3>3. Fifo!Pop
      BY <3>1, <3>2 DEF Fifo!Pop
    <3>4. QED
      BY <3>3 DEF Fifo!Next
  <2>3. QED
    BY <1>1, <2>1, <2>2, CapacityAssumption
<1>4. CASE UNCHANGED vars
  <2>1. Contents' = Contents
    BY <1>4, ContentsIs DEF vars
  <2>2. QED
    BY <1>4, <2>1 DEF vars, Fifo!vars
<1>5. QED
  BY <1>2, <1>3, <1>4 DEF Next, Fifo!Next

\* A ring of any capacity is the bounded first-in first-out queue
\* (ImplementsFifo): wrapping never reorders, loses or overwrites an item.
THEOREM RingImplementsFifo == Spec => ImplementsFifo
<1>1. Spec => []TypeOK
  BY RingTypeCorrect
<1>2. QED
  BY <1>1, FifoInit, FifoStep, PTL DEF Spec, ImplementsFifo, Fifo!Spec
================================================================================

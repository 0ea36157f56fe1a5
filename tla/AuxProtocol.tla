------------------------------ MODULE AuxProtocol ------------------------------
(***************************************************************************)
(* The NexStar AUX frame and the predicates the firmware evaluates on it:  *)
(* include/aux_protocol.hpp, controlled_aux_query.hpp, operating_mode.hpp. *)
(*                                                                         *)
(* A frame is the sequence  preamble, length, payload..., checksum.  Bytes *)
(* are numbers below ByteMod.  The constants are parameters so that the    *)
(* stream decoder can be explored over a tiny alphabet; the firmware's own *)
(* values are ByteMod = 256, Preamble = 59 (0x3B), MinimumMessageLength =  *)
(* 3, MaximumPacketSize = 258 and GetVersion = 254 (0xFE).                 *)
(***************************************************************************)
EXTENDS Integers, Sequences
LOCAL INSTANCE Folds

CONSTANTS ByteMod,              \* number of values of a uint8_t
          Preamble,             \* kAuxPreamble
          MinimumMessageLength, \* kAuxMinimumMessageLength
          MaximumPacketSize,    \* kAuxMaximumPacketSize
          GetVersion            \* kAuxCommandGetVersion

ASSUME ProtocolAssumption ==
  /\ ByteMod \in Nat \ {0}
  /\ Preamble \in 0..(ByteMod - 1)
  /\ GetVersion \in 0..(ByteMod - 1)
  /\ MinimumMessageLength \in Nat \ {0}
  /\ MaximumPacketSize \in Nat

Byte == 0..(ByteMod - 1)

PacketOrigin == {"kHost", "kAuxBus"}

\* AuxPacket without its timestamp: `size` is the length of `bytes`.
AuxPacket == [bytes : Seq(Byte), origin : PacketOrigin]

Size(p) == Len(p.bytes)

\* AuxPacket{}: what `packet_` holds before the first start.
EmptyPacket == [bytes |-> <<>>, origin |-> "kAuxBus"]

\* The uint8_t sum of every byte after the preamble.
ByteSum(bytes) ==
  MapThenFoldSet(LAMBDA x, y : (x + y) % ByteMod, 0,
                 LAMBDA i : bytes[i], LAMBDA S : CHOOSE i \in S : TRUE,
                 2..Len(bytes))

\* Two's complement of the sum: appended to `bytes` it makes ByteSum zero.
CalculateAuxChecksum(bytes) == (ByteMod - ByteSum(bytes)) % ByteMod

HasValidAuxChecksum(p) ==
  /\ Size(p) >= MinimumMessageLength + 3
  /\ p.bytes[1] = Preamble
  /\ Size(p) = p.bytes[2] + 3
  /\ ByteSum(p.bytes) = 0

\* The frame around a message (source, destination, command, data).
Frame(message, origin) ==
  LET unsummed == <<Preamble, Len(message)>> \o message
  IN  [bytes  |-> Append(unsummed, CalculateAuxChecksum(unsummed)),
       origin |-> origin]

BuildControlledVersionQuery(source, destination) ==
  Frame(<<source, destination, GetVersion>>, "kHost")

IsControlledReadOnlyQuery(p) ==
  /\ HasValidAuxChecksum(p)
  /\ p.origin = "kHost"
  /\ Size(p) = 6
  /\ p.bytes[2] = 3
  /\ p.bytes[5] = GetVersion

\* `response` answers `query`: a five-byte message from its destination to
\* its source, heard on the AUX bus.
IsControlledVersionResponse(query, response) ==
  /\ IsControlledReadOnlyQuery(query)
  /\ HasValidAuxChecksum(response)
  /\ response.origin = "kAuxBus"
  /\ Size(response) = 8
  /\ response.bytes[2] = 5
  /\ response.bytes[3] = query.bytes[4]
  /\ response.bytes[4] = query.bytes[3]
  /\ response.bytes[5] = GetVersion

OperatingMode == {"kUsbBridge", "kListenOnly", "kDiagnostic", "kControlledTest"}

AuxTxAuthorization == {"kProhibited", "kControlledTest", "kUsbBridge"}

MayTransmitAux(mode) == mode \in {"kUsbBridge", "kControlledTest"}

\* The two (mode, authorization) pairs that may open a transaction.
Controlled(mode, authorization) ==
  mode = "kControlledTest" /\ authorization = "kControlledTest"
Bridged(mode, authorization) ==
  mode = "kUsbBridge" /\ authorization = "kUsbBridge"
Authorized(mode, authorization) ==
  /\ MayTransmitAux(mode)
  /\ Controlled(mode, authorization) \/ Bridged(mode, authorization)
================================================================================

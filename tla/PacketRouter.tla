------------------------------ MODULE PacketRouter ------------------------------
(***************************************************************************)
(* class PacketRouter of include/packet_router.hpp: two bounded queues     *)
(* between the host and the AUX side, each guarded by the origin and the   *)
(* checksum of what enters it.  A queue is the sequence of its packets,    *)
(* which BoundedQueue's ring implements.  A router is a record; its        *)
(* methods are operators.                                                  *)
(***************************************************************************)
EXTENDS AuxProtocol

CONSTANTS AuxTxCapacity, HostTxCapacity   \* the template parameters

ASSUME RouterAssumption == {AuxTxCapacity, HostTxCapacity} \subseteq Nat \ {0}

InitRouter ==
  [aux_tx |-> <<>>, host_tx |-> <<>>,
   aux_overflows |-> 0, host_overflows |-> 0,
   invalid_host_packets |-> 0, invalid_aux_packets |-> 0]

\* Each route says whether the packet was queued.
RouteFromHost(r, p) ==
  CASE p.origin # "kHost" \/ ~HasValidAuxChecksum(p) ->
         [router |-> [r EXCEPT !.invalid_host_packets = @ + 1], queued |-> FALSE]
    [] OTHER ->
         IF Len(r.aux_tx) = AuxTxCapacity
           THEN [router |-> [r EXCEPT !.aux_overflows = @ + 1], queued |-> FALSE]
           ELSE [router |-> [r EXCEPT !.aux_tx = Append(@, p)], queued |-> TRUE]

RouteFromAux(r, p) ==
  CASE p.origin # "kAuxBus" \/ ~HasValidAuxChecksum(p) ->
         [router |-> [r EXCEPT !.invalid_aux_packets = @ + 1], queued |-> FALSE]
    [] OTHER ->
         IF Len(r.host_tx) = HostTxCapacity
           THEN [router |-> [r EXCEPT !.host_overflows = @ + 1], queued |-> FALSE]
           ELSE [router |-> [r EXCEPT !.host_tx = Append(@, p)], queued |-> TRUE]

\* takeForAux and takeForHost copy out the oldest packet, if there is one.
TakeForAux(r)  == [r EXCEPT !.aux_tx = Tail(@)]
TakeForHost(r) == [r EXCEPT !.host_tx = Tail(@)]
================================================================================

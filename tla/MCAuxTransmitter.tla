---------------------------- MODULE MCAuxTransmitter ----------------------------
(* AuxTransmitter and its cadence over real frames and a short clock. *)
EXTENDS AuxTransmitterTiming

\* The version query the bench captured, its answer, which is valid but no
\* query, and the query with a damaged checksum.
Query    == BuildControlledVersionQuery(3, 16)
Answer   == Frame(<<16, 3, 254, 5, 20>>, "kAuxBus")
Damaged  == [Query EXCEPT !.bytes[6] = 0]

MCPackets == {Query, Answer, Damaged}

\* The frames of docs/bench-validation.md and test_controlled_aux_query.
ASSUME KnownFrames ==
  /\ Query.bytes = <<59, 3, 3, 16, 254, 236>>
  /\ Answer.bytes = <<59, 5, 16, 3, 254, 5, 20, 209>>
  /\ IsControlledReadOnlyQuery(Query)
  /\ IsControlledVersionResponse(Query, Answer)
  /\ HasValidAuxChecksum(Answer) /\ ~HasValidAuxChecksum(Damaged)
================================================================================

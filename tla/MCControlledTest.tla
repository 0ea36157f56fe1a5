---------------------------- MODULE MCControlledTest ----------------------------
(* ControlledTest over eight byte values and two destinations. *)
EXTENDS ControlledTest

MCDestinations == {1, 2}
MCQueries      == {QueryTo(d) : d \in MCDestinations}

\* The destinations differ in name only: let the first query be to the first.
MCTestSpec ==
  TestInit /\ [][TestNext /\ selected_destination' <= metrics'["start_requests"] + 1]_testVars
================================================================================

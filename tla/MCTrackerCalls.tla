------------------------------ MODULE MCTrackerCalls ------------------------------
(* TrackerCalls over two overlapping frames of three and two bytes, and a    *)
(* packet begin refuses.                                                     *)
EXTENDS TrackerCalls

MCPackets == {[bytes |-> <<1, 0, 1>>, origin |-> "kHost"],
              [bytes |-> <<1, 1>>, origin |-> "kHost"],
              [bytes |-> <<1, 1, 0, 1>>, origin |-> "kHost"]}
================================================================================

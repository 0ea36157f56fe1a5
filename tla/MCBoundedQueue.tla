----------------------------- MODULE MCBoundedQueue -----------------------------
(* The router's ring over three slots. *)
EXTENDS BoundedQueue
CONSTANTS a, b, c
MCItems == {a, b, c}
================================================================================

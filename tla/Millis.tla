--------------------------------- MODULE Millis ---------------------------------
(* millis(): a millisecond counter that wraps, and ages measured with it. *)
EXTENDS Integers

CONSTANT MsMod   \* number of values of the counter (2^32)

ASSUME MillisAssumption == MsMod \in Nat \ {0}

Ms == 0..(MsMod - 1)

\* The uint32_t difference of two readings.
ElapsedMs(now, then) == IF now >= then THEN now - then ELSE now - then + MsMod
================================================================================

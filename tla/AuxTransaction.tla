----------------------------- MODULE AuxTransaction -----------------------------
(***************************************************************************)
(* What the transmitter promises about the shared half-duplex bus, without *)
(* timers, flags or counters: one accepted packet at a time; the bus is    *)
(* driven only by the owner of BUSY; a packet is given to the UART at most *)
(* once however often the bus was contended for; the bus is given up       *)
(* before any answer is waited for; and a packet counts as completed only  *)
(* if it was sent.  Everything here is an abstraction of AuxTransmitter,   *)
(* which implements it.                                                    *)
(***************************************************************************)
VARIABLES phase,    \* where the transaction stands
          holding,  \* the BUSY line is asserted by us
          driving,  \* the TX buffer is enabled
          sent      \* the packet of this transaction was given to the UART

vars == <<phase, holding, driving, sent>>

Phases == {"rest", "contend", "own", "await", "failed"}

TypeOK == /\ phase \in Phases
          /\ <<holding, driving, sent>> \in BOOLEAN \X BOOLEAN \X BOOLEAN

Init == phase = "rest" /\ ~holding /\ ~driving /\ ~sent

Accept == /\ phase = "rest"
          /\ phase' = "contend"
          /\ sent' = FALSE
          /\ UNCHANGED <<holding, driving>>

Claim == /\ phase = "contend"
         /\ phase' = "own"
         /\ holding' = TRUE
         /\ UNCHANGED <<driving, sent>>

Drive == /\ phase = "own" /\ holding /\ ~driving /\ ~sent
         /\ driving' = TRUE
         /\ UNCHANGED <<phase, holding, sent>>

Send == /\ phase = "own" /\ holding /\ driving /\ ~sent
        /\ sent' = TRUE
        /\ UNCHANGED <<phase, holding, driving>>

\* Both lines are released in the same step.
Release == /\ phase = "own" /\ sent
           /\ phase' = "await"
           /\ holding' = FALSE /\ driving' = FALSE
           /\ UNCHANGED sent

Complete == /\ phase = "await" /\ sent
            /\ phase' = "rest"
            /\ UNCHANGED <<holding, driving, sent>>

\* A failure, possibly in the middle of the write, lets go of everything.
Fail == /\ phase \in {"contend", "own", "await"}
        /\ phase' = "failed"
        /\ holding' = FALSE /\ driving' = FALSE
        /\ sent' \in IF driving THEN {TRUE, sent} ELSE {sent}

Recover == /\ phase' = "rest"
           /\ holding' = FALSE /\ driving' = FALSE
           /\ UNCHANGED sent

Next == \/ Accept \/ Claim \/ Drive \/ Send
        \/ Release \/ Complete \/ Fail \/ Recover

Spec == Init /\ [][Next]_vars
================================================================================

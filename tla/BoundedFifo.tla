------------------------------ MODULE BoundedFifo ------------------------------
(***************************************************************************)
(* What a queue between the host and the AUX side promises: first in,      *)
(* first out, never more than Capacity items, the newest dropped and       *)
(* counted when it is full.  BoundedQueue, a ring, implements it.          *)
(***************************************************************************)
EXTENDS Naturals, Sequences

CONSTANTS Items, Capacity

VARIABLES queue,      \* the items, oldest first
          overflows,  \* how many pushes were refused
          popped      \* the last item taken out

vars == <<queue, overflows, popped>>

Init == queue = <<>> /\ overflows = 0 /\ popped \in Items

Push(item) ==
  \/ /\ Len(queue) < Capacity
     /\ queue' = Append(queue, item)
     /\ UNCHANGED <<overflows, popped>>
  \/ /\ Len(queue) = Capacity
     /\ overflows' = overflows + 1
     /\ UNCHANGED <<queue, popped>>

Pop == /\ queue # <<>>
       /\ popped' = Head(queue)
       /\ queue' = Tail(queue)
       /\ UNCHANGED overflows

Next == (\E item \in Items : Push(item)) \/ Pop

Spec == Init /\ [][Next]_vars
================================================================================

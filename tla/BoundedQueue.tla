------------------------------ MODULE BoundedQueue ------------------------------
(***************************************************************************)
(* template BoundedQueue of include/packet_router.hpp: a ring of Capacity  *)
(* slots, the index of its oldest item and the number of items in it.      *)
(***************************************************************************)
EXTENDS Naturals, Sequences

CONSTANTS Items,
          Capacity,     \* the template parameter, positive by static_assert
          MaxOverflows  \* bound: how many refused pushes are followed

ASSUME CapacityAssumption == Capacity \in Nat \ {0} /\ MaxOverflows \in Nat

VARIABLES items,      \* items_
          head, size, overflows,
          popped      \* the item pop() last copied out

vars == <<items, head, size, overflows, popped>>

Slots == 0..(Capacity - 1)

\* Slots start default-constructed: any item, none of them reachable.
Init ==
  /\ items \in [Slots -> Items]
  /\ head = 0 /\ size = 0 /\ overflows = 0
  /\ popped \in Items

\* Mutant: the slot is taken from the size alone.
PushSlot_NoHead == size % Capacity

\* The first free slot, after the last item.
PushSlot == (head + size) % Capacity

\* The slot of the second oldest item.
NextHead == (head + 1) % Capacity

Push(item) ==
  \/ /\ size = Capacity
     /\ overflows' = overflows + 1
     /\ UNCHANGED <<items, head, size, popped>>
  \/ /\ size < Capacity
     /\ items' = [items EXCEPT ![PushSlot] = item]
     /\ size' = size + 1
     /\ UNCHANGED <<head, overflows, popped>>

\* pop() on an empty queue returns false and changes nothing.
Pop ==
  \/ size = 0 /\ UNCHANGED vars
  \/ /\ size > 0
     /\ popped' = items[head]
     /\ head' = NextHead
     /\ size' = size - 1
     /\ UNCHANGED <<items, overflows>>

Next ==
  \/ \E item \in Items : (size = Capacity => overflows < MaxOverflows) /\ Push(item)
  \/ Pop

Spec == Init /\ [][Next]_vars

----------------------------------------------------------------------------
(* What must be true of it *)

\* The ring's indices stay inside it.
TypeOK ==
  /\ items \in [Slots -> Items]
  /\ head \in Slots
  /\ size \in 0..Capacity
  /\ overflows \in Nat
  /\ popped \in Items

\* The items from the oldest to the newest, wherever they wrap.
Contents == [i \in 1..size |-> items[(head + i - 1) % Capacity]]

Fifo == INSTANCE BoundedFifo WITH queue <- Contents

\* The ring is a bounded first-in first-out queue: across every wrap of its
\* indices, what comes out is what went in, oldest first, and a full queue
\* refuses the newest without touching the others.
ImplementsFifo == Fifo!Spec
================================================================================

----------------------------- MODULE BoundedFifo -----------------------------
(* What queue.Ring promises: a FIFO of at most Bound items that, once closed, *)
(* accepts nothing more and still gives out what it holds.  Items leave only  *)
(* from the front: one by one to a consumer, one by one by eviction to make   *)
(* room for a new item, or all at once by a drain.                            *)
EXTENDS Naturals, Sequences

CONSTANTS Item, Bound

VARIABLES q, closed

vars == <<q, closed>>

Init == q = <<>> /\ closed = FALSE

\* A producer's item is accepted at the back of an open queue with room.
Accept(v) ==
  /\ ~closed /\ Len(q) < Bound
  /\ q' = Append(q, v)
  /\ UNCHANGED closed

\* A full open queue gives up its oldest item for the new one.
Evict(v) ==
  /\ ~closed /\ Len(q) = Bound
  /\ q' = Append(Tail(q), v)
  /\ UNCHANGED closed

\* A consumer takes the oldest item.
Take ==
  /\ q # <<>>
  /\ q' = Tail(q)
  /\ UNCHANGED closed

Flush == q' = <<>> /\ UNCHANGED closed

Close == closed' = TRUE /\ UNCHANGED q

Next ==
  \/ \E v \in Item : Accept(v) \/ Evict(v)
  \/ Take
  \/ Flush
  \/ Close

Spec == Init /\ [][Next]_vars
=============================================================================

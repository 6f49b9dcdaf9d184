---------------------------- MODULE BoundedFifo ----------------------------
(***************************************************************************)
(* What a bounded queue between one producer and one consumer promises:    *)
(* items come out once each, in the order they went in, and never more     *)
(* than N of them are inside.  A failed try_ call changes nothing.         *)
(***************************************************************************)
EXTENDS Naturals, Sequences

CONSTANTS Item, N

VARIABLES
  queue,       \* the items inside, oldest first
  delivered    \* the items handed to the consumer, in order

Init == queue = <<>> /\ delivered = <<>>

Push(v) ==
  /\ Len(queue) < N
  /\ queue' = Append(queue, v)
  /\ UNCHANGED delivered

Pop ==
  /\ queue # <<>>
  /\ delivered' = Append(delivered, Head(queue))
  /\ queue' = Tail(queue)

Next == (\E v \in Item : Push(v)) \/ Pop

Spec == Init /\ [][Next]_<<queue, delivered>>
=============================================================================

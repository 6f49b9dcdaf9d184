-------------------------------- MODULE Heap --------------------------------
(***************************************************************************)
(* A memory is a function from the addresses that are taken to what is     *)
(* there; other functions grow and shrink in the same way.                 *)
(***************************************************************************)
EXTENDS Integers, FiniteSets

With(heap, a, x) == [b \in DOMAIN heap \cup {a} |-> IF b = a THEN x ELSE heap[b]]

Without(heap, addresses) == [b \in DOMAIN heap \ addresses |-> heap[b]]

(* what operator new returns: an address that is free *)
NewAddress(heap) == CHOOSE a \in 1 .. Cardinality(DOMAIN heap) + 1 : a \notin DOMAIN heap
=============================================================================

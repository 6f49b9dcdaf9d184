----------------------------- MODULE RawStorage -----------------------------
(***************************************************************************)
(* The memory of the two vectors: buffers from operator new, whose slots   *)
(* are raw or hold an object.                                              *)
(*                                                                         *)
(* A memory is a record: heap maps each allocated buffer to its slots, and *)
(* sound is false once an object was constructed over another, destroyed   *)
(* twice or lost with its buffer.                                          *)
(***************************************************************************)
EXTENDS Heap

CONSTANTS
  Moved,   \* what moving leaves behind
  Raw,     \* a slot without an object
  Null     \* nullptr

NoBuffers == [heap |-> [b \in {} |-> Null], sound |-> TRUE]

Span(i, j) == i .. j - 1

Fresh(m) == NewAddress(m.heap)
allocate(m, n) == [m EXCEPT !.heap = With(@, Fresh(m), [k \in Span(0, n) |-> Raw])]

SetRange(m, b, i, j, value, ok) ==
  [heap  |-> IF i = j THEN m.heap
             ELSE [m.heap EXCEPT ![b] = [k \in DOMAIN @ |-> IF k \in Span(i, j) THEN value[k] ELSE @[k]]],
   sound |-> m.sound /\ ok]

(* placement new for the slots i to j - 1 *)
ConstructRange(m, b, i, j, value) ==
  SetRange(m, b, i, j, value, \A k \in Span(i, j) : k \in DOMAIN m.heap[b] /\ m.heap[b][k] = Raw)

Construct(m, b, i, x) == ConstructRange(m, b, i, i + 1, [k \in {i} |-> x])

destruct_range(m, b, i, j) ==
  SetRange(m, b, i, j, [k \in Span(i, j) |-> Raw],
           \A k \in Span(i, j) : k \in DOMAIN m.heap[b] /\ m.heap[b][k] # Raw)

(* operator delete: a null pointer is nothing to delete *)
Delete(m, b) ==
  IF b = Null THEN m
  ELSE [heap  |-> Without(m.heap, {b}),
        sound |-> m.sound /\ \A k \in DOMAIN m.heap[b] : m.heap[b][k] = Raw]

destroy(m, b, n) == Delete(destruct_range(m, b, 0, n), b)

(* n elements copied from src to dst, the copy after the kth throwing; and *)
(* n elements moved, which leaves the first k of src moved from.           *)
CopyRange(m, dst, src, k) == ConstructRange(m, dst, 0, k, [i \in Span(0, k) |-> m.heap[src][i]])
MoveRange(m, dst, src, k) ==
  LET made == CopyRange(m, dst, src, k)
  IN IF k = 0 THEN made
     ELSE [made EXCEPT !.heap[src] = [i \in DOMAIN @ |-> IF i < k THEN Moved ELSE @[i]]]

(* What must hold of a memory that belongs to these owners, each with its  *)
(* data, size and capacity: every buffer belongs to one owner, its first   *)
(* size slots hold objects, and the others do not.                         *)
BelongsTo(m, owner) ==
  LET holding == {v \in DOMAIN owner : owner[v].data # Null}
  IN /\ m.sound
     /\ DOMAIN m.heap = {owner[v].data : v \in holding}
     /\ \A v, w \in holding : owner[v].data = owner[w].data => v = w
     /\ \A v \in DOMAIN owner \ holding : owner[v].size = 0 /\ owner[v].capacity = 0
     /\ \A v \in holding :
          LET slots == m.heap[owner[v].data]
          IN /\ DOMAIN slots = Span(0, owner[v].capacity) /\ owner[v].size <= owner[v].capacity
             /\ \A i \in DOMAIN slots : slots[i] # Raw <=> i < owner[v].size
=============================================================================

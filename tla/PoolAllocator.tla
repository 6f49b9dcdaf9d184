--------------------------- MODULE PoolAllocator ---------------------------
(***************************************************************************)
(* my_std::pool_allocator (misc/allocator/pool_allocator.hpp): Blocks      *)
(* blocks, each either the client's or a link of the list of free ones.    *)
(* An allocator is used by one thread; the operator new of its constructor *)
(* may throw, after which there is nothing to model.                       *)
(*                                                                         *)
(* mem.heap maps the address of a pool to its blocks: Data while a block   *)
(* is the client's, and next_ else.  A client deallocates a block it holds *)
(* and only with the allocator that has the block's pool.                  *)
(***************************************************************************)
EXTENDS Heap

CONSTANTS
  Vec,      \* the variables of type pool_allocator
  Blocks,   \* N
  Data,     \* what a block of the client's is
  Null,     \* nullptr
  Absent    \* a variable out of scope

VARIABLES
  alloc,    \* pool_ and free_ of each variable, or Absent
  mem

vars == <<alloc, mem>>

Init ==
  /\ alloc = [v \in Vec |-> Absent]
  /\ mem = [heap |-> [a \in {} |-> Null], sound |-> TRUE]

InScope(v) == alloc[v] # Absent
Emptied == [pool |-> Null, free |-> Null]

-----------------------------------------------------------------------------
(* Slips a maintainer could make *)

(* the allocator that was moved from keeps its free list *)
Left_Free(w) == [alloc[w] EXCEPT !.pool = Null]

(* a block that comes back is the end of the list *)
Link_Last(v) == Null

-----------------------------------------------------------------------------
New == NewAddress(mem.heap)

NewPool == [i \in 1 .. Blocks |-> IF i < Blocks THEN i + 1 ELSE Null]

Ctor(v) ==
  /\ ~InScope(v)
  /\ mem' = [mem EXCEPT !.heap = With(@, New, NewPool)]
  /\ alloc' = [alloc EXCEPT ![v] = [pool |-> New, free |-> 1]]

deleted(p) == IF p = Null THEN mem
              ELSE [heap |-> Without(mem.heap, {p}),
                    sound |-> mem.sound /\ p \in DOMAIN mem.heap]

Destructor(v) ==
  /\ InScope(v)
  /\ mem' = deleted(alloc[v].pool) /\ alloc' = [alloc EXCEPT ![v] = Absent]

(* what is left of w when its pool has gone to another *)
Left(w) == Emptied

Take(v, w) == alloc' = [alloc EXCEPT ![v] = alloc[w], ![w] = Left(w)]

MoveCtor(v, w) == ~InScope(v) /\ InScope(w) /\ Take(v, w) /\ UNCHANGED mem
MoveAssign(v, w) ==
  v # w /\ InScope(v) /\ InScope(w) /\ Take(v, w) /\ mem' = deleted(alloc[v].pool)

(* without a free block allocate throws, and nothing changes *)
allocate(v) ==
  /\ InScope(v) /\ alloc[v].free # Null
  /\ LET pool == mem.heap[alloc[v].pool]
     IN /\ alloc' = [alloc EXCEPT ![v].free = pool[alloc[v].free]]
        /\ mem' = [mem EXCEPT !.heap[alloc[v].pool][alloc[v].free] = Data]

Link(v) == alloc[v].free

deallocate(v, p) ==
  /\ alloc' = [alloc EXCEPT ![v].free = p]
  /\ mem' = [mem EXCEPT !.heap[alloc[v].pool][p] = Link(v)]

(* the blocks of v that the client holds *)
Held(v) ==
  IF ~InScope(v) \/ alloc[v].pool = Null THEN {}
  ELSE {p \in 1 .. Blocks : mem.heap[alloc[v].pool][p] = Data}

Next ==
  \E v \in Vec :
    \/ Ctor(v) \/ Destructor(v) \/ allocate(v)
    \/ \E p \in Held(v) : deallocate(v, p)
    \/ \E w \in Vec : MoveCtor(v, w) \/ MoveAssign(v, w)

Spec == Init /\ [][Next]_vars

-----------------------------------------------------------------------------
(* The free list of an allocator leads once through every block of its     *)
(* pool that the client does not hold, and through no other, so no block   *)
(* is handed out twice or lost; and every pool has one allocator.          *)
BlocksAccounted ==
  LET owners == {v \in Vec : InScope(v) /\ alloc[v].pool # Null}
  IN /\ mem.sound /\ DOMAIN mem.heap = {alloc[v].pool : v \in owners}
     /\ \A v, w \in owners : alloc[v].pool = alloc[w].pool => v = w
     /\ \A v \in {u \in Vec : InScope(u)} \ owners : alloc[v].free = Null
     /\ \A v \in owners :
          LET pool == mem.heap[alloc[v].pool]
              n == Blocks - Cardinality(Held(v))
              walk[i \in 0 .. n] == IF i = 0 THEN alloc[v].free
                                    ELSE IF walk[i - 1] \in 1 .. Blocks THEN pool[walk[i - 1]] ELSE Null
          IN walk[n] = Null /\ {walk[i] : i \in 0 .. n - 1} = 1 .. Blocks \ Held(v)
=============================================================================

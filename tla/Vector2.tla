------------------------------ MODULE Vector2 ------------------------------
(***************************************************************************)
(* my_std::vector2 (stl/vector/vector_with_allocator.hpp) with the default *)
(* allocator: the buffer of module Vector, but calls without a try block.  *)
(* An exception leaves behind whatever the call had done so far.  Where    *)
(* that is nothing, the operation may always throw; elsewhere only when    *)
(* Unguarded.  Elements are moved whether or not that may throw.           *)
(***************************************************************************)
EXTENDS RawStorage, Sequences

CONSTANTS
  Vec, Item, Absent, MaxCapacity, Unguarded   \* as in module Vector

VARIABLES vec, mem, call, threw               \* as in module Vector

vars == <<vec, mem, call, threw>>

Empty == [data |-> Null, size |-> 0, capacity |-> 0]

Init ==
  /\ vec = [v \in Vec |-> Absent] /\ mem = NoBuffers
  /\ call = <<>> /\ threw = FALSE

InScope(v) == vec[v] # Absent
New == Fresh(mem)

End(c, m, v, r, t) ==
  /\ call' = c /\ threw' = t
  /\ mem' = m /\ vec' = [vec EXCEPT ![v] = r]
Return(c, m, v, r) == End(c, m, v, r, FALSE)
Throw(c, m, v, r) == End(c, m, v, r, TRUE)

-----------------------------------------------------------------------------
(* Slips a maintainer could make *)

(* growth moves the elements and does not destroy what is left of them *)
Retire_KeepsHusks(m, b, n) == Delete(m, b)

(* assignment forgets the buffer it had *)
Release_Never(v, m) == m

-----------------------------------------------------------------------------
(* the elements of v go, and its buffer with them *)
Release(v, m) == IF vec[v].data = Null THEN m ELSE destroy(m, vec[v].data, vec[v].size)

DefaultCtor(v) == ~InScope(v) /\ Return(<<"construct", v, <<>>>>, mem, v, Empty)
Destructor(v) == InScope(v) /\ Return(<<"destroy", v>>, Release(v, mem), v, Absent)
clear(v) == InScope(v) /\ Return(<<"clear", v>>, Release(v, mem), v, Empty)

(* the first k elements of w in a new buffer, added to the memory m *)
Copied(w, m, k) == CopyRange(allocate(m, vec[w].capacity), Fresh(m), vec[w].data, k)
CopyStops(w) == IF Unguarded THEN 0 .. vec[w].size ELSE {vec[w].size}

CopyCtor(v, w) ==
  LET c == <<"copy", v, w>>
  IN /\ ~InScope(v) /\ InScope(w)
     /\ \/ Throw(c, mem, v, Absent)
        \/ \E k \in CopyStops(w) :
             IF k = vec[w].size THEN Return(c, Copied(w, mem, k), v, [vec[w] EXCEPT !.data = New])
             ELSE Throw(c, Copied(w, mem, k), v, Absent)

(* the vector is emptied before the copy is made: after an exception it    *)
(* has the other's size and capacity, and its own old buffer or the new    *)
(* one, filled in part                                                     *)
CopyAssign(v, w) ==
  LET c == <<"copy", v, w>>
      m == Release(v, mem)
      copied == [vec[w] EXCEPT !.data = Fresh(m)]
  IN /\ v # w /\ InScope(v) /\ InScope(w)
     /\ \/ Unguarded /\ Throw(c, m, v, [vec[w] EXCEPT !.data = vec[v].data])
        \/ \E k \in CopyStops(w) :
             IF k = vec[w].size THEN Return(c, Copied(w, m, k), v, copied)
             ELSE Throw(c, Copied(w, m, k), v, copied)

Take(v, w, m) ==
  /\ call' = <<"move", v, w>> /\ threw' = FALSE
  /\ vec' = [vec EXCEPT ![v] = vec[w], ![w] = Empty] /\ mem' = m

MoveCtor(v, w) == ~InScope(v) /\ InScope(w) /\ Take(v, w, mem)
MoveAssign(v, w) == v # w /\ InScope(v) /\ InScope(w) /\ Take(v, w, Release(v, mem))

-----------------------------------------------------------------------------
(* the husks the moves left are destroyed and their buffer deallocated *)
Retire(m, b, n) == destroy(m, b, n)

(* v's elements move to the new buffer of m, which has room for n; all of  *)
(* them, or the first k of them.                                           *)
Moves(c, v, m, n, size) ==
  LET self == vec[v]
  IN \/ Return(c, Retire(MoveRange(m, New, self.data, self.size), self.data, self.size), v,
               [data |-> New, size |-> size, capacity |-> n])
     \/ \E k \in Span(0, self.size) : Unguarded /\ Throw(c, MoveRange(m, New, self.data, k), v, self)

reserve(v, n) ==
  LET c == <<"reserve", v>>
  IN /\ InScope(v)
     /\ \/ n <= vec[v].capacity /\ Return(c, mem, v, vec[v])
        \/ /\ n > vec[v].capacity
           /\ Throw(c, mem, v, vec[v]) \/ Moves(c, v, allocate(mem, n), n, vec[v].size)

new_capacity(c) == IF c = 0 THEN 1 ELSE 2 * c

(* push_back and emplace_back into a full vector *)
PushGrowing(v, x) ==
  LET c == <<"push_back", v, x>>
      self == vec[v]
      room == new_capacity(self.capacity)
      roomier == allocate(mem, room)
  IN /\ InScope(v) /\ self.size = self.capacity /\ room <= MaxCapacity
     /\ \/ Throw(c, mem, v, self)
        \/ Unguarded /\ Throw(c, roomier, v, self)
        \/ Moves(c, v, Construct(roomier, New, self.size, x), room, self.size + 1)

(* with room to spare, size_ is counted up last *)
PushInPlace(v, x) ==
  LET c == <<"push_back", v, x>>
      self == vec[v]
  IN /\ InScope(v) /\ self.size < self.capacity
     /\ \/ Throw(c, mem, v, self)
        \/ Return(c, Construct(mem, self.data, self.size, x), v, [self EXCEPT !.size = @ + 1])

pop_back(v) ==
  LET c == <<"pop_back", v>>
      last == vec[v].size - 1
  IN /\ InScope(v)
     /\ IF vec[v].size = 0 THEN Throw(c, mem, v, vec[v])
        ELSE Return(c, destruct_range(mem, vec[v].data, last, last + 1), v, [vec[v] EXCEPT !.size = last])

Next ==
  \E v \in Vec :
    \/ DefaultCtor(v) \/ Destructor(v) \/ pop_back(v) \/ clear(v)
    \/ \E w \in Vec : CopyCtor(v, w) \/ CopyAssign(v, w) \/ MoveCtor(v, w) \/ MoveAssign(v, w)
    \/ \E n \in 0 .. MaxCapacity : reserve(v, n)
    \/ \E x \in Item : PushGrowing(v, x) \/ PushInPlace(v, x)

Spec == Init /\ [][Next]_vars

-----------------------------------------------------------------------------
(* tests.cpp:69, "catch leaks and double destruction", for vector2: the    *)
(* buffers belong to one vector each, and hold objects up to its size_.    *)
ElementsMatch == BelongsTo(mem, [v \in {u \in Vec : InScope(u)} |-> vec[v]])

(* the elements of v: what module ElementSequences calls its contents *)
Contents(v) ==
  IF ~InScope(v) THEN Absent
  ELSE [i \in 1 .. vec[v].size |-> mem.heap[vec[v].data][i - 1]]
=============================================================================

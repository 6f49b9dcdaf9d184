------------------------------- MODULE Vector -------------------------------
(***************************************************************************)
(* my_std::vector (stl/vector/vector.hpp): a buffer of raw storage whose   *)
(* first size_ slots hold objects.  A vector is used by one thread, so a   *)
(* call is one step, but any allocation, construction, copy or move in it  *)
(* may throw, and then the call undoes what it did.                        *)
(*                                                                         *)
(* transfer is what std::move_if_noexcept makes of the element type:       *)
(* "move" for one that moves without throwing, "copy" for one that may     *)
(* throw but can be copied, "throwing move" for one that cannot.           *)
(*                                                                         *)
(* mem is the memory of module RawStorage.  call and threw say what the    *)
(* last call was and how it ended; no call depends on them.                *)
(***************************************************************************)
EXTENDS RawStorage, Sequences

CONSTANTS
  Vec,             \* the variables of type vector<T>
  Item, Default,   \* the values of elements, and that of T{}
  Absent,          \* a variable out of scope
  MaxCapacity,     \* bound: no call may ask for more
  Unguarded        \* whether an operation may throw for which the code has no clean-up

VARIABLES
  vec,        \* data_, size_ and capacity_ of each variable, or Absent
  mem,
  transfer,
  call,       \* the last call and its arguments
  threw       \* whether it threw

vars == <<vec, mem, transfer, call, threw>>

Empty == [data |-> Null, size |-> 0, capacity |-> 0]

Init ==
  /\ vec = [v \in Vec |-> Absent]
  /\ mem = NoBuffers
  /\ transfer \in {"move", "copy", "throwing move"}
  /\ call = <<>> /\ threw = FALSE

-----------------------------------------------------------------------------
(* Slips a maintainer could make *)

(* a failed growth keeps the element it had constructed for *)
UndoEmplace_KeepsElement(m, b, i) == Delete(m, b)

(* elements are moved whether or not their move may throw *)
Transfer_Moves(m, dst, src, k) == MoveRange(m, dst, src, k)

-----------------------------------------------------------------------------
(* The numbers of elements after which the transfer of n may stop: at n it *)
(* is complete.                                                            *)
Stops(n) == IF transfer = "move" THEN {n} ELSE 0 .. n

Transfer(m, dst, src, k) ==
  IF transfer = "copy" THEN CopyRange(m, dst, src, k) ELSE MoveRange(m, dst, src, k)

(* move_elements: n elements from src to dst, the one after the kth throws *)
move_elements(m, dst, src, n, k) ==
  LET made == Transfer(m, dst, src, k)
  IN IF k = n THEN made ELSE destruct_range(made, dst, 0, k)

-----------------------------------------------------------------------------
InScope(v) == vec[v] # Absent

(* The call c ends with memory m and vector r in v. *)
End(c, m, v, r, t) ==
  /\ call' = c /\ threw' = t
  /\ mem' = m /\ vec' = [vec EXCEPT ![v] = r]
  /\ UNCHANGED transfer
Return(c, m, v, r) == End(c, m, v, r, FALSE)
Throw(c, m, v, r) == End(c, m, v, r, TRUE)

New == Fresh(mem)

DefaultCtor(v) == ~InScope(v) /\ Return(<<"construct", v, <<>>>>, mem, v, Empty)

(* A copy of w's elements in a new buffer with w's capacity; the copy of   *)
(* an element may throw, and so may the allocation (k = -1).               *)
CopyOf(w, k) == CopyRange(allocate(mem, vec[w].capacity), New, vec[w].data, k)
CopyStops(w) == -1 .. vec[w].size
Undone(w, k) == IF k = -1 THEN mem ELSE destroy(CopyOf(w, k), New, k)
Copied(w) == [vec[w] EXCEPT !.data = New]

CopyCtor(v, w) ==
  /\ ~InScope(v) /\ InScope(w) /\ transfer # "throwing move"
  /\ \E k \in CopyStops(w) :
       IF k = vec[w].size THEN Return(<<"copy", v, w>>, CopyOf(w, k), v, Copied(w))
       ELSE Throw(<<"copy", v, w>>, Undone(w, k), v, Absent)

CopyAssign(v, w) ==
  /\ v # w /\ InScope(v) /\ InScope(w) /\ transfer # "throwing move"
  /\ \E k \in CopyStops(w) :
       IF k = vec[w].size
       THEN Return(<<"copy", v, w>>, destroy(CopyOf(w, k), vec[v].data, vec[v].size), v, Copied(w))
       ELSE Throw(<<"copy", v, w>>, Undone(w, k), v, vec[v])

(* v takes w's buffer over, and m is the memory then *)
Take(v, w, m) ==
  /\ call' = <<"move", v, w>> /\ threw' = FALSE
  /\ vec' = [vec EXCEPT ![v] = vec[w], ![w] = Empty] /\ mem' = m
  /\ UNCHANGED transfer

MoveCtor(v, w) == ~InScope(v) /\ InScope(w) /\ Take(v, w, mem)

MoveAssign(v, w) ==
  /\ v # w /\ InScope(v) /\ InScope(w)
  /\ Take(v, w, destroy(mem, vec[v].data, vec[v].size))

Destructor(v) ==
  /\ InScope(v)
  /\ Return(<<"destroy", v>>, destroy(mem, vec[v].data, vec[v].size), v, Absent)

-----------------------------------------------------------------------------
(* v's elements in a new buffer with room for n, the transfer having       *)
(* stopped after k of them; and the vector that has them all.              *)
Relocated(v, n, k) ==
  LET m == move_elements(allocate(mem, n), New, vec[v].data, vec[v].size, k)
  IN IF k < vec[v].size THEN Delete(m, New) ELSE destroy(m, vec[v].data, vec[v].size)
Roomier(v, n) == [vec[v] EXCEPT !.data = New, !.capacity = n]

reserve(v, n) ==
  LET c == <<"reserve", v>>
  IN /\ InScope(v)
     /\ \/ n <= vec[v].capacity /\ Return(c, mem, v, vec[v])
        \/ /\ n > vec[v].capacity
           /\ \/ Throw(c, mem, v, vec[v])
              \/ \E k \in Stops(vec[v].size) :
                   IF k = vec[v].size THEN Return(c, Relocated(v, n, k), v, Roomier(v, n))
                   ELSE Throw(c, Relocated(v, n, k), v, vec[v])

new_capacity(c) == IF c = 0 THEN 1 ELSE 2 * c

(* the new element goes again, and the new buffer with it *)
UndoEmplace(m, b, i) == Delete(destruct_range(m, b, i, i + 1), b)

(* emplace_back and push_back into a full vector: the new element is       *)
(* constructed before the others move                                      *)
EmplaceGrowing(v, x) ==
  LET c == <<"push_back", v, x>>
      self == vec[v]
      room == new_capacity(self.capacity)
      made == Construct(allocate(mem, room), New, self.size, x)
      after(k) == move_elements(made, New, self.data, self.size, k)
  IN /\ InScope(v) /\ self.size = self.capacity /\ room <= MaxCapacity
     /\ \/ Throw(c, mem, v, self)
        \/ \E k \in Stops(self.size) :
             IF k = self.size
             THEN Return(c, destroy(after(k), self.data, self.size), v,
                         [data |-> New, size |-> self.size + 1, capacity |-> room])
             ELSE Throw(c, UndoEmplace(after(k), New, self.size), v, self)

(* emplace_back with room to spare: size_ is counted up first *)
EmplaceInPlace(v, x) ==
  LET c == <<"push_back", v, x>>
      counted == [vec[v] EXCEPT !.size = @ + 1]
  IN /\ InScope(v) /\ vec[v].size < vec[v].capacity
     /\ \/ Return(c, Construct(mem, vec[v].data, vec[v].size, x), v, counted)
        \/ Unguarded /\ Throw(c, mem, v, counted)

pop_back(v) ==
  /\ InScope(v)
  /\ IF vec[v].size = 0 THEN Throw(<<"pop_back", v>>, mem, v, vec[v])
     ELSE Return(<<"pop_back", v>>, destruct_range(mem, vec[v].data, vec[v].size - 1, vec[v].size),
                 v, [vec[v] EXCEPT !.size = @ - 1])

clear(v) ==
  /\ InScope(v)
  /\ Return(<<"clear", v>>, destruct_range(mem, vec[v].data, 0, vec[v].size),
            v, [vec[v] EXCEPT !.size = 0])

Shrink(v, n) ==
  /\ InScope(v) /\ n <= vec[v].size
  /\ Return(<<"resize", v, n>>, destruct_range(mem, vec[v].data, n, vec[v].size),
            v, [vec[v] EXCEPT !.size = n])

(* the first doubling of the capacity that has room for n *)
RoomFor(n, c) ==
  LET doubled[i \in 0 .. MaxCapacity] ==
        IF i = 0 THEN IF c = 0 THEN 1 ELSE c ELSE 2 * doubled[i - 1]
      enough == CHOOSE i \in 0 .. MaxCapacity : doubled[i] >= n /\ \A j \in 0 .. i - 1 : doubled[j] < n
  IN IF n <= c THEN c ELSE doubled[enough]

(* resize upwards: grow if need be, then construct default elements, the   *)
(* one after the jth of which throws; the new room is kept.                *)
Enlarge(v, n) ==
  LET c == <<"resize", v, n>>
      self == vec[v]
      room == RoomFor(n, self.capacity)
      grows == room > self.capacity
      grown == IF grows THEN Roomier(v, room) ELSE self
      m(k) == IF grows THEN Relocated(v, room, k) ELSE mem
      filled(j) == ConstructRange(m(self.size), grown.data, self.size, self.size + j,
                                  [i \in Span(self.size, n) |-> Default])
  IN /\ InScope(v) /\ n > self.size /\ room <= MaxCapacity
     /\ \/ grows /\ Throw(c, mem, v, self)
        \/ \E k \in Stops(self.size) \ {self.size} : grows /\ Throw(c, m(k), v, self)
        \/ \E j \in 0 .. n - self.size :
             IF j = n - self.size THEN Return(c, filled(j), v, [grown EXCEPT !.size = n])
             ELSE Throw(c, destruct_range(filled(j), grown.data, self.size, self.size + j), v, grown)

Next ==
  \E v \in Vec :
    \/ DefaultCtor(v) \/ Destructor(v) \/ pop_back(v) \/ clear(v)
    \/ \E w \in Vec : CopyCtor(v, w) \/ CopyAssign(v, w) \/ MoveCtor(v, w) \/ MoveAssign(v, w)
    \/ \E n \in 0 .. MaxCapacity : reserve(v, n) \/ Shrink(v, n) \/ Enlarge(v, n)
    \/ \E x \in Item : EmplaceGrowing(v, x) \/ EmplaceInPlace(v, x)

Spec == Init /\ [][Next]_vars

-----------------------------------------------------------------------------
(* tests.cpp:69, "catch leaks and double destruction": whatever threw, the *)
(* buffers there are belong to one vector each, their first size_ slots    *)
(* hold objects and the others do not, and no object was ever constructed  *)
(* over another, destroyed twice or given back with its buffer.            *)
ElementsMatch == BelongsTo(mem, [v \in {u \in Vec : InScope(u)} |-> vec[v]])

(* the elements of v: what module ElementSequences calls its contents *)
Contents(v) ==
  IF ~InScope(v) THEN Absent
  ELSE [i \in 1 .. vec[v].size |-> mem.heap[vec[v].data][i - 1]]
=============================================================================

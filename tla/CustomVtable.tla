---------------------------- MODULE CustomVtable ----------------------------
(***************************************************************************)
(* my_std::Shape (misc/type_erasure/custom_vtable.hpp): a value of any     *)
(* type on the heap, and the table of functions of that type.  A shape is  *)
(* used by one thread; operator new or copying the value may throw.  Each  *)
(* value stands for a type of its own.                                     *)
(*                                                                         *)
(* Unlike the shapes of module Shape, one that was moved from may only be  *)
(* assigned to, moved from or destroyed: clone would copy from nullptr.    *)
(***************************************************************************)
EXTENDS Heap

CONSTANTS
  Vec,             \* the variables of type Shape
  Item,            \* the values
  Null,            \* nullptr
  Absent           \* a variable out of scope

VARIABLES
  shape,           \* vt_ and ptr_ of each variable, or Absent
  mem,             \* the values on the heap
  call, threw      \* the last call and its arguments, and whether it threw

vars == <<shape, mem, call, threw>>

Init ==
  /\ shape = [v \in Vec |-> Absent]
  /\ mem = [heap |-> [a \in {} |-> Null], sound |-> TRUE]
  /\ call = <<>> /\ threw = FALSE

InScope(v) == shape[v] # Absent
HasValue(v) == InScope(v) /\ shape[v].ptr # Null

(* Slip: the old value is destroyed by the table that came with the new *)
OldTable_New(v, w) == shape[w].vt

-----------------------------------------------------------------------------
New == NewAddress(mem.heap)

(* what new makes of a value x, and the shape that has it *)
Made(x) == [mem EXCEPT !.heap = With(@, New, x)]
Holding(x) == [vt |-> x, ptr |-> New]

(* destroy of the table vt: delete, which nullptr is nothing to *)
destroy(m, vt, a) ==
  IF a = Null THEN m
  ELSE [heap  |-> Without(m.heap, {a}),
        sound |-> m.sound /\ a \in DOMAIN m.heap /\ m.heap[a] = vt]

OldTable(v, w) == shape[v].vt

End(c, m, s, t) == call' = c /\ threw' = t /\ mem' = m /\ shape' = s
Return(c, m, s) == End(c, m, s, FALSE)
Throw(c) == End(c, mem, shape, TRUE)

Ctor(v, x) ==
  LET c == <<"construct", v, <<x>>>>
  IN ~InScope(v) /\ (Throw(c) \/ Return(c, Made(x), [shape EXCEPT ![v] = Holding(x)]))

CopyCtor(v, w) ==
  LET c == <<"copy", v, w>>
      x == shape[w].vt
  IN ~InScope(v) /\ HasValue(w) /\ (Throw(c) \/ Return(c, Made(x), [shape EXCEPT ![v] = Holding(x)]))

(* the copy is made before the old value goes *)
CopyAssign(v, w) ==
  LET c == <<"copy", v, w>>
      x == shape[w].vt
  IN /\ v # w /\ InScope(v) /\ HasValue(w)
     /\ \/ Throw(c)
        \/ Return(c, destroy(Made(x), shape[v].vt, shape[v].ptr), [shape EXCEPT ![v] = Holding(x)])

Taken(v, w) == [shape EXCEPT ![v] = shape[w], ![w].ptr = Null]

MoveCtor(v, w) ==
  ~InScope(v) /\ InScope(w) /\ Return(<<"move", v, w>>, mem, Taken(v, w))
MoveAssign(v, w) ==
  /\ v # w /\ InScope(v) /\ InScope(w)
  /\ Return(<<"move", v, w>>, destroy(mem, OldTable(v, w), shape[v].ptr), Taken(v, w))

Destructor(v) ==
  /\ InScope(v)
  /\ Return(<<"destroy", v>>, destroy(mem, shape[v].vt, shape[v].ptr), [shape EXCEPT ![v] = Absent])

Next ==
  \E v \in Vec :
    \/ Destructor(v)
    \/ \E x \in Item : Ctor(v, x)
    \/ \E w \in Vec : CopyCtor(v, w) \/ CopyAssign(v, w) \/ MoveCtor(v, w) \/ MoveAssign(v, w)

Spec == Init /\ [][Next]_vars

-----------------------------------------------------------------------------
(* Every value belongs to the one shape that leads to it, with the table   *)
(* of its type; none was destroyed twice, by another type's table, or      *)
(* left behind.                                                            *)
OneValueEach ==
  LET holders == {v \in Vec : HasValue(v)}
  IN /\ mem.sound
     /\ DOMAIN mem.heap = {shape[v].ptr : v \in holders}
     /\ \A v, w \in holders : shape[v].ptr = shape[w].ptr => v = w
     /\ \A v \in holders : mem.heap[shape[v].ptr] = shape[v].vt

(* the value of v: what module ElementSequences calls its contents *)
Contents(v) ==
  IF ~InScope(v) THEN Absent ELSE IF HasValue(v) THEN <<mem.heap[shape[v].ptr]>> ELSE <<>>
=============================================================================

------------------------------- MODULE Shape -------------------------------
(***************************************************************************)
(* Shape (misc/type_erasure/type_erasure.hpp): a value of any type, in     *)
(* buf if the type fits there and can be moved without throwing, on the    *)
(* heap if not.  A shape is used by one thread; copying the object or      *)
(* operator new may throw.  Each value stands for a type of its own, so    *)
(* that vt_ and the object must go together.                               *)
(***************************************************************************)
EXTENDS Heap

CONSTANTS
  Vec,             \* the variables of type Shape
  Item, Fitting,   \* the values; those of types that fit into buf
  Raw, Null,       \* a buf without an object; nullptr
  Buf,             \* obj_ = buf
  Absent           \* a variable out of scope

VARIABLES
  shape,           \* obj_, vt_ and buf of each variable, or Absent
  mem,             \* the objects on the heap
  call, threw      \* the last call and its arguments, and whether it threw

vars == <<shape, mem, call, threw>>

Init ==
  /\ shape = [v \in Vec |-> Absent]
  /\ mem = [heap |-> [a \in {} |-> Null], sound |-> TRUE]
  /\ call = <<>> /\ threw = FALSE

InScope(v) == shape[v] # Absent

-----------------------------------------------------------------------------
(* Slips a maintainer could make *)

(* assignment takes the other's vtable before the old object goes *)
OldTable_Early(v, w) == shape[w].vt

(* what was moved from keeps its object *)
Emptied_Never(s) == s

-----------------------------------------------------------------------------
(* A place is a memory and a shape in it.  What the functions of the table *)
(* of x do there: make an object in s, destroy that of s, move that of s.  *)
New(m) == NewAddress(m.heap)

place_fn(m, s, x) ==
  IF x \in Fitting
  THEN [mem |-> [m EXCEPT !.sound = @ /\ s.buf = Raw], shape |-> [obj |-> Buf, vt |-> x, buf |-> x]]
  ELSE [mem |-> [m EXCEPT !.heap = With(@, New(m), x)], shape |-> [s EXCEPT !.obj = New(m), !.vt = x]]

destroy_fn(m, s, vt) ==
  IF s.obj = Null THEN [mem |-> m, shape |-> s]
  ELSE IF vt \in Fitting
  THEN [mem |-> [m EXCEPT !.sound = @ /\ s.obj = Buf], shape |-> [s EXCEPT !.obj = Null, !.buf = Raw]]
  ELSE [mem |-> [heap  |-> Without(m.heap, {s.obj}),
                 sound |-> m.sound /\ s.obj \in DOMAIN m.heap],
        shape |-> [s EXCEPT !.obj = Null]]

Emptied(s) == [s EXCEPT !.obj = Null, !.buf = Raw]

NoObject(vt) == [obj |-> Null, vt |-> vt, buf |-> Raw]
OldTable(v, w) == shape[v].vt

End(c, v, p, t) ==
  /\ call' = c /\ threw' = t
  /\ mem' = p.mem /\ shape' = [shape EXCEPT ![v] = p.shape]
Return(c, v, p) == End(c, v, p, FALSE)
Throw(c, v) == End(c, v, [mem |-> mem, shape |-> shape[v]], TRUE)

Ctor(v, x) ==
  LET c == <<"construct", v, <<x>>>>
  IN ~InScope(v) /\ (Throw(c, v) \/ Return(c, v, place_fn(mem, NoObject(x), x)))

(* v, freed of its object, gets a copy of w's: one that fits is made in    *)
(* tmp_buf and moved from there, another is made on the heap first.        *)
Cloned(c, v, w, p) ==
  LET vt == shape[w].vt
  IN IF shape[w].obj = Null THEN Return(c, v, [p EXCEPT !.shape.vt = vt])
     ELSE Throw(c, v) \/ Return(c, v, place_fn(p.mem, p.shape, vt))

CopyCtor(v, w) ==
  /\ ~InScope(v) /\ InScope(w)
  /\ Cloned(<<"copy", v, w>>, v, w, [mem |-> mem, shape |-> NoObject(shape[w].vt)])

CopyAssign(v, w) ==
  /\ v # w /\ InScope(v) /\ InScope(w)
  /\ Cloned(<<"copy", v, w>>, v, w, destroy_fn(mem, shape[v], OldTable(v, w)))

(* v, freed of its object, takes w's *)
Take(v, w, p) ==
  /\ call' = <<"move", v, w>> /\ threw' = FALSE
  /\ mem' = [p.mem EXCEPT !.sound = @ /\ (shape[w].obj = Buf => p.shape.buf = Raw)]
  /\ shape' = [shape EXCEPT ![v] = shape[w], ![w] = Emptied(@)]

MoveCtor(v, w) ==
  ~InScope(v) /\ InScope(w) /\ Take(v, w, [mem |-> mem, shape |-> NoObject(shape[w].vt)])
MoveAssign(v, w) ==
  v # w /\ InScope(v) /\ InScope(w) /\ Take(v, w, destroy_fn(mem, shape[v], OldTable(v, w)))

Destructor(v) ==
  /\ InScope(v)
  /\ Return(<<"destroy", v>>, v, [mem |-> destroy_fn(mem, shape[v], shape[v].vt).mem, shape |-> Absent])

Next ==
  \E v \in Vec :
    \/ Destructor(v)
    \/ \E x \in Item : Ctor(v, x)
    \/ \E w \in Vec : CopyCtor(v, w) \/ CopyAssign(v, w) \/ MoveCtor(v, w) \/ MoveAssign(v, w)

Spec == Init /\ [][Next]_vars

-----------------------------------------------------------------------------
(* Every object belongs to the one shape that leads to it, with the vtable *)
(* of its type; none was destroyed twice, overwritten or left behind.      *)
OneObjectEach ==
  LET scope == {v \in Vec : InScope(v)}
      heaped == {v \in scope : shape[v].obj \notin {Null, Buf}}
  IN /\ mem.sound
     /\ DOMAIN mem.heap = {shape[v].obj : v \in heaped}
     /\ \A v, w \in heaped : shape[v].obj = shape[w].obj => v = w
     /\ \A v \in heaped : mem.heap[shape[v].obj] = shape[v].vt
     /\ \A v \in scope : shape[v].buf = IF shape[v].obj = Buf THEN shape[v].vt ELSE Raw

(* the object of v: what module ElementSequences calls its contents *)
Contents(v) ==
  IF ~InScope(v) THEN Absent
  ELSE IF shape[v].obj = Null THEN <<>>
  ELSE IF shape[v].obj = Buf THEN <<shape[v].buf>> ELSE <<mem.heap[shape[v].obj]>>
=============================================================================

----------------------------- MODULE UniquePtr -----------------------------
(***************************************************************************)
(* my_std::unique_ptr (smart_pointers/unique_ptr.hpp) with the default     *)
(* deleter.  The objects have a member unique_ptr of their own, and a      *)
(* destructor that may use any unique_ptr before that member goes: an      *)
(* operation on one pointer may happen in the middle of another.           *)
(*                                                                         *)
(* ptr maps each unique_ptr there is to its object: the variables in       *)
(* scope, and for each object its member, which goes by the object's       *)
(* address.  dying is the stack of the objects that are being deleted,     *)
(* each with the part of its destructor that runs.                         *)
(***************************************************************************)
EXTENDS Integers, Sequences, Heap

CONSTANTS
  Vec,          \* the variables of type unique_ptr
  Null,         \* nullptr
  MaxObjects    \* bound: the objects there is memory for

VARIABLES ptr, dying

vars == <<ptr, dying>>

Objects == DOMAIN ptr \ Vec

Init == ptr = [p \in {} |-> Null] /\ dying = <<>>

-----------------------------------------------------------------------------
(* Slips a maintainer could make *)

(* while the old object is deleted, the pointer still leads to it *)
AfterReset_Late(p, new) == ptr

(* while the old object is deleted, the other still has its own *)
Released_Late(q) == ptr

-----------------------------------------------------------------------------
(* deleter_(a): a begins to go, if there is one *)
Delete(a) == IF a = Null THEN dying ELSE <<[object |-> a, part |-> "body"]>> \o dying

Running == IF dying = <<>> THEN "client" ELSE Head(dying).part

(* The client, or the body of a destructor, may use any unique_ptr but the *)
(* member of an object whose destructor's body is done.                    *)
Usable == DOMAIN ptr \ {dying[i].object : i \in {j \in DOMAIN dying : dying[j].part = "members"}}
MayCall == Running \in {"client", "body"}

(* what hangs from a pointer: its object, the object of that one's member... *)
Chain(p) ==
  LET after[n \in 0 .. MaxObjects + 1] ==
        IF n = 0 THEN p ELSE IF after[n - 1] \in DOMAIN ptr THEN ptr[after[n - 1]] ELSE Null
  IN {after[n] : n \in 1 .. MaxObjects + 1} \ {Null}

AfterReset(p, new) == [ptr EXCEPT ![p] = new]
Released(q) == [ptr EXCEPT ![q] = Null]

NewObjects == IF Cardinality(Objects) < MaxObjects THEN {CHOOSE a \in 1 .. MaxObjects : a \notin Objects} ELSE {}

(* a null one, or one for a new object *)
Ctor(v) ==
  /\ MayCall /\ v \in Vec \ DOMAIN ptr /\ UNCHANGED dying
  /\ \/ ptr' = With(ptr, v, Null)
     \/ \E a \in NewObjects : ptr' = With(With(ptr, a, Null), v, a)

MoveCtor(v, q) ==
  /\ MayCall /\ v \in Vec \ DOMAIN ptr /\ q \in Usable /\ UNCHANGED dying
  /\ ptr' = With(Released(q), v, ptr[q])

Destructor(v) ==
  /\ MayCall /\ v \in Vec \cap DOMAIN ptr
  /\ dying' = Delete(ptr[v]) /\ ptr' = Without(ptr, {v})

(* reset, to nullptr or to a new object *)
reset(p) ==
  /\ MayCall /\ p \in Usable
  /\ dying' = Delete(ptr[p])
  /\ \/ ptr' = AfterReset(p, Null)
     \/ \E a \in NewObjects : ptr' = With(AfterReset(p, a), a, Null)

(* Move assignment: the other is released, then p is reset to what it had. *)
(* A client does not hang an object below itself.                          *)
MoveAssign(p, q) ==
  /\ MayCall /\ p # q /\ p \in Usable /\ q \in Usable /\ p \notin Chain(q)
  /\ dying' = Delete(ptr[p])
  /\ ptr' = [Released(q) EXCEPT ![p] = ptr[q]]

(* the body is done, the destructor of the member runs *)
EndBody ==
  /\ Running = "body"
  /\ dying' = IF ptr[Head(dying).object] = Null THEN [dying EXCEPT ![1].part = "members"]
              ELSE <<[object |-> ptr[Head(dying).object], part |-> "body"]>>
                   \o [dying EXCEPT ![1].part = "members"]
  /\ UNCHANGED ptr

EndDelete ==
  /\ Running = "members"
  /\ ptr' = Without(ptr, {Head(dying).object}) /\ dying' = Tail(dying)

Next ==
  \/ EndBody \/ EndDelete
  \/ \E v \in Vec : Ctor(v) \/ Destructor(v) \/ \E q \in DOMAIN ptr : MoveCtor(v, q)
  \/ \E p \in DOMAIN ptr : reset(p) \/ \E q \in DOMAIN ptr : MoveAssign(p, q)

Spec == Init /\ [][Next]_vars

-----------------------------------------------------------------------------
(* Every object is owned by one unique_ptr or is being deleted, never both *)
(* and never twice, and no unique_ptr leads to an object that is gone: at  *)
(* every call a destructor makes, not only when all is done.               *)
OneOwner ==
  /\ \A a \in Objects :
       Cardinality({p \in Usable : ptr[p] = a})
         + Cardinality({i \in DOMAIN dying : dying[i].object = a}) = 1
  /\ \A p \in Usable : ptr[p] \in Objects \cup {Null}
  /\ \A i \in DOMAIN dying : dying[i].object \in Objects
=============================================================================

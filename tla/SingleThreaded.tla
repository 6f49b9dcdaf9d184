--------------------------- MODULE SingleThreaded ---------------------------
(***************************************************************************)
(* The classes that one thread uses at a time, as tests.cpp does: one of   *)
(* them, the subject, chosen at the start, and then any of its calls.      *)
(* Each has its state in the same variables:                               *)
(*                                                                         *)
(*   obj   its objects      mem   what they have allocated                 *)
(*   aux   what else there is: the element type of a vector, the deletions *)
(*         under way, the client's blocks, the emits under way             *)
(*                                                                         *)
(* The containers' calls are steps of module ElementSequences: did and     *)
(* threw say what the last call was and how it ended.                      *)
(***************************************************************************)
EXTENDS Integers, Sequences, TLC

CONSTANTS
  Vec,                 \* the variables of the subject's type
  Item, Default,       \* values, and that of T{}
  Moved, Raw, Null, Buf, Lost, Data, Absent,
  MaxCapacity,         \* bound: capacities, lengths and nodes
  InlineSize,          \* of a string
  Blocks,              \* of a pool
  Capacity, Bases, Alignments,   \* of an arena
  MaxObjects,          \* bound: the objects of unique_ptrs
  MaxObservers, MaxEmits,        \* bounds: callbacks, and emits within one another
  Unguarded            \* whether calls without a clean-up may throw

VARIABLES subject, obj, mem, aux, did, threw

vars == <<subject, obj, mem, aux, did, threw>>

(* one value is that of T{}, which fits into the buffer of a shape; and    *)
(* the names of what is not there are none of the things that are          *)
ASSUME SingleThreadedAssumption ==
  /\ Default \in Item /\ Unguarded \in BOOLEAN
  /\ MaxCapacity \in Nat \ {0} /\ Blocks \in Nat \ {0} /\ Capacity \in Nat
  /\ Bases \subseteq Nat /\ Alignments \subseteq Nat \ {0}
  /\ MaxObjects \in Nat /\ \A v \in Vec : v \notin Nat
  /\ Null \notin Nat /\ Data \notin Nat \cup {Null} /\ Buf \notin Nat \cup {Null}
  /\ Raw \notin Item \cup {Moved} /\ InlineSize \in Nat \ {0, 1}
  /\ Absent \notin [pool : Nat \cup {Null}, free : Nat \cup {Null}]
  /\ Absent \notin [vt : Item, ptr : Nat \cup {Null}]
  /\ Absent \notin [size : Nat, ptr : Nat \cup {Null}, capacity : Nat \cup {Lost}, buffer : Seq(Item) \cup {Lost}]
  /\ Absent \notin [data : Nat \cup {Null}, size : Nat, capacity : Nat]
  /\ Absent \notin [sentinel : Nat \cup {Null}, size : Nat]
  /\ Absent \notin [obj : Nat \cup {Null, Buf}, vt : Item, buf : Item \cup {Raw}]

Literals == {<<>>, <<Default>>} \cup [1 .. 3 -> Item]

V == INSTANCE Vector WITH call <- did, vec <- obj, transfer <- aux
V2 == INSTANCE Vector2 WITH call <- did, vec <- obj
L == INSTANCE List WITH call <- did, list <- obj, MaxNodes <- MaxCapacity + 1
S == INSTANCE BasicString WITH call <- did, str <- obj, Text <- Literals, MaxLen <- MaxCapacity
E == INSTANCE Shape WITH call <- did, shape <- obj, Fitting <- {Default}
C == INSTANCE CustomVtable WITH call <- did, shape <- obj
U == INSTANCE UniquePtr WITH ptr <- obj, dying <- aux
P == INSTANCE PoolAllocator WITH alloc <- obj
A == INSTANCE Arena WITH arena <- obj, blocks <- aux
M == INSTANCE EventManager WITH observers <- obj, emits <- aux, ran <- mem, Event <- Vec

NoCall == did = <<>> /\ threw = FALSE
NoMem == mem = <<>>
NoAux == aux = <<>>

Init ==
  \/ subject = "vector" /\ V!Init
  \/ subject = "vector2" /\ V2!Init /\ NoAux
  \/ subject = "list" /\ L!Init /\ NoAux
  \/ subject = "string" /\ S!Init /\ NoAux
  \/ subject = "shape" /\ E!Init /\ NoAux
  \/ subject = "custom_vtable" /\ C!Init /\ NoAux
  \/ subject = "unique_ptr" /\ U!Init /\ NoMem /\ NoCall
  \/ subject = "pool" /\ P!Init /\ NoAux /\ NoCall
  \/ subject = "arena" /\ A!Init /\ NoMem /\ NoCall
  \/ subject = "event_manager" /\ M!Init /\ NoCall

Next ==
  /\ UNCHANGED subject
  /\ \/ subject = "vector" /\ V!Next
     \/ subject = "vector2" /\ V2!Next /\ UNCHANGED aux
     \/ subject = "list" /\ L!Next /\ UNCHANGED aux
     \/ subject = "string" /\ S!Next /\ UNCHANGED aux
     \/ subject = "shape" /\ E!Next /\ UNCHANGED aux
     \/ subject = "custom_vtable" /\ C!Next /\ UNCHANGED aux
     \/ subject = "unique_ptr" /\ U!Next /\ UNCHANGED <<mem, did, threw>>
     \/ subject = "pool" /\ P!Next /\ UNCHANGED <<aux, did, threw>>
     \/ subject = "arena" /\ A!Next /\ UNCHANGED <<mem, did, threw>>
     \/ subject = "event_manager" /\ M!Next /\ UNCHANGED <<did, threw>>

Spec == Init /\ [][Next]_vars

Symmetry == Permutations(Vec)
(* no call depends on the one before it *)
View == <<subject, obj, mem, aux>>

-----------------------------------------------------------------------------
(* What tests.cpp:69 calls "catch leaks and double destruction", for each  *)
(* class after every call, thrown or not: all that is allocated has one    *)
(* owner, and the owners' fields describe what is there.                   *)
StorageOwned ==
  CASE subject = "vector" -> V!ElementsMatch
    [] subject = "vector2" -> V2!ElementsMatch
    [] subject = "list" -> L!LinksWellFormed
    [] subject = "string" -> S!OneRepresentation
    [] subject = "shape" -> E!OneObjectEach
    [] subject = "custom_vtable" -> C!OneValueEach
    [] subject = "unique_ptr" -> U!OneOwner
    [] OTHER -> TRUE

(* No block of a pool or an arena is handed out while it overlaps one that *)
(* the client has, and none is lost (pool_allocator.hpp:68, arena_allocator.hpp:26). *)
BlocksAccounted ==
  CASE subject = "pool" -> P!BlocksAccounted
    [] subject = "arena" -> A!BlocksDisjoint
    [] OTHER -> TRUE

(* A call of emit runs the callbacks that were registered when it began,   *)
(* once each and in order, whatever these call (event_manager.hpp:27).     *)
EmitsRegistered == subject = "event_manager" => M!EmitsRegistered

(* The containers do what a sequence of elements would: each call changes  *)
(* the elements as it says, or throws and changes none; in a vector of     *)
(* elements whose move throws and that cannot be copied, some may be moved *)
(* from then.                                                              *)
Abstract == INSTANCE ElementSequences WITH
  call <- did,
  contents <- [v \in Vec |-> CASE subject = "vector" -> V!Contents(v)
                               [] subject = "vector2" -> V2!Contents(v)
                               [] subject = "list" -> L!Contents(v)
                               [] subject = "string" -> S!Contents(v)
                               [] subject = "shape" -> E!Contents(v)
                               [] subject = "custom_vtable" -> C!Contents(v)
                               [] OTHER -> Absent],
  fragile <- subject = "vector" /\ aux = "throwing move",
  Text <- Literals \cup {<<x>> : x \in Item},
  MaxLen <- MaxCapacity + 1
ImplementsElementSequences == Abstract!Spec
=============================================================================

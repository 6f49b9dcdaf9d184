---------------------------- MODULE SpscQueueV2 ----------------------------
(***************************************************************************)
(* my_std::spsc_queue_v2 (concurrency/spsc_queue_v2.hpp): a ring of N + 1  *)
(* slots of raw storage.  The producer constructs an object in a slot and  *)
(* publishes it by storing head_; the consumer moves the object out,       *)
(* destroys it and gives the slot back by storing tail_.  The destructor   *)
(* destroys what was never popped.                                         *)
(*                                                                         *)
(* Memory orders and slot accesses are modelled as in SpscQueue.           *)
(***************************************************************************)
EXTENDS Naturals, Sequences, ReleaseAcquire

CONSTANTS
  N,         \* the capacity, template parameter N
  Item,      \* the values pushed
  Raw,       \* storage without an object
  MaxPush    \* bound: the number of objects try_emplace constructs

ASSUME QueueAssumption ==
  /\ N \in Nat \ {0}
  /\ Raw \notin Item
  /\ MaxPush \in Nat

VARIABLES
  slot,          \* buffer_: object, and its construction and destruction, by number
  head_, tail_,  \* the atomic indices, as cells
  constructed,   \* objects the producer has constructed
  destroyed,     \* objects the consumer has destroyed
  producer,      \* producer's pc and the argument of its call
  consumer,      \* consumer's pc and the result of its call
  alive,         \* the queue has not been destroyed
  sent,          \* history: the items whose try_emplace returned true, in order
  delivered      \* history: the items pop returned, in order

history == <<sent, delivered>>
vars == <<slot, head_, tail_, constructed, destroyed, producer, consumer, alive, history>>

Slots == N + 1

Index == 0 .. N

Init ==
  /\ slot = [i \in Index |-> [object |-> Raw, write |-> 0, take |-> 0]]
  /\ head_ = Cell(0) /\ tail_ = Cell(0)
  /\ constructed = 0 /\ destroyed = 0
  /\ producer = [pc |-> "idle", arg |-> Raw]
  /\ consumer = [pc |-> "idle", res |-> Raw]
  /\ alive = TRUE
  /\ sent = <<>> /\ delivered = <<>>

-----------------------------------------------------------------------------
(* Slips a maintainer could make: each replaces the operator it is named   *)
(* after, and breaks the property PROJECT.json pairs it with.              *)

(* the ring is used to its last slot *)
Full_NoSpareSlot(new_head, t) == FALSE

(* tail_ is loaded with memory_order_relaxed in try_emplace *)
LoadTail_Relaxed(i) == tail_' = RelaxedLoad(tail_, i)

(* pop does not destroy the object it moved from *)
Destroyed_Not(object) == object

(* the destructor stops one object early *)
Inside_AllButOne(t, h) ==
  {(t + k) % Slots : k \in 1 .. ((h + Slots - t) % Slots) - 1}

-----------------------------------------------------------------------------
NextIndex(i) == (i + 1) % Slots

(* try_push and try_emplace *)

Full(new_head, t) == new_head = t

LoadTail(i) == tail_' = AcquireLoad(tail_, i)

StoreHead(new_head) == head_' = ReleaseStore(head_, new_head, constructed)

TryEmplace ==
  /\ alive /\ producer.pc = "idle"
  /\ constructed < MaxPush
  /\ \E v \in Item : producer' = [pc |-> "load", arg |-> v]
  /\ UNCHANGED <<slot, head_, tail_, constructed, destroyed, consumer, alive, history>>

EmplaceLoad ==
  /\ producer.pc = "load"
  /\ \E i \in Readable(tail_) :
       /\ LoadTail(i)
       /\ producer' = [producer EXCEPT !.pc =
            IF Full(NextIndex(OwnValue(head_)), ValueAt(tail_, i)) THEN "idle" ELSE "construct"]
  /\ UNCHANGED <<slot, head_, constructed, destroyed, consumer, alive, history>>

EmplaceConstruct ==
  /\ producer.pc = "construct"
  /\ constructed' = constructed + 1
  /\ slot' = [slot EXCEPT ![OwnValue(head_)].object = producer.arg,
                          ![OwnValue(head_)].write = constructed']
  /\ producer' = [producer EXCEPT !.pc = "store"]
  /\ UNCHANGED <<head_, tail_, destroyed, consumer, alive, history>>

(* the constructor of T throws: no object, and head_ is not stored *)
EmplaceThrows ==
  /\ producer.pc = "construct"
  /\ producer' = [producer EXCEPT !.pc = "idle"]
  /\ UNCHANGED <<slot, head_, tail_, constructed, destroyed, consumer, alive, history>>

EmplaceStore ==
  /\ producer.pc = "store"
  /\ StoreHead(NextIndex(OwnValue(head_)))
  /\ sent' = Append(sent, producer.arg)
  /\ producer' = [producer EXCEPT !.pc = "idle"]
  /\ UNCHANGED <<slot, tail_, constructed, destroyed, consumer, alive, delivered>>

-----------------------------------------------------------------------------
(* pop *)

Empty(h, t) == h = t

LoadHead(i) == head_' = AcquireLoad(head_, i)

StoreTail(new_tail) == tail_' = ReleaseStore(tail_, new_tail, destroyed)

(* what the destructor of T leaves of an object *)
Destroyed(object) == Raw

Pop ==
  /\ alive /\ consumer.pc = "idle"
  /\ consumer' = [consumer EXCEPT !.pc = "load"]
  /\ UNCHANGED <<slot, head_, tail_, constructed, destroyed, producer, alive, history>>

PopLoad(i) ==
  /\ consumer.pc = "load"
  /\ i \in Readable(head_)
  /\ LoadHead(i)
  /\ consumer' = [consumer EXCEPT !.pc =
       IF Empty(ValueAt(head_, i), OwnValue(tail_)) THEN "idle" ELSE "take"]
  /\ UNCHANGED <<slot, tail_, constructed, destroyed, producer, alive, history>>

(* the object is moved into the result and destroyed *)
PopTake ==
  /\ consumer.pc = "take"
  /\ destroyed' = destroyed + 1
  /\ consumer' = [pc |-> "store", res |-> slot[OwnValue(tail_)].object]
  /\ slot' = [slot EXCEPT ![OwnValue(tail_)].object = Destroyed(@),
                          ![OwnValue(tail_)].take = destroyed']
  /\ UNCHANGED <<head_, tail_, constructed, producer, alive, history>>

(* constructing the result throws, and leaves the object as it was: it     *)
(* stays in the queue, to be popped again                                  *)
PopThrows ==
  /\ consumer.pc = "take"
  /\ consumer' = [consumer EXCEPT !.pc = "idle"]
  /\ UNCHANGED <<slot, head_, tail_, constructed, destroyed, producer, alive, history>>

PopStore ==
  /\ consumer.pc = "store"
  /\ StoreTail(NextIndex(OwnValue(tail_)))
  /\ delivered' = Append(delivered, consumer.res)
  /\ consumer' = [pc |-> "idle", res |-> Raw]
  /\ UNCHANGED <<slot, head_, constructed, destroyed, producer, alive, sent>>

-----------------------------------------------------------------------------
(* The slots from tail to head, that the destructor walks.                 *)
Inside(t, h) == {(t + k) % Slots : k \in 0 .. ((h + Slots - t) % Slots) - 1}

(* The owner joins both threads before it destroys the queue, so its       *)
(* relaxed loads return the last stores.                                   *)
Destructor ==
  /\ alive /\ producer.pc = "idle" /\ consumer.pc = "idle"
  /\ alive' = FALSE
  /\ slot' = [i \in Index |-> IF i \in Inside(OwnValue(tail_), OwnValue(head_))
                              THEN [slot[i] EXCEPT !.object = Raw] ELSE slot[i]]
  /\ UNCHANGED <<head_, tail_, constructed, destroyed, producer, consumer, history>>

-----------------------------------------------------------------------------
Producer == TryEmplace \/ EmplaceLoad \/ EmplaceConstruct \/ EmplaceThrows \/ EmplaceStore
Consumer ==
  \/ Pop \/ (\E i \in 1 .. Len(head_.stores) : PopLoad(i))
  \/ PopTake \/ PopThrows \/ PopStore

Next == Producer \/ Consumer \/ Destructor

Spec == Init /\ [][Next]_vars

-----------------------------------------------------------------------------
TypeOK ==
  /\ slot \in [Index -> [object : Item \cup {Raw}, write : Nat, take : Nat]]
  /\ \A cell \in {head_, tail_} :
       /\ \A k \in 1 .. Len(cell.stores) : cell.stores[k].val \in Index
       /\ cell.seen \in 1 .. Len(cell.stores)
       /\ cell.known \in Nat
  /\ constructed \in Nat /\ destroyed \in Nat
  /\ producer \in [pc : {"idle", "load", "construct", "store"}, arg : Item \cup {Raw}]
  /\ consumer \in [pc : {"idle", "load", "take", "store"}, res : Item \cup {Raw}]
  /\ alive \in BOOLEAN
  /\ sent \in Seq(Item) /\ delivered \in Seq(Item \cup {Raw})

(* No data race on a slot: a thread about to touch one has synchronised    *)
(* with the other thread's last access to it, however stale the loads.     *)
NoDataRace ==
  /\ producer.pc = "construct" => slot[OwnValue(head_)].take <= tail_.known
  /\ consumer.pc = "take"      => slot[OwnValue(tail_)].write <= head_.known

(* Object lifetimes: try_emplace constructs only in raw storage, pop moves *)
(* out of and destroys only an object that is there.                       *)
LifetimesRespected ==
  /\ producer.pc = "construct" => slot[OwnValue(head_)].object = Raw
  /\ consumer.pc = "take"      => slot[OwnValue(tail_)].object # Raw

(* Once the queue is destroyed no object is left in its storage, whatever  *)
(* was still queued and whichever constructors threw before.               *)
NoLeak == ~alive => \A i \in Index : slot[i].object = Raw

(* The ring is a FIFO queue of at most N items.                            *)
Queue == SubSeq(sent, Len(delivered) + 1, Len(sent))
Abstract == INSTANCE BoundedFifo WITH queue <- Queue
ImplementsBoundedFifo == Abstract!Spec
=============================================================================

----------------------------- MODULE SpscQueue -----------------------------
(***************************************************************************)
(* my_std::spsc_queue (concurrency/spsc_queue.hpp): a ring of N + 1 slots  *)
(* between one producer thread and one consumer thread, synchronised by    *)
(* the atomic indices tail (stored by the producer) and head (stored by    *)
(* the consumer) alone.                                                    *)
(*                                                                         *)
(* Loads of the other thread's index may be stale (module ReleaseAcquire); *)
(* a thread's load of its own index cannot, and is part of the step that   *)
(* loads the other one.  Accesses to slots are plain, so each of them must *)
(* be ordered after the other thread's last access to the slot: slots      *)
(* remember those accesses by their number.                                *)
(***************************************************************************)
EXTENDS Naturals, Sequences, ReleaseAcquire

CONSTANTS
  N,         \* the capacity, template parameter N
  Item,      \* the values pushed
  Moved,     \* what std::move leaves in a slot
  MaxPush    \* bound: the number of try_push calls that reach the slot

ASSUME QueueAssumption ==
  /\ N \in Nat \ {0}
  /\ Moved \notin Item
  /\ MaxPush \in Nat

VARIABLES
  slot,       \* buffer_: item, and the last write and the last take, by number
  head, tail, \* the atomic indices, as cells
  writes,     \* producer's slot accesses so far
  takes,      \* consumer's slot accesses so far
  producer,   \* producer's pc and the argument of its call
  consumer,   \* consumer's pc and the result of its call
  sent,       \* history: the items whose try_push returned true, in order
  delivered   \* history: the items try_pop returned, in order

vars == <<slot, head, tail, writes, takes, producer, consumer, sent, delivered>>

kSlots == N + 1

Index == 0 .. N

Init ==
  /\ slot = [i \in Index |-> [item |-> Moved, write |-> 0, take |-> 0]]
  /\ head = Cell(0) /\ tail = Cell(0)
  /\ writes = 0 /\ takes = 0
  /\ producer = [pc |-> "idle", arg |-> Moved]
  /\ consumer = [pc |-> "idle", res |-> Moved]
  /\ sent = <<>> /\ delivered = <<>>

-----------------------------------------------------------------------------
(* Slips a maintainer could make: each replaces the operator it is named   *)
(* after, and breaks the property PROJECT.json pairs it with.              *)

(* the next index wraps one slot early *)
NextIndex_WrapsEarly(i) == (i + 1) % N

(* the ring is used to its last slot *)
Full_NoSpareSlot(next, h) == FALSE

(* tail is stored with memory_order_relaxed in try_push *)
StoreTail_Relaxed(next) == tail' = RelaxedStore(tail, next)

(* try_pop keeps one item back *)
Empty_OneLeft(h, t) == h = t \/ (h + 1) % kSlots = t

-----------------------------------------------------------------------------
NextIndex(i) == (i + 1) % kSlots

(* try_push, both overloads *)

(* next_tail == head.load(acquire): the queue looks full *)
Full(next, h) == next = h

LoadHead(i) == head' = AcquireLoad(head, i)

StoreTail(next) == tail' = ReleaseStore(tail, next, writes)

TryPush ==
  /\ producer.pc = "idle"
  /\ writes < MaxPush
  /\ \E v \in Item : producer' = [pc |-> "load", arg |-> v]
  /\ UNCHANGED <<slot, head, tail, writes, takes, consumer, sent, delivered>>

PushLoad ==
  /\ producer.pc = "load"
  /\ \E i \in Readable(head) :
       /\ LoadHead(i)
       /\ producer' = [producer EXCEPT !.pc =
            IF Full(NextIndex(OwnValue(tail)), ValueAt(head, i)) THEN "idle" ELSE "write"]
  /\ UNCHANGED <<slot, tail, writes, takes, consumer, sent, delivered>>

PushWrite ==
  /\ producer.pc = "write"
  /\ writes' = writes + 1
  /\ slot' = [slot EXCEPT ![OwnValue(tail)].item = producer.arg,
                          ![OwnValue(tail)].write = writes']
  /\ producer' = [producer EXCEPT !.pc = "store"]
  /\ UNCHANGED <<head, tail, takes, consumer, sent, delivered>>

(* the assignment of T throws: the exception leaves try_push before the    *)
(* store, with an unspecified value in the slot                            *)
PushThrows ==
  /\ producer.pc = "write"
  /\ writes' = writes + 1
  /\ slot' = [slot EXCEPT ![OwnValue(tail)].item = Moved,
                          ![OwnValue(tail)].write = writes']
  /\ producer' = [producer EXCEPT !.pc = "idle"]
  /\ UNCHANGED <<head, tail, takes, consumer, sent, delivered>>

PushStore ==
  /\ producer.pc = "store"
  /\ StoreTail(NextIndex(OwnValue(tail)))
  /\ sent' = Append(sent, producer.arg)
  /\ producer' = [producer EXCEPT !.pc = "idle"]
  /\ UNCHANGED <<slot, head, writes, takes, consumer, delivered>>

-----------------------------------------------------------------------------
(* try_pop *)

(* current_head == tail.load(acquire): the queue looks empty *)
Empty(h, t) == h = t

LoadTail(i) == tail' = AcquireLoad(tail, i)

StoreHead(next) == head' = ReleaseStore(head, next, takes)

TryPop ==
  /\ consumer.pc = "idle"
  /\ consumer' = [consumer EXCEPT !.pc = "load"]
  /\ UNCHANGED <<slot, head, tail, writes, takes, producer, sent, delivered>>

PopLoad(i) ==
  /\ consumer.pc = "load"
  /\ i \in Readable(tail)
  /\ LoadTail(i)
  /\ consumer' = [consumer EXCEPT !.pc =
       IF Empty(OwnValue(head), ValueAt(tail, i)) THEN "idle" ELSE "take"]
  /\ UNCHANGED <<slot, head, writes, takes, producer, sent, delivered>>

PopTake ==
  /\ consumer.pc = "take"
  /\ takes' = takes + 1
  /\ consumer' = [pc |-> "store", res |-> slot[OwnValue(head)].item]
  /\ slot' = [slot EXCEPT ![OwnValue(head)].item = Moved,
                          ![OwnValue(head)].take = takes']
  /\ UNCHANGED <<head, tail, writes, producer, sent, delivered>>

(* constructing the result throws, and leaves the slot as it was *)
PopThrows ==
  /\ consumer.pc = "take"
  /\ consumer' = [consumer EXCEPT !.pc = "idle"]
  /\ UNCHANGED <<slot, head, tail, writes, takes, producer, sent, delivered>>

PopStore ==
  /\ consumer.pc = "store"
  /\ StoreHead(NextIndex(OwnValue(head)))
  /\ delivered' = Append(delivered, consumer.res)
  /\ consumer' = [pc |-> "idle", res |-> Moved]
  /\ UNCHANGED <<slot, tail, writes, takes, producer, sent>>

-----------------------------------------------------------------------------
Producer == TryPush \/ PushLoad \/ PushWrite \/ PushThrows \/ PushStore
Consumer ==
  \/ TryPop \/ (\E i \in 1 .. Len(tail.stores) : PopLoad(i))
  \/ PopTake \/ PopThrows \/ PopStore

Next == Producer \/ Consumer

Spec == Init /\ [][Next]_vars

(* The consumer spins on try_pop, as in the producer/consumer test, a      *)
(* store becomes visible to its loads in the end, and a move that throws   *)
(* does not throw every time it is tried.                                  *)
FairSpec ==
  /\ Spec
  /\ WF_vars(Consumer)
  /\ SF_vars(PopLoad(Len(tail.stores)))
  /\ SF_vars(PopTake)
  /\ WF_vars(PushLoad \/ PushWrite \/ PushStore)

-----------------------------------------------------------------------------
TypeOK ==
  /\ slot \in [Index -> [item : Item \cup {Moved}, write : Nat, take : Nat]]
  /\ \A cell \in {head, tail} :
       /\ \A k \in 1 .. Len(cell.stores) : cell.stores[k].val \in Index
       /\ cell.seen \in 1 .. Len(cell.stores)
       /\ cell.known \in Nat
  /\ writes \in Nat /\ takes \in Nat
  /\ producer \in [pc : {"idle", "load", "write", "store"}, arg : Item \cup {Moved}]
  /\ consumer \in [pc : {"idle", "load", "take", "store"}, res : Item \cup {Moved}]
  /\ sent \in Seq(Item) /\ delivered \in Seq(Item \cup {Moved})

(* No data race on a slot: when a thread is about to access one, the other *)
(* thread's last access to it is ordered before by an acquire load that    *)
(* read a release store, however stale the loads were.                     *)
NoDataRace ==
  /\ producer.pc = "write" => slot[OwnValue(tail)].take <= head.known
  /\ consumer.pc = "take"  => slot[OwnValue(head)].write <= tail.known

(* The ring is a FIFO queue of at most N items: an item is in it from the  *)
(* store of tail to the store of head, and nothing is lost, duplicated,    *)
(* reordered or handed out after it was moved from.                        *)
Queue == SubSeq(sent, Len(delivered) + 1, Len(sent))
Abstract == INSTANCE BoundedFifo WITH queue <- Queue
ImplementsBoundedFifo == Abstract!Spec

(* A try_push that sees the newest head, as every call of a single thread  *)
(* does, fails exactly when the queue holds N items ("holds exactly N      *)
(* items"); one that sees an older head may fail before, but never         *)
(* succeeds on a full queue.                                               *)
FailsOnlyWhenFull ==
  [][producer.pc = "load" /\ producer.pc' # "load"
       => /\ Len(Queue) = N => producer.pc' = "idle"
          /\ head'.seen = Len(head.stores) /\ producer.pc' = "idle" => Len(Queue) = N]_vars

(* Every item whose try_push succeeded comes out of a consumer that keeps  *)
(* calling try_pop.                                                        *)
EventuallyDelivered ==
  \A k \in 1 .. MaxPush : (Len(sent) >= k) ~> (Len(delivered) >= k)
=============================================================================

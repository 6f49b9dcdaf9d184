-------------------------- MODULE SpscQueueV2Proofs --------------------------
(***************************************************************************)
(* For any capacity, spsc_queue_v2 never lets its two threads race on a    *)
(* slot, constructs only in raw storage, destroys every object it          *)
(* constructs, once, and is a FIFO queue.                                  *)
(*                                                                         *)
(* The inductive invariant counts as that of SpscQueueProofs does, and     *)
(* says for the round of slots that starts with the next pop which of them *)
(* hold an object.                                                         *)
(***************************************************************************)
EXTENDS SpscQueueV2, Integers, SequenceTheorems, TLAPS

(* What SpscQueueProofs says of rings and of atomic indices in general. *)
Ring == INSTANCE SpscQueueProofs
          WITH Moved <- Raw, head <- tail_, tail <- head_, writes <- constructed, takes <- destroyed

LEMMA RingAssumption == Ring!QueueAssumption
BY QueueAssumption DEF Ring!QueueAssumption


Pushed == Len(head_.stores) - 1
Popped == Len(tail_.stores) - 1
SeenPushes == head_.seen - 1
SeenPops == tail_.seen - 1

CellsOK == Ring!CellOK(tail_, destroyed, Slots) /\ Ring!CellOK(head_, constructed, Slots)

(* neither thread has seen more than there is, nor runs into the other *)
IndicesOrdered ==
  /\ Popped <= SeenPushes
  /\ Pushed <= SeenPops + N
  /\ producer.pc \in {"construct", "store"} => Pushed < SeenPops + N
  /\ consumer.pc \in {"take", "store"} => Popped < SeenPushes

AccessesCounted == \A x \in Index : slot[x].write <= constructed /\ slot[x].take <= destroyed

(* the store of a push not yet popped publishes the write of its slot; *)
WritesPublished ==
  \A k \in Popped .. Pushed - 1 : slot[k % Slots].write <= head_.stores[k + 2].acc

(* that of the pop before a slot is pushed to again, the take from it *)
TakesPublished ==
  \A k \in Pushed .. Popped + N :
    slot[k % Slots].take <= IF k < Slots THEN 0 ELSE tail_.stores[k - Slots + 2].acc

(* what the slot of k holds, for a round that starts with the next pop *)
Held(k) ==
  IF k < Pushed THEN IF k = Popped /\ consumer.pc = "store" THEN Raw ELSE sent[k + 1]
                ELSE IF k = Pushed /\ producer.pc = "store" THEN producer.arg ELSE Raw

ObjectsInPlace ==
  /\ Len(sent) = Pushed /\ Len(delivered) = Popped
  /\ alive => \A k \in Popped .. Popped + N : slot[k % Slots].object = Held(k)
  /\ ~alive => /\ producer.pc = "idle" /\ consumer.pc = "idle"
               /\ \A x \in Index : slot[x].object = Raw
  /\ consumer.pc = "store" => consumer.res = sent[Popped + 1]
  /\ producer.pc # "idle" => producer.arg \in Item

IInv ==
  /\ TypeOK /\ CellsOK /\ IndicesOrdered
  /\ AccessesCounted /\ WritesPublished /\ TakesPublished /\ ObjectsInPlace

-----------------------------------------------------------------------------
LEMMA Sizes == /\ N \in Nat \ {0} /\ Slots = N + 1 /\ Slots \in Nat \ {0} /\ Index = 0 .. Slots - 1
               /\ Raw \notin Item
BY QueueAssumption DEF Slots, Index

(* What the counts are, and where the next push and the next pop go.       *)
LEMMA Counts ==
  ASSUME IInv
  PROVE  /\ Pushed \in Nat /\ Popped \in Nat /\ SeenPushes \in Nat /\ SeenPops \in Nat
         /\ Len(head_.stores) = Pushed + 1 /\ Len(tail_.stores) = Popped + 1
         /\ head_.seen = SeenPushes + 1 /\ tail_.seen = SeenPops + 1
         /\ SeenPops <= Popped /\ Popped <= SeenPushes /\ SeenPushes <= Pushed
         /\ Pushed <= SeenPops + N
         /\ constructed \in Nat /\ destroyed \in Nat
<1>1. Ring!CellOK(tail_, destroyed, Slots) /\ Ring!CellOK(head_, constructed, Slots)
  BY DEF IInv, CellsOK
<1>2. /\ Len(tail_.stores) \in Nat /\ tail_.seen \in Nat /\ 1 <= tail_.seen
      /\ tail_.seen <= Len(tail_.stores) /\ destroyed \in Nat
  BY <1>1, Ring!CellFacts, RingAssumption, Sizes
<1>3. /\ Len(head_.stores) \in Nat /\ head_.seen \in Nat /\ 1 <= head_.seen
      /\ head_.seen <= Len(head_.stores) /\ constructed \in Nat
  BY <1>1, Ring!CellFacts, RingAssumption, Sizes
<1>4. Popped <= SeenPushes /\ Pushed <= SeenPops + N
  BY DEF IInv, IndicesOrdered
<1> QED  BY <1>2, <1>3, <1>4 DEF Pushed, Popped, SeenPushes, SeenPops

LEMMA Bounds ==
  ASSUME IInv
  PROVE  /\ Pushed \in Nat /\ Popped \in Nat /\ SeenPushes \in Nat /\ SeenPops \in Nat
         /\ N \in Nat /\ Slots = N + 1
         /\ SeenPops <= Popped /\ Popped <= SeenPushes /\ SeenPushes <= Pushed
         /\ Pushed <= SeenPops + N
BY Counts, Sizes

LEMMA OwnIndex ==
  ASSUME IInv
  PROVE  /\ OwnValue(head_) = Pushed % Slots /\ OwnValue(tail_) = Popped % Slots
         /\ \A k \in Nat : k % Slots \in Index /\ k % Slots \in Nat
<1>1. ASSUME NEW k \in Nat PROVE k % Slots \in Index /\ k % Slots \in Nat
  <2>1. k % Slots \in 0 .. Slots - 1
    BY Sizes, Ring!DivMod, RingAssumption
  <2> QED  BY <2>1, Sizes
<1>2. OwnValue(head_) = Pushed % Slots /\ OwnValue(tail_) = Popped % Slots
  BY Ring!CellFacts, RingAssumption, Sizes DEF IInv, CellsOK, Pushed, Popped, OwnValue, Ring!OwnValue
<1> QED  BY <1>1, <1>2

-----------------------------------------------------------------------------
(* A step that stores no index and touches no slot leaves the slots'       *)
(* part of the invariant alone.                                            *)
LEMMA SameStores ==
  ASSUME IInv, UNCHANGED <<slot, constructed, destroyed>>,
         tail_'.stores = tail_.stores, head_'.stores = head_.stores
  PROVE  /\ Pushed' = Pushed /\ Popped' = Popped
         /\ AccessesCounted' /\ WritesPublished' /\ TakesPublished'
<1>1. Pushed' = Pushed /\ Popped' = Popped
  BY DEF Pushed, Popped
<1>2. AccessesCounted'
  BY DEF IInv, AccessesCounted
<1>3. WritesPublished'
  BY <1>1 DEF IInv, WritesPublished
<1>4. TakesPublished'
  BY <1>1 DEF IInv, TakesPublished
<1> QED  BY <1>1, <1>2, <1>3, <1>4

LEMMA SameCells ==
  ASSUME IInv, UNCHANGED <<tail_, head_, constructed, destroyed>>
  PROVE  /\ CellsOK'
         /\ Pushed' = Pushed /\ Popped' = Popped
         /\ SeenPushes' = SeenPushes /\ SeenPops' = SeenPops
BY DEF IInv, CellsOK, Ring!CellOK, Pushed, Popped, SeenPushes, SeenPops

(* A step of one thread that is not to or from the store of its index, and *)
(* leaves the slots and the histories alone, leaves the objects in place.  *)
LEMMA ProducerMoves ==
  ASSUME IInv, UNCHANGED <<slot, consumer, alive, history>>, Pushed' = Pushed, Popped' = Popped,
         producer.pc # "store", producer'.pc # "store",
         producer'.pc # "idle" => alive /\ producer'.arg \in Item
  PROVE  ObjectsInPlace'
<1>1. \A k : Held(k)' = Held(k)
  BY DEF Held, history
<1> QED  BY <1>1 DEF IInv, ObjectsInPlace, history

LEMMA ConsumerMoves ==
  ASSUME IInv, UNCHANGED <<slot, producer, alive, history>>, Pushed' = Pushed, Popped' = Popped,
         consumer.pc # "store", consumer'.pc # "store", consumer'.pc # "idle" => alive
  PROVE  ObjectsInPlace'
<1>1. \A k : Held(k)' = Held(k)
  BY DEF Held, history
<1> QED  BY <1>1 DEF IInv, ObjectsInPlace, history

LEMMA TryEmplaceIInv == ASSUME IInv, TryEmplace PROVE IInv'
<1>1. /\ CellsOK' /\ Pushed' = Pushed /\ Popped' = Popped
      /\ SeenPushes' = SeenPushes /\ SeenPops' = SeenPops
      /\ AccessesCounted' /\ WritesPublished' /\ TakesPublished'
  BY SameCells, SameStores DEF TryEmplace
<1>2. PICK v \in Item : producer' = [pc |-> "load", arg |-> v]
  BY DEF TryEmplace
<1>3. TypeOK'
  BY <1>2 DEF TryEmplace, IInv, TypeOK, history
<1>4. IndicesOrdered'
  BY <1>1, <1>2 DEF TryEmplace, IInv, IndicesOrdered
<1>5. ObjectsInPlace'
  BY <1>1, <1>2, ProducerMoves DEF TryEmplace
<1> QED  BY <1>1, <1>3, <1>4, <1>5 DEF IInv

LEMMA PopIInv == ASSUME IInv, Pop \/ PopThrows PROVE IInv'
<1>1. /\ CellsOK' /\ Pushed' = Pushed /\ Popped' = Popped
      /\ SeenPushes' = SeenPushes /\ SeenPops' = SeenPops
      /\ AccessesCounted' /\ WritesPublished' /\ TakesPublished'
  BY SameCells, SameStores DEF Pop, PopThrows
<1>2. /\ consumer.pc \in {"idle", "take"} /\ UNCHANGED <<slot, producer, alive, history>>
      /\ consumer' = [consumer EXCEPT !.pc = "load"] \/ consumer' = [consumer EXCEPT !.pc = "idle"]
  BY DEF Pop, PopThrows
<1>3. consumer'.pc \in {"load", "idle"}
  BY <1>2 DEF IInv, TypeOK
<1>4. TypeOK'
  BY <1>2 DEF Pop, PopThrows, IInv, TypeOK, history
<1>5. IndicesOrdered'
  BY <1>1, <1>2, <1>3 DEF IInv, IndicesOrdered
<1>6. ObjectsInPlace'
  <2>1. consumer'.pc # "idle" => alive
    BY DEF Pop, PopThrows, IInv, ObjectsInPlace
  <2> QED  BY <1>1, <1>2, <1>3, <2>1, ConsumerMoves
<1> QED  BY <1>1, <1>4, <1>5, <1>6 DEF IInv

-----------------------------------------------------------------------------
(* A producer that sees room is right: what it saw of the pops is less     *)
(* than a round behind.  One that sees the ring full has seen N pops less  *)
(* than there were pushes.                                                 *)
LEMMA SeesRoom ==
  ASSUME IInv, NEW i \in Readable(tail_)
  PROVE  /\ i \in Nat /\ Pushed <= i - 1 + N
         /\ Full(NextIndex(OwnValue(head_)), ValueAt(tail_, i)) <=> Pushed = i - 1 + N
<1>1. /\ i \in Nat /\ tail_.seen <= i /\ i <= Len(tail_.stores) /\ i \in 1 .. Len(tail_.stores)
  BY Counts DEF Readable
<1>2. Pushed <= i - 1 + N /\ i - 1 \in Nat /\ i - 1 <= Pushed
  <2>1. SeenPops + 1 <= i /\ i <= Popped + 1
    BY <1>1, Counts
  <2> QED  BY <1>1, <2>1, Bounds
<1>3. NextIndex(OwnValue(head_)) = (Pushed + 1) % Slots
  BY OwnIndex, Counts, Sizes, Ring!ModNext, RingAssumption DEF NextIndex
<1>4. ValueAt(tail_, i) = (i - 1) % Slots
  BY <1>1 DEF IInv, CellsOK, Ring!CellOK, ValueAt
<1>5. CASE Pushed = i - 1 + N
  <2>1. Pushed + 1 = (i - 1) + Slots
    BY <1>2, <1>5, Counts, Sizes
  <2>2. (Pushed + 1) % Slots = (i - 1) % Slots
    BY <1>2, <2>1, Sizes, Ring!ModRound, RingAssumption
  <2> QED  BY <1>1, <1>2, <1>3, <1>4, <1>5, <2>2 DEF Full
<1>6. CASE Pushed # i - 1 + N
  <2>1. i - 1 < Pushed + 1 /\ Pushed + 1 < (i - 1) + Slots /\ Pushed + 1 \in Nat
    BY <1>2, <1>6, Bounds
  <2>2. (i - 1) % Slots # (Pushed + 1) % Slots
    BY <1>2, <2>1, Sizes, Ring!ModApart, RingAssumption
  <2> QED  BY <1>1, <1>2, <1>3, <1>4, <1>6, <2>2 DEF Full
<1> QED  BY <1>5, <1>6

LEMMA EmplaceLoadIInv == ASSUME IInv, EmplaceLoad PROVE IInv'
<1>1. PICK i \in Readable(tail_) :
        /\ tail_' = AcquireLoad(tail_, i)
        /\ producer' = [producer EXCEPT !.pc =
             IF Full(NextIndex(OwnValue(head_)), ValueAt(tail_, i)) THEN "idle" ELSE "construct"]
  BY DEF EmplaceLoad, LoadTail
<1>2. producer.pc = "load" /\ UNCHANGED <<slot, head_, constructed, destroyed, consumer, alive, history>>
  BY DEF EmplaceLoad
<1>3. Ring!CellOK(tail_', destroyed, Slots) /\ tail_'.stores = tail_.stores /\ tail_'.seen = i
  <2>1. i \in Ring!Readable(tail_) /\ tail_' = Ring!AcquireLoad(tail_, i)
    BY <1>1 DEF Readable, Ring!Readable, AcquireLoad, Ring!AcquireLoad
  <2>2. Ring!CellOK(tail_, destroyed, Slots)
    BY DEF IInv, CellsOK
  <2> QED  BY <2>1, <2>2, Ring!LoadCell, RingAssumption, Sizes
<1>4. CellsOK'
  <2>1. Ring!CellOK(head_, constructed, Slots)'
    BY <1>2 DEF IInv, CellsOK, Ring!CellOK
  <2>2. Ring!CellOK(tail_, destroyed, Slots)'
    BY <1>2, <1>3 DEF Ring!CellOK
  <2> QED  BY <2>1, <2>2 DEF CellsOK
<1>5. Pushed' = Pushed /\ Popped' = Popped /\ AccessesCounted' /\ WritesPublished' /\ TakesPublished'
  BY <1>2, <1>3, SameStores
<1>6. /\ producer'.pc \in {"idle", "construct"} /\ producer'.arg = producer.arg
      /\ producer' \in [pc : {"idle", "construct"}, arg : Item \cup {Raw}]
      /\ producer'.pc = "construct" => ~Full(NextIndex(OwnValue(head_)), ValueAt(tail_, i))
  BY <1>1 DEF IInv, TypeOK
<1>7. TypeOK'
  <2>1. /\ \A k \in 1 .. Len(tail_'.stores) : tail_'.stores[k].val \in Index
        /\ tail_'.seen \in 1 .. Len(tail_'.stores) /\ tail_'.known \in Nat
    BY <1>3, Ring!CellTyped, RingAssumption, Sizes
  <2> QED  BY <1>2, <1>6, <2>1, Sizes DEF IInv, TypeOK, history
<1>8. IndicesOrdered'
  <2>1. SeenPops' = i - 1 /\ SeenPushes' = SeenPushes
    BY <1>2, <1>3 DEF SeenPops, SeenPushes
  <2>2. i \in Nat /\ Pushed <= i - 1 + N
    BY SeesRoom
  <2>3. ASSUME producer'.pc = "construct" PROVE Pushed < i - 1 + N
    <3>1. Pushed # i - 1 + N
      BY <1>6, <2>3, SeesRoom, Zenon
    <3> QED  BY <2>2, <3>1, Bounds
  <2> QED  BY <1>2, <1>5, <1>6, <2>1, <2>2, <2>3 DEF IInv, IndicesOrdered
<1>9. ObjectsInPlace'
  <2>1. alive /\ producer.arg \in Item
    BY <1>2 DEF IInv, ObjectsInPlace
  <2> QED  BY <1>2, <1>5, <1>6, <2>1, ProducerMoves
<1> QED  BY <1>4, <1>5, <1>7, <1>8, <1>9 DEF IInv

LEMMA PopLoadIInv == ASSUME IInv, NEW i, PopLoad(i) PROVE IInv'
<1>1. /\ i \in Readable(head_) /\ head_' = AcquireLoad(head_, i)
      /\ consumer' = [consumer EXCEPT !.pc =
           IF Empty(ValueAt(head_, i), OwnValue(tail_)) THEN "idle" ELSE "take"]
  BY DEF PopLoad, LoadHead
<1>2. consumer.pc = "load" /\ UNCHANGED <<slot, tail_, constructed, destroyed, producer, alive, history>>
  BY DEF PopLoad
<1>3. /\ Ring!CellOK(head_', constructed, Slots) /\ head_'.stores = head_.stores /\ head_'.seen = i
      /\ i \in Nat /\ head_.seen <= i /\ i <= Len(head_.stores)
  <2>1. i \in Ring!Readable(head_) /\ head_' = Ring!AcquireLoad(head_, i)
    BY <1>1 DEF Readable, Ring!Readable, AcquireLoad, Ring!AcquireLoad
  <2>2. Ring!CellOK(head_, constructed, Slots)
    BY DEF IInv, CellsOK
  <2> QED  BY <2>1, <2>2, Ring!LoadCell, RingAssumption, Sizes
<1>4. CellsOK'
  <2>1. Ring!CellOK(tail_, destroyed, Slots)'
    BY <1>2 DEF IInv, CellsOK, Ring!CellOK
  <2>2. Ring!CellOK(head_, constructed, Slots)'
    BY <1>2, <1>3 DEF Ring!CellOK
  <2> QED  BY <2>1, <2>2 DEF CellsOK
<1>5. Pushed' = Pushed /\ Popped' = Popped /\ AccessesCounted' /\ WritesPublished' /\ TakesPublished'
  BY <1>2, <1>3, SameStores
<1>6. /\ consumer'.pc \in {"idle", "take"}
      /\ consumer' \in [pc : {"idle", "take"}, res : Item \cup {Raw}]
      /\ consumer'.pc = "take" => OwnValue(tail_) # ValueAt(head_, i)
  BY <1>1 DEF IInv, TypeOK, Empty
<1>7. TypeOK'
  <2>1. /\ \A k \in 1 .. Len(head_'.stores) : head_'.stores[k].val \in Index
        /\ head_'.seen \in 1 .. Len(head_'.stores) /\ head_'.known \in Nat
    BY <1>3, Ring!CellTyped, RingAssumption, Sizes
  <2> QED  BY <1>2, <1>6, <2>1, Sizes DEF IInv, TypeOK, history
<1>8. IndicesOrdered'
  <2>1. SeenPushes' = i - 1 /\ SeenPops' = SeenPops
    BY <1>2, <1>3 DEF SeenPops, SeenPushes
  <2>2. Popped <= i - 1
    BY <1>3, Counts
  <2>3. ASSUME consumer'.pc = "take" PROVE Popped # i - 1
    <3>1. i \in 1 .. Len(head_.stores)
      BY <1>3, Counts
    <3>2. ValueAt(head_, i) = (i - 1) % Slots
      BY <3>1 DEF IInv, CellsOK, Ring!CellOK, ValueAt
    <3> QED  BY <1>6, <2>3, <3>2, OwnIndex
  <2> QED  BY <1>2, <1>3, <1>5, <1>6, <2>1, <2>2, <2>3, Counts DEF IInv, IndicesOrdered
<1>9. ObjectsInPlace'
  <2>1. alive
    BY <1>2 DEF IInv, ObjectsInPlace
  <2> QED  BY <1>2, <1>5, <1>6, <2>1, ConsumerMoves
<1> QED  BY <1>4, <1>5, <1>7, <1>8, <1>9 DEF IInv

-----------------------------------------------------------------------------
(* The slots of a round that starts with the next pop are all different,   *)
(* and are all there are.                                                  *)
LEMMA SlotsApart ==
  ASSUME IInv
  PROVE  /\ \A k \in Popped .. Popped + N : k \in Nat /\ k % Slots \in Index
         /\ \A j, k \in Popped .. Popped + N : j # k => j % Slots # k % Slots
         /\ \A x \in Index : \E k \in Popped .. Popped + N : k % Slots = x
<1>1. /\ Popped \in Nat /\ N \in Nat /\ Slots = N + 1 /\ Slots \in Nat \ {0}
      /\ Index = 0 .. Slots - 1
  BY Counts, Sizes
<1>2. \A k \in Popped .. Popped + N : k \in Nat
  BY <1>1
<1>3. \A k \in Popped .. Popped + N : k % Slots \in Index
  BY <1>2, OwnIndex
<1>4. ASSUME NEW j \in Popped .. Popped + N, NEW k \in Popped .. Popped + N, j < k
      PROVE  j % Slots # k % Slots
  <2>1. j \in Nat /\ k \in Nat /\ k < j + Slots
    BY <1>1
  <2> QED  BY <1>1, <1>4, <2>1, Ring!ModApart, RingAssumption
<1>5. ASSUME NEW j \in Popped .. Popped + N, NEW k \in Popped .. Popped + N, j # k
      PROVE  j % Slots # k % Slots
  <2>1. j < k \/ k < j
    BY <1>1, <1>5
  <2> QED  BY <1>4, <2>1, Zenon
<1>6. ASSUME NEW x \in Index PROVE \E k \in Popped .. Popped + N : k % Slots = x
  <2>1. x \in 0 .. Slots - 1 /\ Popped \in Nat /\ Slots \in Nat \ {0}
    BY <1>1
  <2>2. PICK k \in Popped .. Popped + Slots - 1 : k % Slots = x
    BY <2>1, Ring!ModCovers, RingAssumption
  <2>3. k \in Popped .. Popped + N
    BY <1>1
  <2> QED  BY <2>2, <2>3
<1> QED  BY <1>2, <1>3, <1>5, <1>6

(* Where the next push goes is in that round; what is pushed and not yet   *)
(* popped comes before, and what is popped and not yet pushed again after. *)
LEMMA Round ==
  ASSUME IInv
  PROVE  /\ Pushed \in Popped .. Popped + N /\ Popped \in Popped .. Popped + N
         /\ \A k \in Popped .. Pushed - 1 : k \in Popped .. Popped + N /\ k < Pushed /\ k # Pushed
         /\ \A k \in Pushed .. Popped + N : k \in Popped .. Popped + N /\ ~(k < Pushed)
BY Bounds

(* What an access leaves in the slots.                                     *)
LEMMA SlotSet ==
  ASSUME NEW S, NEW s \in [Index -> S], NEW own \in Index, NEW new \in S,
         NEW t, t = [s EXCEPT ![own] = new]
  PROVE  t \in [Index -> S] /\ t[own] = new /\ \A y \in Index : y # own => t[y] = s[y]
OBVIOUS

LEMMA Written ==
  ASSUME NEW r \in [object : Item \cup {Raw}, write : Nat, take : Nat], NEW x, NEW n
  PROVE  [r EXCEPT !.object = x, !.write = n] = [object |-> x, write |-> n, take |-> r.take]
<1> DEFINE i == r.object
           w == r.write
           k == r.take
           p == [object |-> x, write |-> w, take |-> k]
<1>1. r = [object |-> i, write |-> w, take |-> k]
  OBVIOUS
<1> HIDE DEF i, w, k
<1>2. [r EXCEPT !.object = x] = p
  BY <1>1
<1>3. [p EXCEPT !.write = n] = [object |-> x, write |-> n, take |-> k]
  OBVIOUS
<1> HIDE DEF p
<1>4. [r EXCEPT !.object = x, !.write = n] = [[r EXCEPT !.object = x] EXCEPT !.write = n]
  OBVIOUS
<1> QED  BY <1>2, <1>3, <1>4 DEF k

LEMMA Taken ==
  ASSUME NEW r \in [object : Item \cup {Raw}, write : Nat, take : Nat], NEW x, NEW n
  PROVE  [r EXCEPT !.object = x, !.take = n] = [object |-> x, write |-> r.write, take |-> n]
<1> DEFINE i == r.object
           w == r.write
           k == r.take
           p == [object |-> x, write |-> w, take |-> k]
<1>1. r = [object |-> i, write |-> w, take |-> k]
  OBVIOUS
<1> HIDE DEF i, w, k
<1>2. [r EXCEPT !.object = x] = p
  BY <1>1
<1>3. [p EXCEPT !.take = n] = [object |-> x, write |-> w, take |-> n]
  OBVIOUS
<1> HIDE DEF p
<1>4. [r EXCEPT !.object = x, !.take = n] = [[r EXCEPT !.object = x] EXCEPT !.take = n]
  OBVIOUS
<1> QED  BY <1>2, <1>3, <1>4 DEF w

LEMMA EmplaceConstructIInv == ASSUME IInv, EmplaceConstruct PROVE IInv'
<1>0. /\ producer.pc = "construct" /\ constructed' = constructed + 1
      /\ slot' = [slot EXCEPT ![OwnValue(head_)].object = producer.arg,
                              ![OwnValue(head_)].write = constructed + 1]
      /\ producer' = [producer EXCEPT !.pc = "store"]
      /\ UNCHANGED <<tail_, head_, destroyed, consumer, alive, history>>
      /\ producer.arg \in Item \cup {Raw}
  BY DEF EmplaceConstruct, IInv, TypeOK
<1> DEFINE own == Pushed % Slots
<1>1. own \in Index /\ OwnValue(head_) = own /\ constructed \in Nat
  BY OwnIndex, Counts
<1>2. Pushed' = Pushed /\ Popped' = Popped /\ SeenPushes' = SeenPushes /\ SeenPops' = SeenPops
  BY <1>0 DEF Pushed, Popped, SeenPushes, SeenPops
<1>3. /\ slot' \in [Index -> [object : Item \cup {Raw}, write : Nat, take : Nat]]
      /\ slot'[own].object = producer.arg /\ slot'[own].write = constructed + 1 /\ slot'[own].take = slot[own].take
      /\ \A y \in Index : y # own => slot'[y] = slot[y]
  <2>1. slot \in [Index -> [object : Item \cup {Raw}, write : Nat, take : Nat]]
    BY DEF IInv, TypeOK
  <2> DEFINE new == [object |-> producer.arg, write |-> constructed + 1, take |-> slot[own].take]
  <2>2. slot' = [slot EXCEPT ![own] = [slot[own] EXCEPT !.object = producer.arg, !.write = constructed + 1]]
    BY <1>0, <1>1
  <2>3. slot[own] \in [object : Item \cup {Raw}, write : Nat, take : Nat] /\ constructed + 1 \in Nat
    BY <1>1, <2>1
  <2>4. [slot[own] EXCEPT !.object = producer.arg, !.write = constructed + 1] = new /\ slot[own].take \in Nat
    <3> DEFINE r == slot[own]
               x == producer.arg
               n == constructed + 1
    <3>1. r \in [object : Item \cup {Raw}, write : Nat, take : Nat]
      BY <2>3
    <3> HIDE DEF r, x, n
    <3>2. [r EXCEPT !.object = x, !.write = n] = [object |-> x, write |-> n, take |-> r.take]
      BY <3>1, Written
    <3>3. r.take \in Nat
      BY <3>1
    <3> QED  BY <3>2, <3>3 DEF r, x, n
  <2>5. /\ new \in [object : Item \cup {Raw}, write : Nat, take : Nat]
        /\ new.object = producer.arg /\ new.write = constructed + 1 /\ new.take = slot[own].take
    BY <1>0, <2>3, <2>4
  <2> DEFINE Rec == [object : Item \cup {Raw}, write : Nat, take : Nat]
  <2>6. own \in Index /\ slot \in [Index -> Rec] /\ new \in Rec /\ slot' = [slot EXCEPT ![own] = new]
    BY <1>1, <2>1, <2>2, <2>4, <2>5
  <2> HIDE DEF own, new, Rec
  <2>7. slot' \in [Index -> Rec] /\ slot'[own] = new /\ \A y \in Index : y # own => slot'[y] = slot[y]
    BY <2>6, SlotSet
  <2> QED  BY <2>5, <2>7 DEF Rec
<1>4. /\ producer'.pc = "store" /\ producer'.arg = producer.arg
      /\ producer' \in [pc : {"store"}, arg : Item \cup {Raw}]
  BY <1>0 DEF IInv, TypeOK
<1> HIDE DEF own
<1>5. TypeOK'
  <2>1. producer' \in [pc : {"idle", "load", "construct", "store"}, arg : Item \cup {Raw}]
    BY <1>4
  <2>2. constructed' \in Nat
    BY <1>0, <1>1
  <2> QED  BY <1>0, <1>3, <2>1, <2>2 DEF IInv, TypeOK, history
<1>6. CellsOK'
  <2>1. Ring!CellOK(tail_, destroyed, Slots)'
    BY <1>0 DEF IInv, CellsOK, Ring!CellOK
  <2>2. Ring!CellOK(head_, constructed + 1, Slots)
    BY Ring!MoreAccesses, RingAssumption, Sizes DEF IInv, CellsOK
  <2>3. Ring!CellOK(head_, constructed, Slots)'
    BY <1>0, <2>2 DEF Ring!CellOK
  <2> QED  BY <2>1, <2>3 DEF CellsOK
<1>7. IndicesOrdered'
  BY <1>0, <1>2, <1>4 DEF IInv, IndicesOrdered
<1>8. AccessesCounted'
  <2> SUFFICES ASSUME NEW y \in Index PROVE slot'[y].write <= constructed' /\ slot'[y].take <= destroyed'
    BY DEF AccessesCounted
  <2>1. slot[y].write <= constructed /\ slot[y].take <= destroyed /\ slot[y].write \in Nat
    BY DEF IInv, TypeOK, AccessesCounted
  <2>2. CASE y = own
    BY <1>0, <1>1, <1>3, <2>1, <2>2
  <2>3. CASE y # own
    BY <1>0, <1>1, <1>3, <2>1, <2>3
  <2> QED  BY <2>2, <2>3
<1>9. WritesPublished'
  <2> SUFFICES ASSUME NEW k \in Popped .. Pushed - 1
               PROVE  slot'[k % Slots].write <= head_.stores[k + 2].acc
    BY <1>0, <1>2 DEF WritesPublished
  <2>1. k % Slots \in Index /\ k % Slots # own
    BY Round, SlotsApart DEF own
  <2> QED  BY <1>3, <2>1 DEF IInv, WritesPublished
<1>10. TakesPublished'
  <2> SUFFICES ASSUME NEW k \in Pushed .. Popped + N
               PROVE  slot'[k % Slots].take <= IF k < Slots THEN 0 ELSE tail_.stores[k - Slots + 2].acc
    BY <1>0, <1>2 DEF TakesPublished
  <2>1. k % Slots \in Index
    BY Round, SlotsApart
  <2>2. slot'[k % Slots].take = slot[k % Slots].take
    BY <1>3, <2>1
  <2> QED  BY <2>2 DEF IInv, TakesPublished
<1>11. ObjectsInPlace'
  <2>1. ASSUME alive, NEW k \in Popped .. Popped + N PROVE slot'[k % Slots].object = Held(k)'
    <3>1. CASE k = Pushed
      <4>1. Held(k)' = producer.arg
        BY <1>2, <1>4, <3>1, Bounds DEF Held
      <4>2. slot'[k % Slots].object = producer.arg
        BY <1>3, <3>1 DEF own
      <4> QED  BY <4>1, <4>2
    <3>2. CASE k # Pushed
      <4>1. k % Slots \in Index /\ k % Slots # own
        BY <3>2, Round, SlotsApart DEF own
      <4>2. slot[k % Slots].object = Held(k)
        BY <2>1 DEF IInv, ObjectsInPlace
      <4>3. Held(k)' = Held(k)
        BY <1>0, <1>2, <3>2 DEF Held, history
      <4> QED  BY <1>3, <4>1, <4>2, <4>3
    <3> QED  BY <3>1, <3>2
  <2>2. alive
    BY <1>0 DEF IInv, ObjectsInPlace
  <2>3. producer.arg \in Item
    BY <1>0 DEF IInv, ObjectsInPlace
  <2> QED  BY <1>0, <1>2, <1>4, <2>1, <2>2, <2>3 DEF IInv, ObjectsInPlace, history
<1> QED  BY <1>5, <1>6, <1>7, <1>8, <1>9, <1>10, <1>11 DEF IInv

(* a constructor that throws leaves everything as it was *)
LEMMA EmplaceThrowsIInv == ASSUME IInv, EmplaceThrows PROVE IInv'
<1>1. /\ CellsOK' /\ Pushed' = Pushed /\ Popped' = Popped
      /\ SeenPushes' = SeenPushes /\ SeenPops' = SeenPops
      /\ AccessesCounted' /\ WritesPublished' /\ TakesPublished'
  BY SameCells, SameStores DEF EmplaceThrows
<1>2. /\ producer.pc = "construct" /\ producer'.pc = "idle"
      /\ producer' \in [pc : {"idle"}, arg : Item \cup {Raw}]
  BY DEF EmplaceThrows, IInv, TypeOK
<1>3. TypeOK'
  BY <1>2 DEF EmplaceThrows, IInv, TypeOK, history
<1>4. IndicesOrdered'
  BY <1>1, <1>2 DEF EmplaceThrows, IInv, IndicesOrdered
<1>5. ObjectsInPlace'
  BY <1>1, <1>2, ProducerMoves DEF EmplaceThrows
<1> QED  BY <1>1, <1>3, <1>4, <1>5 DEF IInv

LEMMA EmplaceStoreIInv == ASSUME IInv, EmplaceStore PROVE IInv'
<1>1. /\ producer.pc = "store" /\ head_' = ReleaseStore(head_, NextIndex(OwnValue(head_)), constructed)
      /\ sent' = Append(sent, producer.arg) /\ producer' = [producer EXCEPT !.pc = "idle"]
      /\ UNCHANGED <<slot, tail_, constructed, destroyed, consumer, alive, delivered>>
  BY DEF EmplaceStore, StoreHead
<1>2. NextIndex(OwnValue(head_)) = Len(head_.stores) % Slots
  <2>1. Pushed \in Nat /\ Slots \in Nat \ {0}
    BY Bounds, Sizes
  <2>2. ((Pushed % Slots) + 1) % Slots = (Pushed + 1) % Slots
    BY <2>1, Ring!ModNext, RingAssumption
  <2>3. OwnValue(head_) = Pushed % Slots /\ Pushed + 1 = Len(head_.stores)
    BY OwnIndex, Counts
  <2> QED  BY <2>2, <2>3 DEF NextIndex
<1>3. /\ Ring!CellOK(head_', constructed, Slots) /\ head_'.seen = head_.seen
      /\ Len(head_'.stores) = Len(head_.stores) + 1
      /\ \A k \in 1 .. Len(head_.stores) : head_'.stores[k] = head_.stores[k]
      /\ head_'.stores[Len(head_.stores) + 1].acc = constructed
  <2>1. Ring!IsStore(head_', head_, constructed, Slots)
    BY <1>1, <1>2 DEF Ring!IsStore, ReleaseStore, Ring!ReleaseStore
  <2> QED  BY <2>1, Ring!StoreCell, RingAssumption, Sizes DEF IInv, CellsOK
<1>4. Pushed' = Pushed + 1 /\ Popped' = Popped /\ SeenPushes' = SeenPushes /\ SeenPops' = SeenPops
  BY <1>1, <1>3, Counts DEF Pushed, Popped, SeenPushes, SeenPops
<1>5. producer' = [pc |-> "idle", arg |-> producer.arg] /\ producer.arg \in Item
  BY <1>1 DEF IInv, TypeOK, ObjectsInPlace
<1>6. CellsOK'
  <2>1. Ring!CellOK(tail_, destroyed, Slots)'
    BY <1>1 DEF IInv, CellsOK, Ring!CellOK
  <2>2. Ring!CellOK(head_, constructed, Slots)'
    BY <1>1, <1>3 DEF Ring!CellOK
  <2> QED  BY <2>1, <2>2 DEF CellsOK
<1>7. TypeOK'
  <2>1. /\ \A k \in 1 .. Len(head_'.stores) : head_'.stores[k].val \in Index
        /\ head_'.seen \in 1 .. Len(head_'.stores) /\ head_'.known \in Nat
    BY <1>3, Ring!CellTyped, RingAssumption, Sizes
  <2>2. sent' \in Seq(Item)
    BY <1>1, <1>5 DEF IInv, TypeOK
  <2>3. producer' \in [pc : {"idle", "load", "construct", "store"}, arg : Item \cup {Raw}]
    BY <1>5
  <2> QED  BY <1>1, <2>1, <2>2, <2>3 DEF IInv, TypeOK
<1>8. IndicesOrdered'
  BY <1>1, <1>4, <1>5, Bounds DEF IInv, IndicesOrdered
<1>9. AccessesCounted'
  BY <1>1 DEF IInv, AccessesCounted
<1>10. WritesPublished'
  <2> SUFFICES ASSUME NEW k \in Popped .. Pushed
               PROVE  slot[k % Slots].write <= head_'.stores[k + 2].acc
    BY <1>1, <1>4, Counts DEF WritesPublished
  <2>1. CASE k = Pushed
    <3>1. head_'.stores[k + 2].acc = constructed
      <4>1. k + 2 = Len(head_.stores) + 1
        BY <2>1, Counts
      <4> QED  BY <1>3, <4>1
    <3>2. k % Slots \in Index
      BY <2>1, OwnIndex, Counts
    <3> QED  BY <3>1, <3>2 DEF IInv, AccessesCounted
  <2>2. CASE k \in Popped .. Pushed - 1
    <3>1. k + 2 \in 1 .. Len(head_.stores)
      BY <2>2, Counts
    <3>2. head_'.stores[k + 2] = head_.stores[k + 2]
      BY <1>3, <3>1
    <3> QED  BY <2>2, <3>2 DEF IInv, WritesPublished
  <2> QED  BY <2>1, <2>2, Counts
<1>11. TakesPublished'
  <2>1. \A k \in Pushed + 1 .. Popped + N : k \in Pushed .. Popped + N
    BY Counts, Sizes
  <2> QED  BY <1>1, <1>4, <2>1 DEF IInv, TakesPublished
<1>12. ObjectsInPlace'
  <2>1. /\ sent \in Seq(Item) /\ Len(sent) = Pushed /\ Len(sent') = Pushed + 1
        /\ \A k \in 1 .. Pushed : sent'[k] = sent[k]
        /\ sent'[Pushed + 1] = producer.arg
    BY <1>1, <1>5 DEF IInv, TypeOK, ObjectsInPlace
  <2>2. alive /\ (consumer.pc = "store" => Popped < Pushed)
    BY <1>1, Counts DEF IInv, IndicesOrdered, ObjectsInPlace
  <2>3. ASSUME NEW k \in Popped .. Popped + N PROVE slot[k % Slots].object = Held(k)'
    <3>0. slot[k % Slots].object = Held(k) /\ k \in Nat /\ Pushed \in Nat /\ Popped \in Nat
      BY <2>2, SlotsApart, Counts DEF IInv, ObjectsInPlace
    <3>1. CASE k = Pushed
      <4>1. Held(k) = producer.arg
        BY <1>1, <3>0, <3>1 DEF Held
      <4>2. Held(k)' = sent'[k + 1]
        <5>1. Pushed' = k + 1 /\ k < Pushed' /\ k \in Nat
          BY <1>4, <3>0, <3>1
        <5>2. ~(k = Popped' /\ consumer'.pc = "store")
          BY <1>1, <1>4, <2>2, <3>0, <3>1
        <5> QED  BY <5>1, <5>2 DEF Held
      <4> QED  BY <2>1, <3>0, <3>1, <4>1, <4>2
    <3>2. CASE k < Pushed
      <4>1. k + 1 \in 1 .. Pushed
        BY <3>0, <3>2
      <4>2. sent'[k + 1] = sent[k + 1]
        BY <2>1, <4>1
      <4>3. Held(k)' = Held(k)
        BY <1>1, <1>4, <3>0, <3>2, <4>2 DEF Held
      <4> QED  BY <3>0, <4>3
    <3>3. CASE k > Pushed
      <4>1. Held(k) = Raw
        BY <3>0, <3>3 DEF Held
      <4>2. Held(k)' = Raw
        BY <1>4, <1>5, <3>0, <3>3 DEF Held
      <4> QED  BY <3>0, <4>1, <4>2
    <3> QED  BY <3>0, <3>1, <3>2, <3>3
  <2>4. consumer.pc = "store" => Popped + 1 \in 1 .. Pushed
    BY <2>2, Counts
  <2> QED  BY <1>1, <1>4, <1>5, <2>1, <2>2, <2>3, <2>4, Counts DEF IInv, ObjectsInPlace
<1> QED  BY <1>6, <1>7, <1>8, <1>9, <1>10, <1>11, <1>12 DEF IInv

-----------------------------------------------------------------------------
LEMMA PopTakeIInv == ASSUME IInv, PopTake PROVE IInv'
<1> DEFINE own == Popped % Slots
<1>1. /\ own \in Index /\ OwnValue(tail_) = own /\ destroyed \in Nat
      /\ consumer.pc = "take" /\ destroyed' = destroyed + 1
      /\ consumer' = [pc |-> "store", res |-> slot[own].object]
      /\ slot' = [slot EXCEPT ![own].object = Raw, ![own].take = destroyed + 1]
      /\ UNCHANGED <<tail_, head_, constructed, producer, alive, history>>
  BY OwnIndex, Counts DEF PopTake, Destroyed
<1>2. Pushed' = Pushed /\ Popped' = Popped /\ SeenPushes' = SeenPushes /\ SeenPops' = SeenPops
  BY <1>1 DEF Pushed, Popped, SeenPushes, SeenPops
<1>3. Popped < Pushed
  BY <1>1, Counts DEF IInv, IndicesOrdered
<1> HIDE DEF own
<1>4. /\ slot' \in [Index -> [object : Item \cup {Raw}, write : Nat, take : Nat]]
      /\ slot'[own].take = destroyed + 1 /\ slot'[own].write = slot[own].write /\ slot'[own].object = Raw
      /\ \A y \in Index : y # own => slot'[y] = slot[y]
      /\ slot[own].object \in Item \cup {Raw}
  <2>1. slot \in [Index -> [object : Item \cup {Raw}, write : Nat, take : Nat]]
    BY DEF IInv, TypeOK
  <2> DEFINE new == [object |-> Raw, write |-> slot[own].write, take |-> destroyed + 1]
  <2>2. slot' = [slot EXCEPT ![own] = [slot[own] EXCEPT !.object = Raw, !.take = destroyed + 1]]
    BY <1>1
  <2>3. /\ slot[own] \in [object : Item \cup {Raw}, write : Nat, take : Nat]
        /\ destroyed + 1 \in Nat /\ Raw \in Item \cup {Raw}
    BY <1>1, <2>1
  <2>4. /\ [slot[own] EXCEPT !.object = Raw, !.take = destroyed + 1] = new
        /\ slot[own].write \in Nat /\ slot[own].object \in Item \cup {Raw}
    <3> DEFINE r == slot[own]
               x == Raw
               n == destroyed + 1
    <3>1. r \in [object : Item \cup {Raw}, write : Nat, take : Nat]
      BY <2>3
    <3> HIDE DEF r, x, n
    <3>2. [r EXCEPT !.object = x, !.take = n] = [object |-> x, write |-> r.write, take |-> n]
      BY <3>1, Taken
    <3>3. r.write \in Nat /\ r.object \in Item \cup {Raw}
      BY <3>1
    <3> QED  BY <3>2, <3>3 DEF r, x, n
  <2>5. /\ new \in [object : Item \cup {Raw}, write : Nat, take : Nat]
        /\ new.write = slot[own].write /\ new.take = destroyed + 1 /\ new.object = Raw
    BY <2>3, <2>4
  <2> DEFINE Rec == [object : Item \cup {Raw}, write : Nat, take : Nat]
  <2>6. own \in Index /\ slot \in [Index -> Rec] /\ new \in Rec /\ slot' = [slot EXCEPT ![own] = new]
    BY <1>1, <2>1, <2>2, <2>4, <2>5
  <2> HIDE DEF new, Rec
  <2>7. slot' \in [Index -> Rec] /\ slot'[own] = new /\ \A y \in Index : y # own => slot'[y] = slot[y]
    BY <2>6, SlotSet
  <2> QED  BY <2>4, <2>5, <2>7 DEF Rec
<1>5. TypeOK'
  BY <1>1, <1>4 DEF IInv, TypeOK, history
<1>6. CellsOK'
  <2>1. Ring!CellOK(head_, constructed, Slots)'
    BY <1>1 DEF IInv, CellsOK, Ring!CellOK
  <2>2. Ring!CellOK(tail_, destroyed + 1, Slots)
    BY Ring!MoreAccesses, RingAssumption, Sizes DEF IInv, CellsOK
  <2>3. Ring!CellOK(tail_, destroyed, Slots)'
    BY <1>1, <2>2 DEF Ring!CellOK
  <2> QED  BY <2>1, <2>3 DEF CellsOK
<1>7. IndicesOrdered'
  BY <1>1, <1>2 DEF IInv, IndicesOrdered
<1>8. AccessesCounted'
  <2> SUFFICES ASSUME NEW y \in Index PROVE slot'[y].write <= constructed' /\ slot'[y].take <= destroyed'
    BY DEF AccessesCounted
  <2>1. slot[y].write <= constructed /\ slot[y].take <= destroyed /\ slot[y].take \in Nat
    BY DEF IInv, TypeOK, AccessesCounted
  <2>2. CASE y = own
    BY <1>1, <1>4, <2>1, <2>2
  <2>3. CASE y # own
    BY <1>1, <1>4, <2>1, <2>3
  <2> QED  BY <2>2, <2>3
<1>9. WritesPublished'
  <2> SUFFICES ASSUME NEW k \in Popped .. Pushed - 1
               PROVE  slot'[k % Slots].write <= head_.stores[k + 2].acc
    BY <1>1, <1>2 DEF WritesPublished
  <2>1. k % Slots \in Index
    BY Round, SlotsApart
  <2>2. slot'[k % Slots].write = slot[k % Slots].write
    BY <1>4, <2>1
  <2> QED  BY <2>2 DEF IInv, WritesPublished
<1>10. TakesPublished'
  <2> SUFFICES ASSUME NEW k \in Pushed .. Popped + N
               PROVE  slot'[k % Slots].take <= IF k < Slots THEN 0 ELSE tail_.stores[k - Slots + 2].acc
    BY <1>1, <1>2 DEF TakesPublished
  <2>1. k # Popped
    BY <1>3, Counts
  <2>2. k % Slots \in Index /\ k % Slots # own
    BY <2>1, Round, SlotsApart DEF own
  <2> QED  BY <1>4, <2>2 DEF IInv, TakesPublished
<1>11. ObjectsInPlace'
  <2>1. alive /\ \A k \in Popped .. Popped + N : slot[k % Slots].object = Held(k)
    BY <1>1 DEF IInv, ObjectsInPlace
  <2>2. slot[own].object = sent[Popped + 1]
    BY <1>1, <1>3, <2>1, Round DEF Held, own
  <2>3. ASSUME NEW k \in Popped .. Popped + N PROVE slot'[k % Slots].object = Held(k)'
    <3>1. CASE k = Popped
      <4>1. Held(k)' = Raw
        BY <1>1, <1>2, <1>3, <3>1 DEF Held
      <4> QED  BY <1>4, <3>1, <4>1 DEF own
    <3>2. CASE k # Popped
      <4>1. k % Slots \in Index /\ k % Slots # own
        BY <3>2, Round, SlotsApart DEF own
      <4>2. Held(k)' = Held(k)
        BY <1>1, <1>2, <3>2 DEF Held, history
      <4> QED  BY <1>4, <2>1, <4>1, <4>2
    <3> QED  BY <3>1, <3>2
  <2> QED  BY <1>1, <1>2, <2>1, <2>2, <2>3 DEF IInv, ObjectsInPlace, history
<1> QED  BY <1>5, <1>6, <1>7, <1>8, <1>9, <1>10, <1>11 DEF IInv

LEMMA PopStoreIInv == ASSUME IInv, PopStore PROVE IInv'
<1>1. /\ consumer.pc = "store" /\ tail_' = ReleaseStore(tail_, NextIndex(OwnValue(tail_)), destroyed)
      /\ delivered' = Append(delivered, consumer.res) /\ consumer' = [pc |-> "idle", res |-> Raw]
      /\ UNCHANGED <<slot, head_, constructed, destroyed, producer, alive, sent>>
  BY DEF PopStore, StoreTail
<1>2. NextIndex(OwnValue(tail_)) = Len(tail_.stores) % Slots
  <2>1. Popped \in Nat /\ Slots \in Nat \ {0}
    BY Bounds, Sizes
  <2>2. ((Popped % Slots) + 1) % Slots = (Popped + 1) % Slots
    BY <2>1, Ring!ModNext, RingAssumption
  <2>3. OwnValue(tail_) = Popped % Slots /\ Popped + 1 = Len(tail_.stores)
    BY OwnIndex, Counts
  <2> QED  BY <2>2, <2>3 DEF NextIndex
<1>3. /\ Ring!CellOK(tail_', destroyed, Slots) /\ tail_'.seen = tail_.seen
      /\ Len(tail_'.stores) = Len(tail_.stores) + 1
      /\ \A k \in 1 .. Len(tail_.stores) : tail_'.stores[k] = tail_.stores[k]
      /\ tail_'.stores[Len(tail_.stores) + 1].acc = destroyed
  <2>1. Ring!IsStore(tail_', tail_, destroyed, Slots)
    BY <1>1, <1>2 DEF Ring!IsStore, ReleaseStore, Ring!ReleaseStore
  <2> QED  BY <2>1, Ring!StoreCell, RingAssumption, Sizes DEF IInv, CellsOK
<1>4. Pushed' = Pushed /\ Popped' = Popped + 1 /\ SeenPushes' = SeenPushes /\ SeenPops' = SeenPops
  BY <1>1, <1>3, Counts DEF Pushed, Popped, SeenPushes, SeenPops
<1>5. Popped < SeenPushes /\ Popped < Pushed
  BY <1>1, Counts DEF IInv, IndicesOrdered
<1>6. CellsOK'
  <2>1. Ring!CellOK(head_, constructed, Slots)'
    BY <1>1 DEF IInv, CellsOK, Ring!CellOK
  <2>2. Ring!CellOK(tail_, destroyed, Slots)'
    BY <1>1, <1>3 DEF Ring!CellOK
  <2> QED  BY <2>1, <2>2 DEF CellsOK
<1>7. TypeOK'
  <2>1. /\ \A k \in 1 .. Len(tail_'.stores) : tail_'.stores[k].val \in Index
        /\ tail_'.seen \in 1 .. Len(tail_'.stores) /\ tail_'.known \in Nat
    BY <1>3, Ring!CellTyped, RingAssumption, Sizes
  <2>2. delivered' \in Seq(Item \cup {Raw})
    BY <1>1 DEF IInv, TypeOK
  <2>3. consumer' \in [pc : {"idle", "load", "take", "store"}, res : Item \cup {Raw}]
    BY <1>1
  <2> QED  BY <1>1, <2>1, <2>2, <2>3 DEF IInv, TypeOK
<1>8. IndicesOrdered'
  BY <1>1, <1>4, <1>5, Bounds DEF IInv, IndicesOrdered
<1>9. AccessesCounted'
  BY <1>1 DEF IInv, AccessesCounted
<1>10. WritesPublished'
  <2>1. \A k \in Popped + 1 .. Pushed - 1 : k \in Popped .. Pushed - 1
    BY Counts
  <2> QED  BY <1>1, <1>4, <2>1 DEF IInv, WritesPublished
<1>11. TakesPublished'
  <2> SUFFICES ASSUME NEW k \in Pushed .. Popped + 1 + N
               PROVE  slot[k % Slots].take <= IF k < Slots THEN 0 ELSE tail_'.stores[k - Slots + 2].acc
    BY <1>1, <1>4 DEF TakesPublished
  <2>0. /\ Popped \in Nat /\ Pushed \in Nat /\ N \in Nat /\ Slots = N + 1
        /\ Len(tail_.stores) = Popped + 1
    BY Counts, Sizes
  <2>1. CASE k = Popped + Slots
    <3>1. k \in Nat /\ k >= Slots /\ k - Slots + 2 = Len(tail_.stores) + 1
      BY <2>0, <2>1
    <3>2. tail_'.stores[k - Slots + 2].acc = destroyed
      BY <1>3, <3>1
    <3>3. k % Slots \in Index
      BY <3>1, OwnIndex
    <3>4. slot[k % Slots].take <= destroyed
      BY <3>3 DEF IInv, AccessesCounted
    <3>5. ~(k < Slots)
      BY <2>0, <3>1
    <3> QED  BY <3>2, <3>4, <3>5
  <2>2. CASE k \in Pushed .. Popped + N
    <3>1. slot[k % Slots].take <= IF k < Slots THEN 0 ELSE tail_.stores[k - Slots + 2].acc
      BY <2>2 DEF IInv, TakesPublished
    <3>2. ASSUME ~(k < Slots) PROVE tail_'.stores[k - Slots + 2] = tail_.stores[k - Slots + 2]
      <4>1. k - Slots + 2 \in 1 .. Len(tail_.stores)
        BY <2>0, <2>2, <3>2
      <4> QED  BY <1>3, <4>1
    <3> QED  BY <3>1, <3>2
  <2>3. k = Popped + Slots \/ k \in Pushed .. Popped + N
    BY <2>0
  <2> QED  BY <2>1, <2>2, <2>3
<1>12. ObjectsInPlace'
  <2>0. alive /\ \A k \in Popped .. Popped + N : slot[k % Slots].object = Held(k)
    BY <1>1 DEF IInv, ObjectsInPlace
  <2>1. Len(sent) = Pushed /\ Len(delivered') = Popped + 1
    BY <1>1 DEF IInv, TypeOK, ObjectsInPlace
  <2>2. ASSUME NEW k \in Popped + 1 .. Popped + 1 + N PROVE slot[k % Slots].object = Held(k)'
    <3>1. /\ Popped \in Nat /\ Pushed \in Nat /\ N \in Nat /\ Slots = N + 1 /\ k \in Nat
          /\ Pushed <= Popped + N
      BY Counts, Sizes
    <3>2. CASE k = Popped + Slots
      <4>1. k % Slots = Popped % Slots
        BY <3>1, <3>2, Sizes, Ring!ModRound, RingAssumption
      <4>2. Held(Popped) = Raw
        BY <1>1, <1>5 DEF Held
      <4>3. ~(k < Pushed) /\ k # Pushed
        BY <3>1, <3>2
      <4>4. Held(k)' = Raw
        BY <1>1, <1>4, <4>3 DEF Held
      <4> QED  BY <2>0, <4>1, <4>2, <4>4, Round
    <3>3. CASE k # Popped + Slots
      <4>1. k \in Popped .. Popped + N /\ k # Popped
        BY <3>1, <3>3
      <4>2. Held(k)' = Held(k)
        BY <1>1, <1>4, <4>1 DEF Held
      <4> QED  BY <2>0, <4>1, <4>2
    <3> QED  BY <3>2, <3>3
  <2>3. consumer'.pc = "idle"
    BY <1>1
  <2>4. producer.pc # "idle" => producer.arg \in Item
    BY DEF IInv, ObjectsInPlace
  <2> QED  BY <1>1, <1>4, <2>0, <2>1, <2>2, <2>3, <2>4 DEF ObjectsInPlace
<1> QED  BY <1>6, <1>7, <1>8, <1>9, <1>10, <1>11, <1>12 DEF IInv

(* The destructor walks the slots of what is pushed and not yet popped.    *)
LEMMA InsideOnly ==
  ASSUME IInv
  PROVE  Inside(OwnValue(tail_), OwnValue(head_)) = {k % Slots : k \in Popped .. Pushed - 1}
<1>1. /\ Popped \in Nat /\ Pushed \in Nat /\ Slots \in Nat \ {0} /\ Popped <= Pushed
      /\ Pushed < Popped + Slots
  BY Counts, Sizes
<1>2. OwnValue(tail_) = Popped % Slots /\ OwnValue(head_) = Pushed % Slots
  BY OwnIndex
<1>3. ((Pushed % Slots) + Slots - (Popped % Slots)) % Slots = Pushed - Popped
  BY <1>1, Ring!ModDiff, RingAssumption
<1>4. Inside(OwnValue(tail_), OwnValue(head_))
        = {((Popped % Slots) + k) % Slots : k \in 0 .. (Pushed - Popped) - 1}
  BY <1>2, <1>3 DEF Inside
<1>5. \A k \in 0 .. (Pushed - Popped) - 1 :
        /\ ((Popped % Slots) + k) % Slots = (Popped + k) % Slots
        /\ Popped + k \in Popped .. Pushed - 1
  <2> SUFFICES ASSUME NEW k \in 0 .. (Pushed - Popped) - 1
               PROVE  /\ ((Popped % Slots) + k) % Slots = (Popped + k) % Slots
                      /\ Popped + k \in Popped .. Pushed - 1
    OBVIOUS
  <2>1. k \in Nat /\ Popped + k \in Popped .. Pushed - 1
    BY <1>1
  <2>2. ((Popped % Slots) + k) % Slots = (Popped + k) % Slots
    BY <1>1, <2>1, Ring!ModAdd, RingAssumption
  <2> QED  BY <2>1, <2>2
<1>6. \A k \in Popped .. Pushed - 1 :
        /\ k - Popped \in 0 .. (Pushed - Popped) - 1
        /\ Popped + (k - Popped) = k
  BY <1>1
<1> QED  BY <1>4, <1>5, <1>6

LEMMA DestructorIInv == ASSUME IInv, Destructor PROVE IInv'
<1>1. /\ alive /\ producer.pc = "idle" /\ consumer.pc = "idle" /\ alive' = FALSE
      /\ slot' = [i \in Index |-> IF i \in Inside(OwnValue(tail_), OwnValue(head_))
                                  THEN [slot[i] EXCEPT !.object = Raw] ELSE slot[i]]
      /\ UNCHANGED <<head_, tail_, constructed, destroyed, producer, consumer, history>>
  BY DEF Destructor
<1>2. /\ CellsOK' /\ Pushed' = Pushed /\ Popped' = Popped
      /\ SeenPushes' = SeenPushes /\ SeenPops' = SeenPops
  BY <1>1, SameCells
<1>3. ASSUME NEW x \in Index
      PROVE  /\ slot'[x] \in [object : Item \cup {Raw}, write : Nat, take : Nat]
             /\ slot'[x].write = slot[x].write /\ slot'[x].take = slot[x].take
             /\ slot'[x].object = Raw
  <2>1. slot[x] \in [object : Item \cup {Raw}, write : Nat, take : Nat]
    BY DEF IInv, TypeOK
  <2>2. CASE x \in Inside(OwnValue(tail_), OwnValue(head_))
    <3>1. slot'[x] = [slot[x] EXCEPT !.object = Raw]
      BY <1>1, <2>2
    <3> QED  BY <2>1, <3>1
  <2>3. CASE x \notin Inside(OwnValue(tail_), OwnValue(head_))
    <3>1. PICK k \in Popped .. Popped + N : k % Slots = x
      BY SlotsApart
    <3>2. ~(k < Pushed)
      <4>1. k < Pushed => k \in Popped .. Pushed - 1
        BY Counts, Sizes
      <4> QED  BY <2>3, <3>1, <4>1, InsideOnly
    <3>3. slot[x].object = Held(k)
      BY <1>1, <3>1 DEF IInv, ObjectsInPlace
    <3>4. Held(k) = Raw
      BY <1>1, <3>2 DEF Held
    <3>5. slot'[x] = slot[x]
      BY <1>1, <2>3
    <3> QED  BY <2>1, <3>3, <3>4, <3>5
  <2> QED  BY <2>2, <2>3
<1>4. TypeOK'
  <2>1. slot' \in [Index -> [object : Item \cup {Raw}, write : Nat, take : Nat]]
    BY <1>1, <1>3
  <2> QED  BY <1>1, <2>1 DEF IInv, TypeOK, history
<1>5. IndicesOrdered'
  BY <1>1, <1>2 DEF IInv, IndicesOrdered
<1>6. AccessesCounted'
  BY <1>1, <1>3 DEF IInv, AccessesCounted
<1>7. WritesPublished'
  <2>1. \A k \in Popped .. Pushed - 1 : k % Slots \in Index
    BY Round, SlotsApart
  <2> QED  BY <1>1, <1>2, <1>3, <2>1 DEF IInv, WritesPublished
<1>8. TakesPublished'
  <2>1. \A k \in Pushed .. Popped + N : k % Slots \in Index
    BY Round, SlotsApart
  <2> QED  BY <1>1, <1>2, <1>3, <2>1 DEF IInv, TakesPublished
<1>9. ObjectsInPlace'
  BY <1>1, <1>2, <1>3 DEF IInv, ObjectsInPlace, history
<1> QED  BY <1>2, <1>4, <1>5, <1>6, <1>7, <1>8, <1>9 DEF IInv

-----------------------------------------------------------------------------
LEMMA InitIInv == ASSUME Init PROVE IInv
<1> DEFINE store == [val |-> 0, acc |-> 0]
<1>1. /\ tail_ = [stores |-> <<store>>, seen |-> 1, known |-> 0] /\ head_ = tail_
      /\ constructed = 0 /\ destroyed = 0 /\ sent = <<>> /\ delivered = <<>>
      /\ slot = [i \in Index |-> [object |-> Raw, write |-> 0, take |-> 0]]
      /\ producer = [pc |-> "idle", arg |-> Raw] /\ consumer = [pc |-> "idle", res |-> Raw]
  BY DEF Init, Cell
<1>2. /\ tail_.stores = <<store>> /\ tail_.seen = 1 /\ tail_.known = 0
      /\ Len(tail_.stores) = 1 /\ tail_.stores[1] = store /\ store.val = 0 /\ store.acc = 0
      /\ tail_.stores \in Seq([val : Nat, acc : Nat])
  BY <1>1
<1>3. tail_ \in Ring!Cells
  BY <1>1, <1>2 DEF Ring!Cells
<1>4. 0 % Slots = 0
  <2>1. 0 = Slots * 0 + 0 /\ 0 \in 0 .. Slots - 1 /\ 0 \in Int /\ 0 \in Nat
    BY Sizes
  <2> QED  BY <2>1, Sizes, Ring!ModUnique, RingAssumption
<1> HIDE DEF store
<1>5. Ring!CellOK(tail_, 0, Slots)
  <2>1. \A k \in 1 .. Len(tail_.stores) : k = 1
    BY <1>2
  <2>2. \A k \in 1 .. tail_.seen : k = 1
    BY <1>2
  <2>3. (1 - 1) % Slots = 0
    BY <1>4
  <2> QED  BY <1>2, <1>3, <2>1, <2>2, <2>3 DEF Ring!CellOK
<1>6. CellsOK
  BY <1>1, <1>5 DEF CellsOK
<1>7. Pushed = 0 /\ Popped = 0 /\ SeenPushes = 0 /\ SeenPops = 0
  BY <1>1, <1>2 DEF Pushed, Popped, SeenPushes, SeenPops
<1>8. TypeOK
  <2>1. /\ \A k \in 1 .. Len(tail_.stores) : tail_.stores[k].val \in Index
        /\ tail_.seen \in 1 .. Len(tail_.stores) /\ tail_.known \in Nat
    BY <1>5, Ring!CellTyped, RingAssumption, Sizes
  <2>2. /\ slot \in [Index -> [object : Item \cup {Raw}, write : Nat, take : Nat]]
        /\ producer \in [pc : {"idle", "load", "construct", "store"}, arg : Item \cup {Raw}]
        /\ consumer \in [pc : {"idle", "load", "take", "store"}, res : Item \cup {Raw}]
        /\ constructed \in Nat /\ destroyed \in Nat
        /\ sent \in Seq(Item) /\ delivered \in Seq(Item \cup {Raw})
    BY <1>1
  <2>3. alive \in BOOLEAN
    BY DEF Init
  <2> QED  BY <1>1, <2>1, <2>2, <2>3, Sizes DEF TypeOK
<1>9. IndicesOrdered
  BY <1>1, <1>7, Sizes DEF IndicesOrdered
<1>10. AccessesCounted
  BY <1>1 DEF AccessesCounted
<1>11. WritesPublished
  BY <1>7 DEF WritesPublished
<1>12. TakesPublished
  <2> SUFFICES ASSUME NEW k \in 0 .. N PROVE slot[k % Slots].take <= IF k < Slots THEN 0 ELSE tail_.stores[k - Slots + 2].acc
    BY <1>7, Sizes DEF TakesPublished
  <2>1. k \in Nat /\ k < Slots
    BY Sizes
  <2>2. k % Slots \in Index
    BY <2>1, Sizes, Ring!DivMod, RingAssumption
  <2> QED  BY <1>1, <2>1, <2>2
<1>13. ObjectsInPlace
  <2>1. ASSUME NEW k \in 0 .. N PROVE slot[k % Slots].object = Held(k)
    <3>1. k \in Nat
      BY Sizes
    <3>2. k % Slots \in Index
      BY <3>1, Sizes, Ring!DivMod, RingAssumption
    <3> QED  BY <1>1, <1>7, <3>1, <3>2 DEF Held
  <2>2. alive
    BY DEF Init
  <2>3. \A k \in Popped .. Popped + N : k \in 0 .. N
    BY <1>7, Sizes
  <2> QED  BY <1>1, <1>7, <2>1, <2>2, <2>3 DEF ObjectsInPlace
<1> QED  BY <1>6, <1>8, <1>9, <1>10, <1>11, <1>12, <1>13 DEF IInv

LEMMA StutterIInv == ASSUME IInv, UNCHANGED vars PROVE IInv'
<1>1. /\ CellsOK' /\ Pushed' = Pushed /\ Popped' = Popped
      /\ SeenPushes' = SeenPushes /\ SeenPops' = SeenPops
      /\ AccessesCounted' /\ WritesPublished' /\ TakesPublished'
  BY SameCells, SameStores DEF vars
<1>2. TypeOK' /\ IndicesOrdered'
  BY <1>1 DEF vars, history, IInv, TypeOK, IndicesOrdered
<1>3. ObjectsInPlace'
  <2>1. \A k : Held(k)' = Held(k)
    BY <1>1 DEF vars, history, Held
  <2> QED  BY <1>1, <2>1 DEF vars, history, IInv, ObjectsInPlace
<1> QED  BY <1>1, <1>2, <1>3 DEF IInv

LEMMA NextIInv == ASSUME IInv, [Next]_vars PROVE IInv'
<1>1. ASSUME NEW i \in 1 .. Len(head_.stores), PopLoad(i) PROVE IInv'
  BY <1>1, PopLoadIInv
<1> QED
  BY <1>1, TryEmplaceIInv, EmplaceLoadIInv, EmplaceConstructIInv, EmplaceThrowsIInv, EmplaceStoreIInv,
     PopIInv, PopTakeIInv, PopStoreIInv, DestructorIInv, StutterIInv DEF Next, Producer, Consumer

(* The counts keep the two threads apart and the items in order.           *)
THEOREM Invariance == Spec => []IInv
<1>1. Init => IInv
  BY InitIInv
<1>2. IInv /\ [Next]_vars => IInv'
  BY NextIInv
<1> QED  BY <1>1, <1>2, PTL DEF Spec

(* Neither thread accesses a slot unless the other thread's last access to *)
(* it happened before, whatever the capacity and however stale its loads.  *)
THEOREM RaceFreedom == Spec => []NoDataRace
<1>1. ASSUME IInv PROVE NoDataRace
  <2>1. ASSUME producer.pc = "construct" PROVE slot[OwnValue(head_)].take <= tail_.known
    <3>1. Pushed < SeenPops + N /\ Pushed \in Pushed .. Popped + N
      BY <1>1, <2>1, Counts, Sizes DEF IInv, IndicesOrdered
    <3>2. slot[Pushed % Slots].take <= IF Pushed < Slots THEN 0 ELSE tail_.stores[Pushed - Slots + 2].acc
      BY <1>1, <3>1 DEF IInv, TakesPublished
    <3>3. /\ tail_.known \in Nat /\ slot[Pushed % Slots].take \in Nat
          /\ OwnValue(head_) = Pushed % Slots
      <4>1. Pushed % Slots \in Index
        BY <1>1, OwnIndex, Counts
      <4> QED  BY <1>1, <4>1, OwnIndex DEF IInv, TypeOK
    <3>4. CASE Pushed < Slots
      BY <3>2, <3>3, <3>4
    <3>5. CASE ~(Pushed < Slots)
      <4>1. Pushed - Slots + 2 \in 1 .. tail_.seen /\ Pushed - Slots + 2 \in 1 .. Len(tail_.stores)
        <5>1. Pushed - Slots + 2 \in Int /\ 1 <= Pushed - Slots + 2 /\ Pushed - Slots + 2 <= SeenPops + 1
          BY <1>1, <3>1, <3>5, Bounds
        <5>2. tail_.seen = SeenPops + 1 /\ Len(tail_.stores) = Popped + 1
          BY <1>1, Counts
        <5>3. SeenPops <= Popped /\ SeenPops \in Nat /\ Popped \in Nat
          BY <1>1, Bounds
        <5> QED  BY <5>1, <5>2, <5>3
      <4>2. tail_.stores[Pushed - Slots + 2].acc <= tail_.known
        BY <1>1, <4>1 DEF IInv, CellsOK, Ring!CellOK
      <4>3. tail_.stores[Pushed - Slots + 2].acc \in Nat
        BY <1>1, <4>1, Ring!CellFacts, RingAssumption, Sizes DEF IInv, CellsOK
      <4> QED  BY <3>2, <3>3, <3>5, <4>2, <4>3
    <3> QED  BY <3>4, <3>5
  <2>2. ASSUME consumer.pc = "take" PROVE slot[OwnValue(tail_)].write <= head_.known
    <3>1. Popped < SeenPushes /\ Popped \in Popped .. Pushed - 1
      BY <1>1, <2>2, Counts DEF IInv, IndicesOrdered
    <3>2. slot[Popped % Slots].write <= head_.stores[Popped + 2].acc
      BY <1>1, <3>1 DEF IInv, WritesPublished
    <3>3. /\ head_.known \in Nat /\ slot[Popped % Slots].write \in Nat
          /\ OwnValue(tail_) = Popped % Slots
      <4>1. Popped % Slots \in Index
        BY <1>1, OwnIndex, Counts
      <4> QED  BY <1>1, <4>1, OwnIndex DEF IInv, TypeOK
    <3>4. Popped + 2 \in 1 .. head_.seen /\ Popped + 2 \in 1 .. Len(head_.stores)
      <4>1. head_.seen = SeenPushes + 1 /\ Len(head_.stores) = Pushed + 1
        BY <1>1, Counts
      <4>2. Popped \in Nat /\ SeenPushes \in Nat /\ Pushed \in Nat /\ SeenPushes <= Pushed
        BY <1>1, Bounds
      <4> QED  BY <3>1, <4>1, <4>2
    <3>5. head_.stores[Popped + 2].acc <= head_.known
      BY <1>1, <3>4 DEF IInv, CellsOK, Ring!CellOK
    <3>6. head_.stores[Popped + 2].acc \in Nat
      BY <1>1, <3>4, Ring!CellFacts, RingAssumption, Sizes DEF IInv, CellsOK
    <3> QED  BY <3>2, <3>3, <3>5, <3>6
  <2> QED  BY <2>1, <2>2 DEF NoDataRace
<1> QED  BY <1>1, Invariance, PTL

(* An object is constructed only in raw storage, and moved out of and      *)
(* destroyed only where there is one, whichever constructors throw.        *)
THEOREM LifetimesKept == Spec => []LifetimesRespected
<1>1. ASSUME IInv PROVE LifetimesRespected
  <2>1. ASSUME producer.pc = "construct" PROVE slot[OwnValue(head_)].object = Raw
    <3>1. slot[Pushed % Slots].object = Held(Pushed)
      BY <1>1, <2>1, Round DEF IInv, ObjectsInPlace
    <3>2. Held(Pushed) = Raw
      BY <1>1, <2>1, Counts DEF Held
    <3> QED  BY <1>1, <3>1, <3>2, OwnIndex
  <2>2. ASSUME consumer.pc = "take" PROVE slot[OwnValue(tail_)].object # Raw
    <3>1. slot[Popped % Slots].object = Held(Popped)
      BY <1>1, <2>2, Round DEF IInv, ObjectsInPlace
    <3>2. Popped < Pushed
      BY <1>1, <2>2, Counts DEF IInv, IndicesOrdered
    <3>3. Held(Popped) = sent[Popped + 1]
      BY <2>2, <3>2 DEF Held
    <3>4. Popped + 1 \in 1 .. Len(sent) /\ sent \in Seq(Item)
      BY <1>1, <3>2, Counts DEF IInv, ObjectsInPlace, TypeOK
    <3>5. sent[Popped + 1] \in Item
      BY <3>4, ElementOfSeq
    <3> QED  BY <1>1, <3>1, <3>3, <3>5, OwnIndex, Sizes
  <2> QED  BY <2>1, <2>2 DEF LifetimesRespected
<1> QED  BY <1>1, Invariance, PTL

(* The destructor leaves no object behind.                                 *)
THEOREM NothingLeaks == Spec => []NoLeak
<1>1. IInv => NoLeak
  BY DEF IInv, ObjectsInPlace, NoLeak
<1> QED  BY <1>1, Invariance, PTL

-----------------------------------------------------------------------------
(* The queue the ring implements holds what is pushed and not yet popped.  *)
LEMMA QueueContents ==
  ASSUME IInv
  PROVE  /\ Len(sent) = Pushed /\ Len(delivered) = Popped /\ Pushed \in Nat /\ Popped \in Nat
         /\ sent \in Seq(Item) /\ Popped <= Pushed
         /\ Len(Queue) = Pushed - Popped /\ Queue \in Seq(Item)
         /\ \A k \in 1 .. Pushed - Popped : Queue[k] = sent[Popped + k]
<1>1. /\ Len(sent) = Pushed /\ Len(delivered) = Popped /\ Pushed \in Nat /\ Popped \in Nat
      /\ sent \in Seq(Item) /\ Popped <= Pushed
  BY Counts DEF IInv, TypeOK, ObjectsInPlace
<1>2. \A k \in Popped + 1 .. Pushed : sent[k] \in Item
  BY <1>1, ElementOfSeq
<1>3. Queue = SubSeq(sent, Popped + 1, Pushed) /\ Popped + 1 \in Int /\ Pushed \in Int
  BY <1>1 DEF Queue
<1>4. /\ Queue \in Seq(Item)
      /\ Len(Queue) = IF Popped + 1 <= Pushed THEN Pushed - (Popped + 1) + 1 ELSE 0
      /\ \A k \in 1 .. Pushed - (Popped + 1) + 1 : Queue[k] = sent[Popped + 1 + k - 1]
  BY <1>2, <1>3, SubSeqProperties
<1>5. Len(Queue) = Pushed - Popped
  BY <1>1, <1>4
<1>6. ASSUME NEW k \in 1 .. Pushed - Popped PROVE Queue[k] = sent[Popped + k]
  <2>1. k \in 1 .. Pushed - (Popped + 1) + 1 /\ Popped + 1 + k - 1 = Popped + k
    BY <1>1
  <2> QED  BY <1>4, <2>1
<1> QED  BY <1>1, <1>4, <1>5, <1>6

-----------------------------------------------------------------------------
LEMMA EmplaceStorePushes == ASSUME IInv, EmplaceStore PROVE Abstract!Push(producer.arg)
<1>1. /\ sent' = Append(sent, producer.arg) /\ delivered' = delivered /\ producer.pc = "store"
      /\ producer.arg \in Item
  BY DEF EmplaceStore, IInv, ObjectsInPlace
<1>2. Len(Queue) < N
  <2>1. Pushed < SeenPops + N /\ SeenPops <= Popped
    BY <1>1, Counts DEF IInv, IndicesOrdered
  <2>2. Len(Queue) = Pushed - Popped
    BY QueueContents
  <2> QED  BY <2>1, <2>2, Bounds
<1>3. Queue' = Append(Queue, producer.arg)
  <2> DEFINE n == Pushed - Popped
             new == Append(Queue, producer.arg)
             q == SubSeq(sent', Popped + 1, Pushed + 1)
  <2>1. /\ sent' \in Seq(Item) /\ Len(sent') = Pushed + 1 /\ sent'[Pushed + 1] = producer.arg
        /\ \A k \in 1 .. Pushed : sent'[k] = sent[k]
    BY <1>1, QueueContents, AppendProperties
  <2>2. Queue' = q
    BY <1>1, <2>1, QueueContents DEF Queue
  <2>3. /\ new \in Seq(Item) /\ Len(new) = n + 1 /\ new[n + 1] = producer.arg
        /\ \A k \in 1 .. n : new[k] = sent[Popped + k]
    BY <1>1, QueueContents, AppendProperties
  <2>4. /\ Popped \in Nat /\ Pushed \in Nat /\ Popped <= Pushed /\ n \in Nat
    BY QueueContents
  <2>5. /\ q \in Seq(Item) /\ Len(q) = n + 1
        /\ \A k \in 1 .. n + 1 : q[k] = sent'[Popped + k]
    <3>1. \A k \in Popped + 1 .. Pushed + 1 : sent'[k] \in Item
      BY <2>1, <2>4, ElementOfSeq
    <3>2. /\ q \in Seq(Item)
          /\ Len(q) = IF Popped + 1 <= Pushed + 1 THEN (Pushed + 1) - (Popped + 1) + 1 ELSE 0
          /\ \A k \in 1 .. (Pushed + 1) - (Popped + 1) + 1 : q[k] = sent'[(Popped + 1) + k - 1]
      BY <2>4, <3>1, SubSeqProperties
    <3> HIDE DEF q
    <3>3. Len(q) = n + 1
      BY <2>4, <3>2
    <3>4. \A k \in 1 .. n + 1 : /\ k \in 1 .. (Pushed + 1) - (Popped + 1) + 1
                                /\ (Popped + 1) + k - 1 = Popped + k
      BY <2>4
    <3> QED  BY <3>2, <3>3, <3>4
  <2>6. ASSUME NEW k \in 1 .. n + 1 PROVE q[k] = new[k]
    <3>1. CASE k = n + 1
      BY <2>1, <2>3, <2>4, <2>5, <3>1
    <3>2. CASE k \in 1 .. n
      <4>1. Popped + k \in 1 .. Pushed
        BY <2>4, <3>2
      <4> QED  BY <2>1, <2>3, <2>5, <3>2, <4>1
    <3> HIDE DEF n, q, new
    <3>3. k = n + 1 \/ k \in 1 .. n
      BY <2>4
    <3> QED  BY <3>1, <3>2, <3>3, Zenon
  <2> HIDE DEF q, new
  <2>7. q = new
    BY <2>3, <2>5, <2>6, SeqEqual
  <2> QED  BY <2>2, <2>7 DEF new
<1> QED  BY <1>1, <1>2, <1>3 DEF Abstract!Push

LEMMA PopStorePops == ASSUME IInv, PopStore PROVE Abstract!Pop
<1>1. /\ delivered' = Append(delivered, consumer.res) /\ sent' = sent /\ consumer.pc = "store"
  BY DEF PopStore
<1>2. Popped < Pushed /\ consumer.res = sent[Popped + 1]
  BY <1>1, Counts DEF IInv, IndicesOrdered, ObjectsInPlace
<1>3. /\ Popped \in Nat /\ Pushed \in Nat /\ Len(sent) = Pushed /\ Len(delivered) = Popped
      /\ sent \in Seq(Item) /\ Len(Queue) = Pushed - Popped
  BY QueueContents
<1>4. Queue = SubSeq(sent, Popped + 1, Pushed)
  BY <1>3 DEF Queue
<1>5. Head(Queue) = sent[Popped + 1] /\ Tail(Queue) = SubSeq(sent, (Popped + 1) + 1, Pushed)
  <2>1. Popped + 1 \in 1 .. Len(sent) /\ Pushed \in Popped + 1 .. Len(sent)
    BY <1>2, <1>3
  <2> QED  BY <1>3, <1>4, <2>1, HeadTailOfSubSeq
<1>6. Queue' = SubSeq(sent, (Popped + 1) + 1, Pushed)
  <2>1. Len(delivered') = Popped + 1
    BY <1>1, <1>3 DEF IInv, TypeOK
  <2> QED  BY <1>1, <1>3, <2>1 DEF Queue
<1>7. Queue # <<>>
  BY <1>2, <1>3
<1> QED  BY <1>1, <1>2, <1>5, <1>6, <1>7 DEF Abstract!Pop

(* The ring implements the bounded FIFO queue, whatever its capacity: the  *)
(* store of head_ is the push, and the store of tail_ the pop.             *)
THEOREM Implementation == Spec => ImplementsBoundedFifo
<1>1. Init => Abstract!Init
  <2> SUFFICES ASSUME Init PROVE Abstract!Init
    OBVIOUS
  <2>1. Len(Queue) = 0 /\ Queue \in Seq(Item) /\ delivered = <<>>
    <3>1. IInv /\ delivered = <<>> /\ sent = <<>>
      BY InitIInv DEF Init
    <3>2. Pushed = 0 /\ Popped = 0
      BY <3>1, QueueContents
    <3> QED  BY <3>1, <3>2, QueueContents
  <2> QED  BY <2>1, EmptySeq DEF Abstract!Init
<1>2. IInv /\ [Next]_vars => [Abstract!Next]_<<Queue, delivered>>
  <2> SUFFICES ASSUME IInv, [Next]_vars PROVE Abstract!Next \/ UNCHANGED history
    BY DEF Queue, history
  <2>1. CASE EmplaceStore
    <3>1. producer.arg \in Item
      BY <2>1 DEF EmplaceStore, IInv, ObjectsInPlace
    <3> QED  BY <2>1, <3>1, EmplaceStorePushes DEF Abstract!Next
  <2>2. CASE PopStore
    BY <2>2, PopStorePops DEF Abstract!Next
  <2>3. CASE ~EmplaceStore /\ ~PopStore
    BY <2>3 DEF Next, vars, history, Producer, Consumer, Destructor, TryEmplace, EmplaceLoad,
         EmplaceConstruct, EmplaceThrows, Pop, PopLoad, PopTake, PopThrows
  <2> QED  BY <2>1, <2>2, <2>3
<1> QED  BY <1>1, <1>2, Invariance, PTL DEF Spec, ImplementsBoundedFifo, Abstract!Spec
=============================================================================

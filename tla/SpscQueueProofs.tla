-------------------------- MODULE SpscQueueProofs --------------------------
(***************************************************************************)
(* For any capacity, spsc_queue never lets its two threads race on a slot, *)
(* refuses an item only when it is full, and is a FIFO queue.              *)
(*                                                                         *)
(* The inductive invariant counts: a store of tail is a push, a store of   *)
(* head a pop, and the kth is that of slot k % kSlots.  What the other     *)
(* thread has seen of them lags behind, but never so far that the two are  *)
(* at the same slot; and each store publishes the accesses before it.      *)
(***************************************************************************)
EXTENDS SpscQueue, Integers, SequenceTheorems, TLAPS

(* The arithmetic of a ring of K slots: the position after a turns is      *)
(* a % K, one more turn is the next position, K more the same, and fewer   *)
(* than K lead to another.  Then, what loads and stores do to an atomic    *)
(* index that goes round the ring.                                         *)

LEMMA MulMono ==
  ASSUME NEW K \in Nat \ {0}, NEW d \in Int
  PROVE  K * d \in Int /\ (d >= 1 => K * d >= K) /\ (d <= 0 => K * d <= 0)
OBVIOUS

LEMMA DivMod ==
  ASSUME NEW K \in Nat \ {0}, NEW a \in Nat
  PROVE  a \div K \in Int /\ a % K \in 0 .. K - 1 /\ a % K = a - K * (a \div K)
<1>1. K \in Nat /\ K > 0
  OBVIOUS
<1>2. a \div K \in Int
  BY <1>1
<1>3. a % K \in Int /\ a % K >= 0 /\ a % K < K
  BY <1>1
<1>4. a % K = a - K * (a \div K)
  BY <1>1
<1> QED  BY <1>2, <1>3, <1>4

LEMMA ModUnique ==
  ASSUME NEW K \in Nat \ {0}, NEW a \in Nat, NEW q \in Int, NEW r \in 0 .. K - 1, a = K * q + r
  PROVE  a % K = r
<1> DEFINE p == a \div K
<1>1. p \in Int /\ a % K \in 0 .. K - 1 /\ a % K = a - K * p
  BY DivMod
<1> HIDE DEF p
<1>2. K * (p - q) = K * p - K * q /\ K * p \in Int /\ K * q \in Int
  BY <1>1
<1>3. K * (p - q) = r - (a % K)
  BY <1>1, <1>2
<1>4. p - q = 0
  <2>1. ~(p - q >= 1)
    BY <1>1, <1>3, MulMono
  <2>2. ~(q - p >= 1)
    <3>1. K * (q - p) = 0 - K * (p - q)
      BY <1>1
    <3> QED  BY <1>1, <1>3, <3>1, MulMono
  <2> QED  BY <1>1, <2>1, <2>2
<1> QED  BY <1>1, <1>4

LEMMA ModApart ==
  ASSUME NEW K \in Nat \ {0}, NEW a \in Nat, NEW b \in Nat, a < b, b < a + K
  PROVE  a % K # b % K
<1> SUFFICES ASSUME a % K = b % K PROVE FALSE
  OBVIOUS
<1> DEFINE p == a \div K
           q == b \div K
<1>1. p \in Int /\ a % K \in 0 .. K - 1 /\ a % K = a - K * p
  BY DivMod
<1>2. q \in Int /\ b % K \in 0 .. K - 1 /\ b % K = b - K * q
  BY DivMod
<1> HIDE DEF p, q
<1>3. K * (q - p) = K * q - K * p /\ K * p \in Int /\ K * q \in Int
  BY <1>1, <1>2
<1>4. K * (q - p) = b - a
  BY <1>1, <1>2, <1>3
<1> QED  BY <1>1, <1>2, <1>4, MulMono

LEMMA ModNext ==
  ASSUME NEW K \in Nat \ {0}, NEW a \in Nat
  PROVE  ((a % K) + 1) % K = (a + 1) % K
<1>1. a \div K \in Int /\ a % K \in 0 .. K - 1 /\ a % K = a - K * (a \div K)
  BY DivMod
<1> DEFINE p == a \div K
           r == a % K
<1>2. p \in Int /\ r \in 0 .. K - 1 /\ r = a - K * p
  BY <1>1
<1> HIDE DEF p, r
<1>3. CASE r < K - 1
  <2>1. (r + 1) % K = r + 1
    <3>1. r + 1 = K * 0 + (r + 1) /\ r + 1 \in 0 .. K - 1 /\ r + 1 \in Nat
      BY <1>2, <1>3
    <3> QED  BY <3>1, ModUnique
  <2>2. (a + 1) % K = r + 1
    <3>1. a + 1 = K * p + (r + 1) /\ r + 1 \in 0 .. K - 1 /\ a + 1 \in Nat
      BY <1>2, <1>3
    <3> QED  BY <1>2, <3>1, ModUnique
  <2> QED  BY <2>1, <2>2 DEF r
<1>4. CASE r = K - 1
  <2>1. (r + 1) % K = 0
    <3>1. r + 1 = K * 1 + 0 /\ 0 \in 0 .. K - 1 /\ r + 1 \in Nat
      BY <1>2, <1>4
    <3> QED  BY <3>1, ModUnique
  <2>2. (a + 1) % K = 0
    <3>1. a + 1 = K * (p + 1) + 0 /\ 0 \in 0 .. K - 1 /\ a + 1 \in Nat /\ p + 1 \in Int
      BY <1>2, <1>4
    <3> QED  BY <3>1, ModUnique
  <2> QED  BY <2>1, <2>2 DEF r
<1> QED  BY <1>2, <1>3, <1>4

LEMMA ModRound ==
  ASSUME NEW K \in Nat \ {0}, NEW a \in Nat
  PROVE  (a + K) % K = a % K
<1>1. a \div K \in Int /\ a % K \in 0 .. K - 1 /\ a % K = a - K * (a \div K)
  BY DivMod
<1> DEFINE p == a \div K
           r == a % K
<1>2. p \in Int /\ r \in 0 .. K - 1 /\ r = a - K * p
  BY <1>1
<1> HIDE DEF p, r
<1>3. a + K = K * (p + 1) + r /\ p + 1 \in Int /\ a + K \in Nat
  BY <1>2
<1>4. (a + K) % K = r
  BY <1>2, <1>3, ModUnique
<1> QED  BY <1>4 DEF r

LEMMA ModAdd ==
  ASSUME NEW K \in Nat \ {0}, NEW a \in Nat, NEW b \in Nat
  PROVE  ((a % K) + b) % K = (a + b) % K
<1> DEFINE p == a \div K
           c == (a % K) + b
           q == c \div K
           d == c % K
<1>1. p \in Int /\ c \in Nat /\ c = a + b - K * p
  BY DivMod
<1> HIDE DEF p, c
<1>2. q \in Int /\ d \in 0 .. K - 1 /\ d = c - K * q
  BY <1>1, DivMod
<1> HIDE DEF q, d
<1>3. a + b = K * (p + q) + d /\ p + q \in Int /\ a + b \in Nat
  <2>1. K * (p + q) = K * p + K * q /\ K * p \in Int /\ K * q \in Int
    BY <1>1, <1>2
  <2> QED  BY <1>1, <1>2, <2>1
<1>4. (a + b) % K = d
  BY <1>2, <1>3, ModUnique
<1> QED  BY <1>4, Zenon DEF c, d

LEMMA ModDiff ==
  ASSUME NEW K \in Nat \ {0}, NEW a \in Nat, NEW b \in Nat, a <= b, b < a + K
  PROVE  ((b % K) + K - (a % K)) % K = b - a
<1> DEFINE p == a \div K
           q == b \div K
           r == a % K
           s == b % K
<1>1. p \in Int /\ r \in 0 .. K - 1 /\ r = a - K * p
  BY DivMod
<1>2. q \in Int /\ s \in 0 .. K - 1 /\ s = b - K * q
  BY DivMod
<1> HIDE DEF p, q, r, s
<1>3. s + K - r \in Nat /\ b - a \in 0 .. K - 1
  BY <1>1, <1>2
<1>4. s + K - r = K * (1 + p - q) + (b - a) /\ 1 + p - q \in Int
  <2>1. K * (1 + p - q) = K + K * p - K * q /\ K * p \in Int /\ K * q \in Int
    BY <1>1, <1>2
  <2> QED  BY <1>1, <1>2, <2>1
<1> DEFINE y == s + K - r
<1>5. y \in Nat /\ b - a \in 0 .. K - 1 /\ y = K * (1 + p - q) + (b - a) /\ 1 + p - q \in Int
  BY <1>3, <1>4
<1> HIDE DEF y
<1>6. y % K = b - a
  BY <1>5, ModUnique
<1> QED  BY <1>6, Zenon DEF y, r, s

LEMMA ModCovers ==
  ASSUME NEW K \in Nat \ {0}, NEW a \in Nat, NEW i \in 0 .. K - 1
  PROVE  \E k \in a .. a + K - 1 : k % K = i
<1> DEFINE p == a \div K
           r == a % K
           x == i + K - r
           q == x \div K
           d == x % K
<1>1. p \in Int /\ r \in 0 .. K - 1 /\ r = a - K * p
  BY DivMod
<1> HIDE DEF p, r
<1>2. x \in Nat /\ x = i + K - r
  BY <1>1
<1> HIDE DEF x
<1>3. q \in Int /\ d \in 0 .. K - 1 /\ d = x - K * q
  BY <1>2, DivMod
<1> HIDE DEF q, d
<1>4. a + d = K * (p + 1 - q) + i /\ p + 1 - q \in Int /\ a + d \in Nat /\ a + d \in a .. a + K - 1
  <2>1. K * (p + 1 - q) = K * p + K - K * q /\ K * p \in Int /\ K * q \in Int
    BY <1>1, <1>3
  <2> QED  BY <1>1, <1>2, <1>3, <2>1
<1>5. (a + d) % K = i
  BY <1>4, ModUnique
<1> QED  BY <1>4, <1>5

-----------------------------------------------------------------------------
Cells == [stores : Seq([val : Nat, acc : Nat]), seen : Nat, known : Nat]

(* A cell whose writer has made n accesses: the indices go round, later    *)
(* stores publish more, and the reader knows what those it saw publish.    *)
CellOK(cell, n, K) ==
  /\ cell \in Cells /\ n \in Nat
  /\ cell.seen \in 1 .. Len(cell.stores)
  /\ \A k \in 1 .. Len(cell.stores) :
       cell.stores[k].val = (k - 1) % K /\ cell.stores[k].acc <= n
  /\ \A j, k \in 1 .. Len(cell.stores) : j <= k => cell.stores[j].acc <= cell.stores[k].acc
  /\ \A k \in 1 .. cell.seen : cell.stores[k].acc <= cell.known

(* A cell that is well-formed, in simpler terms.                           *)
LEMMA CellFacts ==
  ASSUME NEW K \in Nat \ {0}, NEW cell, NEW n, CellOK(cell, n, K)
  PROVE  /\ cell = [stores |-> cell.stores, seen |-> cell.seen, known |-> cell.known]
         /\ cell.stores \in Seq([val : Nat, acc : Nat]) /\ Len(cell.stores) \in Nat
         /\ cell.seen \in Nat /\ 1 <= cell.seen /\ cell.seen <= Len(cell.stores)
         /\ cell.known \in Nat /\ n \in Nat
         /\ \A k \in 1 .. Len(cell.stores) : cell.stores[k].acc \in Nat /\ cell.stores[k].acc <= n
         /\ OwnValue(cell) = (Len(cell.stores) - 1) % K
<1>1. /\ cell.stores \in Seq([val : Nat, acc : Nat]) /\ cell.seen \in Nat /\ cell.known \in Nat
      /\ cell = [stores |-> cell.stores, seen |-> cell.seen, known |-> cell.known]
      /\ n \in Nat /\ cell.seen \in 1 .. Len(cell.stores)
  BY DEF CellOK, Cells
<1>2. Len(cell.stores) \in Nat /\ 1 <= cell.seen /\ cell.seen <= Len(cell.stores)
  BY <1>1
<1>3. \A k \in 1 .. Len(cell.stores) : cell.stores[k] \in [val : Nat, acc : Nat]
  BY <1>1, ElementOfSeq
<1>4. \A k \in 1 .. Len(cell.stores) : cell.stores[k].acc \in Nat /\ cell.stores[k].acc <= n
  BY <1>3 DEF CellOK
<1>5. Len(cell.stores) \in 1 .. Len(cell.stores)
  BY <1>1, <1>2
<1>6. OwnValue(cell) = (Len(cell.stores) - 1) % K
  <2>1. \A k \in 1 .. Len(cell.stores) : cell.stores[k].val = (k - 1) % K
    BY DEF CellOK
  <2> QED  BY <1>5, <2>1, Zenon DEF OwnValue
<1> QED  BY <1>1, <1>2, <1>4, <1>6

(* What a load and a store do to a cell.                                   *)
LEMMA LoadCell ==
  ASSUME NEW K \in Nat \ {0}, NEW cell, NEW n, CellOK(cell, n, K), NEW i \in Readable(cell)
  PROVE  LET new == AcquireLoad(cell, i)
         IN /\ CellOK(new, n, K) /\ new.stores = cell.stores /\ new.seen = i
            /\ i \in Nat /\ cell.seen <= i /\ i <= Len(cell.stores)
<1> DEFINE new == AcquireLoad(cell, i)
           known == IF cell.stores[i].acc > cell.known THEN cell.stores[i].acc ELSE cell.known
<1>1. /\ i \in Nat /\ cell.seen \in Nat /\ Len(cell.stores) \in Nat
      /\ 1 <= i /\ cell.seen <= i /\ i <= Len(cell.stores) /\ i \in 1 .. Len(cell.stores)
  BY CellFacts DEF Readable
<1>2. new = [stores |-> cell.stores, seen |-> i, known |-> known]
  <2>1. cell = [stores |-> cell.stores, seen |-> cell.seen, known |-> cell.known]
    BY CellFacts
  <2>2. new = [cell EXCEPT !.seen = i, !.known = known]
    BY DEF AcquireLoad
  <2> HIDE DEF new, known
  <2> QED  BY <2>1, <2>2
<1>3. /\ cell.stores[i].acc \in Nat /\ cell.known \in Nat
      /\ known \in Nat /\ cell.stores[i].acc <= known
  <2>1. cell.stores[i].acc \in Nat /\ cell.known \in Nat
    BY <1>1, CellFacts
  <2> QED  BY <2>1
<1> HIDE DEF known, new
<1>4. new \in Cells
  BY <1>1, <1>2, <1>3, CellFacts DEF Cells
<1>5. ASSUME NEW k \in 1 .. i PROVE cell.stores[k].acc <= known
  <2>1. k \in 1 .. Len(cell.stores) /\ k <= i
    BY <1>1
  <2>2. cell.stores[k].acc <= cell.stores[i].acc
    BY <1>1, <2>1 DEF CellOK
  <2>3. cell.stores[k].acc \in Nat
    BY <2>1, CellFacts
  <2> QED  BY <1>3, <2>2, <2>3
<1>6. new.stores = cell.stores /\ new.seen = i /\ new.known = known
  BY <1>2
<1>7. CellOK(new, n, K)
  BY <1>1, <1>4, <1>5, <1>6 DEF CellOK
<1> QED  BY <1>1, <1>6, <1>7 DEF new

IsStore(new, cell, n, K) == new = ReleaseStore(cell, Len(cell.stores) % K, n)

LEMMA StoreCell ==
  ASSUME NEW K \in Nat \ {0}, NEW cell, NEW n, CellOK(cell, n, K),
         NEW new, IsStore(new, cell, n, K)
  PROVE  /\ CellOK(new, n, K) /\ new.seen = cell.seen
         /\ Len(new.stores) = Len(cell.stores) + 1
         /\ \A k \in 1 .. Len(cell.stores) : new.stores[k] = cell.stores[k]
         /\ new.stores[Len(cell.stores) + 1].acc = n
<1> DEFINE len == Len(cell.stores)
           last == [val |-> len % K, acc |-> n]
<1>1. /\ len \in Nat /\ n \in Nat /\ cell.stores \in Seq([val : Nat, acc : Nat])
      /\ cell.seen \in Nat /\ 1 <= cell.seen /\ cell.seen <= len /\ cell.known \in Nat
  BY CellFacts
<1>2. last \in [val : Nat, acc : Nat]
  <2>1. len % K \in 0 .. K - 1
    BY <1>1, DivMod
  <2> HIDE DEF len
  <2>2. len % K \in Nat
    BY <2>1
  <2> QED  BY <1>1, <2>2
<1>3. new = [stores |-> Append(cell.stores, last), seen |-> cell.seen, known |-> cell.known]
  <2>1. cell = [stores |-> cell.stores, seen |-> cell.seen, known |-> cell.known]
    BY CellFacts
  <2> QED  BY <2>1 DEF IsStore, ReleaseStore
<1>4. last.val = len % K /\ last.acc = n
  OBVIOUS
<1> HIDE DEF last, len
<1>5. new.stores = Append(cell.stores, last) /\ new.seen = cell.seen /\ new.known = cell.known
  BY <1>3
<1>6. /\ Len(new.stores) = len + 1 /\ new.stores[len + 1] = last
      /\ \A k \in 1 .. len : new.stores[k] = cell.stores[k]
      /\ new.stores \in Seq([val : Nat, acc : Nat])
  BY <1>1, <1>2, <1>5 DEF len
<1>7. new \in Cells
  BY <1>1, <1>3, <1>5, <1>6 DEF Cells
<1>8. \A k \in 1 .. len : /\ cell.stores[k].val = (k - 1) % K
                          /\ cell.stores[k].acc \in Nat /\ cell.stores[k].acc <= n
  BY CellFacts DEF CellOK, len
<1>9. ASSUME NEW k \in 1 .. len + 1
      PROVE  new.stores[k].val = (k - 1) % K /\ new.stores[k].acc <= n
  <2>1. CASE k = len + 1
    <3>1. k - 1 = len
      BY <1>1, <2>1
    <3> QED  BY <1>1, <1>4, <1>6, <2>1, <3>1
  <2>2. CASE k \in 1 .. len
    BY <1>6, <1>8, <2>2
  <2> QED  BY <1>1, <2>1, <2>2
<1>10. ASSUME NEW j \in 1 .. len + 1, NEW k \in 1 .. len + 1, j <= k
       PROVE  new.stores[j].acc <= new.stores[k].acc
  <2>1. CASE k = len + 1
    BY <1>4, <1>6, <1>9, <2>1
  <2>2. CASE k \in 1 .. len
    <3>1. j \in 1 .. len
      BY <1>1, <1>10, <2>2
    <3>2. cell.stores[j].acc <= cell.stores[k].acc
      BY <1>10, <2>2, <3>1 DEF CellOK, len
    <3> QED  BY <1>6, <2>2, <3>1, <3>2
  <2> QED  BY <1>1, <2>1, <2>2
<1>11. ASSUME NEW k \in 1 .. cell.seen PROVE new.stores[k].acc <= cell.known
  <2>1. k \in 1 .. len
    BY <1>1
  <2>2. cell.stores[k].acc <= cell.known
    BY DEF CellOK
  <2> QED  BY <1>6, <2>1, <2>2
<1>12. new.seen \in 1 .. len + 1
  BY <1>1, <1>5
<1>13. CellOK(new, n, K)
  BY <1>1, <1>5, <1>6, <1>7, <1>9, <1>10, <1>11, <1>12 DEF CellOK
<1> QED  BY <1>4, <1>5, <1>6, <1>13 DEF len

LEMMA MoreAccesses ==
  ASSUME NEW K \in Nat \ {0}, NEW cell, NEW n, CellOK(cell, n, K)
  PROVE  CellOK(cell, n + 1, K)
<1>1. n \in Nat /\ \A k \in 1 .. Len(cell.stores) : cell.stores[k].acc \in Nat /\ cell.stores[k].acc <= n
  BY CellFacts DEF CellOK
<1>2. n + 1 \in Nat /\ \A k \in 1 .. Len(cell.stores) : cell.stores[k].acc <= n + 1
  BY <1>1
<1> QED  BY <1>2 DEF CellOK

(* The indices stored in a cell are positions in the ring.                 *)
LEMMA CellTyped ==
  ASSUME NEW K \in Nat \ {0}, NEW cell, NEW n, CellOK(cell, n, K)
  PROVE  /\ \A k \in 1 .. Len(cell.stores) : cell.stores[k].val \in 0 .. K - 1
         /\ cell.seen \in 1 .. Len(cell.stores) /\ cell.known \in Nat
<1>1. ASSUME NEW k \in 1 .. Len(cell.stores) PROVE cell.stores[k].val \in 0 .. K - 1
  <2>1. k - 1 \in Nat
    OBVIOUS
  <2>2. (k - 1) % K \in 0 .. K - 1
    BY <2>1, DivMod
  <2>3. cell.stores[k].val = (k - 1) % K
    BY DEF CellOK
  <2> QED  BY <2>2, <2>3
<1> QED  BY <1>1, CellFacts DEF CellOK

-----------------------------------------------------------------------------

Pushed == Len(tail.stores) - 1
Popped == Len(head.stores) - 1
SeenPushes == tail.seen - 1
SeenPops == head.seen - 1

CellsOK == CellOK(head, takes, kSlots) /\ CellOK(tail, writes, kSlots)

(* neither thread has seen more than there is, nor runs into the other *)
IndicesOrdered ==
  /\ Popped <= SeenPushes
  /\ Pushed <= SeenPops + N
  /\ producer.pc \in {"write", "store"} => Pushed < SeenPops + N
  /\ consumer.pc \in {"take", "store"} => Popped < SeenPushes

AccessesCounted == \A x \in Index : slot[x].write <= writes /\ slot[x].take <= takes

(* the store of a push not yet popped publishes the write of its slot; *)
WritesPublished ==
  \A k \in Popped .. Pushed - 1 : slot[k % kSlots].write <= tail.stores[k + 2].acc

(* that of the pop before a slot is pushed to again, the take from it *)
TakesPublished ==
  \A k \in Pushed .. Popped + N :
    slot[k % kSlots].take <= IF k < kSlots THEN 0 ELSE head.stores[k - kSlots + 2].acc

(* the items pushed and not yet popped are in their slots, but for one that *)
(* is being popped                                                          *)
ItemsInPlace ==
  /\ Len(sent) = Pushed /\ Len(delivered) = Popped
  /\ \A k \in Popped .. Pushed - 1 :
       slot[k % kSlots].item = sent[k + 1] \/ (k = Popped /\ consumer.pc = "store")
  /\ consumer.pc = "store" => consumer.res = sent[Popped + 1]
  /\ producer.pc = "store" => slot[Pushed % kSlots].item = producer.arg
  /\ producer.pc # "idle" => producer.arg \in Item

IInv ==
  /\ TypeOK /\ CellsOK /\ IndicesOrdered
  /\ AccessesCounted /\ WritesPublished /\ TakesPublished /\ ItemsInPlace

-----------------------------------------------------------------------------
LEMMA Slots == /\ N \in Nat \ {0} /\ kSlots = N + 1 /\ kSlots \in Nat \ {0} /\ Index = 0 .. kSlots - 1
               /\ Moved \notin Item
BY QueueAssumption DEF kSlots, Index

(* What the counts are, and where the next push and the next pop go.       *)
LEMMA Counts ==
  ASSUME IInv
  PROVE  /\ Pushed \in Nat /\ Popped \in Nat /\ SeenPushes \in Nat /\ SeenPops \in Nat
         /\ Len(tail.stores) = Pushed + 1 /\ Len(head.stores) = Popped + 1
         /\ tail.seen = SeenPushes + 1 /\ head.seen = SeenPops + 1
         /\ SeenPops <= Popped /\ Popped <= SeenPushes /\ SeenPushes <= Pushed
         /\ Pushed <= SeenPops + N
         /\ writes \in Nat /\ takes \in Nat
<1>1. CellOK(head, takes, kSlots) /\ CellOK(tail, writes, kSlots)
  BY DEF IInv, CellsOK
<1>2. /\ Len(head.stores) \in Nat /\ head.seen \in Nat /\ 1 <= head.seen
      /\ head.seen <= Len(head.stores) /\ takes \in Nat
  BY <1>1, CellFacts, Slots
<1>3. /\ Len(tail.stores) \in Nat /\ tail.seen \in Nat /\ 1 <= tail.seen
      /\ tail.seen <= Len(tail.stores) /\ writes \in Nat
  BY <1>1, CellFacts, Slots
<1>4. Popped <= SeenPushes /\ Pushed <= SeenPops + N
  BY DEF IInv, IndicesOrdered
<1>5. /\ Pushed \in Nat /\ Len(tail.stores) = Pushed + 1
      /\ SeenPushes \in Nat /\ tail.seen = SeenPushes + 1 /\ SeenPushes <= Pushed
  BY <1>3 DEF Pushed, SeenPushes
<1>6. /\ Popped \in Nat /\ Len(head.stores) = Popped + 1
      /\ SeenPops \in Nat /\ head.seen = SeenPops + 1 /\ SeenPops <= Popped
  BY <1>2 DEF Popped, SeenPops
<1> QED  BY <1>2, <1>3, <1>4, <1>5, <1>6

LEMMA Bounds ==
  ASSUME IInv
  PROVE  /\ Pushed \in Nat /\ Popped \in Nat /\ SeenPushes \in Nat /\ SeenPops \in Nat
         /\ N \in Nat /\ kSlots = N + 1 /\ kSlots \in Nat \ {0}
         /\ SeenPops <= Popped /\ Popped <= SeenPushes /\ SeenPushes <= Pushed
         /\ Pushed <= SeenPops + N
BY Counts, Slots

LEMMA OwnIndex ==
  ASSUME IInv
  PROVE  /\ OwnValue(tail) = Pushed % kSlots /\ OwnValue(head) = Popped % kSlots
         /\ \A k \in Nat : k % kSlots \in Index /\ k % kSlots \in Nat
<1>1. ASSUME NEW k \in Nat PROVE k % kSlots \in Index /\ k % kSlots \in Nat
  <2>1. k % kSlots \in 0 .. kSlots - 1
    BY Slots, DivMod
  <2> QED  BY <2>1, Slots
<1>2. OwnValue(tail) = Pushed % kSlots /\ OwnValue(head) = Popped % kSlots
  BY CellFacts, Slots DEF IInv, CellsOK, Pushed, Popped
<1> QED  BY <1>1, <1>2

-----------------------------------------------------------------------------
(* A step that stores no index and touches no slot leaves the slots'       *)
(* part of the invariant alone.                                            *)
LEMMA SameStores ==
  ASSUME IInv, UNCHANGED <<slot, writes, takes>>,
         head'.stores = head.stores, tail'.stores = tail.stores
  PROVE  /\ Pushed' = Pushed /\ Popped' = Popped
         /\ AccessesCounted' /\ WritesPublished' /\ TakesPublished'
<1>1. Pushed' = Pushed /\ Popped' = Popped
  BY DEF Pushed, Popped
<1>2. AccessesCounted'
  BY DEF IInv, AccessesCounted
<1>3. WritesPublished'
  BY <1>1 DEF IInv, WritesPublished
<1>4. TakesPublished'
  BY <1>1 DEF IInv, TakesPublished
<1> QED  BY <1>1, <1>2, <1>3, <1>4

LEMMA SameCells ==
  ASSUME IInv, UNCHANGED <<head, tail, writes, takes>>
  PROVE  /\ CellsOK'
         /\ Pushed' = Pushed /\ Popped' = Popped
         /\ SeenPushes' = SeenPushes /\ SeenPops' = SeenPops
BY DEF IInv, CellsOK, CellOK, Pushed, Popped, SeenPushes, SeenPops

LEMMA TryPushIInv == ASSUME IInv, TryPush PROVE IInv'
<1>1. /\ CellsOK' /\ Pushed' = Pushed /\ Popped' = Popped
      /\ SeenPushes' = SeenPushes /\ SeenPops' = SeenPops
      /\ AccessesCounted' /\ WritesPublished' /\ TakesPublished'
  BY SameCells, SameStores DEF TryPush
<1>2. PICK v \in Item : producer' = [pc |-> "load", arg |-> v]
  BY DEF TryPush
<1>3. TypeOK'
  BY <1>2 DEF TryPush, IInv, TypeOK
<1>4. IndicesOrdered'
  BY <1>1, <1>2 DEF TryPush, IInv, IndicesOrdered
<1>5. ItemsInPlace'
  BY <1>1, <1>2 DEF TryPush, IInv, ItemsInPlace
<1> QED  BY <1>1, <1>3, <1>4, <1>5 DEF IInv

LEMMA TryPopIInv == ASSUME IInv, TryPop \/ PopThrows PROVE IInv'
<1>1. /\ CellsOK' /\ Pushed' = Pushed /\ Popped' = Popped
      /\ SeenPushes' = SeenPushes /\ SeenPops' = SeenPops
      /\ AccessesCounted' /\ WritesPublished' /\ TakesPublished'
  BY SameCells, SameStores DEF TryPop, PopThrows
<1>2. /\ consumer.pc \in {"idle", "take"} /\ UNCHANGED <<slot, producer, sent, delivered>>
      /\ consumer' = [consumer EXCEPT !.pc = "load"] \/ consumer' = [consumer EXCEPT !.pc = "idle"]
  BY DEF TryPop, PopThrows
<1>3. consumer'.pc \in {"load", "idle"}
  BY <1>2 DEF IInv, TypeOK
<1>4. TypeOK'
  BY <1>2 DEF TryPop, PopThrows, IInv, TypeOK
<1>5. IndicesOrdered'
  BY <1>1, <1>2, <1>3 DEF IInv, IndicesOrdered
<1>6. ItemsInPlace'
  BY <1>1, <1>2, <1>3 DEF IInv, ItemsInPlace
<1> QED  BY <1>1, <1>4, <1>5, <1>6 DEF IInv

-----------------------------------------------------------------------------
(* A producer that sees room is right: what it saw of the pops is less     *)
(* than a round behind.  One that sees the ring full has seen N pops less  *)
(* than there were pushes.                                                 *)
LEMMA SeesRoom ==
  ASSUME IInv, NEW i \in Readable(head)
  PROVE  /\ i \in Nat /\ Pushed <= i - 1 + N
         /\ Full(NextIndex(OwnValue(tail)), ValueAt(head, i)) <=> Pushed = i - 1 + N
<1>1. /\ i \in Nat /\ head.seen <= i /\ i <= Len(head.stores) /\ i \in 1 .. Len(head.stores)
  BY Counts DEF Readable
<1>2. Pushed <= i - 1 + N /\ i - 1 \in Nat /\ i - 1 <= Pushed
  <2>1. SeenPops + 1 <= i /\ i <= Popped + 1
    BY <1>1, Counts
  <2> QED  BY <1>1, <2>1, Bounds
<1>3. NextIndex(OwnValue(tail)) = (Pushed + 1) % kSlots
  <2>1. ((Pushed % kSlots) + 1) % kSlots = (Pushed + 1) % kSlots
    BY Bounds, ModNext
  <2> QED  BY <2>1, OwnIndex DEF NextIndex
<1>4. ValueAt(head, i) = (i - 1) % kSlots
  BY <1>1 DEF IInv, CellsOK, CellOK, ValueAt
<1>5. CASE Pushed = i - 1 + N
  <2>1. Pushed + 1 = (i - 1) + kSlots
    BY <1>2, <1>5, Counts, Slots
  <2>2. (Pushed + 1) % kSlots = (i - 1) % kSlots
    BY <1>2, <2>1, Slots, ModRound
  <2> QED  BY <1>1, <1>2, <1>3, <1>4, <1>5, <2>2 DEF Full
<1>6. CASE Pushed # i - 1 + N
  <2>1. i - 1 < Pushed + 1 /\ Pushed + 1 < (i - 1) + kSlots /\ Pushed + 1 \in Nat
    BY <1>2, <1>6, Bounds
  <2>2. (i - 1) % kSlots # (Pushed + 1) % kSlots
    BY <1>2, <2>1, Slots, ModApart
  <2> QED  BY <1>1, <1>2, <1>3, <1>4, <1>6, <2>2 DEF Full
<1> QED  BY <1>5, <1>6

LEMMA PushLoadIInv == ASSUME IInv, PushLoad PROVE IInv'
<1>1. PICK i \in Readable(head) :
        /\ head' = AcquireLoad(head, i)
        /\ producer' = [producer EXCEPT !.pc =
             IF Full(NextIndex(OwnValue(tail)), ValueAt(head, i)) THEN "idle" ELSE "write"]
  BY DEF PushLoad, LoadHead
<1>2. producer.pc = "load" /\ UNCHANGED <<slot, tail, writes, takes, consumer, sent, delivered>>
  BY DEF PushLoad
<1>3. CellOK(head', takes, kSlots) /\ head'.stores = head.stores /\ head'.seen = i
  BY <1>1, LoadCell, Slots DEF IInv, CellsOK
<1>4. CellsOK'
  <2>1. CellOK(tail, writes, kSlots)'
    BY <1>2 DEF IInv, CellsOK, CellOK
  <2>2. CellOK(head, takes, kSlots)'
    BY <1>2, <1>3 DEF CellOK
  <2> QED  BY <2>1, <2>2 DEF CellsOK
<1>5. Pushed' = Pushed /\ Popped' = Popped /\ AccessesCounted' /\ WritesPublished' /\ TakesPublished'
  BY <1>2, <1>3, SameStores
<1>6. /\ producer'.pc \in {"idle", "write"} /\ producer'.arg = producer.arg
      /\ producer' \in [pc : {"idle", "write"}, arg : Item \cup {Moved}]
      /\ producer'.pc = "write" => ~Full(NextIndex(OwnValue(tail)), ValueAt(head, i))
  BY <1>1 DEF IInv, TypeOK
<1>7. TypeOK'
  <2>1. /\ \A k \in 1 .. Len(head'.stores) : head'.stores[k].val \in Index
        /\ head'.seen \in 1 .. Len(head'.stores) /\ head'.known \in Nat
    BY <1>3, CellTyped, Slots
  <2> QED  BY <1>2, <1>6, <2>1 DEF IInv, TypeOK
<1>8. IndicesOrdered'
  <2>1. SeenPops' = i - 1 /\ SeenPushes' = SeenPushes
    BY <1>2, <1>3 DEF SeenPops, SeenPushes
  <2>2. i \in Nat /\ Pushed <= i - 1 + N
    BY SeesRoom
  <2>3. ASSUME producer'.pc = "write" PROVE Pushed < i - 1 + N
    <3>1. Pushed # i - 1 + N
      BY <1>6, <2>3, SeesRoom, Zenon
    <3> QED  BY <2>2, <3>1, Bounds
  <2> QED  BY <1>2, <1>5, <1>6, <2>1, <2>2, <2>3 DEF IInv, IndicesOrdered
<1>9. ItemsInPlace'
  BY <1>2, <1>5, <1>6 DEF IInv, ItemsInPlace
<1> QED  BY <1>4, <1>5, <1>7, <1>8, <1>9 DEF IInv

LEMMA PopLoadIInv == ASSUME IInv, NEW i, PopLoad(i) PROVE IInv'
<1>1. /\ i \in Readable(tail) /\ tail' = AcquireLoad(tail, i)
      /\ consumer' = [consumer EXCEPT !.pc =
           IF Empty(OwnValue(head), ValueAt(tail, i)) THEN "idle" ELSE "take"]
  BY DEF PopLoad, LoadTail
<1>2. consumer.pc = "load" /\ UNCHANGED <<slot, head, writes, takes, producer, sent, delivered>>
  BY DEF PopLoad
<1>3. /\ CellOK(tail', writes, kSlots) /\ tail'.stores = tail.stores /\ tail'.seen = i
      /\ i \in Nat /\ tail.seen <= i /\ i <= Len(tail.stores)
  BY <1>1, LoadCell, Slots DEF IInv, CellsOK
<1>4. CellsOK'
  <2>1. CellOK(head, takes, kSlots)'
    BY <1>2 DEF IInv, CellsOK, CellOK
  <2>2. CellOK(tail, writes, kSlots)'
    BY <1>2, <1>3 DEF CellOK
  <2> QED  BY <2>1, <2>2 DEF CellsOK
<1>5. Pushed' = Pushed /\ Popped' = Popped /\ AccessesCounted' /\ WritesPublished' /\ TakesPublished'
  BY <1>2, <1>3, SameStores
<1>6. /\ consumer'.pc \in {"idle", "take"}
      /\ consumer' \in [pc : {"idle", "take"}, res : Item \cup {Moved}]
      /\ consumer'.pc = "take" => OwnValue(head) # ValueAt(tail, i)
  BY <1>1 DEF IInv, TypeOK, Empty
<1>7. TypeOK'
  <2>1. /\ \A k \in 1 .. Len(tail'.stores) : tail'.stores[k].val \in Index
        /\ tail'.seen \in 1 .. Len(tail'.stores) /\ tail'.known \in Nat
    BY <1>3, CellTyped, Slots
  <2> QED  BY <1>2, <1>6, <2>1 DEF IInv, TypeOK
<1>8. IndicesOrdered'
  <2>1. SeenPushes' = i - 1 /\ SeenPops' = SeenPops
    BY <1>2, <1>3 DEF SeenPops, SeenPushes
  <2>2. Popped <= i - 1
    BY <1>3, Counts
  <2>3. ASSUME consumer'.pc = "take" PROVE Popped # i - 1
    <3>1. i \in 1 .. Len(tail.stores)
      BY <1>3, Counts
    <3>2. ValueAt(tail, i) = (i - 1) % kSlots
      BY <3>1 DEF IInv, CellsOK, CellOK, ValueAt
    <3> QED  BY <1>6, <2>3, <3>2, OwnIndex
  <2> QED  BY <1>2, <1>3, <1>5, <1>6, <2>1, <2>2, <2>3, Counts DEF IInv, IndicesOrdered
<1>9. ItemsInPlace'
  BY <1>2, <1>5, <1>6 DEF IInv, ItemsInPlace
<1> QED  BY <1>4, <1>5, <1>7, <1>8, <1>9 DEF IInv

-----------------------------------------------------------------------------
(* The slot of the next push is that of no item in the ring, and the slot  *)
(* of the next pop is none the producer may write.                         *)
LEMMA SlotsApart ==
  ASSUME IInv
  PROVE  /\ \A k \in Popped .. Pushed - 1 : k \in Nat /\ k % kSlots # Pushed % kSlots
         /\ \A k \in Pushed .. Popped + N : k \in Nat /\ (k # Popped => k % kSlots # Popped % kSlots)
<1>1. ASSUME NEW k \in Popped .. Pushed - 1 PROVE k \in Nat /\ k % kSlots # Pushed % kSlots
  <2>1. k \in Nat /\ k < Pushed /\ Pushed < k + kSlots
    BY Bounds
  <2>2. Pushed \in Nat /\ kSlots \in Nat \ {0}
    BY Bounds
  <2> QED  BY <2>1, <2>2, ModApart
<1>2. ASSUME NEW k \in Pushed .. Popped + N, k # Popped
      PROVE  k % kSlots # Popped % kSlots
  <2>1. k \in Nat /\ Popped < k /\ k < Popped + kSlots
    BY <1>2, Bounds
  <2>2. Popped \in Nat /\ kSlots \in Nat \ {0}
    BY Bounds
  <2> QED  BY <2>1, <2>2, ModApart
<1>3. \A k \in Pushed .. Popped + N : k \in Nat
  BY Bounds
<1> QED  BY <1>1, <1>2, <1>3

(* What an access leaves in the slots.                                     *)
LEMMA SlotSet ==
  ASSUME NEW S, NEW s \in [Index -> S], NEW own \in Index, NEW new \in S,
         NEW t, t = [s EXCEPT ![own] = new]
  PROVE  t \in [Index -> S] /\ t[own] = new /\ \A y \in Index : y # own => t[y] = s[y]
OBVIOUS

LEMMA SlotRecord ==
  ASSUME NEW r \in [item : Item \cup {Moved}, write : Nat, take : Nat], NEW x, NEW n
  PROVE  /\ [r EXCEPT !.item = x, !.write = n] = [item |-> x, write |-> n, take |-> r.take]
         /\ [r EXCEPT !.item = x, !.take = n] = [item |-> x, write |-> r.write, take |-> n]
         /\ r.item \in Item \cup {Moved} /\ r.write \in Nat /\ r.take \in Nat
<1> DEFINE i == r.item
           w == r.write
           k == r.take
           p == [item |-> x, write |-> w, take |-> k]
<1>1. r = [item |-> i, write |-> w, take |-> k]
  OBVIOUS
<1>2. r.item \in Item \cup {Moved} /\ r.write \in Nat /\ r.take \in Nat
  OBVIOUS
<1> HIDE DEF i, w, k
<1>3. [r EXCEPT !.item = x] = p
  BY <1>1
<1>4. [p EXCEPT !.write = n] = [item |-> x, write |-> n, take |-> k]
  OBVIOUS
<1>5. [p EXCEPT !.take = n] = [item |-> x, write |-> w, take |-> n]
  OBVIOUS
<1> HIDE DEF p
<1>6. [r EXCEPT !.item = x, !.write = n] = [[r EXCEPT !.item = x] EXCEPT !.write = n]
  OBVIOUS
<1>7. [r EXCEPT !.item = x, !.take = n] = [[r EXCEPT !.item = x] EXCEPT !.take = n]
  OBVIOUS
<1> QED  BY <1>2, <1>3, <1>4, <1>5, <1>6, <1>7 DEF w, k

(* The producer writes its slot, or spoils it.                             *)
Wrote(x) ==
  slot' = [slot EXCEPT ![OwnValue(tail)].item = x, ![OwnValue(tail)].write = writes']

LEMMA WriteIInv ==
  ASSUME IInv, producer.pc = "write", NEW x \in Item \cup {Moved}, NEW l \in {"idle", "store"},
         writes' = writes + 1, Wrote(x),
         producer' = [producer EXCEPT !.pc = l], l = "store" => x = producer.arg,
         UNCHANGED <<head, tail, takes, consumer, sent, delivered>>
  PROVE  IInv'
<1> DEFINE own == Pushed % kSlots
<1>1. own \in Index /\ OwnValue(tail) = own /\ writes \in Nat
  BY OwnIndex, Counts
<1>2. Pushed' = Pushed /\ Popped' = Popped /\ SeenPushes' = SeenPushes /\ SeenPops' = SeenPops
  BY DEF Pushed, Popped, SeenPushes, SeenPops
<1>3. /\ slot' \in [Index -> [item : Item \cup {Moved}, write : Nat, take : Nat]]
      /\ slot'[own].item = x /\ slot'[own].write = writes + 1 /\ slot'[own].take = slot[own].take
      /\ \A y \in Index : y # own => slot'[y] = slot[y]
  <2>1. slot \in [Index -> [item : Item \cup {Moved}, write : Nat, take : Nat]]
    BY DEF IInv, TypeOK
  <2> DEFINE new == [item |-> x, write |-> writes + 1, take |-> slot[own].take]
  <2>2. slot' = [slot EXCEPT ![own] = [slot[own] EXCEPT !.item = x, !.write = writes + 1]]
    BY <1>1 DEF Wrote
  <2>3. slot[own] \in [item : Item \cup {Moved}, write : Nat, take : Nat] /\ writes + 1 \in Nat
    BY <1>1, <2>1
  <2>4. [slot[own] EXCEPT !.item = x, !.write = writes + 1] = new /\ slot[own].take \in Nat
    BY <2>3, SlotRecord
  <2>5. /\ new \in [item : Item \cup {Moved}, write : Nat, take : Nat]
        /\ new.item = x /\ new.write = writes + 1 /\ new.take = slot[own].take
    BY <2>3, <2>4
  <2> DEFINE Rec == [item : Item \cup {Moved}, write : Nat, take : Nat]
  <2>6. own \in Index /\ slot \in [Index -> Rec] /\ new \in Rec /\ slot' = [slot EXCEPT ![own] = new]
    BY <1>1, <2>1, <2>2, <2>4, <2>5
  <2> HIDE DEF own, new, Rec
  <2>7. slot' \in [Index -> Rec] /\ slot'[own] = new /\ \A y \in Index : y # own => slot'[y] = slot[y]
    BY <2>6, SlotSet
  <2> QED  BY <2>5, <2>7 DEF Rec
<1>4. /\ producer'.pc = l /\ producer'.arg = producer.arg
      /\ producer' \in [pc : {"idle", "store"}, arg : Item \cup {Moved}]
  BY DEF IInv, TypeOK
<1> HIDE DEF own
<1>5. TypeOK'
  BY <1>1, <1>3, <1>4 DEF IInv, TypeOK
<1>6. CellsOK'
  <2>1. CellOK(head, takes, kSlots)'
    BY DEF IInv, CellsOK, CellOK
  <2>2. CellOK(tail, writes + 1, kSlots)
    BY MoreAccesses, Slots DEF IInv, CellsOK
  <2>3. CellOK(tail, writes, kSlots)'
    BY <2>2 DEF CellOK
  <2> QED  BY <2>1, <2>3 DEF CellsOK
<1>7. IndicesOrdered'
  BY <1>2, <1>4 DEF IInv, IndicesOrdered
<1>8. AccessesCounted'
  <2> SUFFICES ASSUME NEW y \in Index PROVE slot'[y].write <= writes' /\ slot'[y].take <= takes'
    BY DEF AccessesCounted
  <2>1. slot[y].write <= writes /\ slot[y].take <= takes /\ slot[y].write \in Nat
    BY DEF IInv, TypeOK, AccessesCounted
  <2>2. CASE y = own
    BY <1>1, <1>3, <2>1, <2>2
  <2>3. CASE y # own
    BY <1>1, <1>3, <2>1, <2>3
  <2> QED  BY <2>2, <2>3
<1>9. WritesPublished'
  <2> SUFFICES ASSUME NEW k \in Popped .. Pushed - 1
               PROVE  slot'[k % kSlots].write <= tail.stores[k + 2].acc
    BY <1>2 DEF WritesPublished
  <2>1. k % kSlots \in Index /\ k % kSlots # own
    BY SlotsApart, OwnIndex DEF own
  <2> QED  BY <1>3, <2>1 DEF IInv, WritesPublished
<1>10. TakesPublished'
  <2> SUFFICES ASSUME NEW k \in Pushed .. Popped + N
               PROVE  slot'[k % kSlots].take <= IF k < kSlots THEN 0 ELSE head.stores[k - kSlots + 2].acc
    BY <1>2 DEF TakesPublished
  <2>1. k % kSlots \in Index
    BY SlotsApart, OwnIndex
  <2>2. slot'[k % kSlots].take = slot[k % kSlots].take
    BY <1>3, <2>1
  <2> QED  BY <2>2 DEF IInv, TakesPublished
<1>11. ItemsInPlace'
  <2>1. \A k \in Popped .. Pushed - 1 : slot'[k % kSlots] = slot[k % kSlots]
    BY <1>3, SlotsApart, OwnIndex DEF own
  <2>2. producer'.pc = "store" => slot'[Pushed % kSlots].item = producer'.arg
    BY <1>3, <1>4 DEF own
  <2> QED  BY <1>2, <1>4, <2>1, <2>2 DEF IInv, ItemsInPlace
<1> QED  BY <1>5, <1>6, <1>7, <1>8, <1>9, <1>10, <1>11 DEF IInv

LEMMA PushStoreIInv == ASSUME IInv, PushStore PROVE IInv'
<1>1. /\ producer.pc = "store" /\ tail' = ReleaseStore(tail, NextIndex(OwnValue(tail)), writes)
      /\ sent' = Append(sent, producer.arg) /\ producer' = [producer EXCEPT !.pc = "idle"]
      /\ UNCHANGED <<slot, head, writes, takes, consumer, delivered>>
  BY DEF PushStore, StoreTail
<1>2. NextIndex(OwnValue(tail)) = Len(tail.stores) % kSlots
  <2>1. Pushed \in Nat /\ kSlots \in Nat \ {0}
    BY Bounds
  <2>2. ((Pushed % kSlots) + 1) % kSlots = (Pushed + 1) % kSlots
    BY <2>1, ModNext
  <2>3. OwnValue(tail) = Pushed % kSlots /\ Pushed + 1 = Len(tail.stores)
    BY OwnIndex, Counts
  <2> QED  BY <2>2, <2>3 DEF NextIndex
<1>3. /\ CellOK(tail', writes, kSlots) /\ tail'.seen = tail.seen
      /\ Len(tail'.stores) = Len(tail.stores) + 1
      /\ \A k \in 1 .. Len(tail.stores) : tail'.stores[k] = tail.stores[k]
      /\ tail'.stores[Len(tail.stores) + 1].acc = writes
  <2>1. IsStore(tail', tail, writes, kSlots)
    BY <1>1, <1>2 DEF IsStore
  <2> QED  BY <2>1, StoreCell, Slots DEF IInv, CellsOK
<1>4. Pushed' = Pushed + 1 /\ Popped' = Popped /\ SeenPushes' = SeenPushes /\ SeenPops' = SeenPops
  BY <1>1, <1>3, Counts DEF Pushed, Popped, SeenPushes, SeenPops
<1>5. producer' = [pc |-> "idle", arg |-> producer.arg] /\ producer.arg \in Item
  BY <1>1 DEF IInv, TypeOK, ItemsInPlace
<1>6. CellsOK'
  <2>1. CellOK(head, takes, kSlots)'
    BY <1>1 DEF IInv, CellsOK, CellOK
  <2>2. CellOK(tail, writes, kSlots)'
    BY <1>1, <1>3 DEF CellOK
  <2> QED  BY <2>1, <2>2 DEF CellsOK
<1>7. TypeOK'
  <2>1. /\ \A k \in 1 .. Len(tail'.stores) : tail'.stores[k].val \in Index
        /\ tail'.seen \in 1 .. Len(tail'.stores) /\ tail'.known \in Nat
    BY <1>3, CellTyped, Slots
  <2>2. sent' \in Seq(Item)
    BY <1>1, <1>5 DEF IInv, TypeOK
  <2>3. producer' \in [pc : {"idle", "load", "write", "store"}, arg : Item \cup {Moved}]
    BY <1>5
  <2> QED  BY <1>1, <2>1, <2>2, <2>3 DEF IInv, TypeOK
<1>8. IndicesOrdered'
  BY <1>1, <1>4, <1>5, Bounds DEF IInv, IndicesOrdered
<1>9. AccessesCounted'
  BY <1>1 DEF IInv, AccessesCounted
<1>10. WritesPublished'
  <2> SUFFICES ASSUME NEW k \in Popped .. Pushed
               PROVE  slot[k % kSlots].write <= tail'.stores[k + 2].acc
    BY <1>1, <1>4, Counts DEF WritesPublished
  <2>1. CASE k = Pushed
    <3>1. k + 2 = Len(tail.stores) + 1
      BY <2>1, Counts
    <3>2. tail'.stores[k + 2].acc = writes
      BY <1>3, <3>1
    <3>3. k % kSlots \in Index
      BY <2>1, OwnIndex, Bounds
    <3> QED  BY <3>2, <3>3 DEF IInv, AccessesCounted
  <2>2. CASE k \in Popped .. Pushed - 1
    <3>1. k + 2 \in 1 .. Len(tail.stores)
      BY <2>2, Counts
    <3>2. tail'.stores[k + 2] = tail.stores[k + 2]
      BY <1>3, <3>1
    <3> QED  BY <2>2, <3>2 DEF IInv, WritesPublished
  <2> QED  BY <2>1, <2>2, Counts
<1>11. TakesPublished'
  <2>1. \A k \in Pushed + 1 .. Popped + N : k \in Pushed .. Popped + N
    BY Bounds
  <2> QED  BY <1>1, <1>4, <2>1 DEF IInv, TakesPublished
<1>12. ItemsInPlace'
  <2>1. /\ sent \in Seq(Item) /\ Len(sent) = Pushed /\ Len(sent') = Pushed + 1
        /\ \A k \in 1 .. Pushed : sent'[k] = sent[k]
        /\ sent'[Pushed + 1] = producer.arg
    BY <1>1, <1>5 DEF IInv, TypeOK, ItemsInPlace
  <2>2. ASSUME NEW k \in Popped .. Pushed
        PROVE  slot[k % kSlots].item = sent'[k + 1] \/ (k = Popped /\ consumer.pc = "store")
    <3>1. CASE k = Pushed
      BY <1>1, <2>1, <3>1 DEF IInv, ItemsInPlace
    <3>2. CASE k \in Popped .. Pushed - 1
      <4>1. k + 1 \in 1 .. Pushed
        BY <3>2, Bounds
      <4> QED  BY <2>1, <3>2, <4>1 DEF IInv, ItemsInPlace
    <3> QED  BY <3>1, <3>2, Counts
  <2>3. consumer.pc = "store" => Popped + 1 \in 1 .. Pushed
    BY Bounds DEF IInv, IndicesOrdered
  <2>4. Popped' .. Pushed' - 1 = Popped .. Pushed
    BY <1>4, Bounds
  <2>5. \A k \in Popped' .. Pushed' - 1 :
          slot'[k % kSlots].item = sent'[k + 1] \/ (k = Popped' /\ consumer'.pc = "store")
    BY <1>1, <1>4, <2>2, <2>4
  <2>6. consumer'.pc = "store" => consumer'.res = sent'[Popped' + 1]
    BY <1>1, <1>4, <2>1, <2>3 DEF IInv, ItemsInPlace
  <2> QED  BY <1>1, <1>4, <1>5, <2>1, <2>5, <2>6 DEF IInv, ItemsInPlace
<1> QED  BY <1>6, <1>7, <1>8, <1>9, <1>10, <1>11, <1>12 DEF IInv

-----------------------------------------------------------------------------
LEMMA PushWriteIInv == ASSUME IInv, PushWrite \/ PushThrows PROVE IInv'
<1>1. CASE PushWrite
  <2>1. producer.arg \in Item \cup {Moved}
    BY DEF IInv, TypeOK
  <2> QED  BY <1>1, <2>1, WriteIInv DEF PushWrite, Wrote
<1>2. CASE PushThrows
  <2>1. Moved \in Item \cup {Moved}
    OBVIOUS
  <2> QED  BY <1>2, <2>1, WriteIInv DEF PushThrows, Wrote
<1> QED  BY <1>1, <1>2

LEMMA PopTakeIInv == ASSUME IInv, PopTake PROVE IInv'
<1> DEFINE own == Popped % kSlots
<1>1. /\ own \in Index /\ OwnValue(head) = own /\ takes \in Nat
      /\ consumer.pc = "take" /\ takes' = takes + 1
      /\ consumer' = [pc |-> "store", res |-> slot[own].item]
      /\ slot' = [slot EXCEPT ![own].item = Moved, ![own].take = takes + 1]
      /\ UNCHANGED <<head, tail, writes, producer, sent, delivered>>
  BY OwnIndex, Counts DEF PopTake
<1>2. Pushed' = Pushed /\ Popped' = Popped /\ SeenPushes' = SeenPushes /\ SeenPops' = SeenPops
  BY <1>1 DEF Pushed, Popped, SeenPushes, SeenPops
<1>3. Popped < Pushed
  BY <1>1, Counts DEF IInv, IndicesOrdered
<1> HIDE DEF own
<1>4. /\ slot' \in [Index -> [item : Item \cup {Moved}, write : Nat, take : Nat]]
      /\ slot'[own].take = takes + 1 /\ slot'[own].write = slot[own].write
      /\ \A y \in Index : y # own => slot'[y] = slot[y]
      /\ slot[own].item \in Item \cup {Moved}
  <2>1. slot \in [Index -> [item : Item \cup {Moved}, write : Nat, take : Nat]]
    BY DEF IInv, TypeOK
  <2> DEFINE new == [item |-> Moved, write |-> slot[own].write, take |-> takes + 1]
  <2>2. slot' = [slot EXCEPT ![own] = [slot[own] EXCEPT !.item = Moved, !.take = takes + 1]]
    BY <1>1
  <2>3. /\ slot[own] \in [item : Item \cup {Moved}, write : Nat, take : Nat]
        /\ takes + 1 \in Nat /\ Moved \in Item \cup {Moved}
    BY <1>1, <2>1
  <2>4. /\ [slot[own] EXCEPT !.item = Moved, !.take = takes + 1] = new
        /\ slot[own].write \in Nat /\ slot[own].item \in Item \cup {Moved}
    BY <2>3, SlotRecord
  <2>5. /\ new \in [item : Item \cup {Moved}, write : Nat, take : Nat]
        /\ new.write = slot[own].write /\ new.take = takes + 1
    BY <2>3, <2>4
  <2> DEFINE Rec == [item : Item \cup {Moved}, write : Nat, take : Nat]
  <2>6. own \in Index /\ slot \in [Index -> Rec] /\ new \in Rec /\ slot' = [slot EXCEPT ![own] = new]
    BY <1>1, <2>1, <2>2, <2>4, <2>5
  <2> HIDE DEF new, Rec
  <2>7. slot' \in [Index -> Rec] /\ slot'[own] = new /\ \A y \in Index : y # own => slot'[y] = slot[y]
    BY <2>6, SlotSet
  <2> QED  BY <2>4, <2>5, <2>7 DEF Rec
<1>5. TypeOK'
  BY <1>1, <1>4 DEF IInv, TypeOK
<1>6. CellsOK'
  <2>1. CellOK(tail, writes, kSlots)'
    BY <1>1 DEF IInv, CellsOK, CellOK
  <2>2. CellOK(head, takes + 1, kSlots)
    BY MoreAccesses, Slots DEF IInv, CellsOK
  <2>3. CellOK(head, takes, kSlots)'
    BY <1>1, <2>2 DEF CellOK
  <2> QED  BY <2>1, <2>3 DEF CellsOK
<1>7. IndicesOrdered'
  BY <1>1, <1>2 DEF IInv, IndicesOrdered
<1>8. AccessesCounted'
  <2> SUFFICES ASSUME NEW y \in Index PROVE slot'[y].write <= writes' /\ slot'[y].take <= takes'
    BY DEF AccessesCounted
  <2>1. slot[y].write <= writes /\ slot[y].take <= takes /\ slot[y].take \in Nat
    BY DEF IInv, TypeOK, AccessesCounted
  <2>2. CASE y = own
    BY <1>1, <1>4, <2>1, <2>2
  <2>3. CASE y # own
    BY <1>1, <1>4, <2>1, <2>3
  <2> QED  BY <2>2, <2>3
<1>9. WritesPublished'
  <2> SUFFICES ASSUME NEW k \in Popped .. Pushed - 1
               PROVE  slot'[k % kSlots].write <= tail.stores[k + 2].acc
    BY <1>1, <1>2 DEF WritesPublished
  <2>1. k % kSlots \in Index
    BY SlotsApart, OwnIndex
  <2>2. slot'[k % kSlots].write = slot[k % kSlots].write
    BY <1>4, <2>1
  <2> QED  BY <2>2 DEF IInv, WritesPublished
<1>10. TakesPublished'
  <2> SUFFICES ASSUME NEW k \in Pushed .. Popped + N
               PROVE  slot'[k % kSlots].take <= IF k < kSlots THEN 0 ELSE head.stores[k - kSlots + 2].acc
    BY <1>1, <1>2 DEF TakesPublished
  <2>1. k # Popped
    BY <1>3, Counts
  <2>2. k % kSlots \in Index /\ k % kSlots # own
    BY <2>1, SlotsApart, OwnIndex DEF own
  <2> QED  BY <1>4, <2>2 DEF IInv, TakesPublished
<1>11. ItemsInPlace'
  <2>1. slot[own].item = sent[Popped + 1]
    <3>1. Popped \in Popped .. Pushed - 1
      BY <1>3, Counts
    <3> QED  BY <1>1, <3>1 DEF IInv, ItemsInPlace, own
  <2>2. ASSUME NEW k \in Popped .. Pushed - 1, k # Popped
        PROVE  slot'[k % kSlots] = slot[k % kSlots]
    <3>1. k \in Nat /\ Popped < k /\ k < Popped + kSlots
      BY <2>2, Bounds
    <3>2. k % kSlots \in Index /\ k % kSlots # own
      BY <3>1, Counts, Slots, ModApart, OwnIndex DEF own
    <3> QED  BY <1>4, <3>2
  <2>3. producer.pc = "store" => slot'[Pushed % kSlots] = slot[Pushed % kSlots]
    <3>1. Pushed < Popped + kSlots
      BY Counts, Slots
    <3>2. Pushed % kSlots \in Index /\ Pushed % kSlots # own
      BY <1>3, <3>1, Counts, Slots, ModApart, OwnIndex DEF own
    <3> QED  BY <1>4, <3>2
  <2> QED  BY <1>1, <1>2, <2>1, <2>2, <2>3 DEF IInv, ItemsInPlace
<1> QED  BY <1>5, <1>6, <1>7, <1>8, <1>9, <1>10, <1>11 DEF IInv

LEMMA PopStoreIInv == ASSUME IInv, PopStore PROVE IInv'
<1>1. /\ consumer.pc = "store" /\ head' = ReleaseStore(head, NextIndex(OwnValue(head)), takes)
      /\ delivered' = Append(delivered, consumer.res) /\ consumer' = [pc |-> "idle", res |-> Moved]
      /\ UNCHANGED <<slot, tail, writes, takes, producer, sent>>
  BY DEF PopStore, StoreHead
<1>2. NextIndex(OwnValue(head)) = Len(head.stores) % kSlots
  <2>1. Popped \in Nat /\ kSlots \in Nat \ {0}
    BY Bounds
  <2>2. ((Popped % kSlots) + 1) % kSlots = (Popped + 1) % kSlots
    BY <2>1, ModNext
  <2>3. OwnValue(head) = Popped % kSlots /\ Popped + 1 = Len(head.stores)
    BY OwnIndex, Counts
  <2> QED  BY <2>2, <2>3 DEF NextIndex
<1>3. /\ CellOK(head', takes, kSlots) /\ head'.seen = head.seen
      /\ Len(head'.stores) = Len(head.stores) + 1
      /\ \A k \in 1 .. Len(head.stores) : head'.stores[k] = head.stores[k]
      /\ head'.stores[Len(head.stores) + 1].acc = takes
  <2>1. IsStore(head', head, takes, kSlots)
    BY <1>1, <1>2 DEF IsStore
  <2> QED  BY <2>1, StoreCell, Slots DEF IInv, CellsOK
<1>4. Pushed' = Pushed /\ Popped' = Popped + 1 /\ SeenPushes' = SeenPushes /\ SeenPops' = SeenPops
  BY <1>1, <1>3, Counts DEF Pushed, Popped, SeenPushes, SeenPops
<1>5. Popped < SeenPushes /\ Popped < Pushed
  BY <1>1, Counts DEF IInv, IndicesOrdered
<1>6. CellsOK'
  <2>1. CellOK(tail, writes, kSlots)'
    BY <1>1 DEF IInv, CellsOK, CellOK
  <2>2. CellOK(head, takes, kSlots)'
    BY <1>1, <1>3 DEF CellOK
  <2> QED  BY <2>1, <2>2 DEF CellsOK
<1>7. TypeOK'
  <2>1. /\ \A k \in 1 .. Len(head'.stores) : head'.stores[k].val \in Index
        /\ head'.seen \in 1 .. Len(head'.stores) /\ head'.known \in Nat
    BY <1>3, CellTyped, Slots
  <2>2. delivered' \in Seq(Item \cup {Moved})
    BY <1>1 DEF IInv, TypeOK
  <2>3. consumer' \in [pc : {"idle", "load", "take", "store"}, res : Item \cup {Moved}]
    BY <1>1
  <2> QED  BY <1>1, <2>1, <2>2, <2>3 DEF IInv, TypeOK
<1>8. IndicesOrdered'
  BY <1>1, <1>4, <1>5, Bounds DEF IInv, IndicesOrdered
<1>9. AccessesCounted'
  BY <1>1 DEF IInv, AccessesCounted
<1>10. WritesPublished'
  <2>1. \A k \in Popped + 1 .. Pushed - 1 : k \in Popped .. Pushed - 1
    BY Counts
  <2> QED  BY <1>1, <1>4, <2>1 DEF IInv, WritesPublished
<1>11. TakesPublished'
  <2> SUFFICES ASSUME NEW k \in Pushed .. Popped + 1 + N
               PROVE  slot[k % kSlots].take <= IF k < kSlots THEN 0 ELSE head'.stores[k - kSlots + 2].acc
    BY <1>1, <1>4 DEF TakesPublished
  <2>0. /\ Popped \in Nat /\ Pushed \in Nat /\ N \in Nat /\ kSlots = N + 1
        /\ Len(head.stores) = Popped + 1
    BY Counts, Slots
  <2>1. CASE k = Popped + kSlots
    <3>1. k \in Nat /\ k >= kSlots /\ k - kSlots + 2 = Len(head.stores) + 1
      BY <2>0, <2>1
    <3>2. head'.stores[k - kSlots + 2].acc = takes
      BY <1>3, <3>1
    <3>3. k % kSlots \in Index
      BY <3>1, OwnIndex
    <3>4. slot[k % kSlots].take <= takes
      BY <3>3 DEF IInv, AccessesCounted
    <3>5. ~(k < kSlots)
      BY <2>0, <3>1
    <3> QED  BY <3>2, <3>4, <3>5
  <2>2. CASE k \in Pushed .. Popped + N
    <3>1. slot[k % kSlots].take <= IF k < kSlots THEN 0 ELSE head.stores[k - kSlots + 2].acc
      BY <2>2 DEF IInv, TakesPublished
    <3>2. ASSUME ~(k < kSlots) PROVE head'.stores[k - kSlots + 2] = head.stores[k - kSlots + 2]
      <4>1. k - kSlots + 2 \in 1 .. Len(head.stores)
        BY <2>0, <2>2, <3>2
      <4> QED  BY <1>3, <4>1
    <3> QED  BY <3>1, <3>2
  <2>3. k = Popped + kSlots \/ k \in Pushed .. Popped + N
    BY <2>0
  <2> QED  BY <2>1, <2>2, <2>3
<1>12. ItemsInPlace'
  <2>1. Len(sent) = Pushed /\ Len(delivered') = Popped + 1
    BY <1>1 DEF IInv, TypeOK, ItemsInPlace
  <2>2. \A k \in Popped + 1 .. Pushed - 1 : k \in Popped .. Pushed - 1 /\ k # Popped
    BY Counts
  <2>3. consumer'.pc = "idle"
    BY <1>1
  <2> QED  BY <1>1, <1>4, <2>1, <2>2, <2>3 DEF IInv, ItemsInPlace
<1> QED  BY <1>6, <1>7, <1>8, <1>9, <1>10, <1>11, <1>12 DEF IInv

-----------------------------------------------------------------------------
LEMMA InitIInv == ASSUME Init PROVE IInv
<1> DEFINE store == [val |-> 0, acc |-> 0]
<1>1. /\ head = [stores |-> <<store>>, seen |-> 1, known |-> 0] /\ tail = head
      /\ writes = 0 /\ takes = 0 /\ sent = <<>> /\ delivered = <<>>
      /\ slot = [i \in Index |-> [item |-> Moved, write |-> 0, take |-> 0]]
      /\ producer = [pc |-> "idle", arg |-> Moved] /\ consumer = [pc |-> "idle", res |-> Moved]
  BY DEF Init, Cell
<1>2. /\ head.stores = <<store>> /\ head.seen = 1 /\ head.known = 0
      /\ Len(head.stores) = 1 /\ head.stores[1] = store /\ store.val = 0 /\ store.acc = 0
      /\ head.stores \in Seq([val : Nat, acc : Nat])
  BY <1>1
<1>3. head \in Cells
  BY <1>1, <1>2 DEF Cells
<1>4. 0 % kSlots = 0
  <2>1. 0 = kSlots * 0 + 0 /\ 0 \in 0 .. kSlots - 1 /\ 0 \in Int /\ 0 \in Nat
    BY Slots
  <2> QED  BY <2>1, Slots, ModUnique
<1> HIDE DEF store
<1>5. CellOK(head, 0, kSlots)
  <2>1. \A k \in 1 .. Len(head.stores) : k = 1
    BY <1>2
  <2>2. \A k \in 1 .. head.seen : k = 1
    BY <1>2
  <2>3. (1 - 1) % kSlots = 0
    BY <1>4
  <2> QED  BY <1>2, <1>3, <2>1, <2>2, <2>3 DEF CellOK
<1>6. CellsOK
  BY <1>1, <1>5 DEF CellsOK
<1>7. Pushed = 0 /\ Popped = 0 /\ SeenPushes = 0 /\ SeenPops = 0
  BY <1>1, <1>2 DEF Pushed, Popped, SeenPushes, SeenPops
<1>8. TypeOK
  <2>1. /\ \A k \in 1 .. Len(head.stores) : head.stores[k].val \in Index
        /\ head.seen \in 1 .. Len(head.stores) /\ head.known \in Nat
    BY <1>5, CellTyped, Slots
  <2> QED  BY <1>1, <2>1 DEF TypeOK
<1>9. IndicesOrdered
  BY <1>1, <1>7, Slots DEF IndicesOrdered
<1>10. AccessesCounted
  BY <1>1 DEF AccessesCounted
<1>11. WritesPublished
  BY <1>7 DEF WritesPublished
<1>12. TakesPublished
  <2> SUFFICES ASSUME NEW k \in 0 .. N PROVE slot[k % kSlots].take <= IF k < kSlots THEN 0 ELSE head.stores[k - kSlots + 2].acc
    BY <1>7, Slots DEF TakesPublished
  <2>1. k \in Nat /\ k < kSlots
    BY Slots
  <2>2. k % kSlots \in Index
    BY <2>1, Slots, DivMod
  <2> QED  BY <1>1, <2>1, <2>2
<1>13. ItemsInPlace
  BY <1>1, <1>7 DEF ItemsInPlace
<1> QED  BY <1>6, <1>8, <1>9, <1>10, <1>11, <1>12, <1>13 DEF IInv

LEMMA StutterIInv == ASSUME IInv, UNCHANGED vars PROVE IInv'
<1>1. /\ CellsOK' /\ Pushed' = Pushed /\ Popped' = Popped
      /\ SeenPushes' = SeenPushes /\ SeenPops' = SeenPops
      /\ AccessesCounted' /\ WritesPublished' /\ TakesPublished'
  BY SameCells, SameStores DEF vars
<1>2. TypeOK' /\ IndicesOrdered' /\ ItemsInPlace'
  BY <1>1 DEF vars, IInv, TypeOK, IndicesOrdered, ItemsInPlace
<1> QED  BY <1>1, <1>2 DEF IInv

LEMMA NextIInv == ASSUME IInv, [Next]_vars PROVE IInv'
<1>1. ASSUME NEW i \in 1 .. Len(tail.stores), PopLoad(i) PROVE IInv'
  BY <1>1, PopLoadIInv
<1> QED
  BY <1>1, TryPushIInv, PushLoadIInv, PushWriteIInv, PushStoreIInv, TryPopIInv,
     PopTakeIInv, PopStoreIInv, StutterIInv DEF Next, Producer, Consumer

(* The counts keep the two threads apart and the items in order.           *)
THEOREM Invariance == Spec => []IInv
<1>1. Init => IInv
  BY InitIInv
<1>2. IInv /\ [Next]_vars => IInv'
  BY NextIInv
<1> QED  BY <1>1, <1>2, PTL DEF Spec

(* Neither thread accesses a slot unless the other thread's last access to *)
(* it happened before, whatever the capacity and however stale its loads.  *)
THEOREM RaceFreedom == Spec => []NoDataRace
<1>1. ASSUME IInv PROVE NoDataRace
  <2>1. ASSUME producer.pc = "write" PROVE slot[OwnValue(tail)].take <= head.known
    <3>1. Pushed < SeenPops + N /\ Pushed \in Pushed .. Popped + N
      BY <1>1, <2>1, Bounds DEF IInv, IndicesOrdered
    <3>2. slot[Pushed % kSlots].take <= IF Pushed < kSlots THEN 0 ELSE head.stores[Pushed - kSlots + 2].acc
      BY <1>1, <3>1 DEF IInv, TakesPublished
    <3>3. /\ head.known \in Nat /\ slot[Pushed % kSlots].take \in Nat
          /\ OwnValue(tail) = Pushed % kSlots
      <4>1. Pushed % kSlots \in Index
        BY <1>1, OwnIndex, Counts
      <4> QED  BY <1>1, <4>1, OwnIndex DEF IInv, TypeOK
    <3>4. CASE Pushed < kSlots
      BY <3>2, <3>3, <3>4
    <3>5. CASE ~(Pushed < kSlots)
      <4>1. Pushed - kSlots + 2 \in 1 .. head.seen /\ Pushed - kSlots + 2 \in 1 .. Len(head.stores)
        <5>1. Pushed - kSlots + 2 \in Int /\ 1 <= Pushed - kSlots + 2 /\ Pushed - kSlots + 2 <= SeenPops + 1
          BY <1>1, <3>1, <3>5, Bounds
        <5>2. head.seen = SeenPops + 1 /\ Len(head.stores) = Popped + 1
          BY <1>1, Counts
        <5>3. SeenPops <= Popped /\ SeenPops \in Nat /\ Popped \in Nat
          BY <1>1, Bounds
        <5> QED  BY <5>1, <5>2, <5>3
      <4>2. head.stores[Pushed - kSlots + 2].acc <= head.known
        BY <1>1, <4>1 DEF IInv, CellsOK, CellOK
      <4>3. head.stores[Pushed - kSlots + 2].acc \in Nat
        BY <1>1, <4>1, CellFacts, Slots DEF IInv, CellsOK
      <4> QED  BY <3>2, <3>3, <3>5, <4>2, <4>3
    <3> QED  BY <3>4, <3>5
  <2>2. ASSUME consumer.pc = "take" PROVE slot[OwnValue(head)].write <= tail.known
    <3>1. Popped < SeenPushes /\ Popped \in Popped .. Pushed - 1
      BY <1>1, <2>2, Bounds DEF IInv, IndicesOrdered
    <3>2. slot[Popped % kSlots].write <= tail.stores[Popped + 2].acc
      BY <1>1, <3>1 DEF IInv, WritesPublished
    <3>3. /\ tail.known \in Nat /\ slot[Popped % kSlots].write \in Nat
          /\ OwnValue(head) = Popped % kSlots
      <4>1. Popped % kSlots \in Index
        BY <1>1, OwnIndex, Counts
      <4> QED  BY <1>1, <4>1, OwnIndex DEF IInv, TypeOK
    <3>4. Popped + 2 \in 1 .. tail.seen /\ Popped + 2 \in 1 .. Len(tail.stores)
      <4>1. tail.seen = SeenPushes + 1 /\ Len(tail.stores) = Pushed + 1
        BY <1>1, Counts
      <4>2. Popped \in Nat /\ SeenPushes \in Nat /\ Pushed \in Nat /\ SeenPushes <= Pushed
        BY <1>1, Bounds
      <4> QED  BY <3>1, <4>1, <4>2
    <3>5. tail.stores[Popped + 2].acc <= tail.known
      BY <1>1, <3>4 DEF IInv, CellsOK, CellOK
    <3>6. tail.stores[Popped + 2].acc \in Nat
      BY <1>1, <3>4, CellFacts, Slots DEF IInv, CellsOK
    <3> QED  BY <3>2, <3>3, <3>5, <3>6
  <2> QED  BY <2>1, <2>2 DEF NoDataRace
<1> QED  BY <1>1, Invariance, PTL

-----------------------------------------------------------------------------
(* The queue the ring implements holds what is pushed and not yet popped.  *)
LEMMA QueueContents ==
  ASSUME IInv
  PROVE  /\ Len(sent) = Pushed /\ Len(delivered) = Popped /\ Pushed \in Nat /\ Popped \in Nat
         /\ sent \in Seq(Item) /\ Popped <= Pushed
         /\ Len(Queue) = Pushed - Popped /\ Queue \in Seq(Item)
         /\ \A k \in 1 .. Pushed - Popped : Queue[k] = sent[Popped + k]
<1>1. /\ Len(sent) = Pushed /\ Len(delivered) = Popped /\ Pushed \in Nat /\ Popped \in Nat
      /\ sent \in Seq(Item) /\ Popped <= Pushed
  BY Counts DEF IInv, TypeOK, ItemsInPlace
<1>2. \A k \in Popped + 1 .. Pushed : sent[k] \in Item
  BY <1>1, ElementOfSeq
<1>3. Queue = SubSeq(sent, Popped + 1, Pushed) /\ Popped + 1 \in Int /\ Pushed \in Int
  BY <1>1 DEF Queue
<1>4. /\ Queue \in Seq(Item)
      /\ Len(Queue) = IF Popped + 1 <= Pushed THEN Pushed - (Popped + 1) + 1 ELSE 0
      /\ \A k \in 1 .. Pushed - (Popped + 1) + 1 : Queue[k] = sent[Popped + 1 + k - 1]
  BY <1>2, <1>3, SubSeqProperties
<1>5. Len(Queue) = Pushed - Popped
  BY <1>1, <1>4
<1>6. ASSUME NEW k \in 1 .. Pushed - Popped PROVE Queue[k] = sent[Popped + k]
  <2>1. k \in 1 .. Pushed - (Popped + 1) + 1 /\ Popped + 1 + k - 1 = Popped + k
    BY <1>1
  <2> QED  BY <1>4, <2>1
<1> QED  BY <1>1, <1>4, <1>5, <1>6

LEMMA LoadDecides ==
  ASSUME IInv, PushLoad
  PROVE  /\ Len(Queue) = N => producer'.pc = "idle"
         /\ head'.seen = Len(head.stores) /\ producer'.pc = "idle" => Len(Queue) = N
<1>1. PICK i \in Readable(head) :
        /\ head' = AcquireLoad(head, i)
        /\ producer' = [producer EXCEPT !.pc =
             IF Full(NextIndex(OwnValue(tail)), ValueAt(head, i)) THEN "idle" ELSE "write"]
  BY DEF PushLoad, LoadHead
<1>2. head'.seen = i /\ i <= Len(head.stores)
  BY <1>1, LoadCell, Slots DEF IInv, CellsOK
<1>3. producer'.pc = "idle" <=> Full(NextIndex(OwnValue(tail)), ValueAt(head, i))
  BY <1>1 DEF IInv, TypeOK
<1>4. i \in Nat /\ Pushed <= i - 1 + N /\ (producer'.pc = "idle" <=> Pushed = i - 1 + N)
  BY <1>3, SeesRoom, Zenon
<1>5. Len(Queue) = Pushed - Popped /\ Len(head.stores) = Popped + 1
  BY QueueContents, Counts
<1>6. i - 1 <= Popped /\ Pushed \in Nat /\ Popped \in Nat /\ N \in Nat
  BY <1>2, <1>4, <1>5, Counts, Slots
<1>7. ASSUME Len(Queue) = N PROVE producer'.pc = "idle"
  <2>1. Pushed = i - 1 + N
    BY <1>4, <1>5, <1>6, <1>7
  <2> QED  BY <1>4, <2>1
<1>8. ASSUME head'.seen = Len(head.stores), producer'.pc = "idle" PROVE Len(Queue) = N
  <2>1. i = Popped + 1 /\ Pushed = i - 1 + N
    BY <1>2, <1>4, <1>5, <1>8
  <2> QED  BY <1>5, <1>6, <2>1
<1> QED  BY <1>7, <1>8

(* try_push refuses an item only when the ring holds N, if it sees the     *)
(* newest head, and never accepts one more.                                *)
THEOREM RefusesOnlyWhenFull == Spec => FailsOnlyWhenFull
<1> DEFINE Decides == producer.pc = "load" /\ producer.pc' # "load"
                        => /\ Len(Queue) = N => producer.pc' = "idle"
                           /\ head'.seen = Len(head.stores) /\ producer.pc' = "idle" => Len(Queue) = N
<1>1. ASSUME IInv, [Next]_vars PROVE Decides
  <2> SUFFICES ASSUME producer.pc = "load", producer.pc' # "load"
               PROVE  /\ Len(Queue) = N => producer.pc' = "idle"
                      /\ head'.seen = Len(head.stores) /\ producer.pc' = "idle" => Len(Queue) = N
    OBVIOUS
  <2>1. PushLoad
    BY <1>1 DEF Next, vars, Producer, Consumer, TryPush, PushWrite, PushThrows, PushStore,
         TryPop, PopLoad, PopTake, PopThrows, PopStore
  <2>2. producer.pc' = producer'.pc
    OBVIOUS
  <2> QED  BY <1>1, <2>1, <2>2, LoadDecides
<1>2. IInv /\ [Next]_vars => [Decides]_vars
  BY <1>1
<1> QED  BY <1>2, Invariance, PTL DEF Spec, FailsOnlyWhenFull

-----------------------------------------------------------------------------
LEMMA PushStorePushes == ASSUME IInv, PushStore PROVE Abstract!Push(producer.arg)
<1>1. /\ sent' = Append(sent, producer.arg) /\ delivered' = delivered /\ producer.pc = "store"
      /\ producer.arg \in Item
  BY DEF PushStore, IInv, ItemsInPlace
<1>2. Len(Queue) < N
  <2>1. Pushed < SeenPops + N /\ SeenPops <= Popped
    BY <1>1, Counts DEF IInv, IndicesOrdered
  <2> QED  BY <2>1, Counts, QueueContents, Slots
<1>3. Queue' = Append(Queue, producer.arg)
  <2> DEFINE n == Pushed - Popped
             new == Append(Queue, producer.arg)
             q == SubSeq(sent', Popped + 1, Pushed + 1)
  <2>1. /\ sent' \in Seq(Item) /\ Len(sent') = Pushed + 1 /\ sent'[Pushed + 1] = producer.arg
        /\ \A k \in 1 .. Pushed : sent'[k] = sent[k]
    BY <1>1, QueueContents, AppendProperties
  <2>2. Queue' = q
    BY <1>1, <2>1, QueueContents DEF Queue
  <2>3. /\ new \in Seq(Item) /\ Len(new) = n + 1 /\ new[n + 1] = producer.arg
        /\ \A k \in 1 .. n : new[k] = sent[Popped + k]
    BY <1>1, QueueContents, AppendProperties
  <2>4. /\ Popped \in Nat /\ Pushed \in Nat /\ Popped <= Pushed /\ n \in Nat
    BY QueueContents
  <2>5. /\ q \in Seq(Item) /\ Len(q) = n + 1
        /\ \A k \in 1 .. n + 1 : q[k] = sent'[Popped + k]
    <3>1. \A k \in Popped + 1 .. Pushed + 1 : sent'[k] \in Item
      BY <2>1, <2>4, ElementOfSeq
    <3>2. /\ q \in Seq(Item)
          /\ Len(q) = IF Popped + 1 <= Pushed + 1 THEN (Pushed + 1) - (Popped + 1) + 1 ELSE 0
          /\ \A k \in 1 .. (Pushed + 1) - (Popped + 1) + 1 : q[k] = sent'[(Popped + 1) + k - 1]
      BY <2>4, <3>1, SubSeqProperties
    <3> HIDE DEF q
    <3>3. Len(q) = n + 1
      BY <2>4, <3>2
    <3>4. \A k \in 1 .. n + 1 : /\ k \in 1 .. (Pushed + 1) - (Popped + 1) + 1
                                /\ (Popped + 1) + k - 1 = Popped + k
      BY <2>4
    <3> QED  BY <3>2, <3>3, <3>4
  <2>6. ASSUME NEW k \in 1 .. n + 1 PROVE q[k] = new[k]
    <3>1. CASE k = n + 1
      BY <2>1, <2>3, <2>4, <2>5, <3>1
    <3>2. CASE k \in 1 .. n
      <4>1. Popped + k \in 1 .. Pushed
        BY <2>4, <3>2
      <4> QED  BY <2>1, <2>3, <2>5, <3>2, <4>1
    <3> HIDE DEF n, q, new
    <3>3. k = n + 1 \/ k \in 1 .. n
      BY <2>4
    <3> QED  BY <3>1, <3>2, <3>3, Zenon
  <2> HIDE DEF q, new
  <2>7. q = new
    BY <2>3, <2>5, <2>6, SeqEqual
  <2> QED  BY <2>2, <2>7 DEF new
<1> QED  BY <1>1, <1>2, <1>3 DEF Abstract!Push

LEMMA PopStorePops == ASSUME IInv, PopStore PROVE Abstract!Pop
<1>1. /\ delivered' = Append(delivered, consumer.res) /\ sent' = sent /\ consumer.pc = "store"
  BY DEF PopStore
<1>2. Popped < Pushed /\ consumer.res = sent[Popped + 1]
  BY <1>1, Counts DEF IInv, IndicesOrdered, ItemsInPlace
<1>3. /\ Popped \in Nat /\ Pushed \in Nat /\ Len(sent) = Pushed /\ Len(delivered) = Popped
      /\ sent \in Seq(Item) /\ Len(Queue) = Pushed - Popped
  BY QueueContents
<1>4. Queue = SubSeq(sent, Popped + 1, Pushed)
  BY <1>3 DEF Queue
<1>5. Head(Queue) = sent[Popped + 1] /\ Tail(Queue) = SubSeq(sent, (Popped + 1) + 1, Pushed)
  <2>1. Popped + 1 \in 1 .. Len(sent) /\ Pushed \in Popped + 1 .. Len(sent)
    BY <1>2, <1>3
  <2> QED  BY <1>3, <1>4, <2>1, HeadTailOfSubSeq
<1>6. Queue' = SubSeq(sent, (Popped + 1) + 1, Pushed)
  <2>1. Len(delivered') = Popped + 1
    BY <1>1, <1>3 DEF IInv, TypeOK
  <2> QED  BY <1>1, <1>3, <2>1 DEF Queue
<1>7. Queue # <<>>
  BY <1>2, <1>3
<1> QED  BY <1>1, <1>2, <1>5, <1>6, <1>7 DEF Abstract!Pop

(* The ring implements the bounded FIFO queue, whatever its capacity: the  *)
(* store of tail is the push, and the store of head the pop.               *)
THEOREM Implementation == Spec => ImplementsBoundedFifo
<1>1. Init => Abstract!Init
  <2> SUFFICES ASSUME Init PROVE Abstract!Init
    OBVIOUS
  <2>1. Len(Queue) = 0 /\ Queue \in Seq(Item) /\ delivered = <<>>
    <3>1. IInv /\ delivered = <<>> /\ sent = <<>>
      BY InitIInv DEF Init
    <3>2. Pushed = 0 /\ Popped = 0
      BY <3>1, QueueContents
    <3> QED  BY <3>1, <3>2, QueueContents
  <2> QED  BY <2>1, EmptySeq DEF Abstract!Init
<1>2. IInv /\ [Next]_vars => [Abstract!Next]_<<Queue, delivered>>
  <2> SUFFICES ASSUME IInv, [Next]_vars PROVE Abstract!Next \/ UNCHANGED <<sent, delivered>>
    BY DEF Queue
  <2>1. CASE PushStore
    <3>1. producer.arg \in Item
      BY <2>1 DEF PushStore, IInv, ItemsInPlace
    <3> QED  BY <2>1, <3>1, PushStorePushes DEF Abstract!Next
  <2>2. CASE PopStore
    BY <2>2, PopStorePops DEF Abstract!Next
  <2>3. CASE ~PushStore /\ ~PopStore
    BY <2>3 DEF Next, vars, Producer, Consumer, TryPush, PushLoad, PushWrite, PushThrows,
         TryPop, PopLoad, PopTake, PopThrows
  <2> QED  BY <2>1, <2>2, <2>3
<1> QED  BY <1>1, <1>2, Invariance, PTL DEF Spec, ImplementsBoundedFifo, Abstract!Spec
=============================================================================

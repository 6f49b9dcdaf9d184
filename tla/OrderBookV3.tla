---------------------------- MODULE OrderBookV3 ----------------------------
(***************************************************************************)
(* The order book of misc/orderbook/v03: the orders live in a vector       *)
(* indexed by identifier and are never erased; an order with nothing left  *)
(* to trade is dead.  The vector reserves room when the book is created;   *)
(* emplace_back into a full vector moves the orders to a new buffer, and   *)
(* the pointers that the levels and the orders hold stay behind.           *)
(*                                                                         *)
(* The pointer to an order is <<buffer, id>>.  A read through a pointer    *)
(* into a buffer already freed is undefined; of its outcomes this module   *)
(* takes the one where the memory still holds what it last held.           *)
(***************************************************************************)
EXTENDS OrderTypes

CONSTANTS
  Reserve,   \* the argument of orders.reserve: 5'000'000
  MaxAdds    \* bound: calls of add; at most IdMod, so that identifiers do not repeat

VARIABLES
  current_order_id,
  levels,    \* bids and asks: for each side, the levels by price
  memory,    \* every order in every buffer, the freed ones included
  buffer,    \* the vector's current buffer, counted from 0
  capacity,  \* and its capacity
  result     \* what the last call returned

vars == <<current_order_id, levels, memory, buffer, capacity, result>>

Lists == INSTANCE IntrusiveLevels WITH KeepFilled <- TRUE

Init ==
  /\ current_order_id = 0
  /\ levels = [s \in Sides |-> [p \in {} |-> Nothing]]
  /\ memory = [p \in {} |-> Nothing]
  /\ buffer = 0
  /\ capacity = Reserve
  /\ result = Nothing

(* &orders[id] and orders.size() *)
At(id) == <<buffer, id>>
Size == current_order_id

-----------------------------------------------------------------------------
(* Slips a maintainer could make *)

(* a cancelled order is not marked dead *)
Kill_Never(m, p) == m

(* the order rests with all it asked for, not with what is left of it *)
Revive_Whole(m, p, asked, left) == [m EXCEPT ![p].qty = asked]

-----------------------------------------------------------------------------
(* the Order that add constructs before it matches *)
Dormant(taker) == Lists!NewOrder(taker, 0)

(* orders.emplace_back: the vector moves to twice its room when it is full *)
Grows == Size = capacity
NewBuffer == IF Grows THEN buffer + 1 ELSE buffer
EmplaceBack(order) ==
  LET moved == [p \in {<<NewBuffer, i>> : i \in 0 .. Size - 1} |-> memory[At(p[2])]]
  IN (<<NewBuffer, Size>> :> order) @@ moved @@ memory

(* orders[order_id].qty = qty in record: the order comes to life *)
Revive(m, p, asked, left) == [m EXCEPT ![p].qty = left]

Add(side, price, qty) ==
  LET taker == [id |-> current_order_id, side |-> side, price |-> price]
      self == <<NewBuffer, current_order_id>>
      done == Lists!Match(taker, [m |-> EmplaceBack(Dormant(taker)),
                                  book |-> levels[Against(side)],
                                  remaining |-> qty, trades |-> <<>>])
      rest == Lists!Record(done.m, levels[side], self, price, done.remaining)
      rests == done.remaining > 0
  IN /\ current_order_id < MaxAdds
     /\ current_order_id' = current_order_id + 1
     /\ buffer' = NewBuffer
     /\ capacity' = IF Grows THEN 2 * capacity ELSE capacity
     /\ levels' = [levels EXCEPT ![Against(side)] = done.book,
                                 ![side] = IF rests THEN rest.book ELSE @]
     /\ memory' = IF rests THEN Revive(rest.m, self, qty, done.remaining) ELSE done.m
     /\ result' = OrderResult(current_order_id, done.trades)

Known(id) == id < Size

(* order.qty = 0 *)
Kill(m, p) == [m EXCEPT ![p].qty = 0]

Cancel(id) ==
  /\ IF ~ Known(id) \/ memory[At(id)].qty = 0
     THEN /\ result' = Cancelled(FALSE)
          /\ UNCHANGED <<levels, memory>>
     ELSE LET side == memory[At(id)].side
              cut == Lists!RemoveFromBook(memory, levels[side], At(id))
          IN /\ levels' = [levels EXCEPT ![side] = cut.book]
             /\ memory' = Kill(cut.m, At(id))
             /\ result' = Cancelled(TRUE)
  /\ UNCHANGED <<current_order_id, buffer, capacity>>

GetBest(side) == Lists!BestLevel(side, levels[side])

Next ==
  \/ \E side \in Sides, price \in Prices, qty \in Qty : Add(side, price, qty)
  \/ \E id \in OrderId : Cancel(id)

Spec == Init /\ [][Next]_vars

-----------------------------------------------------------------------------
(* the orders that cancel would find alive *)
Live == {At(id) : id \in {i \in 0 .. Size - 1 : memory[At(i)].qty # 0}}

(* Every call leaves well-typed state: the vector holds the orders 0 to    *)
(* current_order_id - 1, each at its own index.                            *)
TypeOK ==
  LET Pointer == {Lists!Null} \cup DOMAIN memory
  IN /\ current_order_id \in 0 .. MaxAdds
     /\ buffer \in Nat /\ capacity \in Nat /\ Size <= capacity
     /\ \A s \in Sides :
          /\ DOMAIN levels[s] \subseteq Prices
          /\ \A p \in DOMAIN levels[s] :
               levels[s][p] \in [total_qty : Qty, head : Pointer, tail : Pointer]
     /\ {At(i) : i \in 0 .. Size - 1} \subseteq DOMAIN memory
     /\ \A p \in DOMAIN memory :
          memory[p] \in [order_id : {p[2]}, side : Sides, price : Prices, qty : Qty,
                         next : Pointer, prev : Pointer]

(* Every level is a doubly linked list from head to tail, and the lists    *)
(* hold exactly the live orders, each at its side and price: the links a   *)
(* dead order keeps are never followed.                                    *)
ListsWellFormed ==
  /\ TypeOK
  /\ \A s \in Sides : \A p \in DOMAIN levels[s] : Lists!WellLinked(memory, levels[s][p])
  /\ \A s \in Sides, p \in Prices :
       {o \in Live : memory[o].side = s /\ memory[o].price = p} =
         IF p \in DOMAIN levels[s] THEN Range(Lists!Chain(memory, levels[s][p])) ELSE {}

(* orderbook_test.cpp:355-356, "best bid mismatch" and "best ask           *)
(* mismatch": getBestBid and getBestAsk report the best price of the       *)
(* orders that can be cancelled and the sum of what they have left.        *)
BestLevelsAgree ==
  \A s \in Sides :
    LET live == {o \in Live : memory[o].side = s}
        p == Best(s, {memory[o].price : o \in live})
    IN GetBest(s) =
         IF live = {} THEN NoLevel
         ELSE PriceLevel(p, Total([o \in DOMAIN memory |-> memory[o].qty],
                                  {o \in live : memory[o].price = p}))

(* The book is a reference book: the same trades, identifiers and verdicts *)
(* call by call, and the same orders resting in the same order.            *)
Queue(s, p) ==
  IF p \notin DOMAIN levels[s] THEN <<>>
  ELSE LET c == Lists!Chain(memory, levels[s][p])
       IN [i \in DOMAIN c |-> [id |-> memory[c[i]].order_id, qty |-> memory[c[i]].qty]]

Reference == INSTANCE ReferenceBook WITH
  next_id <- current_order_id % IdMod,
  resting <- [s \in Sides |-> [p \in Prices |-> Queue(s, p)]]

ImplementsReferenceBook == Reference!Spec
=============================================================================

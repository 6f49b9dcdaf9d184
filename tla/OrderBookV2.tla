---------------------------- MODULE OrderBookV2 ----------------------------
(***************************************************************************)
(* The order book of misc/orderbook/v02: the orders live in a hash table,  *)
(* whose nodes stay put, and are linked into their price levels.           *)
(*                                                                         *)
(* The pointer to an order is <<id>>, its key in the hash table.           *)
(***************************************************************************)
EXTENDS OrderTypes

CONSTANT ReuseIds   \* as in OrderBookV1: 2^32 calls may pass while an order rests

VARIABLES
  current_order_id,
  levels,   \* bids and asks: for each side, the levels by price
  orders,   \* the hash table
  result    \* what the last call returned

vars == <<current_order_id, levels, orders, result>>

Lists == INSTANCE IntrusiveLevels WITH KeepFilled <- FALSE

Init ==
  /\ current_order_id = 0
  /\ levels = [s \in Sides |-> [p \in {} |-> Nothing]]
  /\ orders = [p \in {} |-> Nothing]
  /\ result = Nothing

-----------------------------------------------------------------------------
(* Slips a maintainer could make *)

(* cancel unlinks the order and leaves it in the hash table *)
Erase_Never(p) == Lists!RemoveFromBook(orders, levels[orders[p].side], p).m

-----------------------------------------------------------------------------
(* orders.try_emplace: an entry that is already there is kept *)
TryEmplace(m, taker, qty) == m @@ (<<taker.id>> :> Lists!NewOrder(taker, qty))

Add(side, price, qty) ==
  LET taker == [id |-> current_order_id, side |-> side, price |-> price]
      done == Lists!Match(taker, [m |-> orders, book |-> levels[Against(side)],
                                  remaining |-> qty, trades |-> <<>>])
      rest == Lists!Record(TryEmplace(done.m, taker, done.remaining), levels[side],
                           <<taker.id>>, price, done.remaining)
      rests == done.remaining > 0
  IN /\ ReuseIds \/ <<current_order_id>> \notin DOMAIN orders
     /\ current_order_id' = (current_order_id + 1) % IdMod
     /\ levels' = [levels EXCEPT ![Against(side)] = done.book,
                                 ![side] = IF rests THEN rest.book ELSE @]
     /\ orders' = IF rests THEN rest.m ELSE done.m
     /\ result' = OrderResult(current_order_id, done.trades)

(* orders.erase, after the order has been unlinked *)
Erase(p) ==
  Lists!Without(Lists!RemoveFromBook(orders, levels[orders[p].side], p).m, p)

Cancel(id) ==
  /\ IF <<id>> \notin DOMAIN orders
     THEN /\ result' = Cancelled(FALSE)
          /\ UNCHANGED <<levels, orders>>
     ELSE /\ levels' = [levels EXCEPT ![orders[<<id>>].side] =
                          Lists!RemoveFromBook(orders, @, <<id>>).book]
          /\ orders' = Erase(<<id>>)
          /\ result' = Cancelled(TRUE)
  /\ UNCHANGED current_order_id

GetBest(side) == Lists!BestLevel(side, levels[side])

Next ==
  \/ \E side \in Sides, price \in Prices, qty \in Qty : Add(side, price, qty)
  \/ \E id \in OrderId : Cancel(id)

Spec == Init /\ [][Next]_vars

-----------------------------------------------------------------------------
(* Every call leaves well-typed state, with pointers only to orders that   *)
(* are in the hash table, and something left to trade in each of them.     *)
TypeOK ==
  LET Pointer == {Lists!Null} \cup DOMAIN orders
  IN /\ current_order_id \in OrderId
     /\ \A s \in Sides :
          /\ DOMAIN levels[s] \subseteq Prices
          /\ \A p \in DOMAIN levels[s] :
               levels[s][p] \in [total_qty : Qty, head : Pointer, tail : Pointer]
     /\ DOMAIN orders \subseteq {<<id>> : id \in OrderId}
     /\ \A p \in DOMAIN orders :
          orders[p] \in [order_id : {p[1]}, side : Sides, price : Prices, qty : Qty \ {0},
                         next : Pointer, prev : Pointer]

(* The links of push_back, pop_front and removeFromBook: every level is a  *)
(* doubly linked list from head to tail, and each order of the hash table  *)
(* is on exactly the list of its side and price.                           *)
ListsWellFormed ==
  /\ TypeOK
  /\ \A s \in Sides : \A p \in DOMAIN levels[s] : Lists!WellLinked(orders, levels[s][p])
  /\ \A s \in Sides, p \in Prices :
       {o \in DOMAIN orders : orders[o].side = s /\ orders[o].price = p} =
         IF p \in DOMAIN levels[s] THEN Range(Lists!Chain(orders, levels[s][p])) ELSE {}

(* orderbook_test.cpp:355-356, "best bid mismatch" and "best ask           *)
(* mismatch": getBestBid and getBestAsk report the best price of the       *)
(* orders that can be cancelled and the sum of what they have left.        *)
BestLevelsAgree ==
  \A s \in Sides :
    LET live == {o \in DOMAIN orders : orders[o].side = s}
        p == Best(s, {orders[o].price : o \in live})
    IN GetBest(s) =
         IF live = {} THEN NoLevel
         ELSE PriceLevel(p, Total([o \in DOMAIN orders |-> orders[o].qty],
                                  {o \in live : orders[o].price = p}))

(* The book is a reference book: the same trades, identifiers and verdicts *)
(* call by call, and the same orders resting in the same order.            *)
Queue(s, p) ==
  IF p \notin DOMAIN levels[s] THEN <<>>
  ELSE LET c == Lists!Chain(orders, levels[s][p])
       IN [i \in DOMAIN c |-> [id |-> orders[c[i]].order_id, qty |-> orders[c[i]].qty]]

Reference == INSTANCE ReferenceBook WITH
  next_id <- current_order_id,
  resting <- [s \in Sides |-> [p \in Prices |-> Queue(s, p)]]

ImplementsReferenceBook == Reference!Spec
=============================================================================

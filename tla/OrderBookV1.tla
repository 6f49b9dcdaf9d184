---------------------------- MODULE OrderBookV1 ----------------------------
(***************************************************************************)
(* The order book of misc/orderbook/v01: each price level lists the        *)
(* identifiers of its orders (std::list) beside a running total, and a     *)
(* hash table finds an order, its level and its list node by identifier.   *)
(*                                                                         *)
(* The book is called by one thread: a call is one step.  An order's level *)
(* is the level at its side and price (the nodes of a std::map stay put),  *)
(* and its list node is the place of its identifier in that level.         *)
(***************************************************************************)
EXTENDS OrderTypes

CONSTANT ReuseIds   \* add may be called although the next identifier still rests,
                    \* 2^32 calls after it was given out

VARIABLES
  current_order_id,
  levels,   \* bids and asks: for each side, the levels by price
  orders,   \* the hash table
  result    \* what the last call returned

vars == <<current_order_id, levels, orders, result>>

NoOrders == [i \in {} |-> Nothing]

Init ==
  /\ current_order_id = 0
  /\ levels = [s \in Sides |-> [p \in {} |-> Nothing]]
  /\ orders = NoOrders
  /\ result = Nothing

Without(f, x) == Restrict(f, DOMAIN f \ {x})

-----------------------------------------------------------------------------
(* Slips a maintainer could make *)

(* a partially filled maker goes to the end of its level *)
AfterFill_Requeues(level, traded, filled) ==
  [total_qty |-> Minus(level.total_qty, traded),
   order_ids |-> IF filled THEN Tail(level.order_ids)
                 ELSE Append(Tail(level.order_ids), Head(level.order_ids))]

(* a level whose total has wrapped to zero is taken for an empty one *)
CloseLevel_TotalOnly(book, price) ==
  IF book[price].total_qty = 0 THEN Without(book, price) ELSE book

(* the taker stops at the best level *)
MayMatch_Strict(taker, book, remaining) ==
  /\ remaining > 0
  /\ DOMAIN book # {}
  /\ taker.price # Best(Against(taker.side), DOMAIN book)

(* the bids are kept in the order of the asks *)
First_Ascending(side, book) == Min(DOMAIN book)

(* a filled maker stays in the hash table *)
Forget_Never(table, id) == table

-----------------------------------------------------------------------------
(* match *)

(* book.begin() *)
First(side, book) == Best(side, DOMAIN book)

AfterFill(level, traded, filled) ==
  [total_qty |-> Minus(level.total_qty, traded),
   order_ids |-> IF filled THEN Tail(level.order_ids) ELSE level.order_ids]

(* orders.erase *)
Forget(table, id) == Without(table, id)

(* erase the level from its book when it has become empty *)
CloseLevel(book, price) ==
  IF book[price].total_qty = 0 /\ book[price].order_ids = <<>>
  THEN Without(book, price) ELSE book

(* the inner loop: trade with the orders of one level, front first *)
RECURSIVE MatchLevel(_, _, _)
MatchLevel(taker, price, st) ==
  LET level == st.book[price]
      maker == Head(level.order_ids)
      traded == Min({st.remaining, st.orders[maker].qty})
      filled == st.orders[maker].qty = traded
  IN IF st.remaining = 0 \/ level.order_ids = <<>>
     THEN st
     ELSE MatchLevel(taker, price,
            [book      |-> [st.book EXCEPT ![price] = AfterFill(level, traded, filled)],
             orders    |-> IF filled THEN Forget(st.orders, maker)
                           ELSE [st.orders EXCEPT ![maker].qty = @ - traded],
             remaining |-> st.remaining - traded,
             trades    |-> Append(st.trades, Trade(taker, maker, price, traded))])

MayMatch(taker, book, remaining) ==
  /\ remaining > 0
  /\ DOMAIN book # {}
  /\ Crosses(taker.side, taker.price, First(Against(taker.side), book))

RECURSIVE Match(_, _)
Match(taker, st) ==
  IF ~ MayMatch(taker, st.book, st.remaining)
  THEN st
  ELSE LET price == First(Against(taker.side), st.book)
           done == MatchLevel(taker, price, st)
       IN Match(taker, [done EXCEPT !.book = CloseLevel(@, price)])

-----------------------------------------------------------------------------
(* The rest of the order joins the end of its level, which is created if   *)
(* need be; the hash table keeps an entry it already has.                  *)
Record(taker, book, qty) ==
  LET level == IF taker.price \in DOMAIN book THEN book[taker.price]
               ELSE [total_qty |-> 0, order_ids |-> <<>>]
  IN (taker.price :> [total_qty |-> Plus(level.total_qty, qty),
                      order_ids |-> Append(level.order_ids, taker.id)]) @@ book

TryEmplace(table, taker, qty) ==
  table @@ (taker.id :> [side |-> taker.side, price |-> taker.price, qty |-> qty])

Add(side, price, qty) ==
  LET taker == [id |-> current_order_id, side |-> side, price |-> price]
      done == Match(taker, [book |-> levels[Against(side)], orders |-> orders,
                            remaining |-> qty, trades |-> <<>>])
      rests == done.remaining > 0
  IN /\ ReuseIds \/ current_order_id \notin DOMAIN orders
     /\ current_order_id' = (current_order_id + 1) % IdMod
     /\ levels' = [levels EXCEPT
                     ![Against(side)] = done.book,
                     ![side] = IF rests THEN Record(taker, @, done.remaining) ELSE @]
     /\ orders' = IF rests THEN TryEmplace(done.orders, taker, done.remaining) ELSE done.orders
     /\ result' = OrderResult(current_order_id, done.trades)

(* the order leaves its level, and an emptied level leaves the book *)
RemoveFromBook(id) ==
  LET o == orders[id]
      level == levels[o.side][o.price]
      node == CHOOSE i \in DOMAIN level.order_ids : level.order_ids[i] = id
      left == [total_qty |-> Minus(level.total_qty, o.qty),
               order_ids |-> SubSeq(level.order_ids, 1, node - 1)
                             \o SubSeq(level.order_ids, node + 1, Len(level.order_ids))]
  IN [levels EXCEPT ![o.side] = CloseLevel([@ EXCEPT ![o.price] = left], o.price)]

Cancel(id) ==
  /\ IF id \notin DOMAIN orders
     THEN /\ result' = Cancelled(FALSE)
          /\ UNCHANGED <<levels, orders>>
     ELSE /\ levels' = RemoveFromBook(id)
          /\ orders' = Without(orders, id)
          /\ result' = Cancelled(TRUE)
  /\ UNCHANGED current_order_id

(* getBestBid and getBestAsk *)
GetBest(side) ==
  IF DOMAIN levels[side] = {} THEN NoLevel
  ELSE LET p == First(side, levels[side]) IN PriceLevel(p, levels[side][p].total_qty)

Next ==
  \/ \E side \in Sides, price \in Prices, qty \in Qty : Add(side, price, qty)
  \/ \E id \in OrderId : Cancel(id)

Spec == Init /\ [][Next]_vars

-----------------------------------------------------------------------------
(* Every call leaves well-typed state: a level has at least one order, and *)
(* the orders of the hash table have something left to trade.              *)
TypeOK ==
  /\ current_order_id \in OrderId
  /\ \A s \in Sides :
       /\ DOMAIN levels[s] \subseteq Prices
       /\ \A p \in DOMAIN levels[s] :
            /\ levels[s][p].total_qty \in Qty
            /\ levels[s][p].order_ids \in Seq(OrderId) \ {<<>>}
  /\ DOMAIN orders \subseteq OrderId
  /\ \A id \in DOMAIN orders :
       orders[id] \in [side : Sides, price : Prices, qty : Qty \ {0}]

(* orderbook_test.cpp:357, "book is crossed": after every call the best    *)
(* bid is below the best ask.                                              *)
NotCrossed ==
  \A bid \in DOMAIN levels[Buy], ask \in DOMAIN levels[Sell] : bid < ask

(* The assertion of record (line 105): the identifier of an order that     *)
(* comes to rest is not in the hash table, so that every list node has an  *)
(* entry of its own and cancel finds the order it was asked for.           *)
RecordInserts ==
  LET nodes == {<<s, p, i>> \in Sides \X Prices \X (1 .. IdMod + 1) :
                  p \in DOMAIN levels[s] /\ i \in DOMAIN levels[s][p].order_ids}
      idOf(n) == levels[n[1]][n[2]].order_ids[n[3]]
  IN /\ \A n, m \in nodes : idOf(n) = idOf(m) => n = m
     /\ {idOf(n) : n \in nodes} = DOMAIN orders

(* The level getBestBid and getBestAsk report, kept up to date by running  *)
(* additions and subtractions, is the best price of the orders that can be *)
(* cancelled with the sum of what they have left, modulo 2^w.              *)
BestLevelsAgree ==
  \A s \in Sides :
    LET live == {id \in DOMAIN orders : orders[id].side = s}
        p == Best(s, {orders[id].price : id \in live})
    IN GetBest(s) =
         IF live = {} THEN NoLevel
         ELSE PriceLevel(p, Total([id \in DOMAIN orders |-> orders[id].qty],
                                  {id \in live : orders[id].price = p}))

(* Price-time priority: when a call trades with a maker, every maker that  *)
(* was ahead of it, at a better price or earlier in its level, is filled   *)
(* by the same call.                                                       *)
Ahead(m, n) ==
  LET a == orders[m] b == orders[n]
      queue == levels[a.side][a.price].order_ids
      place(x) == CHOOSE i \in DOMAIN queue : queue[i] = x
  IN /\ a.side = b.side
     /\ \/ a.price # b.price /\ Best(a.side, {a.price, b.price}) = a.price
        \/ a.price = b.price /\ place(m) < place(n)

PriceTimePriority ==
  [][\A m, n \in DOMAIN orders :
       (/\ "trades" \in DOMAIN result'
        /\ \E i \in DOMAIN result'.trades : result'.trades[i].maker_order_id = n
        /\ Ahead(m, n))
       => m \notin DOMAIN orders']_vars

(* The book is a reference book: every call returns the trades, identifier *)
(* or verdict the reference returns, and leaves the same orders resting in *)
(* the same order.                                                         *)
Queue(s, p) ==
  IF p \notin DOMAIN levels[s] THEN <<>>
  ELSE LET ids == levels[s][p].order_ids
       IN [i \in DOMAIN ids |-> [id |-> ids[i], qty |-> orders[ids[i]].qty]]

Reference == INSTANCE ReferenceBook WITH
  next_id <- current_order_id,
  resting <- [s \in Sides |-> [p \in Prices |-> Queue(s, p)]]

ImplementsReferenceBook == Reference!Spec
=============================================================================

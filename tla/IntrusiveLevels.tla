-------------------------- MODULE IntrusiveLevels --------------------------
(***************************************************************************)
(* The price levels of misc/orderbook/v02 and v03: a level is the head and *)
(* tail of a doubly linked list threaded through the orders themselves.    *)
(* The operators take and return a memory m, which maps pointers to        *)
(* orders, and a book, which maps prices to levels.                        *)
(***************************************************************************)
EXTENDS OrderTypes

CONSTANT KeepFilled   \* a filled order stays in memory (v03) or is erased (v02)

Null == <<>>

(* the constructors of Level and of Order *)
NewLevel == [total_qty |-> 0, head |-> Null, tail |-> Null]
NewOrder(taker, qty) ==
  [order_id |-> taker.id, side |-> taker.side, price |-> taker.price, qty |-> qty,
   next |-> Null, prev |-> Null]

Without(f, x) == Restrict(f, DOMAIN f \ {x})

-----------------------------------------------------------------------------
(* Slips a maintainer could make *)

(* unlinking the last order of a level forgets the tail *)
Unlink_KeepsTail(m, level, p) ==
  LET next == m[p].next
      prev == m[p].prev
      m1 == IF next # Null THEN [m EXCEPT ![next].prev = prev] ELSE m
      m2 == IF prev # Null THEN [m1 EXCEPT ![prev].next = next] ELSE m1
  IN [m     |-> m2,
      level |-> [level EXCEPT !.head = IF p = @ THEN next ELSE @,
                              !.tail = IF p = @ /\ prev = Null THEN Null ELSE @]]

(* a level whose total has wrapped to zero is taken for an empty one *)
Empty_TotalOnly(level) == level.total_qty = 0

(* a new order is put in front of its level *)
PushBack_InFront(m, level, p) ==
  [m     |-> IF level.head = Null THEN m ELSE [m EXCEPT ![p].next = level.head, ![level.head].prev = p],
   level |-> [level EXCEPT !.head = p, !.tail = IF @ = Null THEN p ELSE @]]

-----------------------------------------------------------------------------
Empty(level) == level.total_qty = 0 /\ level.head = Null /\ level.tail = Null

PushBack(m, level, p) ==
  LET m1 == [m EXCEPT ![p].prev = level.tail]
  IN [m     |-> IF level.tail = Null THEN m1 ELSE [m1 EXCEPT ![level.tail].next = p],
      level |-> [level EXCEPT !.tail = p, !.head = IF @ = Null THEN p ELSE @]]

PopFront(m, level) ==
  LET next_head == m[level.head].next
      m1 == IF next_head = Null THEN m ELSE [m EXCEPT ![next_head].prev = Null]
  IN [m     |-> [m1 EXCEPT ![level.head].next = Null],
      level |-> [level EXCEPT !.head = next_head,
                              !.tail = IF next_head = Null THEN Null ELSE @]]

(* the neighbours of p, and the ends of the level, step over it *)
Unlink(m, level, p) ==
  LET next == m[p].next
      prev == m[p].prev
      m1 == IF next # Null THEN [m EXCEPT ![next].prev = prev] ELSE m
      m2 == IF prev # Null THEN [m1 EXCEPT ![prev].next = next] ELSE m1
  IN [m     |-> m2,
      level |-> [level EXCEPT !.head = IF p = @ THEN next ELSE @,
                              !.tail = IF p = @ THEN prev ELSE @]]

CloseLevel(book, price) == IF Empty(book[price]) THEN Without(book, price) ELSE book

RemoveFromBook(m, book, p) ==
  LET o == m[p]
      cut == Unlink(m, book[o.price], p)
      left == [cut.level EXCEPT !.total_qty = Minus(@, o.qty)]
  IN [m |-> cut.m, book |-> CloseLevel([book EXCEPT ![o.price] = left], o.price)]

-----------------------------------------------------------------------------
(* match *)

Reduce(m, level, p, traded) ==
  [m     |-> [m EXCEPT ![p].qty = Minus(@, traded)],
   level |-> [level EXCEPT !.total_qty = Minus(@, traded)]]

(* a filled order leaves the front of its level *)
Forget(m, p) == IF KeepFilled THEN m ELSE Without(m, p)

(* the inner loop: trade with the orders of one level, front first *)
RECURSIVE MatchLevel(_, _, _)
MatchLevel(taker, price, st) ==
  LET level == st.book[price]
      p == level.head
      traded == Min({st.remaining, st.m[p].qty})
      cut == Reduce(st.m, level, p, traded)
      out == PopFront(cut.m, cut.level)
      filled == cut.m[p].qty = 0
  IN IF st.remaining = 0 \/ Empty(level)
     THEN st
     ELSE MatchLevel(taker, price,
            [m         |-> IF filled THEN Forget(out.m, p) ELSE cut.m,
             book      |-> [st.book EXCEPT ![price] = IF filled THEN out.level ELSE cut.level],
             remaining |-> st.remaining - traded,
             trades    |-> Append(st.trades, Trade(taker, st.m[p].order_id, price, traded))])

MayMatch(taker, book, remaining) ==
  /\ remaining > 0
  /\ DOMAIN book # {}
  /\ Crosses(taker.side, taker.price, Best(Against(taker.side), DOMAIN book))

RECURSIVE Match(_, _)
Match(taker, st) ==
  IF ~ MayMatch(taker, st.book, st.remaining)
  THEN st
  ELSE LET price == Best(Against(taker.side), DOMAIN st.book)
           done == MatchLevel(taker, price, st)
       IN Match(taker, [done EXCEPT !.book = CloseLevel(@, price)])

-----------------------------------------------------------------------------
(* record: order p, already in memory, joins the end of its level *)
Record(m, book, p, price, qty) ==
  LET level == IF price \in DOMAIN book THEN book[price] ELSE NewLevel
      joined == PushBack(m, level, p)
      total == Plus(level.total_qty, qty)
  IN [m    |-> joined.m,
      book |-> (price :> [joined.level EXCEPT !.total_qty = total]) @@ book]

(* getBestBid and getBestAsk *)
BestLevel(side, book) ==
  IF DOMAIN book = {} THEN NoLevel
  ELSE LET p == Best(side, DOMAIN book) IN PriceLevel(p, book[p].total_qty)

-----------------------------------------------------------------------------
(* The orders of a level, from its head along next; cut off after as many  *)
(* steps as there are orders, should the links form a cycle.               *)
RECURSIVE ChainFrom(_, _, _)
ChainFrom(m, p, steps) ==
  IF p = Null \/ steps = 0 THEN <<>>
  ELSE <<p>> \o ChainFrom(m, m[p].next, steps - 1)

Chain(m, level) == ChainFrom(m, level.head, Cardinality(DOMAIN m) + 1)

(* head, next, prev and tail agree: a doubly linked list that ends *)
WellLinked(m, level) ==
  LET c == Chain(m, level)
  IN /\ c # <<>>
     /\ level.tail = c[Len(c)] /\ m[level.tail].next = Null
     /\ m[level.head].prev = Null
     /\ \A i \in 1 .. Len(c) - 1 : m[c[i + 1]].prev = c[i]
=============================================================================

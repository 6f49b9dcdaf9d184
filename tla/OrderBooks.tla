----------------------------- MODULE OrderBooks -----------------------------
(***************************************************************************)
(* The three books under the fuzz test of orderbook_test.cpp, which sends  *)
(* the same calls to a book and to its reference.  The test includes the   *)
(* header of the directory it is compiled in: version is that choice.      *)
(*                                                                         *)
(* v01 and v02 take every call together.  They give identifiers out again, *)
(* so runs of any length are explored; v03 keeps every order it ever had,  *)
(* so the calls it gets are bounded, by the number of identifiers.         *)
(***************************************************************************)
EXTENDS OrderTypes

CONSTANTS ReuseIds, Reserve, MaxAdds

ASSUME OrderBooksAssumption ==
  /\ ReuseIds \in BOOLEAN
  /\ Reserve \in Nat \ {0}
  /\ MaxAdds \in 0 .. IdMod

VARIABLES
  version,   \* "v01 and v02" or "v03"
  id1, levels1, orders1, result1,
  id2, levels2, orders2, result2,
  id3, levels3, memory3, buffer3, capacity3, result3

vars12 == <<id1, levels1, orders1, result1, id2, levels2, orders2, result2>>
vars3 == <<id3, levels3, memory3, buffer3, capacity3, result3>>
vars == <<version, vars12, vars3>>

V1 == INSTANCE OrderBookV1 WITH
  current_order_id <- id1, levels <- levels1, orders <- orders1, result <- result1
V2 == INSTANCE OrderBookV2 WITH
  current_order_id <- id2, levels <- levels2, orders <- orders2, result <- result2
V3 == INSTANCE OrderBookV3 WITH
  current_order_id <- id3, levels <- levels3, memory <- memory3,
  buffer <- buffer3, capacity <- capacity3, result <- result3

Init ==
  /\ version \in {"v01 and v02", "v03"}
  /\ V1!Init /\ V2!Init /\ V3!Init

Add(side, price, qty) == V1!Add(side, price, qty) /\ V2!Add(side, price, qty)
Cancel(id) == V1!Cancel(id) /\ V2!Cancel(id)

Next ==
  /\ UNCHANGED version
  /\ \/ /\ version = "v01 and v02" /\ UNCHANGED vars3
        /\ \/ \E side \in Sides, price \in Prices, qty \in Qty : Add(side, price, qty)
           \/ \E id \in OrderId : Cancel(id)
     \/ version = "v03" /\ UNCHANGED vars12 /\ V3!Next

Spec == Init /\ [][Next]_vars

-----------------------------------------------------------------------------
(* what is said of every book, at the one compiled in *)
OfEach(v1, v2, v3) == IF version = "v03" THEN v3 ELSE v1 /\ v2

(* The book is never crossed (v01; v02 and v03 through their best levels). *)
Apart(bid, ask) == NoLevel \in {bid, ask} \/ bid[1].price < ask[1].price
NotCrossed ==
  OfEach(V1!NotCrossed, Apart(V2!GetBest(Buy), V2!GetBest(Sell)),
         Apart(V3!GetBest(Buy), V3!GetBest(Sell)))

(* The assertion of record: an order that comes to rest is not in the hash *)
(* table yet, so every list node of v01 has an entry of its own.           *)
RecordInserts == V1!RecordInserts

(* Every book is in a well-typed state, without empty levels or finished   *)
(* orders in them; in v02 and v03 every level is a doubly linked list from *)
(* head to tail, each live order is on the list of its side and price, no  *)
(* pointer names an order that v02 has erased, and no level of v03 leads   *)
(* to an order that is dead.                                               *)
ListsWellFormed == OfEach(V1!TypeOK, V2!ListsWellFormed, V3!ListsWellFormed)

(* getBestBid and getBestAsk, computed from running totals that may wrap,  *)
(* agree with the orders that can be cancelled, in every book.             *)
BestLevelsAgree == OfEach(V1!BestLevelsAgree, V2!BestLevelsAgree, V3!BestLevelsAgree)

(* Price-time priority: a call that trades with an order fills every order *)
(* that was ahead of it (match in v01).                                    *)
PriceTimePriority == V1!PriceTimePriority

(* The books answer every call as the  ReferenceBook of orderbook_test.cpp *)
(* answers it, and keep the same orders resting in the same order.         *)
ImplementsReferenceBook ==
  V1!ImplementsReferenceBook /\ V2!ImplementsReferenceBook /\ V3!ImplementsReferenceBook
=============================================================================

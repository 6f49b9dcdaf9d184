----------------------------- MODULE OrderTypes -----------------------------
(***************************************************************************)
(* The types the order books of misc/orderbook share: sides, prices, the   *)
(* unsigned quantities and identifiers, and the order in which a std::map  *)
(* with std::less (asks) or std::greater (bids) keeps its prices.          *)
(***************************************************************************)
EXTENDS Integers, Sequences, FiniteSets, FiniteSetsExt, Functions, TLC

CONSTANTS
  Prices,   \* the prices a client uses
  QtyMod,   \* 2^w for a Qty of w bits: 2^32 in the code
  IdMod     \* 2^w for an OrderId of w bits: 2^32 in the code

ASSUME OrderTypesAssumption ==
  /\ Prices \subseteq Nat /\ IsFiniteSet(Prices)
  /\ QtyMod \in Nat \ {0}
  /\ IdMod \in Nat \ {0}

Buy == "Buy"
Sell == "Sell"
Sides == {Buy, Sell}

Qty == 0 .. QtyMod - 1
OrderId == 0 .. IdMod - 1

Plus(x, y) == (x + y) % QtyMod
Minus(x, y) == (x - y + QtyMod) % QtyMod

Against(side) == IF side = Buy THEN Sell ELSE Buy

(* the first key of a book: the highest bid or the lowest ask *)
Best(side, prices) == IF side = Buy THEN Max(prices) ELSE Min(prices)

(* !book.key_comp()(limit, price): a taker of this side accepts this price *)
Crosses(side, limit, price) == IF side = Buy THEN price <= limit ELSE price >= limit

(* the sum of f over a set, as an unsigned quantity *)
Total(f, S) == SumFunctionOnSet(f, S) % QtyMod

(* what add and cancel return *)
Trade(taker, maker, price, qty) ==
  [taker_order_id |-> taker.id, maker_order_id |-> maker, taker_side |-> taker.side,
   price |-> price, qty |-> qty]
OrderResult(id, trades) == [order_id |-> id, trades |-> trades]
Nothing == [called |-> FALSE]
Cancelled(b) == [cancelled |-> b]

(* std::optional<PriceLevel> *)
NoLevel == <<>>
PriceLevel(price, qty) == <<[price |-> price, qty |-> qty]>>
=============================================================================

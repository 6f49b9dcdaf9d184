---------------------------- MODULE ReferenceBook ----------------------------
(***************************************************************************)
(* What an order book promises: the ReferenceBook of orderbook_test.cpp.   *)
(* Resting orders wait in arrival order; a taker trades, one maker at a    *)
(* time, with the best-priced and then earliest of them; what is left of   *)
(* it rests at its own limit.                                              *)
(*                                                                         *)
(* The test keeps one vector in arrival order and filters it by side and   *)
(* price; here the vector is kept already filtered, one queue for each     *)
(* side and price.                                                         *)
(***************************************************************************)
EXTENDS OrderTypes

VARIABLES
  next_id,   \* next_id_
  resting,   \* resting_: for each side and price the orders, in arrival order
  result     \* what the last call returned

Init ==
  /\ next_id = 0
  /\ resting = [s \in Sides |-> [p \in Prices |-> <<>>]]
  /\ result = Nothing

(* the prices at which some maker would trade with this taker *)
MakerPrices(taker, book) ==
  {p \in Prices : book[p] # <<>> /\ Crosses(taker.side, taker.price, p)}

(* The state of the loop in add: the makers' side, what the taker still    *)
(* wants, and the trades so far.                                           *)
RECURSIVE Fill(_, _)
Fill(taker, st) ==
  LET prices == MakerPrices(taker, st.book)
      p == Best(Against(taker.side), prices)      \* best_maker; ties keep the earlier order
      m == Head(st.book[p])
      q == Min({st.remaining, m.qty})
      kept == IF q = m.qty THEN <<>> ELSE <<[m EXCEPT !.qty = @ - q]>>
  IN IF st.remaining = 0 \/ prices = {}
     THEN st
     ELSE Fill(taker, [book      |-> [st.book EXCEPT ![p] = kept \o Tail(@)],
                       remaining |-> st.remaining - q,
                       trades    |-> Append(st.trades, Trade(taker, m.id, p, q))])

Add(side, price, qty) ==
  LET taker == [id |-> next_id, side |-> side, price |-> price]
      done == Fill(taker, [book |-> resting[Against(side)], remaining |-> qty, trades |-> <<>>])
      rest == IF done.remaining > 0 THEN <<[id |-> next_id, qty |-> done.remaining]>> ELSE <<>>
  IN /\ next_id' = (next_id + 1) % IdMod
     /\ resting' = [resting EXCEPT ![Against(side)] = done.book, ![side][price] = @ \o rest]
     /\ result' = OrderResult(next_id, done.trades)

Resting(id) == {sp \in Sides \X Prices :
                  \E i \in DOMAIN resting[sp[1]][sp[2]] : resting[sp[1]][sp[2]][i].id = id}

Cancel(id) ==
  /\ UNCHANGED next_id
  /\ IF Resting(id) = {}
     THEN /\ result' = Cancelled(FALSE)
          /\ UNCHANGED resting
     ELSE /\ result' = Cancelled(TRUE)
          /\ \E sp \in Resting(id) :
               resting' = [resting EXCEPT ![sp[1]][sp[2]] = SelectSeq(@, LAMBDA o : o.id # id)]

Next ==
  \/ \E side \in Sides, price \in Prices, qty \in Qty : Add(side, price, qty)
  \/ \E id \in OrderId : Cancel(id)

Spec == Init /\ [][Next]_<<next_id, resting, result>>
=============================================================================

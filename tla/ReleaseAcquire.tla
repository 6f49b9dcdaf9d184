--------------------------- MODULE ReleaseAcquire ---------------------------
(***************************************************************************)
(* A std::atomic with one writing thread and one reading thread, as far as *)
(* the two ring buffers use it.  The C++ memory model lets a load return   *)
(* any store that is not older than one the thread has already read, and   *)
(* only an acquire load that reads a release store tells the reader that   *)
(* what the writer did before the store happened before what it does next. *)
(*                                                                         *)
(* A cell is a record                                                      *)
(*   stores  the values stored so far, in modification order; each with    *)
(*           acc, the number of the writer's buffer accesses it publishes  *)
(*   seen    the position of the newest store the reader has read          *)
(*   known   the number of the writer's buffer accesses that happen before *)
(*           the reader's next step                                        *)
(***************************************************************************)
LOCAL INSTANCE Naturals
LOCAL INSTANCE Sequences

Cell(v) == [stores |-> <<[val |-> v, acc |-> 0]>>, seen |-> 1, known |-> 0]

(* The writer always reads its own last store, whatever the memory order.  *)
OwnValue(cell) == cell.stores[Len(cell.stores)].val

(* The stores a load of the reader may return.                             *)
Readable(cell) == cell.seen .. Len(cell.stores)

ValueAt(cell, i) == cell.stores[i].val

RelaxedLoad(cell, i) == [cell EXCEPT !.seen = i]

AcquireLoad(cell, i) ==
  [cell EXCEPT !.seen = i,
               !.known = IF cell.stores[i].acc > @ THEN cell.stores[i].acc ELSE @]

RelaxedStore(cell, v) ==
  [cell EXCEPT !.stores = Append(@, [val |-> v, acc |-> 0])]

(* acc is the number of buffer accesses the writer has made so far.        *)
ReleaseStore(cell, v, acc) ==
  [cell EXCEPT !.stores = Append(@, [val |-> v, acc |-> acc])]
=============================================================================

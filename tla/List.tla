-------------------------------- MODULE List --------------------------------
(***************************************************************************)
(* my_std::list (stl/list/list.hpp): doubly linked nodes in a circle       *)
(* through a sentinel, which is made when the first element comes and goes *)
(* with clear.  A list is used by one thread; any operator new and any     *)
(* copy of an element may throw, and operator new does when all of the     *)
(* MaxNodes addresses are taken.                                           *)
(*                                                                         *)
(* mem.heap maps the address of each node to the node, mem.sound is false  *)
(* once something was deleted that was not there to delete.                *)
(***************************************************************************)
EXTENDS Integers, Sequences, Functions, Heap

CONSTANTS
  Vec,          \* the variables of type list<T>
  Item,         \* the values of elements
  Raw,          \* what a sentinel has in place of a value
  Null,         \* nullptr
  Absent,       \* a variable out of scope
  MaxNodes      \* bound: the nodes there is memory for

VARIABLES
  list,         \* sentinel_ and size_ of each variable, or Absent
  mem,
  call, threw   \* the last call and its arguments, and whether it threw

vars == <<list, mem, call, threw>>

Empty == [sentinel |-> Null, size |-> 0]

Init ==
  /\ list = [v \in Vec |-> Absent]
  /\ mem = [heap |-> [a \in {} |-> Null], sound |-> TRUE]
  /\ call = <<>> /\ threw = FALSE

InScope(v) == list[v] # Absent

-----------------------------------------------------------------------------
(* Slips a maintainer could make *)

(* the node before the new one is not told of it *)
link_before_OneWay(h, pos, node) ==
  [h EXCEPT ![node].prev = h[pos].prev, ![node].next = pos, ![pos].prev = node]

(* a copy is not closed to a circle *)
TailOf_Open(w, nodes, n) == Null

-----------------------------------------------------------------------------
Node(next, prev, val) == [next |-> next, prev |-> prev, val |-> val]

(* what the call of operator new after n others returns, and whether there *)
(* is room for that many                                                   *)
Fresh(m, n) ==
  LET free(b) == (1 .. b) \ DOMAIN m.heap
  IN CHOOSE a \in free(2 * MaxNodes + 1) : Cardinality(free(a)) = n + 1
HasRoom(m, n) == Cardinality(DOMAIN m.heap) + n <= MaxNodes

(* ensure_sentinel: the memory once v has a sentinel, and its address *)
Sentinel(v) == IF list[v].sentinel # Null THEN list[v].sentinel ELSE Fresh(mem, 0)
ensure_sentinel(v) ==
  IF list[v].sentinel # Null THEN mem
  ELSE [mem EXCEPT !.heap = With(@, Sentinel(v), Node(Sentinel(v), Sentinel(v), Raw))]

link_before(h, pos, node) ==
  [h EXCEPT ![node].prev = h[pos].prev, ![node].next = pos,
            ![h[pos].prev].next = node, ![pos].prev = node]

unlink(h, node) ==
  LET closed == [h EXCEPT ![h[node].prev].next = h[node].next]
  IN [closed EXCEPT ![h[node].next].prev = h[node].prev]

(* the nodes met on the way from one node to n others; nothing follows a   *)
(* pointer that names no node                                              *)
Walk(h, from, n) ==
  LET walk[i \in 0 .. n] ==
        IF i = 0 THEN from
        ELSE IF walk[i - 1] \in DOMAIN h THEN h[walk[i - 1]].next ELSE Null
  IN walk

delete(m, nodes) ==
  [heap |-> Without(m.heap, nodes), sound |-> m.sound /\ nodes \subseteq DOMAIN m.heap]

destroy(m, sentinel, n) ==
  IF sentinel = Null THEN m
  ELSE LET walk == Walk(m.heap, sentinel, n)
           gone == delete(m, {walk[i] : i \in 0 .. n})
       IN [gone EXCEPT !.sound = @ /\ Cardinality({walk[i] : i \in 0 .. n}) = n + 1]

(* the prev of a copy's sentinel, once all n nodes are there *)
TailOf(w, nodes, n) == IF n = list[w].size THEN nodes[n] ELSE Null

(* copy: a new sentinel and the first n elements of w behind it *)
copy(w, n) ==
  LET old == Walk(mem.heap, list[w].sentinel, n)
      nodes == [i \in 0 .. n |-> Fresh(mem, i)]
      after(i) == IF i < n THEN nodes[i + 1] ELSE IF n = list[w].size THEN nodes[0] ELSE Null
      made(i) == IF i = 0 THEN Node(after(0), TailOf(w, nodes, n), Raw)
                 ELSE Node(after(i), nodes[i - 1], mem.heap[old[i]].val)
  IN [mem EXCEPT !.heap = [a \in DOMAIN @ \cup Range(nodes) |->
       IF a \in Range(nodes) THEN made(CHOOSE i \in 0 .. n : nodes[i] = a) ELSE @[a]]]

-----------------------------------------------------------------------------
End(c, m, v, r, t) ==
  /\ call' = c /\ threw' = t
  /\ mem' = m /\ list' = [list EXCEPT ![v] = r]
Return(c, m, v, r) == End(c, m, v, r, FALSE)
Throw(c, m, v, r) == End(c, m, v, r, TRUE)

DefaultCtor(v) == ~InScope(v) /\ Return(<<"construct", v, <<>>>>, mem, v, Empty)

(* v becomes a copy of w, after which the nodes it had, if any, go; or an  *)
(* allocation throws, v stays as it was and what had been copied goes.     *)
Copy(v, w, nodes) ==
  LET c == <<"copy", v, w>>
      size == list[w].size
      release(m) == destroy(m, nodes.sentinel, nodes.size)
      old == list[v]
  IN IF list[w].sentinel = Null THEN Return(c, release(mem), v, Empty)
     ELSE \/ Throw(c, mem, v, old)
          \/ \E n \in 0 .. size - 1 :
               HasRoom(mem, n + 1) /\ Throw(c, destroy(copy(w, n), Fresh(mem, 0), n), v, old)
          \/ /\ HasRoom(mem, size + 1)
             /\ Return(c, release(copy(w, size)), v, [sentinel |-> Fresh(mem, 0), size |-> size])

CopyCtor(v, w) == ~InScope(v) /\ InScope(w) /\ Copy(v, w, Empty)
CopyAssign(v, w) == v # w /\ InScope(v) /\ InScope(w) /\ Copy(v, w, list[v])

Take(v, w, m) ==
  /\ call' = <<"move", v, w>> /\ threw' = FALSE
  /\ list' = [list EXCEPT ![v] = list[w], ![w] = Empty] /\ mem' = m

MoveCtor(v, w) == ~InScope(v) /\ InScope(w) /\ Take(v, w, mem)
MoveAssign(v, w) ==
  v # w /\ InScope(v) /\ InScope(w) /\ Take(v, w, destroy(mem, list[v].sentinel, list[v].size))

Destructor(v) ==
  InScope(v) /\ Return(<<"destroy", v>>, destroy(mem, list[v].sentinel, list[v].size), v, Absent)
clear(v) ==
  InScope(v) /\ Return(<<"clear", v>>, destroy(mem, list[v].sentinel, list[v].size), v, Empty)

(* the elements of v in order, and the place among them of a node, which   *)
(* for the sentinel is the place behind the last.                          *)
Nodes(h, l) ==
  IF l.sentinel = Null THEN <<>> ELSE [i \in 1 .. l.size |-> Walk(h, l.sentinel, i)[i]]
Place(h, l, node) ==
  IF node = l.sentinel THEN l.size + 1 ELSE CHOOSE i \in 1 .. l.size : Nodes(h, l)[i] = node

(* A new element before pos, after a sentinel has been made if there was   *)
(* none; that one stays when there is no room for the element.             *)
LinkNew(c, v, x, pos) ==
  LET m == ensure_sentinel(v)
      self == [list[v] EXCEPT !.sentinel = Sentinel(v)]
      node == Fresh(m, 0)
      h == link_before(With(m.heap, node, Node(Null, Null, x)), pos, node)
      grown == [self EXCEPT !.size = @ + 1]
  IN \/ Throw(c, mem, v, list[v])
     \/ self # list[v] /\ HasRoom(mem, 1) /\ Throw(c, m, v, self)
     \/ HasRoom(mem, IF self = list[v] THEN 1 ELSE 2) /\ Return(c, [m EXCEPT !.heap = h], v, grown)

push_back(v, x) ==
  InScope(v) /\ LinkNew(<<"push_back", v, x>>, v, x, Sentinel(v))
push_front(v, x) ==
  InScope(v) /\ LinkNew(<<"push_front", v, x>>, v, x, ensure_sentinel(v).heap[Sentinel(v)].next)

(* insert: a position without a node is one before the end *)
to_node(v, pos) == IF pos # Null THEN pos ELSE Sentinel(v)
insert(v, pos, x) ==
  LET i == Place(ensure_sentinel(v).heap, [list[v] EXCEPT !.sentinel = Sentinel(v)], to_node(v, pos))
  IN InScope(v) /\ LinkNew(<<"insert", v, i, x, i>>, v, x, to_node(v, pos))

Unlinked(v, node) == delete([mem EXCEPT !.heap = unlink(@, node)], {node})
Shorter(v) == [list[v] EXCEPT !.size = @ - 1]

erase(v, node) ==
  LET i == Place(mem.heap, list[v], node)
      m == Unlinked(v, node)
  IN /\ InScope(v)
     /\ Return(<<"erase", v, i, Place(m.heap, Shorter(v), mem.heap[node].next)>>, m, v, Shorter(v))

pop_back(v) ==
  /\ InScope(v) /\ list[v].size > 0
  /\ Return(<<"pop_back", v>>, Unlinked(v, mem.heap[list[v].sentinel].prev), v, Shorter(v))
pop_front(v) ==
  /\ InScope(v) /\ list[v].size > 0
  /\ Return(<<"pop_front", v>>, Unlinked(v, mem.heap[list[v].sentinel].next), v, Shorter(v))

(* the positions a client may pass: what begin, end and ++ return, and an  *)
(* end() from before there was a sentinel                                  *)
Elements(v) == IF InScope(v) THEN Range(Nodes(mem.heap, list[v])) ELSE {}
Positions(v) == Elements(v) \cup {Null} \cup (IF InScope(v) THEN {list[v].sentinel} ELSE {})

Next ==
  \E v \in Vec :
    \/ DefaultCtor(v) \/ Destructor(v) \/ clear(v) \/ pop_back(v) \/ pop_front(v)
    \/ \E w \in Vec : CopyCtor(v, w) \/ CopyAssign(v, w) \/ MoveCtor(v, w) \/ MoveAssign(v, w)
    \/ \E x \in Item : push_back(v, x) \/ push_front(v, x) \/ \E pos \in Positions(v) : insert(v, pos, x)
    \/ \E node \in Elements(v) : erase(v, node)

Spec == Init /\ [][Next]_vars

-----------------------------------------------------------------------------
(* Every list is a circle: size_ nodes lead from the sentinel back to it,  *)
(* prev undoes next, and all nodes there are belong to one circle each, so *)
(* none is lost and none is deleted while a list leads to it.              *)
Circle(v) ==
  IF ~InScope(v) \/ list[v].sentinel = Null THEN {}
  ELSE LET walk == Walk(mem.heap, list[v].sentinel, list[v].size)
       IN {walk[i] : i \in 0 .. list[v].size}
LinksWellFormed ==
  /\ mem.sound
  /\ UNION {Circle(v) : v \in Vec} = DOMAIN mem.heap
  /\ \A v, w \in Vec : v # w => Circle(v) \cap Circle(w) = {}
  /\ \A v \in {u \in Vec : InScope(u)} :
       IF list[v].sentinel = Null THEN list[v].size = 0
       ELSE /\ Cardinality(Circle(v)) = list[v].size + 1
            /\ Walk(mem.heap, list[v].sentinel, list[v].size + 1)[list[v].size + 1] = list[v].sentinel
  /\ \A a \in DOMAIN mem.heap : mem.heap[mem.heap[a].next].prev = a

(* the elements of v: what module ElementSequences calls its contents *)
Contents(v) ==
  IF ~InScope(v) THEN Absent
  ELSE [i \in 1 .. list[v].size |-> mem.heap[Nodes(mem.heap, list[v])[i]].val]
=============================================================================

-------------------------- MODULE ElementSequences --------------------------
(***************************************************************************)
(* What a container promises, whatever memory it uses: a variable in scope *)
(* holds a sequence of elements, and a call either does to it what the     *)
(* call says, or throws and changes no sequence.  Only fragile elements,   *)
(* which can neither be copied nor moved without throwing, may be left     *)
(* moved from.                                                             *)
(***************************************************************************)
EXTENDS Naturals, Sequences

CONSTANTS
  Vec,             \* the variables
  Item, Default,   \* the values of elements, and that of T{}
  Text,            \* the sequences a client passes whole
  Moved, Absent,   \* a value moved from; a variable out of scope
  MaxLen           \* bound: the longest sequence asked for

VARIABLES
  contents,   \* for each variable its elements, or Absent
  fragile,
  call,       \* the last call and its arguments
  threw       \* whether it threw

vars == <<contents, fragile, call, threw>>

Init ==
  /\ contents = [v \in Vec |-> Absent]
  /\ fragile \in BOOLEAN
  /\ call = <<>> /\ threw = FALSE

InScope(v) == contents[v] # Absent
Size(v) == Len(contents[v])

(* the elements before and from the ith on *)
Before(v, i) == SubSeq(contents[v], 1, i - 1)
From(v, i) == SubSeq(contents[v], i, Size(v))

(* the call c is on v, which is in scope; it leaves v with the sequence s  *)
On(c, v) == call' = c /\ InScope(v)
Becomes(v, s) == contents' = [contents EXCEPT ![v] = s]

construct(v, s) == call' = <<"construct", v, s>> /\ ~InScope(v) /\ Becomes(v, s)
destroy(v) == On(<<"destroy", v>>, v) /\ Becomes(v, Absent)
copy(v, w) == On(<<"copy", v, w>>, w) /\ Becomes(v, contents[w])
move(v, w) ==
  /\ On(<<"move", v, w>>, w) /\ v # w
  /\ contents' = [contents EXCEPT ![v] = contents[w], ![w] = <<>>]

reserve(v) == On(<<"reserve", v>>, v) /\ UNCHANGED contents
clear(v) == On(<<"clear", v>>, v) /\ Becomes(v, <<>>)
resize(v, n) ==
  /\ On(<<"resize", v, n>>, v)
  /\ Becomes(v, [i \in 1 .. n |-> IF i <= Size(v) THEN contents[v][i] ELSE Default])
append(v, s) == On(<<"append", v, s>>, v) /\ Becomes(v, contents[v] \o s)
appendTo(v, w) == On(<<"append", v, w>>, v) /\ InScope(w) /\ Becomes(v, contents[v] \o contents[w])
push_back(v, x) == On(<<"push_back", v, x>>, v) /\ Becomes(v, Append(contents[v], x))
push_front(v, x) == On(<<"push_front", v, x>>, v) /\ Becomes(v, <<x>> \o contents[v])
pop_back(v) == On(<<"pop_back", v>>, v) /\ contents[v] # <<>> /\ Becomes(v, Before(v, Size(v)))
pop_front(v) == On(<<"pop_front", v>>, v) /\ contents[v] # <<>> /\ Becomes(v, Tail(contents[v]))

(* insert returns the place of the new element, erase that of the next one *)
insert(v, i, x) ==
  /\ On(<<"insert", v, i, x, i>>, v) /\ i <= Size(v) + 1
  /\ Becomes(v, Before(v, i) \o <<x>> \o From(v, i))
erase(v, i) ==
  On(<<"erase", v, i, i>>, v) /\ i <= Size(v) /\ Becomes(v, Before(v, i) \o From(v, i + 1))

Returns ==
  /\ threw' = FALSE
  /\ \E v \in Vec :
       \/ destroy(v) \/ reserve(v) \/ clear(v) \/ pop_back(v) \/ pop_front(v)
       \/ \E s \in Text : construct(v, s) \/ append(v, s)
       \/ \E w \in Vec : copy(v, w) \/ move(v, w) \/ appendTo(v, w)
       \/ \E n \in 0 .. MaxLen : resize(v, n)
       \/ \E x \in Item : push_back(v, x) \/ push_front(v, x)
       \/ \E i \in 1 .. MaxLen : erase(v, i) \/ \E x \in Item : insert(v, i, x)

Throws ==
  /\ threw'
  /\ \/ UNCHANGED contents
     \/ /\ fragile
        /\ \E v \in {u \in Vec : InScope(u)} : \E k \in 1 .. Size(v) :
             contents' = [contents EXCEPT ![v] =
               [i \in 1 .. Size(v) |-> IF i <= k THEN Moved ELSE contents[v][i]]]

Next == (Returns \/ Throws) /\ UNCHANGED fragile

Spec == Init /\ [][Next]_vars
=============================================================================

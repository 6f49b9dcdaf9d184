----------------------------- MODULE BasicString -----------------------------
(***************************************************************************)
(* my_std::basic_string (stl/string/basic_string.hpp).  A short text lies  *)
(* in the object itself, in buffer_; a longer one, or one with room        *)
(* reserved, on the heap, and then capacity_ takes the place of buffer_:   *)
(* they are the members of one union.  A string is used by one thread;     *)
(* any operator new may throw.                                             *)
(*                                                                         *)
(* A text stands for its characters and the '\0' behind them; what lies    *)
(* behind that is left out.                                                *)
(***************************************************************************)
EXTENDS Sequences, Heap

CONSTANTS
  Vec,          \* the variables of type basic_string
  Item, Text,   \* the characters, and the texts of the client's literals
  Null,         \* ptr_ = buffer_
  Lost,         \* a member of the union after another one was written
  Absent,       \* a variable out of scope
  InlineSize,   \* INLINE_BUFFER_SIZE
  MaxLen        \* bound: the longest text asked for

VARIABLES
  str,          \* size_, ptr_, capacity_ and buffer_ of each variable, or Absent
  mem,          \* the room and the text of each block on the heap
  call, threw   \* the last call and its arguments, and whether it threw

vars == <<str, mem, call, threw>>

Init ==
  /\ str = [v \in Vec |-> Absent]
  /\ mem = [heap |-> [a \in {} |-> Null], sound |-> TRUE]
  /\ call = <<>> /\ threw = FALSE

InScope(v) == str[v] # Absent
is_local(v) == str[v].ptr = Null
capacity(v) == IF is_local(v) THEN InlineSize - 1 ELSE str[v].capacity
TextOf(v) == IF is_local(v) THEN str[v].buffer ELSE mem.heap[str[v].ptr].text

Local(s) == [size |-> Len(s), ptr |-> Null, capacity |-> Lost, buffer |-> s]
OnHeap(a, n, cap) == [size |-> n, ptr |-> a, capacity |-> cap, buffer |-> Lost]
Fits(s) == Len(s) < InlineSize

-----------------------------------------------------------------------------
(* Slips a maintainer could make *)

(* is_local() is asked after ptr_ was changed *)
release_AfterChange(m, v, r) ==
  IF r.ptr = Null THEN m
  ELSE [heap |-> Without(m.heap, {str[v].ptr}),
        sound |-> m.sound /\ str[v].ptr \in DOMAIN m.heap]

(* the room of the '\0' is counted as room for a character *)
Full_Late(v) == str[v].size > capacity(v)

-----------------------------------------------------------------------------
New(m) == NewAddress(m.heap)

(* a new block with room for n characters and the '\0', and s in it *)
allocate(m, n, s) ==
  [heap  |-> With(m.heap, New(m), [room |-> n + 1, text |-> s]), sound |-> m.sound /\ Len(s) <= n]

(* the block v had on the heap goes when v becomes r *)
release(m, v, r) ==
  IF is_local(v) THEN m
  ELSE [heap |-> Without(m.heap, {str[v].ptr}),
        sound |-> m.sound /\ str[v].ptr \in DOMAIN m.heap]

End(c, m, v, r, t) ==
  /\ call' = c /\ threw' = t
  /\ mem' = m /\ str' = [str EXCEPT ![v] = r]
Return(c, m, v, r) == End(c, m, v, r, FALSE)
Throw(c, v) == End(c, mem, v, str[v], TRUE)

(* v becomes r, and what it had goes *)
Replace(c, m, v, r) == Return(c, release(m, v, r), v, r)

(* a new string with the text s: in the object if it fits, else with room  *)
(* for cap characters                                                      *)
Fresh(c, v, s, cap) ==
  IF Fits(s) THEN Return(c, mem, v, Local(s))
  ELSE Throw(c, v) \/ Return(c, allocate(mem, cap, s), v, OnHeap(New(mem), Len(s), cap))

Ctor(v, s) == ~InScope(v) /\ Fresh(<<"construct", v, s>>, v, s, Len(s))

(* a short text on the heap becomes a local one when it is copied; a copy  *)
(* of a long one has the other's capacity.                                 *)
CopyCtor(v, w) ==
  /\ ~InScope(v) /\ InScope(w)
  /\ Fresh(<<"copy", v, w>>, v, TextOf(w), str[w].capacity)

CopyAssign(v, w) ==
  LET c == <<"copy", v, w>>
      s == TextOf(w)
  IN /\ v # w /\ InScope(v) /\ InScope(w)
     /\ IF Fits(s) THEN Replace(c, mem, v, Local(s))
        ELSE \/ Throw(c, v)
             \/ Replace(c, allocate(mem, Len(s), s), v, OnHeap(New(mem), Len(s), Len(s)))

(* the text of w is copied out of its buffer_, or its block is taken over *)
Take(v, w, m) ==
  /\ call' = <<"move", v, w>> /\ threw' = FALSE
  /\ str' = [str EXCEPT ![v] = str[w], ![w] = Local(<<>>)] /\ mem' = m

MoveCtor(v, w) == ~InScope(v) /\ InScope(w) /\ Take(v, w, mem)
MoveAssign(v, w) == v # w /\ InScope(v) /\ InScope(w) /\ Take(v, w, release(mem, v, str[w]))

Destructor(v) == InScope(v) /\ Return(<<"destroy", v>>, release(mem, v, str[v]), v, Absent)

-----------------------------------------------------------------------------
(* s is written where the text of v is *)
Rewrite(c, v, s) ==
  IF is_local(v) THEN Return(c, mem, v, Local(s))
  ELSE LET block == mem.heap[str[v].ptr]
       IN Return(c, [heap  |-> [mem.heap EXCEPT ![str[v].ptr].text = s],
                     sound |-> mem.sound /\ Len(s) < block.room],
                 v, [str[v] EXCEPT !.size = Len(s)])

(* s is the text of v from now on, on the heap with room for n *)
Relocate(c, v, n, s) ==
  \/ Throw(c, v)
  \/ Replace(c, allocate(mem, n, s), v, OnHeap(New(mem), Len(s), n))

clear(v) == InScope(v) /\ Rewrite(<<"clear", v>>, v, <<>>)

HasRoom(v, n) == n < InlineSize \/ (~is_local(v) /\ n <= str[v].capacity)

reserve(v, n) ==
  LET c == <<"reserve", v>>
  IN /\ InScope(v)
     /\ IF HasRoom(v, n) THEN Return(c, mem, v, str[v]) ELSE Relocate(c, v, n, TextOf(v))

Full(v) == str[v].size = capacity(v)

(* push_back reserves twice the capacity if there is no room *)
push_back(v, x) ==
  LET c == <<"push_back", v, x>>
      n == 2 * capacity(v)
  IN /\ InScope(v) /\ str[v].size < MaxLen
     /\ IF Full(v) /\ ~HasRoom(v, n) THEN Relocate(c, v, n, Append(TextOf(v), x))
        ELSE Rewrite(c, v, Append(TextOf(v), x))

(* append: arg names the literal or the string, which may be v itself *)
append(v, arg, s) ==
  LET c == <<"append", v, arg>>
      n == str[v].size + Len(s)
  IN /\ InScope(v) /\ n <= MaxLen
     /\ IF n <= capacity(v) THEN Rewrite(c, v, TextOf(v) \o s)
        ELSE Relocate(c, v, 2 * n, TextOf(v) \o s)

Next ==
  \E v \in Vec :
    \/ Destructor(v) \/ clear(v)
    \/ \E s \in Text : Ctor(v, s) \/ append(v, s, s)
    \/ \E w \in Vec : \/ CopyCtor(v, w) \/ CopyAssign(v, w) \/ MoveCtor(v, w) \/ MoveAssign(v, w)
                      \/ InScope(w) /\ append(v, w, TextOf(w))
    \/ \E n \in 0 .. MaxLen : reserve(v, n)
    \/ \E x \in Item : push_back(v, x)

Spec == Init /\ [][Next]_vars

-----------------------------------------------------------------------------
(* The union is read as what was written to it last, at basic_string.hpp:29, *)
(* every block on the heap belongs to the one string whose capacity_ says    *)
(* its room, and size_ is where the '\0' is.                                 *)
OneRepresentation ==
  LET scope == {v \in Vec : InScope(v)}
      heaped == {v \in scope : ~is_local(v)}
  IN /\ mem.sound
     /\ DOMAIN mem.heap = {str[v].ptr : v \in heaped}
     /\ \A v, w \in heaped : str[v].ptr = str[w].ptr => v = w
     /\ \A v \in heaped : /\ str[v].buffer = Lost /\ str[v].capacity >= InlineSize
                          /\ mem.heap[str[v].ptr].room = str[v].capacity + 1
     /\ \A v \in scope \ heaped : str[v].capacity = Lost /\ Fits(str[v].buffer)
     /\ \A v \in scope : str[v].size = Len(TextOf(v))

(* the characters of v: what module ElementSequences calls its contents *)
Contents(v) == IF InScope(v) THEN TextOf(v) ELSE Absent
=============================================================================

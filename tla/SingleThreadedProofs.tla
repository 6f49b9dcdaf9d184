------------------------ MODULE SingleThreadedProofs ------------------------
(***************************************************************************)
(* What the classes that one thread uses own, for any number of variables  *)
(* and calls, and any values, sizes and bounds.                            *)
(*                                                                         *)
(* Each class has an invariant of its own, below, with the lemmas about    *)
(* what its operations do to it; that of them all says that the subject's  *)
(* holds.  The properties count the owners and follow pointers through the *)
(* memory; the invariants say the same with quantifiers.  The containers   *)
(* and the Shapes but for the list share theirs, Storage.                  *)
(***************************************************************************)
EXTENDS SingleThreaded, Heap, FiniteSetTheorems, SequenceTheorems, WellFoundedInduction, TLAPS

(* A set of naturals has a least element.                                  *)
LEMMA Least ==
  ASSUME NEW T \in SUBSET Nat, T # {}
  PROVE  \E x \in T : \A y \in T : x <= y
<1> DEFINE R == OpToRel(<, Nat)
<1>1. IsWellFoundedOn(R, Nat)
  BY NatLessThanWellFounded
<1>2. \A x, y \in Nat : x < y => <<x, y>> \in R
  BY DEF OpToRel
<1> HIDE DEF R
<1>3. PICK x \in T : \A y \in T : ~ (<<y, x>> \in R)
  BY <1>1, WFMin, Zenon
<1>4. ASSUME NEW y \in T PROVE x <= y
  <2>1. x \in Nat /\ y \in Nat /\ <<y, x>> \notin R
    BY <1>3
  <2>2. ~ (y < x)
    BY <1>2, <2>1
  <2> QED  BY <2>1, <2>2
<1> QED  BY <1>4

LEMMA Induction ==
  ASSUME NEW n \in Nat, NEW N, 0 \in N, \A i \in 0 .. n - 1 : i \in N => i + 1 \in N
  PROVE  0 .. n \subseteq N
<1> SUFFICES ASSUME (0 .. n) \ N # {} PROVE FALSE
  OBVIOUS
<1>1. PICK i \in (0 .. n) \ N : \A j \in (0 .. n) \ N : i <= j
  BY Least, (0 .. n) \ N \subseteq Nat, Zenon
<1>2. i # 0 /\ i - 1 \in 0 .. n - 1 /\ i - 1 \in N
  BY <1>1
<1> QED  BY <1>2

(* New and Fresh: among the first addresses one is free *)
LEMMA FreeAddress ==
  ASSUME NEW D, IsFiniteSet(D)
  PROVE  \E a \in 1 .. Cardinality(D) + 1 : a \notin D
<1> DEFINE n == Cardinality(D) + 1
<1>1. Cardinality(D) \in Nat /\ n \in Nat
  BY FS_CardinalityType
<1> SUFFICES ASSUME 1 .. n \subseteq D PROVE FALSE
  OBVIOUS
<1>2. Cardinality(1 .. n) = n
  BY <1>1, FS_Interval
<1>3. Cardinality(1 .. n) <= Cardinality(D)
  BY FS_Subset, Zenon
<1> QED  BY <1>1, <1>2, <1>3

-----------------------------------------------------------------------------
(* The memories of the containers and allocators, and how they change.     *)
Address == Nat \ {0}
Heaps(N) == UNION {[D -> N] : D \in {Q \in SUBSET Address : IsFiniteSet(Q)}}
Memory(N) == [heap : Heaps(N), sound : {TRUE}]

(* g is h, with x at a; without the addresses Q; with x at a that was there *)
Grown(N, h, a, x, g) ==
  /\ g \in Heaps(N) /\ DOMAIN g = DOMAIN h \cup {a}
  /\ g[a] = x /\ \A b \in DOMAIN h : b # a => g[b] = h[b]

Shrunk(N, h, Q, g) ==
  g \in Heaps(N) /\ DOMAIN g = DOMAIN h \ Q /\ \A b \in DOMAIN h \ Q : g[b] = h[b]

Changed(N, h, a, x, g) ==
  /\ g \in Heaps(N) /\ DOMAIN g = DOMAIN h
  /\ g[a] = x /\ \A b \in DOMAIN h : b # a => g[b] = h[b]

LEMMA HeapType ==
  ASSUME NEW N, NEW h \in Heaps(N)
  PROVE  /\ DOMAIN h \subseteq Address /\ IsFiniteSet(DOMAIN h) /\ \A a \in DOMAIN h : h[a] \in N
         /\ h = [a \in DOMAIN h |-> h[a]]
<1>1. PICK D \in {Q \in SUBSET Address : IsFiniteSet(Q)} : h \in [D -> N]
  BY DEF Heaps
<1> QED  BY <1>1

LEMMA HeapIs ==
  ASSUME NEW N, NEW D \in SUBSET Address, IsFiniteSet(D), NEW h, h = [a \in D |-> h[a]], \A a \in D : h[a] \in N
  PROVE  h \in Heaps(N)
<1>1. h \in [D -> N]
  OBVIOUS
<1> QED  BY <1>1 DEF Heaps

LEMMA HeapEmpty ==
  ASSUME NEW N, NEW x
  PROVE  [a \in {} |-> x] \in Heaps(N)
<1>1. IsFiniteSet({})
  BY FS_EmptySet
<1>2. [a \in {} |-> x] \in [{} -> N]
  OBVIOUS
<1> QED  BY <1>1, <1>2 DEF Heaps

LEMMA HeapWith ==
  ASSUME NEW N, NEW h \in Heaps(N), NEW a \in Address, NEW x \in N, NEW g, g = With(h, a, x)
  PROVE  Grown(N, h, a, x, g)
<1>1. DOMAIN h \subseteq Address /\ IsFiniteSet(DOMAIN h) /\ \A b \in DOMAIN h : h[b] \in N
  BY HeapType
<1>2. /\ DOMAIN g = DOMAIN h \cup {a} /\ g[a] = x /\ \A b \in DOMAIN h : b # a => g[b] = h[b]
      /\ g = [b \in DOMAIN h \cup {a} |-> g[b]]
  BY DEF With
<1>3. IsFiniteSet(DOMAIN h \cup {a})
  BY <1>1, FS_AddElement
<1>4. g \in Heaps(N)
  BY <1>1, <1>2, <1>3, HeapIs
<1> QED  BY <1>2, <1>4 DEF Grown

LEMMA HeapWithout ==
  ASSUME NEW N, NEW h \in Heaps(N), NEW Q, NEW g, g = Without(h, Q)
  PROVE  Shrunk(N, h, Q, g)
<1>1. DOMAIN h \subseteq Address /\ IsFiniteSet(DOMAIN h) /\ \A b \in DOMAIN h : h[b] \in N
  BY HeapType
<1>2. /\ DOMAIN g = DOMAIN h \ Q /\ \A b \in DOMAIN h \ Q : g[b] = h[b]
      /\ g = [b \in DOMAIN h \ Q |-> g[b]]
  BY DEF Without
<1>3. IsFiniteSet(DOMAIN h \ Q)
  BY <1>1, FS_Subset
<1>4. g \in Heaps(N)
  BY <1>1, <1>2, <1>3, HeapIs
<1> QED  BY <1>2, <1>4 DEF Shrunk

LEMMA HeapChanged ==
  ASSUME NEW N, NEW h \in Heaps(N), NEW a \in DOMAIN h, NEW x \in N, NEW g, g = [h EXCEPT ![a] = x]
  PROVE  Changed(N, h, a, x, g)
<1>1. /\ DOMAIN h \subseteq Address /\ IsFiniteSet(DOMAIN h) /\ \A b \in DOMAIN h : h[b] \in N
      /\ h = [b \in DOMAIN h |-> h[b]]
  BY HeapType
<1>2. /\ DOMAIN g = DOMAIN h /\ g[a] = x /\ \A b \in DOMAIN h : b # a => g[b] = h[b]
      /\ g = [b \in DOMAIN h |-> g[b]]
  BY <1>1, Zenon
<1> DEFINE f == g
<1>3. f = [b \in DOMAIN f |-> f[b]] /\ DOMAIN f \in SUBSET Address /\ IsFiniteSet(DOMAIN f) /\ \A b \in DOMAIN f : f[b] \in N
  BY <1>1, <1>2, Zenon
<1> HIDE DEF f
<1>4. f \in Heaps(N)
  BY <1>3, HeapIs
<1> QED  BY <1>2, <1>4 DEF f, Changed

(* New: an address that is free *)
LEMMA NewIsFree ==
  ASSUME NEW N, NEW h \in Heaps(N)
  PROVE  NewAddress(h) \in Address /\ NewAddress(h) \notin DOMAIN h
<1>1. IsFiniteSet(DOMAIN h) /\ Cardinality(DOMAIN h) \in Nat
  BY HeapType, FS_CardinalityType
<1>2. \E a \in 1 .. Cardinality(DOMAIN h) + 1 : a \notin DOMAIN h
  BY <1>1, FreeAddress
<1> QED  BY <1>1, <1>2 DEF NewAddress, Address

LEMMA MemoryReplaced ==
  ASSUME NEW N, NEW m \in Memory(N), NEW h \in Heaps(N), NEW n, n = [m EXCEPT !.heap = h]
  PROVE  n \in Memory(N) /\ n.heap = h
BY Zenon DEF Memory

LEMMA MemoryIs ==
  ASSUME NEW N, NEW h \in Heaps(N), NEW n, n = [heap |-> h, sound |-> TRUE]
  PROVE  n \in Memory(N) /\ n.heap = h
BY DEF Memory

LEMMA MemorySound ==
  ASSUME NEW N, NEW m \in Memory(N), NEW ok, ok, NEW n, n = [m EXCEPT !.sound = @ /\ ok]
  PROVE  n = m
BY Zenon DEF Memory

-----------------------------------------------------------------------------
(* event_manager: what the emits under way have run is the part of their   *)
(* snapshots that they have reached.                                       *)
Frame == [event : Vec, snapshot : Seq(Nat), reached : Nat]
Run == [due : Seq(Nat), done : Seq(Nat)]

EventsTypeOK ==
  /\ IsFiniteSet(DOMAIN obj) /\ \A e \in DOMAIN obj : obj[e] \in Seq(Nat)
  /\ aux \in Seq(Frame) /\ mem \in Seq(Run) /\ Len(mem) = Len(aux)

Ran(frame, run) ==
  /\ frame.reached <= Len(frame.snapshot)
  /\ run.due = frame.snapshot /\ run.done = SubSeq(frame.snapshot, 1, frame.reached)
SnapshotsRun == \A i \in 1 .. Len(aux) : Ran(aux[i], mem[i])

EventsOK == EventsTypeOK /\ SnapshotsRun

LEMMA EventsInit == M!Init => EventsOK
<1> SUFFICES ASSUME M!Init PROVE EventsOK
  OBVIOUS
<1>1. obj = [e \in {} |-> <<>>] /\ aux = <<>> /\ mem = <<>>
  BY DEF M!Init
<1>2. DOMAIN obj = {}
  BY <1>1
<1>3. IsFiniteSet(DOMAIN obj)
  BY <1>2, FS_EmptySet
<1> QED  BY <1>1, <1>2, <1>3 DEF EventsOK, EventsTypeOK, SnapshotsRun

(* the number of the next callback is one *)
LEMMA NextIdNat ==
  ASSUME EventsTypeOK
  PROVE  M!NextId \in Nat
<1> DEFINE Numbers(e) == {<<e, i>> : i \in DOMAIN obj[e]}
           Sets == {Numbers(e) : e \in DOMAIN obj}
<1>1. IsFiniteSet(Sets)
  <2> DEFINE f == [e \in DOMAIN obj |-> Numbers(e)]
  <2>1. f \in Surjection(DOMAIN obj, Sets)
    BY Zenon DEF Surjection
  <2> HIDE DEF f, Sets
  <2> QED  BY <2>1, FS_Surjection DEF EventsTypeOK
<1>2. ASSUME NEW s \in Sets PROVE IsFiniteSet(s)
  <2>1. PICK e \in DOMAIN obj : s = Numbers(e)
    OBVIOUS
  <2>2. obj[e] \in Seq(Nat) /\ DOMAIN obj[e] = 1 .. Len(obj[e]) /\ Len(obj[e]) \in Nat
    BY DEF EventsTypeOK
  <2>3. IsFiniteSet(DOMAIN obj[e])
    BY <2>2, FS_Interval
  <2> DEFINE f == [i \in DOMAIN obj[e] |-> <<e, i>>]
  <2>4. f \in Surjection(DOMAIN obj[e], s)
    BY <2>1, Zenon DEF Surjection
  <2> HIDE DEF f
  <2> QED  BY <2>3, <2>4, FS_Surjection
<1> HIDE DEF Numbers, Sets
<1>3. IsFiniteSet(UNION Sets)
  BY <1>1, <1>2, FS_UNION
<1>4. Cardinality(UNION Sets) \in Nat
  BY <1>3, FS_CardinalityType
<1>5. M!NextId = Cardinality(UNION Sets) + 1
  BY DEF M!NextId, Sets, Numbers, M!Cardinality, Cardinality
<1> QED  BY <1>4, <1>5

LEMMA EventsOn ==
  ASSUME EventsOK, NEW e \in Vec, M!on(e)
  PROVE  EventsOK'
<1> DEFINE new == Append(M!Registered(e), M!NextId)
<1>1. UNCHANGED <<aux, mem>> /\ obj' = [f \in DOMAIN obj \cup {e} |-> IF f = e THEN new ELSE obj[f]]
  BY DEF M!on, M!With
<1>2. M!Registered(e) \in Seq(Nat)
  BY DEF M!Registered, EventsOK, EventsTypeOK
<1>3. new \in Seq(Nat)
  BY <1>2, NextIdNat DEF EventsOK
<1> HIDE DEF new
<1>4. IsFiniteSet(DOMAIN obj')
  <2>1. DOMAIN obj' = DOMAIN obj \cup {e}
    BY <1>1
  <2> QED  BY <2>1, FS_AddElement, Zenon DEF EventsOK, EventsTypeOK
<1>5. EventsTypeOK'
  BY <1>1, <1>3, <1>4 DEF EventsOK, EventsTypeOK
<1>6. SnapshotsRun'
  BY <1>1 DEF EventsOK, SnapshotsRun
<1> QED  BY <1>5, <1>6 DEF EventsOK

LEMMA EventsEmit ==
  ASSUME EventsOK, NEW e \in Vec, M!emit(e)
  PROVE  EventsOK'
<1> DEFINE frame == [event |-> e, snapshot |-> obj[e], reached |-> 0]
           run == [due |-> obj[e], done |-> <<>>]
<1>1. obj' = obj /\ aux' = <<frame>> \o aux /\ mem' = <<run>> \o mem /\ e \in DOMAIN obj
  BY DEF M!emit
<1>2. obj[e] \in Seq(Nat) /\ aux \in Seq(Frame) /\ mem \in Seq(Run) /\ Len(mem) = Len(aux)
  BY <1>1 DEF EventsOK, EventsTypeOK
<1>3. frame \in Frame /\ run \in Run
  BY <1>2 DEF Frame, Run
<1>4. Ran(frame, run)
  BY <1>2 DEF Ran
<1> HIDE DEF frame, run
<1>5. /\ aux' \in Seq(Frame) /\ Len(aux') = Len(aux) + 1 /\ aux'[1] = frame
      /\ \A i \in 2 .. Len(aux) + 1 : aux'[i] = aux[i - 1]
  BY <1>1, <1>2, <1>3
<1>6. /\ mem' \in Seq(Run) /\ Len(mem') = Len(mem) + 1 /\ mem'[1] = run
      /\ \A i \in 2 .. Len(mem) + 1 : mem'[i] = mem[i - 1]
  BY <1>1, <1>2, <1>3
<1>7. EventsTypeOK'
  BY <1>1, <1>2, <1>5, <1>6 DEF EventsOK, EventsTypeOK
<1>8. ASSUME NEW i \in 1 .. Len(aux') PROVE Ran(aux'[i], mem'[i])
  <2>1. CASE i = 1
    BY <1>4, <1>5, <1>6, <2>1
  <2>2. CASE i # 1
    <3>1. i \in 2 .. Len(aux) + 1 /\ i - 1 \in 1 .. Len(aux)
      BY <1>2, <1>5, <2>2
    <3>2. Ran(aux[i - 1], mem[i - 1])
      BY <3>1 DEF EventsOK, SnapshotsRun
    <3> QED  BY <1>2, <1>5, <1>6, <3>1, <3>2
  <2> QED  BY <2>1, <2>2
<1> QED  BY <1>7, <1>8 DEF EventsOK, SnapshotsRun

(* a prefix that goes on, and one that is all *)
LEMMA PrefixLonger ==
  ASSUME NEW s \in Seq(Nat), NEW k \in Nat, k + 1 \in 1 .. Len(s)
  PROVE  Append(SubSeq(s, 1, k), s[k + 1]) = SubSeq(s, 1, k + 1)
<1>1. SubSeq(s, 1, k) \in Seq(Nat) /\ SubSeq(s, 1, k + 1) \in Seq(Nat) /\ Len(s) \in Nat
  OBVIOUS
<1>2. Len(SubSeq(s, 1, k)) = k /\ Len(SubSeq(s, 1, k + 1)) = k + 1
  BY <1>1
<1>3. \A i \in 1 .. k : SubSeq(s, 1, k)[i] = s[i]
  BY <1>1, <1>2
<1>4. \A i \in 1 .. k + 1 : SubSeq(s, 1, k + 1)[i] = s[i]
  BY <1>1, <1>2
<1> DEFINE a == Append(SubSeq(s, 1, k), s[k + 1])
           b == SubSeq(s, 1, k + 1)
<1>5. a \in Seq(Nat) /\ Len(a) = k + 1 /\ a[k + 1] = s[k + 1] /\ \A i \in 1 .. k : a[i] = s[i]
  BY <1>1, <1>2, <1>3
<1>6. b \in Seq(Nat) /\ Len(b) = k + 1 /\ \A i \in 1 .. k + 1 : b[i] = s[i]
  BY <1>1, <1>2, <1>4
<1> HIDE DEF a, b
<1>7. \A i \in 1 .. k + 1 : a[i] = b[i]
  BY <1>5, <1>6
<1> QED  BY <1>5, <1>6, <1>7, SeqEqual DEF a, b

LEMMA PrefixWhole ==
  ASSUME NEW s \in Seq(Nat)
  PROVE  SubSeq(s, 1, Len(s)) = s
<1> DEFINE b == SubSeq(s, 1, Len(s))
<1>1. Len(s) \in Nat
  OBVIOUS
<1>2. b \in Seq(Nat) /\ Len(b) = Len(s) /\ \A i \in 1 .. Len(s) : b[i] = s[i]
  BY <1>1
<1> HIDE DEF b
<1> QED  BY <1>2, SeqEqual DEF b

LEMMA EventsCall ==
  ASSUME EventsOK, M!Call
  PROVE  EventsOK'
<1> DEFINE frame == aux[1]
           n == frame.reached + 1
           run == mem[1]
<1>1. /\ aux \in Seq(Frame) /\ mem \in Seq(Run) /\ Len(mem) = Len(aux) /\ aux # <<>>
      /\ frame \in Frame /\ run \in Run /\ Ran(frame, run) /\ Len(aux) \in Nat /\ Len(aux) >= 1
  <2>1. aux \in Seq(Frame) /\ mem \in Seq(Run) /\ Len(mem) = Len(aux) /\ aux # <<>>
    BY DEF EventsOK, EventsTypeOK, M!Call
  <2>2. Len(aux) \in Nat /\ Len(aux) >= 1 /\ 1 \in 1 .. Len(aux)
    BY <2>1
  <2>3. frame \in Frame /\ run \in Run
    BY <2>1, <2>2
  <2>4. Ran(frame, run)
    BY <2>2 DEF EventsOK, SnapshotsRun
  <2> QED  BY <2>1, <2>2, <2>3, <2>4
<1>2. /\ Head(aux).reached < Len(M!ToRun(Head(aux))) /\ Head(aux) = frame
      /\ aux' = [aux EXCEPT ![1].reached = Head(aux).reached + 1]
      /\ mem' = [mem EXCEPT ![1].done = Append(@, M!ToRun(Head(aux))[Head(aux).reached + 1])]
      /\ obj' = obj
  BY <1>1 DEF M!Call
<1>3. /\ frame.snapshot \in Seq(Nat) /\ frame.reached \in Nat /\ n \in 1 .. Len(frame.snapshot)
      /\ run.done = SubSeq(frame.snapshot, 1, frame.reached) /\ run.due = frame.snapshot
      /\ frame = [event |-> frame.event, snapshot |-> frame.snapshot, reached |-> frame.reached]
      /\ run = [due |-> run.due, done |-> run.done] /\ frame.event \in Vec
  <2>1. frame.snapshot \in Seq(Nat) /\ frame.reached \in Nat /\ frame.event \in Vec
    BY <1>1 DEF Frame
  <2>2. frame = [event |-> frame.event, snapshot |-> frame.snapshot, reached |-> frame.reached]
    BY <1>1 DEF Frame
  <2>3. run = [due |-> run.due, done |-> run.done]
    BY <1>1 DEF Run
  <2>4. n \in 1 .. Len(frame.snapshot)
    BY <1>2, <2>1 DEF M!ToRun
  <2> QED  BY <1>1, <2>1, <2>2, <2>3, <2>4 DEF Ran
<1> DEFINE newFrame == [event |-> frame.event, snapshot |-> frame.snapshot, reached |-> n]
           newRun == [due |-> run.due, done |-> Append(run.done, frame.snapshot[n])]
<1>4. aux' = [aux EXCEPT ![1] = newFrame]
  <2>1. aux' = [aux EXCEPT ![1] = [frame EXCEPT !.reached = n]]
    BY <1>1, <1>2, Zenon
  <2>2. [frame EXCEPT !.reached = n] = [event |-> frame.event, snapshot |-> frame.snapshot, reached |-> n]
    <3> HIDE DEF frame, n, newFrame, newRun
    <3>1. frame = [event |-> frame.event, snapshot |-> frame.snapshot, reached |-> frame.reached]
      BY <1>3
    <3>2. ASSUME NEW e, NEW s, NEW r, NEW x
          PROVE  [[event |-> e, snapshot |-> s, reached |-> r] EXCEPT !.reached = x]
                   = [event |-> e, snapshot |-> s, reached |-> x]
      OBVIOUS
    <3> QED  BY <3>1, <3>2
  <2> QED  BY <2>1, <2>2, Zenon
<1>5. mem' = [mem EXCEPT ![1] = newRun]
  <2>1. mem' = [mem EXCEPT ![1] = [run EXCEPT !.done = Append(run.done, frame.snapshot[n])]]
    BY <1>1, <1>2, Zenon DEF M!ToRun
  <2>2. [run EXCEPT !.done = Append(run.done, frame.snapshot[n])] = [due |-> run.due, done |-> Append(run.done, frame.snapshot[n])]
    <3> HIDE DEF frame, n, run, newFrame, newRun
    <3>1. run = [due |-> run.due, done |-> run.done]
      BY <1>3
    <3>2. PICK x : x = Append(run.done, frame.snapshot[n])
      BY Zenon
    <3>3. [[due |-> run.due, done |-> run.done] EXCEPT !.done = x] = [due |-> run.due, done |-> x]
      OBVIOUS
    <3>4. [run EXCEPT !.done = x] = [[due |-> run.due, done |-> run.done] EXCEPT !.done = x]
      BY <3>1, Zenon
    <3> QED  BY <3>2, <3>3, <3>4, Zenon
  <2> QED  BY <2>1, <2>2, Zenon
<1>6. Append(run.done, frame.snapshot[n]) = SubSeq(frame.snapshot, 1, n)
  BY <1>3, PrefixLonger, Zenon
<1>7. newFrame \in Frame /\ newRun \in Run /\ Ran(newFrame, newRun)
  <2>1. SubSeq(frame.snapshot, 1, n) \in Seq(Nat)
    BY <1>3
  <2>2. newFrame \in Frame
    BY <1>3 DEF Frame
  <2>3. newRun \in Run
    BY <1>3, <1>6, <2>1, Zenon DEF Run
  <2> QED  BY <1>3, <1>6, <2>2, <2>3 DEF Ran
<1> HIDE DEF newFrame, newRun, frame, run
<1>8. /\ aux' \in Seq(Frame) /\ mem' \in Seq(Run) /\ Len(aux') = Len(aux) /\ Len(mem') = Len(mem)
      /\ aux'[1] = newFrame /\ mem'[1] = newRun
      /\ \A i \in 2 .. Len(aux) : aux'[i] = aux[i] /\ mem'[i] = mem[i]
  BY <1>1, <1>4, <1>5, <1>7
<1>9. EventsTypeOK'
  BY <1>1, <1>2, <1>8 DEF EventsOK, EventsTypeOK
<1>10. ASSUME NEW i \in 1 .. Len(aux') PROVE Ran(aux'[i], mem'[i])
  <2>1. CASE i = 1
    BY <1>7, <1>8, <2>1
  <2>2. CASE i \in 2 .. Len(aux)
    BY <1>1, <1>8, <2>2 DEF EventsOK, SnapshotsRun
  <2> QED  BY <1>1, <1>8, <2>1, <2>2
<1> QED  BY <1>9, <1>10 DEF EventsOK, SnapshotsRun

LEMMA EventsLeave ==
  ASSUME EventsOK, M!Leave, aux # <<>>
  PROVE  EventsOK'
<1>1. aux \in Seq(Frame) /\ mem \in Seq(Run) /\ Len(mem) = Len(aux) /\ mem # <<>>
  BY DEF EventsOK, EventsTypeOK
<1>2. aux' = Tail(aux) /\ mem' = Tail(mem) /\ obj' = obj
  BY DEF M!Leave
<1>3. /\ aux' \in Seq(Frame) /\ mem' \in Seq(Run) /\ Len(aux') = Len(aux) - 1 /\ Len(mem') = Len(aux) - 1
      /\ \A i \in 1 .. Len(aux) - 1 : aux'[i] = aux[i + 1] /\ mem'[i] = mem[i + 1]
      /\ Len(aux) \in Nat
  BY <1>1, <1>2
<1>4. EventsTypeOK'
  BY <1>2, <1>3 DEF EventsOK, EventsTypeOK
<1>5. ASSUME NEW i \in 1 .. Len(aux') PROVE Ran(aux'[i], mem'[i])
  <2>1. i \in 1 .. Len(aux) - 1 /\ i + 1 \in 1 .. Len(aux)
    BY <1>3
  <2>2. Ran(aux[i + 1], mem[i + 1])
    BY <2>1 DEF EventsOK, SnapshotsRun
  <2> QED  BY <1>3, <2>1, <2>2
<1> QED  BY <1>4, <1>5 DEF EventsOK, SnapshotsRun

LEMMA EventsNext ==
  ASSUME EventsOK, M!Next
  PROVE  EventsOK'
<1>1. CASE \E e \in Vec : M!on(e) \/ M!emit(e)
  BY <1>1, EventsOn, EventsEmit
<1>2. CASE M!Call
  BY <1>2, EventsCall
<1>3. CASE M!Return
  BY <1>3, EventsLeave DEF M!Return
<1>4. CASE M!Throw
  BY <1>4, EventsLeave DEF M!Throw
<1> QED  BY <1>1, <1>2, <1>3, <1>4 DEF M!Next

LEMMA EventsImplies ==
  ASSUME EventsOK
  PROVE  M!EmitsRegistered
<1> SUFFICES ASSUME NEW i \in DOMAIN mem
             PROVE  /\ aux[i].reached <= Len(mem[i].due)
                    /\ mem[i].done = SubSeq(mem[i].due, 1, aux[i].reached)
                    /\ aux[i].reached = Len(M!ToRun(aux[i])) => mem[i].done = mem[i].due
  BY DEF M!EmitsRegistered
<1>1. i \in 1 .. Len(aux) /\ aux[i] \in Frame /\ Ran(aux[i], mem[i])
  BY DEF EventsOK, EventsTypeOK, SnapshotsRun
<1>2. aux[i].snapshot \in Seq(Nat)
  BY <1>1 DEF Frame
<1> DEFINE s == aux[i].snapshot
           k == aux[i].reached
<1>3. s \in Seq(Nat) /\ k <= Len(s) /\ mem[i].done = SubSeq(s, 1, k) /\ mem[i].due = s
  BY <1>1, <1>2 DEF Ran
<1> HIDE DEF s, k
<1>4. SubSeq(s, 1, Len(s)) = s
  BY <1>3, PrefixWhole
<1> QED  BY <1>3, <1>4, Zenon DEF M!ToRun, s, k

-----------------------------------------------------------------------------
(* arena: its blocks lie between the beginning of the buffer and offset_.  *)
Block == [address : Nat, size : Nat, alignment : Alignments]

Within(b, from, to) == b.address % b.alignment = 0 /\ from <= b.address /\ b.address + b.size <= to

Apart(b, c) == b.address + b.size <= c.address \/ c.address + c.size <= b.address

ArenaOK ==
  /\ obj \in [buffer : Nat, offset : 0 .. Capacity] /\ aux \subseteq Block
  /\ \A b \in aux : Within(b, obj.buffer, obj.buffer + obj.offset)
  /\ \A b, c \in aux : b # c => Apart(b, c)

LEMMA MultipleMod ==
  ASSUME NEW n \in Nat \ {0}, NEW k \in Nat
  PROVE  (n * k) % n = 0
OBVIOUS

LEMMA AlignUp ==
  ASSUME NEW alignment \in Nat \ {0}, NEW p \in Nat
  PROVE  /\ A!align(alignment, p) \in Nat /\ A!align(alignment, p) >= p
         /\ A!align(alignment, p) % alignment = 0
<1> DEFINE x == p + alignment - 1
           k == x \div alignment
<1>1. x \in Nat /\ k \in Nat /\ alignment * k <= x /\ x < alignment * k + alignment
  OBVIOUS
<1> HIDE DEF k
<1>2. alignment * k \in Nat /\ alignment * k >= p
  BY <1>1
<1> QED  BY <1>1, <1>2, MultipleMod, Zenon DEF A!align, k

LEMMA ArenaInit == A!Init => ArenaOK
<1> SUFFICES ASSUME A!Init PROVE ArenaOK
  OBVIOUS
<1>1. obj \in [buffer : Bases, offset : {0}] /\ aux = {} /\ Bases \subseteq Nat /\ 0 \in 0 .. Capacity
  BY SingleThreadedAssumption DEF A!Init
<1>2. obj \in [buffer : Nat, offset : 0 .. Capacity]
  BY <1>1, Zenon
<1> QED  BY <1>1, <1>2 DEF ArenaOK

LEMMA ArenaAllocate ==
  ASSUME ArenaOK, NEW size \in 1 .. Capacity, NEW alignment \in Alignments, A!allocate(size, alignment)
  PROVE  ArenaOK'
<1> DEFINE current == obj.buffer + obj.offset
           aligned == A!align(alignment, current)
           new == [address |-> aligned, size |-> size, alignment |-> alignment]
           offset == aligned - obj.buffer + size
<1>1. /\ obj.buffer \in Nat /\ obj.offset \in 0 .. Capacity /\ Capacity \in Nat
      /\ alignment \in Nat \ {0} /\ size \in Nat /\ size >= 1
      /\ obj = [buffer |-> obj.buffer, offset |-> obj.offset]
  BY SingleThreadedAssumption DEF ArenaOK
<1>2. aligned \in Nat /\ aligned >= current /\ aligned % alignment = 0
  BY <1>1, AlignUp
<1> HIDE DEF aligned
<1>3. /\ aligned - current + size <= Capacity - obj.offset
      /\ obj' = [obj EXCEPT !.offset = offset] /\ aux' = aux \cup {new}
  BY DEF A!allocate, A!EndOf, aligned
<1>4. offset \in 0 .. Capacity /\ obj'.buffer = obj.buffer /\ obj'.offset = offset
      /\ obj' = [buffer |-> obj.buffer, offset |-> offset]
  BY <1>1, <1>2, <1>3
<1>5. new \in Block /\ Within(new, obj.buffer, obj.buffer + offset)
  BY <1>1, <1>2 DEF Block, Within
<1>6. obj.offset <= offset
  BY <1>1, <1>2
<1>7. ASSUME NEW b \in aux PROVE Within(b, obj.buffer, obj.buffer + offset) /\ Apart(b, new) /\ Apart(new, b)
  <2>1. b.address \in Nat /\ b.size \in Nat /\ Within(b, obj.buffer, current)
    BY DEF ArenaOK, Block
  <2> QED  BY <1>1, <1>2, <1>4, <1>6, <2>1 DEF Within, Apart
<1> HIDE DEF new, offset
<1> QED  BY <1>1, <1>3, <1>4, <1>5, <1>7 DEF ArenaOK

LEMMA ArenaNext ==
  ASSUME ArenaOK, A!Next
  PROVE  ArenaOK'
<1>1. CASE A!reset
  <2>1. obj' = [obj EXCEPT !.offset = 0] /\ aux' = {} /\ Capacity \in Nat
    BY <1>1, SingleThreadedAssumption DEF A!reset
  <2> QED  BY <2>1 DEF ArenaOK
<1>2. CASE \E size \in 1 .. Capacity, alignment \in Alignments : A!allocate(size, alignment)
  BY <1>2, ArenaAllocate
<1> QED  BY <1>1, <1>2 DEF A!Next

LEMMA ArenaImplies ==
  ASSUME ArenaOK
  PROVE  A!BlocksDisjoint
<1>1. ASSUME NEW b \in aux
      PROVE  b.address % b.alignment = 0 /\ b.address >= obj.buffer /\ b.address + b.size <= obj.buffer + Capacity
  <2>1. b.address \in Nat /\ b.size \in Nat /\ obj.buffer \in Nat /\ obj.offset \in 0 .. Capacity /\ Capacity \in Nat
    BY SingleThreadedAssumption DEF ArenaOK, Block
  <2> QED  BY <2>1 DEF ArenaOK, Within
<1>2. \A b, c \in aux : b # c => Apart(b, c)
  BY DEF ArenaOK
<1> QED  BY <1>1, <1>2 DEF A!BlocksDisjoint, Apart

-----------------------------------------------------------------------------
(* pool_allocator: the free list of an allocator as the list of its blocks. *)
Link == Nat \cup {Null}

Chain(pool, free, n, s) ==
  /\ pool \in [1 .. Blocks -> Link \cup {Data}]
  /\ s \in [1 .. n -> 1 .. Blocks] /\ \A i, j \in 1 .. n : s[i] = s[j] => i = j
  /\ free = IF n = 0 THEN Null ELSE s[1]
  /\ \A i \in 1 .. n : pool[s[i]] = IF i = n THEN Null ELSE s[i + 1]
  /\ \A p \in 1 .. Blocks : pool[p] # Data => \E i \in 1 .. n : s[i] = p

Listed(pool, free) == \E n \in Nat : \E s : Chain(pool, free, n, s)

LEMMA NewChain == Listed(P!NewPool, 1)
<1> DEFINE s == [i \in 1 .. Blocks |-> i]
<1>1. Blocks \in Nat \ {0} /\ Data \notin Nat \cup {Null}
  BY SingleThreadedAssumption
<1>2. Chain(P!NewPool, 1, Blocks, s)
  BY <1>1 DEF Chain, P!NewPool, Link
<1> QED  BY <1>1, <1>2 DEF Listed

(* allocate takes the first *)
LEMMA ChainTaken ==
  ASSUME NEW pool, NEW free, Listed(pool, free), free # Null
  PROVE  /\ free \in 1 .. Blocks
         /\ Listed([pool EXCEPT ![free] = Data], pool[free])
<1>1. PICK n \in Nat : \E s : Chain(pool, free, n, s)
  BY DEF Listed
<1>2. PICK s : Chain(pool, free, n, s)
  BY <1>1
<1>3. Blocks \in Nat \ {0} /\ Data \notin Nat \cup {Null} /\ Null \notin Nat
  BY SingleThreadedAssumption
<1>4. n - 1 \in Nat /\ 1 \in 1 .. n /\ free = s[1] /\ free \in 1 .. Blocks
  BY <1>2 DEF Chain
<1> DEFINE t == [i \in 1 .. n - 1 |-> s[i + 1]]
           rest == [pool EXCEPT ![free] = Data]
<1>5. rest \in [1 .. Blocks -> Link \cup {Data}] /\ \A p \in 1 .. Blocks : rest[p] = IF p = free THEN Data ELSE pool[p]
  BY <1>2 DEF Chain
<1> HIDE DEF rest
<1>6. \A i \in 1 .. n - 1 : i + 1 \in 1 .. n /\ t[i] = s[i + 1] /\ t[i] \in 1 .. Blocks /\ t[i] # free
  BY <1>2, <1>4 DEF Chain
<1>7. t \in [1 .. n - 1 -> 1 .. Blocks]
  BY <1>6
<1> HIDE DEF t
<1>8. \A i, j \in 1 .. n - 1 : t[i] = t[j] => i = j
  <2> SUFFICES ASSUME NEW i \in 1 .. n - 1, NEW j \in 1 .. n - 1, t[i] = t[j] PROVE i = j
    OBVIOUS
  <2>1. i + 1 \in 1 .. n /\ j + 1 \in 1 .. n /\ s[i + 1] = s[j + 1]
    BY <1>6
  <2>2. i + 1 = j + 1
    BY <1>2, <2>1 DEF Chain
  <2> QED  BY <2>2
<1>9. pool[free] = IF n - 1 = 0 THEN Null ELSE t[1]
  BY <1>2, <1>4, <1>6 DEF Chain
<1>10. ASSUME NEW i \in 1 .. n - 1 PROVE rest[t[i]] = IF i = n - 1 THEN Null ELSE t[i + 1]
  <2>1. rest[t[i]] = pool[s[i + 1]] /\ i + 1 \in 1 .. n
    BY <1>5, <1>6
  <2>2. pool[s[i + 1]] = IF i + 1 = n THEN Null ELSE s[i + 1 + 1]
    BY <1>2, <2>1 DEF Chain
  <2>3. CASE i = n - 1
    BY <2>1, <2>2, <2>3
  <2>4. CASE i # n - 1
    <3>1. i + 1 \in 1 .. n - 1
      BY <2>4
    <3>2. t[i + 1] = s[i + 1 + 1]
      BY <1>6, <3>1
    <3> QED  BY <2>1, <2>2, <2>4, <3>2
  <2> QED  BY <2>3, <2>4
<1>11. ASSUME NEW p \in 1 .. Blocks, rest[p] # Data PROVE \E i \in 1 .. n - 1 : t[i] = p
  <2>1. p # free /\ pool[p] # Data
    BY <1>5, <1>11
  <2>2. PICK i \in 1 .. n : s[i] = p
    BY <1>2, <2>1 DEF Chain
  <2>3. i # 1 /\ i - 1 \in 1 .. n - 1
    BY <1>4, <2>1, <2>2
  <2>4. t[i - 1] = s[i - 1 + 1] /\ i - 1 + 1 = i
    BY <1>6, <2>3
  <2> QED  BY <2>2, <2>3, <2>4
<1>12. Chain(rest, pool[free], n - 1, t)
  BY <1>5, <1>7, <1>8, <1>9, <1>10, <1>11 DEF Chain
<1> QED  BY <1>4, <1>12 DEF Listed, rest

(* deallocate puts a block in front *)
LEMMA ChainPut ==
  ASSUME NEW pool, NEW free, Listed(pool, free), NEW p \in 1 .. Blocks, pool[p] = Data
  PROVE  Listed([pool EXCEPT ![p] = free], p)
<1>1. PICK n \in Nat : \E s : Chain(pool, free, n, s)
  BY DEF Listed
<1>2. PICK s : Chain(pool, free, n, s)
  BY <1>1
<1>3. Blocks \in Nat \ {0} /\ Data \notin Nat \cup {Null} /\ Null \notin Nat
  BY SingleThreadedAssumption
<1> DEFINE t == [i \in 1 .. n + 1 |-> IF i = 1 THEN p ELSE s[i - 1]]
           more == [pool EXCEPT ![p] = free]
<1>4. free \in Link
  <2>1. n # 0 => 1 \in 1 .. n /\ s[1] \in 1 .. Blocks
    BY <1>2 DEF Chain
  <2> QED  BY <1>2, <1>3, <2>1 DEF Chain, Link
<1>5. more \in [1 .. Blocks -> Link \cup {Data}] /\ \A q \in 1 .. Blocks : more[q] = IF q = p THEN free ELSE pool[q]
  BY <1>2, <1>4 DEF Chain
<1>6. \A i \in 1 .. n : s[i] \in 1 .. Blocks /\ s[i] # p
  <2> SUFFICES ASSUME NEW i \in 1 .. n PROVE s[i] \in 1 .. Blocks /\ s[i] # p
    OBVIOUS
  <2>1. s[i] \in 1 .. Blocks /\ pool[s[i]] = IF i = n THEN Null ELSE s[i + 1]
    BY <1>2 DEF Chain
  <2>2. i # n => s[i + 1] \in 1 .. Blocks
    BY <1>2 DEF Chain
  <2>3. pool[s[i]] # Data
    BY <1>3, <2>1, <2>2
  <2> QED  BY <2>1, <2>3
<1>7. /\ t[1] = p /\ n + 1 \in Nat
      /\ \A i \in 2 .. n + 1 : i - 1 \in 1 .. n /\ t[i] = s[i - 1] /\ t[i] \in 1 .. Blocks /\ t[i] # p
  BY <1>6
<1>8. t \in [1 .. n + 1 -> 1 .. Blocks]
  BY <1>6
<1> HIDE DEF t, more
<1>9. \A i, j \in 1 .. n + 1 : t[i] = t[j] => i = j
  <2> SUFFICES ASSUME NEW i \in 1 .. n + 1, NEW j \in 1 .. n + 1, t[i] = t[j] PROVE i = j
    OBVIOUS
  <2>1. CASE i \in 2 .. n + 1 /\ j \in 2 .. n + 1
    <3>1. i - 1 \in 1 .. n /\ j - 1 \in 1 .. n /\ s[i - 1] = s[j - 1]
      BY <1>7, <2>1
    <3>2. i - 1 = j - 1
      BY <1>2, <3>1 DEF Chain
    <3> QED  BY <3>2
  <2>2. CASE i = 1 \/ j = 1
    BY <1>7, <2>2
  <2> QED  BY <2>1, <2>2
<1>10. ASSUME NEW i \in 1 .. n + 1 PROVE more[t[i]] = IF i = n + 1 THEN Null ELSE t[i + 1]
  <2>1. CASE i = 1
    <3>1. more[t[i]] = free
      BY <1>5, <1>7, <2>1
    <3>2. n # 0 => t[i + 1] = s[1]
      BY <1>7, <2>1
    <3> QED  BY <1>2, <2>1, <3>1, <3>2 DEF Chain
  <2>2. CASE i \in 2 .. n + 1
    <3>1. more[t[i]] = pool[s[i - 1]] /\ i - 1 \in 1 .. n
      BY <1>5, <1>7, <2>2
    <3>2. pool[s[i - 1]] = IF i - 1 = n THEN Null ELSE s[i - 1 + 1]
      BY <1>2, <3>1 DEF Chain
    <3>3. i # n + 1 => t[i + 1] = s[i - 1 + 1]
      BY <1>7, <2>2
    <3> QED  BY <3>1, <3>2, <3>3
  <2> QED  BY <2>1, <2>2
<1>11. ASSUME NEW q \in 1 .. Blocks, more[q] # Data PROVE \E i \in 1 .. n + 1 : t[i] = q
  <2>1. CASE q = p
    BY <1>7, <2>1
  <2>2. CASE q # p
    <3>1. pool[q] # Data
      BY <1>5, <1>11, <2>2
    <3>2. PICK i \in 1 .. n : s[i] = q
      BY <1>2, <3>1 DEF Chain
    <3>3. i + 1 \in 2 .. n + 1 /\ t[i + 1] = s[i + 1 - 1] /\ i + 1 - 1 = i
      BY <1>7
    <3> QED  BY <3>2, <3>3
  <2> QED  BY <2>1, <2>2
<1>12. Chain(more, p, n + 1, t)
  BY <1>5, <1>7, <1>8, <1>9, <1>10, <1>11 DEF Chain
<1> QED  BY <1>7, <1>12 DEF Listed, more

LEMMA ChainWalk ==
  ASSUME NEW pool, NEW free, NEW n \in Nat, NEW s, Chain(pool, free, n, s), NEW walk,
         walk = [i \in 0 .. n |-> IF i = 0 THEN free
                                  ELSE IF walk[i - 1] \in 1 .. Blocks THEN pool[walk[i - 1]] ELSE Null]
  PROVE  walk[n] = Null /\ \A i \in 0 .. n - 1 : walk[i] = s[i + 1]
<1>1. Null \notin Nat
  BY SingleThreadedAssumption
<1>2. /\ s \in [1 .. n -> 1 .. Blocks] /\ free = IF n = 0 THEN Null ELSE s[1]
      /\ \A i \in 1 .. n : pool[s[i]] = IF i = n THEN Null ELSE s[i + 1]
  BY DEF Chain
<1> DEFINE at(i) == IF i = n THEN Null ELSE s[i + 1]
           N == {i \in 0 .. n : walk[i] = at(i)}
<1>3. walk[0] = free /\ \A i \in 1 .. n : walk[i] = IF walk[i - 1] \in 1 .. Blocks THEN pool[walk[i - 1]] ELSE Null
  OBVIOUS
<1>4. 0 \in N
  BY <1>2, <1>3
<1>5. ASSUME NEW i \in 0 .. n - 1, i \in N PROVE i + 1 \in N
  <2>1. i + 1 \in 1 .. n /\ s[i + 1] \in 1 .. Blocks /\ walk[i] = s[i + 1] /\ (i + 1) - 1 = i
    BY <1>2, <1>5
  <2>2. walk[i + 1] = pool[s[i + 1]]
    BY <1>3, <2>1
  <2>3. pool[s[i + 1]] = at(i + 1)
    BY <1>2, <2>1
  <2> QED  BY <2>1, <2>2, <2>3
<1> HIDE DEF N
<1>6. 0 .. n \subseteq N
  BY <1>4, <1>5, Induction, Zenon
<1> QED  BY <1>6 DEF N

(* the walk of BlocksAccounted, and how long it is *)
Accounts(pool, free, k, H) ==
  LET walk[i \in 0 .. k] == IF i = 0 THEN free
                            ELSE IF walk[i - 1] \in 1 .. Blocks THEN pool[walk[i - 1]] ELSE Null
  IN walk[k] = Null /\ {walk[i] : i \in 0 .. k - 1} = 1 .. Blocks \ H

LEMMA ChainAccounts ==
  ASSUME NEW pool, NEW free, NEW k, Listed(pool, free),
         NEW H, H = {p \in 1 .. Blocks : pool[p] = Data}, k = Blocks - Cardinality(H)
  PROVE  Accounts(pool, free, k, H)
<1>1. PICK n \in Nat : \E s : Chain(pool, free, n, s)
  BY DEF Listed
<1>2. PICK s : Chain(pool, free, n, s)
  BY <1>1
<1>3. Blocks \in Nat /\ Data \notin Nat \cup {Null} /\ Null \notin Nat
  BY SingleThreadedAssumption
<1> DEFINE I == {s[i] : i \in 1 .. n}
<1>4. I = 1 .. Blocks \ H
  <2>1. ASSUME NEW i \in 1 .. n PROVE s[i] \in 1 .. Blocks /\ pool[s[i]] # Data
    <3>1. s[i] \in 1 .. Blocks /\ pool[s[i]] = IF i = n THEN Null ELSE s[i + 1]
      BY <1>2 DEF Chain
    <3>2. i # n => s[i + 1] \in 1 .. Blocks
      BY <1>2 DEF Chain
    <3> QED  BY <1>3, <3>1, <3>2
  <2>2. \A p \in 1 .. Blocks : pool[p] # Data => \E i \in 1 .. n : s[i] = p
    BY <1>2 DEF Chain
  <2> QED  BY <2>1, <2>2
<1>5. Cardinality(I) = n
  <2>1. s \in [1 .. n -> I] /\ \A i, j \in 1 .. n : s[i] = s[j] => i = j
    <3>1. s \in [1 .. n -> 1 .. Blocks] /\ \A i, j \in 1 .. n : s[i] = s[j] => i = j
      BY <1>2 DEF Chain
    <3> QED  BY <3>1
  <2>2. s \in Injection(1 .. n, I) /\ s \in Surjection(1 .. n, I)
    <3>1. \A x \in I : \E i \in 1 .. n : s[i] = x
      OBVIOUS
    <3> HIDE DEF I
    <3> QED  BY <2>1, <3>1 DEF Injection, IsInjective, Surjection
  <2>3. IsFiniteSet(1 .. n) /\ Cardinality(1 .. n) = n
    BY FS_Interval
  <2> HIDE DEF I
  <2> QED  BY <2>2, <2>3, FS_Surjection
<1>6. k = n
  <2>1. IsFiniteSet(1 .. Blocks) /\ Cardinality(1 .. Blocks) = Blocks
    BY <1>3, FS_Interval
  <2>2. H \subseteq 1 .. Blocks /\ IsFiniteSet(H) /\ H = 1 .. Blocks \cap H
    BY <2>1, FS_Subset, Zenon
  <2>3. Cardinality(1 .. Blocks \ H) = Cardinality(1 .. Blocks) - Cardinality(1 .. Blocks \cap H)
    BY <2>1, FS_Difference, Zenon
  <2>4. Cardinality(H) \in Nat
    BY <2>2, FS_CardinalityType
  <2> HIDE DEF I
  <2> QED  BY <1>3, <1>4, <1>5, <2>1, <2>2, <2>3, <2>4, Zenon
<1> HIDE DEF I
<1> DEFINE step(w) == [i \in 0 .. k |-> IF i = 0 THEN free
                                        ELSE IF w[i - 1] \in 1 .. Blocks THEN pool[w[i - 1]] ELSE Null]
           path == [i \in 0 .. n |-> IF i = n THEN Null ELSE s[i + 1]]
           way == CHOOSE w : w = step(w)
<1>7. path = step(path)
  <2> SUFFICES ASSUME NEW i \in 0 .. n
               PROVE  path[i] = IF i = 0 THEN free
                                ELSE IF path[i - 1] \in 1 .. Blocks THEN pool[path[i - 1]] ELSE Null
    BY <1>6
  <2>1. CASE i = 0
    BY <1>2, <2>1 DEF Chain
  <2>2. CASE i # 0
    <3>1. i \in 1 .. n /\ i - 1 \in 0 .. n /\ i - 1 # n /\ (i - 1) + 1 = i
      BY <2>2
    <3>2. path[i - 1] = s[i] /\ s[i] \in 1 .. Blocks /\ pool[s[i]] = IF i = n THEN Null ELSE s[i + 1]
      BY <1>2, <3>1 DEF Chain
    <3> QED  BY <2>2, <3>2
  <2> QED  BY <2>1, <2>2
<1> HIDE DEF path
<1>8. way = step(way)
  <2> HIDE DEF step
  <2> QED  BY <1>7, Zenon
<1>9. PICK w : w = way
  OBVIOUS
<1>10. w[n] = Null /\ \A i \in 0 .. n - 1 : w[i] = s[i + 1]
  <2>1. w = [i \in 0 .. n |-> IF i = 0 THEN free
                                  ELSE IF w[i - 1] \in 1 .. Blocks THEN pool[w[i - 1]] ELSE Null]
    <3>1. w = step(w)
      BY <1>8, <1>9, Zenon
    <3> QED  BY <1>6, <3>1, Zenon
  <2> QED  BY <1>2, <2>1, ChainWalk
<1>11. {w[i] : i \in 0 .. n - 1} = I
  <2>1. ASSUME NEW i \in 0 .. n - 1 PROVE w[i] \in I
    <3>1. i + 1 \in 1 .. n
      OBVIOUS
    <3> QED  BY <1>10, <3>1 DEF I
  <2>2. ASSUME NEW i \in 1 .. n PROVE \E j \in 0 .. n - 1 : w[j] = s[i]
    <3>1. i - 1 \in 0 .. n - 1 /\ (i - 1) + 1 = i
      OBVIOUS
    <3> QED  BY <1>10, <3>1
  <2> QED  BY <2>1, <2>2 DEF I
<1>12. w[k] = Null /\ {w[i] : i \in 0 .. k - 1} = 1 .. Blocks \ H
  BY <1>4, <1>6, <1>10, <1>11, Zenon
<1>13. LET walk[i \in 0 .. k] == IF i = 0 THEN free
                                 ELSE IF walk[i - 1] \in 1 .. Blocks THEN pool[walk[i - 1]] ELSE Null
       IN walk[k] = Null /\ {walk[i] : i \in 0 .. k - 1} = 1 .. Blocks \ H
  BY <1>9, <1>12, ZenonT(60)
<1> QED  BY <1>13, Zenon DEF Accounts

Pool == [1 .. Blocks -> Link \cup {Data}]
Allocator == [pool : Link, free : Link]

(* v has the pool at address a *)
Owns(v, a) == obj[v] # Absent /\ obj[v].pool = a

PoolTypeOK == obj \in [Vec -> Allocator \cup {Absent}] /\ mem \in Memory(Pool)

OneAllocatorEach ==
  /\ \A v \in Vec : obj[v] # Absent => obj[v].pool \in DOMAIN mem.heap \/ obj[v] = P!Emptied
  /\ \A v, w \in Vec : \A a \in DOMAIN mem.heap : Owns(v, a) /\ Owns(w, a) => v = w
  /\ \A a \in DOMAIN mem.heap : \E v \in Vec : Owns(v, a) /\ Listed(mem.heap[a], obj[v].free)

PoolOK == PoolTypeOK /\ OneAllocatorEach

LEMMA PoolConstants ==
  /\ Blocks \in Nat \ {0} /\ Null \notin Nat /\ Data \notin Nat \cup {Null} /\ Absent \notin Allocator
  /\ P!Emptied \in Allocator /\ P!Emptied.pool = Null /\ P!Emptied.free = Null /\ P!Emptied # Absent
  /\ Address \subseteq Link /\ Null \notin Address
BY SingleThreadedAssumption DEF Address, Allocator, Link, P!Emptied

LEMMA ListedType ==
  ASSUME NEW pool, NEW free, Listed(pool, free)
  PROVE  pool \in Pool /\ free \in Link
<1>1. PICK n \in Nat : \E s : Chain(pool, free, n, s)
  BY DEF Listed
<1>2. PICK s : Chain(pool, free, n, s)
  BY <1>1
<1>3. n # 0 => 1 \in 1 .. n /\ s[1] \in Nat
  BY <1>2, PoolConstants DEF Chain
<1> QED  BY <1>2, <1>3 DEF Chain, Link, Pool

LEMMA PoolInit == P!Init => PoolOK
<1> SUFFICES ASSUME P!Init PROVE PoolOK
  OBVIOUS
<1>1. obj = [v \in Vec |-> Absent] /\ mem = [heap |-> [a \in {} |-> Null], sound |-> TRUE]
  BY DEF P!Init
<1>2. mem \in Memory(Pool) /\ mem.heap = [a \in {} |-> Null]
  BY <1>1, HeapEmpty, MemoryIs
<1> QED  BY <1>1, <1>2 DEF PoolOK, PoolTypeOK, OneAllocatorEach

LEMMA PoolCtor ==
  ASSUME PoolOK, NEW v \in Vec, P!Ctor(v)
  PROVE  PoolOK'
<1>1. PICK a : a = P!New
  OBVIOUS
<1>2. PICK pool : pool = P!NewPool
  OBVIOUS
<1>3. Listed(pool, 1) /\ pool \in Pool
  BY <1>2, NewChain, ListedType
<1>4. mem \in Memory(Pool) /\ mem.heap \in Heaps(Pool)
  BY Zenon DEF PoolOK, PoolTypeOK, Memory
<1>5. a \in Address /\ a \notin DOMAIN mem.heap
  <2>1. a = NewAddress(mem.heap)
    BY <1>1 DEF P!New, P!NewAddress, P!Cardinality, NewAddress, Cardinality
  <2> QED  BY <1>4, <2>1, NewIsFree
<1>6. PICK h : h = With(mem.heap, a, pool)
  OBVIOUS
<1>7. /\ h \in Heaps(Pool) /\ DOMAIN h = DOMAIN mem.heap \cup {a} /\ h[a] = pool
      /\ \A b \in DOMAIN mem.heap : h[b] = mem.heap[b]
  <2>1. Grown(Pool, mem.heap, a, pool, h)
    BY <1>3, <1>4, <1>5, <1>6, HeapWith
  <2> QED  BY <1>5, <2>1 DEF Grown
<1> DEFINE new == [pool |-> a, free |-> 1]
<1>8. obj[v] = Absent /\ obj' = [obj EXCEPT ![v] = new] /\ mem' = [mem EXCEPT !.heap = h]
  BY <1>1, <1>2, <1>6 DEF P!Ctor, P!InScope, P!With, With
<1>9. mem' \in Memory(Pool) /\ mem'.heap = h
  BY <1>4, <1>7, <1>8, MemoryReplaced
<1>10. new \in Allocator /\ new # Absent /\ new.pool = a /\ new.free = 1
  BY <1>5, PoolConstants DEF Allocator, Link, Address
<1> HIDE DEF new
<1>11. /\ obj' \in [Vec -> Allocator \cup {Absent}] /\ obj'[v] = new
       /\ \A w \in Vec : w # v => obj'[w] = obj[w]
  BY <1>8, <1>10 DEF PoolOK, PoolTypeOK
<1>12. \A w \in Vec : obj[w] # Absent => obj[w].pool # a
  BY <1>5, PoolConstants DEF PoolOK, OneAllocatorEach
<1>13. ASSUME NEW w \in Vec, obj'[w] # Absent
       PROVE  obj'[w].pool \in DOMAIN mem'.heap \/ obj'[w] = P!Emptied
  BY <1>7, <1>9, <1>10, <1>11, <1>13 DEF PoolOK, OneAllocatorEach
<1>14. ASSUME NEW u \in Vec, NEW w \in Vec, NEW b \in DOMAIN mem'.heap,
              obj'[u] # Absent, obj'[u].pool = b, obj'[w] # Absent, obj'[w].pool = b
       PROVE  u = w
  <2>1. CASE b = a
    BY <1>11, <1>12, <1>14, <2>1
  <2>2. CASE b # a
    <3>1. u # v /\ w # v /\ b \in DOMAIN mem.heap
      BY <1>7, <1>9, <1>10, <1>11, <1>14, <2>2
    <3> QED  BY <1>11, <1>14, <3>1 DEF PoolOK, OneAllocatorEach, Owns
  <2> QED  BY <2>1, <2>2
<1>15. ASSUME NEW b \in DOMAIN mem'.heap
       PROVE  \E w \in Vec : /\ obj'[w] # Absent /\ obj'[w].pool = b
                             /\ Listed(mem'.heap[b], obj'[w].free)
  <2>1. CASE b = a
    BY <1>3, <1>7, <1>9, <1>10, <1>11, <2>1
  <2>2. CASE b # a
    <3>1. b \in DOMAIN mem.heap
      BY <1>7, <1>9, <2>2
    <3>2. PICK w \in Vec : obj[w] # Absent /\ obj[w].pool = b /\ Listed(mem.heap[b], obj[w].free)
      BY <3>1 DEF PoolOK, OneAllocatorEach, Owns
    <3>3. obj'[w] = obj[w] /\ mem'.heap[b] = mem.heap[b]
      BY <1>7, <1>8, <1>9, <1>11, <3>1, <3>2
    <3> QED  BY <3>2, <3>3
  <2> QED  BY <2>1, <2>2
<1> QED  BY <1>9, <1>11, <1>13, <1>14, <1>15 DEF PoolOK, PoolTypeOK, OneAllocatorEach, Owns

(* the operator delete of the pool of a variable, if it has one *)
LEMMA PoolDeleted ==
  ASSUME PoolOK, NEW v \in Vec, obj[v] # Absent, NEW m, m = P!deleted(obj[v].pool)
  PROVE  /\ m \in Memory(Pool) /\ DOMAIN m.heap = DOMAIN mem.heap \ {obj[v].pool}
         /\ \A b \in DOMAIN m.heap : m.heap[b] = mem.heap[b]
<1>1. mem \in Memory(Pool) /\ mem.heap \in Heaps(Pool) /\ mem.sound = TRUE
  BY Zenon DEF PoolOK, PoolTypeOK, Memory
<1>2. obj[v].pool \in DOMAIN mem.heap \/ obj[v].pool = Null
  BY PoolConstants DEF PoolOK, OneAllocatorEach
<1>3. CASE obj[v].pool = Null
  <2>1. DOMAIN mem.heap \subseteq Address
    BY <1>1, HeapType
  <2> QED  BY <1>1, <1>3, <2>1, PoolConstants DEF P!deleted
<1>4. CASE obj[v].pool # Null
  <2>1. PICK h : h = Without(mem.heap, {obj[v].pool})
    OBVIOUS
  <2>2. m = [heap |-> h, sound |-> TRUE]
    BY <1>1, <1>2, <1>4, <2>1, Zenon DEF P!deleted, P!Without, Without
  <2>3. /\ h \in Heaps(Pool) /\ DOMAIN h = DOMAIN mem.heap \ {obj[v].pool}
        /\ \A b \in DOMAIN h : h[b] = mem.heap[b]
    <3>1. Shrunk(Pool, mem.heap, {obj[v].pool}, h)
      BY <1>1, <2>1, HeapWithout
    <3> QED  BY <3>1 DEF Shrunk
  <2>4. m \in Memory(Pool) /\ m.heap = h
    BY <2>2, <2>3, MemoryIs
  <2> QED  BY <2>3, <2>4
<1> QED  BY <1>3, <1>4

LEMMA PoolDestructor ==
  ASSUME PoolOK, NEW v \in Vec, P!Destructor(v)
  PROVE  PoolOK'
<1>1. obj[v] # Absent /\ mem' = P!deleted(obj[v].pool) /\ obj' = [obj EXCEPT ![v] = Absent]
  BY DEF P!Destructor, P!InScope
<1>2. /\ mem' \in Memory(Pool) /\ DOMAIN mem'.heap = DOMAIN mem.heap \ {obj[v].pool}
      /\ \A b \in DOMAIN mem'.heap : mem'.heap[b] = mem.heap[b]
  BY <1>1, PoolDeleted
<1>3. /\ obj' \in [Vec -> Allocator \cup {Absent}] /\ obj'[v] = Absent
      /\ \A w \in Vec : w # v => obj'[w] = obj[w]
  BY <1>1 DEF PoolOK, PoolTypeOK
<1>4. ASSUME NEW w \in Vec, obj'[w] # Absent
      PROVE  obj'[w].pool \in DOMAIN mem'.heap \/ obj'[w] = P!Emptied
  BY <1>1, <1>2, <1>3, <1>4 DEF PoolOK, OneAllocatorEach, Owns
<1>5. ASSUME NEW u \in Vec, NEW w \in Vec, NEW b \in DOMAIN mem'.heap,
             obj'[u] # Absent, obj'[u].pool = b, obj'[w] # Absent, obj'[w].pool = b
      PROVE  u = w
  BY <1>2, <1>3, <1>5 DEF PoolOK, OneAllocatorEach, Owns
<1>6. ASSUME NEW b \in DOMAIN mem'.heap
      PROVE  \E w \in Vec : /\ obj'[w] # Absent /\ obj'[w].pool = b
                            /\ Listed(mem'.heap[b], obj'[w].free)
  <2>1. PICK w \in Vec : obj[w] # Absent /\ obj[w].pool = b /\ Listed(mem.heap[b], obj[w].free)
    BY <1>2 DEF PoolOK, OneAllocatorEach, Owns
  <2>2. w # v
    BY <1>2, <2>1
  <2> QED  BY <1>2, <1>3, <2>1, <2>2
<1> QED  BY <1>2, <1>3, <1>4, <1>5, <1>6 DEF PoolOK, PoolTypeOK, OneAllocatorEach, Owns

(* a move: the pool of w becomes that of v, and what v had is deleted *)
LEMMA PoolTaken ==
  ASSUME PoolOK, NEW v \in Vec, NEW w \in Vec, v # w, obj[w] # Absent, P!Take(v, w),
         \/ obj[v] = Absent /\ mem' = mem
         \/ obj[v] # Absent /\ mem' = P!deleted(obj[v].pool)
  PROVE  PoolOK'
<1>1. /\ obj' = [obj EXCEPT ![v] = obj[w], ![w] = P!Emptied] /\ obj \in [Vec -> Allocator \cup {Absent}]
  BY DEF P!Take, P!Left, PoolOK, PoolTypeOK
<1>2. /\ obj' \in [Vec -> Allocator \cup {Absent}] /\ obj'[v] = obj[w] /\ obj'[w] = P!Emptied
      /\ \A u \in Vec : u # v /\ u # w => obj'[u] = obj[u]
  BY <1>1, PoolConstants
<1>3. /\ mem' \in Memory(Pool) /\ DOMAIN mem'.heap \subseteq DOMAIN mem.heap
      /\ \A b \in DOMAIN mem'.heap : mem'.heap[b] = mem.heap[b]
      /\ obj[v] # Absent => DOMAIN mem'.heap = DOMAIN mem.heap \ {obj[v].pool}
      /\ obj[v] = Absent => mem' = mem
  BY PoolDeleted DEF PoolOK, PoolTypeOK
<1>4. /\ DOMAIN mem.heap \subseteq Address /\ Null \notin DOMAIN mem'.heap
  <2>1. mem.heap \in Heaps(Pool)
    BY DEF PoolOK, PoolTypeOK, Memory
  <2> QED  BY <1>3, <2>1, HeapType, PoolConstants
<1>5. ASSUME NEW u \in Vec, obj[u] # Absent, obj[u].pool \in DOMAIN mem.heap, u # v
      PROVE  obj[u].pool \in DOMAIN mem'.heap
  BY <1>3, <1>5 DEF PoolOK, OneAllocatorEach, Owns
<1>6. ASSUME NEW u \in Vec, obj'[u] # Absent
      PROVE  obj'[u].pool \in DOMAIN mem'.heap \/ obj'[u] = P!Emptied
  BY <1>2, <1>5, <1>6 DEF PoolOK, OneAllocatorEach
<1>7. ASSUME NEW t \in Vec, NEW u \in Vec, NEW b \in DOMAIN mem'.heap,
             obj'[t] # Absent, obj'[t].pool = b, obj'[u] # Absent, obj'[u].pool = b
      PROVE  t = u
  <2>1. t # w /\ u # w
    BY <1>2, <1>4, <1>7, PoolConstants
  <2>2. b \in DOMAIN mem.heap
    BY <1>3
  <2> QED  BY <1>2, <1>7, <2>1, <2>2 DEF PoolOK, OneAllocatorEach, Owns
<1>8. ASSUME NEW b \in DOMAIN mem'.heap
      PROVE  \E u \in Vec : /\ obj'[u] # Absent /\ obj'[u].pool = b
                            /\ Listed(mem'.heap[b], obj'[u].free)
  <2>1. PICK u \in Vec : obj[u] # Absent /\ obj[u].pool = b /\ Listed(mem.heap[b], obj[u].free)
    BY <1>3 DEF PoolOK, OneAllocatorEach, Owns
  <2>2. u # v
    BY <1>3, <2>1
  <2>3. CASE u = w
    BY <1>2, <1>3, <2>1, <2>3
  <2>4. CASE u # w
    BY <1>2, <1>3, <2>1, <2>2, <2>4
  <2> QED  BY <2>3, <2>4
<1> QED  BY <1>2, <1>3, <1>6, <1>7, <1>8 DEF PoolOK, PoolTypeOK, OneAllocatorEach, Owns

(* one pool and its free list change: allocate and deallocate *)
LEMMA PoolChanged ==
  ASSUME PoolOK, NEW v \in Vec, obj[v] # Absent, NEW a, a = obj[v].pool, a \in DOMAIN mem.heap,
         NEW pool, NEW free, Listed(pool, free),
         obj' = [obj EXCEPT ![v].free = free], mem' = [mem EXCEPT !.heap = [mem.heap EXCEPT ![a] = pool]]
  PROVE  PoolOK'
<1>1. mem \in Memory(Pool) /\ mem.heap \in Heaps(Pool) /\ pool \in Pool /\ free \in Link
  BY ListedType, Zenon DEF PoolOK, PoolTypeOK, Memory
<1>2. PICK h : h = [mem.heap EXCEPT ![a] = pool]
  BY Zenon
<1>3. /\ h \in Heaps(Pool) /\ DOMAIN h = DOMAIN mem.heap /\ h[a] = pool
      /\ \A b \in DOMAIN mem.heap : b # a => h[b] = mem.heap[b]
  <2>1. Changed(Pool, mem.heap, a, pool, h)
    BY <1>1, <1>2, HeapChanged
  <2> QED  BY <2>1 DEF Changed
<1>4. mem' \in Memory(Pool) /\ mem'.heap = h
  <2>1. mem' = [mem EXCEPT !.heap = h]
    BY <1>2
  <2>2. mem \in Memory(Pool) /\ h \in Heaps(Pool)
    BY <1>1, <1>3
  <2>3. PICK m : m = mem'
    OBVIOUS
  <2>4. m = [mem EXCEPT !.heap = h]
    BY <2>1, <2>3
  <2> HIDE <1>1, <1>2, <1>3
  <2>5. m \in Memory(Pool) /\ m.heap = h
    BY <2>2, <2>4, MemoryReplaced
  <2> QED  BY <2>3, <2>5
<1>5. obj[v] \in Allocator /\ obj \in [Vec -> Allocator \cup {Absent}]
  BY DEF PoolOK, PoolTypeOK
<1>6. PICK new : new = [obj[v] EXCEPT !.free = free]
  BY Zenon
<1>7. new \in Allocator /\ new.pool = a /\ new.free = free /\ new # Absent
  BY <1>1, <1>5, <1>6, PoolConstants DEF Allocator
<1>8. obj' = [obj EXCEPT ![v] = new]
  BY <1>6
<1>9. /\ obj' \in [Vec -> Allocator \cup {Absent}] /\ obj'[v] = new
      /\ \A u \in Vec : u # v => obj'[u] = obj[u]
  BY <1>5, <1>7, <1>8
<1>10. ASSUME NEW u \in Vec, obj'[u] # Absent
       PROVE  obj'[u].pool \in DOMAIN mem'.heap \/ obj'[u] = P!Emptied
  BY <1>3, <1>4, <1>7, <1>9, <1>10 DEF PoolOK, OneAllocatorEach
<1>11. ASSUME NEW t \in Vec, NEW u \in Vec, NEW b \in DOMAIN mem'.heap,
              obj'[t] # Absent, obj'[t].pool = b, obj'[u] # Absent, obj'[u].pool = b
       PROVE  t = u
  <2>1. obj[t] # Absent /\ obj[t].pool = b /\ obj[u] # Absent /\ obj[u].pool = b /\ b \in DOMAIN mem.heap
    BY <1>3, <1>4, <1>7, <1>9, <1>11
  <2> QED  BY <2>1 DEF PoolOK, OneAllocatorEach, Owns
<1>12. ASSUME NEW b \in DOMAIN mem'.heap
       PROVE  \E u \in Vec : /\ obj'[u] # Absent /\ obj'[u].pool = b
                             /\ Listed(mem'.heap[b], obj'[u].free)
  <2>1. CASE b = a
    BY <1>3, <1>4, <1>7, <1>9, <2>1
  <2>2. CASE b # a
    <3>1. PICK u \in Vec : obj[u] # Absent /\ obj[u].pool = b /\ Listed(mem.heap[b], obj[u].free)
      BY <1>3, <1>4 DEF PoolOK, OneAllocatorEach, Owns
    <3>2. u # v
      BY <2>2, <3>1
    <3> QED  BY <1>3, <1>4, <1>9, <2>2, <3>1, <3>2
  <2> QED  BY <2>1, <2>2
<1> QED  BY <1>4, <1>9, <1>10, <1>11, <1>12 DEF PoolOK, PoolTypeOK, OneAllocatorEach, Owns

LEMMA PoolNext ==
  ASSUME PoolOK, P!Next
  PROVE  PoolOK'
<1> PICK v \in Vec : \/ P!Ctor(v) \/ P!Destructor(v) \/ P!allocate(v)
                     \/ \E p \in P!Held(v) : P!deallocate(v, p)
                     \/ \E w \in Vec : P!MoveCtor(v, w) \/ P!MoveAssign(v, w)
  BY DEF P!Next
<1>1. CASE P!Ctor(v)
  BY <1>1, PoolCtor
<1>2. CASE P!Destructor(v)
  BY <1>2, PoolDestructor
<1>3. CASE P!allocate(v)
  <2>1. PICK a : a = obj[v].pool
    OBVIOUS
  <2>2. PICK free : free = obj[v].free
    OBVIOUS
  <2>3. obj[v] # Absent /\ free # Null
    BY <1>3, <2>2 DEF P!allocate, P!InScope
  <2>4. a \in DOMAIN mem.heap
    BY <2>1, <2>2, <2>3, PoolConstants DEF PoolOK, OneAllocatorEach
  <2>5. PICK pool : pool = mem.heap[a]
    OBVIOUS
  <2>6. Listed(pool, free)
    BY <2>1, <2>2, <2>3, <2>4, <2>5 DEF PoolOK, OneAllocatorEach, Owns
  <2>7. /\ obj' = [obj EXCEPT ![v].free = pool[free]]
        /\ mem' = [mem EXCEPT !.heap = [mem.heap EXCEPT ![a] = [pool EXCEPT ![free] = Data]]]
    <3>1. obj' = [obj EXCEPT ![v].free = pool[free]]
      BY <1>3, <2>1, <2>2, <2>5 DEF P!allocate
    <3>2. mem' = [mem EXCEPT !.heap[a][free] = Data]
      BY <1>3, <2>1, <2>2 DEF P!allocate
    <3>3. mem' = [mem EXCEPT !.heap = [mem.heap EXCEPT ![a] = [mem.heap[a] EXCEPT ![free] = Data]]]
      BY <3>2
    <3> QED  BY <2>5, <3>1, <3>3
  <2>8. Listed([pool EXCEPT ![free] = Data], pool[free])
    BY <2>3, <2>6, ChainTaken
  <2> QED  BY <2>1, <2>3, <2>4, <2>7, <2>8, PoolChanged, Zenon
<1>4. CASE \E p \in P!Held(v) : P!deallocate(v, p)
  <2>1. PICK p \in P!Held(v) : P!deallocate(v, p)
    BY <1>4
  <2>2. PICK a : a = obj[v].pool
    OBVIOUS
  <2>3. PICK free : free = obj[v].free
    OBVIOUS
  <2>4. PICK pool : pool = mem.heap[a]
    OBVIOUS
  <2>5. obj[v] # Absent /\ a # Null /\ p \in 1 .. Blocks /\ pool[p] = Data
    BY <2>2, <2>4 DEF P!Held, P!InScope
  <2>6. a \in DOMAIN mem.heap
    BY <2>2, <2>5, PoolConstants DEF PoolOK, OneAllocatorEach
  <2>7. Listed(pool, free)
    BY <2>2, <2>3, <2>4, <2>5, <2>6 DEF PoolOK, OneAllocatorEach, Owns
  <2>8. /\ obj' = [obj EXCEPT ![v].free = p]
        /\ mem' = [mem EXCEPT !.heap = [mem.heap EXCEPT ![a] = [pool EXCEPT ![p] = free]]]
    <3>1. obj' = [obj EXCEPT ![v].free = p]
      BY <2>1 DEF P!deallocate
    <3>2. mem' = [mem EXCEPT !.heap[a][p] = free]
      BY <2>1, <2>2, <2>3 DEF P!deallocate, P!Link
    <3>3. mem' = [mem EXCEPT !.heap = [mem.heap EXCEPT ![a] = [mem.heap[a] EXCEPT ![p] = free]]]
      BY <3>2
    <3> QED  BY <2>4, <3>1, <3>3
  <2>9. Listed([pool EXCEPT ![p] = free], p)
    BY <2>5, <2>7, ChainPut
  <2> QED  BY <2>2, <2>5, <2>6, <2>8, <2>9, PoolChanged, Zenon
<1>5. CASE \E w \in Vec : P!MoveCtor(v, w) \/ P!MoveAssign(v, w)
  <2>1. PICK w \in Vec : P!MoveCtor(v, w) \/ P!MoveAssign(v, w)
    BY <1>5
  <2>2. CASE P!MoveCtor(v, w)
    <3>1. obj[v] = Absent /\ obj[w] # Absent /\ P!Take(v, w) /\ mem' = mem
      BY <2>2 DEF P!MoveCtor, P!InScope
    <3> QED  BY <3>1, PoolTaken
  <2>3. CASE P!MoveAssign(v, w)
    <3>1. v # w /\ obj[v] # Absent /\ obj[w] # Absent /\ P!Take(v, w) /\ mem' = P!deleted(obj[v].pool)
      BY <2>3 DEF P!MoveAssign, P!InScope
    <3> QED  BY <3>1, PoolTaken
  <2> QED  BY <2>1, <2>2, <2>3
<1> QED  BY <1>1, <1>2, <1>3, <1>4, <1>5

LEMMA PoolImplies ==
  ASSUME PoolOK
  PROVE  P!BlocksAccounted
<1> DEFINE owners == {v \in Vec : P!InScope(v) /\ obj[v].pool # Null}
<1>1. mem \in Memory(Pool) /\ mem.heap \in Heaps(Pool) /\ mem.sound = TRUE
  BY Zenon DEF PoolOK, PoolTypeOK, Memory
<1>2. DOMAIN mem.heap \subseteq Address /\ Null \notin DOMAIN mem.heap
  BY <1>1, HeapType, PoolConstants
<1>3. \A v \in owners : v \in Vec /\ obj[v] # Absent /\ obj[v].pool \in DOMAIN mem.heap
  BY PoolConstants DEF PoolOK, OneAllocatorEach, P!InScope
<1>4. DOMAIN mem.heap = {obj[v].pool : v \in owners}
  <2>1. ASSUME NEW a \in DOMAIN mem.heap PROVE \E v \in owners : obj[v].pool = a
    BY <1>2 DEF PoolOK, OneAllocatorEach, Owns, P!InScope
  <2> HIDE DEF owners
  <2> QED  BY <1>3, <2>1
<1>5. \A v, w \in owners : obj[v].pool = obj[w].pool => v = w
  BY <1>3 DEF PoolOK, OneAllocatorEach, Owns
<1>6. \A v \in {u \in Vec : P!InScope(u)} \ owners : obj[v].free = Null
  BY <1>2, PoolConstants DEF PoolOK, OneAllocatorEach, P!InScope
<1>7. ASSUME NEW v \in owners
      PROVE  LET pool == mem.heap[obj[v].pool]
                 n == Blocks - P!Cardinality(P!Held(v))
                 walk[i \in 0 .. n] == IF i = 0 THEN obj[v].free
                                       ELSE IF walk[i - 1] \in 1 .. Blocks THEN pool[walk[i - 1]] ELSE Null
             IN walk[n] = Null /\ {walk[i] : i \in 0 .. n - 1} = 1 .. Blocks \ P!Held(v)
  <2>1. PICK pool : pool = mem.heap[obj[v].pool]
    OBVIOUS
  <2>2. PICK free : free = obj[v].free
    OBVIOUS
  <2>3. Listed(pool, free)
    BY <1>3, <2>1, <2>2 DEF PoolOK, OneAllocatorEach, Owns
  <2>4. PICK H : H = P!Held(v)
    OBVIOUS
  <2>5. H = {p \in 1 .. Blocks : pool[p] = Data}
    BY <2>1, <2>4 DEF P!Held, P!InScope
  <2>6. PICK k : k = Blocks - Cardinality(H)
    OBVIOUS
  <2>7. Cardinality(H) = P!Cardinality(P!Held(v))
    BY <2>4 DEF P!Cardinality, Cardinality
  <2>8. k = Blocks - P!Cardinality(P!Held(v))
    BY <2>6, <2>7
  <2>9. Accounts(pool, free, k, H)
    BY <2>3, <2>5, <2>6, ChainAccounts
  <2>10. Accounts(mem.heap[obj[v].pool], obj[v].free, Blocks - P!Cardinality(P!Held(v)), P!Held(v))
    BY <2>1, <2>2, <2>4, <2>8, <2>9, Zenon
  <2> QED  BY <2>10 DEF Accounts
<1> HIDE DEF owners
<1> QED  BY <1>1, <1>4, <1>5, <1>6, <1>7, Zenon DEF P!BlocksAccounted, owners

-----------------------------------------------------------------------------
(* Each variable v has the record s[v], of T, which leads by p to a cell   *)
(* of its own in the heap h, or to none; a record and its cell are a pair  *)
(* of R.  What the calls of the classes do to records and cells keeps this.*)
Storage(T, N, p, R, s, h) ==
  /\ s \in [Vec -> T] /\ h \in Heaps(N) /\ p \in [T -> Address \cup {Null}]
  /\ \A v \in Vec : p[s[v]] # Null => p[s[v]] \in DOMAIN h /\ <<s[v], h[p[s[v]]]>> \in R
  /\ \A a \in DOMAIN h : \E v \in Vec : p[s[v]] = a
  /\ \A v, w \in Vec : p[s[v]] # Null /\ p[s[v]] = p[s[w]] => v = w

LEMMA NullIsNoAddress == Null \notin Address
BY SingleThreadedAssumption DEF Address

LEMMA StorageInit ==
  ASSUME NEW T, NEW N, NEW p \in [T -> Address \cup {Null}], NEW R, NEW r \in T, p[r] = Null, NEW x,
         NEW s, s = [v \in Vec |-> r], NEW h, h = [a \in {} |-> x]
  PROVE  Storage(T, N, p, R, s, h)
<1>1. h \in Heaps(N) /\ DOMAIN h = {}
  BY HeapEmpty
<1> QED  BY <1>1 DEF Storage

(* the record of v changes, its cell, if any, does not *)
LEMMA StorageKept ==
  ASSUME NEW T, NEW N, NEW p, NEW R, NEW s, NEW h, Storage(T, N, p, R, s, h),
         NEW v \in Vec, NEW r \in T, p[r] = p[s[v]], p[r] # Null => <<r, h[p[r]]>> \in R,
         NEW t, t = [s EXCEPT ![v] = r]
  PROVE  Storage(T, N, p, R, t, h)
<1>1. t \in [Vec -> T] /\ \A u \in Vec : t[u] = IF u = v THEN r ELSE s[u]
  BY DEF Storage
<1>2. \A u \in Vec : p[t[u]] = p[s[u]]
  BY <1>1
<1>3. ASSUME NEW u \in Vec, p[t[u]] # Null PROVE p[t[u]] \in DOMAIN h /\ <<t[u], h[p[t[u]]]>> \in R
  BY <1>1, <1>3, Zenon DEF Storage
<1> QED  BY <1>1, <1>2, <1>3 DEF Storage

Free(p, s, v) == p[s[v]] = Null

(* v gets a new cell *)
LEMMA StorageNew ==
  ASSUME NEW T, NEW N, NEW p, NEW R, NEW s, NEW h, Storage(T, N, p, R, s, h),
         NEW v \in Vec, Free(p, s, v), NEW r \in T, NEW a \in Address, a \notin DOMAIN h, p[r] = a,
         NEW x \in N, <<r, x>> \in R, NEW t, t = [s EXCEPT ![v] = r], NEW g, g = With(h, a, x)
  PROVE  Storage(T, N, p, R, t, g)
<1>0. p[s[v]] = Null
  BY DEF Free
<1>1. t \in [Vec -> T] /\ \A u \in Vec : t[u] = IF u = v THEN r ELSE s[u]
  BY DEF Storage
<1>2. Grown(N, h, a, x, g)
  BY HeapWith DEF Storage
<1> HIDE DEF Free
<1>3. ASSUME NEW u \in Vec, p[t[u]] # Null PROVE p[t[u]] \in DOMAIN g /\ <<t[u], g[p[t[u]]]>> \in R
  BY <1>1, <1>2, <1>3, Zenon DEF Storage, Grown
<1>4. ASSUME NEW b \in DOMAIN g PROVE \E u \in Vec : p[t[u]] = b
  <2>1. CASE b = a
    BY <1>1, <2>1
  <2>2. CASE b # a
    <3>1. b \in DOMAIN h /\ b # Null
      BY <1>2, <2>2, HeapType, NullIsNoAddress DEF Storage, Grown
    <3>2. PICK u \in Vec : p[s[u]] = b
      BY <3>1 DEF Storage
    <3>3. u # v
      BY <1>0, <3>1, <3>2
    <3> QED  BY <1>1, <3>2, <3>3
  <2> QED  BY <2>1, <2>2
<1>5. ASSUME NEW u \in Vec, NEW w \in Vec, p[t[u]] # Null, p[t[u]] = p[t[w]] PROVE u = w
  BY <1>1, <1>5, Zenon DEF Storage
<1>6. t \in [Vec -> T] /\ g \in Heaps(N) /\ p \in [T -> Address \cup {Null}]
  BY <1>1, <1>2 DEF Storage, Grown
<1> QED  BY <1>3, <1>4, <1>5, <1>6 DEF Storage

(* v loses its cell, if it has one *)
LEMMA StorageGone ==
  ASSUME NEW T, NEW N, NEW p, NEW R, NEW s, NEW h, Storage(T, N, p, R, s, h),
         NEW v \in Vec, NEW r \in T, p[r] = Null,
         NEW t, t = [s EXCEPT ![v] = r], NEW g, g = Without(h, {p[s[v]]})
  PROVE  Storage(T, N, p, R, t, g)
<1>1. t \in [Vec -> T] /\ \A u \in Vec : t[u] = IF u = v THEN r ELSE s[u]
  BY DEF Storage
<1>2. Shrunk(N, h, {p[s[v]]}, g)
  BY HeapWithout DEF Storage
<1>3. ASSUME NEW u \in Vec, p[t[u]] # Null PROVE p[t[u]] \in DOMAIN g /\ <<t[u], g[p[t[u]]]>> \in R
  <2>1. u # v /\ t[u] = s[u]
    BY <1>1, <1>3
  <2>2. p[s[u]] \in DOMAIN h /\ <<s[u], h[p[s[u]]]>> \in R /\ p[s[u]] # p[s[v]]
    BY <1>3, <2>1 DEF Storage
  <2> QED  BY <1>2, <2>1, <2>2 DEF Shrunk
<1>4. ASSUME NEW b \in DOMAIN g PROVE \E u \in Vec : p[t[u]] = b
  <2>1. b \in DOMAIN h /\ b # p[s[v]]
    BY <1>2 DEF Shrunk
  <2>2. PICK u \in Vec : p[s[u]] = b
    BY <2>1 DEF Storage
  <2> QED  BY <1>1, <2>1, <2>2
<1>5. ASSUME NEW u \in Vec, NEW w \in Vec, p[t[u]] # Null, p[t[u]] = p[t[w]] PROVE u = w
  BY <1>1, <1>5 DEF Storage
<1>6. t \in [Vec -> T] /\ g \in Heaps(N) /\ p \in [T -> Address \cup {Null}]
  BY <1>1, <1>2 DEF Storage, Shrunk
<1> QED  BY <1>3, <1>4, <1>5, <1>6, Zenon DEF Storage

(* v gets a new cell, and then the one it had goes *)
LEMMA StorageReplaced ==
  ASSUME NEW T, NEW N, NEW p, NEW R, NEW s, NEW h, Storage(T, N, p, R, s, h),
         NEW v \in Vec, NEW r \in T, NEW a \in Address, a \notin DOMAIN h, p[r] = a,
         NEW x \in N, <<r, x>> \in R, NEW t, t = [s EXCEPT ![v] = r],
         NEW f, f = With(h, a, x), NEW g, g = Without(f, {p[s[v]]})
  PROVE  Storage(T, N, p, R, t, g)
<1>1. t \in [Vec -> T] /\ \A u \in Vec : t[u] = IF u = v THEN r ELSE s[u]
  BY DEF Storage
<1>2. Grown(N, h, a, x, f)
  BY HeapWith DEF Storage
<1>3. Shrunk(N, f, {p[s[v]]}, g)
  BY <1>2, HeapWithout DEF Grown
<1>4. DOMAIN h \subseteq Address /\ a # Null /\ p[s[v]] # a
  <2>1. h \in Heaps(N)
    BY DEF Storage
  <2>2. DOMAIN h \subseteq Address
    BY <2>1, HeapType
  <2> QED  BY <2>2, NullIsNoAddress, Zenon DEF Storage
<1>5. ASSUME NEW u \in Vec, p[t[u]] # Null PROVE p[t[u]] \in DOMAIN g /\ <<t[u], g[p[t[u]]]>> \in R
  <2>1. CASE u = v
    <3>1. a \in DOMAIN f /\ f[a] = x
      BY <1>2 DEF Grown
    <3>2. a \in DOMAIN g /\ g[a] = x
      BY <1>3, <1>4, <3>1 DEF Shrunk
    <3> QED  BY <1>1, <2>1, <3>2, Zenon
  <2>2. CASE u # v
    <3>1. p[s[u]] \in DOMAIN h /\ <<s[u], h[p[s[u]]]>> \in R /\ p[s[u]] # p[s[v]]
      BY <1>1, <1>5, <2>2 DEF Storage
    <3>2. p[s[u]] \in DOMAIN f /\ f[p[s[u]]] = h[p[s[u]]]
      BY <1>2, <3>1 DEF Grown
    <3> QED  BY <1>1, <1>3, <2>2, <3>1, <3>2 DEF Shrunk
  <2> QED  BY <2>1, <2>2
<1>6. ASSUME NEW b \in DOMAIN g PROVE \E u \in Vec : p[t[u]] = b
  <2>1. b \in DOMAIN f /\ b # p[s[v]]
    BY <1>3 DEF Shrunk
  <2>2. CASE b = a
    BY <1>1, <2>2
  <2>3. CASE b # a
    <3>1. b \in DOMAIN h
      BY <1>2, <2>1, <2>3 DEF Grown
    <3>2. PICK u \in Vec : p[s[u]] = b
      BY <3>1 DEF Storage
    <3> QED  BY <1>1, <2>1, <3>2
  <2> QED  BY <2>2, <2>3
<1>7. ASSUME NEW u \in Vec, NEW w \in Vec, p[t[u]] # Null, p[t[u]] = p[t[w]] PROVE u = w
  BY <1>1, <1>7, Zenon DEF Storage
<1>8. t \in [Vec -> T] /\ g \in Heaps(N) /\ p \in [T -> Address \cup {Null}]
  BY <1>1, <1>3 DEF Storage, Shrunk
<1> QED  BY <1>5, <1>6, <1>7, <1>8, Zenon DEF Storage

(* v takes the record of w and with it its cell; the one v had goes *)
LEMMA StorageMoved ==
  ASSUME NEW T, NEW N, NEW p, NEW R, NEW s, NEW h, Storage(T, N, p, R, s, h),
         NEW v \in Vec, NEW w \in Vec, v # w, NEW r \in T, p[r] = Null,
         NEW t, t = [s EXCEPT ![v] = s[w], ![w] = r], NEW g, g = Without(h, {p[s[v]]})
  PROVE  Storage(T, N, p, R, t, g)
<1>1. t \in [Vec -> T] /\ \A u \in Vec : t[u] = IF u = w THEN r ELSE IF u = v THEN s[w] ELSE s[u]
  BY DEF Storage
<1>2. Shrunk(N, h, {p[s[v]]}, g)
  BY HeapWithout DEF Storage
<1>3. ASSUME NEW u \in Vec, p[t[u]] # Null PROVE p[t[u]] \in DOMAIN g /\ <<t[u], g[p[t[u]]]>> \in R
  <2>1. PICK q \in Vec : t[u] = s[q] /\ q # v
    BY <1>1, <1>3
  <2>2. p[s[q]] \in DOMAIN h /\ <<s[q], h[p[s[q]]]>> \in R /\ p[s[q]] # p[s[v]]
    <3>1. p[s[q]] # Null
      BY <1>3, <2>1
    <3> QED  BY <2>1, <3>1 DEF Storage
  <2>3. PICK a : a = p[s[q]]
    OBVIOUS
  <2>4. a \in DOMAIN g /\ g[a] = h[a]
    BY <1>2, <2>2, <2>3 DEF Shrunk
  <2>5. a \in DOMAIN g /\ <<s[q], g[a]>> \in R
    BY <2>2, <2>3, <2>4
  <2> QED  BY <2>1, <2>3, <2>5, Zenon
<1>4. ASSUME NEW b \in DOMAIN g PROVE \E u \in Vec : p[t[u]] = b
  <2>1. b \in DOMAIN h /\ b # p[s[v]]
    BY <1>2 DEF Shrunk
  <2>2. PICK q \in Vec : p[s[q]] = b
    BY <2>1 DEF Storage
  <2>3. CASE q = w
    BY <1>1, <2>2, <2>3
  <2>4. CASE q # w
    BY <1>1, <2>1, <2>2, <2>4
  <2> QED  BY <2>3, <2>4, Zenon
<1>5. ASSUME NEW u \in Vec, NEW q \in Vec, p[t[u]] # Null, p[t[u]] = p[t[q]] PROVE u = q
  <2>1. u # w /\ q # w
    BY <1>1, <1>5
  <2> QED  BY <1>1, <1>5, <2>1 DEF Storage
<1>6. t \in [Vec -> T] /\ g \in Heaps(N) /\ p \in [T -> Address \cup {Null}]
  BY <1>1, <1>2 DEF Storage, Shrunk
<1> QED  BY <1>3, <1>4, <1>5, <1>6, Zenon DEF Storage

(* the cell of v changes, and its record with it *)
LEMMA StorageChanged ==
  ASSUME NEW T, NEW N, NEW p, NEW R, NEW s, NEW h, Storage(T, N, p, R, s, h),
         NEW v \in Vec, p[s[v]] # Null, NEW r \in T, p[r] = p[s[v]],
         NEW x \in N, <<r, x>> \in R, NEW t, t = [s EXCEPT ![v] = r],
         NEW g, g = [h EXCEPT ![p[s[v]]] = x]
  PROVE  Storage(T, N, p, R, t, g)
<1>1. t \in [Vec -> T] /\ \A u \in Vec : t[u] = IF u = v THEN r ELSE s[u]
  BY DEF Storage
<1>2. PICK a : a = p[s[v]]
  OBVIOUS
<1>3. Changed(N, h, a, x, g)
  <2>1. a \in DOMAIN h /\ h \in Heaps(N) /\ g = [h EXCEPT ![a] = x]
    BY <1>2, Zenon DEF Storage
  <2> QED  BY <2>1, HeapChanged, Zenon
<1> DEFINE G == g
<1>4. Changed(N, h, a, x, G)
  BY <1>3
<1> HIDE DEF G
<1>5. ASSUME NEW u \in Vec, p[t[u]] # Null PROVE p[t[u]] \in DOMAIN G /\ <<t[u], G[p[t[u]]]>> \in R
  <2>1. CASE u = v
    <3>1. a \in DOMAIN G /\ G[a] = x
      BY <1>2, <1>4, Zenon DEF Changed, Storage
    <3> QED  BY <1>1, <1>2, <2>1, <3>1
  <2>2. CASE u # v
    <3>1. p[s[u]] \in DOMAIN h /\ <<s[u], h[p[s[u]]]>> \in R /\ p[s[u]] # a
      BY <1>1, <1>2, <1>5, <2>2 DEF Storage
    <3> QED  BY <1>1, <1>4, <2>2, <3>1 DEF Changed
  <2> QED  BY <2>1, <2>2
<1>6. ASSUME NEW b \in DOMAIN G PROVE \E u \in Vec : p[t[u]] = b
  <2>1. b \in DOMAIN h
    BY <1>4 DEF Changed
  <2> QED  BY <1>1, <2>1 DEF Storage
<1>7. ASSUME NEW u \in Vec, NEW w \in Vec, p[t[u]] # Null, p[t[u]] = p[t[w]] PROVE u = w
  BY <1>1, <1>7 DEF Storage
<1>8. t \in [Vec -> T] /\ G \in Heaps(N) /\ p \in [T -> Address \cup {Null}]
  BY <1>1, <1>4 DEF Storage, Changed
<1>9. Storage(T, N, p, R, t, G)
  BY <1>5, <1>6, <1>7, <1>8 DEF Storage
<1> QED  BY <1>9 DEF G

LEMMA WithoutNothing ==
  ASSUME NEW N, NEW h \in Heaps(N)
  PROVE  Without(h, {Null}) = h
<1>1. DOMAIN h \subseteq Address /\ h = [a \in DOMAIN h |-> h[a]]
  BY HeapType
<1>2. DOMAIN h \ {Null} = DOMAIN h
  BY <1>1, NullIsNoAddress
<1> QED  BY <1>1, <1>2 DEF Without

-----------------------------------------------------------------------------
(* custom_vtable: a shape and its value, which is of the type of the table. *)
CustomShape == [vt : Item, ptr : Address \cup {Null}] \cup {Absent}
CustomPtr == [r \in CustomShape |-> IF r = Absent THEN Null ELSE r.ptr]
CustomPairs == {c \in CustomShape \X Item : c[1] # Absent /\ c[1].vt = c[2]}

CustomOK == mem \in Memory(Item) /\ Storage(CustomShape, Item, CustomPtr, CustomPairs, obj, mem.heap)

LEMMA CustomTypes ==
  /\ CustomPtr \in [CustomShape -> Address \cup {Null}]
  /\ Absent \in CustomShape /\ CustomPtr[Absent] = Null
  /\ \A x \in Item, a \in Address \cup {Null} :
       /\ [vt |-> x, ptr |-> a] \in CustomShape /\ [vt |-> x, ptr |-> a] # Absent
       /\ CustomPtr[[vt |-> x, ptr |-> a]] = a /\ <<[vt |-> x, ptr |-> a], x>> \in CustomPairs
<1>1. \A x \in Item, a \in Address \cup {Null} : [vt |-> x, ptr |-> a] # Absent
  <2>1. Absent \notin [vt : Item, ptr : Nat \cup {Null}]
    BY SingleThreadedAssumption
  <2> QED  BY <2>1 DEF Address
<1>2. CustomPtr \in [CustomShape -> Address \cup {Null}]
  BY DEF CustomPtr, CustomShape
<1> QED  BY <1>1, <1>2 DEF CustomShape, CustomPtr, CustomPairs

(* what a shape in scope is *)
LEMMA CustomInScope ==
  ASSUME CustomOK, NEW v \in Vec, obj[v] # Absent
  PROVE  /\ obj[v].vt \in Item /\ obj[v].ptr \in Address \cup {Null}
         /\ obj[v] = [vt |-> obj[v].vt, ptr |-> obj[v].ptr] /\ CustomPtr[obj[v]] = obj[v].ptr
         /\ obj[v].ptr # Null => obj[v].ptr \in DOMAIN mem.heap /\ mem.heap[obj[v].ptr] = obj[v].vt
<1>1. obj[v] \in [vt : Item, ptr : Address \cup {Null}] /\ obj[v] \in CustomShape
  BY DEF CustomOK, Storage, CustomShape
<1>2. CustomPtr[obj[v]] = obj[v].ptr
  BY <1>1 DEF CustomPtr
<1>3. ASSUME obj[v].ptr # Null
      PROVE  obj[v].ptr \in DOMAIN mem.heap /\ mem.heap[obj[v].ptr] = obj[v].vt
  <2>1. obj[v].ptr \in DOMAIN mem.heap /\ <<obj[v], mem.heap[obj[v].ptr]>> \in CustomPairs
    BY <1>2, <1>3 DEF CustomOK, Storage
  <2> QED  BY <2>1 DEF CustomPairs
<1> QED  BY <1>1, <1>2, <1>3

LEMMA CustomInit == C!Init => CustomOK
<1> SUFFICES ASSUME C!Init PROVE CustomOK
  OBVIOUS
<1>1. obj = [v \in Vec |-> Absent] /\ mem = [heap |-> [a \in {} |-> Null], sound |-> TRUE]
  BY DEF C!Init
<1>2. mem \in Memory(Item) /\ mem.heap = [a \in {} |-> Null]
  BY <1>1, HeapEmpty, MemoryIs
<1> QED  BY <1>1, <1>2, CustomTypes, StorageInit DEF CustomOK

(* a new value *)
LEMMA CustomMade ==
  ASSUME CustomOK, NEW v \in Vec, NEW x \in Item, NEW m,
         \/ m = C!Made(x) /\ obj[v] = Absent
         \/ m = C!destroy(C!Made(x), obj[v].vt, obj[v].ptr) /\ obj[v] # Absent,
         mem' = m, obj' = [obj EXCEPT ![v] = C!Holding(x)]
  PROVE  CustomOK'
<1>1. PICK a : a = C!New
  OBVIOUS
<1>2. PICK h : h = With(mem.heap, a, x)
  OBVIOUS
<1>3. mem \in Memory(Item) /\ mem.heap \in Heaps(Item) /\ mem.sound = TRUE
  BY Zenon DEF CustomOK, Memory
<1>4. a \in Address /\ a \notin DOMAIN mem.heap
  <2>1. a = NewAddress(mem.heap)
    BY <1>1 DEF C!New, C!NewAddress, C!Cardinality, NewAddress, Cardinality
  <2> QED  BY <1>3, <2>1, NewIsFree
<1>5. C!Made(x) = [mem EXCEPT !.heap = h]
  BY <1>1, <1>2 DEF C!Made, C!With, With
<1>6. PICK made : made = C!Made(x)
  OBVIOUS
<1>7. Grown(Item, mem.heap, a, x, h)
  BY <1>2, <1>3, <1>4, HeapWith
<1>8. h \in Heaps(Item)
  BY <1>7 DEF Grown
<1>9. made \in Memory(Item) /\ made.heap = h
  BY <1>3, <1>5, <1>6, <1>8, MemoryReplaced
<1>10. PICK r : r = C!Holding(x)
  OBVIOUS
<1>11. r = [vt |-> x, ptr |-> a]
  BY <1>1, <1>10 DEF C!Holding
<1>12. r \in CustomShape /\ CustomPtr[r] = a /\ <<r, x>> \in CustomPairs
  BY <1>4, <1>11, CustomTypes
<1>13. obj' = [obj EXCEPT ![v] = r]
  BY <1>10
<1>14. Storage(CustomShape, Item, CustomPtr, CustomPairs, obj, mem.heap)
  BY DEF CustomOK
<1>15. CASE m = C!Made(x) /\ CustomPtr[obj[v]] = Null
  <2>1. mem' \in Memory(Item) /\ mem'.heap = h
    BY <1>6, <1>9, <1>15
  <2>2. Storage(CustomShape, Item, CustomPtr, CustomPairs, obj', h)
    <3>1. Free(CustomPtr, obj, v)
      BY <1>15 DEF Free
    <3>2. r \in CustomShape /\ CustomPtr[r] = a /\ <<r, x>> \in CustomPairs
      BY <1>12
    <3>3. PICK t : t = obj'
      OBVIOUS
    <3>4. t = [obj EXCEPT ![v] = r]
      BY <1>13, <3>3
    <3>5. Storage(CustomShape, Item, CustomPtr, CustomPairs, t, h)
      BY <1>2, <1>4, <1>14, <3>1, <3>2, <3>4, StorageNew, Zenon
    <3> QED  BY <3>3, <3>5
  <2> QED  BY <2>1, <2>2 DEF CustomOK
<1>16. CASE m = C!destroy(C!Made(x), obj[v].vt, obj[v].ptr) /\ obj[v] # Absent /\ obj[v].ptr # Null
  <2>1. obj[v].ptr \in DOMAIN mem.heap /\ mem.heap[obj[v].ptr] = obj[v].vt /\ CustomPtr[obj[v]] = obj[v].ptr
    BY <1>16, CustomInScope, Zenon
  <2>2. obj[v].ptr \in DOMAIN h /\ h[obj[v].ptr] = obj[v].vt
    BY <1>4, <1>7, <2>1 DEF Grown
  <2>3. PICK g : g = Without(h, {CustomPtr[obj[v]]})
    OBVIOUS
  <2>4. made.sound = TRUE
    BY <1>9, Zenon DEF Memory
  <2>5. m = C!destroy(made, obj[v].vt, obj[v].ptr)
    BY <1>6, <1>16
  <2>6. m = [heap |-> g, sound |-> TRUE]
    BY <1>9, <1>16, <2>1, <2>2, <2>3, <2>4, <2>5, Zenon DEF C!destroy, C!Without, Without
  <2>7. Storage(CustomShape, Item, CustomPtr, CustomPairs, obj', g)
    BY <1>2, <1>4, <1>12, <1>13, <1>14, <2>3, StorageReplaced, Zenon
  <2>8. g \in Heaps(Item)
    BY <2>7 DEF Storage
  <2>9. mem' \in Memory(Item) /\ mem'.heap = g
    BY <2>6, <2>8, MemoryIs
  <2> QED  BY <2>7, <2>9 DEF CustomOK
<1>17. CASE m = C!destroy(C!Made(x), obj[v].vt, obj[v].ptr) /\ obj[v] # Absent /\ obj[v].ptr = Null
  <2>1. m = C!Made(x) /\ CustomPtr[obj[v]] = Null
    BY <1>17, CustomInScope, Zenon DEF C!destroy
  <2> QED  BY <1>15, <2>1
<1> QED  BY <1>15, <1>16, <1>17, CustomTypes

LEMMA CustomDestructor ==
  ASSUME CustomOK, NEW v \in Vec, obj[v] # Absent, NEW r, r \in CustomShape, CustomPtr[r] = Null,
         mem' = C!destroy(mem, obj[v].vt, obj[v].ptr), obj' = [obj EXCEPT ![v] = r]
  PROVE  CustomOK'
<1>1. mem \in Memory(Item) /\ mem.heap \in Heaps(Item) /\ mem.sound = TRUE
  BY Zenon DEF CustomOK, Memory
<1>2. Storage(CustomShape, Item, CustomPtr, CustomPairs, obj, mem.heap)
  BY DEF CustomOK
<1>3. CustomPtr[obj[v]] = obj[v].ptr
  BY CustomInScope, Zenon
<1>4. CASE obj[v].ptr = Null
  <2>1. mem' = mem
    BY <1>4 DEF C!destroy
  <2>2. CustomPtr[r] = CustomPtr[obj[v]]
    BY <1>3, <1>4
  <2>3. Storage(CustomShape, Item, CustomPtr, CustomPairs, obj', mem.heap)
    BY <1>2, <2>2, StorageKept, Zenon
  <2> QED  BY <1>1, <2>1, <2>3 DEF CustomOK
<1>5. CASE obj[v].ptr # Null
  <2>1. PICK g : g = Without(mem.heap, {CustomPtr[obj[v]]})
    OBVIOUS
  <2>2. mem' = [heap |-> g, sound |-> TRUE]
    BY <1>1, <1>3, <1>5, <2>1, CustomInScope, Zenon DEF C!destroy, C!Without, Without
  <2>3. Storage(CustomShape, Item, CustomPtr, CustomPairs, obj', g)
    BY <1>2, <2>1, StorageGone, Zenon
  <2>4. g \in Heaps(Item)
    BY <2>3 DEF Storage
  <2>5. mem' \in Memory(Item) /\ mem'.heap = g
    BY <2>2, <2>4, MemoryIs
  <2> QED  BY <2>3, <2>5 DEF CustomOK
<1> QED  BY <1>4, <1>5

LEMMA CustomTake ==
  ASSUME CustomOK, NEW v \in Vec, NEW w \in Vec, v # w, obj[w] # Absent, obj' = C!Taken(v, w),
         \/ obj[v] = Absent /\ mem' = mem
         \/ obj[v] # Absent /\ mem' = C!destroy(mem, obj[v].vt, obj[v].ptr)
  PROVE  CustomOK'
<1>1. mem \in Memory(Item) /\ mem.heap \in Heaps(Item) /\ mem.sound = TRUE
  BY Zenon DEF CustomOK, Memory
<1>2. Storage(CustomShape, Item, CustomPtr, CustomPairs, obj, mem.heap)
  BY DEF CustomOK
<1>3. PICK g : g = Without(mem.heap, {CustomPtr[obj[v]]})
  OBVIOUS
<1>4. PICK r : r = [obj[w] EXCEPT !.ptr = Null]
  BY Zenon
<1>5. r \in CustomShape /\ CustomPtr[r] = Null
  <2>1. obj[w] = [vt |-> obj[w].vt, ptr |-> obj[w].ptr] /\ obj[w].vt \in Item
    BY CustomInScope
  <2>2. r = [vt |-> obj[w].vt, ptr |-> Null]
    BY <1>4, <2>1
  <2> QED  BY <2>1, <2>2, CustomTypes, Zenon
<1>6. obj' = [obj EXCEPT ![v] = obj[w], ![w] = r]
  <2>1. obj \in [Vec -> CustomShape]
    BY <1>2 DEF Storage
  <2> QED  BY <1>4, <2>1 DEF C!Taken
<1>7. Storage(CustomShape, Item, CustomPtr, CustomPairs, obj', g)
  BY <1>2, <1>3, <1>5, <1>6, StorageMoved
<1>8. g \in Heaps(Item)
  BY <1>7 DEF Storage
<1>9. CASE obj[v] = Absent \/ obj[v].ptr = Null
  <2>1. mem' = mem
    BY <1>9 DEF C!destroy
  <2>2. CustomPtr[obj[v]] = Null
    BY <1>9, CustomInScope, CustomTypes, Zenon
  <2>3. g = mem.heap
    BY <1>1, <1>3, <2>2, WithoutNothing
  <2> QED  BY <1>1, <1>7, <2>1, <2>3 DEF CustomOK
<1>10. CASE obj[v] # Absent /\ obj[v].ptr # Null
  <2>1. mem' = [heap |-> g, sound |-> TRUE]
    BY <1>1, <1>3, <1>10, CustomInScope, Zenon DEF C!destroy, C!Without, Without
  <2>2. mem' \in Memory(Item) /\ mem'.heap = g
    BY <1>8, <2>1, MemoryIs
  <2> QED  BY <1>7, <2>2 DEF CustomOK
<1> QED  BY <1>9, <1>10

LEMMA CustomNext ==
  ASSUME CustomOK, C!Next
  PROVE  CustomOK'
<1> PICK v \in Vec : \/ C!Destructor(v)
                     \/ \E x \in Item : C!Ctor(v, x)
                     \/ \E w \in Vec : C!CopyCtor(v, w) \/ C!CopyAssign(v, w) \/ C!MoveCtor(v, w) \/ C!MoveAssign(v, w)
  BY DEF C!Next
<1> USE DEF C!InScope, C!HasValue, C!Return, C!End
<1>1. CASE UNCHANGED <<obj, mem>>
  BY <1>1, Zenon DEF CustomOK, Storage, Memory
<1>2. CASE C!Destructor(v)
  BY <1>2, CustomDestructor, CustomTypes, Zenon DEF C!Destructor
<1>3. CASE \E x \in Item : C!Ctor(v, x)
  <2>1. PICK x \in Item : C!Ctor(v, x)
    BY <1>3
  <2>2. CASE UNCHANGED <<obj, mem>>
    BY <1>1, <2>2
  <2>3. CASE ~UNCHANGED <<obj, mem>>
    <3>1. obj[v] = Absent /\ mem' = C!Made(x) /\ obj' = [obj EXCEPT ![v] = C!Holding(x)]
      BY <2>1, <2>3 DEF C!Ctor, C!Throw
    <3> QED  BY <3>1, CustomMade, Zenon
  <2> QED  BY <2>2, <2>3
<1>4. CASE \E w \in Vec : C!CopyCtor(v, w) \/ C!CopyAssign(v, w)
  <2>1. PICK w \in Vec : C!CopyCtor(v, w) \/ C!CopyAssign(v, w)
    BY <1>4
  <2>2. PICK x : x = obj[w].vt
    OBVIOUS
  <2>3. obj[w] # Absent /\ x \in Item
    BY <2>1, <2>2, CustomInScope, Zenon DEF C!CopyCtor, C!CopyAssign
  <2>4. CASE UNCHANGED <<obj, mem>>
    BY <1>1, <2>4
  <2>5. CASE ~UNCHANGED <<obj, mem>> /\ C!CopyCtor(v, w)
    <3>1. obj[v] = Absent /\ mem' = C!Made(x) /\ obj' = [obj EXCEPT ![v] = C!Holding(x)]
      BY <2>2, <2>5 DEF C!CopyCtor, C!Throw
    <3> QED  BY <2>3, <3>1, CustomMade, Zenon
  <2>6. CASE ~UNCHANGED <<obj, mem>> /\ C!CopyAssign(v, w)
    <3>1. /\ obj[v] # Absent /\ mem' = C!destroy(C!Made(x), obj[v].vt, obj[v].ptr)
          /\ obj' = [obj EXCEPT ![v] = C!Holding(x)]
      BY <2>2, <2>6 DEF C!CopyAssign, C!Throw
    <3> QED  BY <2>3, <3>1, CustomMade, Zenon
  <2> QED  BY <2>1, <2>4, <2>5, <2>6
<1>5. CASE \E w \in Vec : C!MoveCtor(v, w) \/ C!MoveAssign(v, w)
  <2>1. PICK w \in Vec : C!MoveCtor(v, w) \/ C!MoveAssign(v, w)
    BY <1>5
  <2>2. CASE C!MoveCtor(v, w)
    <3>1. obj[v] = Absent /\ obj[w] # Absent /\ mem' = mem /\ obj' = C!Taken(v, w)
      BY <2>2 DEF C!MoveCtor
    <3> QED  BY <3>1, CustomTake
  <2>3. CASE C!MoveAssign(v, w)
    <3>1. /\ v # w /\ obj[v] # Absent /\ obj[w] # Absent /\ obj' = C!Taken(v, w)
          /\ mem' = C!destroy(mem, obj[v].vt, obj[v].ptr)
      BY <2>3 DEF C!MoveAssign, C!OldTable
    <3> QED  BY <3>1, CustomTake
  <2> QED  BY <2>1, <2>2, <2>3
<1> QED  BY <1>2, <1>3, <1>4, <1>5

LEMMA CustomImplies ==
  ASSUME CustomOK
  PROVE  C!OneValueEach
<1> DEFINE holders == {v \in Vec : C!HasValue(v)}
<1>1. mem.sound = TRUE /\ DOMAIN mem.heap \subseteq Address
  <2>1. mem.heap \in Heaps(Item)
    BY DEF CustomOK, Storage
  <2> QED  BY <2>1, HeapType, Zenon DEF CustomOK, Memory
<1>2. ASSUME NEW v \in holders
      PROVE  /\ v \in Vec /\ obj[v] # Absent /\ obj[v].ptr # Null /\ CustomPtr[obj[v]] = obj[v].ptr
             /\ obj[v].ptr \in DOMAIN mem.heap /\ mem.heap[obj[v].ptr] = obj[v].vt
  BY CustomInScope, Zenon DEF C!HasValue, C!InScope
<1>3. ASSUME NEW a \in DOMAIN mem.heap PROVE \E v \in holders : obj[v].ptr = a
  <2>1. a # Null
    BY <1>1, NullIsNoAddress
  <2>2. PICK v \in Vec : CustomPtr[obj[v]] = a
    BY DEF CustomOK, Storage
  <2>3. obj[v] # Absent
    BY <2>1, <2>2, CustomTypes
  <2> QED  BY <2>1, <2>2, <2>3, CustomInScope, Zenon DEF C!HasValue, C!InScope
<1>4. \A v, w \in holders : obj[v].ptr = obj[w].ptr => v = w
  BY <1>2 DEF CustomOK, Storage
<1> HIDE DEF holders
<1>5. DOMAIN mem.heap = {obj[v].ptr : v \in holders}
  BY <1>2, <1>3
<1> QED  BY <1>1, <1>2, <1>4, <1>5 DEF C!OneValueEach, holders

-----------------------------------------------------------------------------
(* shape: one with an object of a type that fits has it in buf, one with   *)
(* another object has that on the heap, and the table is that of its type. *)
ShapeIn(r) ==
  /\ r.buf = IF r.obj = Buf THEN r.vt ELSE Raw
  /\ r.obj # Null => (r.vt = Default <=> r.obj = Buf)

Shapes ==
  {r \in [obj : Address \cup {Null, Buf}, vt : Item, buf : Item \cup {Raw}] : ShapeIn(r)} \cup {Absent}
ShapePtr == [r \in Shapes |-> IF r = Absent THEN Null ELSE IF r.obj = Buf THEN Null ELSE r.obj]
ShapePairs == {c \in Shapes \X Item : c[1] # Absent /\ c[1].vt = c[2]}

ShapesIn(s, m) == m \in Memory(Item) /\ Storage(Shapes, Item, ShapePtr, ShapePairs, s, m.heap)
ShapeOK == ShapesIn(obj, mem)

LEMMA ShapeConstants ==
  /\ Default \in Item /\ Buf \notin Address /\ Buf # Null /\ Null \notin Address /\ Raw \notin Item
  /\ Absent \notin [obj : Address \cup {Null, Buf}, vt : Item, buf : Item \cup {Raw}]
<1>1. Absent \notin [obj : Nat \cup {Null, Buf}, vt : Item, buf : Item \cup {Raw}]
  BY SingleThreadedAssumption
<1>2. Default \in Item /\ Buf \notin Nat \cup {Null} /\ Null \notin Nat /\ Raw \notin Item
  BY SingleThreadedAssumption
<1> QED  BY <1>1, <1>2 DEF Address

(* a shape without an object, with one in buf, with one on the heap *)
LEMMA ShapeTypes ==
  /\ ShapePtr \in [Shapes -> Address \cup {Null}]
  /\ Absent \in Shapes /\ ShapePtr[Absent] = Null
  /\ \A x \in Item : E!NoObject(x) \in Shapes /\ E!NoObject(x) # Absent /\ ShapePtr[E!NoObject(x)] = Null
  /\ LET r == [obj |-> Buf, vt |-> Default, buf |-> Default]
     IN r \in Shapes /\ r # Absent /\ ShapePtr[r] = Null
  /\ \A x \in Item \ {Default}, a \in Address :
       LET r == [obj |-> a, vt |-> x, buf |-> Raw]
       IN r \in Shapes /\ r # Absent /\ ShapePtr[r] = a /\ <<r, x>> \in ShapePairs
<1> DEFINE Records == [obj : Address \cup {Null, Buf}, vt : Item, buf : Item \cup {Raw}]
<1>1. ShapePtr \in [Shapes -> Address \cup {Null}]
  BY DEF ShapePtr, Shapes
<1>2. Absent \in Shapes /\ ShapePtr[Absent] = Null
  BY DEF ShapePtr, Shapes
<1>3. ASSUME NEW r \in Records, ShapeIn(r)
      PROVE  /\ r \in Shapes /\ r # Absent /\ ShapePtr[r] = IF r.obj = Buf THEN Null ELSE r.obj
             /\ <<r, r.vt>> \in ShapePairs
  <2>1. r \in Shapes /\ r # Absent /\ r.vt \in Item
    BY <1>3, ShapeConstants DEF Shapes
  <2> QED  BY <2>1 DEF ShapePtr, ShapePairs
<1> HIDE DEF Records
<1>4. ASSUME NEW x \in Item
      PROVE  E!NoObject(x) \in Shapes /\ E!NoObject(x) # Absent /\ ShapePtr[E!NoObject(x)] = Null
  <2>1. PICK r : r = [obj |-> Null, vt |-> x, buf |-> Raw]
    BY Zenon
  <2>2. r \in Records /\ r.obj = Null /\ ShapeIn(r)
    BY <2>1, ShapeConstants DEF Records, ShapeIn
  <2>3. r \in Shapes /\ r # Absent /\ ShapePtr[r] = Null
    BY <1>3, <2>2, ShapeConstants, Zenon
  <2> QED  BY <2>1, <2>3 DEF E!NoObject
<1>5. LET r == [obj |-> Buf, vt |-> Default, buf |-> Default]
      IN r \in Shapes /\ r # Absent /\ ShapePtr[r] = Null
  <2>1. PICK r : r = [obj |-> Buf, vt |-> Default, buf |-> Default]
    BY Zenon
  <2>2. r \in Records /\ r.obj = Buf /\ ShapeIn(r)
    BY <2>1, ShapeConstants DEF Records, ShapeIn
  <2>3. r \in Shapes /\ r # Absent /\ ShapePtr[r] = Null
    BY <1>3, <2>2, ShapeConstants, Zenon
  <2> QED  BY <2>1, <2>3
<1>6. ASSUME NEW x \in Item \ {Default}, NEW a \in Address
      PROVE  LET r == [obj |-> a, vt |-> x, buf |-> Raw]
             IN r \in Shapes /\ r # Absent /\ ShapePtr[r] = a /\ <<r, x>> \in ShapePairs
  <2>1. PICK r : r = [obj |-> a, vt |-> x, buf |-> Raw]
    BY Zenon
  <2>2. r \in Records /\ r.obj = a /\ r.vt = x /\ a # Buf /\ ShapeIn(r)
    BY <2>1, ShapeConstants DEF Records, ShapeIn
  <2>3. r \in Shapes /\ r # Absent /\ ShapePtr[r] = a /\ <<r, x>> \in ShapePairs
    BY <1>3, <2>2
  <2> QED  BY <2>1, <2>3
<1> QED  BY <1>1, <1>2, <1>4, <1>5, <1>6

(* what a shape in scope is *)
LEMMA ShapeInScope ==
  ASSUME NEW s, NEW m, ShapesIn(s, m), NEW v \in Vec, s[v] # Absent
  PROVE  /\ s[v] = [obj |-> s[v].obj, vt |-> s[v].vt, buf |-> s[v].buf]
         /\ s[v].vt \in Item /\ s[v].obj \in Address \cup {Null, Buf} /\ ShapeIn(s[v])
         /\ ShapePtr[s[v]] = IF s[v].obj = Buf THEN Null ELSE s[v].obj
         /\ s[v].obj \notin {Null, Buf} => s[v].obj \in DOMAIN m.heap /\ m.heap[s[v].obj] = s[v].vt
<1>1. s[v] \in [obj : Address \cup {Null, Buf}, vt : Item, buf : Item \cup {Raw}] /\ ShapeIn(s[v]) /\ s[v] \in Shapes
  BY DEF ShapesIn, Storage, Shapes
<1>2. ShapePtr[s[v]] = IF s[v].obj = Buf THEN Null ELSE s[v].obj
  BY <1>1 DEF ShapePtr
<1>3. ASSUME s[v].obj \notin {Null, Buf}
      PROVE  s[v].obj \in DOMAIN m.heap /\ m.heap[s[v].obj] = s[v].vt
  <2>1. s[v].obj \in DOMAIN m.heap /\ <<s[v], m.heap[s[v].obj]>> \in ShapePairs
    BY <1>2, <1>3 DEF ShapesIn, Storage
  <2> QED  BY <2>1 DEF ShapePairs
<1> QED  BY <1>1, <1>2, <1>3

LEMMA ShapeInit == E!Init => ShapeOK
<1> SUFFICES ASSUME E!Init PROVE ShapeOK
  OBVIOUS
<1>1. obj = [v \in Vec |-> Absent] /\ mem = [heap |-> [a \in {} |-> Null], sound |-> TRUE]
  BY DEF E!Init
<1>2. mem \in Memory(Item) /\ mem.heap = [a \in {} |-> Null]
  BY <1>1, HeapEmpty, MemoryIs
<1>3. Storage(Shapes, Item, ShapePtr, ShapePairs, obj, mem.heap)
  BY <1>1, <1>2, ShapeTypes, StorageInit
<1> QED  BY <1>2, <1>3 DEF ShapeOK, ShapesIn

LEMMA ShapeEmptied ==
  ASSUME NEW r, NEW o, NEW x, NEW b, r = [obj |-> o, vt |-> x, buf |-> b],
         NEW n, n = [r EXCEPT !.obj = Null, !.buf = Raw]
  PROVE  n = E!NoObject(x)
<1>1. r \in [obj : {o}, vt : {x}, buf : {b}]
  OBVIOUS
<1>2. n \in [obj : {Null}, vt : {x}, buf : {Raw}]
  <2>1. ASSUME NEW q \in [obj : {o}, vt : {x}, buf : {b}], n = [q EXCEPT !.obj = Null, !.buf = Raw]
        PROVE  n \in [obj : {Null}, vt : {x}, buf : {Raw}]
    BY <2>1, Zenon
  <2> QED BY <1>1, <2>1, Zenon
<1>3. n = [obj |-> Null, vt |-> x, buf |-> Raw]
  BY <1>2, Zenon
<1> QED  BY <1>3, Zenon DEF E!NoObject

(* v without its object *)
LEMMA ShapeDestroyed ==
  ASSUME NEW s, NEW m, ShapesIn(s, m), NEW v \in Vec, s[v] # Absent,
         NEW p, p = E!destroy_fn(m, s[v], s[v].vt),
         NEW r \in Shapes, ShapePtr[r] = Null, NEW t, t = [s EXCEPT ![v] = r]
  PROVE  ShapesIn(t, p.mem) /\ p.shape = E!NoObject(s[v].vt)
<1>1. m \in Memory(Item) /\ m.heap \in Heaps(Item) /\ m.sound = TRUE
  BY Zenon DEF ShapesIn, Memory
<1>2. Storage(Shapes, Item, ShapePtr, ShapePairs, s, m.heap)
  BY DEF ShapesIn
<1>3. /\ s[v] = [obj |-> s[v].obj, vt |-> s[v].vt, buf |-> s[v].buf]
      /\ ShapeIn(s[v]) /\ ShapePtr[s[v]] = IF s[v].obj = Buf THEN Null ELSE s[v].obj
  BY ShapeInScope
<1>4. CASE s[v].obj = Null
  <2>1. p = [mem |-> m, shape |-> s[v]]
    BY <1>4 DEF E!destroy_fn
  <2>2. p.shape = E!NoObject(s[v].vt)
    BY <1>3, <1>4, <2>1, ShapeConstants DEF E!NoObject, ShapeIn
  <2>3. ShapePtr[r] = ShapePtr[s[v]]
    BY <1>3, <1>4
  <2>4. Storage(Shapes, Item, ShapePtr, ShapePairs, t, m.heap)
    BY <1>2, <2>3, StorageKept, Zenon
  <2> QED  BY <1>1, <2>1, <2>2, <2>4 DEF ShapesIn
<1>5. CASE s[v].obj = Buf
  <2>0. s[v].vt = Default /\ Buf # Null
    BY <1>3, <1>5, ShapeConstants DEF ShapeIn
  <2>1. p = [mem |-> [m EXCEPT !.sound = @ /\ s[v].obj = Buf], shape |-> [s[v] EXCEPT !.obj = Null, !.buf = Raw]]
    BY <1>5, <2>0 DEF E!destroy_fn
  <2>2. p.shape = E!NoObject(s[v].vt)
    <3>1. p.shape = [s[v] EXCEPT !.obj = Null, !.buf = Raw]
      BY <2>1
    <3>2. PICK q, n : q = s[v] /\ n = p.shape
      OBVIOUS
    <3>3. q = [obj |-> q.obj, vt |-> q.vt, buf |-> q.buf] /\ n = [q EXCEPT !.obj = Null, !.buf = Raw]
      BY <1>3, <3>1, <3>2, Zenon
    <3>4. n = E!NoObject(q.vt)
      BY <3>3, ShapeEmptied
    <3> QED  BY <3>2, <3>4
  <2>3. p.mem = m
    BY <1>1, <1>5, <2>1, MemorySound
  <2>4. ShapePtr[r] = ShapePtr[s[v]]
    BY <1>3, <1>5
  <2>5. Storage(Shapes, Item, ShapePtr, ShapePairs, t, m.heap)
    BY <1>2, <2>4, StorageKept, Zenon
  <2> QED  BY <1>1, <2>1, <2>2, <2>3, <2>5 DEF ShapesIn
<1>6. CASE s[v].obj # Null /\ s[v].obj # Buf
  <2>0. s[v].vt # Default /\ s[v].obj \in DOMAIN m.heap /\ s[v].buf = Raw
    BY <1>6, ShapeInScope, Zenon DEF ShapeIn
  <2>1. PICK g : g = Without(m.heap, {ShapePtr[s[v]]})
    OBVIOUS
  <2>2. p = [mem |-> [heap |-> g, sound |-> TRUE], shape |-> [s[v] EXCEPT !.obj = Null]]
    BY <1>1, <1>3, <1>6, <2>0, <2>1, Zenon DEF E!destroy_fn, E!Without, Without
  <2>3. p.shape = E!NoObject(s[v].vt)
    BY <1>3, <2>0, <2>2 DEF E!NoObject
  <2>4. Storage(Shapes, Item, ShapePtr, ShapePairs, t, g)
    BY <1>2, <2>1, StorageGone, Zenon
  <2>5. g \in Heaps(Item)
    BY <2>4 DEF Storage
  <2>6. p.mem \in Memory(Item) /\ p.mem.heap = g
    BY <2>2, <2>5, MemoryIs
  <2> QED  BY <2>2, <2>3, <2>4, <2>6 DEF ShapesIn
<1> QED  BY <1>4, <1>5, <1>6

(* an object for v, which has none *)
LEMMA ShapePlaced ==
  ASSUME NEW s, NEW m, ShapesIn(s, m), NEW v \in Vec, Free(ShapePtr, s, v),
         NEW old \in Item, NEW x \in Item, NEW p, p = E!place_fn(m, E!NoObject(old), x),
         NEW t, t = [s EXCEPT ![v] = p.shape]
  PROVE  ShapesIn(t, p.mem)
<1>1. m \in Memory(Item) /\ m.heap \in Heaps(Item) /\ m.sound = TRUE
  BY Zenon DEF ShapesIn, Memory
<1>2. Storage(Shapes, Item, ShapePtr, ShapePairs, s, m.heap)
  BY DEF ShapesIn
<1>3. CASE x = Default
  <2>1. PICK r : r = [obj |-> Buf, vt |-> Default, buf |-> Default]
    BY Zenon
  <2>2. p.shape = r /\ p.mem = m
    BY <1>1, <1>3, <2>1, Zenon DEF E!place_fn, E!NoObject, Memory
  <2>3. r \in Shapes /\ ShapePtr[r] = Null
    BY <2>1, ShapeTypes
  <2>4. ShapePtr[r] = ShapePtr[s[v]] /\ t = [s EXCEPT ![v] = r]
    BY <2>2, <2>3 DEF Free
  <2>5. Storage(Shapes, Item, ShapePtr, ShapePairs, t, m.heap)
    BY <1>2, <2>3, <2>4, StorageKept, Zenon
  <2> QED  BY <1>1, <2>2, <2>5 DEF ShapesIn
<1>4. CASE x # Default
  <2>1. PICK a : a = E!New(m)
    OBVIOUS
  <2>2. a \in Address /\ a \notin DOMAIN m.heap
    <3>1. a = NewAddress(m.heap)
      BY <2>1 DEF E!New, E!NewAddress, E!Cardinality, NewAddress, Cardinality
    <3> QED  BY <1>1, <3>1, NewIsFree
  <2>3. PICK h : h = With(m.heap, a, x)
    OBVIOUS
  <2>4. PICK r : r = [obj |-> a, vt |-> x, buf |-> Raw]
    BY Zenon
  <2>5. p.shape = r /\ p.mem = [m EXCEPT !.heap = h]
    BY <1>4, <2>1, <2>3, <2>4, Zenon DEF E!place_fn, E!NoObject, E!With, With
  <2>6. r \in Shapes /\ ShapePtr[r] = a /\ <<r, x>> \in ShapePairs
    BY <1>4, <2>2, <2>4, ShapeTypes
  <2>7. PICK u : u = [s EXCEPT ![v] = r]
    BY Zenon
  <2>71. Storage(Shapes, Item, ShapePtr, ShapePairs, u, h)
    BY <1>2, <2>2, <2>3, <2>6, <2>7, StorageNew, Zenon
  <2>8. Storage(Shapes, Item, ShapePtr, ShapePairs, t, h)
    BY <2>5, <2>7, <2>71
  <2>9. h \in Heaps(Item)
    BY <2>8 DEF Storage
  <2>10. p.mem \in Memory(Item) /\ p.mem.heap = h
    BY <1>1, <2>5, <2>9, MemoryReplaced
  <2> QED  BY <2>8, <2>10 DEF ShapesIn
<1> QED  BY <1>3, <1>4

(* v, without an object, takes that of w *)
LEMMA ShapeTake ==
  ASSUME NEW s, NEW m, ShapesIn(s, m), NEW v \in Vec, NEW w \in Vec, v # w, s[w] # Absent,
         Free(ShapePtr, s, v), NEW t, t = [s EXCEPT ![v] = s[w], ![w] = E!Emptied(s[w])]
  PROVE  ShapesIn(t, m)
<1>1. PICK r : r = E!Emptied(s[w])
  OBVIOUS
<1>2. /\ s[w] = [obj |-> s[w].obj, vt |-> s[w].vt, buf |-> s[w].buf] /\ s[w].vt \in Item
  BY ShapeInScope
<1>3. r = E!NoObject(s[w].vt)
  BY <1>1, <1>2, Zenon DEF E!Emptied, E!NoObject
<1>4. r \in Shapes /\ ShapePtr[r] = Null
  BY <1>2, <1>3, ShapeTypes
<1>5. PICK g : g = Without(m.heap, {ShapePtr[s[v]]})
  OBVIOUS
<1>6. m.heap \in Heaps(Item)
  BY DEF ShapesIn, Memory
<1>7. g = m.heap
  BY <1>5, <1>6, WithoutNothing DEF Free
<1>8. Storage(Shapes, Item, ShapePtr, ShapePairs, s, m.heap)
  BY DEF ShapesIn
<1>9. PICK u : u = [s EXCEPT ![v] = s[w], ![w] = r]
  BY Zenon
<1>10. Storage(Shapes, Item, ShapePtr, ShapePairs, u, g)
  BY <1>4, <1>5, <1>8, <1>9, StorageMoved, Zenon
<1>11. t = u
  BY <1>1, <1>9
<1> QED  BY <1>7, <1>10, <1>11, Zenon DEF ShapesIn

(* v, which has no object on the heap, is another such shape *)
LEMMA ShapeFreed ==
  ASSUME NEW s, NEW m, ShapesIn(s, m), NEW v \in Vec, Free(ShapePtr, s, v),
         NEW r \in Shapes, ShapePtr[r] = Null, NEW t, t = [s EXCEPT ![v] = r]
  PROVE  ShapesIn(t, m) /\ Free(ShapePtr, t, v)
<1>1. ShapePtr[r] = ShapePtr[s[v]]
  BY DEF Free
<1>2. Storage(Shapes, Item, ShapePtr, ShapePairs, s, m.heap)
  BY DEF ShapesIn
<1>3. Storage(Shapes, Item, ShapePtr, ShapePairs, t, m.heap)
  BY <1>1, <1>2, StorageKept, Zenon
<1>4. t[v] = r
  BY <1>2 DEF Storage
<1> QED  BY <1>3, <1>4 DEF ShapesIn, Free

LEMMA ShapeFunction ==
  ASSUME NEW s, NEW m, ShapesIn(s, m)
  PROVE  s \in [Vec -> Shapes]
BY DEF ShapesIn, Storage

LEMMA ShapeThrow ==
  ASSUME ShapeOK, NEW v \in Vec, NEW c, E!Throw(c, v)
  PROVE  ShapeOK'
<1>1. obj \in [Vec -> Shapes]
  BY ShapeFunction DEF ShapeOK
<1>2. mem' = mem /\ obj' = obj
  BY <1>1 DEF E!Throw, E!End
<1> QED  BY <1>2, Zenon DEF ShapeOK, ShapesIn, Storage, Memory

(* v, freed of its object, gets a copy of that of w *)
LEMMA ShapeCloned ==
  ASSUME ShapeOK, NEW v \in Vec, NEW w \in Vec, obj[w] # Absent, NEW old \in Item,
         NEW p, NEW m, p = [mem |-> m, shape |-> E!NoObject(old)],
         NEW t, t = [obj EXCEPT ![v] = E!NoObject(old)], ShapesIn(t, m),
         NEW c, E!Cloned(c, v, w, p)
  PROVE  ShapeOK'
<1>1. obj \in [Vec -> Shapes]
  BY ShapeFunction DEF ShapeOK
<1>2. PICK x : x = obj[w].vt
  OBVIOUS
<1>3. x \in Item
  BY <1>2, ShapeInScope, Zenon DEF ShapeOK
<1>4. Free(ShapePtr, t, v)
  <2>1. t[v] = E!NoObject(old)
    BY <1>1
  <2> QED  BY <2>1, ShapeTypes DEF Free
<1>5. CASE E!Throw(c, v)
  BY <1>5, ShapeThrow
<1>6. CASE obj[w].obj = Null
  <2>1. E!Return(c, v, [p EXCEPT !.shape.vt = x])
    BY <1>2, <1>6 DEF E!Cloned
  <2>2. [p EXCEPT !.shape.vt = x] = [mem |-> m, shape |-> E!NoObject(x)]
    BY DEF E!NoObject
  <2>3. mem' = m /\ obj' = [obj EXCEPT ![v] = E!NoObject(x)]
    BY <2>1, <2>2, Zenon DEF E!Return, E!End
  <2>4. PICK r, u : r = E!NoObject(x) /\ u = [t EXCEPT ![v] = r]
    BY Zenon
  <2>5. r \in Shapes /\ ShapePtr[r] = Null
    BY <1>3, <2>4, ShapeTypes
  <2>6. ShapesIn(u, m)
    BY <1>4, <2>4, <2>5, ShapeFreed, Zenon
  <2>7. u = obj'
    BY <1>1, <2>3, <2>4, Zenon
  <2> QED  BY <2>3, <2>6, <2>7 DEF ShapeOK
<1>7. CASE obj[w].obj # Null /\ E!Return(c, v, E!place_fn(p.mem, p.shape, x))
  <2>1. PICK q : q = E!place_fn(m, E!NoObject(old), x)
    OBVIOUS
  <2>2. mem' = q.mem /\ obj' = [obj EXCEPT ![v] = q.shape]
    BY <1>7, <2>1 DEF E!Return, E!End
  <2>3. PICK u : u = [t EXCEPT ![v] = q.shape]
    BY Zenon
  <2>4. ShapesIn(u, q.mem)
    BY <1>3, <1>4, <2>1, <2>3, ShapePlaced, Zenon
  <2>5. u = obj'
    BY <1>1, <2>2, <2>3, Zenon
  <2> QED  BY <2>2, <2>4, <2>5 DEF ShapeOK
<1> QED  BY <1>2, <1>5, <1>6, <1>7 DEF E!Cloned

(* v, freed of its object, takes that of w *)
LEMMA ShapeTaken ==
  ASSUME ShapeOK, NEW v \in Vec, NEW w \in Vec, v # w, obj[w] # Absent, NEW old \in Item,
         NEW p, NEW m, p = [mem |-> m, shape |-> E!NoObject(old)],
         NEW t, t = [obj EXCEPT ![v] = E!NoObject(old)], ShapesIn(t, m), E!Take(v, w, p)
  PROVE  ShapeOK'
<1>1. obj \in [Vec -> Shapes]
  BY ShapeFunction DEF ShapeOK
<1>2. Free(ShapePtr, t, v)
  <2>1. t[v] = E!NoObject(old)
    BY <1>1
  <2> QED  BY <2>1, ShapeTypes DEF Free
<1>3. mem' = m
  <2>1. p.shape.buf = Raw /\ p.mem = m
    BY DEF E!NoObject
  <2>2. mem' = [m EXCEPT !.sound = @ /\ (obj[w].obj = Buf => p.shape.buf = Raw)]
    BY <2>1 DEF E!Take
  <2>3. m \in Memory(Item)
    BY DEF ShapesIn
  <2> QED  BY <2>1, <2>2, <2>3, MemorySound
<1>4. t[w] = obj[w]
  BY <1>1
<1>5. PICK u : u = [t EXCEPT ![v] = t[w], ![w] = E!Emptied(t[w])]
  BY Zenon
<1>6. ShapesIn(u, m)
  BY <1>2, <1>4, <1>5, ShapeTake, Zenon
<1>7. obj' = [obj EXCEPT ![v] = obj[w], ![w] = E!Emptied(obj[w])]
  BY <1>1 DEF E!Take
<1>8. obj' = u
  BY <1>1, <1>4, <1>5, <1>7, Zenon
<1> QED  BY <1>3, <1>6, <1>8 DEF ShapeOK

(* what there is when v, which is not in scope, is to be made, and when it *)
(* is to be assigned to                                                    *)
LEMMA ShapeMade ==
  ASSUME ShapeOK, NEW v \in Vec, obj[v] = Absent, NEW x \in Item
  PROVE  ShapesIn([obj EXCEPT ![v] = E!NoObject(x)], mem)
<1>1. Free(ShapePtr, obj, v)
  BY ShapeTypes DEF Free
<1>2. PICK r, t : r = E!NoObject(x) /\ t = [obj EXCEPT ![v] = r]
  BY Zenon
<1>3. r \in Shapes /\ ShapePtr[r] = Null
  BY <1>2, ShapeTypes
<1>4. ShapesIn(t, mem)
  BY <1>1, <1>2, <1>3, ShapeFreed, Zenon DEF ShapeOK
<1> QED  BY <1>2, <1>4

LEMMA ShapeUnmade ==
  ASSUME ShapeOK, NEW v \in Vec, obj[v] # Absent, NEW p, p = E!destroy_fn(mem, obj[v], obj[v].vt)
  PROVE  /\ obj[v].vt \in Item /\ p = [mem |-> p.mem, shape |-> E!NoObject(obj[v].vt)]
         /\ ShapesIn([obj EXCEPT ![v] = E!NoObject(obj[v].vt)], p.mem)
         /\ ShapesIn([obj EXCEPT ![v] = Absent], p.mem)
<1>1. obj[v].vt \in Item
  BY ShapeInScope, Zenon DEF ShapeOK
<1>2. PICK u : u = [obj EXCEPT ![v] = Absent]
  BY Zenon
<1>3. ShapesIn(u, p.mem)
  BY <1>2, ShapeTypes, ShapeDestroyed, Zenon DEF ShapeOK
<1>31. p.shape = E!NoObject(obj[v].vt)
  BY <1>2, ShapeTypes, ShapeDestroyed DEF ShapeOK
<1>32. p = [mem |-> p.mem, shape |-> p.shape]
  BY DEF E!destroy_fn
<1>4. Free(ShapePtr, u, v)
  <2>1. u[v] = Absent
    BY <1>2, ShapeFunction DEF ShapeOK
  <2> QED  BY <2>1, ShapeTypes DEF Free
<1>5. PICK r, t, m : r = E!NoObject(obj[v].vt) /\ t = [u EXCEPT ![v] = r] /\ m = p.mem
  BY Zenon
<1>6. r \in Shapes /\ ShapePtr[r] = Null
  BY <1>1, <1>5, ShapeTypes
<1>7. ShapesIn(t, m)
  BY <1>3, <1>4, <1>5, <1>6, ShapeFreed, Zenon
<1>8. t = [obj EXCEPT ![v] = r]
  BY <1>2, <1>5, ShapeFunction, Zenon DEF ShapeOK
<1> QED  BY <1>1, <1>2, <1>3, <1>31, <1>32, <1>5, <1>7, <1>8, Zenon

LEMMA ShapeNext ==
  ASSUME ShapeOK, E!Next
  PROVE  ShapeOK'
<1> PICK v \in Vec : \/ E!Destructor(v)
                     \/ \E x \in Item : E!Ctor(v, x)
                     \/ \E w \in Vec : E!CopyCtor(v, w) \/ E!CopyAssign(v, w) \/ E!MoveCtor(v, w) \/ E!MoveAssign(v, w)
  BY DEF E!Next
<1>1. CASE E!Destructor(v)
  <2>1. PICK p : p = E!destroy_fn(mem, obj[v], obj[v].vt)
    OBVIOUS
  <2>2. obj[v] # Absent /\ mem' = p.mem /\ obj' = [obj EXCEPT ![v] = Absent]
    BY <1>1, <2>1 DEF E!Destructor, E!InScope, E!Return, E!End
  <2>3. ShapesIn([obj EXCEPT ![v] = Absent], p.mem)
    BY <2>1, <2>2, ShapeUnmade, Zenon
  <2> QED  BY <2>2, <2>3 DEF ShapeOK
<1>2. ASSUME NEW x \in Item, E!Ctor(v, x) PROVE ShapeOK'
  <2>1. PICK c : obj[v] = Absent /\ (E!Throw(c, v) \/ E!Return(c, v, E!place_fn(mem, E!NoObject(x), x)))
    BY <1>2 DEF E!Ctor, E!InScope
  <2>2. CASE E!Throw(c, v)
    BY <2>2, ShapeThrow
  <2>3. CASE E!Return(c, v, E!place_fn(mem, E!NoObject(x), x))
    <3>1. PICK p, t : p = E!place_fn(mem, E!NoObject(x), x) /\ t = [obj EXCEPT ![v] = p.shape]
      BY Zenon
    <3>2. mem' = p.mem /\ obj' = t
      BY <2>3, <3>1 DEF E!Return, E!End
    <3>3. Free(ShapePtr, obj, v)
      BY <2>1, ShapeTypes DEF Free
    <3>4. ShapesIn(t, p.mem)
      BY <3>1, <3>3, ShapePlaced, Zenon DEF ShapeOK
    <3> QED  BY <3>2, <3>4 DEF ShapeOK
  <2> QED  BY <2>1, <2>2, <2>3
<1>3. ASSUME NEW w \in Vec, E!CopyCtor(v, w) \/ E!MoveCtor(v, w) PROVE ShapeOK'
  <2>1. obj[v] = Absent /\ obj[w] # Absent /\ v # w
    BY <1>3 DEF E!CopyCtor, E!MoveCtor, E!InScope
  <2>2. PICK x : x = obj[w].vt
    OBVIOUS
  <2>3. x \in Item
    BY <2>1, <2>2, ShapeInScope, Zenon DEF ShapeOK
  <2>4. PICK p, t : p = [mem |-> mem, shape |-> E!NoObject(x)] /\ t = [obj EXCEPT ![v] = E!NoObject(x)]
    BY Zenon
  <2>5. ShapesIn(t, mem)
    BY <2>1, <2>3, <2>4, ShapeMade, Zenon
  <2>6. CASE E!CopyCtor(v, w)
    <3>1. PICK c : E!Cloned(c, v, w, p)
      BY <2>2, <2>4, <2>6 DEF E!CopyCtor
    <3> QED  BY <2>1, <2>3, <2>4, <2>5, <3>1, ShapeCloned, Zenon
  <2>7. CASE E!MoveCtor(v, w)
    <3>1. E!Take(v, w, p)
      BY <2>2, <2>4, <2>7 DEF E!MoveCtor
    <3> QED  BY <2>1, <2>3, <2>4, <2>5, <3>1, ShapeTaken, Zenon
  <2> QED  BY <1>3, <2>6, <2>7
<1>4. ASSUME NEW w \in Vec, E!CopyAssign(v, w) \/ E!MoveAssign(v, w) PROVE ShapeOK'
  <2>1. v # w /\ obj[v] # Absent /\ obj[w] # Absent
    BY <1>4 DEF E!CopyAssign, E!MoveAssign, E!InScope
  <2>2. PICK x, p, m : x = obj[v].vt /\ p = E!destroy_fn(mem, obj[v], x) /\ m = p.mem
    OBVIOUS
  <2>3. x \in Item /\ p = [mem |-> m, shape |-> E!NoObject(x)] /\ ShapesIn([obj EXCEPT ![v] = E!NoObject(x)], m)
    BY <2>1, <2>2, ShapeUnmade, Zenon
  <2>4. PICK t : t = [obj EXCEPT ![v] = E!NoObject(x)]
    BY Zenon
  <2>5. CASE E!CopyAssign(v, w)
    <3>1. PICK c : E!Cloned(c, v, w, p)
      BY <2>2, <2>5 DEF E!CopyAssign, E!OldTable
    <3>2. ShapesIn(t, m)
      BY <2>3, <2>4
    <3> QED  BY <2>1, <2>3, <2>4, <3>1, <3>2, ShapeCloned, Zenon
  <2>6. CASE E!MoveAssign(v, w)
    <3>1. E!Take(v, w, p)
      BY <2>2, <2>6 DEF E!MoveAssign, E!OldTable
    <3>2. ShapesIn(t, m)
      BY <2>3, <2>4
    <3> QED  BY <2>1, <2>3, <2>4, <3>1, <3>2, ShapeTaken, Zenon
  <2> QED  BY <1>4, <2>5, <2>6
<1> QED  BY <1>1, <1>2, <1>3, <1>4

LEMMA ShapeImplies ==
  ASSUME ShapeOK
  PROVE  E!OneObjectEach
<1> DEFINE heaped == {v \in {u \in Vec : E!InScope(u)} : obj[v].obj \notin {Null, Buf}}
<1>1. mem.sound = TRUE /\ DOMAIN mem.heap \subseteq Address
  <2>1. mem \in Memory(Item) /\ mem.heap \in Heaps(Item)
    BY DEF ShapeOK, ShapesIn, Storage
  <2> QED  BY <2>1, HeapType, Zenon DEF Memory
<1>2. Storage(Shapes, Item, ShapePtr, ShapePairs, obj, mem.heap)
  BY DEF ShapeOK, ShapesIn
<1>3. ASSUME NEW v \in heaped
      PROVE  /\ v \in Vec /\ ShapePtr[obj[v]] = obj[v].obj /\ ShapePtr[obj[v]] # Null
             /\ obj[v].obj \in DOMAIN mem.heap /\ mem.heap[obj[v].obj] = obj[v].vt
  BY ShapeInScope, Zenon DEF E!InScope, ShapeOK
<1>4. ASSUME NEW a \in DOMAIN mem.heap PROVE \E v \in heaped : obj[v].obj = a
  <2>1. a # Null
    BY <1>1, NullIsNoAddress
  <2>2. PICK v \in Vec : ShapePtr[obj[v]] = a
    BY <1>2 DEF Storage
  <2>3. obj[v] # Absent
    BY <2>1, <2>2, ShapeTypes
  <2>4. obj[v].obj = a /\ a # Buf
    BY <2>1, <2>2, <2>3, ShapeInScope, Zenon DEF ShapeOK
  <2> QED  BY <2>1, <2>3, <2>4 DEF E!InScope
<1>5. ASSUME NEW v \in heaped, NEW w \in heaped, obj[v].obj = obj[w].obj PROVE v = w
  BY <1>2, <1>3, <1>5 DEF Storage
<1>6. ASSUME NEW v \in Vec, obj[v] # Absent PROVE obj[v].buf = IF obj[v].obj = Buf THEN obj[v].vt ELSE Raw
  BY <1>6, ShapeInScope, Zenon DEF ShapeOK, ShapeIn
<1> HIDE DEF heaped
<1>7. DOMAIN mem.heap = {obj[v].obj : v \in heaped}
  BY <1>3, <1>4
<1> QED  BY <1>1, <1>3, <1>5, <1>6, <1>7 DEF E!OneObjectEach, E!InScope, heaped

-----------------------------------------------------------------------------
(* string: one with a short text has it in the object, one with another    *)
(* has it in a block with room for capacity_ characters.                   *)
StringRecords ==
  [size : Nat, ptr : Nat \cup {Null}, capacity : Nat \cup {Lost}, buffer : Seq(Item) \cup {Lost}]
LocalString(r) ==
  r.ptr = Null /\ r.capacity = Lost /\ r.buffer \in Seq(Item) /\ r.size = Len(r.buffer) /\ r.size < InlineSize
HeapString(r) ==
  r.ptr \in Address /\ r.capacity \in Nat /\ r.capacity >= InlineSize /\ r.buffer = Lost /\ r.size <= r.capacity

Strings == {r \in StringRecords : LocalString(r) \/ HeapString(r)} \cup {Absent}
StringPtr == [r \in Strings |-> IF r = Absent THEN Null ELSE r.ptr]
StringBlock == [room : Nat, text : Seq(Item)]
StringPairs ==
  {c \in Strings \X StringBlock : c[1] # Absent /\ c[2].room = c[1].capacity + 1 /\ c[1].size = Len(c[2].text)}

StringOK == mem \in Memory(StringBlock) /\ Storage(Strings, StringBlock, StringPtr, StringPairs, obj, mem.heap)

LEMMA StringConstants ==
  InlineSize \in Nat /\ InlineSize > 1 /\ Null \notin Address /\ Absent \notin StringRecords /\ Address \subseteq Nat
BY SingleThreadedAssumption DEF StringRecords, Address

LEMMA StringTypes ==
  StringPtr \in [Strings -> Address \cup {Null}] /\ Absent \in Strings /\ StringPtr[Absent] = Null
BY DEF StringPtr, Strings, LocalString, HeapString

LEMMA StringIs ==
  ASSUME NEW r \in StringRecords, LocalString(r) \/ HeapString(r)
  PROVE  r \in Strings /\ r # Absent /\ StringPtr[r] = r.ptr
BY StringConstants DEF Strings, StringPtr

LEMMA StringLocal ==
  ASSUME NEW s \in Seq(Item), Len(s) < InlineSize, NEW r, r = S!Local(s)
  PROVE  r \in Strings /\ StringPtr[r] = Null
<1>1. r = [size |-> Len(s), ptr |-> Null, capacity |-> Lost, buffer |-> s] /\ Len(s) \in Nat
  BY DEF S!Local
<1>2. r \in StringRecords /\ LocalString(r) /\ r.ptr = Null
  BY <1>1 DEF StringRecords, LocalString
<1> QED  BY <1>2, StringIs

LEMMA StringOnHeap ==
  ASSUME NEW s \in Seq(Item), NEW n \in Nat, n >= InlineSize, Len(s) <= n, NEW a \in Address,
         NEW r, r = S!OnHeap(a, Len(s), n), NEW x, x = [room |-> n + 1, text |-> s]
  PROVE  r \in Strings /\ StringPtr[r] = a /\ x \in StringBlock /\ <<r, x>> \in StringPairs
<1>1. r = [size |-> Len(s), ptr |-> a, capacity |-> n, buffer |-> Lost] /\ Len(s) \in Nat /\ a \in Nat
  BY StringConstants DEF S!OnHeap
<1>2. r \in StringRecords /\ HeapString(r) /\ r.ptr = a
  BY <1>1 DEF StringRecords, HeapString
<1>3. r \in Strings /\ r # Absent /\ StringPtr[r] = a
  BY <1>2, StringIs
<1>4. x \in StringBlock /\ x.room = r.capacity + 1 /\ r.size = Len(x.text)
  BY <1>1 DEF StringBlock
<1> QED  BY <1>3, <1>4 DEF StringPairs

(* what a string in scope is *)
LEMMA StringInScope ==
  ASSUME StringOK, NEW v \in Vec, obj[v] # Absent
  PROVE  /\ obj[v] \in StringRecords /\ obj[v] \in Strings /\ StringPtr[obj[v]] = obj[v].ptr
         /\ obj[v].ptr = Null => LocalString(obj[v])
         /\ obj[v].ptr # Null => /\ HeapString(obj[v]) /\ obj[v].ptr \in DOMAIN mem.heap
                                 /\ mem.heap[obj[v].ptr] \in StringBlock
                                 /\ mem.heap[obj[v].ptr].room = obj[v].capacity + 1
                                 /\ obj[v].size = Len(mem.heap[obj[v].ptr].text)
<1>1. obj[v] \in StringRecords /\ obj[v] \in Strings /\ (LocalString(obj[v]) \/ HeapString(obj[v]))
  BY DEF StringOK, Storage, Strings
<1>2. StringPtr[obj[v]] = obj[v].ptr
  BY <1>1 DEF StringPtr
<1>3. ASSUME obj[v].ptr # Null
      PROVE  /\ obj[v].ptr \in DOMAIN mem.heap /\ mem.heap[obj[v].ptr] \in StringBlock
             /\ mem.heap[obj[v].ptr].room = obj[v].capacity + 1
             /\ obj[v].size = Len(mem.heap[obj[v].ptr].text)
  <2>1. obj[v].ptr \in DOMAIN mem.heap /\ <<obj[v], mem.heap[obj[v].ptr]>> \in StringPairs
    BY <1>2, <1>3 DEF StringOK, Storage
  <2> QED  BY <2>1 DEF StringPairs
<1> QED  BY <1>1, <1>2, <1>3, StringConstants DEF LocalString, HeapString

(* its text and its capacity *)
LEMMA StringText ==
  ASSUME StringOK, NEW v \in Vec, obj[v] # Absent
  PROVE  /\ S!TextOf(v) \in Seq(Item) /\ obj[v].size = Len(S!TextOf(v)) /\ obj[v].size \in Nat
         /\ S!capacity(v) \in Nat /\ obj[v].size <= S!capacity(v)
         /\ S!is_local(v) => S!capacity(v) = InlineSize - 1
         /\ ~ S!is_local(v) => S!capacity(v) = obj[v].capacity /\ obj[v].capacity \in Nat /\ obj[v].capacity >= InlineSize
<1>1. CASE obj[v].ptr = Null
  <2>1. S!is_local(v) /\ S!TextOf(v) = obj[v].buffer /\ S!capacity(v) = InlineSize - 1
    BY <1>1 DEF S!is_local, S!TextOf, S!capacity
  <2>2. obj[v].buffer \in Seq(Item) /\ obj[v].size = Len(obj[v].buffer) /\ obj[v].size < InlineSize /\ obj[v].size \in Nat
    BY <1>1, StringInScope DEF LocalString, StringRecords
  <2> QED  BY <2>1, <2>2, StringConstants
<1>2. CASE obj[v].ptr # Null
  <2>1. ~ S!is_local(v) /\ S!TextOf(v) = mem.heap[obj[v].ptr].text /\ S!capacity(v) = obj[v].capacity
    BY <1>2 DEF S!is_local, S!TextOf, S!capacity
  <2>2. /\ obj[v].capacity \in Nat /\ obj[v].capacity >= InlineSize /\ obj[v].size <= obj[v].capacity /\ obj[v].size \in Nat
        /\ mem.heap[obj[v].ptr] \in StringBlock /\ obj[v].size = Len(mem.heap[obj[v].ptr].text)
    BY <1>2, StringInScope DEF HeapString, StringRecords
  <2>3. mem.heap[obj[v].ptr].text \in Seq(Item)
    BY <2>2 DEF StringBlock
  <2> QED  BY <2>1, <2>2, <2>3
<1> QED  BY <1>1, <1>2

LEMMA StringInit == S!Init => StringOK
<1> SUFFICES ASSUME S!Init PROVE StringOK
  OBVIOUS
<1>1. obj = [v \in Vec |-> Absent] /\ mem = [heap |-> [a \in {} |-> Null], sound |-> TRUE]
  BY DEF S!Init
<1>2. mem \in Memory(StringBlock) /\ mem.heap = [a \in {} |-> Null]
  BY <1>1, HeapEmpty, MemoryIs
<1> QED  BY <1>1, <1>2, StringTypes, StorageInit DEF StringOK

LEMMA StringFunction ==
  ASSUME StringOK
  PROVE  /\ obj \in [Vec -> Strings] /\ mem \in Memory(StringBlock)
         /\ mem.heap \in Heaps(StringBlock) /\ mem.sound = TRUE
BY Zenon DEF StringOK, Storage, Memory

LEMMA StringThrow ==
  ASSUME StringOK, NEW v \in Vec, NEW c, S!Throw(c, v)
  PROVE  StringOK'
<1>1. mem' = mem /\ obj' = obj
  BY StringFunction DEF S!Throw, S!End
<1> QED  BY <1>1, Zenon DEF StringOK, Storage, Memory

(* the block of v goes, if it has one *)
LEMMA StringReleased ==
  ASSUME StringOK, NEW v \in Vec, obj[v] # Absent, NEW r \in Strings, StringPtr[r] = Null, NEW q,
         mem' = S!release(mem, v, q), obj' = [obj EXCEPT ![v] = r]
  PROVE  StringOK'
<1>1. mem \in Memory(StringBlock) /\ mem.heap \in Heaps(StringBlock) /\ mem.sound = TRUE
  BY StringFunction, Zenon
<1>2. Storage(Strings, StringBlock, StringPtr, StringPairs, obj, mem.heap)
  BY DEF StringOK
<1>3. StringPtr[obj[v]] = obj[v].ptr
  BY StringInScope
<1>4. CASE obj[v].ptr = Null
  <2>1. mem' = mem
    BY <1>4 DEF S!release, S!is_local
  <2>2. StringPtr[r] = StringPtr[obj[v]]
    BY <1>3, <1>4
  <2>3. Storage(Strings, StringBlock, StringPtr, StringPairs, obj', mem.heap)
    BY <1>2, <2>2, StorageKept, Zenon
  <2> QED  BY <1>1, <2>1, <2>3 DEF StringOK
<1>5. CASE obj[v].ptr # Null
  <2>1. PICK g : g = Without(mem.heap, {StringPtr[obj[v]]})
    OBVIOUS
  <2>2. mem' = [heap |-> g, sound |-> TRUE]
    BY <1>1, <1>3, <1>5, <2>1, StringInScope, Zenon DEF S!release, S!is_local, S!Without, Without
  <2>3. Storage(Strings, StringBlock, StringPtr, StringPairs, obj', g)
    BY <1>2, <2>1, StorageGone, Zenon
  <2>4. g \in Heaps(StringBlock)
    BY <2>3 DEF Storage
  <2>5. mem' \in Memory(StringBlock) /\ mem'.heap = g
    BY <2>2, <2>4, MemoryIs
  <2> QED  BY <2>3, <2>5 DEF StringOK
<1> QED  BY <1>4, <1>5

LEMMA StringAllocate ==
  ASSUME StringOK, NEW n \in Nat, NEW s \in Seq(Item), Len(s) <= n
  PROVE  /\ S!New(mem) \in Address /\ S!New(mem) \notin DOMAIN mem.heap
         /\ S!allocate(mem, n, s) = [heap |-> With(mem.heap, S!New(mem), [room |-> n + 1, text |-> s]), sound |-> TRUE]
<1>1. S!New(mem) = NewAddress(mem.heap)
  BY DEF S!New, S!NewAddress, S!Cardinality, NewAddress, Cardinality
<1>2. S!New(mem) \in Address /\ S!New(mem) \notin DOMAIN mem.heap
  BY <1>1, StringFunction, NewIsFree
<1>3. S!allocate(mem, n, s) = [heap |-> With(mem.heap, S!New(mem), [room |-> n + 1, text |-> s]), sound |-> TRUE]
  BY StringFunction, Zenon DEF S!allocate, S!With, With
<1> QED  BY <1>2, <1>3

(* v gets a block with the text s, and the one it had goes *)
LEMMA StringRelocated ==
  ASSUME StringOK, NEW v \in Vec, NEW n \in Nat, n >= InlineSize, NEW s \in Seq(Item), Len(s) <= n,
         NEW q, obj' = [obj EXCEPT ![v] = S!OnHeap(S!New(mem), Len(s), n)],
         \/ obj[v] = Absent /\ mem' = S!allocate(mem, n, s)
         \/ obj[v] # Absent /\ mem' = S!release(S!allocate(mem, n, s), v, q)
  PROVE  StringOK'
<1>1. mem \in Memory(StringBlock) /\ mem.heap \in Heaps(StringBlock) /\ mem.sound = TRUE
  BY StringFunction, Zenon
<1>2. Storage(Strings, StringBlock, StringPtr, StringPairs, obj, mem.heap)
  BY DEF StringOK
<1>3. PICK a, x, r : a = S!New(mem) /\ x = [room |-> n + 1, text |-> s] /\ r = S!OnHeap(a, Len(s), n)
  BY Zenon
<1>4. PICK f, made : f = With(mem.heap, a, x) /\ made = S!allocate(mem, n, s)
  OBVIOUS
<1>5. a \in Address /\ a \notin DOMAIN mem.heap /\ made = [heap |-> f, sound |-> TRUE]
  BY <1>3, <1>4, StringAllocate
<1>6. r \in Strings /\ StringPtr[r] = a /\ x \in StringBlock /\ <<r, x>> \in StringPairs
  BY <1>3, <1>5, StringOnHeap
<1>7. PICK t : t = [obj EXCEPT ![v] = r]
  BY Zenon
<1>8. obj' = t
  BY <1>3, <1>7
<1>9. CASE mem' = made /\ StringPtr[obj[v]] = Null
  <2>1. Free(StringPtr, obj, v)
    BY <1>9 DEF Free
  <2>2. Storage(Strings, StringBlock, StringPtr, StringPairs, t, f)
    BY <1>2, <1>4, <1>5, <1>6, <1>7, <2>1, StorageNew, Zenon
  <2>3. f \in Heaps(StringBlock)
    BY <2>2 DEF Storage
  <2>4. mem' \in Memory(StringBlock) /\ mem'.heap = f
    BY <1>5, <1>9, <2>3, MemoryIs
  <2> QED  BY <1>8, <2>2, <2>4, Zenon DEF StringOK
<1>10. CASE mem' = S!release(made, v, q) /\ obj[v] # Absent /\ obj[v].ptr # Null
  <2>1. obj[v].ptr \in DOMAIN mem.heap /\ StringPtr[obj[v]] = obj[v].ptr
    BY <1>10, StringInScope
  <2>2. obj[v].ptr \in DOMAIN f
    BY <1>4, <2>1 DEF With
  <2>3. PICK g : g = Without(f, {StringPtr[obj[v]]})
    OBVIOUS
  <2>4. mem' = [heap |-> g, sound |-> TRUE]
    BY <1>5, <1>10, <2>1, <2>2, <2>3, Zenon DEF S!release, S!is_local, S!Without, Without
  <2>5. Storage(Strings, StringBlock, StringPtr, StringPairs, t, g)
    BY <1>2, <1>4, <1>5, <1>6, <1>7, <2>3, StorageReplaced, Zenon
  <2>6. g \in Heaps(StringBlock)
    BY <2>5 DEF Storage
  <2>7. mem' \in Memory(StringBlock) /\ mem'.heap = g
    BY <2>4, <2>6, MemoryIs
  <2> QED  BY <1>8, <2>5, <2>7, Zenon DEF StringOK
<1>11. CASE mem' = S!release(made, v, q) /\ obj[v] # Absent /\ obj[v].ptr = Null
  <2>1. mem' = made
    BY <1>11 DEF S!release, S!is_local
  <2>2. StringPtr[obj[v]] = Null
    BY <1>11, StringInScope
  <2> QED  BY <1>9, <2>1, <2>2
<1> QED  BY <1>4, <1>9, <1>10, <1>11, StringTypes

(* the text of v becomes s where it is *)
LEMMA StringRewritten ==
  ASSUME StringOK, NEW v \in Vec, obj[v] # Absent, NEW s \in Seq(Item), Len(s) <= S!capacity(v),
         NEW c, S!Rewrite(c, v, s)
  PROVE  StringOK'
<1>1. Len(s) \in Nat
  OBVIOUS
<1>2. CASE obj[v].ptr = Null
  <2>1. PICK r : r = S!Local(s)
    OBVIOUS
  <2>2. Len(s) < InlineSize
    BY <1>1, <1>2, StringText, StringConstants DEF S!is_local
  <2>3. r \in Strings /\ StringPtr[r] = Null
    BY <2>1, <2>2, StringLocal
  <2>4. mem' = S!release(mem, v, r) /\ obj' = [obj EXCEPT ![v] = r]
    BY <1>2, <2>1 DEF S!Rewrite, S!Return, S!End, S!release, S!is_local
  <2> QED  BY <2>3, <2>4, StringReleased, Zenon
<1>3. CASE obj[v].ptr # Null
  <2>1. PICK a, block : a = obj[v].ptr /\ block = mem.heap[a]
    OBVIOUS
  <2>2. /\ obj[v] \in StringRecords /\ HeapString(obj[v]) /\ StringPtr[obj[v]] = a
        /\ a \in DOMAIN mem.heap /\ a # Null /\ block \in StringBlock /\ block.room = obj[v].capacity + 1
    BY <1>3, <2>1, StringInScope
  <2>3. PICK r : r = [obj[v] EXCEPT !.size = Len(s)]
    BY Zenon
  <2>4. PICK x : x = [block EXCEPT !.text = s]
    BY Zenon
  <2>5. PICK g : g = [mem.heap EXCEPT ![StringPtr[obj[v]]] = x]
    BY Zenon
  <2>6. x \in StringBlock /\ x.room = block.room /\ x.text = s
    BY <2>2, <2>4 DEF StringBlock
  <2>7. /\ r \in StringRecords /\ r.size = Len(s) /\ r.ptr = obj[v].ptr
        /\ r.capacity = obj[v].capacity /\ r.buffer = obj[v].buffer
    BY <1>1, <2>2, <2>3 DEF StringRecords
  <2>8. Len(s) <= obj[v].capacity
    BY <1>3, StringText DEF S!is_local
  <2>9. HeapString(r)
    BY <2>2, <2>7, <2>8 DEF HeapString
  <2>10. r \in Strings /\ r # Absent /\ StringPtr[r] = a
    BY <2>1, <2>7, <2>9, StringIs
  <2>11. <<r, x>> \in StringPairs
    BY <2>2, <2>6, <2>7, <2>10 DEF StringPairs
  <2>12. Len(s) < block.room
    BY <1>1, <2>2, <2>8 DEF HeapString
  <2>13. mem' = [heap |-> g, sound |-> TRUE] /\ obj' = [obj EXCEPT ![v] = r]
    <3>1. mem.sound = TRUE
      BY StringFunction, Zenon
    <3>2. [mem.heap EXCEPT ![a].text = s] = g
      BY <2>1, <2>2, <2>4, <2>5
    <3>3. mem' = [heap |-> [mem.heap EXCEPT ![a].text = s], sound |-> mem.sound /\ Len(s) < block.room]
      BY <1>3, <2>1 DEF S!Rewrite, S!Return, S!End, S!is_local
    <3>4. obj' = [obj EXCEPT ![v] = r]
      BY <1>3, <2>3 DEF S!Rewrite, S!Return, S!End, S!is_local
    <3> QED  BY <2>12, <3>1, <3>2, <3>3, <3>4, Zenon
  <2>14. Storage(Strings, StringBlock, StringPtr, StringPairs, obj, mem.heap)
    BY DEF StringOK
  <2>15. PICK t : t = [obj EXCEPT ![v] = r]
    BY Zenon
  <2>16. StringPtr[obj[v]] # Null /\ StringPtr[r] = StringPtr[obj[v]]
    BY <2>2, <2>10
  <2>17. Storage(Strings, StringBlock, StringPtr, StringPairs, t, g)
    BY <2>5, <2>6, <2>10, <2>11, <2>14, <2>15, <2>16, StorageChanged, Zenon
  <2>18. g \in Heaps(StringBlock)
    BY <2>17 DEF Storage
  <2>19. mem' \in Memory(StringBlock) /\ mem'.heap = g
    BY <2>13, <2>18, MemoryIs
  <2> QED  BY <2>13, <2>15, <2>17, <2>19 DEF StringOK
<1> QED  BY <1>2, <1>3

(* v takes over what w has, and what v had goes *)
LEMMA StringTaken ==
  ASSUME StringOK, NEW v \in Vec, NEW w \in Vec, v # w, obj[w] # Absent, NEW q, NEW m, S!Take(v, w, m),
         \/ obj[v] = Absent /\ m = mem
         \/ obj[v] # Absent /\ m = S!release(mem, v, q)
  PROVE  StringOK'
<1>1. mem \in Memory(StringBlock) /\ mem.heap \in Heaps(StringBlock) /\ mem.sound = TRUE
  BY StringFunction, Zenon
<1>2. Storage(Strings, StringBlock, StringPtr, StringPairs, obj, mem.heap)
  BY DEF StringOK
<1>3. PICK r, g, t : /\ r = S!Local(<<>>) /\ g = Without(mem.heap, {StringPtr[obj[v]]})
                     /\ t = [obj EXCEPT ![v] = obj[w], ![w] = r]
  BY Zenon
<1>4. r \in Strings /\ StringPtr[r] = Null
  <2>1. <<>> \in Seq(Item) /\ Len(<<>>) < InlineSize
    BY StringConstants
  <2> QED  BY <1>3, <2>1, StringLocal, Zenon
<1>5. Storage(Strings, StringBlock, StringPtr, StringPairs, t, g)
  BY <1>2, <1>3, <1>4, StorageMoved, Zenon
<1>6. obj' = t /\ mem' = m
  BY <1>3 DEF S!Take
<1>7. g \in Heaps(StringBlock)
  BY <1>5 DEF Storage
<1>8. CASE obj[v] = Absent \/ obj[v].ptr = Null
  <2>1. mem' = mem
    BY <1>6, <1>8 DEF S!release, S!is_local
  <2>2. StringPtr[obj[v]] = Null
    BY <1>8, StringInScope, StringTypes
  <2>3. g = mem.heap
    BY <1>1, <1>3, <2>2, WithoutNothing, Zenon
  <2> QED  BY <1>1, <1>5, <1>6, <2>1, <2>3 DEF StringOK
<1>9. CASE obj[v] # Absent /\ obj[v].ptr # Null
  <2>1. mem' = [heap |-> g, sound |-> TRUE]
    BY <1>1, <1>3, <1>6, <1>9, StringInScope, Zenon DEF S!release, S!is_local, S!Without, Without
  <2>2. mem' \in Memory(StringBlock) /\ mem'.heap = g
    BY <1>7, <2>1, MemoryIs
  <2> QED  BY <1>5, <1>6, <2>2 DEF StringOK
<1> QED  BY <1>8, <1>9

LEMMA StringRelocate ==
  ASSUME StringOK, NEW v \in Vec, obj[v] # Absent, NEW n \in Nat, n >= InlineSize, NEW s \in Seq(Item), Len(s) <= n,
         NEW c, S!Relocate(c, v, n, s)
  PROVE  StringOK'
<1>1. CASE S!Throw(c, v)
  BY <1>1, StringThrow
<1>2. CASE S!Replace(c, S!allocate(mem, n, s), v, S!OnHeap(S!New(mem), Len(s), n))
  <2>1. PICK q : q = S!OnHeap(S!New(mem), Len(s), n)
    OBVIOUS
  <2>2. mem' = S!release(S!allocate(mem, n, s), v, q) /\ obj' = [obj EXCEPT ![v] = S!OnHeap(S!New(mem), Len(s), n)]
    BY <1>2, <2>1 DEF S!Replace, S!Return, S!End
  <2> QED  BY <2>2, StringRelocated, Zenon
<1> QED  BY <1>1, <1>2 DEF S!Relocate

(* a new string *)
LEMMA StringFresh ==
  ASSUME StringOK, NEW v \in Vec, obj[v] = Absent, NEW s \in Seq(Item), NEW n,
         Len(s) >= InlineSize => n \in Nat /\ Len(s) <= n, NEW c, S!Fresh(c, v, s, n)
  PROVE  StringOK'
<1>1. Len(s) \in Nat /\ InlineSize \in Nat
  BY StringConstants
<1>2. CASE S!Throw(c, v)
  BY <1>2, StringThrow
<1>3. CASE Len(s) < InlineSize
  <2>1. PICK r : r = S!Local(s)
    OBVIOUS
  <2>2. r \in Strings /\ StringPtr[r] = Null
    BY <1>3, <2>1, StringLocal
  <2>3. mem' = mem /\ obj' = [obj EXCEPT ![v] = r]
    BY <1>3, <2>1 DEF S!Fresh, S!Fits, S!Return, S!End
  <2>4. PICK t : t = [obj EXCEPT ![v] = r]
    BY Zenon
  <2>5. Storage(Strings, StringBlock, StringPtr, StringPairs, obj, mem.heap) /\ StringPtr[r] = StringPtr[obj[v]]
    BY <2>2, StringTypes DEF StringOK
  <2>6. Storage(Strings, StringBlock, StringPtr, StringPairs, t, mem.heap)
    BY <2>2, <2>4, <2>5, StorageKept, Zenon
  <2> QED  BY <2>3, <2>4, <2>6, StringFunction DEF StringOK
<1>4. CASE Len(s) >= InlineSize /\ ~ S!Throw(c, v)
  <2>1. mem' = S!allocate(mem, n, s) /\ obj' = [obj EXCEPT ![v] = S!OnHeap(S!New(mem), Len(s), n)]
    BY <1>1, <1>4 DEF S!Fresh, S!Fits, S!Return, S!End
  <2>2. n \in Nat /\ n >= InlineSize /\ Len(s) <= n
    BY <1>1, <1>4
  <2> QED  BY <2>1, <2>2, StringRelocated, Zenon
<1> QED  BY <1>1, <1>2, <1>3, <1>4

LEMMA StringAppend ==
  ASSUME StringOK, NEW v \in Vec, NEW arg, NEW s \in Seq(Item), S!append(v, arg, s)
  PROVE  StringOK'
<1> DEFINE n == obj[v].size + Len(s)
           long == S!TextOf(v) \o s
<1>1. PICK c : obj[v] # Absent /\ IF n <= S!capacity(v) THEN S!Rewrite(c, v, long) ELSE S!Relocate(c, v, 2 * n, long)
  BY DEF S!append, S!InScope
<1>2. /\ S!TextOf(v) \in Seq(Item) /\ obj[v].size = Len(S!TextOf(v)) /\ obj[v].size \in Nat
      /\ S!capacity(v) \in Nat /\ S!capacity(v) >= InlineSize - 1 /\ InlineSize \in Nat /\ InlineSize > 1
  BY <1>1, StringText, StringConstants
<1>3. long \in Seq(Item) /\ Len(long) = n /\ n \in Nat
  BY <1>2
<1> HIDE DEF long
<1>4. CASE n <= S!capacity(v)
  BY <1>1, <1>3, <1>4, StringRewritten
<1>5. CASE n > S!capacity(v)
  <2>1. 2 * n \in Nat /\ 2 * n >= InlineSize /\ Len(long) <= 2 * n
    BY <1>2, <1>3, <1>5
  <2>2. S!Relocate(c, v, 2 * n, long)
    BY <1>1, <1>2, <1>3, <1>5
  <2> QED  BY <1>1, <1>3, <2>1, <2>2, StringRelocate
<1> QED  BY <1>2, <1>3, <1>4, <1>5

LEMMA StringPushBack ==
  ASSUME StringOK, NEW v \in Vec, NEW x \in Item, S!push_back(v, x)
  PROVE  StringOK'
<1> DEFINE n == 2 * S!capacity(v)
           long == Append(S!TextOf(v), x)
<1>1. PICK c : /\ obj[v] # Absent
               /\ IF S!Full(v) /\ ~S!HasRoom(v, n) THEN S!Relocate(c, v, n, long) ELSE S!Rewrite(c, v, long)
  BY DEF S!push_back, S!InScope
<1>2. /\ S!TextOf(v) \in Seq(Item) /\ obj[v].size = Len(S!TextOf(v)) /\ obj[v].size \in Nat
      /\ S!capacity(v) \in Nat /\ S!capacity(v) >= InlineSize - 1 /\ InlineSize \in Nat /\ InlineSize > 1
      /\ obj[v].size <= S!capacity(v)
      /\ ~ S!is_local(v) => obj[v].capacity = S!capacity(v)
  BY <1>1, StringText, StringConstants
<1>3. long \in Seq(Item) /\ Len(long) = obj[v].size + 1 /\ n \in Nat /\ n >= InlineSize
  BY <1>2
<1>4. ~ S!HasRoom(v, n)
  BY <1>2, <1>3 DEF S!HasRoom
<1> HIDE DEF long
<1>5. CASE S!Full(v)
  <2>1. Len(long) <= n
    BY <1>2, <1>3, <1>5 DEF S!Full
  <2>2. S!Relocate(c, v, n, long)
    BY <1>1, <1>4, <1>5
  <2> HIDE DEF n
  <2> QED  BY <1>1, <1>3, <2>1, <2>2, StringRelocate
<1>6. CASE ~ S!Full(v)
  <2>1. Len(long) <= S!capacity(v)
    BY <1>2, <1>3, <1>6 DEF S!Full
  <2>2. S!Rewrite(c, v, long)
    BY <1>1, <1>6
  <2> QED  BY <1>1, <1>3, <2>1, <2>2, StringRewritten
<1> QED  BY <1>5, <1>6

LEMMA LiteralTexts ==
  ASSUME NEW s \in Literals
  PROVE  s \in Seq(Item)
<1>1. <<>> \in Seq(Item) /\ <<Default>> \in Seq(Item)
  BY SingleThreadedAssumption
<1>2. ASSUME NEW f \in [1 .. 3 -> Item] PROVE f \in Seq(Item)
  <2>1. Seq(Item) = UNION {[1 .. n -> Item] : n \in Nat}
    BY SeqDef
  <2>2. [1 .. 3 -> Item] \in {[1 .. n -> Item] : n \in Nat}
    BY Zenon
  <2> QED  BY <2>1, <2>2, Zenon
<1> QED  BY <1>1, <1>2, Zenon DEF Literals

LEMMA StringReserve ==
  ASSUME StringOK, NEW v \in Vec, NEW n \in Nat, S!reserve(v, n)
  PROVE  StringOK'
<1>1. PICK c : /\ obj[v] # Absent
               /\ IF S!HasRoom(v, n) THEN S!Return(c, mem, v, obj[v]) ELSE S!Relocate(c, v, n, S!TextOf(v))
  BY DEF S!reserve, S!InScope
<1>2. CASE S!HasRoom(v, n)
  <2>1. mem' = mem /\ obj' = obj
    BY <1>1, <1>2, StringFunction, Zenon DEF S!Return, S!End
  <2> QED  BY <2>1, Zenon DEF StringOK, Storage, Memory
<1>3. CASE ~ S!HasRoom(v, n)
  <2>1. PICK s : s = S!TextOf(v)
    OBVIOUS
  <2>2. s \in Seq(Item) /\ obj[v].size = Len(s)
    BY <1>1, <2>1, StringText
  <2>3. /\ S!is_local(v) => Len(s) <= InlineSize - 1
        /\ ~ S!is_local(v) => Len(s) <= obj[v].capacity /\ obj[v].capacity \in Nat
    BY <1>1, <2>2, StringText
  <2>4. n >= InlineSize /\ (S!is_local(v) \/ n > obj[v].capacity)
    BY <1>3, <2>3, StringConstants DEF S!HasRoom
  <2>5. Len(s) <= n
    BY <2>2, <2>3, <2>4, StringConstants
  <2> QED  BY <1>1, <1>3, <2>1, <2>2, <2>4, <2>5, StringRelocate
<1> QED  BY <1>2, <1>3

LEMMA StringCopy ==
  ASSUME StringOK, NEW v \in Vec, NEW w \in Vec, S!CopyCtor(v, w) \/ S!CopyAssign(v, w)
  PROVE  StringOK'
<1>1. obj[w] # Absent
  BY DEF S!CopyCtor, S!CopyAssign, S!InScope
<1>2. PICK s : s = S!TextOf(w)
  OBVIOUS
<1>3. /\ s \in Seq(Item) /\ Len(s) \in Nat /\ obj[w].size = Len(s) /\ Len(s) <= S!capacity(w) /\ InlineSize \in Nat
      /\ S!is_local(w) => S!capacity(w) = InlineSize - 1
      /\ ~ S!is_local(w) => S!capacity(w) = obj[w].capacity /\ obj[w].capacity \in Nat
  BY <1>1, <1>2, StringText, StringConstants
<1>4. CASE S!CopyCtor(v, w)
  <2>1. PICK c : obj[v] = Absent /\ S!Fresh(c, v, s, obj[w].capacity)
    BY <1>2, <1>4 DEF S!CopyCtor, S!InScope
  <2>2. Len(s) >= InlineSize => obj[w].capacity \in Nat /\ Len(s) <= obj[w].capacity
    BY <1>3
  <2> QED  BY <1>3, <2>1, <2>2, StringFresh, Zenon
<1>5. CASE S!CopyAssign(v, w)
  <2>1. PICK c : /\ obj[v] # Absent
                 /\ IF S!Fits(s) THEN S!Replace(c, mem, v, S!Local(s)) ELSE S!Relocate(c, v, Len(s), s)
    BY <1>2, <1>5 DEF S!CopyAssign, S!InScope, S!Relocate
  <2>2. CASE Len(s) < InlineSize
    <3>1. PICK r : r = S!Local(s)
      OBVIOUS
    <3>2. r \in Strings /\ StringPtr[r] = Null
      BY <1>3, <2>2, <3>1, StringLocal
    <3>3. mem' = S!release(mem, v, r) /\ obj' = [obj EXCEPT ![v] = r]
      BY <2>1, <2>2, <3>1 DEF S!Fits, S!Replace, S!Return, S!End
    <3> QED  BY <2>1, <3>2, <3>3, StringReleased, Zenon
  <2>3. CASE Len(s) >= InlineSize
    <3>1. S!Relocate(c, v, Len(s), s)
      BY <1>3, <2>1, <2>3 DEF S!Fits
    <3> QED  BY <1>3, <2>1, <2>3, <3>1, StringRelocate
  <2> QED  BY <1>3, <2>2, <2>3
<1> QED  BY <1>4, <1>5

LEMMA StringNext ==
  ASSUME StringOK, S!Next
  PROVE  StringOK'
<1> PICK v \in Vec :
      \/ S!Destructor(v) \/ S!clear(v)
      \/ \E s \in Literals : S!Ctor(v, s) \/ S!append(v, s, s)
      \/ \E w \in Vec : \/ S!CopyCtor(v, w) \/ S!CopyAssign(v, w) \/ S!MoveCtor(v, w) \/ S!MoveAssign(v, w)
                        \/ S!InScope(w) /\ S!append(v, w, S!TextOf(w))
      \/ \E n \in 0 .. MaxCapacity : S!reserve(v, n)
      \/ \E x \in Item : S!push_back(v, x)
  BY DEF S!Next
<1>1. CASE S!Destructor(v)
  <2>1. obj[v] # Absent /\ mem' = S!release(mem, v, obj[v]) /\ obj' = [obj EXCEPT ![v] = Absent]
    BY <1>1 DEF S!Destructor, S!InScope, S!Return, S!End
  <2> QED  BY <2>1, StringTypes, StringReleased, Zenon
<1>2. CASE S!clear(v)
  <2>1. PICK c : obj[v] # Absent /\ S!Rewrite(c, v, <<>>)
    BY <1>2 DEF S!clear, S!InScope
  <2>2. PICK s : s = <<>>
    OBVIOUS
  <2>3. s \in Seq(Item) /\ Len(s) = 0 /\ 0 <= S!capacity(v)
    BY <2>1, <2>2, StringText
  <2> QED  BY <2>1, <2>2, <2>3, StringRewritten, Zenon
<1>3. ASSUME NEW s \in Literals, S!Ctor(v, s) \/ S!append(v, s, s) PROVE StringOK'
  <2>1. s \in Seq(Item) /\ Len(s) \in Nat
    BY LiteralTexts
  <2>2. CASE S!Ctor(v, s)
    <3>1. PICK c : obj[v] = Absent /\ S!Fresh(c, v, s, Len(s))
      BY <2>2 DEF S!Ctor, S!InScope
    <3>2. PICK n : n = Len(s)
      BY Zenon
    <3>3. n \in Nat /\ Len(s) <= n
      BY <2>1, <3>2
    <3> QED  BY <2>1, <3>1, <3>2, <3>3, StringFresh
  <2>3. CASE S!append(v, s, s)
    BY <2>1, <2>3, StringAppend
  <2> QED  BY <1>3, <2>2, <2>3
<1>4. ASSUME NEW w \in Vec, S!CopyCtor(v, w) \/ S!CopyAssign(v, w) PROVE StringOK'
  BY <1>4, StringCopy
<1>5. ASSUME NEW w \in Vec, S!MoveCtor(v, w) PROVE StringOK'
  <2>1. obj[v] = Absent /\ obj[w] # Absent /\ v # w /\ S!Take(v, w, mem)
    BY <1>5 DEF S!MoveCtor, S!InScope
  <2> QED  BY <2>1, StringTaken
<1>6. ASSUME NEW w \in Vec, S!MoveAssign(v, w) PROVE StringOK'
  <2>1. v # w /\ obj[v] # Absent /\ obj[w] # Absent /\ S!Take(v, w, S!release(mem, v, obj[w]))
    BY <1>6 DEF S!MoveAssign, S!InScope
  <2> QED  BY <2>1, StringTaken
<1>7. ASSUME NEW w \in Vec, S!InScope(w), S!append(v, w, S!TextOf(w)) PROVE StringOK'
  <2>1. PICK s : s = S!TextOf(w)
    OBVIOUS
  <2>2. s \in Seq(Item)
    BY <1>7, <2>1, StringText DEF S!InScope
  <2> QED  BY <1>7, <2>1, <2>2, StringAppend
<1>8. ASSUME NEW n \in 0 .. MaxCapacity, S!reserve(v, n) PROVE StringOK'
  BY <1>8, StringReserve
<1>9. ASSUME NEW x \in Item, S!push_back(v, x) PROVE StringOK'
  BY <1>9, StringPushBack
<1> QED  BY <1>1, <1>2, <1>3, <1>4, <1>5, <1>6, <1>7, <1>8, <1>9

LEMMA StringImplies ==
  ASSUME StringOK
  PROVE  S!OneRepresentation
<1> DEFINE scope == {v \in Vec : S!InScope(v)}
           heaped == {v \in scope : ~ S!is_local(v)}
<1>1. mem.sound = TRUE /\ DOMAIN mem.heap \subseteq Address
  BY StringFunction, HeapType, Zenon
<1>2. Storage(Strings, StringBlock, StringPtr, StringPairs, obj, mem.heap)
  BY DEF StringOK
<1>3. ASSUME NEW v \in heaped
      PROVE  /\ v \in Vec /\ StringPtr[obj[v]] = obj[v].ptr /\ StringPtr[obj[v]] # Null
             /\ obj[v].buffer = Lost /\ obj[v].capacity >= InlineSize
             /\ obj[v].ptr \in DOMAIN mem.heap /\ mem.heap[obj[v].ptr].room = obj[v].capacity + 1
  BY StringInScope DEF S!InScope, S!is_local, HeapString
<1>4. ASSUME NEW a \in DOMAIN mem.heap PROVE \E v \in heaped : obj[v].ptr = a
  <2>1. a # Null
    BY <1>1, NullIsNoAddress
  <2>2. PICK v \in Vec : StringPtr[obj[v]] = a
    BY <1>2 DEF Storage
  <2>3. obj[v] # Absent
    BY <2>1, <2>2, StringTypes
  <2>4. obj[v].ptr = a
    BY <2>2, <2>3, StringInScope
  <2> QED  BY <2>1, <2>3, <2>4 DEF S!InScope, S!is_local
<1>5. ASSUME NEW v \in heaped, NEW w \in heaped, obj[v].ptr = obj[w].ptr PROVE v = w
  BY <1>2, <1>3, <1>5 DEF Storage
<1>6. ASSUME NEW v \in scope \ heaped PROVE obj[v].capacity = Lost /\ S!Fits(obj[v].buffer)
  BY StringInScope DEF S!InScope, S!is_local, LocalString, S!Fits
<1>7. ASSUME NEW v \in scope PROVE obj[v].size = Len(S!TextOf(v))
  BY StringText DEF S!InScope
<1> HIDE DEF heaped
<1>8. DOMAIN mem.heap = {obj[v].ptr : v \in heaped}
  BY <1>3, <1>4
<1> QED  BY <1>1, <1>3, <1>5, <1>6, <1>7, <1>8 DEF S!OneRepresentation, heaped

-----------------------------------------------------------------------------
(* One variable changes, and of the heap nothing outside B: its old cell,  *)
(* if it had one, and addresses that were free.  Of B there is then its    *)
(* new cell, if it has one.                                                *)
Outside(N, g, h, B) ==
  g \in Heaps(N) /\ DOMAIN g \ B = DOMAIN h \ B /\ \A a \in DOMAIN h \ B : g[a] = h[a]

LEMMA StorageStep ==
  ASSUME NEW T, NEW N, NEW p, NEW R, NEW s, NEW h, Storage(T, N, p, R, s, h),
         NEW v \in Vec, NEW r \in T, NEW t, t = [s EXCEPT ![v] = r],
         NEW g, NEW B, Outside(N, g, h, B), B \cap DOMAIN h \subseteq {p[s[v]]}, p[s[v]] \in B,
         B \cap DOMAIN g = {p[r]} \ {Null}, p[r] # Null => <<r, g[p[r]]>> \in R
  PROVE  Storage(T, N, p, R, t, g)
<1>1. t \in [Vec -> T] /\ \A u \in Vec : t[u] = IF u = v THEN r ELSE s[u]
  BY DEF Storage
<1>2. /\ g \in Heaps(N) /\ DOMAIN g \subseteq Address /\ DOMAIN h \subseteq Address
      /\ DOMAIN g \ B = DOMAIN h \ B /\ Null \notin Address
  BY HeapType, NullIsNoAddress DEF Outside, Storage
<1>3. ASSUME NEW u \in Vec, p[s[u]] # Null, u # v
      PROVE  /\ p[s[u]] \in DOMAIN h /\ <<s[u], h[p[s[u]]]>> \in R /\ p[s[u]] \notin B
  <2>1. p[s[u]] \in DOMAIN h /\ <<s[u], h[p[s[u]]]>> \in R
    BY <1>3 DEF Storage
  <2>2. p[s[u]] # p[s[v]]
    BY <1>3 DEF Storage
  <2> QED  BY <2>1, <2>2
<1>4. ASSUME NEW u \in Vec, p[t[u]] # Null PROVE p[t[u]] \in DOMAIN g /\ <<t[u], g[p[t[u]]]>> \in R
  <2>1. CASE u = v
    BY <1>1, <1>4, <2>1
  <2>2. CASE u # v
    <3>1. PICK a : a = p[s[u]]
      OBVIOUS
    <3>2. a \in DOMAIN h /\ <<s[u], h[a]>> \in R /\ a \notin B
      BY <1>1, <1>3, <1>4, <2>2, <3>1
    <3>3. a \in DOMAIN g /\ g[a] = h[a]
      BY <1>2, <3>2 DEF Outside
    <3> QED  BY <1>1, <2>2, <3>1, <3>2, <3>3
  <2> QED  BY <2>1, <2>2
<1>5. ASSUME NEW a \in DOMAIN g PROVE \E u \in Vec : p[t[u]] = a
  <2>1. CASE a \in B
    BY <1>1, <2>1
  <2>2. CASE a \notin B
    <3>1. PICK u \in Vec : p[s[u]] = a
      BY <1>2, <2>2 DEF Storage
    <3>2. u # v
      BY <2>2, <3>1
    <3> QED  BY <1>1, <3>1, <3>2
  <2> QED  BY <2>1, <2>2
<1>6. ASSUME NEW u \in Vec, NEW w \in Vec, p[t[u]] # Null, p[t[u]] = p[t[w]] PROVE u = w
  <2>1. p[r] # Null => p[r] \in B
    OBVIOUS
  <2>2. CASE u # v /\ w # v
    BY <1>1, <1>6, <2>2 DEF Storage
  <2>3. CASE u = v /\ w # v
    BY <1>1, <1>3, <1>6, <2>1, <2>3, Zenon
  <2>4. CASE u # v /\ w = v
    BY <1>1, <1>3, <1>6, <2>1, <2>4, Zenon
  <2> QED  BY <2>2, <2>3, <2>4
<1>7. p \in [T -> Address \cup {Null}]
  BY DEF Storage
<1> QED  BY <1>1, <1>2, <1>4, <1>5, <1>6, <1>7 DEF Storage

(* raw storage: buffers of slots, each with what is in it.                 *)
Raws == INSTANCE RawStorage
Slot == Item \cup {Raw, Moved}
Slots == UNION {[0 .. n - 1 -> Slot] : n \in Nat}

(* the buffer b of h has n slots, and objects in those of K *)
Holding(h, b, n, K) ==
  /\ b \in DOMAIN h /\ n \in Nat /\ h[b] \in [0 .. n - 1 -> Slot]
  /\ \A i \in 0 .. n - 1 : h[b][i] # Raw <=> i \in K

Touched(m, n, b) == n \in Memory(Slots) /\ Outside(Slots, n.heap, m.heap, {b})

LEMMA SlotsAre ==
  ASSUME NEW n \in Nat, NEW s \in [0 .. n - 1 -> Slot]
  PROVE  s \in Slots
BY DEF Slots

LEMMA MemoryType ==
  ASSUME NEW N, NEW m \in Memory(N)
  PROVE  m.heap \in Heaps(N) /\ m.sound = TRUE /\ m = [heap |-> m.heap, sound |-> TRUE]
BY Zenon DEF Memory

LEMMA HoldingKept ==
  ASSUME NEW h, NEW g, NEW B, Outside(Slots, g, h, B), NEW b, b \notin B, NEW n, NEW K, Holding(h, b, n, K)
  PROVE  Holding(g, b, n, K)
<1>1. b \in DOMAIN g /\ g[b] = h[b]
  BY DEF Outside, Holding
<1>2. PICK s : s = h[b]
  OBVIOUS
<1>3. n \in Nat /\ s \in [0 .. n - 1 -> Slot] /\ \A i \in 0 .. n - 1 : s[i] # Raw <=> i \in K
  BY <1>2 DEF Holding
<1>4. g[b] = s
  BY <1>1, <1>2
<1> QED  BY <1>1, <1>3, <1>4 DEF Holding

LEMMA OutsideSame ==
  ASSUME NEW N, NEW h \in Heaps(N), NEW B
  PROVE  Outside(N, h, h, B)
BY DEF Outside

LEMMA OutsideStep ==
  ASSUME NEW N, NEW h, NEW g, NEW f, NEW B, Outside(N, g, h, B), NEW b \in B, Outside(N, f, g, {b})
  PROVE  Outside(N, f, h, B)
<1>1. DOMAIN f \ B = DOMAIN h \ B
  BY DEF Outside
<1>2. ASSUME NEW a \in DOMAIN h \ B PROVE f[a] = h[a]
  <2>1. a \in DOMAIN g \ {b} /\ g[a] = h[a]
    BY <1>2 DEF Outside
  <2> QED  BY <2>1 DEF Outside
<1> QED  BY <1>1, <1>2 DEF Outside

(* slots are set: those from i to j - 1 *)
SlotsSet(h, g, b, n, i, j, value) ==
  /\ b \in DOMAIN g /\ g[b] \in [0 .. n - 1 -> Slot]
  /\ \A k \in 0 .. n - 1 : g[b][k] = IF i <= k /\ k < j THEN value[k] ELSE h[b][k]

LEMMA RangeSet ==
  ASSUME NEW m \in Memory(Slots), NEW b, NEW n, NEW K, Holding(m.heap, b, n, K),
         NEW i \in Nat, NEW j \in Nat, i <= j, j <= n, NEW value, \A k \in i .. j - 1 : value[k] \in Slot,
         NEW ok, ok, NEW q, q = Raws!SetRange(m, b, i, j, value, ok)
  PROVE  Touched(m, q, b) /\ SlotsSet(m.heap, q.heap, b, n, i, j, value)
<1>1. m.heap \in Heaps(Slots) /\ m.sound = TRUE /\ m = [heap |-> m.heap, sound |-> TRUE]
  BY MemoryType, Zenon
<1>2. PICK s : s = m.heap[b]
  OBVIOUS
<1>3. b \in DOMAIN m.heap /\ n \in Nat /\ s \in [0 .. n - 1 -> Slot] /\ DOMAIN s = 0 .. n - 1
  BY <1>2 DEF Holding
<1>4. CASE i = j
  <2>1. q = [heap |-> m.heap, sound |-> TRUE]
    BY <1>1, <1>4, Zenon DEF Raws!SetRange
  <2>2. q = m
    BY <1>1, <2>1, Zenon
  <2>3. Touched(m, q, b)
    BY <1>1, <2>2, OutsideSame, Zenon DEF Touched
  <2>4. \A k \in 0 .. n - 1 : ~ (i <= k /\ k < j)
    BY <1>4
  <2>5. SlotsSet(m.heap, q.heap, b, n, i, j, value)
    BY <1>2, <1>3, <2>2, <2>4, Zenon DEF SlotsSet
  <2> QED  BY <2>3, <2>5, Zenon
<1>5. CASE i # j
  <2>1. PICK t : t = [k \in 0 .. n - 1 |-> IF k \in i .. j - 1 THEN value[k] ELSE s[k]]
    BY Zenon
  <2>2. t \in [0 .. n - 1 -> Slot] /\ \A k \in 0 .. n - 1 : t[k] = IF i <= k /\ k < j THEN value[k] ELSE s[k]
    BY <1>3, <2>1
  <2>3. t \in Slots
    BY <1>3, <2>2, SlotsAre
  <2>4. PICK g : g = [m.heap EXCEPT ![b] = t]
    BY Zenon
  <2>5. q = [heap |-> g, sound |-> TRUE]
    <3>1. [k \in DOMAIN m.heap[b] |-> IF k \in i .. j - 1 THEN value[k] ELSE m.heap[b][k]] = t
      BY <1>2, <1>3, <2>1
    <3>2. q.sound = TRUE /\ q = [heap |-> q.heap, sound |-> q.sound]
      BY <1>1, Zenon DEF Raws!SetRange
    <3>3. q.heap = [m.heap EXCEPT ![b] = [k \in DOMAIN m.heap[b] |-> IF k \in i .. j - 1 THEN value[k] ELSE m.heap[b][k]]]
      BY <1>1, <1>3, <1>5 DEF Raws!SetRange, Raws!Span
    <3> QED  BY <2>4, <3>1, <3>2, <3>3, Zenon
  <2>6. Changed(Slots, m.heap, b, t, g)
    BY <1>1, <1>3, <2>3, <2>4, HeapChanged
  <2>7. g \in Heaps(Slots) /\ DOMAIN g = DOMAIN m.heap /\ g[b] = t
    BY <2>6 DEF Changed
  <2>8. q \in Memory(Slots) /\ q.heap = g
    BY <2>5, <2>7, MemoryIs, Zenon
  <2>9. Outside(Slots, g, m.heap, {b})
    BY <2>6 DEF Changed, Outside
  <2>10. SlotsSet(m.heap, g, b, n, i, j, value)
    BY <1>2, <1>3, <2>2, <2>7 DEF SlotsSet
  <2> QED  BY <2>8, <2>9, <2>10, Zenon DEF Touched
<1> QED  BY <1>4, <1>5, Zenon

LEMMA ConstructRangeDoes ==
  ASSUME NEW m \in Memory(Slots), NEW b, NEW n, NEW K, Holding(m.heap, b, n, K),
         NEW i \in Nat, NEW j \in Nat, i <= j, j <= n, K \cap (i .. j - 1) = {},
         NEW value, \A k \in i .. j - 1 : value[k] \in Slot \ {Raw},
         NEW q, q = Raws!ConstructRange(m, b, i, j, value), NEW I, I = K \cup (i .. j - 1)
  PROVE  Touched(m, q, b) /\ Holding(q.heap, b, n, I)
<1>1. n \in Nat /\ b \in DOMAIN m.heap /\ DOMAIN m.heap[b] = 0 .. n - 1 /\ \A k \in 0 .. n - 1 : m.heap[b][k] # Raw <=> k \in K
  BY DEF Holding
<1>2. PICK ok : ok = \A k \in i .. j - 1 : k \in DOMAIN m.heap[b] /\ m.heap[b][k] = Raw
  BY Zenon
<1>3. ok
  <2>1. \A k \in i .. j - 1 : k \in 0 .. n - 1 /\ k \notin K
    BY <1>1
  <2> QED  BY <1>1, <1>2, <2>1
<1>4. q = Raws!SetRange(m, b, i, j, value, ok)
  BY <1>2 DEF Raws!ConstructRange, Raws!Span
<1>5. Touched(m, q, b) /\ SlotsSet(m.heap, q.heap, b, n, i, j, value)
  BY <1>3, <1>4, RangeSet, Zenon
<1>6. ASSUME NEW k \in 0 .. n - 1 PROVE q.heap[b][k] # Raw <=> k \in I
  <2>1. q.heap[b][k] = IF i <= k /\ k < j THEN value[k] ELSE m.heap[b][k]
    BY <1>5 DEF SlotsSet
  <2>2. CASE i <= k /\ k < j
    <3>1. k \in i .. j - 1
      BY <2>2
    <3>2. k \in I /\ value[k] # Raw
      BY <3>1
    <3> QED  BY <2>1, <2>2, <3>2
  <2>3. CASE ~ (i <= k /\ k < j)
    <3>1. k \in I <=> k \in K
      BY <2>3
    <3> QED  BY <1>1, <2>1, <2>3, <3>1
  <2> QED  BY <2>2, <2>3
<1> QED  BY <1>1, <1>5, <1>6 DEF SlotsSet, Holding

LEMMA DestructRangeDoes ==
  ASSUME NEW m \in Memory(Slots), NEW b, NEW n, NEW K, Holding(m.heap, b, n, K),
         NEW i \in Nat, NEW j \in Nat, i <= j, j <= n, i .. j - 1 \subseteq K,
         NEW q, q = Raws!destruct_range(m, b, i, j), NEW I, I = K \ (i .. j - 1)
  PROVE  Touched(m, q, b) /\ Holding(q.heap, b, n, I)
<1>1. n \in Nat /\ b \in DOMAIN m.heap /\ DOMAIN m.heap[b] = 0 .. n - 1 /\ \A k \in 0 .. n - 1 : m.heap[b][k] # Raw <=> k \in K
  BY DEF Holding
<1>2. PICK ok : ok = \A k \in i .. j - 1 : k \in DOMAIN m.heap[b] /\ m.heap[b][k] # Raw
  BY Zenon
<1>3. ok
  <2>1. \A k \in i .. j - 1 : k \in 0 .. n - 1 /\ k \in K
    BY <1>1
  <2> QED  BY <1>1, <1>2, <2>1
<1>4. PICK value : value = [k \in i .. j - 1 |-> Raw]
  BY Zenon
<1>5. \A k \in i .. j - 1 : value[k] = Raw /\ value[k] \in Slot
  BY <1>4 DEF Slot
<1>6. q = Raws!SetRange(m, b, i, j, value, ok)
  BY <1>2, <1>4 DEF Raws!destruct_range, Raws!Span
<1>7. Touched(m, q, b) /\ SlotsSet(m.heap, q.heap, b, n, i, j, value)
  BY <1>3, <1>5, <1>6, RangeSet, Zenon
<1>8. ASSUME NEW k \in 0 .. n - 1 PROVE q.heap[b][k] # Raw <=> k \in I
  <2>1. q.heap[b][k] = IF i <= k /\ k < j THEN value[k] ELSE m.heap[b][k]
    BY <1>7 DEF SlotsSet
  <2>2. CASE i <= k /\ k < j
    <3>1. k \in i .. j - 1
      BY <2>2
    <3>2. k \notin I /\ value[k] = Raw
      BY <1>5, <3>1
    <3> QED  BY <2>1, <2>2, <3>2
  <2>3. CASE ~ (i <= k /\ k < j)
    <3>1. k \in I <=> k \in K
      BY <2>3
    <3> QED  BY <1>1, <2>1, <2>3, <3>1
  <2> QED  BY <2>2, <2>3
<1> QED  BY <1>1, <1>7, <1>8 DEF SlotsSet, Holding

(* nothing is there to destruct: also where there is no buffer *)
LEMMA DestructNothing ==
  ASSUME NEW m \in Memory(Slots), NEW b, NEW i \in Nat
  PROVE  Raws!destruct_range(m, b, i, i) = m
<1>1. m.sound = TRUE /\ m = [heap |-> m.heap, sound |-> TRUE]
  BY MemoryType, Zenon
<1>2. i .. i - 1 = {}
  OBVIOUS
<1> QED  BY <1>1, <1>2, Zenon DEF Raws!destruct_range, Raws!SetRange, Raws!Span

LEMMA DeleteDoes ==
  ASSUME NEW m \in Memory(Slots), NEW b, NEW n, Holding(m.heap, b, n, {}), NEW q, q = Raws!Delete(m, b)
  PROVE  Touched(m, q, b) /\ b \notin DOMAIN q.heap
<1>1. m.heap \in Heaps(Slots) /\ m.sound = TRUE
  BY MemoryType, Zenon
<1>2. b \in DOMAIN m.heap /\ b # Null
  <2>1. b \in DOMAIN m.heap /\ DOMAIN m.heap \subseteq Address
    BY <1>1, HeapType DEF Holding
  <2> QED  BY <2>1, NullIsNoAddress
<1>3. \A k \in DOMAIN m.heap[b] : m.heap[b][k] = Raw
  BY DEF Holding
<1>4. PICK g : g = Without(m.heap, {b})
  OBVIOUS
<1>5. Shrunk(Slots, m.heap, {b}, g)
  BY <1>1, <1>4, HeapWithout
<1>6. q = [heap |-> g, sound |-> TRUE]
  BY <1>1, <1>2, <1>3, <1>4, Zenon DEF Raws!Delete, Raws!Without, Without
<1>7. g \in Heaps(Slots)
  BY <1>5 DEF Shrunk
<1>8. q \in Memory(Slots) /\ q.heap = g
  BY <1>6, <1>7, MemoryIs
<1> QED  BY <1>5, <1>8 DEF Shrunk, Touched, Outside

LEMMA DestroyDoes ==
  ASSUME NEW m \in Memory(Slots), NEW b, NEW n, NEW k \in Nat, k <= n, Holding(m.heap, b, n, 0 .. k - 1),
         NEW q, q = Raws!destroy(m, b, k)
  PROVE  Touched(m, q, b) /\ b \notin DOMAIN q.heap
<1>1. PICK r : r = Raws!destruct_range(m, b, 0, k)
  OBVIOUS
<1>2. PICK i, I, K : i = 0 /\ I = K \ (i .. k - 1) /\ K = 0 .. k - 1
  OBVIOUS
<1>21. i \in Nat /\ i <= k /\ i .. k - 1 \subseteq K /\ Holding(m.heap, b, n, K) /\ r = Raws!destruct_range(m, b, i, k)
  BY <1>1, <1>2
<1>3. Touched(m, r, b) /\ Holding(r.heap, b, n, I)
  BY <1>2, <1>21, DestructRangeDoes, Zenon
<1>4. I = {}
  BY <1>2
<1>5. r \in Memory(Slots) /\ Holding(r.heap, b, n, {}) /\ q = Raws!Delete(r, b)
  BY <1>1, <1>3, <1>4 DEF Touched, Raws!destroy
<1>6. Touched(r, q, b) /\ b \notin DOMAIN q.heap
  BY <1>5, DeleteDoes, Zenon
<1>7. Outside(Slots, q.heap, m.heap, {b})
  BY <1>3, <1>6, OutsideStep DEF Touched
<1> QED  BY <1>6, <1>7 DEF Touched

LEMMA DestroyNothing ==
  ASSUME NEW m \in Memory(Slots)
  PROVE  Raws!destroy(m, Null, 0) = m
BY DestructNothing DEF Raws!destroy, Raws!Delete

LEMMA AllocateDoes ==
  ASSUME NEW m \in Memory(Slots), NEW n \in Nat, NEW q, q = Raws!allocate(m, n), NEW a, a = Raws!Fresh(m)
  PROVE  Touched(m, q, a) /\ Holding(q.heap, a, n, {}) /\ a \in Address /\ a \notin DOMAIN m.heap
<1>1. m.heap \in Heaps(Slots)
  BY MemoryType, Zenon
<1>2. a \in Address /\ a \notin DOMAIN m.heap
  <2>1. a = NewAddress(m.heap)
    BY DEF Raws!Fresh, Raws!NewAddress, Raws!Cardinality, NewAddress, Cardinality
  <2> QED  BY <1>1, <2>1, NewIsFree
<1>3. PICK s : s = [k \in 0 .. n - 1 |-> Raw]
  BY Zenon
<1>4. s \in [0 .. n - 1 -> Slot] /\ \A k \in 0 .. n - 1 : s[k] = Raw
  BY <1>3 DEF Slot
<1>5. s \in Slots
  BY <1>4, SlotsAre
<1>6. PICK g : g = With(m.heap, a, s)
  OBVIOUS
<1>7. Grown(Slots, m.heap, a, s, g)
  BY <1>1, <1>2, <1>5, <1>6, HeapWith
<1>8. q = [m EXCEPT !.heap = g]
  BY <1>3, <1>6 DEF Raws!allocate, Raws!With, With, Raws!Span
<1>9. g \in Heaps(Slots) /\ a \in DOMAIN g /\ g[a] = s
  BY <1>7 DEF Grown
<1>10. q \in Memory(Slots) /\ q.heap = g
  BY <1>8, <1>9, MemoryReplaced
<1>11. Outside(Slots, g, m.heap, {a})
  BY <1>2, <1>7 DEF Grown, Outside
<1>12. Holding(g, a, n, {})
  BY <1>4, <1>9 DEF Holding
<1> QED  BY <1>2, <1>10, <1>11, <1>12 DEF Touched

(* a buffer of capacity c with n objects, or none at all *)
Owned(h, b, c, n) == IF b = Null THEN c = 0 /\ n = 0 ELSE n \in Nat /\ n <= c /\ Holding(h, b, c, 0 .. n - 1)

LEMMA OwnedKept ==
  ASSUME NEW h, NEW g, NEW B, Outside(Slots, g, h, B), NEW b, b \notin B, NEW c, NEW n, Owned(h, b, c, n)
  PROVE  Owned(g, b, c, n)
BY HoldingKept DEF Owned

LEMMA OwnedDestroyed ==
  ASSUME NEW m \in Memory(Slots), NEW b, NEW c, NEW n, Owned(m.heap, b, c, n), NEW q, q = Raws!destroy(m, b, n)
  PROVE  Touched(m, q, b) /\ b \notin DOMAIN q.heap
<1>1. CASE b = Null
  <2>1. q = m
    BY <1>1, DestroyNothing DEF Owned
  <2>2. m.heap \in Heaps(Slots)
    BY MemoryType, Zenon
  <2>3. DOMAIN m.heap \subseteq Address
    BY <2>2, HeapType
  <2> QED  BY <1>1, <2>1, <2>2, <2>3, OutsideSame, NullIsNoAddress DEF Touched
<1>2. CASE b # Null
  BY <1>2, DestroyDoes DEF Owned
<1> QED  BY <1>1, <1>2

LEMMA CopyRangeDoes ==
  ASSUME NEW m \in Memory(Slots), NEW dst, NEW d, NEW K, Holding(m.heap, dst, d, K),
         NEW src, NEW c, NEW n, Owned(m.heap, src, c, n), NEW k \in Nat, k <= n, k <= d, K \cap (0 .. k - 1) = {},
         NEW q, q = Raws!CopyRange(m, dst, src, k), NEW I, I = K \cup (0 .. k - 1)
  PROVE  Touched(m, q, dst) /\ Holding(q.heap, dst, d, I)
<1>1. PICK value : value = [i \in 0 .. k - 1 |-> m.heap[src][i]]
  BY Zenon
<1>2. \A i \in 0 .. k - 1 : value[i] \in Slot \ {Raw}
  <2>1. CASE src = Null
    BY <2>1 DEF Owned
  <2>2. CASE src # Null
    <3>1. Holding(m.heap, src, c, 0 .. n - 1) /\ n \in Nat /\ n <= c /\ c \in Nat
      BY <2>2 DEF Owned, Holding
    <3>2. ASSUME NEW i \in 0 .. k - 1 PROVE value[i] \in Slot \ {Raw}
      <4>1. i \in 0 .. n - 1 /\ i \in 0 .. c - 1 /\ value[i] = m.heap[src][i]
        BY <1>1, <3>1
      <4> QED  BY <3>1, <4>1 DEF Holding
    <3> QED  BY <3>2
  <2> QED  BY <2>1, <2>2
<1>3. q = Raws!ConstructRange(m, dst, 0, k, value)
  BY <1>1 DEF Raws!CopyRange, Raws!Span
<1>4. PICK z : z = 0
  OBVIOUS
<1>5. /\ z \in Nat /\ z <= k /\ K \cap (z .. k - 1) = {} /\ I = K \cup (z .. k - 1)
      /\ \A i \in z .. k - 1 : value[i] \in Slot \ {Raw}
      /\ q = Raws!ConstructRange(m, dst, z, k, value)
  BY <1>2, <1>3, <1>4
<1> QED  BY <1>5, ConstructRangeDoes, Zenon

(* from m to q, objects came to a; the buffer b has changed but is whole *)
Between(m, q, a, d, I, b, c, n) ==
  /\ q \in Memory(Slots) /\ Outside(Slots, q.heap, m.heap, {a, b})
  /\ Holding(q.heap, a, d, I) /\ Owned(q.heap, b, c, n)

(* the first k objects of src are moved to dst, and husks are left *)
LEMMA MoveRangeDoes ==
  ASSUME NEW m \in Memory(Slots), NEW dst, NEW d, NEW K, Holding(m.heap, dst, d, K),
         NEW src, NEW c, NEW n, Owned(m.heap, src, c, n), NEW k \in Nat, k <= n, k <= d, K \cap (0 .. k - 1) = {},
         src # dst, NEW q, q = Raws!MoveRange(m, dst, src, k), NEW I, I = K \cup (0 .. k - 1)
  PROVE  Between(m, q, dst, d, I, src, c, n)
<1>1. PICK r : r = Raws!CopyRange(m, dst, src, k)
  OBVIOUS
<1>2. Touched(m, r, dst) /\ Holding(r.heap, dst, d, I)
  BY <1>1, CopyRangeDoes, Zenon
<1>3. Outside(Slots, r.heap, m.heap, {dst}) /\ r \in Memory(Slots)
  BY <1>2 DEF Touched
<1>4. Owned(r.heap, src, c, n)
  BY <1>3, OwnedKept
<1>5. Outside(Slots, r.heap, m.heap, {dst, src})
  BY <1>3 DEF Outside
<1>6. CASE k = 0
  <2>1. q = r
    BY <1>1, <1>6 DEF Raws!MoveRange
  <2> QED  BY <1>2, <1>3, <1>4, <1>5, <2>1 DEF Between
<1>7. CASE k # 0
  <2>1. src # Null /\ n \in Nat /\ n <= c /\ c \in Nat /\ Holding(r.heap, src, c, 0 .. n - 1)
    BY <1>4, <1>7 DEF Owned, Holding
  <2>2. PICK s : s = r.heap[src]
    OBVIOUS
  <2>3. src \in DOMAIN r.heap /\ s \in [0 .. c - 1 -> Slot] /\ \A i \in 0 .. c - 1 : s[i] # Raw <=> i \in 0 .. n - 1
    BY <2>1, <2>2, Zenon DEF Holding
  <2>4. PICK t : t = [i \in 0 .. c - 1 |-> IF i < k THEN Moved ELSE s[i]]
    BY Zenon
  <2>5. t \in [0 .. c - 1 -> Slot]
    BY <2>3, <2>4 DEF Slot
  <2>6. ASSUME NEW i \in 0 .. c - 1 PROVE t[i] # Raw <=> i \in 0 .. n - 1
    <3>1. Raw # Moved
      BY SingleThreadedAssumption
    <3> QED  BY <2>1, <2>3, <2>4, <3>1
  <2>7. PICK g : g = [r.heap EXCEPT ![src] = t]
    BY Zenon
  <2>8. q = [r EXCEPT !.heap = g]
    <3>1. [i \in DOMAIN r.heap[src] |-> IF i < k THEN Moved ELSE r.heap[src][i]] = t
      BY <2>2, <2>3, <2>4
    <3>2. q = [r EXCEPT !.heap = [r.heap EXCEPT ![src] = [i \in DOMAIN r.heap[src] |-> IF i < k THEN Moved ELSE r.heap[src][i]]]]
      BY <1>1, <1>7 DEF Raws!MoveRange
    <3> QED  BY <2>7, <3>1, <3>2
  <2>9. r.heap \in Heaps(Slots) /\ t \in Slots
    BY <1>3, <2>1, <2>5, MemoryType, SlotsAre, Zenon
  <2>10. Changed(Slots, r.heap, src, t, g)
    BY <2>3, <2>7, <2>9, HeapChanged
  <2>11. g \in Heaps(Slots) /\ DOMAIN g = DOMAIN r.heap /\ g[src] = t
    BY <2>10 DEF Changed
  <2>12. q \in Memory(Slots) /\ q.heap = g
    BY <1>3, <2>8, <2>11, MemoryReplaced
  <2>13. Outside(Slots, g, r.heap, {src})
    BY <2>10 DEF Changed, Outside
  <2>14. Outside(Slots, g, m.heap, {dst, src})
    BY <1>5, <2>13, OutsideStep
  <2>15. Holding(g, dst, d, I)
    BY <1>2, <2>13, HoldingKept
  <2>16. Holding(g, src, c, 0 .. n - 1)
    BY <2>1, <2>3, <2>5, <2>6, <2>11 DEF Holding
  <2> QED  BY <2>1, <2>12, <2>14, <2>15, <2>16 DEF Owned, Between
<1> QED  BY <1>6, <1>7

-----------------------------------------------------------------------------
(* vector and vector2: each has a buffer, with as many objects as it has   *)
(* elements, or none.                                                      *)
VecRecords == [data : Address \cup {Null}, size : Nat, capacity : Nat]
VecHolds(r, s) ==
  r.size <= r.capacity /\ s \in [0 .. r.capacity - 1 -> Slot]
  /\ \A i \in 0 .. r.capacity - 1 : s[i] # Raw <=> i \in 0 .. r.size - 1

Vecs == {r \in VecRecords : r.data = Null => r.size = 0 /\ r.capacity = 0} \cup {Absent}
VecPtr == [r \in Vecs |-> IF r = Absent THEN Null ELSE r.data]
VecPairs == {c \in Vecs \X Slots : c[1] # Absent /\ VecHolds(c[1], c[2])}

VecsIn(s, m) == m \in Memory(Slots) /\ Storage(Vecs, Slots, VecPtr, VecPairs, s, m.heap)
VecsOK == VecsIn(obj, mem)

(* r is the record of a vector in the heap h *)
VecIn(r, h) == r \in VecRecords /\ Owned(h, r.data, r.capacity, r.size)

LEMMA VecTypes ==
  /\ VecPtr \in [Vecs -> Address \cup {Null}] /\ Absent \in Vecs /\ VecPtr[Absent] = Null
  /\ Absent \notin VecRecords
<1>1. Absent \notin VecRecords
  <2>1. Absent \notin [data : Nat \cup {Null}, size : Nat, capacity : Nat]
    BY SingleThreadedAssumption
  <2> QED  BY <2>1 DEF VecRecords, Address
<1>2. VecPtr \in [Vecs -> Address \cup {Null}]
  BY DEF VecPtr, Vecs, VecRecords
<1>3. Absent \in Vecs /\ VecPtr[Absent] = Null
  BY DEF VecPtr, Vecs
<1> QED  BY <1>1, <1>2, <1>3

LEMMA VecIs ==
  ASSUME NEW h, NEW r, VecIn(r, h)
  PROVE  r \in Vecs /\ r # Absent /\ VecPtr[r] = r.data
<1>1. r \in VecRecords /\ (r.data = Null => r.size = 0 /\ r.capacity = 0)
  BY DEF VecIn, Owned
<1> QED  BY <1>1, VecTypes DEF Vecs, VecPtr

LEMMA VecPair ==
  ASSUME NEW h, NEW r, VecIn(r, h), r.data # Null
  PROVE  r.data \in DOMAIN h /\ <<r, h[r.data]>> \in VecPairs
<1>1. r \in Vecs /\ r # Absent
  BY VecIs
<1>2. PICK s : s = h[r.data]
  OBVIOUS
<1>3. /\ r.data \in DOMAIN h /\ r.capacity \in Nat /\ r.size <= r.capacity /\ s \in [0 .. r.capacity - 1 -> Slot]
      /\ \A i \in 0 .. r.capacity - 1 : s[i] # Raw <=> i \in 0 .. r.size - 1
  BY <1>2 DEF VecIn, Owned, Holding
<1>4. s \in Slots
  BY <1>3, SlotsAre
<1>5. <<r, s>> \in VecPairs
  BY <1>1, <1>3, <1>4 DEF VecPairs, VecHolds
<1> QED  BY <1>2, <1>3, <1>5

(* what a vector in scope is *)
LEMMA VecInScope ==
  ASSUME NEW s, NEW m, VecsIn(s, m), NEW v \in Vec, s[v] # Absent
  PROVE  /\ s[v] \in VecRecords /\ VecPtr[s[v]] = s[v].data
         /\ Owned(m.heap, s[v].data, s[v].capacity, s[v].size) /\ VecIn(s[v], m.heap)
         /\ s[v].size <= s[v].capacity /\ s[v].size \in Nat /\ s[v].capacity \in Nat
<1>1. s[v] \in VecRecords /\ s[v] \in Vecs /\ (s[v].data = Null => s[v].size = 0 /\ s[v].capacity = 0)
  BY DEF VecsIn, Storage, Vecs
<1>2. VecPtr[s[v]] = s[v].data
  BY <1>1 DEF VecPtr
<1>3. s[v].size \in Nat /\ s[v].capacity \in Nat
  BY <1>1 DEF VecRecords
<1>4. Owned(m.heap, s[v].data, s[v].capacity, s[v].size)
  <2>1. CASE s[v].data = Null
    BY <1>1, <2>1 DEF Owned
  <2>2. CASE s[v].data # Null
    <3>1. s[v].data \in DOMAIN m.heap /\ <<s[v], m.heap[s[v].data]>> \in VecPairs
      BY <1>2, <2>2 DEF VecsIn, Storage
    <3>2. VecHolds(s[v], m.heap[s[v].data])
      BY <3>1 DEF VecPairs
    <3>3. PICK q : q = m.heap[s[v].data]
      OBVIOUS
    <3>4. VecHolds(s[v], q)
      BY <3>2, <3>3
    <3> QED  BY <1>3, <2>2, <3>1, <3>3, <3>4, Zenon DEF VecHolds, Owned, Holding
  <2> QED  BY <2>1, <2>2
<1>5. s[v].size <= s[v].capacity
  BY <1>3, <1>4 DEF Owned
<1> QED  BY <1>1, <1>2, <1>3, <1>4, <1>5 DEF VecIn

LEMMA VecFunction ==
  ASSUME NEW s, NEW m, VecsIn(s, m)
  PROVE  /\ s \in [Vec -> Vecs] /\ m \in Memory(Slots) /\ m.heap \in Heaps(Slots)
         /\ \A v \in Vec : VecPtr[s[v]] \in DOMAIN m.heap \cup {Null}
<1>1. \A v \in Vec : VecPtr[s[v]] # Null => VecPtr[s[v]] \in DOMAIN m.heap
  BY Zenon DEF VecsIn, Storage
<1> QED  BY <1>1 DEF VecsIn, Storage

(* one vector changes, and of the heap its buffer and what was free *)
LEMMA VecStep ==
  ASSUME NEW s, NEW m, VecsIn(s, m), NEW v \in Vec, NEW q \in Memory(Slots), NEW B,
         Outside(Slots, q.heap, m.heap, B), B \cap DOMAIN m.heap \subseteq {VecPtr[s[v]]}, VecPtr[s[v]] \in B,
         NEW r, VecIn(r, q.heap), B \cap DOMAIN q.heap = {r.data} \ {Null}, NEW t, t = [s EXCEPT ![v] = r]
  PROVE  VecsIn(t, q)
<1>1. r \in Vecs /\ VecPtr[r] = r.data
  BY VecIs
<1>2. VecPtr[r] # Null => <<r, q.heap[VecPtr[r]]>> \in VecPairs
  <2>1. r.data # Null => <<r, q.heap[r.data]>> \in VecPairs
    BY VecPair
  <2> QED  BY <1>1, <2>1
<1>3. B \cap DOMAIN q.heap = {VecPtr[r]} \ {Null}
  BY <1>1
<1>4. PICK h, g : h = m.heap /\ g = q.heap
  OBVIOUS
<1>5. Storage(Vecs, Slots, VecPtr, VecPairs, s, h)
  BY <1>4 DEF VecsIn
<1>6. /\ Outside(Slots, g, h, B) /\ B \cap DOMAIN h \subseteq {VecPtr[s[v]]}
      /\ B \cap DOMAIN g = {VecPtr[r]} \ {Null} /\ (VecPtr[r] # Null => <<r, g[VecPtr[r]]>> \in VecPairs)
  BY <1>2, <1>3, <1>4
<1>7. PICK u : u = [s EXCEPT ![v] = r]
  OBVIOUS
<1>8. Storage(Vecs, Slots, VecPtr, VecPairs, u, g)
  BY <1>1, <1>5, <1>6, <1>7, StorageStep, Zenon
<1> QED  BY <1>4, <1>7, <1>8 DEF VecsIn

(* v loses its buffer, if it has one *)
LEMMA VecGone ==
  ASSUME NEW s, NEW m, VecsIn(s, m), NEW v \in Vec, NEW q, Touched(m, q, VecPtr[s[v]]), VecPtr[s[v]] \notin DOMAIN q.heap,
         NEW r \in Vecs, VecPtr[r] = Null, NEW t, t = [s EXCEPT ![v] = r]
  PROVE  VecsIn(t, q) /\ t[v] = r
<1>1. PICK h, g, B : h = m.heap /\ g = q.heap /\ B = {VecPtr[s[v]]}
  BY Zenon
<1>2. q \in Memory(Slots) /\ Outside(Slots, g, h, B)
  BY <1>1 DEF Touched
<1>3. Storage(Vecs, Slots, VecPtr, VecPairs, s, h)
  BY <1>1 DEF VecsIn
<1>4. /\ B \cap DOMAIN h \subseteq {VecPtr[s[v]]} /\ VecPtr[s[v]] \in B /\ B \cap DOMAIN g = {VecPtr[r]} \ {Null}
  BY <1>1
<1>5. Storage(Vecs, Slots, VecPtr, VecPairs, t, g)
  BY <1>2, <1>3, <1>4, StorageStep, Zenon
<1>6. t[v] = r
  BY VecFunction
<1> QED  BY <1>1, <1>2, <1>5, <1>6 DEF VecsIn

(* v takes what w has *)
LEMMA VecTaken ==
  ASSUME NEW s, NEW m, VecsIn(s, m), NEW v \in Vec, NEW w \in Vec, v # w, VecPtr[s[v]] = Null,
         NEW r \in Vecs, VecPtr[r] = Null, NEW t, t = [s EXCEPT ![v] = s[w], ![w] = r]
  PROVE  VecsIn(t, m)
<1>1. PICK g : g = Without(m.heap, {VecPtr[s[v]]})
  OBVIOUS
<1>2. g = m.heap
  BY <1>1, WithoutNothing, VecFunction
<1>3. Storage(Vecs, Slots, VecPtr, VecPairs, s, m.heap)
  BY DEF VecsIn
<1>4. Storage(Vecs, Slots, VecPtr, VecPairs, t, g)
  BY <1>1, <1>3, StorageMoved, Zenon
<1> QED  BY <1>2, <1>4 DEF VecsIn

LEMMA VecEmpty ==
  ASSUME NEW r, r = [data |-> Null, size |-> 0, capacity |-> 0]
  PROVE  r \in Vecs /\ r # Absent /\ VecPtr[r] = Null
<1>1. PICK h : h = [a \in {} |-> Null]
  OBVIOUS
<1>2. r.data = Null /\ VecIn(r, h)
  BY DEF VecIn, VecRecords, Owned
<1> QED  BY <1>2, VecIs

(* v gets a new buffer, and the one it had is gone *)
LEMMA VecNew ==
  ASSUME NEW s, NEW m, VecsIn(s, m), NEW v \in Vec, NEW a \in Address, a \notin DOMAIN m.heap,
         NEW q \in Memory(Slots), Outside(Slots, q.heap, m.heap, {a, VecPtr[s[v]]}),
         VecPtr[s[v]] \notin DOMAIN q.heap, NEW r, VecIn(r, q.heap), r.data = a,
         NEW t, t = [s EXCEPT ![v] = r]
  PROVE  VecsIn(t, q)
<1>1. PICK B : B = {a, VecPtr[s[v]]}
  OBVIOUS
<1>2. a \in DOMAIN q.heap /\ a # Null
  BY NullIsNoAddress DEF VecIn, Owned, Holding
<1>3. /\ Outside(Slots, q.heap, m.heap, B) /\ B \cap DOMAIN m.heap \subseteq {VecPtr[s[v]]} /\ VecPtr[s[v]] \in B
      /\ B \cap DOMAIN q.heap = {r.data} \ {Null}
  BY <1>1, <1>2
<1> QED  BY <1>3, VecStep, Zenon

(* v keeps its buffer, if it has one *)
LEMMA VecKeeps ==
  ASSUME NEW s, NEW m, VecsIn(s, m), NEW v \in Vec, NEW q \in Memory(Slots), NEW a, a \notin DOMAIN m.heap,
         a \notin DOMAIN q.heap, Outside(Slots, q.heap, m.heap, {a, VecPtr[s[v]]}),
         NEW r, VecIn(r, q.heap), r.data = VecPtr[s[v]], NEW t, t = [s EXCEPT ![v] = r]
  PROVE  VecsIn(t, q)
<1>1. PICK B : B = {a, VecPtr[s[v]]}
  OBVIOUS
<1>2. r.data # Null => r.data \in DOMAIN q.heap
  BY DEF VecIn, Owned, Holding
<1>3. Null \notin DOMAIN q.heap
  BY HeapType, MemoryType, NullIsNoAddress
<1>4. /\ Outside(Slots, q.heap, m.heap, B) /\ B \cap DOMAIN m.heap \subseteq {VecPtr[s[v]]} /\ VecPtr[s[v]] \in B
      /\ B \cap DOMAIN q.heap = {r.data} \ {Null}
  BY <1>1, <1>2, <1>3
<1> QED  BY <1>4, VecStep, Zenon

LEMMA VecTouched ==
  ASSUME NEW s, NEW m, VecsIn(s, m), NEW v \in Vec, NEW q, Touched(m, q, VecPtr[s[v]]),
         NEW r, VecIn(r, q.heap), r.data = VecPtr[s[v]], NEW t, t = [s EXCEPT ![v] = r]
  PROVE  VecsIn(t, q)
<1>1. q \in Memory(Slots) /\ Null \notin DOMAIN m.heap /\ Null \notin DOMAIN q.heap
  <2>1. q \in Memory(Slots) /\ q.heap \in Heaps(Slots) /\ m.heap \in Heaps(Slots)
    BY MemoryType, VecFunction, Zenon DEF Touched
  <2> QED  BY <2>1, HeapType, NullIsNoAddress
<1>2. Outside(Slots, q.heap, m.heap, {Null, VecPtr[s[v]]})
  BY DEF Touched, Outside
<1> QED  BY <1>1, <1>2, VecKeeps, Zenon

LEMMA VecSame ==
  ASSUME NEW s, NEW m, VecsIn(s, m), NEW v, NEW r, r = s[v], NEW t, t = [s EXCEPT ![v] = r]
  PROVE  t = s
BY VecFunction

(* a copy of k of the elements of w, in a new buffer *)
LEMMA VecCopied ==
  ASSUME NEW s, NEW m, VecsIn(s, m), NEW w \in Vec, s[w] # Absent, NEW k \in Nat, k <= s[w].size,
         NEW a, a = Raws!Fresh(m),
         NEW q, q = Raws!CopyRange(Raws!allocate(m, s[w].capacity), a, s[w].data, k)
  PROVE  /\ Touched(m, q, a) /\ Holding(q.heap, a, s[w].capacity, 0 .. k - 1)
         /\ a \in Address /\ a \notin DOMAIN m.heap
<1>1. /\ Owned(m.heap, s[w].data, s[w].capacity, s[w].size) /\ s[w].capacity \in Nat /\ s[w].size \in Nat
      /\ k <= s[w].capacity /\ VecPtr[s[w]] = s[w].data
  BY VecInScope
<1>2. PICK made : made = Raws!allocate(m, s[w].capacity)
  OBVIOUS
<1>3. Touched(m, made, a) /\ Holding(made.heap, a, s[w].capacity, {}) /\ a \in Address /\ a \notin DOMAIN m.heap
  BY <1>1, <1>2, AllocateDoes, VecFunction
<1>4. Outside(Slots, made.heap, m.heap, {a}) /\ made \in Memory(Slots)
  BY <1>3 DEF Touched
<1>5. s[w].data # a
  <2>1. s[w].data \in DOMAIN m.heap \cup {Null} /\ Null \notin Address
    BY <1>1, VecFunction, NullIsNoAddress
  <2> QED  BY <1>3, <2>1
<1>6. Owned(made.heap, s[w].data, s[w].capacity, s[w].size)
  BY <1>1, <1>4, <1>5, OwnedKept
<1>7. PICK K, I : K = {} /\ I = K \cup (0 .. k - 1)
  BY Zenon
<1>8. Touched(made, q, a) /\ Holding(q.heap, a, s[w].capacity, I)
  <2>1. Holding(made.heap, a, s[w].capacity, K) /\ K \cap (0 .. k - 1) = {} /\ q = Raws!CopyRange(made, a, s[w].data, k)
    BY <1>2, <1>3, <1>7
  <2> QED  BY <1>1, <1>4, <1>6, <1>7, <2>1, CopyRangeDoes, Zenon
<1>9. Outside(Slots, q.heap, m.heap, {a})
  BY <1>4, <1>8, OutsideStep DEF Touched
<1>10. I = 0 .. k - 1
  BY <1>7
<1> QED  BY <1>3, <1>8, <1>9, <1>10 DEF Touched

(* k of the elements of v have been transferred to the buffer a, and are   *)
(* there with those of K; the buffer that v had is still whole             *)
Transferred(m, q, r, a, n, I) ==
  /\ q \in Memory(Slots) /\ Outside(Slots, q.heap, m.heap, {a, r.data})
  /\ Holding(q.heap, a, n, I) /\ Owned(q.heap, r.data, r.capacity, r.size) /\ a # r.data

LEMMA VecTransfer ==
  ASSUME NEW s, NEW m, VecsIn(s, m), NEW v \in Vec, s[v] # Absent,
         NEW a \in Address, a \notin DOMAIN m.heap, NEW made, Touched(m, made, a), NEW n, NEW K, Holding(made.heap, a, n, K),
         NEW k \in Nat, k <= s[v].size, k <= n, K \cap (0 .. k - 1) = {}, NEW I, I = K \cup (0 .. k - 1),
         NEW q, q = Raws!MoveRange(made, a, s[v].data, k) \/ q = Raws!CopyRange(made, a, s[v].data, k)
  PROVE  Transferred(m, q, s[v], a, n, I)
<1>1. PICK r : r = s[v]
  OBVIOUS
<1>2. Owned(m.heap, r.data, r.capacity, r.size) /\ VecPtr[s[v]] = r.data
  BY <1>1, VecInScope
<1>3. Outside(Slots, made.heap, m.heap, {a}) /\ made \in Memory(Slots)
  BY DEF Touched
<1>4. a # r.data
  <2>1. r.data \in DOMAIN m.heap \cup {Null} /\ Null \notin Address
    BY <1>2, VecFunction, NullIsNoAddress
  <2> QED  BY <2>1
<1>5. Owned(made.heap, r.data, r.capacity, r.size)
  BY <1>2, <1>3, <1>4, OwnedKept
<1>6. CASE q = Raws!CopyRange(made, a, r.data, k)
  <2>1. Touched(made, q, a) /\ Holding(q.heap, a, n, I)
    BY <1>1, <1>3, <1>5, <1>6, CopyRangeDoes, Zenon
  <2>2. Outside(Slots, q.heap, made.heap, {a}) /\ q \in Memory(Slots)
    BY <2>1 DEF Touched
  <2>3. Owned(q.heap, r.data, r.capacity, r.size)
    BY <1>4, <1>5, <2>2, OwnedKept
  <2>4. Outside(Slots, q.heap, m.heap, {a})
    BY <1>3, <2>2, OutsideStep
  <2>5. Outside(Slots, q.heap, m.heap, {a, r.data})
    BY <2>4 DEF Outside
  <2> QED  BY <1>1, <1>4, <2>1, <2>2, <2>3, <2>5 DEF Transferred
<1>7. CASE q = Raws!MoveRange(made, a, r.data, k)
  <2>1. /\ q \in Memory(Slots) /\ Outside(Slots, q.heap, made.heap, {a, r.data})
        /\ Holding(q.heap, a, n, I) /\ Owned(q.heap, r.data, r.capacity, r.size)
    <3>1. PICK src, c, z : src = r.data /\ c = r.capacity /\ z = r.size
      OBVIOUS
    <3>2. k <= z /\ Owned(made.heap, src, c, z) /\ src # a /\ q = Raws!MoveRange(made, a, src, k)
      BY <1>1, <1>4, <1>5, <1>7, <3>1
    <3>3. Between(made, q, a, n, I, src, c, z)
      BY <1>3, <3>2, MoveRangeDoes, Zenon
    <3> QED  BY <3>1, <3>3 DEF Between
  <2>2. Outside(Slots, q.heap, m.heap, {a, r.data})
    BY <1>3, <2>1 DEF Outside
  <2> QED  BY <1>1, <1>4, <2>1, <2>2 DEF Transferred
<1> QED  BY <1>1, <1>6, <1>7

(* then the buffer v had goes *)
LEMMA VecRetired ==
  ASSUME NEW m, NEW q, NEW r, NEW a, NEW n, NEW I, Transferred(m, q, r, a, n, I),
         NEW f, f = Raws!destroy(q, r.data, r.size)
  PROVE  /\ f \in Memory(Slots) /\ Outside(Slots, f.heap, m.heap, {a, r.data})
         /\ Holding(f.heap, a, n, I) /\ r.data \notin DOMAIN f.heap
<1>1. q \in Memory(Slots) /\ Owned(q.heap, r.data, r.capacity, r.size)
  BY DEF Transferred
<1>2. Touched(q, f, r.data) /\ r.data \notin DOMAIN f.heap
  BY <1>1, OwnedDestroyed
<1>3. Outside(Slots, f.heap, q.heap, {r.data}) /\ f \in Memory(Slots)
  BY <1>2 DEF Touched
<1>4. Holding(f.heap, a, n, I)
  BY <1>3, HoldingKept DEF Transferred
<1>5. Outside(Slots, f.heap, m.heap, {a, r.data})
  BY <1>3, OutsideStep DEF Transferred
<1> QED  BY <1>2, <1>3, <1>4, <1>5

(* v, which had no buffer, gets a copy of w's elements *)
LEMMA VecCopyMade ==
  ASSUME NEW s, NEW m, VecsIn(s, m), NEW v \in Vec, VecPtr[s[v]] = Null, NEW w \in Vec, s[w] # Absent,
         NEW a, a = Raws!Fresh(m), NEW k, k = s[w].size,
         NEW q, q = Raws!CopyRange(Raws!allocate(m, s[w].capacity), a, s[w].data, k),
         NEW r, r = [s[w] EXCEPT !.data = a], NEW t, t = [s EXCEPT ![v] = r]
  PROVE  VecsIn(t, q)
<1>1. /\ s[w] \in VecRecords /\ k \in Nat /\ k <= s[w].size /\ k <= s[w].capacity /\ s[w].capacity \in Nat
  BY VecInScope
<1>2. Touched(m, q, a) /\ Holding(q.heap, a, s[w].capacity, 0 .. k - 1) /\ a \in Address /\ a \notin DOMAIN m.heap
  BY <1>1, VecCopied
<1>3. r \in VecRecords /\ r.data = a /\ r.size = k /\ r.capacity = s[w].capacity
  BY <1>1, <1>2 DEF VecRecords
<1>4. a # Null
  BY <1>2, NullIsNoAddress
<1>5. VecIn(r, q.heap)
  BY <1>1, <1>2, <1>3, <1>4 DEF VecIn, Owned
<1>6. m.heap \in Heaps(Slots) /\ q \in Memory(Slots) /\ q.heap \in Heaps(Slots)
  BY <1>2, VecFunction, MemoryType, Zenon DEF Touched
<1>7. Null \notin DOMAIN m.heap /\ Null \notin DOMAIN q.heap
  BY <1>6, HeapType, NullIsNoAddress
<1>8. Outside(Slots, q.heap, m.heap, {a, VecPtr[s[v]]})
  BY <1>2 DEF Touched, Outside
<1> QED  BY <1>2, <1>3, <1>5, <1>6, <1>7, <1>8, VecNew, Zenon

(* v's elements go to the buffer a, which held those of K, and its old     *)
(* buffer goes                                                             *)
LEMMA VecGrown ==
  ASSUME NEW s, NEW m, VecsIn(s, m), NEW v \in Vec, s[v] # Absent,
         NEW a \in Address, a \notin DOMAIN m.heap, NEW made, Touched(m, made, a),
         NEW n \in Nat, NEW K, Holding(made.heap, a, n, K), NEW k, k = s[v].size, K \cap (0 .. k - 1) = {},
         NEW z \in Nat, k <= z, z <= n, 0 .. z - 1 = K \cup (0 .. k - 1),
         NEW q, q = Raws!MoveRange(made, a, s[v].data, k) \/ q = Raws!CopyRange(made, a, s[v].data, k),
         NEW f, f = Raws!destroy(q, s[v].data, k),
         NEW r, r = [data |-> a, size |-> z, capacity |-> n], NEW t, t = [s EXCEPT ![v] = r]
  PROVE  VecsIn(t, f)
<1>1. k \in Nat /\ k <= s[v].size /\ k <= n /\ VecPtr[s[v]] = s[v].data
  BY VecInScope
<1>2. PICK I : I = K \cup (0 .. k - 1)
  BY Zenon
<1>3. Transferred(m, q, s[v], a, n, I)
  BY <1>1, <1>2, VecTransfer, Zenon
<1>4. PICK o : o = s[v]
  OBVIOUS
<1>5. /\ f \in Memory(Slots) /\ Outside(Slots, f.heap, m.heap, {a, o.data})
      /\ Holding(f.heap, a, n, I) /\ o.data \notin DOMAIN f.heap
  BY <1>3, <1>4, VecRetired, Zenon
<1>6. r \in VecRecords /\ r.data = a /\ a # Null
  BY NullIsNoAddress DEF VecRecords
<1>7. VecIn(r, f.heap)
  BY <1>2, <1>5, <1>6, Zenon DEF VecIn, Owned
<1> QED  BY <1>1, <1>4, <1>5, <1>6, <1>7, VecNew, Zenon

(* v gets the elements i to j - 1 behind those it has, or loses its last *)
LEMMA VecFilled ==
  ASSUME NEW s, NEW m, VecsIn(s, m), NEW v \in Vec, s[v] # Absent, s[v].capacity # 0,
         NEW i, i = s[v].size, NEW j \in Nat, i <= j, j <= s[v].capacity,
         NEW value, \A k \in i .. j - 1 : value[k] \in Slot \ {Raw},
         NEW q, q = Raws!ConstructRange(m, s[v].data, i, j, value),
         NEW r, r = [s[v] EXCEPT !.size = j], NEW t, t = [s EXCEPT ![v] = r]
  PROVE  VecsIn(t, q)
<1>1. /\ s[v] \in VecRecords /\ Owned(m.heap, s[v].data, s[v].capacity, s[v].size)
      /\ s[v].size \in Nat /\ s[v].capacity \in Nat /\ VecPtr[s[v]] = s[v].data /\ m \in Memory(Slots)
  BY VecInScope, VecFunction
<1>2. PICK b, c, K, I : /\ b = s[v].data /\ c = s[v].capacity
                        /\ K = 0 .. i - 1 /\ I = K \cup (i .. j - 1)
  BY Zenon
<1>3. Holding(m.heap, b, c, K) /\ b # Null
  BY <1>1, <1>2 DEF Owned
<1>4. i \in Nat /\ j \in Nat /\ i <= j /\ j <= c /\ K \cap (i .. j - 1) = {}
  BY <1>1, <1>2
<1>5. m \in Memory(Slots) /\ I = K \cup (i .. j - 1)
  BY <1>1, <1>2
<1>6. q = Raws!ConstructRange(m, b, i, j, value)
  BY <1>2
<1>7. Touched(m, q, b) /\ Holding(q.heap, b, c, I)
  BY <1>3, <1>4, <1>5, <1>6, ConstructRangeDoes, Zenon
<1>8. I = 0 .. j - 1
  BY <1>1, <1>2
<1>9. r \in VecRecords /\ r.data = b /\ r.size = j /\ r.capacity = c
  BY <1>1, <1>2, <1>4 DEF VecRecords
<1>10. VecIn(r, q.heap)
  BY <1>3, <1>4, <1>7, <1>8, <1>9 DEF VecIn, Owned
<1>11. Touched(m, q, VecPtr[s[v]]) /\ r.data = VecPtr[s[v]]
  BY <1>1, <1>2, <1>7, <1>9
<1> QED  BY <1>10, <1>11, VecTouched, Zenon

LEMMA VecShrunk ==
  ASSUME NEW s, NEW m, VecsIn(s, m), NEW v \in Vec, s[v] # Absent, NEW j, j = s[v].size, NEW z \in Nat, z <= j,
         NEW q, q = Raws!destruct_range(m, s[v].data, z, j),
         NEW r, r = [s[v] EXCEPT !.size = z], NEW t, t = [s EXCEPT ![v] = r]
  PROVE  VecsIn(t, q)
<1>1. /\ s[v] \in VecRecords /\ Owned(m.heap, s[v].data, s[v].capacity, s[v].size) /\ s[v].size <= s[v].capacity
      /\ s[v].size \in Nat /\ s[v].capacity \in Nat /\ VecPtr[s[v]] = s[v].data /\ m \in Memory(Slots)
  BY VecInScope, VecFunction
<1>2. PICK b, c, K, I : b = s[v].data /\ c = s[v].capacity /\ K = 0 .. j - 1 /\ I = K \ (z .. j - 1)
  BY Zenon
<1>3. q = Raws!destruct_range(m, b, z, j)
  BY <1>2
<1>4. r \in VecRecords /\ r.data = b /\ r.size = z /\ r.capacity = c
  BY <1>1, <1>2 DEF VecRecords
<1>5. CASE b = Null
  <2>1. c = 0 /\ j = 0 /\ z = 0
    BY <1>1, <1>2, <1>5 DEF Owned
  <2>2. q = m
    BY <1>1, <1>3, <2>1, DestructNothing
  <2>3. r = s[v]
    BY <1>1, <1>4, <1>2, <2>1, Zenon DEF VecRecords
  <2>4. t = s
    BY <2>3, VecSame
  <2> QED  BY <2>2, <2>4
<1>6. CASE b # Null
  <2>1. Holding(m.heap, b, c, K)
    BY <1>1, <1>2, <1>6 DEF Owned
  <2>2. j \in Nat /\ z <= j /\ j <= c /\ z .. j - 1 \subseteq K /\ z <= c
    BY <1>1, <1>2
  <2>3. I = K \ (z .. j - 1) /\ m \in Memory(Slots)
    BY <1>1, <1>2
  <2>4. Touched(m, q, b) /\ Holding(q.heap, b, c, I)
    BY <1>3, <2>1, <2>2, <2>3, DestructRangeDoes, Zenon
  <2>5. I = 0 .. z - 1
    BY <1>1, <1>2
  <2>6. VecIn(r, q.heap)
    BY <1>4, <1>6, <2>2, <2>4, <2>5 DEF VecIn, Owned
  <2>7. Touched(m, q, VecPtr[s[v]]) /\ r.data = VecPtr[s[v]]
    BY <1>1, <1>2, <1>4, <2>4
  <2> QED  BY <2>6, <2>7, VecTouched, Zenon
<1> QED  BY <1>5, <1>6

LEMMA RoomierIs ==
  ASSUME NEW o \in VecRecords, NEW a, NEW n, NEW r, r = [o EXCEPT !.data = a, !.capacity = n]
  PROVE  r = [data |-> a, size |-> o.size, capacity |-> n]
<1>1. PICK z : z = o.size
  OBVIOUS
<1>2. o \in [data : {o.data}, size : {z}, capacity : {o.capacity}]
  BY <1>1 DEF VecRecords
<1>3. r \in [data : {a}, size : {z}, capacity : {n}]
  <2>1. ASSUME NEW q \in [data : {o.data}, size : {z}, capacity : {o.capacity}],
               r = [q EXCEPT !.data = a, !.capacity = n]
        PROVE  r \in [data : {a}, size : {z}, capacity : {n}]
    BY <2>1, Zenon
  <2> QED  BY <1>2, <2>1, Zenon
<1>4. r = [data |-> a, size |-> z, capacity |-> n]
  BY <1>3, Zenon
<1> QED  BY <1>1, <1>4, Zenon

(* v without the buffer it has *)
LEMMA VecLeft ==
  ASSUME NEW s, NEW m, VecsIn(s, m), NEW v \in Vec, s[v] # Absent,
         NEW q, q = Raws!destroy(m, s[v].data, s[v].size)
  PROVE  Touched(m, q, VecPtr[s[v]]) /\ VecPtr[s[v]] \notin DOMAIN q.heap
<1>1. PICK b, c, n : b = s[v].data /\ c = s[v].capacity /\ n = s[v].size
  OBVIOUS
<1>2. Owned(m.heap, b, c, n) /\ VecPtr[s[v]] = b /\ m \in Memory(Slots) /\ q = Raws!destroy(m, b, n)
  BY <1>1, VecInScope, VecFunction
<1>3. Touched(m, q, b) /\ b \notin DOMAIN q.heap
  BY <1>2, OwnedDestroyed
<1> QED  BY <1>2, <1>3

LEMMA VecFree ==
  ASSUME NEW s, NEW m, VecsIn(s, m), NEW v \in Vec, s[v] = Absent
  PROVE  Touched(m, m, VecPtr[s[v]]) /\ VecPtr[s[v]] \notin DOMAIN m.heap
<1>1. VecPtr[s[v]] = Null /\ m \in Memory(Slots) /\ m.heap \in Heaps(Slots)
  BY VecTypes, VecFunction
<1> QED  BY <1>1, OutsideSame, HeapType, NullIsNoAddress DEF Touched

(* and it takes over w's *)
LEMMA VecMoved ==
  ASSUME NEW s, NEW m, VecsIn(s, m), NEW v \in Vec, NEW w \in Vec, v # w,
         NEW q, Touched(m, q, VecPtr[s[v]]), VecPtr[s[v]] \notin DOMAIN q.heap,
         NEW r \in Vecs, VecPtr[r] = Null, NEW t, t = [s EXCEPT ![v] = s[w], ![w] = r]
  PROVE  VecsIn(t, q)
<1>1. PICK y, o : y = Absent /\ o = [s EXCEPT ![v] = y]
  BY Zenon
<1>2. y \in Vecs /\ VecPtr[y] = Null
  BY <1>1, VecTypes
<1>3. VecsIn(o, q)
  BY <1>1, <1>2, VecGone, Zenon
<1>4. o[v] = y /\ o[w] = s[w] /\ t = [o EXCEPT ![v] = s[w], ![w] = r]
  BY <1>1, VecFunction, Zenon
<1>5. VecPtr[o[v]] = Null /\ t = [o EXCEPT ![v] = o[w], ![w] = r]
  BY <1>2, <1>4, Zenon
<1>6. ASSUME NEW p, VecsIn(p, q), VecPtr[p[v]] = Null, NEW u, u = [p EXCEPT ![v] = p[w], ![w] = r]
      PROVE  VecsIn(u, q)
  BY <1>6, VecTaken, Zenon
<1> QED  BY <1>3, <1>5, <1>6, Zenon

(* what was made is gone again *)
LEMMA VecRestored ==
  ASSUME NEW s, NEW m, VecsIn(s, m), NEW q, NEW a, Touched(m, q, a), a \notin DOMAIN m.heap, a \notin DOMAIN q.heap
  PROVE  VecsIn(s, q)
<1>1. PICK h, g : h = m.heap /\ g = q.heap
  OBVIOUS
<1>2. h \in Heaps(Slots) /\ g \in Heaps(Slots) /\ q \in Memory(Slots)
  BY <1>1, VecFunction, MemoryType, Zenon DEF Touched
<1>3. DOMAIN g = DOMAIN h /\ \A x \in DOMAIN h : g[x] = h[x]
  BY <1>1 DEF Touched, Outside
<1>4. h = [x \in DOMAIN h |-> h[x]] /\ g = [x \in DOMAIN g |-> g[x]]
  BY <1>2, HeapType
<1>5. g = h
  BY <1>3, <1>4
<1> QED  BY <1>1, <1>2, <1>5 DEF VecsIn

LEMMA VecCopyUndone ==
  ASSUME NEW s, NEW m, VecsIn(s, m), NEW w \in Vec, s[w] # Absent, NEW k \in Nat, k <= s[w].size,
         NEW a, a = Raws!Fresh(m),
         NEW q, q = Raws!CopyRange(Raws!allocate(m, s[w].capacity), a, s[w].data, k),
         NEW f, f = Raws!destroy(q, a, k)
  PROVE  VecsIn(s, f)
<1>1. /\ Touched(m, q, a) /\ Holding(q.heap, a, s[w].capacity, 0 .. k - 1) /\ a \in Address /\ a \notin DOMAIN m.heap
  BY VecCopied
<1>2. s[w].size <= s[w].capacity /\ s[w].size \in Nat /\ s[w].capacity \in Nat
  BY VecInScope
<1>3. PICK c : c = s[w].capacity
  OBVIOUS
<1>4. k <= c /\ q \in Memory(Slots) /\ Holding(q.heap, a, c, 0 .. k - 1)
  BY <1>1, <1>2, <1>3 DEF Touched
<1>5. Touched(q, f, a) /\ a \notin DOMAIN f.heap
  BY <1>4, DestroyDoes
<1>6. PICK B : B = {a}
  BY Zenon
<1>7. Outside(Slots, q.heap, m.heap, B) /\ Outside(Slots, f.heap, q.heap, {a}) /\ a \in B
  BY <1>1, <1>5, <1>6 DEF Touched
<1>8. Outside(Slots, f.heap, m.heap, B)
  BY <1>7, OutsideStep
<1>9. Touched(m, f, a)
  BY <1>5, <1>6, <1>8 DEF Touched
<1> QED  BY <1>1, <1>5, <1>9, VecRestored

(* the copy is there, and the buffer v had goes *)
LEMMA VecCopyTaken ==
  ASSUME NEW s, NEW m, VecsIn(s, m), NEW v \in Vec, s[v] # Absent, NEW w \in Vec, s[w] # Absent,
         NEW a, a = Raws!Fresh(m), NEW k, k = s[w].size,
         NEW q, q = Raws!CopyRange(Raws!allocate(m, s[w].capacity), a, s[w].data, k),
         NEW f, f = Raws!destroy(q, s[v].data, s[v].size),
         NEW r, r = [s[w] EXCEPT !.data = a], NEW t, t = [s EXCEPT ![v] = r]
  PROVE  VecsIn(t, f)
<1>1. /\ s[w] \in VecRecords /\ k \in Nat /\ k <= s[w].size /\ k <= s[w].capacity /\ s[w].capacity \in Nat
  BY VecInScope
<1>2. Touched(m, q, a) /\ Holding(q.heap, a, s[w].capacity, 0 .. k - 1) /\ a \in Address /\ a \notin DOMAIN m.heap
  BY <1>1, VecCopied
<1>3. r \in VecRecords /\ r.data = a /\ r.size = k /\ r.capacity = s[w].capacity
  BY <1>1, <1>2 DEF VecRecords
<1>4. PICK b, c, n : b = s[v].data /\ c = s[v].capacity /\ n = s[v].size
  OBVIOUS
<1>5. Owned(m.heap, b, c, n) /\ VecPtr[s[v]] = b
  BY <1>4, VecInScope
<1>6. a # Null /\ a # b
  <2>1. b \in DOMAIN m.heap \cup {Null} /\ Null \notin Address
    BY <1>5, VecFunction, NullIsNoAddress
  <2> QED  BY <1>2, <2>1
<1>7. Outside(Slots, q.heap, m.heap, {a}) /\ q \in Memory(Slots)
  BY <1>2 DEF Touched
<1>8. Owned(q.heap, b, c, n)
  BY <1>5, <1>6, <1>7, OwnedKept
<1>9. f = Raws!destroy(q, b, n)
  BY <1>4
<1>10. Touched(q, f, b) /\ b \notin DOMAIN f.heap
  BY <1>7, <1>8, <1>9, OwnedDestroyed
<1>11. PICK z, K : z = s[w].capacity /\ K = 0 .. k - 1
  OBVIOUS
<1>12. Outside(Slots, f.heap, q.heap, {b}) /\ f \in Memory(Slots)
  BY <1>10 DEF Touched
<1>13. Holding(f.heap, a, z, K)
  <2>1. Holding(q.heap, a, z, K) /\ a \notin {b}
    BY <1>2, <1>6, <1>11
  <2> QED  BY <1>12, <2>1, HoldingKept
<1>14. VecIn(r, f.heap)
  BY <1>1, <1>3, <1>6, <1>11, <1>13 DEF VecIn, Owned
<1>15. Outside(Slots, f.heap, m.heap, {a, b})
  BY <1>7, <1>12 DEF Outside
<1>16. Outside(Slots, f.heap, m.heap, {a, VecPtr[s[v]]}) /\ VecPtr[s[v]] \notin DOMAIN f.heap
  BY <1>5, <1>10, <1>15
<1> QED  BY <1>2, <1>3, <1>12, <1>14, <1>16, VecNew, Zenon

(* some of what has been transferred is destroyed again *)
LEMMA VecTransferUndone ==
  ASSUME NEW m, NEW q, NEW r, NEW a, NEW n, NEW I, Transferred(m, q, r, a, n, I),
         NEW i \in Nat, NEW j \in Nat, i <= j, j <= n, i .. j - 1 \subseteq I,
         NEW f, f = Raws!destruct_range(q, a, i, j), NEW K, K = I \ (i .. j - 1)
  PROVE  Transferred(m, f, r, a, n, K)
<1>1. /\ q \in Memory(Slots) /\ Outside(Slots, q.heap, m.heap, {a, r.data})
      /\ Holding(q.heap, a, n, I) /\ Owned(q.heap, r.data, r.capacity, r.size) /\ a # r.data
  BY DEF Transferred
<1>2. Touched(q, f, a) /\ Holding(f.heap, a, n, K)
  BY <1>1, DestructRangeDoes, Zenon
<1>3. PICK B : B = {a, r.data}
  BY Zenon
<1>4. Outside(Slots, q.heap, m.heap, B) /\ Outside(Slots, f.heap, q.heap, {a}) /\ a \in B /\ f \in Memory(Slots)
  BY <1>1, <1>2, <1>3 DEF Touched
<1>5. Outside(Slots, f.heap, m.heap, B)
  BY <1>4, OutsideStep
<1>6. PICK b, c, z : b = r.data /\ c = r.capacity /\ z = r.size
  OBVIOUS
<1>7. Owned(q.heap, b, c, z) /\ b \notin {a}
  BY <1>1, <1>6
<1>8. Owned(f.heap, b, c, z)
  BY <1>4, <1>7, OwnedKept
<1> QED  BY <1>1, <1>2, <1>3, <1>4, <1>5, <1>6, <1>8 DEF Transferred

(* and then the new buffer goes *)
LEMMA VecDropped ==
  ASSUME NEW s, NEW m, VecsIn(s, m), NEW v \in Vec, s[v] # Absent, NEW a, a \notin DOMAIN m.heap,
         NEW q, NEW n, NEW K, Transferred(m, q, s[v], a, n, K), K = {}, NEW f, f = Raws!Delete(q, a)
  PROVE  VecsIn(s, f)
<1>1. PICK r : r = s[v]
  OBVIOUS
<1>2. /\ q \in Memory(Slots) /\ Outside(Slots, q.heap, m.heap, {a, r.data})
      /\ Holding(q.heap, a, n, {}) /\ Owned(q.heap, r.data, r.capacity, r.size) /\ a # r.data
  BY <1>1 DEF Transferred
<1>3. Touched(q, f, a) /\ a \notin DOMAIN f.heap
  BY <1>2, DeleteDoes
<1>4. PICK B : B = {a, r.data}
  BY Zenon
<1>5. Outside(Slots, q.heap, m.heap, B) /\ Outside(Slots, f.heap, q.heap, {a}) /\ a \in B /\ f \in Memory(Slots)
  BY <1>2, <1>3, <1>4 DEF Touched
<1>6. Outside(Slots, f.heap, m.heap, B)
  BY <1>5, OutsideStep
<1>7. PICK b, c, z : b = r.data /\ c = r.capacity /\ z = r.size
  OBVIOUS
<1>8. Owned(q.heap, b, c, z) /\ b \notin {a}
  BY <1>2, <1>7
<1>9. Owned(f.heap, b, c, z)
  BY <1>5, <1>8, OwnedKept
<1>10. r \in VecRecords /\ VecPtr[s[v]] = r.data
  BY <1>1, VecInScope
<1>11. VecIn(r, f.heap)
  BY <1>7, <1>9, <1>10 DEF VecIn
<1>12. Outside(Slots, f.heap, m.heap, {a, VecPtr[s[v]]}) /\ r.data = VecPtr[s[v]]
  BY <1>4, <1>6, <1>10
<1>13. PICK t : t = [s EXCEPT ![v] = r]
  BY Zenon
<1>14. VecsIn(t, f)
  BY <1>3, <1>5, <1>11, <1>12, <1>13, VecKeeps, Zenon
<1>15. t = s
  BY <1>1, <1>13, VecSame
<1> QED  BY <1>14, <1>15

-----------------------------------------------------------------------------
(* vector2, of which no call without a clean-up throws                     *)
LEMMA Vector2Raws ==
  ASSUME NEW m, NEW b, NEW i, NEW j, NEW x
  PROVE  /\ V2!Fresh(m) = Raws!Fresh(m) /\ V2!allocate(m, i) = Raws!allocate(m, i)
         /\ V2!Construct(m, b, i, x) = Raws!ConstructRange(m, b, i, i + 1, [k \in {i} |-> x])
         /\ V2!destruct_range(m, b, i, j) = Raws!destruct_range(m, b, i, j)
         /\ V2!destroy(m, b, i) = Raws!destroy(m, b, i)
         /\ V2!CopyRange(m, b, j, i) = Raws!CopyRange(m, b, j, i)
         /\ V2!MoveRange(m, b, j, i) = Raws!MoveRange(m, b, j, i)
<1>1. V2!Fresh(m) = Raws!Fresh(m)
  BY Zenon DEF V2!Fresh, Raws!Fresh, V2!NewAddress, Raws!NewAddress, V2!Cardinality, Raws!Cardinality
<1>2. V2!allocate(m, i) = Raws!allocate(m, i)
  BY Zenon DEF V2!allocate, Raws!allocate, V2!Fresh, Raws!Fresh, V2!NewAddress, Raws!NewAddress,
       V2!Cardinality, Raws!Cardinality, V2!With, Raws!With, V2!Span, Raws!Span
<1>3. V2!Construct(m, b, i, x) = Raws!ConstructRange(m, b, i, i + 1, [k \in {i} |-> x])
  BY Zenon DEF V2!Construct, V2!ConstructRange, Raws!ConstructRange, V2!SetRange, Raws!SetRange, V2!Span, Raws!Span
<1>4. V2!destruct_range(m, b, i, j) = Raws!destruct_range(m, b, i, j)
  BY Zenon DEF V2!destruct_range, Raws!destruct_range, V2!SetRange, Raws!SetRange, V2!Span, Raws!Span
<1>5. V2!destroy(m, b, i) = Raws!destroy(m, b, i)
  BY Zenon DEF V2!destroy, Raws!destroy, V2!Delete, Raws!Delete, V2!Without, Raws!Without,
       V2!destruct_range, Raws!destruct_range, V2!SetRange, Raws!SetRange, V2!Span, Raws!Span
<1>6. V2!CopyRange(m, b, j, i) = Raws!CopyRange(m, b, j, i)
  BY Zenon DEF V2!CopyRange, Raws!CopyRange, V2!ConstructRange, Raws!ConstructRange,
       V2!SetRange, Raws!SetRange, V2!Span, Raws!Span
<1>7. V2!MoveRange(m, b, j, i) = Raws!MoveRange(m, b, j, i)
  BY <1>6, Zenon DEF V2!MoveRange, Raws!MoveRange
<1> QED  BY <1>1, <1>2, <1>3, <1>4, <1>5, <1>6, <1>7, Zenon

LEMMA Vector2Init == V2!Init => VecsOK
<1> SUFFICES ASSUME V2!Init PROVE VecsOK
  OBVIOUS
<1>1. obj = [v \in Vec |-> Absent] /\ mem = [heap |-> [a \in {} |-> Null], sound |-> TRUE]
  BY DEF V2!Init, V2!NoBuffers
<1>2. mem \in Memory(Slots) /\ mem.heap = [a \in {} |-> Null]
  BY <1>1, HeapEmpty, MemoryIs
<1>3. Storage(Vecs, Slots, VecPtr, VecPairs, obj, mem.heap)
  BY <1>1, <1>2, VecTypes, StorageInit
<1> QED  BY <1>2, <1>3 DEF VecsOK, VecsIn

(* v without its buffer *)
LEMMA Vector2Released ==
  ASSUME VecsOK, NEW v \in Vec, obj[v] # Absent, NEW q, q = V2!Release(v, mem)
  PROVE  Touched(mem, q, VecPtr[obj[v]]) /\ VecPtr[obj[v]] \notin DOMAIN q.heap
<1>1. /\ Owned(mem.heap, obj[v].data, obj[v].capacity, obj[v].size) /\ VecPtr[obj[v]] = obj[v].data
      /\ mem \in Memory(Slots)
  BY VecInScope, VecFunction DEF VecsOK
<1>2. q = Raws!destroy(mem, obj[v].data, obj[v].size)
  <2>1. CASE obj[v].data = Null
    BY <1>1, <2>1, DestroyNothing DEF V2!Release, Owned
  <2>2. CASE obj[v].data # Null
    BY <2>2, Vector2Raws, Zenon DEF V2!Release
  <2> QED  BY <2>1, <2>2
<1>3. PICK b, c, n : b = obj[v].data /\ c = obj[v].capacity /\ n = obj[v].size
  BY Zenon
<1>4. Touched(mem, q, b) /\ b \notin DOMAIN q.heap
  BY <1>1, <1>2, <1>3, OwnedDestroyed, Zenon
<1> QED  BY <1>1, <1>3, <1>4

LEMMA Vector2Throw ==
  ASSUME VecsOK, NEW v, NEW c, V2!Throw(c, mem, v, obj[v]) \/ V2!Return(c, mem, v, obj[v])
  PROVE  VecsOK'
<1>1. obj' = [obj EXCEPT ![v] = obj[v]] /\ mem' = mem
  BY DEF V2!Throw, V2!Return, V2!End
<1>2. obj' = obj
  BY <1>1, VecFunction DEF VecsOK
<1> QED  BY <1>1, <1>2 DEF VecsOK

LEMMA Vector2Gone ==
  ASSUME VecsOK, NEW v \in Vec, V2!DefaultCtor(v) \/ V2!Destructor(v) \/ V2!clear(v)
  PROVE  VecsOK'
<1>1. PICK r : /\ obj' = [obj EXCEPT ![v] = r] /\ r \in {Absent, V2!Empty}
               /\ \/ obj[v] = Absent /\ mem' = mem
                  \/ obj[v] # Absent /\ mem' = V2!Release(v, mem)
  BY Zenon DEF V2!DefaultCtor, V2!Destructor, V2!clear, V2!InScope, V2!Return, V2!End
<1>2. r \in Vecs /\ VecPtr[r] = Null
  BY <1>1, VecEmpty, VecTypes DEF V2!Empty
<1>3. Touched(mem, mem', VecPtr[obj[v]]) /\ VecPtr[obj[v]] \notin DOMAIN mem'.heap
  <2>1. CASE obj[v] = Absent
    <3>1. mem' = mem /\ VecPtr[obj[v]] = Null /\ mem \in Memory(Slots) /\ mem.heap \in Heaps(Slots)
      BY <1>1, <2>1, VecTypes, VecFunction DEF VecsOK
    <3> QED  BY <3>1, OutsideSame, HeapType, NullIsNoAddress DEF Touched
  <2>2. CASE obj[v] # Absent
    BY <1>1, <2>2, Vector2Released
  <2> QED  BY <2>1, <2>2
<1>4. PICK t, q : t = obj' /\ q = mem'
  OBVIOUS
<1>5. VecsIn(t, q)
  BY <1>1, <1>2, <1>3, <1>4, VecGone, Zenon DEF VecsOK
<1> QED  BY <1>4, <1>5 DEF VecsOK

LEMMA Vector2Copied ==
  ASSUME NEW m, NEW w \in Vec, NEW k
  PROVE  V2!Copied(w, m, k) = Raws!CopyRange(Raws!allocate(m, obj[w].capacity), Raws!Fresh(m), obj[w].data, k)
BY Vector2Raws, Zenon DEF V2!Copied

LEMMA Vector2Copies ==
  ASSUME ~Unguarded, VecsOK, NEW v \in Vec, NEW w \in Vec, V2!CopyCtor(v, w) \/ V2!CopyAssign(v, w)
  PROVE  VecsOK'
<1>1. CASE V2!CopyCtor(v, w)
  <2>1. CASE V2!Throw(<<"copy", v, w>>, mem, v, Absent) /\ obj[v] = Absent
    BY <2>1, Vector2Throw, Zenon
  <2>2. CASE ~V2!Throw(<<"copy", v, w>>, mem, v, Absent)
    <3>1. PICK k : k = obj[w].size
      OBVIOUS
    <3>2. V2!Return(<<"copy", v, w>>, V2!Copied(w, mem, k), v, [obj[w] EXCEPT !.data = V2!New])
      BY <1>1, <2>2, <3>1 DEF V2!CopyCtor, V2!CopyStops
    <3>3. PICK a, q, r, t : a = Raws!Fresh(mem) /\ q = mem' /\ r = [obj[w] EXCEPT !.data = a] /\ t = obj'
      BY Zenon
    <3>4. /\ q = Raws!CopyRange(Raws!allocate(mem, obj[w].capacity), a, obj[w].data, k)
          /\ t = [obj EXCEPT ![v] = r]
      BY <3>2, <3>3, Vector2Copied, Vector2Raws, Zenon DEF V2!Return, V2!End, V2!New
    <3>5. obj[w] # Absent /\ VecPtr[obj[v]] = Null
      BY <1>1, VecTypes DEF V2!CopyCtor, V2!InScope
    <3>6. PICK s, m : s = obj /\ m = mem
      OBVIOUS
    <3>7. /\ VecsIn(s, m) /\ a = Raws!Fresh(m) /\ r = [s[w] EXCEPT !.data = a] /\ t = [s EXCEPT ![v] = r]
          /\ q = Raws!CopyRange(Raws!allocate(m, s[w].capacity), a, s[w].data, k)
          /\ k = s[w].size /\ s[w] # Absent /\ VecPtr[s[v]] = Null
      BY <3>1, <3>3, <3>4, <3>5, <3>6 DEF VecsOK
    <3>8. VecsIn(t, q)
      BY <3>7, VecCopyMade, Zenon
    <3> QED  BY <3>3, <3>8 DEF VecsOK
  <2> QED  BY <1>1, <2>1, <2>2 DEF V2!CopyCtor, V2!InScope
<1>2. CASE V2!CopyAssign(v, w)
  <2>1. PICK m, k : m = V2!Release(v, mem) /\ k = obj[w].size
    OBVIOUS
  <2>2. v # w /\ obj[v] # Absent /\ obj[w] # Absent
    BY <1>2 DEF V2!CopyAssign, V2!InScope
  <2>3. V2!Return(<<"copy", v, w>>, V2!Copied(w, m, k), v, [obj[w] EXCEPT !.data = V2!Fresh(m)])
    BY <1>2, <2>1 DEF V2!CopyAssign, V2!CopyStops
  <2>4. Touched(mem, m, VecPtr[obj[v]]) /\ VecPtr[obj[v]] \notin DOMAIN m.heap
    BY <2>1, <2>2, Vector2Released
  <2>5. PICK s, y : y = Absent /\ s = [obj EXCEPT ![v] = y]
    BY Zenon
  <2>6. VecsIn(s, m) /\ s[v] = Absent
    <3>1. y \in Vecs /\ VecPtr[y] = Null /\ VecsIn(obj, mem)
      BY <2>5, VecTypes DEF VecsOK
    <3>2. VecsIn(s, m)
      BY <2>4, <2>5, <3>1, VecGone, Zenon
    <3>3. s[v] = y
      BY <2>5, <3>1, VecFunction
    <3> QED  BY <2>5, <3>2, <3>3
  <2>7. s[w] = obj[w]
    BY <2>2, <2>5, VecFunction DEF VecsOK
  <2>8. PICK a, q, r, t : a = Raws!Fresh(m) /\ q = mem' /\ r = [s[w] EXCEPT !.data = a] /\ t = obj'
    BY Zenon
  <2>9. q = Raws!CopyRange(Raws!allocate(m, s[w].capacity), a, s[w].data, k) /\ t = [obj EXCEPT ![v] = r]
    BY <2>3, <2>7, <2>8, Vector2Copied, Vector2Raws DEF V2!Return, V2!End
  <2>10. t = [s EXCEPT ![v] = r]
    BY <2>5, <2>9, VecFunction, Zenon DEF VecsOK
  <2>11. k = s[w].size /\ s[w] # Absent /\ VecPtr[s[v]] = Null
    BY <2>1, <2>2, <2>6, <2>7, VecTypes
  <2>12. a = Raws!Fresh(m) /\ r = [s[w] EXCEPT !.data = a]
    BY <2>8
  <2>13. q = Raws!CopyRange(Raws!allocate(m, s[w].capacity), a, s[w].data, k)
    BY <2>9
  <2>14. VecsIn(t, q)
    BY <2>6, <2>10, <2>11, <2>12, <2>13, VecCopyMade, Zenon
  <2> QED  BY <2>8, <2>14 DEF VecsOK
<1> QED  BY <1>1, <1>2

LEMMA Vector2Takes ==
  ASSUME VecsOK, NEW v \in Vec, NEW w \in Vec, V2!MoveCtor(v, w) \/ V2!MoveAssign(v, w)
  PROVE  VecsOK'
<1>1. PICK r : r = V2!Empty
  OBVIOUS
<1>2. r \in Vecs /\ VecPtr[r] = Null
  BY <1>1, VecEmpty DEF V2!Empty
<1>3. v # w /\ obj' = [obj EXCEPT ![v] = obj[w], ![w] = r]
  BY <1>1 DEF V2!MoveCtor, V2!MoveAssign, V2!Take, V2!InScope
<1>4. PICK s, y : y = Absent /\ s = [obj EXCEPT ![v] = y]
  BY Zenon
<1>5. VecsIn(s, mem') /\ s[v] = Absent
  <2>1. CASE V2!MoveCtor(v, w)
    <3>1. obj[v] = Absent /\ mem' = mem
      BY <2>1 DEF V2!MoveCtor, V2!Take, V2!InScope
    <3>2. VecsIn(obj, mem) /\ y = obj[v]
      BY <1>4, <3>1 DEF VecsOK
    <3>3. s = obj
      BY <1>4, <3>2, VecSame
    <3> QED  BY <3>1, <3>3 DEF VecsOK
  <2>2. CASE V2!MoveAssign(v, w)
    <3>1. obj[v] # Absent /\ mem' = V2!Release(v, mem)
      BY <2>2 DEF V2!MoveAssign, V2!Take, V2!InScope
    <3>2. PICK q : q = mem'
      OBVIOUS
    <3>3. Touched(mem, q, VecPtr[obj[v]]) /\ VecPtr[obj[v]] \notin DOMAIN q.heap
      BY <3>1, <3>2, Vector2Released
    <3>4. y \in Vecs /\ VecPtr[y] = Null /\ VecsIn(obj, mem)
      BY <1>4, VecTypes DEF VecsOK
    <3>5. VecsIn(s, q)
      BY <1>4, <3>3, <3>4, VecGone, Zenon
    <3>6. s[v] = y
      BY <1>4, <3>4, VecFunction
    <3> QED  BY <1>4, <3>2, <3>5, <3>6
  <2> QED  BY <2>1, <2>2
<1>6. obj' = [s EXCEPT ![v] = s[w], ![w] = r]
  BY <1>3, <1>4, VecFunction, Zenon DEF VecsOK
<1>7. PICK t, q : t = obj' /\ q = mem'
  OBVIOUS
<1>8. VecPtr[s[v]] = Null
  BY <1>5, VecTypes
<1>9. v # w /\ VecsIn(s, q) /\ t = [s EXCEPT ![v] = s[w], ![w] = r]
  BY <1>3, <1>5, <1>6, <1>7
<1>10. VecsIn(t, q)
  BY <1>2, <1>8, <1>9, VecTaken, Zenon
<1> QED  BY <1>7, <1>10 DEF VecsOK

LEMMA Vector2Constructs ==
  ASSUME NEW m, NEW b, NEW i, NEW x
  PROVE  V2!Construct(m, b, i, x) = Raws!ConstructRange(m, b, i, i + 1, [k \in {i} |-> x])
BY Zenon DEF V2!Construct, V2!ConstructRange, Raws!ConstructRange, V2!SetRange, Raws!SetRange, V2!Span, Raws!Span

(* growth: the elements move to a new buffer *)
LEMMA Vector2Moves ==
  ASSUME ~Unguarded, VecsOK, NEW v \in Vec, obj[v] # Absent, NEW c, NEW m, NEW n \in Nat, NEW z \in Nat,
         Touched(mem, m, Raws!Fresh(mem)), NEW K, Holding(m.heap, Raws!Fresh(mem), n, K),
         K \cap (0 .. obj[v].size - 1) = {}, 0 .. z - 1 = K \cup (0 .. obj[v].size - 1), obj[v].size <= z, z <= n,
         Raws!Fresh(mem) \in Address, Raws!Fresh(mem) \notin DOMAIN mem.heap,
         V2!Moves(c, v, m, n, z)
  PROVE  VecsOK'
<1>1. PICK s, o, a, k : s = obj /\ o = mem /\ a = Raws!Fresh(mem) /\ k = obj[v].size
  OBVIOUS
<1>2. PICK q, r, t : /\ q = V2!MoveRange(m, a, s[v].data, k)
                     /\ r = [data |-> a, size |-> z, capacity |-> n] /\ t = [s EXCEPT ![v] = r]
  BY Zenon
<1>3. mem' = V2!Retire(q, s[v].data, k) /\ obj' = t
  BY <1>1, <1>2, Vector2Raws, Zenon DEF V2!Moves, V2!Return, V2!End, V2!New
<1>4. PICK f : f = mem'
  OBVIOUS
<1>5. q = Raws!MoveRange(m, a, s[v].data, k) /\ f = Raws!destroy(q, s[v].data, k)
  BY <1>2, <1>3, <1>4, Vector2Raws, Zenon DEF V2!Retire
<1>6. /\ VecsIn(s, o) /\ s[v] # Absent /\ a \in Address /\ a \notin DOMAIN o.heap /\ Touched(o, m, a)
      /\ Holding(m.heap, a, n, K) /\ k = s[v].size /\ K \cap (0 .. k - 1) = {} /\ k <= z
      /\ 0 .. z - 1 = K \cup (0 .. k - 1)
  BY <1>1 DEF VecsOK
<1>7. VecsIn(t, f)
  BY <1>2, <1>5, <1>6, VecGrown, Zenon
<1> QED  BY <1>3, <1>4, <1>7 DEF VecsOK

LEMMA Vector2Reserve ==
  ASSUME ~Unguarded, VecsOK, NEW v \in Vec, NEW n \in Nat, V2!reserve(v, n)
  PROVE  VecsOK'
<1>1. obj[v] # Absent
  BY DEF V2!reserve, V2!InScope
<1>2. obj[v].size \in Nat /\ obj[v].capacity \in Nat /\ obj[v].size <= obj[v].capacity /\ mem \in Memory(Slots)
  BY <1>1, VecInScope, VecFunction DEF VecsOK
<1>3. CASE V2!Throw(<<"reserve", v>>, mem, v, obj[v]) \/ V2!Return(<<"reserve", v>>, mem, v, obj[v])
  BY <1>3, Vector2Throw
<1>4. CASE n > obj[v].capacity /\ V2!Moves(<<"reserve", v>>, v, V2!allocate(mem, n), n, obj[v].size)
  <2>1. PICK m, a, c, z, K : /\ m = V2!allocate(mem, n) /\ a = Raws!Fresh(mem) /\ c = <<"reserve", v>>
                             /\ z = obj[v].size /\ K = {}
    BY Zenon
  <2>2. m = Raws!allocate(mem, n)
    BY <2>1, Vector2Raws, Zenon
  <2>3. Touched(mem, m, a) /\ Holding(m.heap, a, n, {}) /\ a \in Address /\ a \notin DOMAIN mem.heap
    BY <1>2, <2>1, <2>2, AllocateDoes
  <2>4. /\ V2!Moves(c, v, m, n, z) /\ z \in Nat /\ z <= n /\ obj[v].size <= z
        /\ K \cap (0 .. obj[v].size - 1) = {} /\ 0 .. z - 1 = K \cup (0 .. obj[v].size - 1)
    BY <1>2, <1>4, <2>1
  <2>5. Holding(m.heap, a, n, K)
    BY <2>1, <2>3
  <2> QED  BY <1>1, <2>1, <2>3, <2>4, <2>5, Vector2Moves, Zenon
<1> QED  BY <1>3, <1>4, Zenon DEF V2!reserve

LEMMA Vector2PushGrowing ==
  ASSUME ~Unguarded, VecsOK, NEW v \in Vec, NEW x \in Item, V2!PushGrowing(v, x)
  PROVE  VecsOK'
<1>1. obj[v] # Absent /\ obj[v].size = obj[v].capacity
  BY DEF V2!PushGrowing, V2!InScope
<1>2. obj[v].size \in Nat /\ obj[v].capacity \in Nat /\ mem \in Memory(Slots)
  BY <1>1, VecInScope, VecFunction DEF VecsOK
<1>3. PICK c, n, made : /\ c = <<"push_back", v, x>> /\ n = V2!new_capacity(obj[v].capacity)
                        /\ made = V2!allocate(mem, n)
  BY Zenon
<1>4. CASE V2!Throw(c, mem, v, obj[v])
  BY <1>4, Vector2Throw
<1>5. CASE V2!Moves(c, v, V2!Construct(made, V2!New, obj[v].size, x), n, obj[v].size + 1)
  <2>1. PICK i, j, z, a, m, K, I, value :
          /\ i = obj[v].size /\ j = i + 1 /\ z = i + 1 /\ a = Raws!Fresh(mem)
          /\ m = V2!Construct(made, a, i, x) /\ K = {} /\ I = K \cup (i .. j - 1) /\ value = [k \in {i} |-> x]
    BY Zenon
  <2>2. n \in Nat /\ j <= n /\ i \in Nat /\ j \in Nat /\ i <= j
    BY <1>1, <1>2, <1>3, <2>1 DEF V2!new_capacity
  <2>3. made = Raws!allocate(mem, n) /\ m = Raws!ConstructRange(made, a, i, j, value)
    <3>1. V2!Construct(made, a, i, x) = Raws!ConstructRange(made, a, i, i + 1, [k \in {i} |-> x])
      BY Vector2Constructs, Zenon
    <3>2. V2!allocate(mem, n) = Raws!allocate(mem, n)
      BY Vector2Raws, Zenon
    <3> QED  BY <1>3, <2>1, <3>1, <3>2, Zenon
  <2>4. Touched(mem, made, a) /\ Holding(made.heap, a, n, {}) /\ a \in Address /\ a \notin DOMAIN mem.heap
    BY <1>2, <2>1, <2>2, <2>3, AllocateDoes
  <2>5. \A k \in i .. j - 1 : value[k] \in Slot \ {Raw}
    <3>1. x \in Slot \ {Raw}
      BY SingleThreadedAssumption DEF Slot
    <3> QED  BY <2>1, <2>2, <3>1
  <2>6. /\ Holding(made.heap, a, n, K) /\ K \cap (i .. j - 1) = {} /\ made \in Memory(Slots)
        /\ I = K \cup (i .. j - 1)
    BY <2>1, <2>4 DEF Touched
  <2>7. Touched(made, m, a) /\ Holding(m.heap, a, n, I)
    BY <2>2, <2>3, <2>5, <2>6, ConstructRangeDoes, Zenon
  <2>8. Touched(mem, m, a)
    <3>1. PICK B : B = {a}
      BY Zenon
    <3>2. Outside(Slots, made.heap, mem.heap, B) /\ Outside(Slots, m.heap, made.heap, {a}) /\ a \in B
      BY <2>4, <2>7, <3>1 DEF Touched
    <3>3. Outside(Slots, m.heap, mem.heap, B)
      BY <3>2, OutsideStep
    <3> QED  BY <2>7, <3>1, <3>3 DEF Touched
  <2>9. /\ V2!Moves(c, v, m, n, z) /\ z \in Nat /\ z <= n /\ obj[v].size <= z
        /\ I \cap (0 .. obj[v].size - 1) = {} /\ 0 .. z - 1 = I \cup (0 .. obj[v].size - 1)
    <3>1. V2!Moves(c, v, m, n, z)
      BY <1>5, <2>1, Vector2Raws, Zenon DEF V2!New
    <3>2. I = i .. i
      BY <2>1, <2>2
    <3> QED  BY <1>2, <2>1, <2>2, <3>1, <3>2
  <2> QED  BY <1>1, <2>1, <2>2, <2>4, <2>7, <2>8, <2>9, Vector2Moves, Zenon
<1> QED  BY <1>3, <1>4, <1>5, Zenon DEF V2!PushGrowing

LEMMA Vector2InPlace ==
  ASSUME VecsOK, NEW v \in Vec, NEW x \in Item, V2!PushInPlace(v, x)
  PROVE  VecsOK'
<1>1. PICK c : c = <<"push_back", v, x>>
  BY Zenon
<1>2. CASE V2!Throw(c, mem, v, obj[v])
  BY <1>2, Vector2Throw
<1>3. CASE V2!Return(c, V2!Construct(mem, obj[v].data, obj[v].size, x), v, [obj[v] EXCEPT !.size = @ + 1])
  <2>1. PICK s, m, i, j, value, q, r, t :
          /\ s = obj /\ m = mem /\ i = s[v].size /\ j = i + 1 /\ value = [k \in {i} |-> x]
          /\ q = V2!Construct(m, s[v].data, i, x)
          /\ r = [s[v] EXCEPT !.size = j] /\ t = [s EXCEPT ![v] = r]
    BY Zenon
  <2>2. mem' = q /\ obj' = t
    BY <1>3, <2>1 DEF V2!Return, V2!End
  <2>3. q = Raws!ConstructRange(m, s[v].data, i, j, value)
    BY <2>1, Vector2Constructs, Zenon
  <2>4. VecsIn(s, m) /\ s[v] # Absent /\ i < s[v].capacity
    BY <2>1 DEF VecsOK, V2!PushInPlace, V2!InScope
  <2>5. i \in Nat /\ s[v].capacity \in Nat
    BY <2>1, <2>4, VecInScope
  <2>6. j \in Nat /\ i <= j /\ j <= s[v].capacity /\ s[v].capacity # 0
    BY <2>1, <2>4, <2>5
  <2>7. \A k \in i .. j - 1 : value[k] \in Slot \ {Raw}
    <3>1. x \in Slot \ {Raw}
      BY SingleThreadedAssumption DEF Slot
    <3> QED  BY <2>1, <2>5, <3>1
  <2>8. i = s[v].size /\ r = [s[v] EXCEPT !.size = j] /\ t = [s EXCEPT ![v] = r]
    BY <2>1
  <2>9. VecsIn(t, q)
    BY <2>3, <2>4, <2>6, <2>7, <2>8, VecFilled, Zenon
  <2> QED  BY <2>2, <2>9 DEF VecsOK
<1> QED  BY <1>1, <1>2, <1>3, Zenon DEF V2!PushInPlace

LEMMA Vector2PopBack ==
  ASSUME VecsOK, NEW v \in Vec, V2!pop_back(v)
  PROVE  VecsOK'
<1>1. obj[v] # Absent
  BY DEF V2!pop_back, V2!InScope
<1>2. obj[v].size \in Nat
  BY <1>1, VecInScope DEF VecsOK
<1>3. CASE obj[v].size = 0
  <2>1. V2!Throw(<<"pop_back", v>>, mem, v, obj[v])
    BY <1>3 DEF V2!pop_back
  <2> QED  BY <2>1, Vector2Throw
<1>4. CASE obj[v].size # 0
  <2>1. PICK s, m, j, z, q, r, t :
          /\ s = obj /\ m = mem /\ j = s[v].size /\ z = j - 1
          /\ q = V2!destruct_range(m, s[v].data, z, z + 1)
          /\ r = [s[v] EXCEPT !.size = z] /\ t = [s EXCEPT ![v] = r]
    BY Zenon
  <2>2. mem' = q /\ obj' = t
    BY <1>4, <2>1 DEF V2!pop_back, V2!Return, V2!End
  <2>3. VecsIn(s, m) /\ s[v] # Absent /\ z \in Nat /\ z <= j /\ j = s[v].size /\ j = z + 1
    BY <1>1, <1>2, <1>4, <2>1 DEF VecsOK
  <2>4. q = Raws!destruct_range(m, s[v].data, z, j)
    BY <2>1, <2>3, Vector2Raws, Zenon
  <2>5. r = [s[v] EXCEPT !.size = z] /\ t = [s EXCEPT ![v] = r]
    BY <2>1
  <2>6. VecsIn(t, q)
    BY <2>3, <2>4, <2>5, VecShrunk, Zenon
  <2> QED  BY <2>2, <2>6 DEF VecsOK
<1> QED  BY <1>3, <1>4

LEMMA Vector2Next ==
  ASSUME ~Unguarded, VecsOK, V2!Next
  PROVE  VecsOK'
<1>1. PICK v \in Vec :
        \/ V2!DefaultCtor(v) \/ V2!Destructor(v) \/ V2!pop_back(v) \/ V2!clear(v)
        \/ \E w \in Vec : V2!CopyCtor(v, w) \/ V2!CopyAssign(v, w) \/ V2!MoveCtor(v, w) \/ V2!MoveAssign(v, w)
        \/ \E n \in 0 .. MaxCapacity : V2!reserve(v, n)
        \/ \E x \in Item : V2!PushGrowing(v, x) \/ V2!PushInPlace(v, x)
  BY Zenon DEF V2!Next
<1>2. CASE V2!DefaultCtor(v) \/ V2!Destructor(v) \/ V2!clear(v)
  BY <1>2, Vector2Gone
<1>3. CASE V2!pop_back(v)
  BY <1>3, Vector2PopBack
<1>4. ASSUME NEW w \in Vec, V2!CopyCtor(v, w) \/ V2!CopyAssign(v, w)
      PROVE  VecsOK'
  BY <1>4, Vector2Copies
<1>5. ASSUME NEW w \in Vec, V2!MoveCtor(v, w) \/ V2!MoveAssign(v, w)
      PROVE  VecsOK'
  BY <1>5, Vector2Takes
<1>6. ASSUME NEW n \in 0 .. MaxCapacity, V2!reserve(v, n)
      PROVE  VecsOK'
  <2>1. n \in Nat
    OBVIOUS
  <2> QED  BY <1>6, <2>1, Vector2Reserve
<1>7. ASSUME NEW x \in Item, V2!PushGrowing(v, x)
      PROVE  VecsOK'
  BY <1>7, Vector2PushGrowing
<1>8. ASSUME NEW x \in Item, V2!PushInPlace(v, x)
      PROVE  VecsOK'
  BY <1>8, Vector2InPlace
<1> QED  BY <1>1, <1>2, <1>3, <1>4, <1>5, <1>6, <1>7, <1>8, Zenon

(* what belongs to the vectors in scope *)
LEMMA VecsBelong ==
  ASSUME NEW s, NEW m, VecsIn(s, m), NEW owner, owner = [v \in {u \in Vec : s[u] # Absent} |-> s[v]]
  PROVE  Raws!BelongsTo(m, owner)
<1> DEFINE holding == {v \in DOMAIN owner : owner[v].data # Null}
<1>1. DOMAIN owner = {u \in Vec : s[u] # Absent} /\ \A v \in DOMAIN owner : owner[v] = s[v]
  OBVIOUS
<1>2. \A v \in DOMAIN owner :
        /\ v \in Vec /\ owner[v] = s[v] /\ VecPtr[s[v]] = owner[v].data
        /\ Owned(m.heap, owner[v].data, owner[v].capacity, owner[v].size)
  BY <1>1, VecInScope
<1>3. m.sound
  BY VecFunction, MemoryType, Zenon
<1>4. DOMAIN m.heap = {owner[v].data : v \in holding}
  <2>1. ASSUME NEW a \in DOMAIN m.heap PROVE a \in {owner[v].data : v \in holding}
    <3>1. PICK v \in Vec : VecPtr[s[v]] = a
      BY DEF VecsIn, Storage
    <3>2. a # Null
      <4>1. m.heap \in Heaps(Slots)
        BY VecFunction
      <4> QED  BY <4>1, HeapType, NullIsNoAddress
    <3>3. s[v] # Absent
      BY <3>1, <3>2, VecTypes
    <3> QED  BY <1>1, <1>2, <3>1, <3>2, <3>3, Zenon
  <2>2. ASSUME NEW v \in holding PROVE owner[v].data \in DOMAIN m.heap
    BY <1>2, Zenon DEF Owned, Holding
  <2> QED  BY <2>1, <2>2
<1>5. \A v, w \in holding : owner[v].data = owner[w].data => v = w
  BY <1>2 DEF VecsIn, Storage
<1>6. \A v \in DOMAIN owner \ holding : owner[v].size = 0 /\ owner[v].capacity = 0
  BY <1>2 DEF Owned
<1>7. ASSUME NEW v \in holding
      PROVE  LET slots == m.heap[owner[v].data]
             IN /\ DOMAIN slots = Raws!Span(0, owner[v].capacity) /\ owner[v].size <= owner[v].capacity
                /\ \A i \in DOMAIN slots : slots[i] # Raw <=> i < owner[v].size
  <2>1. PICK b, c, n : b = owner[v].data /\ c = owner[v].capacity /\ n = owner[v].size
    BY Zenon
  <2>2. n \in Nat /\ n <= c /\ Holding(m.heap, b, c, 0 .. n - 1)
    BY <1>2, <2>1 DEF Owned
  <2>3. PICK slots : slots = m.heap[b]
    OBVIOUS
  <2>4. /\ c \in Nat /\ DOMAIN slots = 0 .. c - 1
        /\ \A i \in 0 .. c - 1 : slots[i] # Raw <=> i \in 0 .. n - 1
    BY <2>2, <2>3 DEF Holding
  <2>5. \A i \in 0 .. c - 1 : i \in 0 .. n - 1 <=> i < n
    BY <2>2, <2>4
  <2>6. DOMAIN slots = Raws!Span(0, c)
    BY <2>4 DEF Raws!Span
  <2> QED  BY <2>1, <2>2, <2>3, <2>4, <2>5, <2>6, Zenon
<1> QED  BY <1>3, <1>4, <1>5, <1>6, <1>7, Zenon DEF Raws!BelongsTo

LEMMA Vector2Implies == VecsOK => V2!ElementsMatch
<1> SUFFICES ASSUME VecsOK PROVE V2!ElementsMatch
  OBVIOUS
<1>1. PICK owner : owner = [v \in {u \in Vec : obj[u] # Absent} |-> obj[v]]
  BY Zenon
<1>2. Raws!BelongsTo(mem, owner)
  BY <1>1, VecsBelong DEF VecsOK
<1>3. V2!BelongsTo(mem, owner)
  BY <1>2, Zenon DEF V2!BelongsTo, Raws!BelongsTo, V2!Span, Raws!Span
<1>4. owner = [v \in {u \in Vec : V2!InScope(u)} |-> obj[v]]
  BY <1>1, Zenon DEF V2!InScope
<1> QED  BY <1>3, <1>4, Zenon DEF V2!ElementsMatch

-----------------------------------------------------------------------------
(* vector, which undoes what it has done when something throws             *)
LEMMA VectorRaws ==
  ASSUME NEW m, NEW b, NEW i, NEW j
  PROVE  /\ V!Fresh(m) = Raws!Fresh(m) /\ V!allocate(m, i) = Raws!allocate(m, i)
         /\ V!destruct_range(m, b, i, j) = Raws!destruct_range(m, b, i, j)
         /\ V!Delete(m, b) = Raws!Delete(m, b) /\ V!destroy(m, b, i) = Raws!destroy(m, b, i)
         /\ V!CopyRange(m, b, j, i) = Raws!CopyRange(m, b, j, i)
         /\ V!MoveRange(m, b, j, i) = Raws!MoveRange(m, b, j, i)
<1>1. V!Fresh(m) = Raws!Fresh(m)
  BY Zenon DEF V!Fresh, Raws!Fresh, V!NewAddress, Raws!NewAddress, V!Cardinality, Raws!Cardinality
<1>2. V!allocate(m, i) = Raws!allocate(m, i)
  BY Zenon DEF V!allocate, Raws!allocate, V!Fresh, Raws!Fresh, V!NewAddress, Raws!NewAddress,
       V!Cardinality, Raws!Cardinality, V!With, Raws!With, V!Span, Raws!Span
<1>3. V!Delete(m, b) = Raws!Delete(m, b)
  BY Zenon DEF V!Delete, Raws!Delete, V!Without, Raws!Without
<1>4. V!destruct_range(m, b, i, j) = Raws!destruct_range(m, b, i, j)
  BY Zenon DEF V!destruct_range, Raws!destruct_range, V!SetRange, Raws!SetRange, V!Span, Raws!Span
<1>5. V!destroy(m, b, i) = Raws!destroy(m, b, i)
  BY Zenon DEF V!destroy, Raws!destroy, V!Delete, Raws!Delete, V!Without, Raws!Without,
       V!destruct_range, Raws!destruct_range, V!SetRange, Raws!SetRange, V!Span, Raws!Span
<1>6. V!CopyRange(m, b, j, i) = Raws!CopyRange(m, b, j, i)
  BY Zenon DEF V!CopyRange, Raws!CopyRange, V!ConstructRange, Raws!ConstructRange,
       V!SetRange, Raws!SetRange, V!Span, Raws!Span
<1>7. V!MoveRange(m, b, j, i) = Raws!MoveRange(m, b, j, i)
  BY <1>6, Zenon DEF V!MoveRange, Raws!MoveRange
<1> QED  BY <1>1, <1>2, <1>3, <1>4, <1>5, <1>6, <1>7, Zenon

LEMMA VectorConstructs ==
  ASSUME NEW m, NEW b, NEW i, NEW x
  PROVE  V!Construct(m, b, i, x) = Raws!ConstructRange(m, b, i, i + 1, [k \in {i} |-> x])
BY Zenon DEF V!Construct, V!ConstructRange, Raws!ConstructRange, V!SetRange, Raws!SetRange, V!Span, Raws!Span

LEMMA VectorConstructsRange ==
  ASSUME NEW m, NEW b, NEW i, NEW j, NEW x
  PROVE  V!ConstructRange(m, b, i, j, x) = Raws!ConstructRange(m, b, i, j, x)
BY Zenon DEF V!ConstructRange, Raws!ConstructRange, V!SetRange, Raws!SetRange, V!Span, Raws!Span

LEMMA VectorInit == V!Init => VecsOK
<1> SUFFICES ASSUME V!Init PROVE VecsOK
  OBVIOUS
<1>1. obj = [v \in Vec |-> Absent] /\ mem = [heap |-> [a \in {} |-> Null], sound |-> TRUE]
  BY DEF V!Init, V!NoBuffers
<1>2. mem \in Memory(Slots) /\ mem.heap = [a \in {} |-> Null]
  BY <1>1, HeapEmpty, MemoryIs
<1>3. Storage(Vecs, Slots, VecPtr, VecPairs, obj, mem.heap)
  BY <1>1, <1>2, VecTypes, StorageInit
<1> QED  BY <1>2, <1>3 DEF VecsOK, VecsIn

LEMMA VectorThrow ==
  ASSUME VecsOK, NEW v, NEW c, NEW m, VecsIn(obj, m), V!Throw(c, m, v, obj[v]) \/ V!Return(c, m, v, obj[v])
  PROVE  VecsOK'
<1>1. obj' = [obj EXCEPT ![v] = obj[v]] /\ mem' = m
  BY DEF V!Throw, V!Return, V!End
<1>2. obj' = obj
  BY <1>1, VecFunction DEF VecsOK
<1> QED  BY <1>1, <1>2 DEF VecsOK

LEMMA VectorGone ==
  ASSUME VecsOK, NEW v \in Vec, V!DefaultCtor(v) \/ V!Destructor(v)
  PROVE  VecsOK'
<1>1. PICK r, t, q :
        /\ t = obj' /\ q = mem' /\ t = [obj EXCEPT ![v] = r] /\ r \in {Absent, V!Empty}
        /\ \/ obj[v] = Absent /\ q = mem
           \/ obj[v] # Absent /\ q = V!destroy(mem, obj[v].data, obj[v].size)
  BY DEF V!DefaultCtor, V!Destructor, V!InScope, V!Return, V!End
<1>2. r \in Vecs /\ VecPtr[r] = Null
  BY <1>1, VecEmpty, VecTypes DEF V!Empty
<1>3. VecsIn(obj, mem)
  BY DEF VecsOK
<1>4. Touched(mem, q, VecPtr[obj[v]]) /\ VecPtr[obj[v]] \notin DOMAIN q.heap
  <2>1. CASE obj[v] = Absent
    BY <1>1, <1>3, <2>1, VecFree
  <2>2. CASE obj[v] # Absent
    <3>1. q = Raws!destroy(mem, obj[v].data, obj[v].size)
      BY <1>1, <2>2, VectorRaws
    <3> QED  BY <1>3, <2>2, <3>1, VecLeft
  <2> QED  BY <2>1, <2>2
<1>5. t = [obj EXCEPT ![v] = r]
  BY <1>1
<1>6. VecsIn(t, q)
  BY <1>2, <1>3, <1>4, <1>5, VecGone, Zenon
<1> QED  BY <1>1, <1>6 DEF VecsOK

LEMMA VectorTakes ==
  ASSUME VecsOK, NEW v \in Vec, NEW w \in Vec, V!MoveCtor(v, w) \/ V!MoveAssign(v, w)
  PROVE  VecsOK'
<1>1. PICK r, t, q :
        /\ t = obj' /\ q = mem' /\ t = [obj EXCEPT ![v] = obj[w], ![w] = r] /\ r = V!Empty /\ v # w
        /\ \/ obj[v] = Absent /\ q = mem
           \/ obj[v] # Absent /\ q = V!destroy(mem, obj[v].data, obj[v].size)
  BY DEF V!MoveCtor, V!MoveAssign, V!InScope, V!Take
<1>2. r \in Vecs /\ VecPtr[r] = Null
  BY <1>1, VecEmpty DEF V!Empty
<1>3. VecsIn(obj, mem)
  BY DEF VecsOK
<1>4. Touched(mem, q, VecPtr[obj[v]]) /\ VecPtr[obj[v]] \notin DOMAIN q.heap
  <2>1. CASE obj[v] = Absent
    BY <1>1, <1>3, <2>1, VecFree
  <2>2. CASE obj[v] # Absent
    <3>1. q = Raws!destroy(mem, obj[v].data, obj[v].size)
      BY <1>1, <2>2, VectorRaws
    <3> QED  BY <1>3, <2>2, <3>1, VecLeft
  <2> QED  BY <2>1, <2>2
<1>5. v # w /\ t = [obj EXCEPT ![v] = obj[w], ![w] = r]
  BY <1>1
<1>6. VecsIn(t, q)
  BY <1>2, <1>3, <1>4, <1>5, VecMoved, Zenon
<1> QED  BY <1>1, <1>6 DEF VecsOK

LEMMA VectorCopyOf ==
  ASSUME NEW w \in Vec, NEW k
  PROVE  /\ V!New = Raws!Fresh(mem)
         /\ V!CopyOf(w, k) = Raws!CopyRange(Raws!allocate(mem, obj[w].capacity), Raws!Fresh(mem), obj[w].data, k)
BY VectorRaws, Zenon DEF V!CopyOf, V!New

LEMMA VectorCopyUndone ==
  ASSUME VecsOK, NEW w \in Vec, obj[w] # Absent, NEW k \in V!CopyStops(w), NEW f, f = V!Undone(w, k)
  PROVE  VecsIn(obj, f)
<1>1. CASE k = -1
  BY <1>1 DEF V!Undone, VecsOK
<1>2. CASE k # -1
  <2>1. PICK a, q : /\ a = Raws!Fresh(mem)
                    /\ q = Raws!CopyRange(Raws!allocate(mem, obj[w].capacity), a, obj[w].data, k)
    OBVIOUS
  <2>2. V!CopyOf(w, k) = q /\ V!New = a
    BY <2>1, VectorCopyOf
  <2>3. f = Raws!destroy(q, a, k)
    BY <1>2, <2>2, VectorRaws DEF V!Undone
  <2>4. obj[w].size \in Nat /\ k \in Nat /\ k <= obj[w].size
    BY <1>2, VecInScope DEF VecsOK, V!CopyStops
  <2> QED  BY <2>1, <2>3, <2>4, VecCopyUndone DEF VecsOK
<1> QED  BY <1>1, <1>2

LEMMA VectorCopies ==
  ASSUME VecsOK, NEW v \in Vec, NEW w \in Vec, V!CopyCtor(v, w) \/ V!CopyAssign(v, w)
  PROVE  VecsOK'
<1>0. PICK c : c = <<"copy", v, w>>
  BY Zenon
<1>1. PICK k \in V!CopyStops(w) :
        \/ k # obj[w].size /\ V!Throw(c, V!Undone(w, k), v, obj[v])
        \/ k = obj[w].size /\ obj[v] = Absent /\ V!Return(c, V!CopyOf(w, k), v, V!Copied(w))
        \/ /\ k = obj[w].size /\ obj[v] # Absent
           /\ V!Return(c, V!destroy(V!CopyOf(w, k), obj[v].data, obj[v].size), v, V!Copied(w))
  <2>1. CASE V!CopyCtor(v, w)
    <3>1. obj[v] = Absent
      BY <2>1 DEF V!CopyCtor, V!InScope
    <3>2. \E k \in V!CopyStops(w) :
            IF k = obj[w].size THEN V!Return(c, V!CopyOf(w, k), v, V!Copied(w))
            ELSE V!Throw(c, V!Undone(w, k), v, Absent)
      BY <1>0, <2>1 DEF V!CopyCtor
    <3> QED  BY <3>1, <3>2
  <2>2. CASE V!CopyAssign(v, w)
    <3>1. obj[v] # Absent
      BY <2>2 DEF V!CopyAssign, V!InScope
    <3>2. \E k \in V!CopyStops(w) :
            IF k = obj[w].size
            THEN V!Return(c, V!destroy(V!CopyOf(w, k), obj[v].data, obj[v].size), v, V!Copied(w))
            ELSE V!Throw(c, V!Undone(w, k), v, obj[v])
      BY <1>0, <2>2 DEF V!CopyAssign
    <3> QED  BY <3>1, <3>2
  <2> QED  BY <2>1, <2>2
<1>2. obj[w] # Absent
  BY DEF V!CopyCtor, V!CopyAssign, V!InScope
<1>3. CASE k # obj[w].size /\ V!Throw(c, V!Undone(w, k), v, obj[v])
  <2>1. PICK f : f = V!Undone(w, k)
    OBVIOUS
  <2>2. VecsIn(obj, f)
    BY <1>2, <2>1, VectorCopyUndone
  <2> QED  BY <1>3, <2>1, <2>2, VectorThrow
<1>4. ASSUME k = obj[w].size, NEW f, V!Return(c, f, v, V!Copied(w)),
             \/ obj[v] = Absent /\ f = V!CopyOf(w, k)
             \/ obj[v] # Absent /\ f = V!destroy(V!CopyOf(w, k), obj[v].data, obj[v].size)
      PROVE  VecsOK'
  <2>1. PICK s, m, a, q, r, t :
          /\ s = obj /\ m = mem /\ a = Raws!Fresh(m) /\ r = [s[w] EXCEPT !.data = a] /\ t = [s EXCEPT ![v] = r]
          /\ q = Raws!CopyRange(Raws!allocate(m, s[w].capacity), a, s[w].data, k)
    BY Zenon
  <2>2. V!CopyOf(w, k) = q /\ V!New = a
    BY <2>1, VectorCopyOf
  <2>3. mem' = f /\ obj' = t
    BY <1>4, <2>1, <2>2 DEF V!Return, V!End, V!Copied
  <2>4. VecsIn(s, m) /\ s[w] # Absent /\ k = s[w].size
    BY <1>2, <1>4, <2>1 DEF VecsOK
  <2>5. CASE obj[v] = Absent
    <3>1. f = q /\ VecPtr[s[v]] = Null
      BY <1>4, <2>1, <2>2, <2>5, VecTypes
    <3>2. VecsIn(t, q)
      BY <2>1, <2>4, <3>1, VecCopyMade, Zenon
    <3> QED  BY <2>3, <3>1, <3>2 DEF VecsOK
  <2>6. CASE obj[v] # Absent
    <3>1. f = Raws!destroy(q, s[v].data, s[v].size) /\ s[v] # Absent
      BY <1>4, <2>1, <2>2, <2>6, VectorRaws
    <3>2. VecsIn(t, f)
      BY <2>1, <2>4, <3>1, VecCopyTaken, Zenon
    <3> QED  BY <2>3, <3>2 DEF VecsOK
  <2> QED  BY <2>5, <2>6
<1> QED  BY <1>1, <1>3, <1>4

(* growth: v's elements go to a new buffer with room for n, where those of *)
(* K are; or the transfer stops after k of them, and v stays what it was   *)
LEMMA VectorTransfer ==
  ASSUME NEW m, NEW dst, NEW src, NEW k, NEW q, q = V!Transfer(m, dst, src, k)
  PROVE  q = Raws!MoveRange(m, dst, src, k) \/ q = Raws!CopyRange(m, dst, src, k)
BY VectorRaws DEF V!Transfer

LEMMA VectorStops ==
  ASSUME VecsOK, NEW v \in Vec, obj[v] # Absent, NEW k \in V!Stops(obj[v].size)
  PROVE  k \in Nat /\ k <= obj[v].size /\ obj[v].size \in Nat
<1>1. obj[v].size \in Nat
  BY VecInScope DEF VecsOK
<1> QED  BY <1>1 DEF V!Stops

LEMMA VectorAllocates ==
  ASSUME VecsOK, NEW n \in Nat, NEW a, a = V!New, NEW made, made = V!allocate(mem, n), NEW K, K = {}
  PROVE  Touched(mem, made, a) /\ Holding(made.heap, a, n, K) /\ a \in Address /\ a \notin DOMAIN mem.heap
<1>1. a = Raws!Fresh(mem) /\ made = Raws!allocate(mem, n) /\ mem \in Memory(Slots)
  BY VectorRaws, VecFunction DEF VecsOK, V!New
<1> QED  BY <1>1, AllocateDoes

LEMMA VectorMoved ==
  ASSUME VecsOK, NEW v \in Vec, obj[v] # Absent, NEW a \in Address, a \notin DOMAIN mem.heap,
         NEW made, Touched(mem, made, a), NEW n \in Nat, NEW K, Holding(made.heap, a, n, K),
         NEW k, k = obj[v].size, K \cap (0 .. k - 1) = {},
         NEW z \in Nat, k <= z, z <= n, 0 .. z - 1 = K \cup (0 .. k - 1),
         NEW f, f = V!destroy(V!move_elements(made, a, obj[v].data, k, k), obj[v].data, k),
         NEW r, r = [data |-> a, size |-> z, capacity |-> n], NEW t, t = [obj EXCEPT ![v] = r]
  PROVE  VecsIn(t, f)
<1>1. PICK q : q = V!Transfer(made, a, obj[v].data, k)
  OBVIOUS
<1>2. q = Raws!MoveRange(made, a, obj[v].data, k) \/ q = Raws!CopyRange(made, a, obj[v].data, k)
  BY <1>1, VectorTransfer
<1>3. f = Raws!destroy(q, obj[v].data, k) /\ VecsIn(obj, mem)
  BY <1>1, VectorRaws DEF V!move_elements, VecsOK
<1> QED  BY <1>2, <1>3, VecGrown, Zenon

LEMMA VectorStopped ==
  ASSUME VecsOK, NEW v \in Vec, obj[v] # Absent, NEW a \in Address, a \notin DOMAIN mem.heap,
         NEW made, Touched(mem, made, a), NEW n \in Nat, NEW K, Holding(made.heap, a, n, K),
         NEW k \in V!Stops(obj[v].size), k # obj[v].size, k <= n, K \cap (0 .. k - 1) = {},
         NEW g, g = V!move_elements(made, a, obj[v].data, obj[v].size, k)
  PROVE  Transferred(mem, g, obj[v], a, n, K)
<1>1. PICK s, m, r : s = obj /\ m = mem /\ r = obj[v]
  OBVIOUS
<1>2. PICK q, I : q = V!Transfer(made, a, s[v].data, k) /\ I = K \cup (0 .. k - 1)
  BY Zenon
<1>3. q = Raws!MoveRange(made, a, s[v].data, k) \/ q = Raws!CopyRange(made, a, s[v].data, k)
  BY <1>2, VectorTransfer
<1>4. g = Raws!destruct_range(q, a, 0, k)
  BY <1>1, <1>2, VectorRaws DEF V!move_elements
<1>5. k \in Nat /\ k <= s[v].size
  BY <1>1, VectorStops
<1>6. /\ VecsIn(s, m) /\ s[v] # Absent /\ a \notin DOMAIN m.heap /\ Touched(m, made, a)
      /\ I = K \cup (0 .. k - 1) /\ r = s[v]
  BY <1>1, <1>2 DEF VecsOK
<1>7. Transferred(m, q, s[v], a, n, I)
  BY <1>3, <1>5, <1>6, VecTransfer, Zenon
<1>8. PICK i : i = 0
  OBVIOUS
<1>9. i \in Nat /\ i <= k /\ i .. k - 1 \subseteq I /\ K = I \ (i .. k - 1) /\ g = Raws!destruct_range(q, a, i, k)
  BY <1>2, <1>4, <1>5, <1>8
<1>10. Transferred(m, q, r, a, n, I)
  BY <1>6, <1>7
<1>11. Transferred(m, g, r, a, n, K)
  BY <1>5, <1>9, <1>10, VecTransferUndone
<1> QED  BY <1>1, <1>11

LEMMA VectorRoomier ==
  ASSUME VecsOK, NEW v \in Vec, obj[v] # Absent, NEW n \in Nat, NEW r, r = V!Roomier(v, n)
  PROVE  r # Absent /\ r.size = obj[v].size /\ r.capacity = n
<1>1. PICK a, o, made : a = V!New /\ o = obj[v] /\ made = V!allocate(mem, n)
  OBVIOUS
<1>2. a \in Address
  BY <1>1, VectorAllocates, Zenon
<1>3. o \in VecRecords
  BY <1>1, VecInScope DEF VecsOK
<1>4. r = [o EXCEPT !.data = a, !.capacity = n]
  BY <1>1, Zenon DEF V!Roomier
<1>5. PICK z : z = o.size
  OBVIOUS
<1>6. r = [data |-> a, size |-> z, capacity |-> n]
  BY <1>3, <1>4, <1>5, RoomierIs
<1>7. z \in Nat
  BY <1>3, <1>5 DEF VecRecords
<1>8. r \in VecRecords /\ r.size = z /\ r.capacity = n
  BY <1>2, <1>6, <1>7 DEF VecRecords
<1> QED  BY <1>1, <1>5, <1>8, VecTypes

LEMMA VectorRelocated ==
  ASSUME VecsOK, NEW v \in Vec, obj[v] # Absent, NEW n \in Nat, obj[v].size <= n,
         NEW k, k = obj[v].size, NEW f, f = V!Relocated(v, n, k),
         NEW r, r = V!Roomier(v, n), NEW t, t = [obj EXCEPT ![v] = r]
  PROVE  VecsIn(t, f)
<1>1. PICK a, made, K : a = V!New /\ made = V!allocate(mem, n) /\ K = {}
  BY Zenon
<1>2. Touched(mem, made, a) /\ Holding(made.heap, a, n, K) /\ a \in Address /\ a \notin DOMAIN mem.heap
  BY <1>1, VectorAllocates
<1>3. obj[v].size \in Nat /\ obj[v] \in VecRecords
  BY VecInScope DEF VecsOK
<1>4. K \cap (0 .. k - 1) = {} /\ k \in Nat /\ k <= n /\ 0 .. k - 1 = K \cup (0 .. k - 1)
  BY <1>1, <1>3
<1>5. f = V!destroy(V!move_elements(made, a, obj[v].data, k, k), obj[v].data, k)
  BY <1>1, <1>3 DEF V!Relocated
<1>6. r = [data |-> a, size |-> k, capacity |-> n]
  <2>1. PICK o : o = obj[v]
    OBVIOUS
  <2>2. r = [o EXCEPT !.data = a, !.capacity = n] /\ o \in VecRecords
    BY <1>1, <1>3, <2>1, Zenon DEF V!Roomier
  <2> QED  BY <2>1, <2>2, RoomierIs
<1>7. PICK z : z = k
  OBVIOUS
<1>8. z \in Nat /\ k <= z /\ z <= n /\ 0 .. z - 1 = K \cup (0 .. k - 1) /\ r = [data |-> a, size |-> z, capacity |-> n]
  BY <1>4, <1>6, <1>7
<1> QED  BY <1>2, <1>4, <1>5, <1>8, VectorMoved, Zenon

LEMMA VectorNotRelocated ==
  ASSUME VecsOK, NEW v \in Vec, obj[v] # Absent, NEW n \in Nat, obj[v].size <= n,
         NEW k \in V!Stops(obj[v].size), k # obj[v].size, NEW f, f = V!Relocated(v, n, k)
  PROVE  VecsIn(obj, f)
<1>1. PICK a, made, K : a = V!New /\ made = V!allocate(mem, n) /\ K = {}
  BY Zenon
<1>2. Touched(mem, made, a) /\ Holding(made.heap, a, n, K) /\ a \in Address /\ a \notin DOMAIN mem.heap
  BY <1>1, VectorAllocates
<1>3. k \in Nat /\ k <= obj[v].size /\ obj[v].size \in Nat
  BY VectorStops
<1>4. K \cap (0 .. k - 1) = {} /\ k <= n
  BY <1>1, <1>3
<1>5. PICK g : g = V!move_elements(made, a, obj[v].data, obj[v].size, k)
  OBVIOUS
<1>6. Transferred(mem, g, obj[v], a, n, K)
  BY <1>2, <1>4, <1>5, VectorStopped, Zenon
<1>7. f = Raws!Delete(g, a)
  <2>1. V!Delete(g, a) = Raws!Delete(g, a)
    BY VectorRaws
  <2>2. f = V!Delete(g, a)
    BY <1>1, <1>3, <1>5 DEF V!Relocated
  <2> QED  BY <2>1, <2>2
<1>8. VecsIn(obj, mem)
  BY DEF VecsOK
<1> QED  BY <1>1, <1>2, <1>6, <1>7, <1>8, VecDropped

LEMMA VectorReserve ==
  ASSUME VecsOK, NEW v \in Vec, NEW n \in Nat, V!reserve(v, n)
  PROVE  VecsOK'
<1>1. obj[v] # Absent /\ VecsIn(obj, mem)
  BY DEF V!reserve, V!InScope, VecsOK
<1>2. obj[v].size \in Nat /\ obj[v].capacity \in Nat /\ obj[v].size <= obj[v].capacity
  BY <1>1, VecInScope
<1>3. PICK c : c = <<"reserve", v>>
  BY Zenon
<1>4. CASE V!Return(c, mem, v, obj[v]) \/ V!Throw(c, mem, v, obj[v])
  BY <1>1, <1>4, VectorThrow
<1>5. ASSUME n > obj[v].capacity, NEW k \in V!Stops(obj[v].size),
             IF k = obj[v].size THEN V!Return(c, V!Relocated(v, n, k), v, V!Roomier(v, n))
             ELSE V!Throw(c, V!Relocated(v, n, k), v, obj[v])
      PROVE  VecsOK'
  <2>1. PICK f, r, t : f = V!Relocated(v, n, k) /\ r = V!Roomier(v, n) /\ t = [obj EXCEPT ![v] = r]
    BY Zenon
  <2>2. obj[v].size <= n
    BY <1>2, <1>5
  <2>3. CASE k = obj[v].size
    <3>1. mem' = f /\ obj' = t
      BY <1>5, <2>1, <2>3 DEF V!Return, V!End
    <3>2. VecsIn(t, f)
      BY <1>1, <2>1, <2>2, <2>3, VectorRelocated, Zenon
    <3> QED  BY <3>1, <3>2 DEF VecsOK
  <2>4. CASE k # obj[v].size
    <3>1. VecsIn(obj, f)
      BY <1>1, <2>1, <2>2, <2>4, VectorNotRelocated
    <3>2. V!Throw(c, f, v, obj[v])
      BY <1>5, <2>1, <2>4
    <3> QED  BY <3>1, <3>2, VectorThrow
  <2> QED  BY <2>3, <2>4
<1>6. \/ V!Return(c, mem, v, obj[v]) \/ V!Throw(c, mem, v, obj[v])
      \/ /\ n > obj[v].capacity
         /\ \E k \in V!Stops(obj[v].size) :
              IF k = obj[v].size THEN V!Return(c, V!Relocated(v, n, k), v, V!Roomier(v, n))
              ELSE V!Throw(c, V!Relocated(v, n, k), v, obj[v])
  BY <1>3 DEF V!reserve
<1> QED  BY <1>4, <1>5, <1>6

(* the new element, made before the others move *)
LEMMA VectorEmplaceMade ==
  ASSUME VecsOK, NEW v \in Vec, obj[v] # Absent, NEW x \in Item, NEW n \in Nat, NEW i, i = obj[v].size, i < n,
         NEW a, a = V!New, NEW m, m = V!Construct(V!allocate(mem, n), a, i, x), NEW I, I = i .. i
  PROVE  /\ Touched(mem, m, a) /\ Holding(m.heap, a, n, I) /\ a \in Address /\ a \notin DOMAIN mem.heap
         /\ I \cap (0 .. i - 1) = {} /\ 0 .. (i + 1) - 1 = I \cup (0 .. i - 1) /\ i \in Nat
<1>1. PICK made, K, j, value : made = V!allocate(mem, n) /\ K = {} /\ j = i + 1 /\ value = [k \in {i} |-> x]
  BY Zenon
<1>2. Touched(mem, made, a) /\ Holding(made.heap, a, n, K) /\ a \in Address /\ a \notin DOMAIN mem.heap
  BY <1>1, VectorAllocates, Zenon
<1>3. i \in Nat
  BY VecInScope DEF VecsOK
<1>4. j \in Nat /\ i <= j /\ j <= n /\ K \cap (i .. j - 1) = {} /\ I = K \cup (i .. j - 1) /\ made \in Memory(Slots)
  BY <1>1, <1>2, <1>3 DEF Touched
<1>5. \A k \in i .. j - 1 : value[k] \in Slot \ {Raw}
  <2>1. x \in Slot \ {Raw}
    BY SingleThreadedAssumption DEF Slot
  <2> QED  BY <1>1, <1>3, <2>1
<1>6. m = Raws!ConstructRange(made, a, i, j, value)
  <2>1. V!Construct(made, a, i, x) = Raws!ConstructRange(made, a, i, i + 1, [k \in {i} |-> x])
    BY VectorConstructs, Zenon
  <2> QED  BY <1>1, <2>1, Zenon
<1>7. Touched(made, m, a) /\ Holding(m.heap, a, n, I)
  BY <1>2, <1>3, <1>4, <1>5, <1>6, ConstructRangeDoes, Zenon
<1>8. Touched(mem, m, a)
  <2>1. PICK B : B = {a}
    BY Zenon
  <2>2. Outside(Slots, made.heap, mem.heap, B) /\ Outside(Slots, m.heap, made.heap, {a}) /\ a \in B
    BY <1>2, <1>7, <2>1 DEF Touched
  <2>3. Outside(Slots, m.heap, mem.heap, B)
    BY <2>2, OutsideStep
  <2> QED  BY <1>7, <2>1, <2>3 DEF Touched
<1>9. I \cap (0 .. i - 1) = {} /\ 0 .. (i + 1) - 1 = I \cup (0 .. i - 1)
  BY <1>3
<1> QED  BY <1>2, <1>3, <1>7, <1>8, <1>9

LEMMA VectorEmplaceGrowing ==
  ASSUME VecsOK, NEW v \in Vec, NEW x \in Item, V!EmplaceGrowing(v, x)
  PROVE  VecsOK'
<1>1. obj[v] # Absent /\ obj[v].size = obj[v].capacity /\ VecsIn(obj, mem)
  BY DEF V!EmplaceGrowing, V!InScope, VecsOK
<1>2. PICK c, i, n, a, m, I :
        /\ c = <<"push_back", v, x>> /\ i = obj[v].size /\ n = V!new_capacity(obj[v].capacity)
        /\ a = V!New /\ m = V!Construct(V!allocate(mem, n), a, i, x) /\ I = i .. i
  BY Zenon
<1>3. i \in Nat /\ n \in Nat /\ i < n
  <2>1. obj[v].size \in Nat
    BY <1>1, VecInScope
  <2> QED  BY <1>1, <1>2, <2>1 DEF V!new_capacity
<1>4. /\ Touched(mem, m, a) /\ Holding(m.heap, a, n, I) /\ a \in Address /\ a \notin DOMAIN mem.heap
      /\ I \cap (0 .. i - 1) = {} /\ 0 .. (i + 1) - 1 = I \cup (0 .. i - 1)
  BY <1>1, <1>2, <1>3, VectorEmplaceMade
<1>5. CASE V!Throw(c, mem, v, obj[v])
  BY <1>1, <1>5, VectorThrow
<1>6. ASSUME NEW k \in V!Stops(i), k = i,
             V!Return(c, V!destroy(V!move_elements(m, a, obj[v].data, i, k), obj[v].data, i), v,
                      [data |-> a, size |-> i + 1, capacity |-> n])
      PROVE  VecsOK'
  <2>1. PICK f, z, r, t : /\ f = V!destroy(V!move_elements(m, a, obj[v].data, i, i), obj[v].data, i)
                          /\ z = i + 1 /\ r = [data |-> a, size |-> z, capacity |-> n] /\ t = [obj EXCEPT ![v] = r]
    BY Zenon
  <2>2. mem' = f /\ obj' = t
    BY <1>6, <2>1 DEF V!Return, V!End
  <2>3. z \in Nat /\ i <= z /\ z <= n /\ 0 .. z - 1 = I \cup (0 .. i - 1)
    BY <1>3, <1>4, <2>1
  <2>4. VecsIn(t, f)
    BY <1>1, <1>2, <1>3, <1>4, <2>1, <2>3, VectorMoved, Zenon
  <2> QED  BY <2>2, <2>4 DEF VecsOK
<1>7. ASSUME NEW k \in V!Stops(i), k # i,
             V!Throw(c, V!UndoEmplace(V!move_elements(m, a, obj[v].data, i, k), a, i), v, obj[v])
      PROVE  VecsOK'
  <2>1. PICK g, h, f : /\ g = V!move_elements(m, a, obj[v].data, i, k)
                       /\ h = Raws!destruct_range(g, a, i, i + 1) /\ f = Raws!Delete(h, a)
    OBVIOUS
  <2>2. k \in Nat /\ k <= i
    BY <1>1, <1>2, <1>7, VectorStops
  <2>3. k \in V!Stops(obj[v].size) /\ k # obj[v].size /\ k <= n /\ I \cap (0 .. k - 1) = {}
    BY <1>2, <1>3, <1>7, <2>2
  <2>4. Transferred(mem, g, obj[v], a, n, I)
    BY <1>1, <1>2, <1>3, <1>4, <2>1, <2>3, VectorStopped, Zenon
  <2>5. PICK j, K : j = i + 1 /\ K = I \ (i .. j - 1)
    BY Zenon
  <2>6. K = {} /\ j \in Nat /\ i <= j /\ j <= n /\ i .. j - 1 \subseteq I /\ h = Raws!destruct_range(g, a, i, j)
    BY <1>2, <1>3, <2>1, <2>5
  <2>7. PICK r : r = obj[v]
    OBVIOUS
  <2>8. Transferred(mem, g, r, a, n, I)
    BY <2>4, <2>7
  <2>9. Transferred(mem, h, r, a, n, K)
    BY <1>3, <2>5, <2>6, <2>8, VecTransferUndone
  <2>10. Transferred(mem, h, obj[v], a, n, K)
    BY <2>7, <2>9
  <2>11. VecsIn(obj, f)
    BY <1>1, <1>4, <2>1, <2>6, <2>10, VecDropped, Zenon
  <2>12. f = V!UndoEmplace(V!move_elements(m, a, obj[v].data, i, k), a, i)
    <3>1. V!destruct_range(g, a, i, i + 1) = h
      BY <2>1, VectorRaws
    <3>2. V!Delete(h, a) = f
      BY <2>1, VectorRaws
    <3> QED  BY <2>1, <3>1, <3>2, Zenon DEF V!UndoEmplace
  <2> QED  BY <1>7, <2>11, <2>12, VectorThrow
<1>8. \/ V!Throw(c, mem, v, obj[v])
      \/ \E k \in V!Stops(i) :
           IF k = i
           THEN V!Return(c, V!destroy(V!move_elements(m, a, obj[v].data, i, k), obj[v].data, i), v,
                         [data |-> a, size |-> i + 1, capacity |-> n])
           ELSE V!Throw(c, V!UndoEmplace(V!move_elements(m, a, obj[v].data, i, k), a, i), v, obj[v])
  BY <1>2, Zenon DEF V!EmplaceGrowing
<1> QED  BY <1>5, <1>6, <1>7, <1>8

LEMMA VectorInPlace ==
  ASSUME ~Unguarded, VecsOK, NEW v \in Vec, NEW x \in Item, V!EmplaceInPlace(v, x)
  PROVE  VecsOK'
<1>1. PICK s, m, i, j, value, q, r, t :
        /\ s = obj /\ m = mem /\ i = s[v].size /\ j = i + 1 /\ value = [k \in {i} |-> x]
        /\ q = V!Construct(m, s[v].data, i, x)
        /\ r = [s[v] EXCEPT !.size = j] /\ t = [s EXCEPT ![v] = r]
  BY Zenon
<1>2. mem' = q /\ obj' = t
  BY <1>1 DEF V!EmplaceInPlace, V!Return, V!End
<1>3. q = Raws!ConstructRange(m, s[v].data, i, j, value)
  BY <1>1, VectorConstructs, Zenon
<1>4. VecsIn(s, m) /\ s[v] # Absent /\ i < s[v].capacity
  BY <1>1 DEF VecsOK, V!EmplaceInPlace, V!InScope
<1>5. i \in Nat /\ s[v].capacity \in Nat
  BY <1>1, <1>4, VecInScope
<1>6. j \in Nat /\ i <= j /\ j <= s[v].capacity /\ s[v].capacity # 0
  BY <1>1, <1>4, <1>5
<1>7. \A k \in i .. j - 1 : value[k] \in Slot \ {Raw}
  <2>1. x \in Slot \ {Raw}
    BY SingleThreadedAssumption DEF Slot
  <2> QED  BY <1>1, <1>5, <2>1
<1>8. i = s[v].size /\ r = [s[v] EXCEPT !.size = j] /\ t = [s EXCEPT ![v] = r]
  BY <1>1
<1>9. VecsIn(t, q)
  BY <1>3, <1>4, <1>6, <1>7, <1>8, VecFilled, Zenon
<1> QED  BY <1>2, <1>9 DEF VecsOK

(* pop_back, clear and resize downwards *)
LEMMA VectorShrinks ==
  ASSUME VecsOK, NEW v \in Vec, obj[v] # Absent, NEW z \in Nat, z <= obj[v].size, NEW c,
         V!Return(c, V!destruct_range(mem, obj[v].data, z, obj[v].size), v, [obj[v] EXCEPT !.size = z])
  PROVE  VecsOK'
<1>1. PICK s, m, j, q, r, t :
        /\ s = obj /\ m = mem /\ j = s[v].size /\ q = V!destruct_range(m, s[v].data, z, j)
        /\ r = [s[v] EXCEPT !.size = z] /\ t = [s EXCEPT ![v] = r]
  BY Zenon
<1>2. mem' = q /\ obj' = t
  BY <1>1 DEF V!Return, V!End
<1>3. VecsIn(s, m) /\ s[v] # Absent /\ z <= j /\ j = s[v].size
  BY <1>1 DEF VecsOK
<1>4. q = Raws!destruct_range(m, s[v].data, z, j)
  BY <1>1, VectorRaws, Zenon
<1>5. r = [s[v] EXCEPT !.size = z] /\ t = [s EXCEPT ![v] = r]
  BY <1>1
<1>6. VecsIn(t, q)
  BY <1>3, <1>4, <1>5, VecShrunk, Zenon
<1> QED  BY <1>2, <1>6 DEF VecsOK

LEMMA VectorLoses ==
  ASSUME VecsOK, NEW v \in Vec, V!pop_back(v) \/ V!clear(v) \/ \E n \in Nat : V!Shrink(v, n)
  PROVE  VecsOK'
<1>1. obj[v] # Absent /\ VecsIn(obj, mem)
  BY Zenon DEF V!pop_back, V!clear, V!Shrink, V!InScope, VecsOK
<1>2. obj[v].size \in Nat
  BY <1>1, VecInScope
<1>3. CASE V!pop_back(v)
  <2>1. CASE obj[v].size = 0
    <3>1. V!Throw(<<"pop_back", v>>, mem, v, obj[v])
      BY <1>3, <2>1 DEF V!pop_back
    <3> QED  BY <1>1, <3>1, VectorThrow
  <2>2. CASE obj[v].size # 0
    <3>1. PICK c, z : c = <<"pop_back", v>> /\ z = obj[v].size - 1
      BY Zenon
    <3>2. z \in Nat /\ z <= obj[v].size
      BY <1>2, <2>2, <3>1
    <3>3. V!Return(c, V!destruct_range(mem, obj[v].data, z, obj[v].size), v, [obj[v] EXCEPT !.size = z])
      BY <1>3, <2>2, <3>1 DEF V!pop_back
    <3> QED  BY <1>1, <3>2, <3>3, VectorShrinks
  <2> QED  BY <2>1, <2>2
<1>4. CASE V!clear(v)
  <2>1. PICK c, z : c = <<"clear", v>> /\ z = 0
    BY Zenon
  <2>2. z \in Nat /\ z <= obj[v].size
    BY <1>2, <2>1
  <2>3. V!Return(c, V!destruct_range(mem, obj[v].data, z, obj[v].size), v, [obj[v] EXCEPT !.size = z])
    BY <1>4, <2>1 DEF V!clear
  <2> QED  BY <1>1, <2>2, <2>3, VectorShrinks
<1>5. ASSUME NEW n \in Nat, V!Shrink(v, n)
      PROVE  VecsOK'
  <2>1. PICK c : c = <<"resize", v, n>>
    BY Zenon
  <2>2. n <= obj[v].size /\ V!Return(c, V!destruct_range(mem, obj[v].data, n, obj[v].size), v, [obj[v] EXCEPT !.size = n])
    BY <1>5, <2>1 DEF V!Shrink
  <2> QED  BY <1>1, <2>2, VectorShrinks
<1> QED  BY <1>3, <1>4, <1>5

(* doubling *)
Doubling(n, d) == {g \in [0 .. n -> Nat] : g[0] = d /\ \A i \in 1 .. n : g[i] = 2 * g[i - 1]}

LEMMA DoublingIs ==
  ASSUME NEW n \in Nat, NEW d \in Nat
  PROVE  \E g : g \in Doubling(n, d)
<1> DEFINE N == {i \in 0 .. n : \E g : g \in Doubling(i, d)}
<1>1. 0 \in N
  <2>1. PICK g : g = [i \in 0 .. 0 |-> d]
    BY Zenon
  <2>2. g \in Doubling(0, d)
    BY <2>1 DEF Doubling
  <2> QED  BY <2>2
<1>2. ASSUME NEW i \in 0 .. n - 1, i \in N PROVE i + 1 \in N
  <2>1. PICK g : g \in Doubling(i, d)
    BY <1>2
  <2>2. PICK f : f = [j \in 0 .. i + 1 |-> IF j = i + 1 THEN 2 * g[i] ELSE g[j]]
    BY Zenon
  <2>3. g \in [0 .. i -> Nat] /\ g[0] = d /\ \A j \in 1 .. i : g[j] = 2 * g[j - 1]
    BY <2>1 DEF Doubling
  <2>4. f \in [0 .. i + 1 -> Nat] /\ f[0] = d
    BY <2>2, <2>3
  <2>5. ASSUME NEW j \in 1 .. i + 1 PROVE f[j] = 2 * f[j - 1]
    BY <2>2, <2>3
  <2>6. f \in Doubling(i + 1, d)
    BY <2>4, <2>5, Zenon DEF Doubling
  <2>7. i + 1 \in 0 .. n
    OBVIOUS
  <2> QED  BY <2>6, <2>7
<1> HIDE DEF N
<1>3. 0 .. n \subseteq N
  BY <1>1, <1>2, Induction
<1> QED  BY <1>3 DEF N

LEMMA DoublingGrows ==
  ASSUME NEW n \in Nat, NEW d \in Nat \ {0}, NEW g,
         g = [i \in 0 .. n |-> IF i = 0 THEN d ELSE 2 * g[i - 1]]
  PROVE  \A i \in 0 .. n : g[i] \in Nat /\ g[i] >= i + 1
<1> DEFINE N == {i \in 0 .. n : g[i] \in Nat /\ g[i] >= i + 1}
<1>1. g[0] = d /\ \A i \in 1 .. n : g[i] = 2 * g[i - 1]
  OBVIOUS
<1>2. 0 \in N
  BY <1>1
<1>3. ASSUME NEW i \in 0 .. n - 1, i \in N PROVE i + 1 \in N
  <2>1. i + 1 \in 1 .. n /\ (i + 1) - 1 = i /\ g[i] \in Nat /\ g[i] >= i + 1
    BY <1>3
  <2>2. g[i + 1] = 2 * g[i]
    BY <1>1, <2>1
  <2> QED  BY <2>1, <2>2
<1> HIDE DEF N
<1>4. 0 .. n \subseteq N
  BY <1>2, <1>3, Induction, Zenon
<1> QED  BY <1>4 DEF N

LEMMA RoomForDoes ==
  ASSUME NEW n \in 0 .. MaxCapacity, NEW c \in Nat, NEW room, room = V!RoomFor(n, c)
  PROVE  room \in Nat /\ n <= room /\ (n <= c => room = c)
<1> DEFINE step(g) == [i \in 0 .. MaxCapacity |-> IF i = 0 THEN IF c = 0 THEN 1 ELSE c ELSE 2 * g[i - 1]]
           doubled == CHOOSE g : g = step(g)
           enough(g) == CHOOSE i \in 0 .. MaxCapacity : g[i] >= n /\ \A j \in 0 .. i - 1 : g[j] < n
<1>1. MaxCapacity \in Nat /\ n \in Nat /\ n <= MaxCapacity
  BY SingleThreadedAssumption
<1>2. PICK d : d = IF c = 0 THEN 1 ELSE c
  OBVIOUS
<1>3. d \in Nat \ {0}
  BY <1>2
<1>4. \E g : g = step(g)
  <2>1. PICK g : g \in Doubling(MaxCapacity, d)
    BY <1>1, <1>3, DoublingIs
  <2>2. /\ g = [i \in 0 .. MaxCapacity |-> g[i]] /\ g[0] = d
        /\ \A i \in 1 .. MaxCapacity : g[i] = 2 * g[i - 1]
    BY <2>1 DEF Doubling
  <2>3. \A i \in 0 .. MaxCapacity : g[i] = IF i = 0 THEN IF c = 0 THEN 1 ELSE c ELSE 2 * g[i - 1]
    <3>1. ASSUME NEW i \in 0 .. MaxCapacity
          PROVE  g[i] = IF i = 0 THEN d ELSE 2 * g[i - 1]
      <4>1. i = 0 \/ i \in 1 .. MaxCapacity
        BY <1>1
      <4>2. CASE i = 0
        BY <2>2, <4>2
      <4>3. CASE i \in 1 .. MaxCapacity
        BY <2>2, <4>3, Zenon
      <4> QED  BY <4>1, <4>2, <4>3
    <3> QED  BY <1>2, <3>1
  <2> QED  BY <2>2, <2>3, Zenon
<1>5. doubled = step(doubled)
  <2> HIDE DEF step
  <2> QED  BY <1>4, Zenon
<1>6. PICK g : g = doubled
  OBVIOUS
<1>7. g = [i \in 0 .. MaxCapacity |-> IF i = 0 THEN d ELSE 2 * g[i - 1]]
  <2>1. g = step(g)
    BY <1>5, <1>6, Zenon
  <2> QED  BY <1>2, <2>1, Zenon
<1>8. \A i \in 0 .. MaxCapacity : g[i] \in Nat /\ g[i] >= i + 1
  BY <1>1, <1>3, <1>7, DoublingGrows, Zenon
<1>9. \E i \in 0 .. MaxCapacity : g[i] >= n /\ \A j \in 0 .. i - 1 : g[j] < n
  <2> DEFINE T == {i \in 0 .. MaxCapacity : g[i] >= n}
  <2>1. MaxCapacity \in T
    BY <1>1, <1>8
  <2>2. PICK i \in T : \A j \in T : i <= j
    BY <2>1, Least, T \in SUBSET Nat, Zenon
  <2>3. \A j \in 0 .. i - 1 : g[j] < n
    BY <1>1, <1>8, <2>2
  <2> QED  BY <2>2, <2>3
<1>10. enough(g) \in 0 .. MaxCapacity /\ g[enough(g)] >= n
  BY <1>9
<1>11. room = IF n <= c THEN c ELSE g[enough(g)]
  <2>1. V!RoomFor(n, c) = IF n <= c THEN c ELSE doubled[enough(doubled)]
    BY Zenon DEF V!RoomFor
  <2> QED  BY <1>6, <2>1, Zenon
<1> HIDE DEF enough
<1> QED  BY <1>1, <1>8, <1>10, <1>11

(* some elements behind those of v, and not all that were wanted *)
LEMMA VecFillUndone ==
  ASSUME NEW s, NEW m, VecsIn(s, m), NEW v \in Vec, s[v] # Absent, s[v].capacity # 0,
         NEW i, i = s[v].size, NEW j \in Nat, i <= j, j <= s[v].capacity,
         NEW value, \A k \in i .. j - 1 : value[k] \in Slot \ {Raw},
         NEW b, b = s[v].data, NEW q, q = Raws!ConstructRange(m, b, i, j, value),
         NEW f, f = Raws!destruct_range(q, b, i, j)
  PROVE  VecsIn(s, f)
<1>1. PICK r, t : r = [s[v] EXCEPT !.size = j] /\ t = [s EXCEPT ![v] = r]
  BY Zenon
<1>2. VecsIn(t, q)
  BY <1>1, VecFilled, Zenon
<1>3. s[v] \in VecRecords /\ i \in Nat /\ s \in [Vec -> Vecs]
  BY VecInScope, VecFunction
<1>4. PICK o : o = s[v]
  OBVIOUS
<1>5. r \in VecRecords /\ r.data = b /\ r.size = j /\ r.capacity = o.capacity
  BY <1>1, <1>3, <1>4 DEF VecRecords
<1>6. t[v] = r
  BY <1>1, <1>3
<1>7. o = [r EXCEPT !.size = i]
  <2>1. PICK y : y = [r EXCEPT !.size = i]
    BY Zenon
  <2>2. y \in VecRecords /\ y.data = r.data /\ y.size = i /\ y.capacity = r.capacity
    BY <1>3, <1>5, <2>1 DEF VecRecords
  <2>3. o \in VecRecords /\ o.data = b /\ o.size = i
    BY <1>3, <1>4
  <2>4. y = o
    BY <1>5, <2>2, <2>3 DEF VecRecords
  <2> QED  BY <2>1, <2>4
<1>8. s = [t EXCEPT ![v] = o]
  BY <1>1, <1>3, <1>4, Zenon
<1>9. t[v] # Absent /\ j = t[v].size /\ f = Raws!destruct_range(q, t[v].data, i, j) /\ o = [t[v] EXCEPT !.size = i]
  BY <1>5, <1>6, <1>7, VecTypes
<1>10. ASSUME NEW p, p = t, NEW h, h = f, NEW y, y = o, NEW u, u = s
       PROVE  VecsIn(u, h)
  <2>1. VecsIn(p, q) /\ p[v] # Absent /\ i \in Nat /\ i <= j /\ j = p[v].size
    BY <1>2, <1>3, <1>9, <1>10
  <2>2. h = Raws!destruct_range(q, p[v].data, i, j)
    BY <1>9, <1>10
  <2>3. y = [p[v] EXCEPT !.size = i]
    BY <1>9, <1>10
  <2>4. u = [p EXCEPT ![v] = y]
    BY <1>8, <1>10
  <2> QED  BY <2>1, <2>2, <2>3, <2>4, VecShrunk, Zenon
<1> QED  BY <1>10

(* what growing to room leaves: m is the memory, g what v then holds *)
Roomy(s, m, v, g, n, i, room) ==
  /\ VecsIn(s, m)
  /\ s[v] = g /\ g # Absent
  /\ g.capacity # 0 /\ g.size = i /\ n <= g.capacity
  /\ room \in Nat /\ i <= room

LEMMA VectorGrows ==
  ASSUME VecsOK, NEW v \in Vec, obj[v] # Absent, NEW n \in Nat, obj[v].size <= n,
         NEW k, k = obj[v].size, NEW f, f = V!Relocated(v, n, k),
         NEW r, r = V!Roomier(v, n), NEW t, t = [obj EXCEPT ![v] = r],
         NEW wanted, wanted <= n, n # 0
  PROVE  Roomy(t, f, v, r, wanted, k, n)
<1>1. VecsIn(t, f)
  BY VectorRelocated, Zenon
<1>2. r # Absent /\ r.size = k /\ r.capacity = n
  BY VectorRoomier
<1>3. t[v] = r
  BY VecFunction DEF VecsOK
<1> QED  BY <1>1, <1>2, <1>3 DEF Roomy

(* v with room for n, whether it had to grow or not *)
LEMMA VectorRoom ==
  ASSUME VecsOK, NEW v \in Vec, obj[v] # Absent, NEW n \in 0 .. MaxCapacity, n > obj[v].size,
         NEW room, room = V!RoomFor(n, obj[v].capacity),
         NEW g, g = IF room > obj[v].capacity THEN V!Roomier(v, room) ELSE obj[v],
         NEW m, m = IF room > obj[v].capacity THEN V!Relocated(v, room, obj[v].size) ELSE mem,
         NEW s, s = [obj EXCEPT ![v] = g], NEW i, i = obj[v].size
  PROVE  Roomy(s, m, v, g, n, i, room)
<1>1. VecsIn(obj, mem) /\ obj \in [Vec -> Vecs]
  BY VecFunction DEF VecsOK
<1>2. obj[v] \in VecRecords /\ obj[v].size \in Nat /\ obj[v].capacity \in Nat
  BY <1>1, VecInScope
<1>3. room \in Nat /\ n <= room /\ (n <= obj[v].capacity => room = obj[v].capacity)
  BY <1>2, RoomForDoes
<1>4. obj[v].size <= room /\ n \in Nat
  BY <1>2, <1>3
<1>5. s[v] = g
  BY <1>1
<1>6. CASE room > obj[v].capacity
  <2>1. g = V!Roomier(v, room) /\ m = V!Relocated(v, room, i)
    BY <1>6
  <2>2. room # 0
    BY <1>2, <1>3, <1>4
  <2> QED  BY <1>3, <1>4, <2>1, <2>2, VectorGrows, Zenon
<1>7. CASE ~ (room > obj[v].capacity)
  <2>1. g = obj[v] /\ m = mem
    BY <1>7
  <2>2. s = obj
    BY <1>1, <2>1
  <2>3. n <= obj[v].capacity /\ obj[v].capacity # 0
    <3>1. ~ (room > obj[v].capacity)
      BY <1>7
    <3>2. PICK c, z : c = obj[v].capacity /\ z = obj[v].size
      OBVIOUS
    <3>3. c \in Nat /\ z \in Nat /\ n <= c /\ z < n
      BY <1>2, <1>3, <1>4, <3>1, <3>2
    <3> QED  BY <1>4, <3>2, <3>3
  <2> QED  BY <1>1, <1>3, <1>4, <1>5, <2>1, <2>2, <2>3, Zenon DEF Roomy
<1> QED  BY <1>5, <1>6, <1>7

LEMMA VectorEnlarge ==
  ASSUME VecsOK, NEW v \in Vec, NEW n \in 0 .. MaxCapacity, V!Enlarge(v, n)
  PROVE  VecsOK'
<1>1. obj[v] # Absent /\ n > obj[v].size /\ VecsIn(obj, mem)
  BY DEF V!Enlarge, V!InScope, VecsOK
<1>2. obj[v].size \in Nat
  BY <1>1, VecInScope
<1>3. PICK c, i, room, grows, g :
        /\ c = <<"resize", v, n>> /\ i = obj[v].size /\ room = V!RoomFor(n, obj[v].capacity)
        /\ grows = (room > obj[v].capacity) /\ g = IF grows THEN V!Roomier(v, room) ELSE obj[v]
  BY Zenon
<1>4. PICK m, s, value : /\ m = IF grows THEN V!Relocated(v, room, i) ELSE mem
                         /\ s = [obj EXCEPT ![v] = g] /\ value = [k \in V!Span(i, n) |-> Default]
  BY Zenon
<1>5. /\ VecsIn(s, m) /\ s[v] = g /\ g # Absent /\ g.capacity # 0 /\ g.size = obj[v].size
      /\ n <= g.capacity /\ room \in Nat /\ obj[v].size <= room
  <2>1. m = IF room > obj[v].capacity THEN V!Relocated(v, room, obj[v].size) ELSE mem
    BY <1>3, <1>4, Zenon
  <2>2. room = V!RoomFor(n, obj[v].capacity) /\ g = IF room > obj[v].capacity THEN V!Roomier(v, room) ELSE obj[v]
    BY <1>3, Zenon
  <2>3. Roomy(s, m, v, g, n, i, room)
    BY <1>1, <1>3, <1>4, <2>1, <2>2, VectorRoom, Zenon
  <2> QED  BY <1>3, <2>3 DEF Roomy
<1>6. CASE V!Throw(c, mem, v, obj[v])
  BY <1>1, <1>6, VectorThrow
<1>7. ASSUME NEW k \in V!Stops(i) \ {i}, grows, V!Throw(c, V!Relocated(v, room, k), v, obj[v])
      PROVE  VecsOK'
  <2>1. PICK f : f = V!Relocated(v, room, k)
    OBVIOUS
  <2>2. k \in V!Stops(obj[v].size) /\ k # obj[v].size
    BY <1>3
  <2>3. VecsIn(obj, f)
    BY <1>1, <1>5, <2>1, <2>2, VectorNotRelocated
  <2> QED  BY <1>7, <2>1, <2>3, VectorThrow
<1>8. ASSUME NEW j \in 0 .. n - i
      PROVE  \A e : e = i + j => /\ e \in Nat /\ i <= e /\ e <= s[v].capacity /\ i = s[v].size /\ s[v].capacity # 0
                                 /\ \A k \in i .. e - 1 : value[k] \in Slot \ {Raw}
  <2> TAKE e
  <2> HAVE e = i + j
  <2>1. e \in Nat /\ i <= e /\ e <= n /\ i \in Nat /\ n \in Nat
    BY <1>1, <1>2, <1>3
  <2>2. \A k \in i .. e - 1 : value[k] = Default
    BY <1>4, <2>1 DEF V!Span
  <2>3. Default \in Slot \ {Raw}
    BY SingleThreadedAssumption DEF Slot
  <2>4. s[v].capacity \in Nat
    BY <1>5, VecInScope
  <2> QED  BY <1>3, <1>5, <2>1, <2>2, <2>3, <2>4
<1>9. ASSUME NEW j \in 0 .. n - i, j = n - i,
             V!Return(c, V!ConstructRange(m, g.data, i, i + j, value), v, [g EXCEPT !.size = n])
      PROVE  VecsOK'
  <2>1. PICK e, q, r, t : /\ e = i + j /\ q = Raws!ConstructRange(m, s[v].data, i, e, value)
                          /\ r = [s[v] EXCEPT !.size = e] /\ t = [s EXCEPT ![v] = r]
    BY Zenon
  <2>2. VecsIn(t, q)
    <3>1. /\ e \in Nat /\ i <= e /\ e <= s[v].capacity /\ i = s[v].size /\ s[v].capacity # 0
          /\ \A k \in i .. e - 1 : value[k] \in Slot \ {Raw}
      BY <1>8, <2>1
    <3>2. VecsIn(s, m) /\ s[v] # Absent
      BY <1>5
    <3> QED  BY <2>1, <3>1, <3>2, VecFilled, Zenon
  <2>3. e = n
    BY <1>2, <1>3, <1>9, <2>1
  <2>4. mem' = q
    <3>1. V!ConstructRange(m, g.data, i, i + j, value) = Raws!ConstructRange(m, g.data, i, i + j, value)
      BY VectorConstructsRange, Zenon
    <3>2. mem' = V!ConstructRange(m, g.data, i, i + j, value)
      BY <1>9 DEF V!Return, V!End
    <3> QED  BY <1>5, <2>1, <3>1, <3>2, Zenon
  <2>5. obj' = t
    <3>1. obj' = [obj EXCEPT ![v] = r]
      BY <1>5, <1>9, <2>1, <2>3, Zenon DEF V!Return, V!End
    <3>2. obj \in [Vec -> Vecs]
      BY <1>1, VecFunction
    <3> QED  BY <1>4, <2>1, <3>1, <3>2, Zenon
  <2> QED  BY <2>2, <2>4, <2>5 DEF VecsOK
<1>10. ASSUME NEW j \in 0 .. n - i,
              V!Throw(c, V!destruct_range(V!ConstructRange(m, g.data, i, i + j, value), g.data, i, i + j), v, g)
       PROVE  VecsOK'
  <2>1. PICK e, b, q, f : /\ e = i + j /\ b = g.data /\ q = Raws!ConstructRange(m, b, i, e, value)
                          /\ f = Raws!destruct_range(q, b, i, e)
    OBVIOUS
  <2>2. VecsIn(s, f)
    <3>1. /\ e \in Nat /\ i <= e /\ e <= s[v].capacity /\ i = s[v].size /\ s[v].capacity # 0
          /\ \A k \in i .. e - 1 : value[k] \in Slot \ {Raw}
      BY <1>8, <2>1
    <3>2. VecsIn(s, m) /\ s[v] # Absent /\ b = s[v].data
      BY <1>5, <2>1
    <3> QED  BY <2>1, <3>1, <3>2, VecFillUndone
  <2>3. mem' = f
    <3>1. V!ConstructRange(m, b, i, e, value) = q
      BY <2>1, VectorConstructsRange, Zenon
    <3>2. V!destruct_range(q, b, i, e) = f
      BY <2>1, VectorRaws
    <3>3. mem' = V!destruct_range(V!ConstructRange(m, g.data, i, i + j, value), g.data, i, i + j)
      BY <1>10 DEF V!Throw, V!End
    <3> QED  BY <2>1, <3>1, <3>2, <3>3, Zenon
  <2>4. obj' = s
    BY <1>4, <1>10 DEF V!Throw, V!End
  <2> QED  BY <2>2, <2>3, <2>4 DEF VecsOK
<1>11. \/ V!Throw(c, mem, v, obj[v])
       \/ \E k \in V!Stops(i) \ {i} : grows /\ V!Throw(c, V!Relocated(v, room, k), v, obj[v])
       \/ \E j \in 0 .. n - i :
            IF j = n - i THEN V!Return(c, V!ConstructRange(m, g.data, i, i + j, value), v, [g EXCEPT !.size = n])
            ELSE V!Throw(c, V!destruct_range(V!ConstructRange(m, g.data, i, i + j, value), g.data, i, i + j), v, g)
  <2>1. CASE grows
    BY <1>3, <1>4, <2>1, Zenon DEF V!Enlarge
  <2>2. CASE ~grows
    BY <1>3, <1>4, <2>2, Zenon DEF V!Enlarge
  <2> QED  BY <2>1, <2>2
<1> QED  BY <1>6, <1>7, <1>9, <1>10, <1>11

LEMMA VectorNext ==
  ASSUME ~Unguarded, VecsOK, V!Next
  PROVE  VecsOK'
<1>1. PICK v \in Vec :
        \/ V!DefaultCtor(v) \/ V!Destructor(v) \/ V!pop_back(v) \/ V!clear(v)
        \/ \E w \in Vec : V!CopyCtor(v, w) \/ V!CopyAssign(v, w) \/ V!MoveCtor(v, w) \/ V!MoveAssign(v, w)
        \/ \E n \in 0 .. MaxCapacity : V!reserve(v, n) \/ V!Shrink(v, n) \/ V!Enlarge(v, n)
        \/ \E x \in Item : V!EmplaceGrowing(v, x) \/ V!EmplaceInPlace(v, x)
  BY Zenon DEF V!Next
<1>2. CASE V!DefaultCtor(v) \/ V!Destructor(v)
  BY <1>2, VectorGone
<1>3. CASE V!pop_back(v) \/ V!clear(v)
  BY <1>3, VectorLoses
<1>4. ASSUME NEW w \in Vec, V!CopyCtor(v, w) \/ V!CopyAssign(v, w)
      PROVE  VecsOK'
  BY <1>4, VectorCopies
<1>5. ASSUME NEW w \in Vec, V!MoveCtor(v, w) \/ V!MoveAssign(v, w)
      PROVE  VecsOK'
  BY <1>5, VectorTakes
<1>6. ASSUME NEW n \in 0 .. MaxCapacity, V!reserve(v, n) \/ V!Shrink(v, n) \/ V!Enlarge(v, n)
      PROVE  VecsOK'
  <2>1. n \in Nat
    OBVIOUS
  <2>2. CASE V!reserve(v, n)
    BY <2>1, <2>2, VectorReserve
  <2>3. CASE V!Shrink(v, n)
    BY <2>1, <2>3, VectorLoses
  <2>4. CASE V!Enlarge(v, n)
    BY <2>4, VectorEnlarge
  <2> QED  BY <1>6, <2>2, <2>3, <2>4
<1>7. ASSUME NEW x \in Item, V!EmplaceGrowing(v, x)
      PROVE  VecsOK'
  BY <1>7, VectorEmplaceGrowing
<1>8. ASSUME NEW x \in Item, V!EmplaceInPlace(v, x)
      PROVE  VecsOK'
  BY <1>8, VectorInPlace
<1> QED  BY <1>1, <1>2, <1>3, <1>4, <1>5, <1>6, <1>7, <1>8, Zenon

LEMMA VectorImplies == VecsOK => V!ElementsMatch
<1> SUFFICES ASSUME VecsOK PROVE V!ElementsMatch
  OBVIOUS
<1>1. PICK owner : owner = [v \in {u \in Vec : obj[u] # Absent} |-> obj[v]]
  BY Zenon
<1>2. Raws!BelongsTo(mem, owner)
  BY <1>1, VecsBelong DEF VecsOK
<1>3. V!BelongsTo(mem, owner)
  BY <1>2, Zenon DEF V!BelongsTo, Raws!BelongsTo, V!Span, Raws!Span
<1>4. owner = [v \in {u \in Vec : V!InScope(u)} |-> obj[v]]
  BY <1>1, Zenon DEF V!InScope
<1> QED  BY <1>3, <1>4, Zenon DEF V!ElementsMatch

-----------------------------------------------------------------------------
(* unique_ptr.  p maps the pointers to what they lead to, G is what is     *)
(* being deleted, and W that of it whose destructor's body is done.        *)
Owning(p) == DOMAIN p \ Vec

(* those of B that are not null lead to those of D, one to each *)
Leads(p, B, D) ==
  /\ \A x \in B : p[x] # Null => p[x] \in D
  /\ \A x, y \in B : p[x] # Null /\ p[x] = p[y] => x = y
  /\ \A a \in D : a # Null /\ \E x \in B : p[x] = a

Owners(p, G, W) ==
  /\ p = [x \in DOMAIN p |-> p[x]] /\ DOMAIN p \subseteq Vec \cup 1 .. MaxObjects
  /\ W \subseteq G /\ G \subseteq Owning(p)
  /\ Leads(p, DOMAIN p \ W, Owning(p) \ G)

(* the stack d is that of the objects of G, of which W have only the       *)
(* destructors of their members left                                       *)
Stack(d, G, W) ==
  /\ d \in Seq([object : Nat, part : {"body", "members"}])
  /\ \A i, j \in DOMAIN d : d[i].object = d[j].object => i = j
  /\ \A a : a \in G <=> \E i \in DOMAIN d : d[i].object = a
  /\ \A a : a \in W <=> \E i \in DOMAIN d : d[i].part = "members" /\ d[i].object = a

(* what is deleted once the deleter was called with a *)
Doomed(G, a) == IF a = Null THEN G ELSE G \cup {a}

LEMMA StackEmpty == Stack(<<>>, {}, {})
BY DEF Stack

LEMMA StackPush ==
  ASSUME NEW d0, NEW G, NEW W, Stack(d0, G, W), NEW a \in Nat \ G,
         NEW r, r = [object |-> a, part |-> "body"], NEW d, d = <<r>> \o d0, NEW H, H = G \cup {a}
  PROVE  Stack(d, H, W)
<1>1. PICK n : n = Len(d0)
  BY Zenon
<1>2. /\ r \in [object : Nat, part : {"body", "members"}] /\ r.object = a /\ r.part = "body"
      /\ d0 \in Seq([object : Nat, part : {"body", "members"}]) /\ DOMAIN d0 = 1 .. n /\ n \in Nat
  BY <1>1 DEF Stack
<1>3. /\ d \in Seq([object : Nat, part : {"body", "members"}])
      /\ DOMAIN d = 1 .. n + 1 /\ d[1] = r /\ \A i \in 1 .. n : d[i + 1] = d0[i]
  BY <1>1, <1>2
<1>4. /\ \A i \in 2 .. n + 1 : i - 1 \in 1 .. n /\ d[i] = d0[i - 1]
      /\ \A i \in 1 .. n : i + 1 \in 1 .. n + 1
  <2>1. ASSUME NEW i \in 2 .. n + 1 PROVE i - 1 \in 1 .. n /\ d[i] = d0[i - 1]
    <3>1. i - 1 \in 1 .. n /\ (i - 1) + 1 = i
      BY <1>2
    <3> QED  BY <1>3, <3>1, Zenon
  <2> QED  BY <1>2, <2>1
<1>5. \A i \in DOMAIN d : i = 1 \/ i \in 2 .. n + 1
  BY <1>2, <1>3
<1>6. \A i, j \in DOMAIN d : d[i].object = d[j].object => i = j
  <2>1. \A i \in 1 .. n : d0[i].object # a
    BY <1>2, Zenon DEF Stack
  <2> TAKE i, j \in DOMAIN d
  <2> HAVE d[i].object = d[j].object
  <2>2. CASE i = 1 \/ j = 1
    BY <1>2, <1>3, <1>4, <1>5, <2>1, <2>2
  <2>3. CASE i # 1 /\ j # 1
    <3>1. i \in 2 .. n + 1 /\ j \in 2 .. n + 1
      BY <1>2, <1>3, <2>3
    <3>2. i - 1 \in 1 .. n /\ j - 1 \in 1 .. n /\ d0[i - 1].object = d0[j - 1].object
      BY <1>4, <3>1
    <3>3. i - 1 = j - 1
      BY <1>2, <3>2 DEF Stack
    <3> QED  BY <1>2, <3>1, <3>3
  <2> QED  BY <2>2, <2>3
<1>7. \A x : x \in H <=> \E i \in DOMAIN d : d[i].object = x
  <2>1. \A x : x \in G <=> \E i \in 1 .. n : d0[i].object = x
    BY <1>2, Zenon DEF Stack
  <2>2. ASSUME NEW i \in DOMAIN d PROVE d[i].object \in H
    <3>1. CASE i = 1
      BY <1>2, <1>3, <3>1
    <3>2. CASE i # 1
      <4>1. i - 1 \in 1 .. n /\ d[i] = d0[i - 1]
        BY <1>4, <1>5, <3>2
      <4> QED  BY <2>1, <4>1
    <3> QED  BY <3>1, <3>2
  <2>3. ASSUME NEW x \in H PROVE \E i \in DOMAIN d : d[i].object = x
    <3>1. CASE x = a
      <4>1. 1 \in DOMAIN d /\ d[1].object = a
        BY <1>2, <1>3
      <4> QED  BY <3>1, <4>1, Zenon
    <3>2. CASE x # a
      <4>1. PICK i \in 1 .. n : d0[i].object = x
        BY <2>1, <3>2
      <4>2. i + 1 \in DOMAIN d /\ d[i + 1] = d0[i]
        BY <1>3, <1>4, Zenon
      <4> QED  BY <4>1, <4>2, Zenon
    <3> QED  BY <3>1, <3>2
  <2> QED  BY <2>2, <2>3
<1>8. \A x : x \in W <=> \E i \in DOMAIN d : d[i].part = "members" /\ d[i].object = x
  <2>1. \A x : x \in W <=> \E i \in 1 .. n : d0[i].part = "members" /\ d0[i].object = x
    BY <1>2, Zenon DEF Stack
  <2>2. ASSUME NEW i \in DOMAIN d, d[i].part = "members" PROVE d[i].object \in W
    <3>1. i # 1
      BY <1>2, <1>3, <2>2
    <3>2. i - 1 \in 1 .. n /\ d[i] = d0[i - 1]
      BY <1>4, <1>5, <3>1
    <3> QED  BY <2>1, <2>2, <3>2
  <2>3. ASSUME NEW x \in W PROVE \E i \in DOMAIN d : d[i].part = "members" /\ d[i].object = x
    <3>1. PICK i \in 1 .. n : d0[i].part = "members" /\ d0[i].object = x
      BY <2>1
    <3>2. i + 1 \in DOMAIN d /\ d[i + 1] = d0[i]
      BY <1>3, <1>4, Zenon
    <3> QED  BY <3>1, <3>2, Zenon
  <2> QED  BY <2>2, <2>3
<1> QED  BY <1>3, <1>6, <1>7, <1>8, Zenon DEF Stack

LEMMA StackDelete ==
  ASSUME NEW d0, NEW G, NEW W, Stack(d0, G, W), NEW a, a # Null => a \in Nat \ G,
         NEW d, d = IF a = Null THEN d0 ELSE <<[object |-> a, part |-> "body"]>> \o d0, NEW H, H = Doomed(G, a)
  PROVE  Stack(d, H, W)
<1>1. CASE a = Null
  BY <1>1 DEF Doomed
<1>2. CASE a # Null
  <2>1. PICK r : r = [object |-> a, part |-> "body"]
    OBVIOUS
  <2>2. d = <<r>> \o d0 /\ H = G \cup {a} /\ a \in Nat \ G
    BY <1>2, <2>1 DEF Doomed
  <2> QED  BY <2>1, <2>2, StackPush, Zenon
<1> QED  BY <1>1, <1>2

LEMMA StackTop ==
  ASSUME NEW d, NEW G, NEW W, Stack(d, G, W), d # <<>>, Head(d).part = "body", NEW h, h = Head(d).object
  PROVE  h \in G /\ h \notin W
<1>1. 1 \in DOMAIN d /\ d[1].part = "body" /\ d[1].object = h
  BY DEF Stack
<1> QED  BY <1>1 DEF Stack

LEMMA StackBodyDone ==
  ASSUME NEW d, NEW G, NEW W, Stack(d, G, W), d # <<>>, Head(d).part = "body",
         NEW h, h = Head(d).object,
         NEW r, r = [d[1] EXCEPT !.part = "members"], NEW e, e = [d EXCEPT ![1] = r], NEW X, X = W \cup {h}
  PROVE  Stack(e, G, X)
<1>1. PICK n : n = Len(d)
  OBVIOUS
<1>2. /\ d \in Seq([object : Nat, part : {"body", "members"}]) /\ DOMAIN d = 1 .. n /\ n \in Nat \ {0}
      /\ d[1].object = h /\ d[1].part = "body"
  BY <1>1 DEF Stack
<1>3. /\ e \in Seq([object : Nat, part : {"body", "members"}]) /\ DOMAIN e = 1 .. n
      /\ \A i \in 1 .. n : e[i].object = d[i].object /\ e[i].part = IF i = 1 THEN "members" ELSE d[i].part
  <2>1. d[1] \in [object : Nat, part : {"body", "members"}]
    <3>1. PICK R : R = [object : Nat, part : {"body", "members"}]
      BY Zenon
    <3>2. d \in Seq(R) /\ 1 \in 1 .. Len(d)
      BY <1>1, <1>2, <3>1
    <3> QED  BY <3>1, <3>2, ElementOfSeq, Zenon
  <2>2. r \in [object : Nat, part : {"body", "members"}] /\ r.object = h /\ r.part = "members"
    BY <1>2, <2>1
  <2> QED  BY <1>1, <1>2, <2>2
<1>4. \A a : a \in X <=> \E i \in DOMAIN e : e[i].part = "members" /\ e[i].object = a
  <2>1. \A a : a \in W <=> \E i \in 1 .. n : d[i].part = "members" /\ d[i].object = a
    BY <1>2 DEF Stack
  <2> QED  BY <1>2, <1>3, <2>1
<1>5. /\ \A i, j \in DOMAIN e : e[i].object = e[j].object => i = j
      /\ \A a : a \in G <=> \E i \in DOMAIN e : e[i].object = a
  BY <1>2, <1>3 DEF Stack
<1> QED  BY <1>3, <1>4, <1>5 DEF Stack

LEMMA StackPop ==
  ASSUME NEW d, NEW G, NEW W, Stack(d, G, W), d # <<>>, Head(d).part = "members",
         NEW h, h = Head(d).object, NEW e, e = Tail(d), NEW H, H = G \ {h}, NEW X, X = W \ {h}
  PROVE  Stack(e, H, X) /\ h \in W
<1>1. PICK n : n = Len(d)
  OBVIOUS
<1>2. /\ d \in Seq([object : Nat, part : {"body", "members"}]) /\ DOMAIN d = 1 .. n /\ n \in Nat \ {0}
      /\ d[1].object = h /\ d[1].part = "members"
  BY <1>1 DEF Stack
<1>3. /\ e \in Seq([object : Nat, part : {"body", "members"}]) /\ DOMAIN e = 1 .. n - 1
      /\ \A i \in 1 .. n - 1 : e[i] = d[i + 1]
  BY <1>1, <1>2
<1>4. \A i \in 2 .. n : i - 1 \in 1 .. n - 1 /\ e[i - 1] = d[i] /\ d[i].object # h
  <2>1. ASSUME NEW i \in 2 .. n PROVE i - 1 \in 1 .. n - 1 /\ e[i - 1] = d[i]
    <3>1. i - 1 \in 1 .. n - 1 /\ (i - 1) + 1 = i
      BY <1>2
    <3> QED  BY <1>3, <3>1, Zenon
  <2>2. \A i \in 2 .. n : i \in 1 .. n /\ 1 \in 1 .. n /\ i # 1
    BY <1>2
  <2> QED  BY <1>2, <2>1, <2>2 DEF Stack
<1>5. \A i \in 1 .. n - 1 : i + 1 \in 2 .. n /\ i + 1 \in 1 .. n
  BY <1>2
<1>12. \A i \in DOMAIN e : e[i] = d[i + 1] /\ i + 1 \in 2 .. n /\ i + 1 \in 1 .. n /\ d[i + 1].object # h
  BY <1>3, <1>4, <1>5, Zenon
<1>6. \A i, j \in DOMAIN e : e[i].object = e[j].object => i = j
  <2> TAKE i, j \in DOMAIN e
  <2> HAVE e[i].object = e[j].object
  <2>1. i + 1 = j + 1
    BY <1>2, <1>3, <1>5 DEF Stack
  <2> QED  BY <1>2, <1>3, <2>1
<1>7. \A a : a \in H <=> \E i \in DOMAIN e : e[i].object = a
  <2>1. \A a : a \in G <=> \E i \in 1 .. n : d[i].object = a
    BY <1>2, Zenon DEF Stack
  <2>2. ASSUME NEW a, a \in H PROVE \E i \in DOMAIN e : e[i].object = a
    <3>1. PICK i \in 1 .. n : d[i].object = a /\ i # 1
      BY <1>2, <2>1, <2>2
    <3>2. i \in 2 .. n
      BY <1>2, <3>1
    <3> QED  BY <1>3, <1>4, <3>1, <3>2, Zenon
  <2>3. ASSUME NEW i \in DOMAIN e PROVE e[i].object \in H
    BY <1>3, <1>4, <1>5, <1>12, <2>1, Zenon
  <2> QED  BY <2>2, <2>3
<1>8. \A a : a \in X <=> \E i \in DOMAIN e : e[i].part = "members" /\ e[i].object = a
  <2>1. \A a : a \in W <=> \E i \in 1 .. n : d[i].part = "members" /\ d[i].object = a
    BY <1>2, Zenon DEF Stack
  <2>2. ASSUME NEW a, a \in X PROVE \E i \in DOMAIN e : e[i].part = "members" /\ e[i].object = a
    <3>1. PICK i \in 1 .. n : d[i].part = "members" /\ d[i].object = a /\ i # 1
      BY <1>2, <2>1, <2>2
    <3>2. i \in 2 .. n
      BY <1>2, <3>1
    <3> QED  BY <1>3, <1>4, <3>1, <3>2, Zenon
  <2>3. ASSUME NEW i \in DOMAIN e, e[i].part = "members" PROVE e[i].object \in X
    BY <1>3, <1>4, <1>5, <1>12, <2>1, <2>3
  <2> QED  BY <2>2, <2>3
<1>11. h \in W
  BY <1>2 DEF Stack
<1> QED  BY <1>3, <1>6, <1>7, <1>8, <1>11 DEF Stack

LEMMA LeadsKept ==
  ASSUME NEW p, NEW B, NEW D, Leads(p, B, D), NEW q, \A x \in B : q[x] = p[x]
  PROVE  Leads(q, B, D)
BY DEF Leads

LEMMA LeadsLess ==
  ASSUME NEW p, NEW B, NEW D, Leads(p, B, D), NEW x \in B, NEW V1, V1 = B \ {x}, NEW M1, M1 = D \ {p[x]}
  PROVE  Leads(p, V1, M1)
<1>1. \A a \in M1 : a # Null /\ \E y \in V1 : p[y] = a
  BY DEF Leads
<1> QED  BY <1>1 DEF Leads

LEMMA LeadsNull ==
  ASSUME NEW p, NEW B, NEW D, Leads(p, B, D), NEW x, p[x] = Null, NEW V1, V1 = B \cup {x}
  PROVE  Leads(p, V1, D)
BY DEF Leads

LEMMA LeadsMore ==
  ASSUME NEW p, NEW B, NEW D, Leads(p, B, D), NEW x, NEW a, p[x] = a, a # Null, a \notin D,
         NEW V1, V1 = B \cup {x}, x \notin B, NEW M1, M1 = D \cup {a}
  PROVE  Leads(p, V1, M1)
<1>1. \A y \in B : p[y] # a
  BY DEF Leads
<1> QED  BY <1>1 DEF Leads

(* what y led to, x leads to now *)
LEMMA LeadsMoved ==
  ASSUME NEW p, NEW B, NEW D, Leads(p, B, D), NEW x, NEW y \in B, x \notin B, NEW q, q[x] = p[y], q[y] = Null,
         \A z \in B \ {y} : q[z] = p[z], NEW V1, V1 = B \cup {x}
  PROVE  Leads(q, V1, D)
<1>1. \A a \in D : a # Null /\ \E z \in V1 : q[z] = a
  <2> TAKE a \in D
  <2>1. PICK z \in B : p[z] = a /\ a # Null
    BY DEF Leads
  <2>2. CASE z = y
    BY <2>1, <2>2
  <2>3. CASE z # y
    BY <2>1, <2>3
  <2> QED  BY <2>2, <2>3
<1>2. \A z \in V1 : q[z] # Null => q[z] \in D
  BY DEF Leads
<1>3. \A z, u \in V1 : q[z] # Null /\ q[z] = q[u] => z = u
  BY DEF Leads
<1> QED  BY <1>1, <1>2, <1>3 DEF Leads

LEMMA OwnersFacts ==
  ASSUME NEW p, NEW G, NEW W, Owners(p, G, W)
  PROVE  /\ Owning(p) \subseteq 1 .. MaxObjects /\ Null \notin Owning(p) /\ Owning(p) \subseteq DOMAIN p
         /\ \A v \in Vec : v \notin Owning(p) /\ v \notin W
         /\ Owning(p) \cap Vec = {} /\ \A a \in 1 .. MaxObjects : a \in Nat /\ a # Null /\ a \notin Vec
         /\ W \subseteq G /\ G \subseteq Owning(p)
<1>1. /\ MaxObjects \in Nat /\ Null \notin Nat /\ \A v \in Vec : v \notin Nat
  BY SingleThreadedAssumption
<1> QED  BY <1>1 DEF Owners, Owning

LEMMA OwnersLead ==
  ASSUME NEW p, NEW G, NEW W, Owners(p, G, W), NEW B, B = DOMAIN p \ W, NEW D, D = Owning(p) \ G
  PROVE  Leads(p, B, D)
BY DEF Owners

(* the deleter of x's object is called: nothing that is being deleted is   *)
LEMMA OwnersDoomed ==
  ASSUME NEW p, NEW G, NEW W, Owners(p, G, W), NEW x \in DOMAIN p \ W, NEW a, a = p[x], NEW H, H = Doomed(G, a)
  PROVE  /\ a # Null => a \in Nat \ G
         /\ Owning(p) \ H = (Owning(p) \ G) \ {a} /\ W \subseteq H /\ H \subseteq Owning(p)
<1>1. a # Null => a \in Owning(p) \ G
  BY DEF Owners, Leads
<1> QED  BY <1>1, OwnersFacts DEF Doomed

(* the body of h's destructor is done, and its member's begins *)
LEMMA OwnersBegun ==
  ASSUME NEW p, NEW G, NEW W, Owners(p, G, W), NEW h, h \in G, h \notin W,
         NEW X, X = W \cup {h}, NEW a, a = p[h], NEW H, H = Doomed(G, a)
  PROVE  Owners(p, H, X) /\ h \in DOMAIN p \ W
<1>1. h \in DOMAIN p \ W
  BY OwnersFacts
<1>2. PICK B, D, V1, M1 : /\ B = DOMAIN p \ W /\ D = Owning(p) \ G
                          /\ V1 = DOMAIN p \ X /\ M1 = Owning(p) \ H
  BY Zenon
<1>3. Leads(p, B, D) /\ h \in B /\ V1 = B \ {h} /\ M1 = D \ {p[h]} /\ X \subseteq H /\ H \subseteq Owning(p)
  <2>1. Leads(p, B, D) /\ h \in B /\ V1 = B \ {h}
    BY <1>1, <1>2, OwnersLead
  <2>2. Owning(p) \ H = (Owning(p) \ G) \ {a} /\ W \subseteq H /\ H \subseteq Owning(p)
    BY <1>1, OwnersDoomed
  <2>3. h \in H
    BY DEF Doomed
  <2> QED  BY <1>2, <2>1, <2>2, <2>3
<1>4. Leads(p, V1, M1)
  BY <1>3, LeadsLess
<1> QED  BY <1>1, <1>2, <1>3, <1>4 DEF Owners

(* h is deleted *)
LEMMA OwnersEnded ==
  ASSUME NEW p, NEW G, NEW W, Owners(p, G, W), NEW h \in W,
         NEW H, H = G \ {h}, NEW X, X = W \ {h}, NEW q, q = Without(p, {h})
  PROVE  Owners(q, H, X)
<1>1. /\ DOMAIN q = DOMAIN p \ {h} /\ q = [x \in DOMAIN q |-> q[x]]
      /\ \A x \in DOMAIN q : q[x] = p[x]
  BY DEF Without
<1>2. Owning(q) = Owning(p) \ {h} /\ h \in G
  BY <1>1, OwnersFacts, Zenon DEF Owning
<1>3. Owning(q) \ H = Owning(p) \ G /\ DOMAIN q \ X = DOMAIN p \ W
  BY <1>1, <1>2
<1>4. PICK B, D : B = DOMAIN p \ W /\ D = Owning(p) \ G
  BY Zenon
<1>5. Leads(q, B, D)
  <2>1. Leads(p, B, D) /\ \A x \in B : q[x] = p[x]
    BY <1>1, <1>4, OwnersLead
  <2> QED  BY <2>1, LeadsKept
<1>6. DOMAIN q \subseteq Vec \cup 1 .. MaxObjects /\ X \subseteq H /\ H \subseteq Owning(q)
  BY <1>1, <1>2, Zenon DEF Owners
<1> QED  BY <1>1, <1>3, <1>4, <1>5, <1>6, Zenon DEF Owners

LEMMA OwnersNull ==
  ASSUME NEW p, NEW G, NEW W, Owners(p, G, W), NEW v \in Vec \ DOMAIN p, NEW q, q = With(p, v, Null)
  PROVE  Owners(q, G, W)
<1>1. /\ DOMAIN q = DOMAIN p \cup {v} /\ q = [x \in DOMAIN q |-> q[x]]
      /\ q[v] = Null /\ \A x \in DOMAIN p : q[x] = p[x]
  BY DEF With
<1>2. PICK B, D, V1 : B = DOMAIN p \ W /\ D = Owning(p) \ G /\ V1 = B \cup {v}
  BY Zenon
<1>3. Owning(q) = Owning(p) /\ DOMAIN q \ W = V1
  <2>1. v \notin W
    BY OwnersFacts
  <2> QED  BY <1>1, <1>2, <2>1 DEF Owning
<1>4. Leads(q, B, D)
  <2>1. Leads(p, B, D) /\ \A x \in B : q[x] = p[x]
    BY <1>1, <1>2, OwnersLead
  <2> QED  BY <2>1, LeadsKept
<1>5. Leads(q, V1, D)
  BY <1>1, <1>2, <1>4, LeadsNull
<1> QED  BY <1>1, <1>2, <1>3, <1>5 DEF Owners

LEMMA OwnersNew ==
  ASSUME NEW p, NEW G, NEW W, Owners(p, G, W), NEW v \in Vec \ DOMAIN p,
         NEW a \in 1 .. MaxObjects, a \notin Owning(p), NEW q, q = With(With(p, a, Null), v, a)
  PROVE  Owners(q, G, W)
<1>1. a # v /\ a # Null /\ a \notin Vec /\ a \notin DOMAIN p /\ a \notin G /\ a \notin W /\ v \notin W
  BY OwnersFacts DEF Owning
<1>2. /\ DOMAIN q = DOMAIN p \cup {a, v} /\ q = [x \in DOMAIN q |-> q[x]]
      /\ q[v] = a /\ q[a] = Null /\ \A x \in DOMAIN p : q[x] = p[x]
  BY <1>1 DEF With
<1>3. PICK B, D, V1, V3, M1 : /\ B = DOMAIN p \ W /\ D = Owning(p) \ G
                              /\ V1 = B \cup {a} /\ V3 = V1 \cup {v} /\ M1 = D \cup {a}
  BY Zenon
<1>4. Owning(q) = Owning(p) \cup {a}
  BY <1>1, <1>2 DEF Owning
<1>5. DOMAIN q \ W = V3 /\ Owning(q) \ G = M1
  BY <1>1, <1>2, <1>3, <1>4
<1>6. Leads(q, B, D)
  <2>1. Leads(p, B, D) /\ \A x \in B : q[x] = p[x]
    BY <1>2, <1>3, OwnersLead
  <2> QED  BY <2>1, LeadsKept
<1>7. Leads(q, V1, D)
  BY <1>2, <1>3, <1>6, LeadsNull
<1>8. a \notin D /\ v \notin V1
  BY <1>1, <1>3
<1>9. Leads(q, V3, M1)
  BY <1>1, <1>2, <1>3, <1>7, <1>8, LeadsMore
<1>10. DOMAIN q \subseteq Vec \cup 1 .. MaxObjects /\ G \subseteq Owning(q) /\ W \subseteq G
  BY <1>2, <1>4 DEF Owners
<1> QED  BY <1>2, <1>5, <1>9, <1>10, Zenon DEF Owners

LEMMA OwnersMoved ==
  ASSUME NEW p, NEW G, NEW W, Owners(p, G, W), NEW v \in Vec \ DOMAIN p, NEW y \in DOMAIN p \ W,
         NEW q, q = With([p EXCEPT ![y] = Null], v, p[y])
  PROVE  Owners(q, G, W)
<1>1. /\ DOMAIN q = DOMAIN p \cup {v} /\ q = [x \in DOMAIN q |-> q[x]] /\ v # y
      /\ q[v] = p[y] /\ q[y] = Null /\ \A x \in DOMAIN p : x # y => q[x] = p[x]
  BY DEF With
<1>2. PICK B, D, V1 : B = DOMAIN p \ W /\ D = Owning(p) \ G /\ V1 = B \cup {v}
  BY Zenon
<1>3. Owning(q) = Owning(p)
  BY <1>1 DEF Owning
<1>4. DOMAIN q \ W = V1
  <2>1. v \notin W
    BY OwnersFacts
  <2> QED  BY <1>1, <1>2, <2>1
<1>5. Leads(p, B, D) /\ y \in B /\ v \notin B /\ (\A x \in B \ {y} : q[x] = p[x]) /\ q[v] = p[y] /\ q[y] = Null
  BY <1>1, <1>2, OwnersLead, Zenon
<1>6. Leads(q, V1, D)
  BY <1>2, <1>5, LeadsMoved, Zenon
<1>7. DOMAIN q \subseteq Vec \cup 1 .. MaxObjects /\ W \subseteq G /\ G \subseteq Owning(p)
  BY <1>1, Zenon DEF Owners
<1> QED  BY <1>1, <1>2, <1>3, <1>4, <1>6, <1>7, Zenon DEF Owners

LEMMA OwnersGone ==
  ASSUME NEW p, NEW G, NEW W, Owners(p, G, W), NEW v \in Vec \cap DOMAIN p,
         NEW a, a = p[v], NEW H, H = Doomed(G, a), NEW q, q = Without(p, {v})
  PROVE  Owners(q, H, W) /\ v \in DOMAIN p \ W
<1>1. /\ DOMAIN q = DOMAIN p \ {v} /\ q = [x \in DOMAIN q |-> q[x]]
      /\ \A x \in DOMAIN q : q[x] = p[x]
  BY DEF Without
<1>2. PICK B, D, V1, M1 : B = DOMAIN p \ W /\ D = Owning(p) \ G /\ V1 = B \ {v} /\ M1 = D \ {p[v]}
  BY Zenon
<1>3. Owning(q) = Owning(p) /\ v \in B /\ DOMAIN q \ W = V1
  <2>1. v \notin W
    BY OwnersFacts
  <2> QED  BY <1>1, <1>2, <2>1 DEF Owning
<1>4. Owning(p) \ H = M1 /\ W \subseteq H /\ H \subseteq Owning(p)
  BY <1>2, <1>3, OwnersDoomed
<1>5. Leads(p, V1, M1)
  BY <1>2, <1>3, OwnersLead, LeadsLess, Zenon
<1>6. Leads(q, V1, M1)
  BY <1>1, <1>2, <1>5, LeadsKept
<1>7. DOMAIN q \subseteq Vec \cup 1 .. MaxObjects
  BY <1>1 DEF Owners
<1> QED  BY <1>1, <1>2, <1>3, <1>4, <1>6, <1>7, Zenon DEF Owners

LEMMA OwnersReset ==
  ASSUME NEW p, NEW G, NEW W, Owners(p, G, W), NEW y \in DOMAIN p \ W,
         NEW a, a = p[y], NEW H, H = Doomed(G, a), NEW q, q = [p EXCEPT ![y] = Null]
  PROVE  Owners(q, H, W)
<1>1. /\ DOMAIN q = DOMAIN p /\ q = [x \in DOMAIN q |-> q[x]]
      /\ q[y] = Null /\ \A x \in DOMAIN p : x # y => q[x] = p[x]
  BY Zenon
<1>2. PICK B, D, V1, M1 : B = DOMAIN p \ W /\ D = Owning(p) \ G /\ V1 = B \ {y} /\ M1 = D \ {p[y]}
  BY Zenon
<1>3. Owning(q) = Owning(p) /\ DOMAIN q \ W = V1 \cup {y}
  BY <1>1, <1>2 DEF Owning
<1>4. Owning(p) \ H = M1 /\ W \subseteq H /\ H \subseteq Owning(p)
  BY <1>2, OwnersDoomed
<1>5. Leads(p, V1, M1)
  BY <1>2, OwnersLead, LeadsLess
<1>6. Leads(q, V1, M1)
  BY <1>1, <1>2, <1>5, LeadsKept
<1>7. PICK V3 : V3 = V1 \cup {y}
  BY Zenon
<1>8. Leads(q, V3, M1)
  BY <1>1, <1>6, <1>7, LeadsNull
<1>9. DOMAIN q \subseteq Vec \cup 1 .. MaxObjects
  BY <1>1 DEF Owners
<1> QED  BY <1>1, <1>3, <1>4, <1>7, <1>8, <1>9, Zenon DEF Owners

LEMMA OwnersResetNew ==
  ASSUME NEW p, NEW G, NEW W, Owners(p, G, W), NEW y \in DOMAIN p \ W,
         NEW b \in 1 .. MaxObjects, b \notin Owning(p),
         NEW a, a = p[y], NEW H, H = Doomed(G, a), NEW q, q = With([p EXCEPT ![y] = b], b, Null)
  PROVE  Owners(q, H, W)
<1>1. b # y /\ b # Null /\ b \notin Vec /\ b \notin DOMAIN p /\ b \notin W
  BY OwnersFacts DEF Owning
<1>2. /\ DOMAIN q = DOMAIN p \cup {b} /\ q = [x \in DOMAIN q |-> q[x]]
      /\ q[y] = b /\ q[b] = Null /\ \A x \in DOMAIN p : x # y => q[x] = p[x]
  BY <1>1 DEF With
<1>3. PICK B, D, V1, M1 : B = DOMAIN p \ W /\ D = Owning(p) \ G /\ V1 = B \ {y} /\ M1 = D \ {p[y]}
  BY Zenon
<1>4. PICK V3, V4, M3 : V3 = V1 \cup {y} /\ V4 = V3 \cup {b} /\ M3 = M1 \cup {b}
  BY Zenon
<1>5. Owning(q) = Owning(p) \cup {b}
  BY <1>1, <1>2 DEF Owning
<1>6. Owning(p) \ H = M1 /\ W \subseteq H /\ H \subseteq Owning(p)
  BY <1>3, OwnersDoomed
<1>7. DOMAIN q \ W = V4 /\ Owning(q) \ H = M3 /\ b \notin M1 /\ y \notin V1
  <2>1. DOMAIN q \ W = V4
    BY <1>1, <1>2, <1>3, <1>4, Zenon
  <2>2. b \notin H /\ b \notin M1
    BY <1>6
  <2>3. Owning(q) \ H = M3
    BY <1>4, <1>5, <1>6, <2>2, Zenon
  <2> QED  BY <1>3, <2>1, <2>2, <2>3, Zenon
<1>8. Leads(p, V1, M1)
  BY <1>3, OwnersLead, LeadsLess
<1>9. Leads(q, V1, M1)
  BY <1>2, <1>3, <1>8, LeadsKept, Zenon
<1>10. Leads(q, V3, M3)
  <2>1. q[y] = b /\ b # Null /\ b \notin M1 /\ y \notin V1
    BY <1>1, <1>2, <1>7
  <2> QED  BY <1>4, <1>9, <2>1, LeadsMore
<1>11. Leads(q, V4, M3)
  BY <1>2, <1>4, <1>10, LeadsNull
<1>12. DOMAIN q \subseteq Vec \cup 1 .. MaxObjects /\ H \subseteq Owning(q)
  BY <1>2, <1>5, <1>6, Zenon DEF Owners
<1> QED  BY <1>2, <1>6, <1>7, <1>11, <1>12, Zenon DEF Owners

LEMMA OwnersAssigned ==
  ASSUME NEW p, NEW G, NEW W, Owners(p, G, W), NEW y \in DOMAIN p \ W, NEW z \in DOMAIN p \ W, y # z,
         NEW a, a = p[y], NEW H, H = Doomed(G, a),
         NEW q, q = [[p EXCEPT ![z] = Null] EXCEPT ![y] = p[z]]
  PROVE  Owners(q, H, W)
<1>1. /\ DOMAIN q = DOMAIN p /\ q = [x \in DOMAIN q |-> q[x]]
      /\ q[y] = p[z] /\ q[z] = Null /\ \A x \in DOMAIN p : x # y /\ x # z => q[x] = p[x]
  BY Zenon
<1>2. PICK B, D, V1, M1 : B = DOMAIN p \ W /\ D = Owning(p) \ G /\ V1 = B \ {y} /\ M1 = D \ {p[y]}
  BY Zenon
<1>3. Owning(q) = Owning(p)
  BY <1>1 DEF Owning
<1>4. Owning(p) \ H = M1 /\ W \subseteq H /\ H \subseteq Owning(p)
  BY <1>2, OwnersDoomed
<1>5. Leads(p, V1, M1)
  BY <1>2, OwnersLead, LeadsLess
<1>6. y \notin V1 /\ z \in V1 /\ B = V1 \cup {y} /\ \A x \in V1 \ {z} : q[x] = p[x]
  BY <1>1, <1>2
<1>7. Leads(q, B, M1)
  <2>1. q[y] = p[z] /\ q[z] = Null
    BY <1>1
  <2> QED  BY <1>5, <1>6, <2>1, LeadsMoved, Zenon
<1>8. DOMAIN q \subseteq Vec \cup 1 .. MaxObjects
  BY <1>1 DEF Owners
<1> QED  BY <1>1, <1>2, <1>3, <1>4, <1>7, <1>8, Zenon DEF Owners

UniquesIn(p, d, G, W) == Owners(p, G, W) /\ Stack(d, G, W)
UniquesOK == \E G, W : UniquesIn(obj, aux, G, W)

LEMMA UniqueInit ==
  ASSUME U!Init
  PROVE  UniquesOK
<1>1. PICK p : p = [x \in {} |-> Null]
  OBVIOUS
<1>2. Owners(p, {}, {})
  BY <1>1 DEF Owners, Owning, Leads
<1>3. obj = p /\ aux = <<>>
  BY <1>1 DEF U!Init
<1> QED  BY <1>2, <1>3, StackEmpty DEF UniquesOK, UniquesIn

LEMMA UniqueCardinality ==
  ASSUME NEW s
  PROVE  U!Cardinality(s) = Cardinality(s)
BY Zenon DEF U!Cardinality, Cardinality

LEMMA UniqueHeap ==
  ASSUME NEW h, NEW x
  PROVE  U!Without(h, x) = Without(h, x) /\ \A y : U!With(h, x, y) = With(h, x, y)
BY DEF U!Without, Without, U!With, With

(* what a destructor may use *)
LEMMA UniqueUsable ==
  ASSUME NEW G, NEW W, Stack(aux, G, W)
  PROVE  U!Usable = DOMAIN obj \ W
<1> DEFINE late == {aux[i].object : i \in {j \in DOMAIN aux : aux[j].part = "members"}}
<1>1. ASSUME NEW x PROVE x \in late <=> x \in W
  BY DEF Stack
<1>2. late = W
  BY <1>1
<1> QED  BY <1>2, Zenon DEF U!Usable

LEMMA UniqueNew ==
  ASSUME NEW G, NEW W, Owners(obj, G, W), NEW a \in U!NewObjects
  PROVE  a \in 1 .. MaxObjects /\ a \notin Owning(obj)
<1>1. PICK o : o = U!Objects
  OBVIOUS
<1>2. o = Owning(obj)
  BY <1>1 DEF U!Objects, Owning
<1>3. a \in IF Cardinality(o) < MaxObjects THEN {CHOOSE x \in 1 .. MaxObjects : x \notin o} ELSE {}
  BY <1>1, UniqueCardinality, Zenon DEF U!NewObjects
<1>4. Cardinality(o) < MaxObjects /\ a = CHOOSE x \in 1 .. MaxObjects : x \notin o
  BY <1>3
<1>5. MaxObjects \in Nat /\ IsFiniteSet(1 .. MaxObjects) /\ Cardinality(1 .. MaxObjects) = MaxObjects
  BY SingleThreadedAssumption, FS_Interval
<1>6. IsFiniteSet(o)
  BY <1>2, <1>5, OwnersFacts, FS_Subset
<1>7. \E x \in 1 .. MaxObjects : x \notin o
  <2> SUFFICES ASSUME 1 .. MaxObjects \subseteq o PROVE FALSE
    OBVIOUS
  <2>1. MaxObjects <= Cardinality(o)
    BY <1>5, <1>6, FS_Subset
  <2>2. Cardinality(o) \in Nat
    BY <1>6, FS_CardinalityType
  <2> QED  BY <1>4, <1>5, <2>1, <2>2
<1> QED  BY <1>2, <1>4, <1>7

LEMMA UniqueCtor ==
  ASSUME UniquesOK, NEW v \in Vec, U!Ctor(v)
  PROVE  UniquesOK'
<1>1. PICK G, W : Owners(obj, G, W) /\ Stack(aux, G, W)
  BY DEF UniquesOK, UniquesIn
<1>2. v \in Vec \ DOMAIN obj /\ aux' = aux
  BY DEF U!Ctor
<1>3. CASE obj' = With(obj, v, Null)
  <2>1. Owners(obj', G, W)
    BY <1>1, <1>2, <1>3, OwnersNull
  <2> QED  BY <1>1, <1>2, <2>1 DEF UniquesOK, UniquesIn
<1>4. ASSUME NEW a \in U!NewObjects, obj' = With(With(obj, a, Null), v, a)
      PROVE  UniquesOK'
  <2>1. a \in 1 .. MaxObjects /\ a \notin Owning(obj)
    BY <1>1, UniqueNew
  <2>2. Owners(obj', G, W)
    BY <1>1, <1>2, <1>4, <2>1, OwnersNew
  <2> QED  BY <1>1, <1>2, <2>2 DEF UniquesOK, UniquesIn
<1> QED  BY <1>3, <1>4, UniqueHeap DEF U!Ctor

LEMMA UniqueMoveCtor ==
  ASSUME UniquesOK, NEW v \in Vec, NEW q, U!MoveCtor(v, q)
  PROVE  UniquesOK'
<1>1. PICK G, W : Owners(obj, G, W) /\ Stack(aux, G, W)
  BY DEF UniquesOK, UniquesIn
<1>2. v \in Vec \ DOMAIN obj /\ q \in DOMAIN obj \ W /\ aux' = aux
  BY <1>1, UniqueUsable DEF U!MoveCtor
<1>3. obj' = With([obj EXCEPT ![q] = Null], v, obj[q])
  BY UniqueHeap, Zenon DEF U!MoveCtor, U!Released
<1>4. Owners(obj', G, W)
  BY <1>1, <1>2, <1>3, OwnersMoved
<1> QED  BY <1>1, <1>2, <1>4 DEF UniquesOK, UniquesIn

(* y's object, if any, goes, and y is left with something else *)
LEMMA UniqueDeletes ==
  ASSUME NEW G, NEW W, Owners(obj, G, W), Stack(aux, G, W), NEW y \in DOMAIN obj \ W, aux' = U!Delete(obj[y]),
         NEW H, H = Doomed(G, obj[y]), Owners(obj', H, W)
  PROVE  UniquesOK'
<1>1. PICK a : a = obj[y]
  OBVIOUS
<1>2. a # Null => a \in Nat \ G
  BY <1>1, OwnersDoomed
<1>3. aux' = IF a = Null THEN aux ELSE <<[object |-> a, part |-> "body"]>> \o aux
  BY <1>1 DEF U!Delete
<1>4. H = Doomed(G, a)
  BY <1>1
<1>5. Stack(aux', H, W)
  BY <1>2, <1>3, <1>4, StackDelete, Zenon
<1> QED  BY <1>5 DEF UniquesOK, UniquesIn

LEMMA UniqueDestructor ==
  ASSUME UniquesOK, NEW v \in Vec, U!Destructor(v)
  PROVE  UniquesOK'
<1>1. PICK G, W : Owners(obj, G, W) /\ Stack(aux, G, W)
  BY DEF UniquesOK, UniquesIn
<1>2. v \in Vec \cap DOMAIN obj /\ aux' = U!Delete(obj[v]) /\ obj' = Without(obj, {v})
  BY UniqueHeap DEF U!Destructor
<1>3. PICK H : H = Doomed(G, obj[v])
  OBVIOUS
<1>4. Owners(obj', H, W) /\ v \in DOMAIN obj \ W
  BY <1>1, <1>2, <1>3, OwnersGone
<1> QED  BY <1>1, <1>2, <1>3, <1>4, UniqueDeletes

LEMMA UniqueReset ==
  ASSUME UniquesOK, NEW y, U!reset(y)
  PROVE  UniquesOK'
<1>1. PICK G, W : Owners(obj, G, W) /\ Stack(aux, G, W)
  BY DEF UniquesOK, UniquesIn
<1>2. y \in DOMAIN obj \ W /\ aux' = U!Delete(obj[y])
  BY <1>1, UniqueUsable DEF U!reset
<1>3. PICK H : H = Doomed(G, obj[y])
  OBVIOUS
<1>4. CASE obj' = U!AfterReset(y, Null)
  <2>1. obj' = [obj EXCEPT ![y] = Null]
    BY <1>4 DEF U!AfterReset
  <2>2. Owners(obj', H, W)
    BY <1>1, <1>2, <1>3, <2>1, OwnersReset, Zenon
  <2> QED  BY <1>1, <1>2, <1>3, <2>2, UniqueDeletes
<1>5. ASSUME NEW b \in U!NewObjects, obj' = With(U!AfterReset(y, b), b, Null)
      PROVE  UniquesOK'
  <2>1. b \in 1 .. MaxObjects /\ b \notin Owning(obj)
    BY <1>1, UniqueNew
  <2>2. obj' = With([obj EXCEPT ![y] = b], b, Null)
    BY <1>5 DEF U!AfterReset
  <2>3. Owners(obj', H, W)
    BY <1>1, <1>2, <1>3, <2>1, <2>2, OwnersResetNew
  <2> QED  BY <1>1, <1>2, <1>3, <2>3, UniqueDeletes
<1> QED  BY <1>4, <1>5, UniqueHeap, Zenon DEF U!reset

LEMMA UniqueMoveAssign ==
  ASSUME UniquesOK, NEW y, NEW z, U!MoveAssign(y, z)
  PROVE  UniquesOK'
<1>1. PICK G, W : Owners(obj, G, W) /\ Stack(aux, G, W)
  BY DEF UniquesOK, UniquesIn
<1>2. y # z /\ y \in DOMAIN obj \ W /\ z \in DOMAIN obj \ W /\ aux' = U!Delete(obj[y])
  BY <1>1, UniqueUsable DEF U!MoveAssign
<1>3. obj' = [[obj EXCEPT ![z] = Null] EXCEPT ![y] = obj[z]]
  BY DEF U!MoveAssign, U!Released
<1>4. PICK H : H = Doomed(G, obj[y])
  OBVIOUS
<1>5. Owners(obj', H, W)
  BY <1>1, <1>2, <1>3, <1>4, OwnersAssigned, Zenon
<1> QED  BY <1>1, <1>2, <1>4, <1>5, UniqueDeletes

LEMMA UniqueEndBody ==
  ASSUME UniquesOK, U!EndBody
  PROVE  UniquesOK'
<1>1. PICK G, W : Owners(obj, G, W) /\ Stack(aux, G, W)
  BY DEF UniquesOK, UniquesIn
<1>2. aux # <<>> /\ Head(aux).part = "body" /\ obj' = obj
  BY DEF U!EndBody, U!Running
<1>3. PICK h, e, X : h = Head(aux).object /\ e = [aux EXCEPT ![1].part = "members"] /\ X = W \cup {h}
  BY Zenon
<1>4. Stack(e, G, X) /\ h \in G /\ h \notin W
  <2>1. PICK d, r : d = aux /\ r = [aux[1] EXCEPT !.part = "members"]
    BY Zenon
  <2>2. Stack(d, G, W) /\ d # <<>> /\ Head(d).part = "body" /\ h = Head(d).object
    BY <1>1, <1>2, <1>3, <2>1
  <2>3. r = [d[1] EXCEPT !.part = "members"] /\ e = [d EXCEPT ![1] = r]
    BY <1>3, <2>1
  <2>4. Stack(e, G, X)
    BY <1>3, <2>2, <2>3, StackBodyDone
  <2> QED  BY <2>2, <2>4, StackTop
<1>5. PICK a, H : a = obj[h] /\ H = Doomed(G, a)
  OBVIOUS
<1>6. Owners(obj, H, X) /\ h \in DOMAIN obj \ W
  BY <1>1, <1>3, <1>4, <1>5, OwnersBegun
<1>7. a # Null => a \in Nat \ G
  BY <1>1, <1>5, <1>6, OwnersDoomed
<1>8. aux' = IF a = Null THEN e ELSE <<[object |-> a, part |-> "body"]>> \o e
  BY <1>3, <1>5 DEF U!EndBody
<1>9. Stack(aux', H, X)
  BY <1>4, <1>5, <1>7, <1>8, StackDelete, Zenon
<1> QED  BY <1>2, <1>6, <1>9 DEF UniquesOK, UniquesIn

LEMMA UniqueEndDelete ==
  ASSUME UniquesOK, U!EndDelete
  PROVE  UniquesOK'
<1>1. PICK G, W : Owners(obj, G, W) /\ Stack(aux, G, W)
  BY DEF UniquesOK, UniquesIn
<1>2. aux # <<>> /\ Head(aux).part = "members"
  BY DEF U!EndDelete, U!Running
<1>3. PICK h, H, X : h = Head(aux).object /\ H = G \ {h} /\ X = W \ {h}
  BY Zenon
<1>4. obj' = Without(obj, {h}) /\ aux' = Tail(aux)
  BY <1>3, UniqueHeap DEF U!EndDelete
<1>5. Stack(aux', H, X) /\ h \in W
  <2>1. PICK d, e : d = aux /\ e = Tail(aux)
    BY Zenon
  <2>2. Stack(d, G, W) /\ d # <<>> /\ Head(d).part = "members" /\ h = Head(d).object /\ e = Tail(d)
    BY <1>1, <1>2, <1>3, <2>1
  <2>3. Stack(e, H, X) /\ h \in W
    BY <1>3, <2>2, StackPop, Zenon
  <2> QED  BY <1>4, <2>1, <2>3
<1>6. Owners(obj', H, X)
  BY <1>1, <1>3, <1>4, <1>5, OwnersEnded
<1> QED  BY <1>5, <1>6 DEF UniquesOK, UniquesIn

LEMMA UniqueNext ==
  ASSUME UniquesOK, U!Next
  PROVE  UniquesOK'
<1>1. CASE U!EndBody \/ U!EndDelete
  BY <1>1, UniqueEndBody, UniqueEndDelete
<1>2. ASSUME NEW v \in Vec, U!Ctor(v) \/ U!Destructor(v) \/ \E q \in DOMAIN obj : U!MoveCtor(v, q)
      PROVE  UniquesOK'
  BY <1>2, UniqueCtor, UniqueDestructor, UniqueMoveCtor
<1>3. ASSUME NEW p \in DOMAIN obj, U!reset(p) \/ \E q \in DOMAIN obj : U!MoveAssign(p, q)
      PROVE  UniquesOK'
  BY <1>3, UniqueReset, UniqueMoveAssign
<1> QED  BY <1>1, <1>2, <1>3, Zenon DEF U!Next

LEMMA UniqueImplies == UniquesOK => U!OneOwner
<1> SUFFICES ASSUME UniquesOK PROVE U!OneOwner
  OBVIOUS
<1>1. PICK G, W : Owners(obj, G, W) /\ Stack(aux, G, W)
  BY DEF UniquesOK, UniquesIn
<1>2. PICK B, D : B = DOMAIN obj \ W /\ D = Owning(obj) \ G
  BY Zenon
<1>3. U!Usable = B /\ U!Objects = Owning(obj) /\ Leads(obj, B, D)
  BY <1>1, <1>2, UniqueUsable, OwnersLead DEF U!Objects, Owning
<1>4. \A p \in B : obj[p] \in Owning(obj) \cup {Null}
  BY <1>2, <1>3 DEF Leads
<1>5. \A i \in DOMAIN aux : aux[i].object \in Owning(obj)
  BY <1>1, OwnersFacts DEF Stack
<1>6. ASSUME NEW a \in Owning(obj), NEW p, p = {x \in B : obj[x] = a}, NEW d, d = {i \in DOMAIN aux : aux[i].object = a}
      PROVE  Cardinality(p) + Cardinality(d) = 1
  <2>0. a # Null
    BY <1>1, OwnersFacts
  <2>1. CASE a \in G
    <3>1. PICK i : i \in DOMAIN aux /\ aux[i].object = a
      BY <1>1, <2>1 DEF Stack
    <3>2. d = {i}
      BY <1>1, <1>6, <3>1 DEF Stack
    <3>3. p = {}
      BY <1>2, <1>3, <1>6, <2>0, <2>1 DEF Leads
    <3> QED  BY <3>2, <3>3, FS_EmptySet, FS_Singleton
  <2>2. CASE a \notin G
    <3>1. PICK x : x \in B /\ obj[x] = a
      BY <1>2, <1>3, <2>2 DEF Leads
    <3>2. p = {x}
      BY <1>3, <1>6, <2>0, <3>1 DEF Leads
    <3>3. d = {}
      BY <1>1, <1>6, <2>2 DEF Stack
    <3> QED  BY <3>2, <3>3, FS_EmptySet, FS_Singleton
  <2> QED  BY <2>1, <2>2
<1>7. \A a \in U!Objects :
        Cardinality({p \in U!Usable : obj[p] = a}) + Cardinality({i \in DOMAIN aux : aux[i].object = a}) = 1
  BY <1>3, <1>6, Zenon
<1>8. (\A p \in U!Usable : obj[p] \in U!Objects \cup {Null}) /\ \A i \in DOMAIN aux : aux[i].object \in U!Objects
  BY <1>3, <1>4, <1>5
<1> QED  BY <1>7, <1>8, UniqueCardinality, Zenon DEF U!OneOwner

-----------------------------------------------------------------------------
(* list.  A circle c gives the nodes in their order, the sentinel first;   *)
(* a list without a sentinel has the empty one.                            *)
Cells == [next : Address \cup {Null}, prev : Address \cup {Null}, val : Item \cup {Raw}]
ListRecords == [sentinel : Address \cup {Null}, size : Nat]

After(n, i) == IF i = n THEN 0 ELSE i + 1
On(c) == {c[i] : i \in DOMAIN c}

Ring(h, c, n) ==
  /\ n \in Nat /\ DOMAIN c = 0 .. n /\ c = [i \in 0 .. n |-> c[i]] /\ On(c) \subseteq DOMAIN h
  /\ \A i, j \in 0 .. n : c[i] = c[j] => i = j
  /\ \A i \in 0 .. n : h[c[i]].next = c[After(n, i)] /\ h[c[After(n, i)]].prev = c[i]
IsCircle(h, c) == DOMAIN c = {} \/ \E n : Ring(h, c, n)

(* each node is on the circle of one variable *)
Circles(h, cs) ==
  /\ h \in Heaps(Cells) /\ cs = [v \in Vec |-> cs[v]]
  /\ \A v \in Vec : IsCircle(h, cs[v])
  /\ \A a \in DOMAIN h : \E v \in Vec : a \in On(cs[v])
  /\ \A v, w \in Vec : v # w => On(cs[v]) \cap On(cs[w]) = {}

Matches(r, c) ==
  \/ r = Absent /\ DOMAIN c = {}
  \/ r \in ListRecords /\ r.sentinel = Null /\ r.size = 0 /\ DOMAIN c = {}
  \/ r \in ListRecords /\ r.sentinel # Null /\ DOMAIN c = 0 .. r.size /\ c[0] = r.sentinel

ListsIn(s, m, cs) ==
  /\ s \in [Vec -> ListRecords \cup {Absent}] /\ m \in Memory(Cells)
  /\ Circles(m.heap, cs) /\ \A v \in Vec : Matches(s[v], cs[v])
ListsOK == \E cs : ListsIn(obj, mem, cs)

LEMMA RingAfter ==
  ASSUME NEW n \in Nat, NEW i \in 0 .. n
  PROVE  After(n, i) \in 0 .. n /\ (i < n => After(n, i) = i + 1) /\ After(n, n) = 0
BY DEF After

LEMMA RingOn ==
  ASSUME NEW h, NEW c, NEW n, Ring(h, c, n), NEW i \in 0 .. n
  PROVE  c[i] \in On(c) /\ c[i] \in DOMAIN h /\ n \in Nat
BY DEF Ring, On

LEMMA RingKept ==
  ASSUME NEW h, NEW c, NEW n, Ring(h, c, n), NEW g, \A a \in On(c) : a \in DOMAIN g /\ g[a] = h[a]
  PROVE  Ring(g, c, n)
<1>1. n \in Nat /\ \A i \in 0 .. n : c[i] \in On(c) /\ After(n, i) \in 0 .. n
  BY RingAfter, RingOn, Zenon DEF Ring
<1> QED  BY <1>1, Zenon DEF Ring

LEMMA CircleOn ==
  ASSUME NEW h, NEW c, IsCircle(h, c)
  PROVE  On(c) \subseteq DOMAIN h
BY DEF IsCircle, Ring, On

LEMMA CircleKept ==
  ASSUME NEW h, NEW c, IsCircle(h, c), NEW g, \A a \in On(c) : a \in DOMAIN g /\ g[a] = h[a]
  PROVE  IsCircle(g, c)
BY RingKept DEF IsCircle

(* the nodes X go, and Y come *)
Traded(h, X, Y, g) ==
  /\ DOMAIN g = (DOMAIN h \ X) \cup Y /\ (DOMAIN h \ X) \cap Y = {}
  /\ \A a \in DOMAIN h \ X : g[a] = h[a]

(* the circle of v goes, and d comes *)
LEMMA CirclesReplaced ==
  ASSUME NEW h, NEW cs, Circles(h, cs), NEW v \in Vec, NEW g \in Heaps(Cells), NEW d, IsCircle(g, d),
         NEW X, X = On(cs[v]), NEW Y, Y = On(d), Traded(h, X, Y, g), NEW t, t = [cs EXCEPT ![v] = d]
  PROVE  Circles(g, t)
<1> DEFINE K == DOMAIN h \ On(cs[v])
<1>0. /\ DOMAIN g = K \cup On(d) /\ K \cap On(d) = {} /\ \A a \in K : g[a] = h[a]
      /\ \A a : a \in K <=> a \in DOMAIN h /\ a \notin On(cs[v])
  BY DEF Traded
<1> HIDE DEF K
<1>1. t = [u \in Vec |-> t[u]] /\ \A u \in Vec : t[u] = IF u = v THEN d ELSE cs[u]
  BY DEF Circles
<1>2. ASSUME NEW u \in Vec, u # v PROVE On(t[u]) \subseteq K /\ t[u] = cs[u] /\ IsCircle(g, t[u])
  <2>1. t[u] = cs[u] /\ IsCircle(h, cs[u]) /\ On(cs[u]) \cap On(cs[v]) = {}
    BY <1>1, <1>2 DEF Circles
  <2>2. On(cs[u]) \subseteq DOMAIN h
    BY <2>1, CircleOn
  <2>3. On(cs[u]) \subseteq K /\ \A a \in On(cs[u]) : a \in DOMAIN g /\ g[a] = h[a]
    BY <1>0, <2>1, <2>2
  <2>4. IsCircle(g, cs[u])
    BY <2>1, <2>3, CircleKept
  <2> QED  BY <2>1, <2>3, <2>4
<1>3. t[v] = d
  BY <1>1
<1>4. \A u \in Vec : IsCircle(g, t[u])
  BY <1>2, <1>3
<1>5. ASSUME NEW a \in DOMAIN g PROVE \E u \in Vec : a \in On(t[u])
  <2>1. CASE a \in On(d)
    BY <1>3, <2>1
  <2>2. CASE a \in K
    <3>1. PICK u \in Vec : a \in On(cs[u])
      BY <1>0, <2>2 DEF Circles
    <3>2. u # v
      BY <1>0, <2>2, <3>1
    <3> QED  BY <1>2, <3>1, <3>2
  <2> QED  BY <1>0, <2>1, <2>2
<1>6. ASSUME NEW u \in Vec, NEW w \in Vec, u # w PROVE On(t[u]) \cap On(t[w]) = {}
  <2>1. CASE u # v /\ w # v
    <3>1. t[u] = cs[u] /\ t[w] = cs[w]
      BY <1>2, <2>1
    <3> QED  BY <1>6, <3>1 DEF Circles
  <2>2. CASE u = v
    BY <1>0, <1>2, <1>3, <1>6, <2>2
  <2>3. CASE w = v
    BY <1>0, <1>2, <1>3, <1>6, <2>3
  <2> QED  BY <2>1, <2>2, <2>3
<1> QED  BY <1>1, <1>4, <1>5, <1>6 DEF Circles

(* the circle of v goes, and that of w comes to v *)
Passed(cs, v, w, d, t) == t = [cs EXCEPT ![v] = cs[w], ![w] = d]

LEMMA CirclesTaken ==
  ASSUME NEW h, NEW cs, Circles(h, cs), NEW v \in Vec, NEW w \in Vec, v # w, NEW g, NEW X, X = On(cs[v]), Shrunk(Cells, h, X, g),
         NEW d, DOMAIN d = {}, NEW t, Passed(cs, v, w, d, t)
  PROVE  Circles(g, t)
<1>0. g \in Heaps(Cells) /\ DOMAIN g = DOMAIN h \ On(cs[v]) /\ \A a \in DOMAIN g : g[a] = h[a]
  BY DEF Shrunk
<1>1. t = [u \in Vec |-> t[u]] /\ \A u \in Vec : t[u] = IF u = w THEN d ELSE IF u = v THEN cs[w] ELSE cs[u]
  BY Zenon DEF Circles, Passed
<1>2. On(d) = {}
  BY DEF On
<1>3. ASSUME NEW u \in Vec, u # v PROVE IsCircle(g, cs[u]) /\ On(cs[u]) \subseteq DOMAIN g
  <2>1. IsCircle(h, cs[u]) /\ On(cs[u]) \cap On(cs[v]) = {}
    BY <1>3 DEF Circles
  <2>2. On(cs[u]) \subseteq DOMAIN h
    BY <2>1, CircleOn
  <2>3. \A a \in On(cs[u]) : a \in DOMAIN g /\ g[a] = h[a]
    BY <1>0, <2>1, <2>2
  <2>4. IsCircle(g, cs[u])
    BY <2>1, <2>3, CircleKept
  <2> QED  BY <2>3, <2>4
<1>4. t[w] = d /\ t[v] = cs[w] /\ \A u \in Vec : u # v /\ u # w => t[u] = cs[u]
  BY <1>1
<1>5. ASSUME NEW u \in Vec PROVE IsCircle(g, t[u])
  <2>1. CASE u = w
    BY <1>4, <2>1 DEF IsCircle
  <2>2. CASE u # w
    BY <1>3, <1>4, <2>2
  <2> QED  BY <2>1, <2>2
<1>6. ASSUME NEW a \in DOMAIN g PROVE \E u \in Vec : a \in On(t[u])
  <2>1. PICK u \in Vec : a \in On(cs[u]) /\ u # v
    BY <1>0 DEF Circles
  <2>2. CASE u = w
    BY <1>4, <2>1, <2>2
  <2>3. CASE u # w
    BY <1>4, <2>1, <2>3
  <2> QED  BY <2>2, <2>3
<1>7. ASSUME NEW u \in Vec, NEW x \in Vec, u # x PROVE On(t[u]) \cap On(t[x]) = {}
  <2>1. CASE u = w \/ x = w
    BY <1>2, <1>4, <2>1
  <2>2. CASE u # w /\ x # w /\ u = v
    <3>1. t[u] = cs[w] /\ t[x] = cs[x]
      BY <1>4, <1>7, <2>2
    <3> QED  BY <2>2, <3>1 DEF Circles
  <2>3. CASE u # w /\ x # w /\ x = v
    <3>1. t[x] = cs[w] /\ t[u] = cs[u]
      BY <1>4, <1>7, <2>3
    <3> QED  BY <2>3, <3>1 DEF Circles
  <2>4. CASE u # w /\ x # w /\ u # v /\ x # v
    <3>1. t[u] = cs[u] /\ t[x] = cs[x]
      BY <1>4, <2>4
    <3> QED  BY <1>7, <3>1 DEF Circles
  <2> QED  BY <2>1, <2>2, <2>3, <2>4
<1> QED  BY <1>0, <1>1, <1>5, <1>6, <1>7 DEF Circles

(* n nodes after another, with no way back yet *)
Path(h, c, n) ==
  /\ n \in Nat /\ DOMAIN c = 0 .. n /\ c = [i \in 0 .. n |-> c[i]] /\ On(c) \subseteq DOMAIN h
  /\ \A i, j \in 0 .. n : c[i] = c[j] => i = j
  /\ \A i \in 0 .. n : c[i] \in DOMAIN h /\ (i < n => h[c[i]].next = c[i + 1])

LEMMA RingIsPath ==
  ASSUME NEW h, NEW c, NEW n, Ring(h, c, n)
  PROVE  Path(h, c, n) /\ h[c[n]].next = c[0]
<1>1. n \in Nat /\ n \in 0 .. n
  BY DEF Ring
<1>2. \A i \in 0 .. n : c[i] \in DOMAIN h /\ (i < n => h[c[i]].next = c[i + 1])
  BY <1>1, RingOn, RingAfter, Zenon DEF Ring
<1>3. h[c[n]].next = c[0]
  BY <1>1, RingAfter DEF Ring
<1> QED  BY <1>1, <1>2, <1>3 DEF Ring, Path

(* a walk from the sentinel goes along the nodes, and around the circle *)
LEMMA WalkAlong ==
  ASSUME NEW h, NEW c, NEW n, Path(h, c, n), NEW k \in Nat, k <= n + 1, k <= n \/ h[c[n]].next = c[0], NEW w,
         w = [i \in 0 .. k |-> IF i = 0 THEN c[0] ELSE IF w[i - 1] \in DOMAIN h THEN h[w[i - 1]].next ELSE Null]
  PROVE  \A i \in 0 .. k : w[i] = IF i <= n THEN c[i] ELSE c[0]
<1> DEFINE N == {i \in 0 .. k : w[i] = IF i <= n THEN c[i] ELSE c[0]}
<1>1. n \in Nat
  BY DEF Path
<1>2. w[0] = c[0] /\ \A i \in 1 .. k : w[i] = IF w[i - 1] \in DOMAIN h THEN h[w[i - 1]].next ELSE Null
  OBVIOUS
<1>3. 0 \in N
  BY <1>1, <1>2
<1>4. ASSUME NEW i \in 0 .. k - 1, i \in N PROVE i + 1 \in N
  <2>1. i + 1 \in 1 .. k /\ (i + 1) - 1 = i /\ i \in 0 .. n /\ i + 1 \in 0 .. k
    BY <1>1
  <2>2. w[i] = c[i]
    BY <1>4, <2>1
  <2>3. c[i] \in DOMAIN h /\ h[c[i]].next = IF i + 1 <= n THEN c[i + 1] ELSE c[0]
    <3>1. c[i] \in DOMAIN h /\ (i < n => h[c[i]].next = c[i + 1])
      BY <2>1, Zenon DEF Path
    <3>2. i = n => h[c[i]].next = c[0]
      BY <1>1, <2>1
    <3> QED  BY <1>1, <2>1, <3>1, <3>2
  <2> QED  BY <1>2, <2>1, <2>2, <2>3
<1> HIDE DEF N
<1>5. 0 .. k \subseteq N
  BY <1>3, <1>4, Induction, Zenon
<1> QED  BY <1>5 DEF N

LEMMA RingWalk ==
  ASSUME NEW h, NEW c, NEW n, Path(h, c, n), NEW k \in Nat, k <= n + 1, k <= n \/ h[c[n]].next = c[0], NEW a, a = c[0],
         NEW w, w = L!Walk(h, a, k)
  PROVE  \A i \in 0 .. k : w[i] = IF i <= n THEN c[i] ELSE c[0]
<1> DEFINE step(x) == [i \in 0 .. k |-> IF i = 0 THEN a ELSE IF x[i - 1] \in DOMAIN h THEN h[x[i - 1]].next ELSE Null]
           path == [i \in 0 .. k |-> IF i <= n THEN c[i] ELSE c[0]]
<1>1. path = step(path)
  <2>1. n \in Nat
    BY DEF Path
  <2> SUFFICES ASSUME NEW i \in 0 .. k
               PROVE  path[i] = IF i = 0 THEN a ELSE IF path[i - 1] \in DOMAIN h THEN h[path[i - 1]].next ELSE Null
    BY Zenon
  <2>2. CASE i = 0
    BY <2>1, <2>2
  <2>3. CASE i # 0
    <3>1. PICK j : j = i - 1
      OBVIOUS
    <3>2. j \in 0 .. k /\ j \in 0 .. n /\ j + 1 = i
      BY <2>1, <2>3, <3>1
    <3>3. path[j] = c[j]
      BY <3>2
    <3>4. c[j] \in DOMAIN h /\ h[c[j]].next = IF i <= n THEN c[i] ELSE c[0]
      <4>1. c[j] \in DOMAIN h /\ (j < n => h[c[j]].next = c[j + 1])
        BY <3>2, Zenon DEF Path
      <4>2. j = n => h[c[j]].next = c[0]
        BY <2>1, <3>2
      <4> QED  BY <2>1, <3>2, <4>1, <4>2
    <3> QED  BY <2>3, <3>1, <3>3, <3>4
  <2> QED  BY <2>2, <2>3
<1> HIDE DEF path
<1>2. w = CHOOSE x : x = step(x)
  BY Zenon DEF L!Walk
<1>3. w = step(w)
  <2> HIDE DEF step
  <2> QED  BY <1>1, <1>2, Zenon
<1> QED  BY <1>3, WalkAlong

LEMMA RingSize ==
  ASSUME NEW h, NEW c, NEW n, Path(h, c, n), NEW I, I = On(c)
  PROVE  IsFiniteSet(I) /\ Cardinality(I) = n + 1
<1>1. n \in Nat
  BY DEF Path
<1>2. c \in [0 .. n -> I]
  BY DEF Path, On
<1>3. (\A i, j \in 0 .. n : c[i] = c[j] => i = j) /\ \A x \in I : \E i \in 0 .. n : c[i] = x
  BY DEF Path, On
<1>4. c \in Injection(0 .. n, I) /\ c \in Surjection(0 .. n, I)
  BY <1>2, <1>3 DEF Injection, IsInjective, Surjection
<1>5. IsFiniteSet(0 .. n) /\ Cardinality(0 .. n) = n + 1
  BY <1>1, FS_Interval
<1> QED  BY <1>4, <1>5, FS_Surjection

LEMMA ListCardinality ==
  ASSUME NEW s
  PROVE  L!Cardinality(s) = Cardinality(s)
BY Zenon DEF L!Cardinality, Cardinality

Destroyed(h, X, q) == q = [heap |-> Without(h, X), sound |-> TRUE]

(* destroy takes all of the circle, and nothing twice *)
LEMMA ListDestroyed ==
  ASSUME NEW m \in Memory(Cells), NEW h, h = m.heap, NEW c, NEW n, Path(h, c, n), NEW a, a = c[0],
         NEW q, q = L!destroy(m, a, n)
  PROVE  Destroyed(h, On(c), q)
<1>1. PICK w, I : w = L!Walk(h, a, n) /\ I = {w[i] : i \in 0 .. n}
  BY Zenon
<1>2. n \in Nat /\ n <= n + 1
  BY DEF Path
<1>3. \A i \in 0 .. n : w[i] = IF i <= n THEN c[i] ELSE c[0]
  BY <1>1, <1>2, RingWalk
<1>4. I = On(c)
  BY <1>1, <1>2, <1>3 DEF On, Path
<1>5. Cardinality(I) = n + 1 /\ I \subseteq DOMAIN h
  <2>1. Cardinality(I) = n + 1
    BY <1>4, RingSize
  <2> QED  BY <1>4, <2>1 DEF Path
<1>6. a # Null
  <2>1. a \in DOMAIN h /\ h \in Heaps(Cells)
    BY <1>2 DEF Path, Memory
  <2> QED  BY <2>1, HeapType, NullIsNoAddress
<1>7. PICK gone : gone = L!delete(m, I)
  OBVIOUS
<1>8. gone = [heap |-> Without(h, I), sound |-> m.sound /\ I \subseteq DOMAIN h]
  BY <1>7, Zenon DEF L!delete, L!Without, Without
<1>9. gone = [heap |-> Without(h, I), sound |-> TRUE]
  BY <1>5, <1>8, Zenon DEF Memory
<1>10. q = [gone EXCEPT !.sound = gone.sound /\ Cardinality(I) = n + 1]
  <2>1. gone = L!delete(m, {L!Walk(h, a, n)[i] : i \in 0 .. n})
    BY <1>1, <1>7
  <2>2. Cardinality(I) = L!Cardinality({L!Walk(h, a, n)[i] : i \in 0 .. n})
    BY <1>1, ListCardinality
  <2>3. q = [L!delete(m, {L!Walk(h, a, n)[i] : i \in 0 .. n})
               EXCEPT !.sound = @ /\ L!Cardinality({L!Walk(h, a, n)[i] : i \in 0 .. n}) = n + 1]
    BY <1>6, Zenon DEF L!destroy
  <2> QED  BY <2>1, <2>2, <2>3, Zenon
<1> QED  BY <1>4, <1>5, <1>9, <1>10, Zenon DEF Destroyed

(* Fresh: the addresses that are free are counted through *)
LEMMA FreshIs ==
  ASSUME NEW m, NEW h \in Heaps(Cells), h = m.heap, NEW n \in Nat, Cardinality(DOMAIN h) + n <= MaxCapacity + 1,
         NEW a, a = L!Fresh(m, n)
  PROVE  a \in Address /\ a \notin DOMAIN h /\ Cardinality((1 .. a) \ DOMAIN h) = n + 1
<1>1. PICK D, b : D = DOMAIN h /\ b = 2 * (MaxCapacity + 1) + 1
  OBVIOUS
<1>2. IsFiniteSet(D) /\ Cardinality(D) \in Nat /\ b \in Nat /\ n + 1 <= b - Cardinality(D) /\ MaxCapacity \in Nat
  BY <1>1, HeapType, FS_CardinalityType, SingleThreadedAssumption
<1> DEFINE free(i) == (1 .. i) \ D
           T == {i \in 0 .. b : n + 1 <= Cardinality(free(i))}
<1>3. ASSUME NEW i \in Nat
      PROVE  IsFiniteSet(free(i)) /\ Cardinality(free(i)) \in Nat /\ i - Cardinality(D) <= Cardinality(free(i))
  <2>1. IsFiniteSet(1 .. i) /\ Cardinality(1 .. i) = i
    BY FS_Interval
  <2>2. IsFiniteSet((1 .. i) \cap D) /\ Cardinality((1 .. i) \cap D) <= Cardinality(D)
    BY <1>2, FS_Subset, (1 .. i) \cap D \subseteq D
  <2>3. Cardinality((1 .. i) \cap D) \in Nat
    BY <2>2, FS_CardinalityType
  <2>4. IsFiniteSet(free(i)) /\ Cardinality(free(i)) = Cardinality(1 .. i) - Cardinality((1 .. i) \cap D)
    BY <2>1, FS_Difference, Zenon
  <2>5. Cardinality(free(i)) \in Nat
    BY <2>4, FS_CardinalityType
  <2> HIDE DEF free
  <2> QED  BY <1>2, <2>1, <2>2, <2>3, <2>4, <2>5
<1>4. b \in T
  <2> HIDE DEF free
  <2> QED  BY <1>2, <1>3
<1>5. PICK i \in T : \A j \in T : i <= j
  BY <1>4, Least, T \subseteq Nat, Zenon
<1>6. i # 0
  <2>1. free(0) = {}
    OBVIOUS
  <2>2. Cardinality(free(0)) = 0
    BY <2>1, FS_EmptySet
  <2> HIDE DEF free
  <2> QED  BY <1>5, <2>2
<1>7. PICK j : j = i - 1
  OBVIOUS
<1>8. j \in 0 .. b /\ i = j + 1 /\ i \in Nat /\ j \in Nat /\ j \notin T /\ n + 1 <= Cardinality(free(i)) /\ i <= b
  BY <1>2, <1>5, <1>6, <1>7
<1>9. Cardinality(free(j)) < n + 1
  <2> HIDE DEF free
  <2> QED  BY <1>3, <1>8
<1>10. i \notin D
  <2> SUFFICES ASSUME i \in D PROVE FALSE
    OBVIOUS
  <2>1. free(i) = free(j)
    BY <1>8
  <2> HIDE DEF free
  <2> QED  BY <1>3, <1>8, <1>9, <2>1
<1>11. Cardinality(free(i)) = n + 1
  <2>1. free(i) = free(j) \cup {i} /\ i \notin free(j)
    BY <1>8, <1>10
  <2>2. Cardinality(free(i)) = Cardinality(free(j)) + 1
    <3>1. IsFiniteSet(free(j))
      BY <1>3, <1>8
    <3> HIDE DEF free
    <3> QED  BY <2>1, <3>1, FS_AddElement, Zenon
  <2> HIDE DEF free
  <2> QED  BY <1>3, <1>8, <1>9, <2>2
<1>12. i \in free(b)
  BY <1>6, <1>8, <1>10
<1>13. a = CHOOSE x \in free(b) : Cardinality(free(x)) = n + 1
  BY <1>1, ListCardinality, Zenon DEF L!Fresh
<1>14. a \in free(b) /\ Cardinality(free(a)) = n + 1
  <2> HIDE DEF free
  <2> QED  BY <1>11, <1>12, <1>13, Zenon
<1> QED  BY <1>1, <1>14 DEF Address

LEMMA ListHeap ==
  ASSUME NEW h, NEW x
  PROVE  L!Without(h, x) = Without(h, x) /\ \A y : L!With(h, x, y) = With(h, x, y)
BY DEF L!Without, Without, L!With, With

(* node comes before pos, after pred *)
Linked(h, g, node, pos, pred) ==
  /\ g \in Heaps(Cells) /\ DOMAIN g = DOMAIN h \cup {node}
  /\ g[node].next = pos /\ g[node].prev = pred
  /\ \A a \in DOMAIN h : /\ g[a].next = IF a = pred THEN node ELSE h[a].next
                         /\ g[a].prev = IF a = pos THEN node ELSE h[a].prev
                         /\ a # pred /\ a # pos => g[a] = h[a]

LEMMA LinkBefore ==
  ASSUME NEW h \in Heaps(Cells), NEW node \in Address, node \notin DOMAIN h, NEW pos \in DOMAIN h,
         NEW pred \in DOMAIN h, pred = h[pos].prev, NEW x \in Item,
         NEW f, f = With(h, node, L!Node(Null, Null, x)), NEW g, g = L!link_before(f, pos, node)
  PROVE  Linked(h, g, node, pos, pred)
<1>1. PICK new : new = L!Node(Null, Null, x)
  OBVIOUS
<1>2. new \in Cells /\ new = [next |-> Null, prev |-> Null, val |-> x]
  BY <1>1 DEF L!Node, Cells
<1>3. Grown(Cells, h, node, new, f)
  BY <1>1, <1>2, HeapWith
<1>4. /\ f \in Heaps(Cells) /\ DOMAIN f = DOMAIN h \cup {node} /\ f[node] = new
      /\ (\A a \in DOMAIN h : f[a] = h[a] /\ a # node) /\ f[pos].prev = pred
  BY <1>3 DEF Grown
<1>5. DOMAIN h \subseteq Address /\ \A a \in DOMAIN h : h[a] \in Cells
  BY HeapType
<1>6. PICK r1, r2, f2 : r1 = [new EXCEPT !.prev = pred] /\ r2 = [r1 EXCEPT !.next = pos] /\ f2 = [f EXCEPT ![node] = r2]
  BY Zenon
<1>7. r2 \in Cells /\ r2.next = pos /\ r2.prev = pred
  BY <1>2, <1>5, <1>6, Zenon DEF Cells
<1>8. Changed(Cells, f, node, r2, f2)
  BY <1>4, <1>6, <1>7, HeapChanged, Zenon
<1>9. PICK r3, f3 : r3 = [f2[pred] EXCEPT !.next = node] /\ f3 = [f2 EXCEPT ![pred] = r3]
  BY Zenon
<1>10. f2[pred] = h[pred] /\ pred \in DOMAIN f2 /\ f2 \in Heaps(Cells) /\ pred # node
  BY <1>4, <1>8 DEF Changed
<1>11. r3 \in Cells /\ r3.next = node /\ r3.prev = h[pred].prev
  BY <1>5, <1>9, <1>10 DEF Cells
<1>12. Changed(Cells, f2, pred, r3, f3)
  BY <1>9, <1>10, <1>11, HeapChanged, Zenon
<1>13. PICK r4, f4 : r4 = [f3[pos] EXCEPT !.prev = node] /\ f4 = [f3 EXCEPT ![pos] = r4]
  BY Zenon
<1>14. pos \in DOMAIN f3 /\ f3 \in Heaps(Cells) /\ f3[pos] \in Cells /\ pos # node
  <2>1. pos \in DOMAIN f3 /\ f3 \in Heaps(Cells)
    BY <1>4, <1>8, <1>12 DEF Changed
  <2> QED  BY <1>4, <2>1, HeapType
<1>15. r4 \in Cells /\ r4.prev = node /\ r4.next = f3[pos].next
  BY <1>13, <1>14 DEF Cells
<1>16. Changed(Cells, f3, pos, r4, f4)
  BY <1>13, <1>14, <1>15, HeapChanged, Zenon
<1>17. g = f4
  BY <1>4, <1>6, <1>9, <1>10, <1>13, Zenon DEF L!link_before
<1>18. DOMAIN f4 = DOMAIN h \cup {node} /\ f4 \in Heaps(Cells)
  BY <1>4, <1>8, <1>12, <1>16 DEF Changed
<1>19. f4[node] = r2
  BY <1>4, <1>8, <1>10, <1>12, <1>14, <1>16 DEF Changed
<1>20. ASSUME NEW a \in DOMAIN h
       PROVE  /\ f4[a].next = IF a = pred THEN node ELSE h[a].next
              /\ f4[a].prev = IF a = pos THEN node ELSE h[a].prev
              /\ a # pred /\ a # pos => f4[a] = h[a]
  <2>1. f2[a] = h[a] /\ a \in DOMAIN f2 /\ a \in DOMAIN f3
    BY <1>4, <1>8, <1>12 DEF Changed
  <2>2. f3[a] = IF a = pred THEN r3 ELSE h[a]
    BY <1>12, <2>1 DEF Changed
  <2>3. f4[a] = IF a = pos THEN r4 ELSE f3[a]
    BY <1>16, <2>1 DEF Changed
  <2> QED  BY <1>11, <1>15, <2>2, <2>3
<1> QED  BY <1>7, <1>17, <1>18, <1>19, <1>20 DEF Linked

(* node, between pred and succ, is gone *)
Cut(h, g, node, pred, succ) ==
  /\ g \in Heaps(Cells) /\ DOMAIN g = DOMAIN h \ {node}
  /\ \A a \in DOMAIN g : /\ g[a].next = IF a = pred THEN succ ELSE h[a].next
                         /\ g[a].prev = IF a = succ THEN pred ELSE h[a].prev
                         /\ a # pred /\ a # succ => g[a] = h[a]

LEMMA UnlinkCuts ==
  ASSUME NEW h \in Heaps(Cells), NEW node \in DOMAIN h, NEW pred \in DOMAIN h, NEW succ \in DOMAIN h,
         pred = h[node].prev, succ = h[node].next, pred # node, succ # node,
         NEW f, f = L!unlink(h, node), NEW g, g = Without(f, {node})
  PROVE  Cut(h, g, node, pred, succ) /\ DOMAIN f = DOMAIN h
<1>1. DOMAIN h \subseteq Address /\ \A a \in DOMAIN h : h[a] \in Cells
  BY HeapType
<1>2. PICK r1, f1 : r1 = [h[pred] EXCEPT !.next = succ] /\ f1 = [h EXCEPT ![pred] = r1]
  BY Zenon
<1>3. r1 \in Cells /\ r1.next = succ /\ r1.prev = h[pred].prev
  BY <1>1, <1>2 DEF Cells
<1>4. Changed(Cells, h, pred, r1, f1)
  BY <1>2, <1>3, HeapChanged, Zenon
<1>5. PICK r2, f2 : r2 = [f1[succ] EXCEPT !.prev = pred] /\ f2 = [f1 EXCEPT ![succ] = r2]
  BY Zenon
<1>6. succ \in DOMAIN f1 /\ f1 \in Heaps(Cells) /\ f1[succ] \in Cells
  <2>1. succ \in DOMAIN f1 /\ f1 \in Heaps(Cells)
    BY <1>4 DEF Changed
  <2> QED  BY <2>1, HeapType
<1>7. r2 \in Cells /\ r2.prev = pred /\ r2.next = f1[succ].next
  BY <1>1, <1>5, <1>6 DEF Cells
<1>8. Changed(Cells, f1, succ, r2, f2)
  BY <1>5, <1>6, <1>7, HeapChanged, Zenon
<1>9. f = f2
  BY <1>2, <1>5 DEF L!unlink
<1>10. f2 \in Heaps(Cells) /\ DOMAIN f2 = DOMAIN h
  BY <1>4, <1>8 DEF Changed
<1>11. Shrunk(Cells, f, {node}, g)
  BY <1>9, <1>10, HeapWithout
<1>12. ASSUME NEW a \in DOMAIN g
       PROVE  /\ g[a].next = IF a = pred THEN succ ELSE h[a].next
              /\ g[a].prev = IF a = succ THEN pred ELSE h[a].prev
              /\ a # pred /\ a # succ => g[a] = h[a]
  <2>1. a \in DOMAIN h /\ g[a] = f2[a]
    BY <1>9, <1>10, <1>11 DEF Shrunk
  <2>2. f1[a] = IF a = pred THEN r1 ELSE h[a]
    BY <1>4, <2>1 DEF Changed
  <2>3. f2[a] = IF a = succ THEN r2 ELSE f1[a]
    BY <1>4, <1>8, <2>1 DEF Changed
  <2> QED  BY <1>3, <1>7, <2>1, <2>2, <2>3
<1> QED  BY <1>9, <1>10, <1>11, <1>12, Zenon DEF Cut, Shrunk

(* the nodes with one more at k, which is before pos and behind pred *)
Inserted(c, n, k, node) == [i \in 0 .. n + 1 |-> IF i < k THEN c[i] ELSE IF i = k THEN node ELSE c[i - 1]]
Gap(c, n, k, pos, pred) == k \in 1 .. n + 1 /\ pos = (IF k <= n THEN c[k] ELSE c[0]) /\ pred = c[k - 1]

RingWith(g, d, c, n, node) == Ring(g, d, n + 1) /\ On(d) = On(c) \cup {node} /\ d[0] = c[0]

LEMMA RingInserted ==
  ASSUME NEW h, NEW c, NEW n, Ring(h, c, n), NEW node, node \notin DOMAIN h, NEW k, NEW pos, NEW pred, Gap(c, n, k, pos, pred),
         NEW g, Linked(h, g, node, pos, pred),
         NEW d, d = Inserted(c, n, k, node)
  PROVE  RingWith(g, d, c, n, node)
<1>0. k \in 1 .. n + 1 /\ pos = (IF k <= n THEN c[k] ELSE c[0]) /\ pred = c[k - 1]
  BY DEF Gap
<1>1. n \in Nat /\ k \in Nat /\ k >= 1 /\ k <= n + 1 /\ n + 1 \in Nat
  BY <1>0 DEF Ring
<1>2. /\ \A i \in 0 .. n : c[i] \in DOMAIN h /\ c[i] # node
      /\ \A i, j \in 0 .. n : c[i] = c[j] => i = j
      /\ \A i \in 0 .. n - 1 : h[c[i]].next = c[i + 1] /\ h[c[i + 1]].prev = c[i]
      /\ h[c[n]].next = c[0] /\ h[c[0]].prev = c[n]
  <2>1. \A i \in 0 .. n : c[i] \in DOMAIN h /\ c[i] # node
    BY RingOn
  <2>2. /\ \A i, j \in 0 .. n : c[i] = c[j] => i = j
        /\ \A i \in 0 .. n : h[c[i]].next = c[After(n, i)] /\ h[c[After(n, i)]].prev = c[i]
    BY Zenon DEF Ring
  <2>3. ASSUME NEW i \in 0 .. n - 1 PROVE h[c[i]].next = c[i + 1] /\ h[c[i + 1]].prev = c[i]
    <3>1. i \in 0 .. n /\ After(n, i) = i + 1
      BY <1>1 DEF After
    <3> QED  BY <2>2, <3>1
  <2>4. After(n, n) = 0 /\ n \in 0 .. n
    BY <1>1 DEF After
  <2>5. h[c[n]].next = c[0] /\ h[c[0]].prev = c[n]
    BY <2>2, <2>4
  <2> QED  BY <2>1, <2>2, <2>3, <2>5
<1>3. /\ DOMAIN d = 0 .. n + 1 /\ d = [i \in 0 .. n + 1 |-> d[i]]
      /\ \A i \in 0 .. n + 1 : d[i] = IF i < k THEN c[i] ELSE IF i = k THEN node ELSE c[i - 1]
  BY DEF Inserted
<1>4. /\ \A i \in 0 .. k - 1 : i \in 0 .. n /\ i \in 0 .. n + 1 /\ d[i] = c[i]
      /\ d[k] = node /\ k \in 0 .. n + 1
      /\ \A i \in k .. n : i \in 0 .. n /\ i + 1 \in 0 .. n + 1 /\ d[i + 1] = c[i]
  <2>1. ASSUME NEW i \in k .. n PROVE i \in 0 .. n /\ i + 1 \in 0 .. n + 1 /\ d[i + 1] = c[i]
    <3>1. i + 1 \in 0 .. n + 1 /\ ~ (i + 1 < k) /\ i + 1 # k /\ (i + 1) - 1 = i /\ i \in 0 .. n
      BY <1>1
    <3> QED  BY <1>3, <3>1
  <2>2. ASSUME NEW i \in 0 .. k - 1 PROVE i \in 0 .. n /\ i \in 0 .. n + 1 /\ d[i] = c[i]
    <3>1. i \in 0 .. n /\ i \in 0 .. n + 1 /\ i < k
      BY <1>1
    <3> QED  BY <1>3, <3>1
  <2>3. d[k] = node /\ k \in 0 .. n + 1
    <3>1. k \in 0 .. n + 1 /\ ~ (k < k)
      BY <1>1
    <3> QED  BY <1>3, <3>1
  <2> QED  BY <2>1, <2>2, <2>3
<1>5. ASSUME NEW j \in 0 .. n + 1, j # k
      PROVE  \E i \in 0 .. n : d[j] = c[i] /\ j = IF i < k THEN i ELSE i + 1
  <2>1. CASE j < k
    <3>1. j \in 0 .. n /\ j \in 0 .. k - 1
      BY <1>1, <2>1
    <3> QED  BY <1>4, <2>1, <3>1
  <2>2. CASE j > k
    <3>1. PICK i : i = j - 1
      OBVIOUS
    <3>2. i \in k .. n /\ i \in 0 .. n /\ i + 1 = j /\ ~ (i < k)
      BY <1>1, <2>2, <3>1
    <3>3. d[i + 1] = c[i]
      BY <1>4, <3>2
    <3> QED  BY <3>2, <3>3
  <2> QED  BY <1>1, <1>5, <2>1, <2>2
<1>6. On(d) = On(c) \cup {node}
  <2>1. ASSUME NEW i \in 0 .. n PROVE \E j \in 0 .. n + 1 : d[j] = c[i]
    <3>1. CASE i \in 0 .. k - 1
      BY <1>4, <3>1
    <3>2. CASE i \in k .. n
      BY <1>4, <3>2
    <3> QED  BY <1>1, <3>1, <3>2
  <2>2. \A j \in 0 .. n + 1 : d[j] = node \/ \E i \in 0 .. n : d[j] = c[i]
    BY <1>4, <1>5
  <2>3. On(c) = {c[i] : i \in 0 .. n} /\ On(d) = {d[i] : i \in 0 .. n + 1}
    BY <1>3, Zenon DEF On, Ring
  <2>4. ASSUME NEW a \in On(d) PROVE a \in On(c) \cup {node}
    <3>1. PICK j \in 0 .. n + 1 : a = d[j]
      BY <2>3, <2>4
    <3> QED  BY <2>2, <2>3, <3>1
  <2>5. ASSUME NEW a \in On(c) PROVE a \in On(d)
    <3>1. PICK i \in 0 .. n : a = c[i]
      BY <2>3, <2>5
    <3>2. PICK j \in 0 .. n + 1 : d[j] = c[i]
      BY <2>1
    <3> QED  BY <2>3, <3>1, <3>2
  <2>6. node \in On(d)
    BY <1>4, <2>3
  <2> QED  BY <2>4, <2>5, <2>6
<1>7. ASSUME NEW i \in 0 .. n + 1, NEW j \in 0 .. n + 1, d[i] = d[j] PROVE i = j
  <2>1. CASE i = k
    <3>1. d[j] = node
      BY <1>4, <1>7, <2>1
    <3>2. j = k
      BY <1>2, <1>5, <3>1
    <3> QED  BY <2>1, <3>2
  <2>2. CASE j = k
    <3>1. d[i] = node
      BY <1>4, <1>7, <2>2
    <3>2. i = k
      BY <1>2, <1>5, <3>1
    <3> QED  BY <2>2, <3>2
  <2>3. CASE i # k /\ j # k
    <3>1. PICK x \in 0 .. n : d[i] = c[x] /\ i = IF x < k THEN x ELSE x + 1
      BY <1>5, <2>3
    <3>2. PICK y \in 0 .. n : d[j] = c[y] /\ j = IF y < k THEN y ELSE y + 1
      BY <1>5, <2>3
    <3>3. x = y
      BY <1>2, <1>7, <3>1, <3>2, Zenon
    <3> QED  BY <3>1, <3>2, <3>3
  <2> QED  BY <2>1, <2>2, <2>3
<1>8. /\ g[node].next = pos /\ g[node].prev = pred /\ DOMAIN g = DOMAIN h \cup {node}
      /\ \A i \in 0 .. n : /\ g[c[i]].next = IF c[i] = pred THEN node ELSE h[c[i]].next
                           /\ g[c[i]].prev = IF c[i] = pos THEN node ELSE h[c[i]].prev
  BY <1>2 DEF Linked
<1>9. /\ k - 1 \in 0 .. n /\ k - 1 \in 0 .. k - 1 /\ d[k - 1] = pred
      /\ \A i \in 0 .. n : c[i] = pred <=> i = k - 1
  <2>1. k - 1 \in 0 .. n /\ k - 1 \in 0 .. k - 1
    BY <1>1
  <2> QED  BY <1>0, <1>2, <1>4, <2>1
<1>10. \A i \in 0 .. n : c[i] = pos <=> i = IF k <= n THEN k ELSE 0
  <2>1. CASE k <= n
    <3>1. pos = c[k] /\ k \in 0 .. n
      BY <1>0, <1>1, <2>1
    <3> QED  BY <1>2, <2>1, <3>1
  <2>2. CASE ~ (k <= n)
    <3>1. pos = c[0] /\ 0 \in 0 .. n
      BY <1>0, <1>1, <2>2
    <3> QED  BY <1>2, <2>2, <3>1
  <2> QED  BY <2>1, <2>2
<1>11. ASSUME NEW i \in 0 .. n + 1
       PROVE  g[d[i]].next = d[After(n + 1, i)] /\ g[d[After(n + 1, i)]].prev = d[i]
  <2>1. CASE i \in 0 .. k - 2
    <3>1. After(n + 1, i) = i + 1 /\ i \in 0 .. n - 1 /\ i \in 0 .. k - 1 /\ i + 1 \in 0 .. k - 1 /\ i + 1 \in 0 .. n
          /\ i # k - 1 /\ i + 1 # 0 /\ i + 1 # k
      BY <1>1, <2>1 DEF After
    <3>2. d[i] = c[i] /\ d[i + 1] = c[i + 1] /\ i \in 0 .. n
      BY <1>4, <3>1
    <3>3. g[c[i]].next = c[i + 1]
      BY <1>2, <1>8, <1>9, <3>1, <3>2
    <3>4. c[i + 1] # pos
      BY <1>10, <3>1
    <3>5. g[c[i + 1]].prev = c[i]
      BY <1>2, <1>8, <3>1, <3>4
    <3> QED  BY <3>1, <3>2, <3>3, <3>5
  <2>2. CASE i = k - 1
    <3>1. After(n + 1, i) = k
      BY <1>1, <2>2 DEF After
    <3> QED  BY <1>4, <1>8, <1>9, <2>2, <3>1
  <2>3. CASE i = k /\ k <= n
    <3>1. After(n + 1, i) = k + 1 /\ k \in k .. n /\ k \in 0 .. n
      BY <1>1, <2>3 DEF After
    <3>2. d[k + 1] = c[k] /\ pos = c[k] /\ d[k] = node
      BY <1>0, <1>4, <2>3, <3>1
    <3> QED  BY <1>8, <2>3, <3>1, <3>2
  <2>4. CASE i = k /\ k = n + 1
    <3>1. After(n + 1, i) = 0 /\ 0 \in 0 .. k - 1 /\ 0 \in 0 .. n /\ ~ (k <= n)
      BY <1>1, <2>4 DEF After
    <3>2. d[0] = c[0] /\ pos = c[0] /\ d[k] = node
      BY <1>0, <1>4, <2>4, <3>1
    <3> QED  BY <1>8, <2>4, <3>1, <3>2
  <2>5. ASSUME NEW x \in k .. n - 1, i = x + 1
        PROVE  g[d[i]].next = d[After(n + 1, i)] /\ g[d[After(n + 1, i)]].prev = d[i]
    <3>1. After(n + 1, i) = (x + 1) + 1 /\ x \in k .. n /\ x + 1 \in k .. n /\ x \in 0 .. n - 1 /\ x \in 0 .. n
          /\ x + 1 \in 0 .. n /\ x # k - 1 /\ x + 1 # k /\ x + 1 # 0 /\ k <= n
      BY <1>1, <2>5 DEF After
    <3>2. d[i] = c[x] /\ d[(x + 1) + 1] = c[x + 1]
      BY <1>4, <2>5, <3>1
    <3>3. g[c[x]].next = c[x + 1]
      BY <1>2, <1>8, <1>9, <3>1
    <3>4. c[x + 1] # pos
      BY <1>10, <3>1
    <3>5. g[c[x + 1]].prev = c[x]
      BY <1>2, <1>8, <3>1, <3>4
    <3> QED  BY <3>1, <3>2, <3>3, <3>5
  <2>6. CASE i = n + 1 /\ k <= n
    <3>1. After(n + 1, i) = 0 /\ n \in k .. n /\ n \in 0 .. n /\ 0 \in 0 .. k - 1 /\ 0 \in 0 .. n /\ n # k - 1 /\ 0 # k
      BY <1>1, <2>6 DEF After
    <3>2. d[n + 1] = c[n] /\ d[0] = c[0]
      BY <1>4, <3>1
    <3>3. c[n] # pred /\ c[0] # pos
      BY <1>9, <1>10, <2>6, <3>1
    <3>4. g[c[n]].next = c[0] /\ g[c[0]].prev = c[n]
      BY <1>2, <1>8, <3>1, <3>3
    <3> QED  BY <2>6, <3>1, <3>2, <3>4
  <2>7. CASE i > k /\ i < n + 1
    <3>1. PICK x : x = i - 1
      OBVIOUS
    <3>2. x \in k .. n - 1 /\ i = x + 1
      BY <1>1, <2>7, <3>1
    <3> QED  BY <2>5, <3>2
  <2>8. i \in 0 .. k - 2 \/ i = k - 1 \/ i = k \/ (i > k /\ i < n + 1) \/ i = n + 1
    BY <1>1
  <2>9. (i = k => k <= n \/ k = n + 1) /\ (i = n + 1 => i = k \/ k <= n)
    BY <1>1
  <2> QED  BY <2>1, <2>2, <2>3, <2>4, <2>6, <2>7, <2>8, <2>9
<1>12. On(d) \subseteq DOMAIN g
  <2>1. On(c) \subseteq DOMAIN h
    BY DEF Ring
  <2> QED  BY <1>6, <1>8, <2>1
<1>13. d[0] = c[0]
  <2>1. 0 \in 0 .. k - 1
    BY <1>1
  <2> QED  BY <1>4, <2>1
<1> QED  BY <1>1, <1>3, <1>6, <1>7, <1>11, <1>12, <1>13, Zenon DEF Ring, RingWith

(* the nodes without the one at k *)
Erased(c, n, k) == [i \in 0 .. n - 1 |-> IF i < k THEN c[i] ELSE c[i + 1]]

RingWithout(g, d, c, n, node) == Ring(g, d, n - 1) /\ On(d) = On(c) \ {node} /\ d[0] = c[0]

Neighbours(c, n, k, node, pred, succ) == k \in 1 .. n /\ node = c[k] /\ pred = c[k - 1] /\ succ = c[After(n, k)]

LEMMA RingErased ==
  ASSUME NEW h, NEW c, NEW n, Ring(h, c, n), NEW k, NEW node, NEW pred, NEW succ,
         Neighbours(c, n, k, node, pred, succ),
         NEW g, Cut(h, g, node, pred, succ),
         NEW d, d = Erased(c, n, k)
  PROVE  RingWithout(g, d, c, n, node)
<1>0. k \in 1 .. n /\ node = c[k] /\ pred = c[k - 1] /\ succ = c[After(n, k)]
  BY DEF Neighbours
<1>1. n \in Nat /\ k \in Nat /\ k >= 1 /\ k <= n /\ n - 1 \in Nat
  BY <1>0 DEF Ring
<1>2. /\ \A i \in 0 .. n : c[i] \in DOMAIN h
      /\ \A i, j \in 0 .. n : c[i] = c[j] => i = j
      /\ \A i \in 0 .. n - 1 : h[c[i]].next = c[i + 1] /\ h[c[i + 1]].prev = c[i]
      /\ h[c[n]].next = c[0] /\ h[c[0]].prev = c[n]
  <2>1. \A i \in 0 .. n : c[i] \in DOMAIN h
    BY RingOn
  <2>2. /\ \A i, j \in 0 .. n : c[i] = c[j] => i = j
        /\ \A i \in 0 .. n : h[c[i]].next = c[After(n, i)] /\ h[c[After(n, i)]].prev = c[i]
    BY Zenon DEF Ring
  <2>3. ASSUME NEW i \in 0 .. n - 1 PROVE h[c[i]].next = c[i + 1] /\ h[c[i + 1]].prev = c[i]
    <3>1. i \in 0 .. n /\ After(n, i) = i + 1
      BY <1>1 DEF After
    <3> QED  BY <2>2, <3>1
  <2>4. After(n, n) = 0 /\ n \in 0 .. n
    BY <1>1 DEF After
  <2>5. h[c[n]].next = c[0] /\ h[c[0]].prev = c[n]
    BY <2>2, <2>4
  <2> QED  BY <2>1, <2>2, <2>3, <2>5
<1>3. /\ DOMAIN d = 0 .. n - 1 /\ d = [i \in 0 .. n - 1 |-> d[i]]
      /\ \A i \in 0 .. n - 1 : d[i] = IF i < k THEN c[i] ELSE c[i + 1]
  BY DEF Erased
<1>4. /\ \A i \in 0 .. k - 1 : i \in 0 .. n /\ i \in 0 .. n - 1 /\ d[i] = c[i]
      /\ \A i \in k + 1 .. n : i \in 0 .. n /\ i - 1 \in 0 .. n - 1 /\ d[i - 1] = c[i]
  <2>1. ASSUME NEW i \in k + 1 .. n PROVE i \in 0 .. n /\ i - 1 \in 0 .. n - 1 /\ d[i - 1] = c[i]
    <3>1. i - 1 \in 0 .. n - 1 /\ ~ (i - 1 < k) /\ (i - 1) + 1 = i /\ i \in 0 .. n
      BY <1>1
    <3> QED  BY <1>3, <3>1
  <2>2. ASSUME NEW i \in 0 .. k - 1 PROVE i \in 0 .. n /\ i \in 0 .. n - 1 /\ d[i] = c[i]
    <3>1. i \in 0 .. n /\ i \in 0 .. n - 1 /\ i < k
      BY <1>1
    <3> QED  BY <1>3, <3>1
  <2> QED  BY <2>1, <2>2
<1>5. ASSUME NEW j \in 0 .. n - 1
      PROVE  \E i \in 0 .. n : d[j] = c[i] /\ i # k /\ i = IF j < k THEN j ELSE j + 1
  <2>1. CASE j < k
    <3>1. j \in 0 .. n /\ j \in 0 .. k - 1 /\ j # k
      BY <1>1, <2>1
    <3> QED  BY <1>4, <2>1, <3>1
  <2>2. CASE ~ (j < k)
    <3>1. PICK i : i = j + 1
      OBVIOUS
    <3>2. i \in 0 .. n /\ i # k
      BY <1>1, <2>2, <3>1
    <3> QED  BY <1>3, <2>2, <3>1, <3>2
  <2> QED  BY <2>1, <2>2
<1>6. On(d) = On(c) \ {node}
  <2>1. k \in 0 .. n
    BY <1>1
  <2>2. On(c) = {c[i] : i \in 0 .. n} /\ On(d) = {d[i] : i \in 0 .. n - 1}
    BY <1>3, Zenon DEF On, Ring
  <2>3. ASSUME NEW a \in On(d) PROVE a \in On(c) \ {node}
    <3>1. PICK j \in 0 .. n - 1 : a = d[j]
      BY <2>2, <2>3
    <3>2. PICK i \in 0 .. n : d[j] = c[i] /\ i # k
      BY <1>5
    <3> QED  BY <1>0, <1>2, <2>1, <2>2, <3>1, <3>2
  <2>4. ASSUME NEW a \in On(c), a # node PROVE a \in On(d)
    <3>1. PICK i \in 0 .. n : a = c[i]
      BY <2>2, <2>4
    <3>2. CASE i \in 0 .. k - 1
      BY <1>4, <2>2, <3>1, <3>2
    <3>3. CASE i \in k + 1 .. n
      BY <1>4, <2>2, <3>1, <3>3
    <3> QED  BY <1>0, <1>1, <2>4, <3>1, <3>2, <3>3
  <2> QED  BY <2>3, <2>4
<1>7. ASSUME NEW i \in 0 .. n - 1, NEW j \in 0 .. n - 1, d[i] = d[j] PROVE i = j
  <2>1. PICK x \in 0 .. n : d[i] = c[x] /\ x # k /\ x = IF i < k THEN i ELSE i + 1
    BY <1>5
  <2>2. PICK y \in 0 .. n : d[j] = c[y] /\ y # k /\ y = IF j < k THEN j ELSE j + 1
    BY <1>5
  <2>3. x = y
    BY <1>2, <1>7, <2>1, <2>2, Zenon
  <2> QED  BY <1>1, <2>1, <2>2, <2>3
<1>8. /\ DOMAIN g = DOMAIN h \ {node}
      /\ \A a \in DOMAIN g : /\ g[a].next = IF a = pred THEN succ ELSE h[a].next
                             /\ g[a].prev = IF a = succ THEN pred ELSE h[a].prev
  BY DEF Cut
<1>9. /\ k - 1 \in 0 .. n /\ k - 1 \in 0 .. k - 1 /\ d[k - 1] = pred
      /\ \A i \in 0 .. n : c[i] = pred <=> i = k - 1
  <2>1. k - 1 \in 0 .. n /\ k - 1 \in 0 .. k - 1
    BY <1>1
  <2> QED  BY <1>0, <1>2, <1>4, <2>1
<1>10. /\ After(n, k) \in 0 .. n /\ After(n, k) = IF k = n THEN 0 ELSE k + 1
       /\ \A i \in 0 .. n : c[i] = succ <=> i = After(n, k)
  <2>1. After(n, k) \in 0 .. n /\ After(n, k) = IF k = n THEN 0 ELSE k + 1
    BY <1>1 DEF After
  <2> QED  BY <1>0, <1>2, <2>1
<1>11. \A i \in 0 .. n : i # k => c[i] \in DOMAIN g
  <2>1. k \in 0 .. n
    BY <1>1
  <2> QED  BY <1>0, <1>2, <1>8, <2>1
<1>12. ASSUME NEW i \in 0 .. n - 1
       PROVE  g[d[i]].next = d[After(n - 1, i)] /\ g[d[After(n - 1, i)]].prev = d[i]
  <2>1. CASE i \in 0 .. k - 2
    <3>1. After(n - 1, i) = i + 1 /\ i \in 0 .. k - 1 /\ i + 1 \in 0 .. k - 1 /\ i + 1 \in 0 .. n /\ i \in 0 .. n
          /\ i # k - 1 /\ i + 1 # 0 /\ i + 1 # k + 1 /\ i # k /\ i + 1 # k
      BY <1>1, <2>1 DEF After
    <3>2. d[i] = c[i] /\ d[i + 1] = c[i + 1] /\ c[i] \in DOMAIN g /\ c[i + 1] \in DOMAIN g
      BY <1>4, <1>11, <3>1
    <3>3. g[c[i]].next = c[i + 1]
      BY <1>2, <1>8, <1>9, <3>1, <3>2
    <3>4. c[i + 1] # succ
      BY <1>10, <3>1
    <3>5. g[c[i + 1]].prev = c[i]
      BY <1>2, <1>8, <3>1, <3>2, <3>4
    <3> QED  BY <3>1, <3>2, <3>3, <3>5
  <2>2. CASE i = k - 1
    <3>1. d[After(n - 1, i)] = succ
      <4>1. CASE k = n
        <5>1. After(n - 1, i) = 0 /\ 0 \in 0 .. k - 1 /\ After(n, k) = 0
          BY <1>1, <2>2, <4>1 DEF After
        <5> QED  BY <1>0, <1>4, <5>1
      <4>2. CASE k # n
        <5>1. After(n - 1, i) = k /\ k \in 0 .. n - 1 /\ ~ (k < k) /\ After(n, k) = k + 1
          BY <1>1, <2>2, <4>2 DEF After
        <5> QED  BY <1>0, <1>3, <5>1
      <4> QED  BY <4>1, <4>2
    <3>2. pred \in DOMAIN g /\ succ \in DOMAIN g
      <4>1. k - 1 # k /\ After(n, k) # k
        BY <1>1, <1>10
      <4> QED  BY <1>9, <1>10, <1>11, <4>1
    <3> QED  BY <1>8, <1>9, <2>2, <3>1, <3>2
  <2>3. CASE i \in k .. n - 2
    <3>1. After(n - 1, i) = i + 1 /\ i + 1 \in 0 .. n - 1 /\ i + 1 \in 0 .. n /\ (i + 1) + 1 \in 0 .. n
          /\ i + 1 # k /\ (i + 1) + 1 # k /\ i + 1 # k - 1 /\ (i + 1) + 1 # k + 1 /\ (i + 1) + 1 # 0
          /\ ~ (i < k) /\ ~ (i + 1 < k)
      BY <1>1, <2>3 DEF After
    <3>2. d[i] = c[i + 1] /\ d[i + 1] = c[(i + 1) + 1] /\ c[i + 1] \in DOMAIN g /\ c[(i + 1) + 1] \in DOMAIN g
      BY <1>3, <1>11, <3>1
    <3>3. g[c[i + 1]].next = c[(i + 1) + 1]
      BY <1>2, <1>8, <1>9, <3>1, <3>2
    <3>4. c[(i + 1) + 1] # succ
      BY <1>10, <3>1
    <3>5. g[c[(i + 1) + 1]].prev = c[i + 1]
      BY <1>2, <1>8, <3>1, <3>2, <3>4
    <3> QED  BY <3>1, <3>2, <3>3, <3>5
  <2>4. CASE i = n - 1 /\ k <= n - 1
    <3>1. After(n - 1, i) = 0 /\ 0 \in 0 .. k - 1 /\ ~ (i < k) /\ i + 1 = n /\ n \in 0 .. n /\ 0 \in 0 .. n
          /\ n # k - 1 /\ n # k /\ 0 # k /\ After(n, k) # 0
      BY <1>1, <1>10, <2>4 DEF After
    <3>2. d[i] = c[n] /\ d[0] = c[0] /\ c[n] \in DOMAIN g /\ c[0] \in DOMAIN g
      BY <1>3, <1>4, <1>11, <3>1, Zenon
    <3>3. c[n] # pred /\ c[0] # succ
      BY <1>9, <1>10, <3>1
    <3> QED  BY <1>2, <1>8, <3>1, <3>2, <3>3
  <2>5. i \in 0 .. k - 2 \/ i = k - 1 \/ i \in k .. n - 2 \/ (i = n - 1 /\ k <= n - 1)
    BY <1>1
  <2> QED  BY <2>1, <2>2, <2>3, <2>4, <2>5
<1>13. On(d) \subseteq DOMAIN g
  <2>1. On(c) \subseteq DOMAIN h
    BY DEF Ring
  <2> QED  BY <1>6, <1>8, <2>1
<1>14. d[0] = c[0]
  <2>1. 0 \in 0 .. k - 1
    BY <1>1
  <2> QED  BY <1>4, <2>1
<1> QED  BY <1>1, <1>3, <1>6, <1>7, <1>12, <1>13, <1>14, Zenon DEF Ring, RingWithout

(* the nodes of a list with the record r *)
Described(h, r, c) ==
  /\ r \in ListRecords
  /\ \/ r.sentinel = Null /\ r.size = 0 /\ DOMAIN c = {}
     \/ r.sentinel # Null /\ Ring(h, c, r.size) /\ c[0] = r.sentinel

LEMMA EmptyMatches ==
  ASSUME NEW d, DOMAIN d = {}
  PROVE  Matches(Absent, d) /\ Matches(L!Empty, d) /\ L!Empty \in ListRecords
BY DEF Matches, L!Empty, ListRecords

LEMMA ListOf ==
  ASSUME NEW s, NEW m, NEW h, h = m.heap, NEW cs, ListsIn(s, m, cs), NEW v \in Vec, s[v] # Absent,
         NEW r, r = s[v], NEW c, c = cs[v]
  PROVE  Described(h, r, c)
<1>1. Matches(r, c) /\ IsCircle(h, c)
  BY DEF ListsIn, Circles
<1>2. CASE DOMAIN c = {} /\ r \in ListRecords /\ r.sentinel = Null /\ r.size = 0
  BY <1>2 DEF Described
<1>3. CASE r \in ListRecords /\ r.sentinel # Null /\ DOMAIN c = 0 .. r.size /\ c[0] = r.sentinel
  <2>1. r.size \in Nat
    BY <1>3 DEF ListRecords
  <2>2. 0 \in DOMAIN c
    BY <1>3, <2>1
  <2>3. PICK n : Ring(h, c, n)
    BY <1>1, <2>2 DEF IsCircle
  <2>4. n \in Nat /\ 0 .. n = 0 .. r.size
    BY <1>3, <2>3 DEF Ring
  <2>5. n \in 0 .. r.size /\ r.size \in 0 .. n
    BY <2>1, <2>4
  <2>6. n = r.size
    BY <2>1, <2>4, <2>5
  <2> QED  BY <1>3, <2>3, <2>6 DEF Described
<1> QED  BY <1>1, <1>2, <1>3 DEF Matches

LEMMA ListMatches ==
  ASSUME NEW h, NEW r, NEW c, Described(h, r, c)
  PROVE  Matches(r, c) /\ IsCircle(h, c)
BY DEF Described, Matches, IsCircle, Ring

LEMMA ListKept ==
  ASSUME NEW h, NEW r, NEW c, Described(h, r, c), NEW g, \A a \in On(c) : a \in DOMAIN g /\ g[a] = h[a]
  PROVE  Described(g, r, c)
<1>1. Ring(h, c, r.size) => Ring(g, c, r.size)
  BY RingKept
<1> QED  BY <1>1 DEF Described

LEMMA ListDestroys ==
  ASSUME NEW m \in Memory(Cells), NEW h, h = m.heap, NEW r, NEW c, Described(h, r, c),
         NEW q, q = L!destroy(m, r.sentinel, r.size)
  PROVE  Destroyed(h, On(c), q)
<1>1. CASE r.sentinel = Null /\ DOMAIN c = {}
  <2>1. q = m
    BY <1>1 DEF L!destroy
  <2>2. On(c) = {}
    BY <1>1 DEF On
  <2>3. h \in Heaps(Cells)
    BY DEF Memory
  <2>4. h = [a \in DOMAIN h |-> h[a]]
    BY <2>3, HeapType
  <2>5. Without(h, On(c)) = h
    BY <2>2, <2>4 DEF Without
  <2>6. m = [heap |-> h, sound |-> TRUE]
    BY Zenon DEF Memory
  <2> QED  BY <2>1, <2>5, <2>6 DEF Destroyed
<1>2. CASE Ring(h, c, r.size) /\ c[0] = r.sentinel
  <2>1. PICK n, a : n = r.size /\ a = r.sentinel
    OBVIOUS
  <2>2. Ring(h, c, n) /\ a = c[0] /\ q = L!destroy(m, a, n)
    BY <1>2, <2>1
  <2>3. Path(h, c, n)
    BY <2>2, RingIsPath
  <2> QED  BY <2>2, <2>3, ListDestroyed
<1> QED  BY <1>1, <1>2 DEF Described

LEMMA ListInit ==
  ASSUME L!Init
  PROVE  ListsOK
<1>1. PICK d : d = [i \in {} |-> Null]
  OBVIOUS
<1>2. PICK h : h = [a \in {} |-> Null]
  OBVIOUS
<1>3. PICK cs : cs = [v \in Vec |-> d]
  BY Zenon
<1>4. obj = [v \in Vec |-> Absent] /\ mem = [heap |-> h, sound |-> TRUE]
  BY <1>2 DEF L!Init
<1>5. h \in Heaps(Cells) /\ DOMAIN h = {} /\ DOMAIN d = {}
  BY <1>1, <1>2, HeapEmpty
<1>6. On(d) = {} /\ IsCircle(h, d) /\ \A v \in Vec : cs[v] = d
  BY <1>3, <1>5 DEF On, IsCircle
<1>7. Circles(h, cs)
  BY <1>3, <1>5, <1>6 DEF Circles
<1>8. mem \in Memory(Cells) /\ mem.heap = h
  BY <1>4, <1>5, MemoryIs
<1>9. \A v \in Vec : Matches(obj[v], cs[v])
  BY <1>4, <1>5, <1>6, EmptyMatches
<1> QED  BY <1>4, <1>7, <1>8, <1>9 DEF ListsOK, ListsIn

(* v gets another record and other nodes *)
LEMMA ListGets ==
  ASSUME NEW s, NEW m, NEW cs, ListsIn(s, m, cs), NEW v \in Vec, NEW r \in ListRecords \cup {Absent}, NEW d, Matches(r, d),
         NEW g \in Heaps(Cells), NEW t, t = [cs EXCEPT ![v] = d], Circles(g, t),
         NEW x, x = [s EXCEPT ![v] = r], NEW q \in Memory(Cells), q.heap = g
  PROVE  ListsIn(x, q, t)
<1>1. s \in [Vec -> ListRecords \cup {Absent}] /\ cs = [u \in Vec |-> cs[u]] /\ \A u \in Vec : Matches(s[u], cs[u])
  BY DEF ListsIn, Circles
<1>2. x \in [Vec -> ListRecords \cup {Absent}]
  BY <1>1
<1>4. ASSUME NEW u \in Vec PROVE Matches(x[u], t[u])
  <2>1. CASE u = v
    <3>1. x[u] = r /\ t[u] = d
      BY <1>1, <2>1
    <3> QED  BY <3>1
  <2>2. CASE u # v
    <3>1. x[u] = s[u] /\ t[u] = cs[u]
      BY <1>1, <2>2
    <3> QED  BY <1>1, <3>1
  <2> QED  BY <2>1, <2>2
<1> QED  BY <1>2, <1>4 DEF ListsIn

LEMMA ListThrow ==
  ASSUME ListsOK, NEW v \in Vec, obj' = [obj EXCEPT ![v] = obj[v]], mem' = mem
  PROVE  ListsOK'
<1>1. PICK cs : ListsIn(obj, mem, cs)
  BY DEF ListsOK
<1>2. obj' = obj
  BY <1>1 DEF ListsIn
<1> QED  BY <1>1, <1>2 DEF ListsOK

(* the nodes of v, if any, are deleted, and those of d have come *)
LEMMA ListReplaced ==
  ASSUME NEW cs, ListsIn(obj, mem, cs), NEW v \in Vec, NEW h, h = mem.heap, NEW f \in Heaps(Cells), NEW d,
         DOMAIN f = DOMAIN h \cup On(d), On(d) \cap DOMAIN h = {}, \A a \in DOMAIN h : f[a] = h[a],
         NEW r \in ListRecords \cup {Absent}, Matches(r, d), IsCircle(f, d),
         NEW g, g = Without(f, On(cs[v])),
         obj' = [obj EXCEPT ![v] = r], mem' = [heap |-> g, sound |-> TRUE]
  PROVE  ListsOK'
<1>1. Circles(h, cs)
  BY DEF ListsIn
<1>2. PICK X : X = On(cs[v])
  OBVIOUS
<1>3. X \subseteq DOMAIN h
  BY <1>1, <1>2, CircleOn DEF Circles
<1>4. Shrunk(Cells, f, X, g)
  BY <1>2, HeapWithout
<1>5. g \in Heaps(Cells) /\ DOMAIN g = DOMAIN f \ X /\ \A a \in DOMAIN f \ X : g[a] = f[a]
  BY <1>4 DEF Shrunk
<1>6. PICK Y : Y = On(d)
  OBVIOUS
<1>7. Traded(h, X, Y, g)
  BY <1>3, <1>5, <1>6 DEF Traded
<1>8. \A a \in On(d) : a \in DOMAIN g /\ g[a] = f[a]
  BY <1>3, <1>5
<1>9. IsCircle(g, d)
  BY <1>8, CircleKept
<1>10. PICK t : t = [cs EXCEPT ![v] = d]
  BY Zenon
<1>11. Circles(g, t)
  BY <1>1, <1>2, <1>5, <1>6, <1>7, <1>9, <1>10, CirclesReplaced, Zenon
<1>12. PICK s, m, x, q : s = obj /\ m = mem /\ x = obj' /\ q = mem'
  OBVIOUS
<1>13. ListsIn(s, m, cs) /\ x = [s EXCEPT ![v] = r] /\ q \in Memory(Cells) /\ q.heap = g
  BY <1>5, <1>12, MemoryIs
<1>14. ListsIn(x, q, t)
  BY <1>5, <1>10, <1>11, <1>13, ListGets, Zenon
<1> QED  BY <1>12, <1>14 DEF ListsOK

LEMMA ListGone ==
  ASSUME ListsOK, NEW v \in Vec, obj[v] # Absent, NEW r \in {Absent, L!Empty}, obj' = [obj EXCEPT ![v] = r],
         mem' = L!destroy(mem, obj[v].sentinel, obj[v].size)
  PROVE  ListsOK'
<1>1. PICK cs : ListsIn(obj, mem, cs)
  BY DEF ListsOK
<1>2. PICK h, c, l, d : h = mem.heap /\ c = cs[v] /\ l = obj[v] /\ d = [i \in {} |-> Null]
  OBVIOUS
<1>3. Described(h, l, c) /\ mem \in Memory(Cells) /\ h \in Heaps(Cells)
  <2>1. mem \in Memory(Cells)
    BY <1>1 DEF ListsIn
  <2>2. Described(h, l, c)
    BY <1>1, <1>2, ListOf
  <2> QED  BY <1>2, <2>1, <2>2, Zenon DEF Memory
<1>4. PICK g : g = Without(h, On(c))
  OBVIOUS
<1>5. mem' = [heap |-> g, sound |-> TRUE]
  <2>1. Destroyed(h, On(c), mem')
    BY <1>2, <1>3, ListDestroys
  <2> QED  BY <1>4, <2>1 DEF Destroyed
<1>6. DOMAIN d = {} /\ On(d) = {} /\ IsCircle(h, d)
  BY <1>2 DEF On, IsCircle
<1>7. r \in ListRecords \cup {Absent} /\ Matches(r, d)
  BY <1>6, EmptyMatches
<1>8. DOMAIN h = DOMAIN h \cup On(d) /\ On(d) \cap DOMAIN h = {} /\ g = Without(h, On(cs[v]))
  BY <1>2, <1>4, <1>6
<1> QED  BY <1>1, <1>2, <1>3, <1>5, <1>6, <1>7, <1>8, ListReplaced, Zenon

LEMMA ListRoom ==
  ASSUME NEW m, NEW h, h = m.heap, NEW n
  PROVE  L!HasRoom(m, n) <=> Cardinality(DOMAIN h) + n <= MaxCapacity + 1
BY ListCardinality DEF L!HasRoom

(* the addresses of a copy's nodes *)
LEMMA CopyNodes ==
  ASSUME NEW m, NEW h \in Heaps(Cells), h = m.heap, NEW n \in Nat, L!HasRoom(m, n + 1),
         NEW d, d = [i \in 0 .. n |-> L!Fresh(m, i)]
  PROVE  /\ \A i \in 0 .. n : d[i] \in Address /\ d[i] \notin DOMAIN h
         /\ \A i, j \in 0 .. n : d[i] = d[j] => i = j
<1>1. Cardinality(DOMAIN h) \in Nat /\ MaxCapacity \in Nat
  BY HeapType, FS_CardinalityType, SingleThreadedAssumption
<1>2. Cardinality(DOMAIN h) + (n + 1) <= MaxCapacity + 1
  BY ListRoom
<1>3. ASSUME NEW i \in 0 .. n
      PROVE  d[i] \in Address /\ d[i] \notin DOMAIN h /\ Cardinality((1 .. d[i]) \ DOMAIN h) = i + 1
  <2>1. i \in Nat /\ Cardinality(DOMAIN h) + i <= MaxCapacity + 1
    BY <1>1, <1>2
  <2>2. PICK a : a = L!Fresh(m, i)
    OBVIOUS
  <2>3. a \in Address /\ a \notin DOMAIN h /\ Cardinality((1 .. a) \ DOMAIN h) = i + 1
    BY <2>1, <2>2, FreshIs
  <2>4. d[i] = a
    BY <2>2
  <2> QED  BY <2>3, <2>4
<1>4. ASSUME NEW i \in 0 .. n, NEW j \in 0 .. n, d[i] = d[j] PROVE i = j
  <2>1. i + 1 = j + 1
    BY <1>3, <1>4, Zenon
  <2> QED  BY <2>1
<1> QED  BY <1>3, <1>4, Zenon

(* the memory with the first n of size nodes, and their sentinel, copied *)
Copied(h, d, n, size, f) ==
  /\ f \in Heaps(Cells) /\ DOMAIN f = DOMAIN h \cup On(d) /\ On(d) \cap DOMAIN h = {}
  /\ \A a \in DOMAIN h : f[a] = h[a]
  /\ d = [i \in 0 .. n |-> d[i]] /\ DOMAIN d = 0 .. n
  /\ \A i, j \in 0 .. n : d[i] = d[j] => i = j
  /\ \A i \in 0 .. n : /\ f[d[i]].next = IF i < n THEN d[i + 1] ELSE IF n = size THEN d[0] ELSE Null
                       /\ f[d[i]].prev = IF i = 0 THEN IF n = size THEN d[n] ELSE Null ELSE d[i - 1]

LEMMA CopyDoes ==
  ASSUME mem \in Memory(Cells), NEW h, h = mem.heap, NEW w \in Vec, NEW c, Ring(h, c, obj[w].size),
         c[0] = obj[w].sentinel, NEW n \in 0 .. obj[w].size, L!HasRoom(mem, n + 1),
         NEW d, d = [i \in 0 .. n |-> L!Fresh(mem, i)], NEW m, m = L!copy(w, n)
  PROVE  Copied(h, d, n, obj[w].size, m.heap) /\ m \in Memory(Cells)
<1>1. PICK size : size = obj[w].size
  OBVIOUS
<1>2. size \in Nat /\ n \in Nat /\ n <= size /\ Ring(h, c, size) /\ h \in Heaps(Cells)
  <2>1. Ring(h, c, size) /\ n \in 0 .. size
    BY <1>1
  <2>2. size \in Nat
    BY <2>1 DEF Ring
  <2> QED  BY <2>1, <2>2 DEF Memory
<1>3. PICK old : old = L!Walk(h, obj[w].sentinel, n)
  OBVIOUS
<1>4. \A i \in 0 .. n : old[i] = c[i] /\ old[i] \in DOMAIN h
  <2>1. Path(h, c, size) /\ n <= size + 1 /\ n \in Nat
    BY <1>2, RingIsPath
  <2>2. PICK a : a = c[0] /\ old = L!Walk(h, a, n)
    BY <1>3
  <2>3. \A i \in 0 .. n : old[i] = IF i <= size THEN c[i] ELSE c[0]
    BY <1>2, <2>1, <2>2, RingWalk
  <2> QED  BY <1>2, <2>3, RingOn
<1>5. (\A i \in 0 .. n : d[i] \in Address /\ d[i] \notin DOMAIN h) /\ \A i, j \in 0 .. n : d[i] = d[j] => i = j
  BY <1>2, CopyNodes
<1>6. d = [i \in 0 .. n |-> d[i]] /\ DOMAIN d = 0 .. n /\ On(d) = {d[i] : i \in 0 .. n}
  BY DEF On
<1> DEFINE after(i) == IF i < n THEN d[i + 1] ELSE IF n = size THEN d[0] ELSE Null
           before(i) == IF i = 0 THEN IF n = size THEN d[n] ELSE Null ELSE d[i - 1]
           val(i) == IF i = 0 THEN Raw ELSE h[old[i]].val
           made(i) == [next |-> after(i), prev |-> before(i), val |-> val(i)]
           at(a) == CHOOSE i \in 0 .. n : d[i] = a
           f == [a \in DOMAIN h \cup On(d) |-> IF a \in On(d) THEN made(at(a)) ELSE h[a]]
<1>7. m = [mem EXCEPT !.heap = f]
  <2> DEFINE nodes == [i \in 0 .. n |-> L!Fresh(mem, i)]
             next(i) == IF i < n THEN nodes[i + 1] ELSE IF n = obj[w].size THEN nodes[0] ELSE Null
             cell(i) == IF i = 0 THEN L!Node(next(0), L!TailOf(w, nodes, n), Raw)
                        ELSE L!Node(next(i), nodes[i - 1], mem.heap[L!Walk(mem.heap, obj[w].sentinel, n)[i]].val)
  <2>1. m = [mem EXCEPT !.heap = [a \in DOMAIN mem.heap \cup L!Range(nodes) |->
               IF a \in L!Range(nodes) THEN cell(CHOOSE i \in 0 .. n : nodes[i] = a) ELSE mem.heap[a]]]
    BY Zenon DEF L!copy
  <2>2. L!Range(nodes) = On(d) /\ nodes = d
    BY Zenon DEF L!Range, On
  <2>3. \A i : cell(i) = made(i)
    <3> SUFFICES ASSUME NEW i PROVE cell(i) = made(i)
      BY Zenon
    <3>1. cell(i) = IF i = 0 THEN [next |-> next(0), prev |-> L!TailOf(w, nodes, n), val |-> Raw]
                    ELSE [next |-> next(i), prev |-> nodes[i - 1], val |-> mem.heap[L!Walk(mem.heap, obj[w].sentinel, n)[i]].val]
      BY Zenon DEF L!Node
    <3>2. L!TailOf(w, nodes, n) = IF n = size THEN d[n] ELSE Null
      BY <1>1, <2>2 DEF L!TailOf
    <3>3. nodes = d /\ L!Walk(mem.heap, obj[w].sentinel, n) = old /\ mem.heap = h /\ obj[w].size = size
      BY <1>1, <1>3, <2>2
    <3> HIDE DEF nodes
    <3>4. next(i) = after(i) /\ next(0) = after(0)
      BY <3>3
    <3> HIDE DEF next, after, cell
    <3>5. CASE i = 0
      <4>1. cell(i) = [next |-> after(0), prev |-> IF n = size THEN d[n] ELSE Null, val |-> Raw]
        BY <3>1, <3>2, <3>4, <3>5
      <4> QED  BY <3>5, <4>1
    <3>6. CASE i # 0
      <4>1. cell(i) = [next |-> after(i), prev |-> d[i - 1], val |-> h[old[i]].val]
        BY <3>1, <3>3, <3>4, <3>6
      <4> QED  BY <3>6, <4>1
    <3> QED  BY <3>5, <3>6
  <2> DEFINE put(x) == [a \in DOMAIN mem.heap \cup On(x) |->
               IF a \in On(x) THEN cell(CHOOSE i \in 0 .. n : x[i] = a) ELSE mem.heap[a]]
  <2>4. m = [mem EXCEPT !.heap = put(nodes)]
    <3>1. L!Range(nodes) = On(nodes)
      BY Zenon DEF L!Range, On
    <3> HIDE DEF cell, nodes
    <3> QED  BY <2>1, <3>1
  <2>5. put(d) = f
    <3> HIDE DEF cell, made
    <3> QED  BY <2>3
  <2>6. put(nodes) = put(d)
    <3> HIDE DEF put, nodes
    <3> QED  BY <2>2
  <2> HIDE DEF put, f
  <2> QED  BY <2>4, <2>5, <2>6
<1>8. \A i \in 0 .. n : made(i) \in Cells
  <2> SUFFICES ASSUME NEW i \in 0 .. n PROVE made(i) \in Cells
    OBVIOUS
  <2>1. after(i) \in Address \cup {Null}
    BY <1>2, <1>5
  <2>2. before(i) \in Address \cup {Null}
    BY <1>2, <1>5
  <2>3. val(i) \in Item \cup {Raw}
    <3>1. h[old[i]] \in Cells
      BY <1>2, <1>4, HeapType
    <3> QED  BY <3>1 DEF Cells
  <2> HIDE DEF after, before, val
  <2> QED  BY <2>1, <2>2, <2>3 DEF Cells
<1>9. \A a \in On(d) : at(a) \in 0 .. n /\ d[at(a)] = a
  BY <1>6
<1>10. \A i \in 0 .. n : at(d[i]) = i
  <2> SUFFICES ASSUME NEW i \in 0 .. n PROVE at(d[i]) = i
    OBVIOUS
  <2>1. d[i] \in On(d)
    BY <1>6
  <2> HIDE DEF at
  <2> QED  BY <1>5, <1>9, <2>1
<1>11. On(d) \subseteq Address /\ On(d) \cap DOMAIN h = {} /\ IsFiniteSet(On(d))
  <2>1. IsFiniteSet(On(d))
    <3>1. IsFiniteSet(0 .. n)
      BY <1>2, FS_Interval
    <3>2. d \in Surjection(0 .. n, On(d))
      BY <1>6 DEF Surjection
    <3> QED  BY <3>1, <3>2, FS_Surjection
  <2> QED  BY <1>5, <1>6, <2>1
<1>12. DOMAIN f = DOMAIN h \cup On(d) /\ f = [a \in DOMAIN f |-> f[a]]
  OBVIOUS
<1>13. \A a \in DOMAIN h : f[a] = h[a]
  BY <1>11
<1>14. \A i \in 0 .. n : f[d[i]] = made(i)
  <2> SUFFICES ASSUME NEW i \in 0 .. n PROVE f[d[i]] = made(i)
    BY Zenon
  <2>1. d[i] \in On(d)
    BY <1>6
  <2>2. f[d[i]] = made(at(d[i]))
    BY <2>1
  <2> HIDE DEF f, made, at
  <2> QED  BY <1>10, <2>2
<1> HIDE DEF f, at
<1>15. f \in Heaps(Cells)
  <2>1. \A a \in DOMAIN h \cup On(d) : f[a] \in Cells
    <3>1. \A a \in DOMAIN h : f[a] \in Cells
      BY <1>2, <1>13, HeapType
    <3>2. ASSUME NEW a \in On(d) PROVE f[a] \in Cells
      <4>1. PICK i \in 0 .. n : d[i] = a
        BY <1>6
      <4> HIDE DEF made
      <4> QED  BY <1>8, <1>14, <4>1
    <3> QED  BY <3>1, <3>2
  <2>2. DOMAIN f \in SUBSET Address /\ IsFiniteSet(DOMAIN f)
    <3>1. DOMAIN h \subseteq Address /\ IsFiniteSet(DOMAIN h)
      BY <1>2, HeapType
    <3>2. IsFiniteSet(DOMAIN h \cup On(d))
      BY <1>11, <3>1, FS_Union, Zenon
    <3> QED  BY <1>11, <1>12, <3>1, <3>2
  <2>3. PICK g, D : g = f /\ D = DOMAIN f
    OBVIOUS
  <2>4. D \in SUBSET Address /\ IsFiniteSet(D) /\ g = [a \in D |-> g[a]] /\ \A a \in D : g[a] \in Cells
    BY <1>12, <2>1, <2>2, <2>3
  <2>5. g \in Heaps(Cells)
    BY <2>4, HeapIs
  <2> QED  BY <2>3, <2>5
<1>16. \A i \in 0 .. n : f[d[i]].next = after(i) /\ f[d[i]].prev = before(i)
  <2> SUFFICES ASSUME NEW i \in 0 .. n PROVE f[d[i]].next = after(i) /\ f[d[i]].prev = before(i)
    BY Zenon
  <2> HIDE DEF after, before, val
  <2>1. PICK x, y, z : x = after(i) /\ y = before(i) /\ z = val(i)
    OBVIOUS
  <2>2. f[d[i]] = [next |-> x, prev |-> y, val |-> z]
    BY <1>14, <2>1
  <2> QED  BY <2>1, <2>2
<1>17. m.heap = f /\ m \in Memory(Cells)
  BY <1>7, <1>15, MemoryReplaced
<1> QED  BY <1>1, <1>5, <1>6, <1>11, <1>12, <1>13, <1>15, <1>16, <1>17, Zenon DEF Copied

LEMMA CopiedChain ==
  ASSUME NEW h, NEW d, NEW n \in Nat, NEW size \in Nat, NEW f, Copied(h, d, n, size, f)
  PROVE  Path(f, d, n) /\ (n = size => Ring(f, d, n))
<1>1. \A i \in 0 .. n : d[i] \in On(d) /\ d[i] \in DOMAIN f
  BY DEF Copied, On
<1>2. \A i \in 0 .. n : i < n => f[d[i]].next = d[i + 1]
  BY Zenon DEF Copied
<1>3. Path(f, d, n)
  BY <1>1, <1>2 DEF Copied, Path
<1>4. ASSUME n = size, NEW i \in 0 .. n
      PROVE  f[d[i]].next = d[After(n, i)] /\ f[d[After(n, i)]].prev = d[i]
  <2>1. f[d[i]].next = IF i < n THEN d[i + 1] ELSE d[0]
    BY <1>4, Zenon DEF Copied
  <2>2. CASE i = n
    <3>1. After(n, i) = 0 /\ 0 \in 0 .. n
      BY <2>2 DEF After
    <3>2. f[d[0]].prev = d[n]
      BY <1>4, <3>1, Zenon DEF Copied
    <3> QED  BY <2>1, <2>2, <3>1, <3>2
  <2>3. CASE i # n
    <3>1. After(n, i) = i + 1 /\ i + 1 \in 0 .. n /\ i + 1 # 0 /\ (i + 1) - 1 = i /\ i < n
      BY <2>3 DEF After
    <3>2. f[d[i + 1]].prev = d[(i + 1) - 1]
      BY <3>1, Zenon DEF Copied
    <3> QED  BY <2>1, <3>1, <3>2
  <2> QED  BY <2>2, <2>3
<1> QED  BY <1>3, <1>4, Zenon DEF Path, Copied, Ring

(* what had been copied goes again *)
LEMMA CopyUndone ==
  ASSUME NEW h \in Heaps(Cells), NEW d, NEW n \in Nat, NEW size \in Nat, NEW m \in Memory(Cells),
         NEW f, f = m.heap, Copied(h, d, n, size, f), NEW a, a = d[0], NEW q, q = L!destroy(m, a, n)
  PROVE  q = [heap |-> h, sound |-> TRUE]
<1>1. Path(f, d, n)
  BY CopiedChain
<1>2. Destroyed(f, On(d), q)
  BY <1>1, ListDestroyed
<1>3. DOMAIN f \ On(d) = DOMAIN h /\ \A b \in DOMAIN h : f[b] = h[b]
  BY Zenon DEF Copied
<1>4. Without(f, On(d)) = [b \in DOMAIN h |-> h[b]]
  BY <1>3 DEF Without
<1>5. h = [b \in DOMAIN h |-> h[b]]
  BY HeapType
<1> QED  BY <1>2, <1>4, <1>5, Zenon DEF Destroyed

(* v has the nodes of before, if any, of which nothing is left after Copy  *)
LEMMA ListCopies ==
  ASSUME NEW cs, ListsIn(obj, mem, cs), NEW v \in Vec, NEW w \in Vec, obj[w] # Absent,
         NEW before, Described(mem.heap, before, cs[v]), L!Copy(v, w, before)
  PROVE  ListsOK'
<1>1. PICK h, c, r, size : h = mem.heap /\ c = cs[w] /\ r = obj[w] /\ size = r.size
  OBVIOUS
<1>2. mem \in Memory(Cells) /\ h \in Heaps(Cells) /\ mem = [heap |-> h, sound |-> TRUE]
  BY <1>1, Zenon DEF ListsIn, Memory
<1>3. Described(h, r, c)
  BY <1>1, ListOf
<1>4. r \in ListRecords /\ size \in Nat
  BY <1>1, <1>3 DEF Described, ListRecords
<1>5. CASE mem' = mem /\ obj' = [obj EXCEPT ![v] = obj[v]]
  <2>1. ListsOK
    BY DEF ListsOK
  <2> QED  BY <1>5, <2>1, ListThrow, Zenon
<1>6. CASE r.sentinel = Null /\ mem' = L!destroy(mem, before.sentinel, before.size)
           /\ obj' = [obj EXCEPT ![v] = L!Empty]
  <2>1. PICK g, d : g = Without(h, On(cs[v])) /\ d = [i \in {} |-> Null]
    OBVIOUS
  <2>2. PICK b : b = cs[v]
    OBVIOUS
  <2>3. Destroyed(h, On(b), mem')
    BY <1>1, <1>2, <1>6, <2>2, ListDestroys
  <2>4. mem' = [heap |-> g, sound |-> TRUE]
    BY <2>1, <2>2, <2>3 DEF Destroyed
  <2>5. DOMAIN d = {} /\ On(d) = {} /\ IsCircle(h, d)
    BY <2>1 DEF On, IsCircle
  <2>6. PICK e : e = L!Empty
    OBVIOUS
  <2>7. e \in ListRecords \cup {Absent} /\ Matches(e, d) /\ obj' = [obj EXCEPT ![v] = e]
    BY <1>6, <2>5, <2>6, EmptyMatches
  <2>8. DOMAIN h = DOMAIN h \cup On(d) /\ On(d) \cap DOMAIN h = {}
    BY <2>5
  <2> QED  BY <1>1, <1>2, <2>1, <2>4, <2>5, <2>7, <2>8, ListReplaced, Zenon
<1>7. ASSUME r.sentinel # Null, NEW n \in 0 .. size, L!HasRoom(mem, n + 1),
             \/ /\ mem' = L!destroy(L!copy(w, n), L!Fresh(mem, 0), n) /\ obj' = [obj EXCEPT ![v] = obj[v]]
             \/ /\ n = size /\ mem' = L!destroy(L!copy(w, n), before.sentinel, before.size)
                /\ obj' = [obj EXCEPT ![v] = [sentinel |-> L!Fresh(mem, 0), size |-> size]]
      PROVE  ListsOK'
  <2>1. PICK d, m, f, a : d = [i \in 0 .. n |-> L!Fresh(mem, i)] /\ m = L!copy(w, n) /\ f = m.heap /\ a = L!Fresh(mem, 0)
    BY Zenon
  <2>2. Ring(h, c, obj[w].size) /\ c[0] = obj[w].sentinel /\ n \in 0 .. obj[w].size
    BY <1>1, <1>3, <1>7 DEF Described
  <2>3. Copied(h, d, n, obj[w].size, m.heap) /\ m \in Memory(Cells)
    BY <1>1, <1>2, <1>7, <2>1, <2>2, CopyDoes, Zenon
  <2>4. Copied(h, d, n, size, f) /\ n \in Nat /\ a = d[0]
    BY <1>1, <1>4, <2>1, <2>3
  <2>5. CASE mem' = L!destroy(m, a, n) /\ obj' = [obj EXCEPT ![v] = obj[v]]
    <3>1. mem' = [heap |-> h, sound |-> TRUE]
      BY <1>2, <1>4, <2>1, <2>3, <2>4, <2>5, CopyUndone, Zenon
    <3>2. ListsOK
      BY DEF ListsOK
    <3> QED  BY <1>2, <2>5, <3>1, <3>2, ListThrow, Zenon
  <2>6. CASE n = size /\ mem' = L!destroy(m, before.sentinel, before.size)
             /\ obj' = [obj EXCEPT ![v] = [sentinel |-> a, size |-> size]]
    <3>1. f \in Heaps(Cells) /\ DOMAIN f = DOMAIN h \cup On(d) /\ On(d) \cap DOMAIN h = {} /\ \A b \in DOMAIN h : f[b] = h[b]
      BY <2>4 DEF Copied
    <3>2. Ring(f, d, n)
      BY <1>4, <2>4, <2>6, CopiedChain
    <3>3. PICK b, g : b = cs[v] /\ g = Without(f, On(b))
      OBVIOUS
    <3>4. On(b) \subseteq DOMAIN h
      BY <1>1, <3>3, CircleOn DEF ListsIn, Circles
    <3>5. Described(f, before, b)
      <4>1. \A x \in On(b) : x \in DOMAIN f /\ f[x] = h[x]
        BY <3>1, <3>4
      <4>2. Described(h, before, b)
        BY <1>1, <3>3
      <4> QED  BY <4>1, <4>2, ListKept
    <3>6. Destroyed(f, On(b), mem')
      BY <2>1, <2>3, <2>6, <3>5, ListDestroys
    <3>7. mem' = [heap |-> g, sound |-> TRUE] /\ g = Without(f, On(cs[v]))
      BY <3>3, <3>6 DEF Destroyed
    <3>8. PICK x : x = [sentinel |-> a, size |-> size]
      BY Zenon
    <3>9. a \in Address
      <4>1. On(d) \subseteq DOMAIN f /\ a \in On(d) /\ DOMAIN f \subseteq Address
        BY <2>4, <3>1, <3>2, HeapType, RingOn
      <4> QED  BY <4>1
    <3>10. x.sentinel = a /\ x.size = n /\ x \in ListRecords /\ x.sentinel # Null
      BY <1>4, <2>6, <3>8, <3>9, NullIsNoAddress DEF ListRecords
    <3>11. Described(f, x, d)
      BY <2>4, <3>2, <3>10 DEF Described
    <3>12. Matches(x, d) /\ IsCircle(f, d) /\ x \in ListRecords \cup {Absent} /\ obj' = [obj EXCEPT ![v] = x]
      BY <2>6, <3>8, <3>10, <3>11, ListMatches
    <3> QED  BY <1>1, <3>1, <3>7, <3>12, ListReplaced, Zenon
  <2> QED  BY <1>7, <2>1, <2>5, <2>6
<1>8. CASE r.sentinel = Null
  BY <1>1, <1>6, <1>8 DEF L!Copy, L!Return, L!End
<1>9. CASE r.sentinel # Null
  <2>1. \A n \in 0 .. size - 1 : n \in 0 .. size
    BY <1>4
  <2>2. size \in 0 .. size
    BY <1>4
  <2>3. \/ mem' = mem /\ obj' = [obj EXCEPT ![v] = obj[v]]
        \/ \E n \in 0 .. size - 1 : /\ L!HasRoom(mem, n + 1)
                                    /\ mem' = L!destroy(L!copy(w, n), L!Fresh(mem, 0), n) /\ obj' = [obj EXCEPT ![v] = obj[v]]
        \/ /\ L!HasRoom(mem, size + 1) /\ mem' = L!destroy(L!copy(w, size), before.sentinel, before.size)
           /\ obj' = [obj EXCEPT ![v] = [sentinel |-> L!Fresh(mem, 0), size |-> size]]
    BY <1>1, <1>9, Zenon DEF L!Copy, L!Return, L!Throw, L!End
  <2>4. ASSUME NEW n \in 0 .. size - 1, L!HasRoom(mem, n + 1),
               mem' = L!destroy(L!copy(w, n), L!Fresh(mem, 0), n), obj' = [obj EXCEPT ![v] = obj[v]]
        PROVE  ListsOK'
    BY <1>7, <1>9, <2>1, <2>4
  <2>5. ASSUME L!HasRoom(mem, size + 1), mem' = L!destroy(L!copy(w, size), before.sentinel, before.size),
               obj' = [obj EXCEPT ![v] = [sentinel |-> L!Fresh(mem, 0), size |-> size]]
        PROVE  ListsOK'
    BY <1>7, <1>9, <2>2, <2>5
  <2> QED  BY <1>5, <2>3, <2>4, <2>5
<1> QED  BY <1>8, <1>9

LEMMA ListCopyCtor ==
  ASSUME ListsOK, NEW v \in Vec, NEW w \in Vec, L!CopyCtor(v, w)
  PROVE  ListsOK'
<1>1. PICK cs : ListsIn(obj, mem, cs)
  BY DEF ListsOK
<1>2. obj[v] = Absent /\ obj[w] # Absent /\ L!Copy(v, w, L!Empty)
  BY DEF L!CopyCtor, L!InScope
<1>3. Described(mem.heap, L!Empty, cs[v])
  <2>1. Matches(obj[v], cs[v])
    BY <1>1 DEF ListsIn
  <2>2. DOMAIN cs[v] = {}
    BY <1>2, <2>1, SingleThreadedAssumption DEF Matches, ListRecords, Address
  <2> QED  BY <2>2 DEF Described, L!Empty, ListRecords
<1>4. PICK before : before = L!Empty
  OBVIOUS
<1> QED  BY <1>1, <1>2, <1>3, <1>4, ListCopies

LEMMA ListCopyAssign ==
  ASSUME ListsOK, NEW v \in Vec, NEW w \in Vec, L!CopyAssign(v, w)
  PROVE  ListsOK'
<1>1. PICK cs : ListsIn(obj, mem, cs)
  BY DEF ListsOK
<1>2. obj[v] # Absent /\ obj[w] # Absent /\ L!Copy(v, w, obj[v])
  BY DEF L!CopyAssign, L!InScope
<1>3. PICK before, h, c : before = obj[v] /\ h = mem.heap /\ c = cs[v]
  OBVIOUS
<1>4. Described(h, before, c)
  BY <1>1, <1>2, <1>3, ListOf
<1>5. Described(mem.heap, before, cs[v]) /\ L!Copy(v, w, before)
  BY <1>2, <1>3, <1>4
<1> QED  BY <1>1, <1>2, <1>5, ListCopies

(* the nodes of v, if any, are deleted, and those of w become its own *)
LEMMA ListTakes ==
  ASSUME NEW cs, ListsIn(obj, mem, cs), NEW v \in Vec, NEW w \in Vec, v # w, obj[w] # Absent,
         NEW h, h = mem.heap, NEW X, X = On(cs[v]), NEW g, g = Without(h, X), L!Take(v, w, [heap |-> g, sound |-> TRUE])
  PROVE  ListsOK'
<1>1. mem' = [heap |-> g, sound |-> TRUE] /\ obj' = [obj EXCEPT ![v] = obj[w], ![w] = L!Empty]
  BY DEF L!Take
<1>2. /\ Circles(h, cs) /\ h \in Heaps(Cells) /\ cs = [u \in Vec |-> cs[u]]
      /\ obj \in [Vec -> ListRecords \cup {Absent}] /\ \A u \in Vec : Matches(obj[u], cs[u])
  BY DEF ListsIn, Circles
<1>3. PICK d, e : d = [i \in {} |-> Null] /\ e = L!Empty
  OBVIOUS
<1>4. DOMAIN d = {} /\ Matches(e, d) /\ e \in ListRecords
  BY <1>3, EmptyMatches
<1>5. Shrunk(Cells, h, X, g)
  BY <1>2, HeapWithout
<1>6. g \in Heaps(Cells)
  BY <1>5 DEF Shrunk
<1>7. PICK t : t = [cs EXCEPT ![v] = cs[w], ![w] = d]
  BY Zenon
<1>8. Circles(g, t)
  BY <1>2, <1>4, <1>5, <1>7, CirclesTaken DEF Passed
<1>9. \A u \in Vec : t[u] = IF u = w THEN d ELSE IF u = v THEN cs[w] ELSE cs[u]
  BY <1>2, <1>7
<1>10. \A u \in Vec : obj'[u] = IF u = w THEN e ELSE IF u = v THEN obj[w] ELSE obj[u]
  BY <1>1, <1>2, <1>3
<1>11. obj' \in [Vec -> ListRecords \cup {Absent}]
  BY <1>1, <1>2, <1>3, <1>4
<1>12. \A u \in Vec : Matches(obj'[u], t[u])
  BY <1>2, <1>4, <1>9, <1>10
<1>13. mem' \in Memory(Cells) /\ mem'.heap = g
  <2>1. PICK q : q = mem'
    OBVIOUS
  <2>2. q \in Memory(Cells) /\ q.heap = g
    BY <1>1, <1>6, <2>1, MemoryIs
  <2> QED  BY <2>1, <2>2
<1> QED  BY <1>8, <1>11, <1>12, <1>13 DEF ListsOK, ListsIn

LEMMA ListMoveCtor ==
  ASSUME ListsOK, NEW v \in Vec, NEW w \in Vec, L!MoveCtor(v, w)
  PROVE  ListsOK'
<1>1. PICK cs : ListsIn(obj, mem, cs)
  BY DEF ListsOK
<1>2. obj[v] = Absent /\ obj[w] # Absent /\ v # w /\ L!Take(v, w, mem)
  BY DEF L!MoveCtor, L!InScope
<1>3. DOMAIN cs[v] = {}
  <2>1. Matches(obj[v], cs[v])
    BY <1>1 DEF ListsIn
  <2> QED  BY <1>2, <2>1, SingleThreadedAssumption DEF Matches, ListRecords, Address
<1>4. PICK h, X, g : h = mem.heap /\ X = On(cs[v]) /\ g = Without(h, X)
  OBVIOUS
<1>5. h \in Heaps(Cells) /\ mem = [heap |-> h, sound |-> TRUE]
  BY <1>1, <1>4, Zenon DEF ListsIn, Memory
<1>6. X = {} /\ h = [a \in DOMAIN h |-> h[a]]
  BY <1>3, <1>4, <1>5, HeapType DEF On
<1>7. g = h
  BY <1>4, <1>6 DEF Without
<1>8. L!Take(v, w, [heap |-> g, sound |-> TRUE])
  BY <1>2, <1>5, <1>7
<1> QED  BY <1>1, <1>2, <1>4, <1>8, ListTakes

LEMMA ListMoveAssign ==
  ASSUME ListsOK, NEW v \in Vec, NEW w \in Vec, L!MoveAssign(v, w)
  PROVE  ListsOK'
<1>1. PICK cs : ListsIn(obj, mem, cs)
  BY DEF ListsOK
<1>2. obj[v] # Absent /\ obj[w] # Absent /\ v # w /\ L!Take(v, w, L!destroy(mem, obj[v].sentinel, obj[v].size))
  BY DEF L!MoveAssign, L!InScope
<1>3. PICK h, c, r, q : h = mem.heap /\ c = cs[v] /\ r = obj[v] /\ q = L!destroy(mem, r.sentinel, r.size)
  OBVIOUS
<1>4. Described(h, r, c) /\ mem \in Memory(Cells)
  <2>1. mem \in Memory(Cells)
    BY <1>1 DEF ListsIn
  <2>2. Described(h, r, c)
    BY <1>1, <1>2, <1>3, ListOf
  <2> QED  BY <2>1, <2>2
<1>5. Destroyed(h, On(c), q)
  BY <1>3, <1>4, ListDestroys
<1>6. PICK X, g : X = On(cs[v]) /\ g = Without(h, X)
  OBVIOUS
<1>7. q = [heap |-> g, sound |-> TRUE]
  BY <1>3, <1>5, <1>6 DEF Destroyed
<1>8. L!Take(v, w, [heap |-> g, sound |-> TRUE])
  BY <1>2, <1>3, <1>7
<1> QED  BY <1>1, <1>2, <1>3, <1>6, <1>8, ListTakes

(* ensure_sentinel: v has a sentinel, and the nodes it had *)
LEMMA SentinelMade ==
  ASSUME NEW cs, ListsIn(obj, mem, cs), NEW v \in Vec, obj[v] # Absent, obj[v].sentinel = Null, L!HasRoom(mem, 1),
         NEW r, r = [obj[v] EXCEPT !.sentinel = L!Sentinel(v)], NEW s, s = [obj EXCEPT ![v] = r],
         NEW m, m = L!ensure_sentinel(v)
  PROVE  /\ L!Sentinel(v) \in Address /\ Cardinality(DOMAIN m.heap) = Cardinality(DOMAIN mem.heap) + 1
         /\ \E d : ListsIn(s, m, [cs EXCEPT ![v] = d])
<1>1. PICK h, a, c, l : h = mem.heap /\ a = L!Sentinel(v) /\ c = cs[v] /\ l = obj[v]
  OBVIOUS
<1>2. a = L!Fresh(mem, 0) /\ m = [mem EXCEPT !.heap = L!With(h, a, L!Node(a, a, Raw))]
  BY <1>1 DEF L!Sentinel, L!ensure_sentinel
<1>3. Circles(h, cs) /\ h \in Heaps(Cells) /\ mem \in Memory(Cells) /\ mem = [heap |-> h, sound |-> TRUE]
  BY <1>1, Zenon DEF ListsIn, Circles, Memory
<1>4. Described(h, l, c)
  BY <1>1, ListOf
<1>5. l \in ListRecords /\ l.size = 0 /\ DOMAIN c = {}
  BY <1>1, <1>4 DEF Described
<1>6. a \in Address /\ a \notin DOMAIN h
  <2>1. Cardinality(DOMAIN h) \in Nat /\ MaxCapacity \in Nat
    BY <1>3, HeapType, FS_CardinalityType, SingleThreadedAssumption
  <2>2. Cardinality(DOMAIN h) + 1 <= MaxCapacity + 1
    BY <1>1, ListRoom
  <2>3. Cardinality(DOMAIN h) + 0 <= MaxCapacity + 1 /\ 0 \in Nat
    BY <2>1, <2>2
  <2> QED  BY <1>1, <1>2, <1>3, <2>3, FreshIs, Zenon
<1>7. PICK x, g : x = L!Node(a, a, Raw) /\ g = With(h, a, x)
  OBVIOUS
<1>8. x = [next |-> a, prev |-> a, val |-> Raw] /\ x \in Cells
  BY <1>6, <1>7 DEF L!Node, Cells
<1>9. Grown(Cells, h, a, x, g)
  BY <1>3, <1>6, <1>7, <1>8, HeapWith
<1>10. g \in Heaps(Cells) /\ DOMAIN g = DOMAIN h \cup {a} /\ g[a] = x /\ \A b \in DOMAIN h : b # a => g[b] = h[b]
  BY <1>9 DEF Grown
<1>11. m = [heap |-> g, sound |-> TRUE] /\ m \in Memory(Cells) /\ m.heap = g
  <2>1. m = [heap |-> g, sound |-> TRUE]
    <3>1. g = L!With(h, a, L!Node(a, a, Raw))
      BY <1>7, Zenon DEF With, L!With
    <3> QED  BY <1>2, <1>3, <3>1, Zenon
  <2> QED  BY <1>10, <2>1, MemoryIs
<1>12. PICK d, n : d = [i \in 0 .. 0 |-> a] /\ n = 0
  BY Zenon
<1>13. DOMAIN d = 0 .. n /\ d[0] = a /\ n \in Nat /\ d = [i \in 0 .. n |-> d[i]] /\ On(d) = {a} /\ \A i \in 0 .. n : i = 0
  BY <1>12 DEF On
<1>14. Ring(g, d, n)
  <2>1. After(n, 0) = 0
    BY <1>12 DEF After
  <2> QED  BY <1>8, <1>10, <1>13, <2>1 DEF Ring
<1>15. r.sentinel = a /\ r.size = n /\ r \in ListRecords /\ a # Null
  BY <1>1, <1>5, <1>6, <1>12, NullIsNoAddress DEF ListRecords
<1>16. Described(g, r, d)
  BY <1>13, <1>14, <1>15 DEF Described
<1>17. Matches(r, d) /\ IsCircle(g, d)
  BY <1>16, ListMatches
<1>18. PICK X, Y, t : X = On(cs[v]) /\ Y = On(d) /\ t = [cs EXCEPT ![v] = d]
  BY Zenon
<1>19. Traded(h, X, Y, g)
  <2>1. X = {} /\ Y = {a}
    BY <1>1, <1>5, <1>13, <1>18 DEF On
  <2> QED  BY <1>6, <1>10, <2>1 DEF Traded
<1>20. Circles(g, t)
  BY <1>3, <1>10, <1>17, <1>18, <1>19, CirclesReplaced, Zenon
<1>21. PICK o, p, e, y, q : o = obj /\ p = mem /\ e = r /\ y = s /\ q = m
  OBVIOUS
<1>22. ListsIn(o, p, cs) /\ y = [o EXCEPT ![v] = e] /\ e \in ListRecords \cup {Absent} /\ Matches(e, d)
       /\ q \in Memory(Cells) /\ q.heap = g
  BY <1>11, <1>15, <1>17, <1>21
<1>23. ListsIn(s, m, t)
  <2>1. ListsIn(y, q, t)
    BY <1>10, <1>18, <1>20, <1>22, ListGets, Zenon
  <2> QED  BY <1>21, <2>1
<1>24. Cardinality(DOMAIN g) = Cardinality(DOMAIN h) + 1
  <2>1. IsFiniteSet(DOMAIN h)
    BY <1>3, HeapType
  <2> QED  BY <1>6, <1>10, <2>1, FS_AddElement
<1> QED  BY <1>1, <1>6, <1>11, <1>18, <1>23, <1>24, Zenon

(* the nodes that begin, end and ++ lead to *)
LEMMA NodesAre ==
  ASSUME NEW h, NEW r, NEW c, Described(h, r, c), NEW node, node \in L!Range(L!Nodes(h, r))
  PROVE  r.sentinel # Null /\ \E k \in 1 .. r.size : node = c[k]
<1>1. CASE r.sentinel = Null
  <2>1. L!Nodes(h, r) = <<>>
    BY <1>1, Zenon DEF L!Nodes
  <2> QED  BY <2>1 DEF L!Range
<1>2. CASE r.sentinel # Null
  <2>1. PICK n, a : n = r.size /\ a = r.sentinel
    OBVIOUS
  <2>2. Path(h, c, n) /\ a = c[0] /\ n \in Nat
    BY <1>2, <2>1, RingIsPath DEF Described, Path
  <2>3. L!Nodes(h, r) = [i \in 1 .. n |-> L!Walk(h, a, i)[i]]
    BY <1>2, <2>1, Zenon DEF L!Nodes
  <2>4. PICK k \in 1 .. n : node = L!Walk(h, a, k)[k]
    BY <2>3 DEF L!Range
  <2>5. PICK w : w = L!Walk(h, a, k)
    OBVIOUS
  <2>6. k \in Nat /\ k <= n + 1 /\ k <= n /\ k \in 0 .. k
    BY <2>2
  <2>7. \A i \in 0 .. k : w[i] = IF i <= n THEN c[i] ELSE c[0]
    BY <2>2, <2>5, <2>6, RingWalk
  <2>8. node = c[k]
    BY <2>4, <2>5, <2>6, <2>7
  <2> QED  BY <1>2, <2>1, <2>8
<1> QED  BY <1>1, <1>2

Sound(h) == [heap |-> h, sound |-> TRUE]
HasPlace(s, m, cs, v, r) ==
  /\ ListsIn(s, m, cs) /\ r = s[v] /\ r \in ListRecords /\ Ring(m.heap, cs[v], r.size)
  /\ cs[v][0] = r.sentinel /\ r.sentinel # Null /\ L!HasRoom(m, 1)
LinkedIn(m, node, x, pos, g) ==
  node = L!Fresh(m, 0) /\ g = L!link_before(L!With(m.heap, node, L!Node(Null, Null, x)), pos, node)
Longer(r, e) == e \in ListRecords /\ e.sentinel = r.sentinel /\ e.size = r.size + 1

LEMMA HeapReplaced ==
  ASSUME NEW h, NEW m, m = [heap |-> h, sound |-> TRUE], NEW g, NEW q, q = [m EXCEPT !.heap = g]
  PROVE  q = Sound(g)
BY Zenon DEF Sound

(* a node more *)
LEMMA ListPushed ==
  ASSUME NEW s, NEW m, NEW cs, NEW v \in Vec, NEW r, HasPlace(s, m, cs, v, r),
         NEW c, c = cs[v], NEW pos \in On(c), NEW x \in Item, NEW node, NEW g, LinkedIn(m, node, x, pos, g),
         NEW e, Longer(r, e), NEW y, y = [s EXCEPT ![v] = e], NEW q, q = Sound(g)
  PROVE  \E t : ListsIn(y, q, t)
<1> DEFINE h == m.heap
<1>0. /\ ListsIn(s, m, cs) /\ r = s[v] /\ r \in ListRecords /\ Ring(h, c, r.size)
      /\ c[0] = r.sentinel /\ r.sentinel # Null /\ L!HasRoom(m, 1) /\ node = L!Fresh(m, 0)
      /\ g = L!link_before(L!With(h, node, L!Node(Null, Null, x)), pos, node)
      /\ e \in ListRecords /\ e.sentinel = r.sentinel /\ e.size = r.size + 1 /\ h = m.heap
  BY DEF HasPlace, LinkedIn, Longer
<1>1. Circles(h, cs) /\ h \in Heaps(Cells)
  BY <1>0 DEF ListsIn, Memory
<1> HIDE DEF h
<1>2. node \in Address /\ node \notin DOMAIN h
  <2>1. Cardinality(DOMAIN h) \in Nat /\ MaxCapacity \in Nat
    BY <1>1, HeapType, FS_CardinalityType, SingleThreadedAssumption
  <2>2. Cardinality(DOMAIN h) + 1 <= MaxCapacity + 1
    BY <1>0, ListRoom
  <2>3. Cardinality(DOMAIN h) + 0 <= MaxCapacity + 1 /\ 0 \in Nat
    BY <2>1, <2>2
  <2> QED  BY <1>0, <1>1, <2>3, FreshIs, Zenon
<1>3. PICK n : n = r.size
  OBVIOUS
<1>4. Ring(h, c, n) /\ n \in Nat /\ DOMAIN c = 0 .. n
  BY <1>0, <1>3, Zenon DEF Ring
<1>5. PICK j \in 0 .. n : pos = c[j]
  BY <1>4 DEF On
<1>6. PICK k : k = IF j = 0 THEN n + 1 ELSE j
  OBVIOUS
<1>7. k \in 1 .. n + 1 /\ pos = (IF k <= n THEN c[k] ELSE c[0]) /\ k - 1 \in 0 .. n /\ j = After(n, k - 1)
  BY <1>4, <1>5, <1>6 DEF After
<1>8. PICK pred : pred = c[k - 1]
  OBVIOUS
<1>9. pred = h[pos].prev /\ pred \in DOMAIN h /\ pos \in DOMAIN h /\ pred \in On(c)
  <2>1. h[c[j]].prev = c[k - 1]
    BY <1>4, <1>7, Zenon DEF Ring
  <2> QED  BY <1>4, <1>5, <1>7, <1>8, <2>1, RingOn
<1>10. PICK f : f = With(h, node, L!Node(Null, Null, x))
  OBVIOUS
<1>11. g = L!link_before(f, pos, node)
  <2>1. f = L!With(h, node, L!Node(Null, Null, x))
    BY <1>10, Zenon DEF With, L!With
  <2> QED  BY <1>0, <2>1
<1>12. Linked(h, g, node, pos, pred)
  BY <1>1, <1>2, <1>9, <1>10, <1>11, LinkBefore
<1>13. PICK d : d = Inserted(c, n, k, node)
  OBVIOUS
<1>14. Ring(g, d, n + 1) /\ On(d) = On(c) \cup {node} /\ d[0] = c[0]
  <2>1. Gap(c, n, k, pos, pred)
    BY <1>7, <1>8 DEF Gap
  <2>2. RingWith(g, d, c, n, node)
    BY <1>2, <1>4, <1>12, <1>13, <2>1, RingInserted
  <2> QED  BY <2>2 DEF RingWith
<1>15. e.sentinel = r.sentinel /\ e.size = n + 1 /\ e \in ListRecords
  BY <1>0, <1>3
<1>16. Described(g, e, d)
  BY <1>0, <1>14, <1>15 DEF Described
<1>17. Matches(e, d) /\ IsCircle(g, d)
  BY <1>16, ListMatches
<1>18. PICK X, Y, t : X = On(cs[v]) /\ Y = On(d) /\ t = [cs EXCEPT ![v] = d]
  BY Zenon
<1>19. Traded(h, X, Y, g)
  <2>1. X = On(c) /\ Y = X \cup {node} /\ X \subseteq DOMAIN h
    BY <1>4, <1>14, <1>18, Zenon DEF Ring
  <2>2. DOMAIN g = DOMAIN h \cup {node} /\ \A a \in DOMAIN h : a # pred /\ a # pos => g[a] = h[a]
    BY <1>12 DEF Linked
  <2>3. pred \in X /\ pos \in X
    BY <1>9, <2>1
  <2> QED  BY <1>2, <2>1, <2>2, <2>3 DEF Traded
<1>20. g \in Heaps(Cells)
  BY <1>12 DEF Linked
<1>21. Circles(g, t)
  BY <1>1, <1>17, <1>18, <1>19, <1>20, CirclesReplaced, Zenon
<1>22. PICK s0, m0, y0, q0 : s0 = s /\ m0 = m /\ y0 = y /\ q0 = q
  OBVIOUS
<1>23. ListsIn(s0, m0, cs) /\ e \in ListRecords \cup {Absent} /\ y0 = [s0 EXCEPT ![v] = e] /\ q0 \in Memory(Cells) /\ q0.heap = g
  BY <1>0, <1>15, <1>20, <1>22, MemoryIs DEF Sound
<1>24. ListsIn(y0, q0, t)
  BY <1>17, <1>18, <1>20, <1>21, <1>23, ListGets, Zenon
<1> QED  BY <1>22, <1>24

(* v once it has a sentinel: where a node may go in *)
WithSentinel(v, h, r, c) ==
  /\ r = [obj[v] EXCEPT !.sentinel = L!Sentinel(v)] /\ h = L!ensure_sentinel(v).heap
  /\ r.sentinel = L!Sentinel(v) /\ Ring(h, c, r.size) /\ c[0] = r.sentinel
Spot(v, pos) == \A h, r, c : WithSentinel(v, h, r, c) => pos \in On(c)

LEMMA ListLinks ==
  ASSUME ListsOK, NEW v \in Vec, obj[v] # Absent, NEW x \in Item, NEW pos, Spot(v, pos), NEW a, L!LinkNew(a, v, x, pos)
  PROVE  ListsOK'
<1>1. PICK cs : ListsIn(obj, mem, cs)
  BY DEF ListsOK
<1>2. PICK l, m, r, s : l = obj[v] /\ m = L!ensure_sentinel(v) /\ r = [obj[v] EXCEPT !.sentinel = L!Sentinel(v)]
                     /\ s = [obj EXCEPT ![v] = r]
  BY Zenon
<1>3. l \in ListRecords /\ obj \in [Vec -> ListRecords \cup {Absent}] /\ mem \in Memory(Cells)
  BY <1>1, <1>2 DEF ListsIn
<1>4. r.sentinel = L!Sentinel(v) /\ r.size = l.size
  BY <1>2, <1>3 DEF ListRecords
<1>5. CASE mem' = mem /\ obj' = [obj EXCEPT ![v] = obj[v]]
  BY <1>5, ListThrow, Zenon
<1>6. PICK node, h : node = L!Fresh(m, 0) /\ h = m.heap
  OBVIOUS
<1>7. PICK g, e : g = L!link_before(L!With(h, node, L!Node(Null, Null, x)), pos, node) /\ e = [r EXCEPT !.size = @ + 1]
  BY Zenon
<1>8. \/ mem' = mem /\ obj' = [obj EXCEPT ![v] = obj[v]]
      \/ r # l /\ L!HasRoom(mem, 1) /\ mem' = m /\ obj' = s
      \/ /\ L!HasRoom(mem, IF r = l THEN 1 ELSE 2)
         /\ mem' = [m EXCEPT !.heap = g] /\ obj' = [obj EXCEPT ![v] = e]
  BY <1>2, <1>6, <1>7, Zenon DEF L!LinkNew, L!Throw, L!Return, L!End
(* there is a place for another node *)
<1>9. ASSUME NEW cd, ListsIn(s, m, cd), r \in ListRecords, r.sentinel # Null, L!HasRoom(m, 1),
             mem' = [m EXCEPT !.heap = g], obj' = [obj EXCEPT ![v] = e]
      PROVE  ListsOK'
  <2>1. PICK c, q, y : c = cd[v] /\ q = Sound(g) /\ y = [s EXCEPT ![v] = e]
    BY Zenon
  <2>2. r = s[v] /\ r # Absent
    BY <1>2, <1>3, <1>9, SingleThreadedAssumption DEF ListRecords, Address
  <2>3. Described(h, r, c)
    BY <1>6, <1>9, <2>1, <2>2, ListOf
  <2>4. Ring(h, c, r.size) /\ c[0] = r.sentinel
    BY <1>9, <2>3 DEF Described
  <2>5. pos \in On(c)
    <3>1. WithSentinel(v, h, r, c)
      BY <1>2, <1>4, <1>6, <2>4 DEF WithSentinel
    <3> QED  BY <3>1 DEF Spot
  <2>6. \E t : ListsIn(y, q, t)
    <3>1. LinkedIn(m, node, x, pos, g)
      BY <1>6, <1>7 DEF LinkedIn
    <3>2. Longer(r, e)
      BY <1>7, <1>9 DEF ListRecords, Longer
    <3>3. HasPlace(s, m, cd, v, r)
      BY <1>6, <1>9, <2>1, <2>2, <2>4 DEF HasPlace
    <3> QED  BY <2>1, <2>5, <3>1, <3>2, <3>3, ListPushed, Zenon
  <2>7. mem' = q
    <3>1. m \in Memory(Cells)
      BY <1>9 DEF ListsIn
    <3>2. m = [heap |-> h, sound |-> TRUE]
      BY <1>6, <3>1, Zenon DEF Memory
    <3>3. mem' = [m EXCEPT !.heap = g]
      BY <1>9
    <3>4. PICK p : p = [m EXCEPT !.heap = g]
      BY Zenon
    <3>5. p = Sound(g)
      BY <3>2, <3>4, HeapReplaced
    <3> QED  BY <2>1, <3>3, <3>4, <3>5
  <2>8. obj' = y
    BY <1>2, <1>3, <1>9, <2>1, Zenon
  <2> QED  BY <2>6, <2>7, <2>8 DEF ListsOK
<1>10. CASE l.sentinel # Null
  <2>1. r = l /\ m = mem /\ s = obj
    BY <1>2, <1>3, <1>10 DEF L!Sentinel, L!ensure_sentinel, ListRecords
  <2> QED  BY <1>1, <1>3, <1>5, <1>8, <1>9, <1>10, <2>1
<1>11. ASSUME l.sentinel = Null, L!HasRoom(mem, 1)
       PROVE  /\ r \in ListRecords /\ r.sentinel # Null /\ Cardinality(DOMAIN m.heap) = Cardinality(DOMAIN mem.heap) + 1
              /\ \E cd : ListsIn(s, m, cd)
  <2>1. obj[v].sentinel = Null
    BY <1>2, <1>11
  <2>2. /\ L!Sentinel(v) \in Address /\ Cardinality(DOMAIN m.heap) = Cardinality(DOMAIN mem.heap) + 1
        /\ \E d : ListsIn(s, m, [cs EXCEPT ![v] = d])
    BY <1>1, <1>2, <1>11, <2>1, SentinelMade, Zenon
  <2>3. r \in ListRecords /\ r.sentinel # Null
    BY <1>2, <1>3, <1>4, <2>2, NullIsNoAddress DEF ListRecords
  <2> QED  BY <2>2, <2>3
<1>12. ASSUME l.sentinel = Null, L!HasRoom(mem, 1), mem' = m, obj' = s
       PROVE  ListsOK'
  BY <1>11, <1>12 DEF ListsOK
<1>13. ASSUME l.sentinel = Null, L!HasRoom(mem, IF r = l THEN 1 ELSE 2), mem' = [m EXCEPT !.heap = g], obj' = [obj EXCEPT ![v] = e]
       PROVE  ListsOK'
  <2>1. PICK b : b = IF r = l THEN 1 ELSE 2
    OBVIOUS
  <2>2. Cardinality(DOMAIN mem.heap) \in Nat /\ MaxCapacity \in Nat
    <3>1. PICK h0 : h0 = mem.heap
      OBVIOUS
    <3>2. h0 \in Heaps(Cells)
      BY <1>3, <3>1 DEF Memory
    <3>3. IsFiniteSet(DOMAIN h0)
      BY <3>2, HeapType
    <3> QED  BY <3>1, <3>3, FS_CardinalityType, SingleThreadedAssumption
  <2>3. Cardinality(DOMAIN mem.heap) + b <= MaxCapacity + 1
    BY <1>13, <2>1, ListRoom
  <2>4. L!HasRoom(mem, 1)
    <3>1. Cardinality(DOMAIN mem.heap) + 1 <= MaxCapacity + 1
      BY <2>1, <2>2, <2>3
    <3> QED  BY <3>1, ListRoom
  <2>5. /\ r \in ListRecords /\ r.sentinel # Null /\ Cardinality(DOMAIN m.heap) = Cardinality(DOMAIN mem.heap) + 1
        /\ \E cd : ListsIn(s, m, cd)
    BY <1>11, <1>13, <2>4
  <2>6. b = 2
    BY <1>13, <2>1, <2>5
  <2>7. Cardinality(DOMAIN h) + 1 <= MaxCapacity + 1
    BY <1>6, <2>2, <2>3, <2>5, <2>6
  <2>8. L!HasRoom(m, 1)
    BY <1>6, <2>7, ListRoom
  <2> QED  BY <1>9, <1>13, <2>5, <2>8
<1> QED  BY <1>5, <1>8, <1>10, <1>12, <1>13, ListThrow

LEMMA ListPushBack ==
  ASSUME ListsOK, NEW v \in Vec, NEW x \in Item, L!push_back(v, x)
  PROVE  ListsOK'
<1>1. obj[v] # Absent /\ L!LinkNew(<<"push_back", v, x>>, v, x, L!Sentinel(v))
  BY DEF L!push_back, L!InScope
<1>2. PICK pos, a : pos = L!Sentinel(v) /\ a = <<"push_back", v, x>>
  BY Zenon
<1>3. ASSUME NEW h, NEW r, NEW c, WithSentinel(v, h, r, c) PROVE pos \in On(c)
  <2>1. Ring(h, c, r.size) /\ pos = c[0]
    BY <1>2, <1>3 DEF WithSentinel
  <2>2. 0 \in 0 .. r.size
    BY <2>1 DEF Ring
  <2> QED  BY <2>1, <2>2, RingOn
<1>4. Spot(v, pos)
  BY <1>3 DEF Spot
<1>5. L!LinkNew(a, v, x, pos)
  BY <1>1, <1>2
<1> QED  BY <1>1, <1>4, <1>5, ListLinks

LEMMA ListPushFront ==
  ASSUME ListsOK, NEW v \in Vec, NEW x \in Item, L!push_front(v, x)
  PROVE  ListsOK'
<1>1. obj[v] # Absent /\ L!LinkNew(<<"push_front", v, x>>, v, x, L!ensure_sentinel(v).heap[L!Sentinel(v)].next)
  BY DEF L!push_front, L!InScope
<1>2. PICK pos, a : pos = L!ensure_sentinel(v).heap[L!Sentinel(v)].next /\ a = <<"push_front", v, x>>
  BY Zenon
<1>3. ASSUME NEW h, NEW r, NEW c, WithSentinel(v, h, r, c) PROVE pos \in On(c)
  <2>1. Ring(h, c, r.size) /\ pos = h[c[0]].next
    BY <1>2, <1>3 DEF WithSentinel
  <2>2. PICK n, i : n = r.size /\ i = After(n, 0)
    OBVIOUS
  <2>3. Ring(h, c, n) /\ 0 \in 0 .. n /\ i \in 0 .. n
    <3>1. n \in Nat
      BY <2>1, <2>2 DEF Ring
    <3> QED  BY <2>1, <2>2, <3>1, RingAfter
  <2>4. pos = c[i]
    BY <2>1, <2>2, <2>3, Zenon DEF Ring
  <2> QED  BY <2>3, <2>4, RingOn
<1>4. Spot(v, pos)
  BY <1>3 DEF Spot
<1>5. L!LinkNew(a, v, x, pos)
  BY <1>1, <1>2
<1> QED  BY <1>1, <1>4, <1>5, ListLinks

LEMMA ListInsert ==
  ASSUME ListsOK, NEW v \in Vec, NEW x \in Item, NEW at \in L!Positions(v), L!insert(v, at, x)
  PROVE  ListsOK'
<1>1. PICK cs : ListsIn(obj, mem, cs)
  BY DEF ListsOK
<1>2. PICK pos : pos = L!to_node(v, at)
  OBVIOUS
<1>3. obj[v] # Absent /\ \E a : L!LinkNew(a, v, x, pos)
  BY <1>2, Zenon DEF L!insert, L!InScope
<1>4. ASSUME NEW h, NEW r, NEW c, WithSentinel(v, h, r, c) PROVE pos \in On(c)
  <2>1. Ring(h, c, r.size) /\ L!Sentinel(v) = c[0]
    BY <1>4 DEF WithSentinel
  <2>2. CASE pos = L!Sentinel(v)
    <3>1. 0 \in 0 .. r.size
      BY <2>1 DEF Ring
    <3> QED  BY <2>1, <2>2, <3>1, RingOn
  <2>3. CASE pos # L!Sentinel(v)
    <3>1. pos = at /\ at # Null
      BY <1>2, <2>3 DEF L!to_node
    <3>2. at \in L!Elements(v) \cup {Null} \cup {obj[v].sentinel}
      BY <1>3 DEF L!Positions, L!InScope
    <3>3. at \in L!Elements(v)
      BY <2>3, <3>1, <3>2 DEF L!Sentinel
    <3>4. PICK h0, l, c0 : h0 = mem.heap /\ l = obj[v] /\ c0 = cs[v]
      OBVIOUS
    <3>5. Described(h0, l, c0) /\ at \in L!Range(L!Nodes(h0, l))
      <4>1. Described(h0, l, c0)
        BY <1>1, <1>3, <3>4, ListOf
      <4> QED  BY <1>3, <3>3, <3>4, <4>1, Zenon DEF L!Elements, L!InScope
    <3>6. l.sentinel # Null /\ l \in ListRecords
      BY <3>5, NodesAre DEF Described
    <3>7. r = l /\ h = h0 /\ r.sentinel # Null
      BY <1>4, <3>4, <3>6 DEF WithSentinel, L!Sentinel, L!ensure_sentinel, ListRecords
    <3>8. Described(h, r, c) /\ at \in L!Range(L!Nodes(h, r))
      BY <1>4, <3>5, <3>6, <3>7 DEF WithSentinel, Described
    <3>9. PICK k \in 1 .. r.size : at = c[k]
      BY <3>8, NodesAre
    <3>10. k \in 0 .. r.size
      BY <2>1 DEF Ring
    <3> QED  BY <2>1, <3>1, <3>9, <3>10, RingOn
  <2> QED  BY <2>2, <2>3
<1>5. Spot(v, pos)
  BY <1>4 DEF Spot
<1>6. PICK a : L!LinkNew(a, v, x, pos)
  BY <1>3
<1> QED  BY <1>3, <1>5, <1>6, ListLinks

(* a node less *)
LEMMA ListUnlinks ==
  ASSUME NEW cs, ListsIn(obj, mem, cs), NEW v \in Vec, obj[v] # Absent, obj[v].sentinel # Null,
         NEW k \in 1 .. obj[v].size, NEW node, node = cs[v][k],
         mem' = L!Unlinked(v, node), obj' = [obj EXCEPT ![v] = L!Shorter(v)]
  PROVE  ListsOK'
<1>1. PICK h, r, c, n : h = mem.heap /\ r = obj[v] /\ c = cs[v] /\ n = r.size
  OBVIOUS
<1>2. Described(h, r, c)
  BY <1>1, ListOf
<1>3. Ring(h, c, n) /\ c[0] = r.sentinel /\ r \in ListRecords /\ n \in Nat /\ k \in 1 .. n /\ node = c[k] /\ r.sentinel # Null
  BY <1>1, <1>2, Zenon DEF Described, Ring
<1>4. Circles(h, cs) /\ h \in Heaps(Cells) /\ mem = [heap |-> h, sound |-> TRUE]
  BY <1>1, Zenon DEF ListsIn, Circles, Memory
<1>5. PICK pred, succ, i : pred = c[k - 1] /\ succ = c[i] /\ i = After(n, k)
  OBVIOUS
<1>6. k \in 0 .. n /\ k - 1 \in 0 .. n /\ i \in 0 .. n /\ i # k /\ k - 1 # k /\ After(n, k - 1) = k
  BY <1>3, <1>5 DEF After
<1>7. /\ pred \in DOMAIN h /\ succ \in DOMAIN h /\ node \in DOMAIN h
      /\ pred = h[node].prev /\ succ = h[node].next /\ pred # node /\ succ # node
  <2>1. pred \in DOMAIN h /\ succ \in DOMAIN h /\ node \in DOMAIN h
    BY <1>3, <1>5, <1>6, RingOn
  <2>2. h[c[k]].next = c[After(n, k)] /\ h[c[After(n, k - 1)]].prev = c[k - 1]
    BY <1>3, <1>6, Zenon DEF Ring
  <2>3. pred # node /\ succ # node
    BY <1>3, <1>5, <1>6 DEF Ring
  <2> QED  BY <1>3, <1>5, <1>6, <2>1, <2>2, <2>3
<1>8. PICK f, g : f = L!unlink(h, node) /\ g = Without(f, {node})
  OBVIOUS
<1>9. Cut(h, g, node, pred, succ) /\ DOMAIN f = DOMAIN h
  BY <1>4, <1>7, <1>8, UnlinkCuts
<1>10. PICK d : d = Erased(c, n, k)
  OBVIOUS
<1>11. Ring(g, d, n - 1) /\ On(d) = On(c) \ {node} /\ d[0] = c[0]
  <2>1. Neighbours(c, n, k, node, pred, succ)
    BY <1>3, <1>5 DEF Neighbours
  <2>2. RingWithout(g, d, c, n, node)
    BY <1>3, <1>9, <1>10, <2>1, RingErased
  <2> QED  BY <2>2 DEF RingWithout
<1>12. PICK e, q : e = [r EXCEPT !.size = @ - 1] /\ q = [heap |-> g, sound |-> TRUE]
  BY Zenon
<1>13. e.sentinel = r.sentinel /\ e.size = n - 1 /\ e \in ListRecords
  BY <1>1, <1>3, <1>12 DEF ListRecords
<1>14. Described(g, e, d)
  BY <1>3, <1>11, <1>13 DEF Described
<1>15. Matches(e, d) /\ IsCircle(g, d)
  BY <1>14, ListMatches
<1>16. PICK X, Y, t : X = On(cs[v]) /\ Y = On(d) /\ t = [cs EXCEPT ![v] = d]
  BY Zenon
<1>17. g \in Heaps(Cells)
  BY <1>9 DEF Cut
<1>18. Traded(h, X, Y, g)
  <2>1. X = On(c) /\ Y = X \ {node} /\ X \subseteq DOMAIN h /\ node \in X
    <3>1. On(c) \subseteq DOMAIN h
      BY <1>3 DEF Ring
    <3>2. node \in On(c)
      BY <1>3, <1>6, RingOn
    <3> QED  BY <1>1, <1>11, <1>16, <3>1, <3>2
  <2>2. DOMAIN g = DOMAIN h \ {node} /\ \A a \in DOMAIN g : a # pred /\ a # succ => g[a] = h[a]
    BY <1>9 DEF Cut
  <2>3. pred \in X /\ succ \in X
    BY <1>3, <1>5, <1>6, <2>1, RingOn
  <2> QED  BY <2>1, <2>2, <2>3 DEF Traded
<1>19. Circles(g, t)
  BY <1>4, <1>15, <1>16, <1>17, <1>18, CirclesReplaced, Zenon
<1>20. PICK s, m, y : s = obj /\ m = mem /\ y = obj'
  OBVIOUS
<1>21. y = [s EXCEPT ![v] = e]
  BY <1>1, <1>12, <1>20 DEF L!Shorter
<1>22. ListsIn(s, m, cs) /\ e \in ListRecords \cup {Absent} /\ q \in Memory(Cells) /\ q.heap = g
  BY <1>12, <1>13, <1>17, <1>20, MemoryIs
<1>23. ListsIn(y, q, t)
  BY <1>15, <1>16, <1>17, <1>19, <1>21, <1>22, ListGets, Zenon
<1>24. mem' = q
  <2>1. PICK p : p = [mem EXCEPT !.heap = L!unlink(@, node)]
    BY Zenon
  <2>2. p = [heap |-> f, sound |-> TRUE]
    BY <1>4, <1>8, <2>1, Zenon
  <2>3. mem' = L!delete(p, {node})
    BY <2>1, Zenon DEF L!Unlinked
  <2>4. mem' = [heap |-> L!Without(p.heap, {node}), sound |-> p.sound /\ {node} \subseteq DOMAIN p.heap]
    BY <2>3, Zenon DEF L!delete
  <2>5. L!Without(p.heap, {node}) = g
    BY <1>8, <2>2, ListHeap
  <2>6. p.sound /\ {node} \subseteq DOMAIN p.heap
    BY <1>7, <1>9, <2>2
  <2> QED  BY <1>12, <2>4, <2>5, <2>6, Zenon
<1> QED  BY <1>20, <1>23, <1>24 DEF ListsOK

LEMMA ListErase ==
  ASSUME ListsOK, NEW v \in Vec, NEW node \in L!Elements(v), L!erase(v, node)
  PROVE  ListsOK'
<1>1. PICK cs : ListsIn(obj, mem, cs)
  BY DEF ListsOK
<1>2. obj[v] # Absent /\ mem' = L!Unlinked(v, node) /\ obj' = [obj EXCEPT ![v] = L!Shorter(v)]
  BY Zenon DEF L!erase, L!InScope, L!Return, L!End
<1>3. PICK h, r, c : h = mem.heap /\ r = obj[v] /\ c = cs[v]
  OBVIOUS
<1>4. Described(h, r, c) /\ node \in L!Range(L!Nodes(h, r))
  <2>1. Described(h, r, c)
    BY <1>1, <1>2, <1>3, ListOf
  <2> QED  BY <1>2, <1>3, <2>1, Zenon DEF L!Elements, L!InScope
<1>5. r.sentinel # Null /\ \E k \in 1 .. r.size : node = c[k]
  BY <1>4, NodesAre
<1>6. PICK k \in 1 .. obj[v].size : node = cs[v][k]
  BY <1>3, <1>5
<1>7. obj[v].sentinel # Null
  BY <1>3, <1>5
<1> QED  BY <1>1, <1>2, <1>6, <1>7, ListUnlinks, Zenon

LEMMA ListPop ==
  ASSUME ListsOK, NEW v \in Vec, L!pop_back(v) \/ L!pop_front(v)
  PROVE  ListsOK'
<1>1. PICK cs : ListsIn(obj, mem, cs)
  BY DEF ListsOK
<1>2. /\ obj[v] # Absent /\ obj[v].size > 0 /\ obj' = [obj EXCEPT ![v] = L!Shorter(v)]
      /\ \/ mem' = L!Unlinked(v, mem.heap[obj[v].sentinel].prev)
         \/ mem' = L!Unlinked(v, mem.heap[obj[v].sentinel].next)
  BY Zenon DEF L!pop_back, L!pop_front, L!InScope, L!Return, L!End
<1>3. PICK h, r, c, n : h = mem.heap /\ r = obj[v] /\ c = cs[v] /\ n = r.size
  OBVIOUS
<1>4. Described(h, r, c)
  BY <1>1, <1>2, <1>3, ListOf
<1>5. r.sentinel # Null /\ Ring(h, c, n) /\ c[0] = r.sentinel /\ n \in Nat /\ n > 0
  <2>1. n > 0
    BY <1>2, <1>3
  <2>2. r.sentinel # Null /\ Ring(h, c, n) /\ c[0] = r.sentinel
    BY <1>3, <1>4, <2>1 DEF Described
  <2>3. n \in Nat
    BY <2>2 DEF Ring
  <2> QED  BY <2>1, <2>2, <2>3
<1>6. 1 \in 1 .. n /\ n \in 1 .. n /\ 0 \in 0 .. n /\ n \in 0 .. n /\ After(n, 0) = 1 /\ After(n, n) = 0
  BY <1>5 DEF After
<1>7. h[c[0]].next = c[1] /\ h[c[0]].prev = c[n]
  BY <1>5, <1>6 DEF Ring
<1>8. \E k \in 1 .. n : mem' = L!Unlinked(v, c[k])
  BY <1>2, <1>3, <1>5, <1>6, <1>7
<1>9. PICK k \in 1 .. obj[v].size : mem' = L!Unlinked(v, cs[v][k])
  BY <1>3, <1>8
<1>10. PICK node : node = cs[v][k]
  OBVIOUS
<1>11. mem' = L!Unlinked(v, node) /\ obj[v].sentinel # Null
  BY <1>3, <1>5, <1>9, <1>10
<1> QED  BY <1>1, <1>2, <1>9, <1>10, <1>11, ListUnlinks, Zenon

LEMMA ListNext ==
  ASSUME ListsOK, L!Next \/ UNCHANGED <<obj, mem>>
  PROVE  ListsOK'
<1>1. CASE UNCHANGED <<obj, mem>>
  BY <1>1 DEF ListsOK
<1>2. ASSUME NEW v \in Vec, L!DefaultCtor(v) PROVE ListsOK'
  <2>1. PICK cs : ListsIn(obj, mem, cs)
    BY DEF ListsOK
  <2>2. obj[v] = Absent /\ mem' = mem /\ obj' = [obj EXCEPT ![v] = L!Empty]
    BY <1>2 DEF L!DefaultCtor, L!InScope, L!Return, L!End
  <2>3. DOMAIN cs[v] = {}
    <3>1. Matches(obj[v], cs[v])
      BY <2>1 DEF ListsIn
    <3> QED  BY <2>2, <3>1, SingleThreadedAssumption DEF Matches, ListRecords, Address
  <2>4. Matches(L!Empty, cs[v]) /\ L!Empty \in ListRecords
    BY <2>3, EmptyMatches, Zenon
  <2>5. ListsIn(obj', mem', cs)
    <3>1. obj \in [Vec -> ListRecords \cup {Absent}] /\ \A u \in Vec : Matches(obj[u], cs[u])
      BY <2>1 DEF ListsIn
    <3>2. obj' \in [Vec -> ListRecords \cup {Absent}]
      BY <2>2, <2>4, <3>1
    <3>3. \A u \in Vec : obj'[u] = IF u = v THEN L!Empty ELSE obj[u]
      BY <2>2, <3>1
    <3>4. \A u \in Vec : Matches(obj'[u], cs[u])
      BY <2>4, <3>1, <3>3
    <3> QED  BY <2>1, <2>2, <3>2, <3>4 DEF ListsIn
  <2> QED  BY <2>5 DEF ListsOK
<1>3. ASSUME NEW v \in Vec, L!Destructor(v) \/ L!clear(v) PROVE ListsOK'
  <2>1. /\ obj[v] # Absent /\ mem' = L!destroy(mem, obj[v].sentinel, obj[v].size)
        /\ \E r \in {Absent, L!Empty} : obj' = [obj EXCEPT ![v] = r]
    BY <1>3 DEF L!Destructor, L!clear, L!InScope, L!Return, L!End
  <2> QED  BY <2>1, ListGone, Zenon
<1>4. ASSUME NEW v \in Vec, NEW w \in Vec, L!CopyCtor(v, w) \/ L!CopyAssign(v, w) \/ L!MoveCtor(v, w) \/ L!MoveAssign(v, w)
      PROVE  ListsOK'
  BY <1>4, ListCopyCtor, ListCopyAssign, ListMoveCtor, ListMoveAssign
<1>5. ASSUME NEW v \in Vec, NEW x \in Item, L!push_back(v, x) \/ L!push_front(v, x) PROVE ListsOK'
  BY <1>5, ListPushBack, ListPushFront
<1> QED  BY <1>1, <1>2, <1>3, <1>4, <1>5, ListInsert, ListErase, ListPop DEF L!Next

LEMMA ListImplies ==
  ASSUME ListsOK
  PROVE  L!LinksWellFormed
<1>1. PICK cs : ListsIn(obj, mem, cs)
  BY DEF ListsOK
<1>2. PICK h : h = mem.heap
  OBVIOUS
<1>3. mem.sound /\ Circles(h, cs)
  BY <1>1, <1>2, Zenon DEF ListsIn, Memory
<1>4. ASSUME NEW v \in Vec
      PROVE  /\ L!Circle(v) = On(cs[v])
             /\ obj[v] # Absent =>
                  IF obj[v].sentinel = Null THEN obj[v].size = 0
                  ELSE /\ Cardinality(L!Circle(v)) = obj[v].size + 1
                       /\ L!Walk(mem.heap, obj[v].sentinel, obj[v].size + 1)[obj[v].size + 1] = obj[v].sentinel
  <2>1. CASE obj[v] = Absent
    <3>1. Matches(obj[v], cs[v])
      BY <1>1 DEF ListsIn
    <3>2. DOMAIN cs[v] = {}
      BY <2>1, <3>1, SingleThreadedAssumption DEF Matches, ListRecords, Address
    <3>3. L!Circle(v) = {}
      BY <2>1 DEF L!Circle, L!InScope
    <3> QED  BY <2>1, <3>2, <3>3 DEF On
  <2>2. CASE obj[v] # Absent
    <3>1. PICK r, c : r = obj[v] /\ c = cs[v]
      OBVIOUS
    <3>2. Described(h, r, c)
      BY <1>1, <1>2, <2>2, <3>1, ListOf
    <3>3. CASE r.sentinel = Null
      <4>1. r.size = 0 /\ DOMAIN c = {}
        BY <3>2, <3>3 DEF Described
      <4>2. L!Circle(v) = {}
        BY <3>1, <3>3 DEF L!Circle
      <4> QED  BY <3>1, <3>3, <4>1, <4>2 DEF On
    <3>4. CASE r.sentinel # Null
      <4>1. PICK n, a, k : n = r.size /\ a = r.sentinel /\ k = n + 1
        OBVIOUS
      <4>2. Ring(h, c, n) /\ a = c[0]
        BY <3>2, <3>4, <4>1 DEF Described
      <4>3. n \in Nat /\ k \in Nat /\ n <= n + 1 /\ k <= n + 1 /\ k \in 0 .. k /\ ~ (k <= n) /\ DOMAIN c = 0 .. n
        <5>1. n \in Nat /\ DOMAIN c = 0 .. n
          BY <4>2 DEF Ring
        <5> QED  BY <4>1, <5>1
      <4>4. Path(h, c, n) /\ h[c[n]].next = c[0]
        BY <4>2, RingIsPath
      <4>5. PICK w, z : w = L!Walk(h, a, n) /\ z = L!Walk(h, a, k)
        OBVIOUS
      <4>6. \A i \in 0 .. n : w[i] = IF i <= n THEN c[i] ELSE c[0]
        BY <4>2, <4>3, <4>4, <4>5, RingWalk
      <4>7. \A i \in 0 .. k : z[i] = IF i <= n THEN c[i] ELSE c[0]
        BY <4>2, <4>3, <4>4, <4>5, RingWalk
      <4>8. z[k] = a
        BY <4>2, <4>3, <4>7
      <4>9. L!Circle(v) = {w[i] : i \in 0 .. n}
        BY <1>2, <2>2, <3>1, <3>4, <4>1, <4>5, Zenon DEF L!Circle, L!InScope
      <4>10. L!Circle(v) = On(c)
        BY <4>3, <4>6, <4>9 DEF On
      <4>11. Cardinality(On(c)) = n + 1
        BY <4>4, RingSize
      <4> QED  BY <1>2, <3>1, <3>4, <4>1, <4>5, <4>8, <4>10, <4>11
    <3> QED  BY <3>3, <3>4
  <2> QED  BY <2>1, <2>2
<1>5. UNION {L!Circle(v) : v \in Vec} = DOMAIN h
  <2>1. \A v \in Vec : On(cs[v]) \subseteq DOMAIN h
    BY <1>3, CircleOn DEF Circles
  <2>2. \A a \in DOMAIN h : \E v \in Vec : a \in On(cs[v])
    BY <1>3 DEF Circles
  <2>3. \A v \in Vec : L!Circle(v) = On(cs[v])
    BY <1>4
  <2>4. ASSUME NEW a \in UNION {L!Circle(v) : v \in Vec} PROVE a \in DOMAIN h
    BY <2>1, <2>3
  <2>5. ASSUME NEW a \in DOMAIN h PROVE a \in UNION {L!Circle(v) : v \in Vec}
    <3>1. PICK v \in Vec : a \in L!Circle(v)
      BY <2>2, <2>3
    <3> QED  BY <3>1
  <2> QED  BY <2>4, <2>5
<1>6. \A v, w \in Vec : v # w => L!Circle(v) \cap L!Circle(w) = {}
  <2> SUFFICES ASSUME NEW v \in Vec, NEW w \in Vec, v # w PROVE L!Circle(v) \cap L!Circle(w) = {}
    OBVIOUS
  <2>1. L!Circle(v) = On(cs[v]) /\ L!Circle(w) = On(cs[w])
    BY <1>4
  <2> QED  BY <1>3, <2>1 DEF Circles
<1>7. ASSUME NEW a \in DOMAIN h PROVE h[h[a].next].prev = a
  <2>1. PICK v \in Vec : a \in On(cs[v])
    BY <1>3 DEF Circles
  <2>2. PICK c : c = cs[v]
    OBVIOUS
  <2>3. IsCircle(h, c) /\ a \in On(c)
    BY <1>3, <2>1, <2>2 DEF Circles
  <2>4. PICK n : Ring(h, c, n)
    BY <2>3 DEF IsCircle, On
  <2>5. PICK i \in 0 .. n : a = c[i]
    BY <2>3, <2>4 DEF On, Ring
  <2>6. h[c[i]].next = c[After(n, i)] /\ h[c[After(n, i)]].prev = c[i]
    BY <2>4 DEF Ring
  <2> QED  BY <2>5, <2>6
<1>8. \A v \in {u \in Vec : obj[u] # Absent} :
        IF obj[v].sentinel = Null THEN obj[v].size = 0
        ELSE /\ L!Cardinality(L!Circle(v)) = obj[v].size + 1
             /\ L!Walk(mem.heap, obj[v].sentinel, obj[v].size + 1)[obj[v].size + 1] = obj[v].sentinel
  BY <1>4, ListCardinality
<1> QED  BY <1>2, <1>3, <1>5, <1>6, <1>7, <1>8, Zenon DEF L!LinksWellFormed, L!InScope

-----------------------------------------------------------------------------
(* All of them.  A call of a vector without a clean-up that threw may have *)
(* lost its elements: theirs is the invariant of what does not do so.      *)
Subject == {"vector", "vector2", "list", "string", "shape", "custom_vtable",
            "unique_ptr", "pool", "arena", "event_manager"}
IInv ==
  /\ subject \in Subject
  /\ subject \in {"vector", "vector2"} /\ ~Unguarded => VecsOK
  /\ subject = "list" => ListsOK
  /\ subject = "string" => StringOK
  /\ subject = "shape" => ShapeOK
  /\ subject = "custom_vtable" => CustomOK
  /\ subject = "unique_ptr" => UniquesOK
  /\ subject = "pool" => PoolOK
  /\ subject = "arena" => ArenaOK
  /\ subject = "event_manager" => EventsOK

LEMMA InitIInv == ASSUME Init PROVE IInv
<1>1. CASE subject = "vector" /\ V!Init
  BY <1>1, VectorInit DEF IInv, Subject
<1>2. CASE subject = "vector2" /\ V2!Init
  BY <1>2, Vector2Init DEF IInv, Subject
<1>3. CASE subject = "list" /\ L!Init
  BY <1>3, ListInit DEF IInv, Subject
<1>4. CASE subject = "string" /\ S!Init
  BY <1>4, StringInit DEF IInv, Subject
<1>5. CASE subject = "shape" /\ E!Init
  BY <1>5, ShapeInit DEF IInv, Subject
<1>6. CASE subject = "custom_vtable" /\ C!Init
  BY <1>6, CustomInit DEF IInv, Subject
<1>7. CASE subject = "unique_ptr" /\ U!Init
  BY <1>7, UniqueInit DEF IInv, Subject
<1>8. CASE subject = "pool" /\ P!Init
  BY <1>8, PoolInit DEF IInv, Subject
<1>9. CASE subject = "arena" /\ A!Init
  BY <1>9, ArenaInit DEF IInv, Subject
<1>10. CASE subject = "event_manager" /\ M!Init
  BY <1>10, EventsInit DEF IInv, Subject
<1> QED  BY <1>1, <1>2, <1>3, <1>4, <1>5, <1>6, <1>7, <1>8, <1>9, <1>10 DEF Init

LEMMA Unchanged == ASSUME IInv, UNCHANGED vars PROVE IInv'
<1>1. subject \in Subject /\ UNCHANGED <<subject, obj, mem, aux>>
  BY DEF IInv, vars
<1>2. ASSUME VecsOK PROVE VecsOK'
  BY <1>1, <1>2 DEF VecsOK, VecsIn
<1>3. ASSUME ListsOK PROVE ListsOK'
  BY <1>1, <1>3 DEF ListsOK
<1>4. ASSUME StringOK PROVE StringOK'
  BY <1>1, <1>4 DEF StringOK
<1>5. ASSUME ShapeOK PROVE ShapeOK'
  BY <1>1, <1>5 DEF ShapeOK
<1>6. ASSUME CustomOK PROVE CustomOK'
  BY <1>1, <1>6 DEF CustomOK
<1>7. ASSUME UniquesOK PROVE UniquesOK'
  BY <1>1, <1>7 DEF UniquesOK
<1>8. ASSUME PoolOK PROVE PoolOK'
  BY <1>1, <1>8 DEF PoolOK, PoolTypeOK, OneAllocatorEach, Owns
<1>9. ASSUME ArenaOK PROVE ArenaOK'
  BY <1>1, <1>9 DEF ArenaOK
<1>10. ASSUME EventsOK PROVE EventsOK'
  BY <1>1, <1>10 DEF EventsOK, EventsTypeOK, SnapshotsRun
<1> QED
  <2>1. UNCHANGED subject
    BY <1>1
  <2> QED  BY <2>1, <1>2, <1>3, <1>4, <1>5, <1>6, <1>7, <1>8, <1>9, <1>10 DEF IInv

LEMMA NextIInv == ASSUME IInv, Next PROVE IInv'
<1>1. UNCHANGED subject
  BY DEF Next
<1>2. CASE subject = "vector" /\ V!Next
  BY <1>1, <1>2, VectorNext DEF IInv, Subject
<1>3. CASE subject = "vector2" /\ V2!Next
  BY <1>1, <1>3, Vector2Next DEF IInv, Subject
<1>4. CASE subject = "list" /\ L!Next
  BY <1>1, <1>4, ListNext DEF IInv, Subject
<1>5. CASE subject = "string" /\ S!Next
  BY <1>1, <1>5, StringNext DEF IInv, Subject
<1>6. CASE subject = "shape" /\ E!Next
  BY <1>1, <1>6, ShapeNext DEF IInv, Subject
<1>7. CASE subject = "custom_vtable" /\ C!Next
  BY <1>1, <1>7, CustomNext DEF IInv, Subject
<1>8. CASE subject = "unique_ptr" /\ U!Next
  BY <1>1, <1>8, UniqueNext DEF IInv, Subject
<1>9. CASE subject = "pool" /\ P!Next
  BY <1>1, <1>9, PoolNext DEF IInv, Subject
<1>10. CASE subject = "arena" /\ A!Next
  BY <1>1, <1>10, ArenaNext DEF IInv, Subject
<1>11. CASE subject = "event_manager" /\ M!Next
  BY <1>1, <1>11, EventsNext DEF IInv, Subject
<1> QED  BY <1>2, <1>3, <1>4, <1>5, <1>6, <1>7, <1>8, <1>9, <1>10, <1>11 DEF Next

(* The invariant of each class holds after each of its calls.              *)
THEOREM Invariance == Spec => []IInv
<1>1. IInv /\ [Next]_vars => IInv'
  BY NextIInv, Unchanged
<1> QED  BY <1>1, InitIInv, PTL DEF Spec

LEMMA IInvOwned ==
  ASSUME IInv, ~Unguarded \/ subject \notin {"vector", "vector2"}
  PROVE  StorageOwned
<1>1. CASE subject = "vector"
  BY <1>1, VectorImplies DEF IInv, StorageOwned
<1>2. CASE subject = "vector2"
  BY <1>2, Vector2Implies DEF IInv, StorageOwned
<1>3. CASE subject = "list"
  BY <1>3, ListImplies DEF IInv, StorageOwned
<1>4. CASE subject = "string"
  BY <1>4, StringImplies DEF IInv, StorageOwned
<1>5. CASE subject = "shape"
  BY <1>5, ShapeImplies DEF IInv, StorageOwned
<1>6. CASE subject = "custom_vtable"
  BY <1>6, CustomImplies DEF IInv, StorageOwned
<1>7. CASE subject = "unique_ptr"
  BY <1>7, UniqueImplies DEF IInv, StorageOwned
<1>8. CASE subject \in {"pool", "arena", "event_manager"}
  BY <1>8 DEF StorageOwned
<1> QED  BY <1>1, <1>2, <1>3, <1>4, <1>5, <1>6, <1>7, <1>8 DEF IInv, Subject

(* Whatever calls are made, and whichever of them throw, all that a string,*)
(* a list, a vector, a type-erased shape or a unique_ptr has allocated has *)
(* one owner, whose fields describe it: nothing leaks, nothing is deleted  *)
(* twice.  Of the vectors, where no call without a clean-up throws.        *)
THEOREM OwnedOnce == ASSUME ~Unguarded PROVE Spec => []StorageOwned
<1>1. IInv => StorageOwned
  BY IInvOwned
<1> QED  BY <1>1, Invariance, PTL

(* The same of every class but the vectors, whatever throws.               *)
THEOREM OwnedWhateverThrows == Spec => [](subject \notin {"vector", "vector2"} => StorageOwned)
<1>1. IInv => (subject \notin {"vector", "vector2"} => StorageOwned)
  BY IInvOwned
<1> QED  BY <1>1, Invariance, PTL

(* A block that the client has overlaps no other and is aligned and within *)
(* its arena, or is in no free list; each free block of a pool is in the   *)
(* list of the allocator that owns the pool, once.                         *)
THEOREM NoBlockLost == Spec => []BlocksAccounted
<1>1. IInv => BlocksAccounted
  BY PoolImplies, ArenaImplies DEF IInv, BlocksAccounted
<1> QED  BY <1>1, Invariance, PTL

(* Each emit runs the callbacks that were registered when it began, once   *)
(* each and in order, whatever those register, remove or emit.             *)
THEOREM SnapshotEmitted == Spec => []EmitsRegistered
<1>1. IInv => EmitsRegistered
  BY EventsImplies DEF IInv, EmitsRegistered
<1> QED  BY <1>1, Invariance, PTL

=============================================================================

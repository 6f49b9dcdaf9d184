-------------------------- MODULE SharedPtrProofs --------------------------
(***************************************************************************)
(* For any threads and any blocks, the two counts of a control block are   *)
(* those of its pointers, and each object and each block is destroyed once *)
(* and not before its last use.                                            *)
(*                                                                         *)
(* The theorems are about programs that assign to a pointer from a member  *)
(* of its own object only while another pointer keeps that object alive    *)
(* (~Aliased): a run with Aliased = TRUE shows what happens else.          *)
(*                                                                         *)
(* That the counts are exact is not inductive: a count is checked when a   *)
(* call is over, and calls interleave.  What a call has still to do is in  *)
(* the agenda of its thread, so the invariant counts that too:             *)
(*                                                                         *)
(*   strong_count   is the shared_ptrs to the block, those inside objects  *)
(*                  that are alive, and the releases under way;            *)
(*   weak_count     is the weak_ptrs, the releases under way, and one for  *)
(*                  all the shared_ptrs there are;                         *)
(*   Dispose        is on an agenda, once, if the object is alive and its  *)
(*                  count zero, and Destroy in the same way of the block.  *)
(*                                                                         *)
(* An increment, a read or a lock under way is justified by a pointer that *)
(* its thread holds meanwhile.  A set of pointers is one of pairs of a     *)
(* thread and a number, so that one more pointer is one more element: the  *)
(* first part is about these numbers, the second about the invariant, the  *)
(* third has a lemma for each step; then the theorems that follow from it. *)
(*                                                                         *)
(* The last part is about the memory orders, with an invariant of its own  *)
(* (OrderInv) that says of each access who knows of it.                    *)
(***************************************************************************)
EXTENDS SharedPtr, FiniteSetTheorems, SequenceTheorems, TLAPS

One(condition) == IF condition THEN 1 ELSE 0

(* T has one element more than S.                                          *)
Grown(S, T) ==
  IsFiniteSet(S) => IsFiniteSet(T) /\ Cardinality(T) = Cardinality(S) + 1
Shrunk(S, T) ==
  IsFiniteSet(S) => IsFiniteSet(T) /\ Cardinality(T) = Cardinality(S) - 1

LEMMA GrownByOne == ASSUME NEW S, NEW x, x \notin S PROVE Grown(S, S \cup {x})
BY FS_AddElement DEF Grown

LEMMA ShrunkByOne == ASSUME NEW S, NEW x \in S PROVE Shrunk(S, S \ {x})
BY FS_RemoveElement DEF Shrunk

LEMMA CountPositive ==
  ASSUME NEW S, IsFiniteSet(S)
  PROVE  Cardinality(S) \in Nat /\ ((\E x : x \in S) => Cardinality(S) > 0)
BY FS_CardinalityType, FS_EmptySet

LEMMA InTagged ==
  ASSUME NEW numbers, NEW x
  PROVE  x \in Tagged(numbers) <=> \E t \in Thread : \E n \in numbers[t] : x = <<t, n>>
BY DEF Tagged

LEMMA TaggedSame ==
  ASSUME NEW F, NEW G, \A u \in Thread : G[u] = F[u]
  PROVE  Tagged(G) = Tagged(F)
<1>1. ASSUME NEW x PROVE x \in Tagged(G) <=> x \in Tagged(F)
  BY InTagged
<1> QED  BY <1>1

(* Both directions of a change of one number.                              *)
LEMMA TaggedChange ==
  ASSUME NEW F, NEW G, NEW t \in Thread, NEW n, n \notin F[t], G[t] = F[t] \cup {n},
         \A u \in Thread \ {t} : G[u] = F[u]
  PROVE  Grown(Tagged(F), Tagged(G)) /\ Shrunk(Tagged(G), Tagged(F))
<1> DEFINE x == <<t, n>>
           S == Tagged(F)
<1>1. x \notin S
  BY InTagged
<1>2. Tagged(G) = S \cup {x}
  <2>1. ASSUME NEW y PROVE y \in Tagged(G) <=> y \in Tagged(F) \/ y = <<t, n>>
    BY InTagged
  <2> QED  BY <2>1
<1> HIDE DEF x, S
<1>3. Grown(S, S \cup {x}) /\ Shrunk(S \cup {x}, S)
  <2>1. S = (S \cup {x}) \ {x} /\ x \in S \cup {x}
    BY <1>1
  <2> QED  BY <1>1, <2>1, GrownByOne, ShrunkByOne
<1> QED  BY <1>2, <1>3 DEF S

-----------------------------------------------------------------------------
(* Pointers *)
Pointers == [Thread -> [Block -> Nat]]

LEMMA HeldGain ==
  ASSUME NEW p \in Pointers, NEW t \in Thread, NEW b \in Block, NEW q, q = Gains(p, t, b)
  PROVE  /\ q \in Pointers
         /\ \A c \in Block \ {b} : Held(q, c) = Held(p, c)
         /\ Grown(Held(p, b), Held(q, b))
<1>1. /\ q \in Pointers /\ q[t][b] = p[t][b] + 1 /\ p[t][b] \in Nat
      /\ \A u \in Thread, c \in Block : u # t \/ c # b => q[u][c] = p[u][c]
  BY DEF Gains, Pointers
<1>2. ASSUME NEW c \in Block \ {b} PROVE Held(q, c) = Held(p, c)
  BY <1>1, TaggedSame DEF Held
<1>3. Grown(Held(p, b), Held(q, b))
  <2> DEFINE F == [u \in Thread |-> 1 .. p[u][b]]
             G == [u \in Thread |-> 1 .. q[u][b]]
             n == p[t][b] + 1
  <2>1. n \notin F[t] /\ G[t] = F[t] \cup {n}
    BY <1>1
  <2>2. \A u \in Thread \ {t} : G[u] = F[u]
    BY <1>1
  <2>3. Held(p, b) = Tagged(F) /\ Held(q, b) = Tagged(G)
    BY DEF Held
  <2> HIDE DEF F, G, n
  <2> QED  BY <2>1, <2>2, <2>3, TaggedChange
<1> QED  BY <1>1, <1>2, <1>3

LEMMA HeldLose ==
  ASSUME NEW p \in Pointers, NEW t \in Thread, NEW b \in Block, NEW q, q = Loses(p, t, b), p[t][b] > 0,
         Null \notin Block
  PROVE  /\ q \in Pointers
         /\ \A c \in Block \ {b} : Held(q, c) = Held(p, c)
         /\ Shrunk(Held(p, b), Held(q, b))
<1>1. /\ q \in Pointers /\ q[t][b] = p[t][b] - 1 /\ p[t][b] \in Nat
      /\ \A u \in Thread, c \in Block : u # t \/ c # b => q[u][c] = p[u][c]
  BY DEF Loses, Pointers
<1>2. ASSUME NEW c \in Block \ {b} PROVE Held(q, c) = Held(p, c)
  BY <1>1, TaggedSame DEF Held
<1>3. Shrunk(Held(p, b), Held(q, b))
  <2> DEFINE F == [u \in Thread |-> 1 .. q[u][b]]
             G == [u \in Thread |-> 1 .. p[u][b]]
             n == p[t][b]
  <2>1. n \notin F[t] /\ G[t] = F[t] \cup {n}
    BY <1>1
  <2>2. \A u \in Thread \ {t} : G[u] = F[u]
    BY <1>1
  <2>3. Held(q, b) = Tagged(F) /\ Held(p, b) = Tagged(G)
    BY DEF Held
  <2> HIDE DEF F, G, n
  <2> QED  BY <2>1, <2>2, <2>3, TaggedChange
<1> QED  BY <1>1, <1>2, <1>3

-----------------------------------------------------------------------------
(* Jobs *)
Do == {"DecStrong", "Dispose", "DecWeak", "Destroy", "IncStrong", "ReadMember", "IncWeak"}
Jobs == [do : Do, block : Block] \cup [do : {"Cas"}, block : Block, count : Nat]
Agendas == [Thread -> Seq(Jobs)]

Is(job, do, b) == job.do = do /\ job.block = b

LEMMA HeightsPush ==
  ASSUME NEW q \in Seq(Jobs), NEW job \in Jobs, NEW do, NEW b
  PROVE  /\ <<job>> \o q \in Seq(Jobs)
         /\ Heights(<<job>> \o q, do, b)
            = Heights(q, do, b) \cup (IF Is(job, do, b) THEN {Len(q) + 1} ELSE {})
         /\ Len(q) + 1 \notin Heights(q, do, b)
<1> DEFINE r == <<job>> \o q
<1>1. r \in Seq(Jobs) /\ Len(r) = Len(q) + 1 /\ Len(q) \in Nat /\ r[1] = job
      /\ \A n \in 1 .. Len(q) : r[Len(r) + 1 - n] = q[Len(q) + 1 - n]
  OBVIOUS
<1> HIDE DEF r
<1>2. Len(q) + 1 \notin Heights(q, do, b)
  BY <1>1 DEF Heights
<1>3. ASSUME NEW n
      PROVE  n \in Heights(r, do, b)
             <=> n \in Heights(q, do, b) \/ (Is(job, do, b) /\ n = Len(q) + 1)
  <2>1. CASE n \in 1 .. Len(q)
    <3>1. n \in 1 .. Len(r) /\ n # Len(q) + 1 /\ r[Len(r) + 1 - n] = q[Len(q) + 1 - n]
      BY <1>1, <2>1
    <3> QED  BY <2>1, <3>1 DEF Heights
  <2>2. CASE n = Len(q) + 1
    <3>1. n \in 1 .. Len(r) /\ r[Len(r) + 1 - n] = job
      BY <1>1, <2>2
    <3> QED  BY <1>2, <2>2, <3>1 DEF Heights, Is
  <2>3. CASE n \notin 1 .. Len(r)
    BY <1>1, <2>3 DEF Heights
  <2> QED  BY <1>1, <2>1, <2>2, <2>3
<1> QED  BY <1>1, <1>2, <1>3 DEF r

LEMMA PopIsPush ==
  ASSUME NEW q \in Seq(Jobs), q # <<>>
  PROVE  Head(q) \in Jobs /\ Tail(q) \in Seq(Jobs) /\ q = <<Head(q)>> \o Tail(q)
OBVIOUS

(* How many jobs of a kind there are.                                      *)
P(agendas, do, b) == Cardinality(Pending(agendas, do, b))
FinitelyMany(agendas) == \A do \in Do, b \in Block : IsFiniteSet(Pending(agendas, do, b))

Pushed(A, t, job, B) == B = [A EXCEPT ![t] = <<job>> \o A[t]]
Popped(A, t, B) == B = [A EXCEPT ![t] = Tail(A[t])]

LEMMA PendingPush ==
  ASSUME NEW A \in Agendas, NEW t \in Thread, NEW job \in Jobs, NEW B, Pushed(A, t, job, B),
         NEW do, NEW b
  PROVE  /\ B \in Agendas
         /\ Is(job, do, b) => /\ Grown(Pending(A, do, b), Pending(B, do, b))
                             /\ Shrunk(Pending(B, do, b), Pending(A, do, b))
         /\ ~Is(job, do, b) => Pending(A, do, b) = Pending(B, do, b)
<1> DEFINE F == [u \in Thread |-> Heights(A[u], do, b)]
           G == [u \in Thread |-> Heights(B[u], do, b)]
           n == Len(A[t]) + 1
<1>1. B \in Agendas /\ A[t] \in Seq(Jobs) /\ B[t] = <<job>> \o A[t] /\ \A u \in Thread \ {t} : B[u] = A[u]
  BY HeightsPush DEF Agendas, Pushed
<1>2. n \notin F[t] /\ G[t] = F[t] \cup (IF Is(job, do, b) THEN {n} ELSE {})
  <2>1. /\ Len(A[t]) + 1 \notin Heights(A[t], do, b)
        /\ Heights(B[t], do, b) = Heights(A[t], do, b) \cup (IF Is(job, do, b) THEN {Len(A[t]) + 1} ELSE {})
    BY <1>1, HeightsPush
  <2> QED  BY <2>1
<1>3. \A u \in Thread \ {t} : G[u] = F[u]
  BY <1>1
<1>4. Pending(A, do, b) = Tagged(F) /\ Pending(B, do, b) = Tagged(G)
  BY DEF Pending
<1> HIDE DEF F, G, n
<1>5. CASE Is(job, do, b)
  <2>1. G[t] = F[t] \cup {n}
    BY <1>2, <1>5
  <2>2. Grown(Tagged(F), Tagged(G)) /\ Shrunk(Tagged(G), Tagged(F))
    BY <1>2, <1>3, <2>1, TaggedChange
  <2> QED  BY <1>1, <1>4, <1>5, <2>2
<1>6. CASE ~Is(job, do, b)
  <2>1. \A u \in Thread : G[u] = F[u]
    BY <1>2, <1>3, <1>6
  <2> QED  BY <1>1, <1>4, <1>6, <2>1, TaggedSame
<1> QED  BY <1>5, <1>6

LEMMA Push ==
  ASSUME NEW A \in Agendas, FinitelyMany(A), NEW t \in Thread, NEW job \in Jobs,
         NEW B, Pushed(A, t, job, B)
  PROVE  /\ B \in Agendas /\ FinitelyMany(B)
         /\ \A do \in Do, b \in Block : P(B, do, b) = P(A, do, b) + One(Is(job, do, b))
<1>1. B \in Agendas
  BY PendingPush
<1>2. ASSUME NEW do \in Do, NEW b \in Block
      PROVE  IsFiniteSet(Pending(B, do, b)) /\ P(B, do, b) = P(A, do, b) + One(Is(job, do, b))
  <2>1. IsFiniteSet(Pending(A, do, b)) /\ Cardinality(Pending(A, do, b)) \in Nat
    BY CountPositive DEF FinitelyMany
  <2> QED  BY <2>1, PendingPush DEF Grown, P, One
<1> QED  BY <1>1, <1>2 DEF FinitelyMany

LEMMA Pop ==
  ASSUME NEW A \in Agendas, FinitelyMany(A), NEW t \in Thread, A[t] # <<>>,
         NEW B, Popped(A, t, B)
  PROVE  /\ B \in Agendas /\ FinitelyMany(B) /\ Head(A[t]) \in Jobs
         /\ \A do \in Do, b \in Block : P(B, do, b) = P(A, do, b) - One(Is(Head(A[t]), do, b))
<1>1. /\ Head(A[t]) \in Jobs /\ Tail(A[t]) \in Seq(Jobs) /\ A[t] = <<Head(A[t])>> \o Tail(A[t])
      /\ B \in Agendas /\ Pushed(B, t, Head(A[t]), A)
  BY PopIsPush DEF Agendas, Popped, Pushed
<1>2. ASSUME NEW do \in Do, NEW b \in Block
      PROVE  IsFiniteSet(Pending(B, do, b)) /\ P(B, do, b) = P(A, do, b) - One(Is(Head(A[t]), do, b))
  <2>1. IsFiniteSet(Pending(A, do, b)) /\ Cardinality(Pending(A, do, b)) \in Nat
    BY CountPositive DEF FinitelyMany
  <2>2. /\ Is(Head(A[t]), do, b) => Shrunk(Pending(A, do, b), Pending(B, do, b))
        /\ ~Is(Head(A[t]), do, b) => Pending(A, do, b) = Pending(B, do, b)
    BY <1>1, PendingPush
  <2> QED  BY <2>1, <2>2 DEF Shrunk, P, One
<1> QED  BY <1>1, <1>2 DEF FinitelyMany

(* What push and pop leave on the agendas.                                 *)
LEMMA RangePush ==
  ASSUME NEW q \in Seq(Jobs), NEW job
  PROVE  Range(<<job>> \o q) = Range(q) \cup {job}
<1> DEFINE r == <<job>> \o q
<1>1. Len(q) \in Nat /\ DOMAIN q = 1 .. Len(q) /\ DOMAIN r = 1 .. Len(q) + 1
      /\ r[1] = job /\ \A i \in 1 .. Len(q) : r[i + 1] = q[i]
  OBVIOUS
<1> HIDE DEF r
<1>2. ASSUME NEW x \in Range(r) PROVE x \in Range(q) \cup {job}
  <2>1. PICK i \in 1 .. Len(q) + 1 : x = r[i]
    BY <1>1 DEF Range
  <2>2. CASE i = 1
    BY <1>1, <2>1, <2>2
  <2>3. CASE i # 1
    <3>1. i - 1 \in 1 .. Len(q) /\ i = (i - 1) + 1
      BY <1>1, <2>3
    <3>2. x = q[i - 1]
      BY <1>1, <2>1, <3>1
    <3> QED  BY <1>1, <3>1, <3>2 DEF Range
  <2> QED  BY <2>2, <2>3
<1>3. job \in Range(r)
  BY <1>1 DEF Range
<1>4. ASSUME NEW x \in Range(q) PROVE x \in Range(r)
  <2>1. PICK i \in 1 .. Len(q) : x = q[i]
    BY <1>1 DEF Range
  <2>2. i + 1 \in DOMAIN r /\ x = r[i + 1]
    BY <1>1, <2>1
  <2> QED  BY <2>2 DEF Range
<1> QED  BY <1>2, <1>3, <1>4 DEF r

(* Release(do, b) is put on top of t's agenda.                             *)
Adds(A, t, do, b, B) == B = [A EXCEPT ![t] = Release(do, b) \o A[t]]

Added(A, t, do, b, B) ==
  /\ B \in Agendas /\ FinitelyMany(B)
  /\ \A d \in Do, c \in Block : P(B, d, c) = P(A, d, c) + One(d = do /\ c = b)
  /\ \A u \in Thread \ {t} : B[u] = A[u]
  /\ \A job \in Range(B[t]) : job \in Range(A[t]) \/ (b \in Block /\ job = Job(do, b))

LEMMA AddsOne ==
  ASSUME NEW A \in Agendas, FinitelyMany(A), NEW t \in Thread, NEW do \in Do, NEW b \in Block \cup {Null},
         NEW B, Adds(A, t, do, b, B)
  PROVE  Added(A, t, do, b, B)
<1>1. Null \notin Block /\ A[t] \in Seq(Jobs)
  BY SharedPtrAssumption DEF Agendas
<1>2. CASE b = Null
  <2>1. Release(do, b) \o A[t] = A[t]
    BY <1>1, <1>2 DEF Release
  <2>2. B = A
    BY <2>1 DEF Adds, Agendas
  <2>3. \A d \in Do, c \in Block : P(A, d, c) \in Nat
    BY CountPositive DEF P, FinitelyMany
  <2> QED  BY <1>1, <1>2, <2>2, <2>3 DEF One, Added
<1>3. CASE b # Null
  <2> DEFINE job == Job(do, b)
  <2>1. job \in Jobs /\ \A d \in Do, c \in Block : Is(job, d, c) <=> d = do /\ c = b
    BY <1>3 DEF Job, Jobs, Is
  <2>2. Release(do, b) = <<job>>
    BY <1>3 DEF Release
  <2> HIDE DEF job
  <2>3. Pushed(A, t, job, B) /\ B[t] = <<job>> \o A[t] /\ \A u \in Thread \ {t} : B[u] = A[u]
    BY <2>2 DEF Adds, Pushed, Agendas
  <2>4. /\ B \in Agendas /\ FinitelyMany(B)
        /\ \A d \in Do, c \in Block : P(B, d, c) = P(A, d, c) + One(Is(job, d, c))
    BY <2>1, <2>3, Push
  <2>5. \A x \in Range(B[t]) : x \in Range(A[t]) \/ x = job
    BY <1>1, <2>3, RangePush
  <2>6. \A d \in Do, c \in Block : P(B, d, c) = P(A, d, c) + One(d = do /\ c = b)
    BY <2>1, <2>4 DEF One
  <2> QED  BY <1>3, <2>3, <2>4, <2>5, <2>6 DEF job, Added
<1> QED  BY <1>2, <1>3

(* The next job of t's agenda is done.                                     *)
LEMMA PopsOne ==
  ASSUME NEW A \in Agendas, FinitelyMany(A), NEW t \in Thread, A[t] # <<>>, NEW B, Popped(A, t, B)
  PROVE  /\ B \in Agendas /\ FinitelyMany(B) /\ Head(A[t]) \in Jobs /\ Head(A[t]) \in Range(A[t])
         /\ \A d \in Do, c \in Block : P(B, d, c) = P(A, d, c) - One(Is(Head(A[t]), d, c))
         /\ \A u \in Thread \ {t} : B[u] = A[u]
         /\ B[t] = Tail(A[t]) /\ Range(B[t]) \subseteq Range(A[t])
<1>1. /\ Tail(A[t]) \in Seq(Jobs) /\ A[t] = <<Head(A[t])>> \o Tail(A[t])
      /\ B[t] = Tail(A[t]) /\ \A u \in Thread \ {t} : B[u] = A[u]
  BY PopIsPush DEF Agendas, Popped
<1>2. Range(A[t]) = Range(Tail(A[t])) \cup {Head(A[t])}
  BY <1>1, RangePush
<1> QED  BY <1>1, <1>2, Pop

-----------------------------------------------------------------------------
(* The inductive invariant.                                                *)
TypeOK ==
  /\ object \in [Block -> {"none", "live", "dead"}] /\ block \in [Block -> {"none", "live", "dead"}]
  /\ strong_count \in [Block -> Nat] /\ weak_count \in [Block -> Nat]
  /\ member \in [Block -> Block \cup {Null}]
  /\ shared \in Pointers /\ weak \in Pointers /\ agenda \in Agendas

Finite ==
  /\ FinitelyMany(agenda)
  /\ \A b \in Block : IsFiniteSet(Held(shared, b)) /\ IsFiniteSet(Held(weak, b))

H(pointer, b) == Cardinality(Held(pointer, b))
M(b) == Cardinality(Inside(b))

(* The counts are exact, and who takes one to zero has the object          *)
(* disposed of, or the block destroyed, exactly once.                      *)
BlockOK(b) ==
  /\ strong_count[b] = H(shared, b) + M(b) + P(agenda, "DecStrong", b)
  /\ weak_count[b] = H(weak, b) + P(agenda, "DecWeak", b) + One(strong_count[b] > 0)
  /\ strong_count[b] > 0 => object[b] = "live"
  /\ weak_count[b] > 0 => block[b] = "live"
  /\ P(agenda, "Dispose", b) = One(object[b] = "live" /\ strong_count[b] = 0)
  /\ P(agenda, "Destroy", b) = One(block[b] = "live" /\ weak_count[b] = 0)
  /\ object[b] = "none" <=> block[b] = "none"

(* What a call has still to increment, read or lock, its thread has a      *)
(* pointer to.                                                             *)
Reaches(t, b) == shared[t][b] > 0 \/ \E c \in Block : shared[t][c] > 0 /\ member[c] = b
Justified(t, job) ==
  /\ job.do = "IncStrong" => Reaches(t, job.block)
  /\ job.do = "ReadMember" => shared[t][job.block] > 0
  /\ job.do = "IncWeak" => shared[t][job.block] > 0 \/ weak[t][job.block] > 0
  /\ job.do = "Cas" => weak[t][job.block] > 0
JobsJustified == \A t \in Thread : \A job \in Range(agenda[t]) : Justified(t, job)

IInv == TypeOK /\ Finite /\ (\A b \in Block : BlockOK(b)) /\ JobsJustified

-----------------------------------------------------------------------------
(* The invariant's numbers.                                                *)
LEMMA JobCounted ==
  ASSUME NEW A \in Agendas, FinitelyMany(A), NEW t \in Thread, NEW job \in Range(A[t]),
         NEW do \in Do, NEW b \in Block, Is(job, do, b)
  PROVE  P(A, do, b) > 0
<1>1. PICK i \in 1 .. Len(A[t]) : job = A[t][i]
  BY DEF Range, Agendas
<1>2. Len(A[t]) + 1 - i \in Heights(A[t], do, b)
  BY <1>1 DEF Heights, Is, Agendas
<1>3. <<t, Len(A[t]) + 1 - i>> \in Pending(A, do, b)
  BY <1>2, InTagged DEF Pending
<1> QED  BY <1>3, CountPositive DEF P, FinitelyMany

LEMMA PointerCounted ==
  ASSUME NEW p \in Pointers, NEW t \in Thread, NEW b \in Block, IsFiniteSet(Held(p, b)), p[t][b] > 0
  PROVE  H(p, b) > 0
<1>1. 1 \in 1 .. p[t][b]
  BY DEF Pointers
<1>2. <<t, 1>> \in Held(p, b)
  BY <1>1, InTagged DEF Held
<1> QED  BY <1>2, CountPositive DEF H

LEMMA InsideFinite == \A b \in Block : IsFiniteSet(Inside(b)) /\ M(b) \in Nat
BY SharedPtrAssumption, FS_Subset, CountPositive DEF Inside, M

LEMMA Numbers ==
  ASSUME IInv, NEW b \in Block
  PROVE  /\ H(shared, b) \in Nat /\ H(weak, b) \in Nat /\ M(b) \in Nat
         /\ \A do \in Do : P(agenda, do, b) \in Nat
         /\ strong_count[b] \in Nat /\ weak_count[b] \in Nat
<1>1. H(shared, b) \in Nat /\ H(weak, b) \in Nat
  BY CountPositive DEF IInv, Finite, H
<1>2. \A do \in Do : P(agenda, do, b) \in Nat
  BY CountPositive DEF IInv, Finite, FinitelyMany, P
<1>3. strong_count[b] \in Nat /\ weak_count[b] \in Nat
  BY DEF IInv, TypeOK
<1> QED  BY <1>1, <1>2, <1>3, InsideFinite

(* What keeps an object, and a control block, alive.                       *)
StrongAlive(b) == strong_count[b] > 0 /\ object[b] = "live" /\ weak_count[b] > 0 /\ block[b] = "live"
WeakAlive(b) == weak_count[b] > 0 /\ block[b] = "live"

LEMMA Alive ==
  ASSUME IInv, NEW b \in Block
  PROVE  /\ strong_count[b] > 0 => StrongAlive(b)
         /\ \A t \in Thread : shared[t][b] > 0 => StrongAlive(b)
         /\ \A t \in Thread : weak[t][b] > 0 => WeakAlive(b)
         /\ \A c \in Block : object[c] = "live" /\ member[c] = b => StrongAlive(b)
         /\ P(agenda, "DecStrong", b) > 0 => StrongAlive(b)
         /\ P(agenda, "DecWeak", b) > 0 => WeakAlive(b)
<1>1. BlockOK(b)
  BY DEF IInv
<1>2. strong_count[b] > 0 => StrongAlive(b)
  BY <1>1, Numbers DEF BlockOK, Do, One, StrongAlive
<1>3. ASSUME NEW t \in Thread, shared[t][b] > 0 PROVE strong_count[b] > 0
  <2>1. H(shared, b) > 0
    BY <1>3, PointerCounted DEF IInv, TypeOK, Finite
  <2> QED  BY <1>1, <2>1, Numbers DEF BlockOK, Do
<1>4. ASSUME NEW t \in Thread, weak[t][b] > 0 PROVE WeakAlive(b)
  <2>1. H(weak, b) > 0
    BY <1>4, PointerCounted DEF IInv, TypeOK, Finite
  <2> QED  BY <1>1, <2>1, Numbers DEF BlockOK, Do, One, WeakAlive
<1>5. ASSUME NEW c \in Block, object[c] = "live", member[c] = b PROVE strong_count[b] > 0
  <2>1. M(b) > 0
    BY <1>5, InsideFinite, CountPositive DEF Inside, M
  <2> QED  BY <1>1, <2>1, Numbers DEF BlockOK, Do
<1>6. P(agenda, "DecStrong", b) > 0 => strong_count[b] > 0
  BY <1>1, Numbers DEF BlockOK, Do
<1>7. P(agenda, "DecWeak", b) > 0 => WeakAlive(b)
  BY <1>1, Numbers DEF BlockOK, Do, One, WeakAlive
<1> QED  BY <1>2, <1>3, <1>4, <1>5, <1>6, <1>7

LEMMA ReachesAlive == ASSUME IInv, NEW t \in Thread, NEW b \in Block, Reaches(t, b) PROVE StrongAlive(b)
<1>1. ASSUME NEW c \in Block, shared[t][c] > 0, member[c] = b PROVE StrongAlive(b)
  <2>1. object[c] = "live"
    BY <1>1, Alive DEF StrongAlive
  <2> QED  BY <1>1, <2>1, Alive
<1> QED  BY <1>1, Alive DEF Reaches

(* How the numbers change with the pointers.                               *)
FiniteHeld(p) == \A b \in Block : IsFiniteSet(Held(p, b))
Gained(p, t, b, q) == q = Gains(p, t, b)
Lost(p, t, b, q) == q = Loses(p, t, b)

LEMMA GainsOne ==
  ASSUME NEW p \in Pointers, FiniteHeld(p), NEW t \in Thread, NEW b \in Block, NEW q, Gained(p, t, b, q)
  PROVE  /\ q \in Pointers /\ FiniteHeld(q)
         /\ \A c \in Block : H(q, c) = H(p, c) + One(c = b)
         /\ \A u \in Thread, c \in Block : q[u][c] = p[u][c] + One(u = t /\ c = b)
<1>1. q \in Pointers /\ (\A c \in Block \ {b} : Held(q, c) = Held(p, c)) /\ Grown(Held(p, b), Held(q, b))
  BY HeldGain DEF Gained
<1>2. \A u \in Thread, c \in Block : q[u][c] = p[u][c] + One(u = t /\ c = b)
  BY DEF Gained, Gains, Pointers, One
<1>3. \A c \in Block : H(p, c) \in Nat
  BY CountPositive DEF FiniteHeld, H
<1>4. FiniteHeld(q) /\ \A c \in Block : H(q, c) = H(p, c) + One(c = b)
  BY <1>1, <1>3 DEF Grown, FiniteHeld, H, One
<1> QED  BY <1>1, <1>2, <1>4

LEMMA LosesOne ==
  ASSUME NEW p \in Pointers, FiniteHeld(p), NEW t \in Thread, NEW b \in Block \cup {Null},
         NEW q, Lost(p, t, b, q), Has(p, t, b)
  PROVE  /\ q \in Pointers /\ FiniteHeld(q)
         /\ \A c \in Block : H(q, c) = H(p, c) - One(c = b)
         /\ \A u \in Thread, c \in Block : q[u][c] = p[u][c] - One(u = t /\ c = b)
<1>1. Null \notin Block
  BY SharedPtrAssumption
<1>2. \A c \in Block : H(p, c) \in Nat
  BY CountPositive DEF FiniteHeld, H
<1>3. CASE b = Null
  BY <1>1, <1>2, <1>3 DEF Lost, Loses, Pointers, One
<1>4. CASE b \in Block
  <2>1. q \in Pointers /\ (\A c \in Block \ {b} : Held(q, c) = Held(p, c)) /\ Shrunk(Held(p, b), Held(q, b))
    BY <1>1, <1>4, HeldLose DEF Lost, Has
  <2>2. \A u \in Thread, c \in Block : q[u][c] = p[u][c] - One(u = t /\ c = b)
    BY <1>1, <1>4 DEF Lost, Loses, Pointers, One
  <2>3. FiniteHeld(q) /\ \A c \in Block : H(q, c) = H(p, c) - One(c = b)
    BY <1>2, <2>1 DEF Shrunk, FiniteHeld, H, One
  <2> QED  BY <2>1, <2>2, <2>3
<1> QED  BY <1>3, <1>4

-----------------------------------------------------------------------------
(* The jobs of the threads that are not at work.                           *)
Keeps(u) == \A b \in Block : /\ shared[u][b] > 0 => shared'[u][b] > 0
                             /\ weak[u][b] > 0 => weak'[u][b] > 0
MembersKept == \A c \in Block : object[c] = "live" => member'[c] = member[c]

LEMMA StillJustified ==
  ASSUME IInv, NEW u \in Thread, Keeps(u), MembersKept, NEW job \in Jobs, Justified(u, job)
  PROVE  Justified(u, job)'
<1>1. job.block \in Block
  BY DEF Jobs
<1>2. ASSUME Reaches(u, job.block) PROVE Reaches(u, job.block)'
  <2>1. ASSUME NEW c \in Block, shared[u][c] > 0, member[c] = job.block
        PROVE  shared'[u][c] > 0 /\ member'[c] = job.block
    BY <2>1, Alive DEF Keeps, MembersKept, StrongAlive
  <2> QED  BY <1>1, <1>2, <2>1 DEF Reaches, Keeps
<1> QED  BY <1>1, <1>2 DEF Justified, Keeps

LEMMA JobsAfter ==
  ASSUME IInv, NEW t \in Thread, MembersKept,
         \A u \in Thread \ {t} : agenda'[u] = agenda[u] /\ (Idle(u) \/ Keeps(u)),
         \A job \in Range(agenda'[t]) : Justified(t, job)'
  PROVE  JobsJustified'
<1> SUFFICES ASSUME NEW u \in Thread \ {t}, NEW job \in Range(agenda'[u]) PROVE Justified(u, job)'
  BY DEF JobsJustified
<1>1. agenda[u] \in Seq(Jobs) /\ job \in Range(agenda[u])
  BY DEF IInv, TypeOK, Agendas
<1>2. job \in Jobs /\ ~Idle(u)
  BY <1>1 DEF Range, Idle
<1>3. Justified(u, job)
  BY <1>1 DEF IInv, JobsJustified
<1> QED  BY <1>2, <1>3, StillJustified

LEMMA IdleJobs == ASSUME NEW t, Idle(t) PROVE Range(agenda[t]) = {}
BY DEF Idle, Range

-----------------------------------------------------------------------------
(* A shared_ptr of the thread's is to be released, and then another job    *)
(* done.                                                                   *)
MemoryStays ==
  /\ object' \in [Block -> {"none", "live", "dead"}] /\ block' \in [Block -> {"none", "live", "dead"}]
  /\ \A c \in Block : \/ object'[c] = object[c] /\ block'[c] = block[c]
                      \/ object[c] = "none" /\ object'[c] = "dead" /\ block'[c] = "dead"
  /\ UNCHANGED <<counts, member>>

LEMMA SameMemory == ASSUME IInv, UNCHANGED <<counts, memory>> PROVE MemoryStays
BY DEF IInv, TypeOK, MemoryStays, memory

LEMMA Memory ==
  ASSUME IInv, MemoryStays
  PROVE  /\ MembersKept
         /\ strong_count' = strong_count /\ weak_count' = weak_count /\ member' = member
         /\ \A c \in Block : /\ M(c)' = M(c)
                             /\ object'[c] = "live" <=> object[c] = "live"
                             /\ block'[c] = "live" <=> block[c] = "live"
                             /\ object'[c] = "none" <=> block'[c] = "none"
<1>1. \A c \in Block : object[c] = "none" <=> block[c] = "none"
  BY DEF IInv, BlockOK
<1>2. \A c \in Block : /\ object'[c] = "live" <=> object[c] = "live"
                       /\ block'[c] = "live" <=> block[c] = "live"
                       /\ object'[c] = "none" <=> block'[c] = "none"
  BY <1>1 DEF MemoryStays
<1>3. strong_count' = strong_count /\ weak_count' = weak_count /\ member' = member
  BY DEF MemoryStays, counts
<1>4. \A c \in Block : M(c)' = M(c)
  BY <1>2, <1>3 DEF M, Inside
<1> QED  BY <1>2, <1>3, <1>4 DEF MembersKept

TwoJobs(t, do, b, then, c) == agenda' = [agenda EXCEPT ![t] = Release(do, b) \o Release(then, c)]

AddedTwo(t, do, b, then, c) ==
  /\ agenda' \in Agendas /\ FinitelyMany(agenda')
  /\ \A d \in Do, x \in Block :
       P(agenda', d, x) = P(agenda, d, x) + One(d = do /\ x = b) + One(d = then /\ x = c)
  /\ \A u \in Thread \ {t} : agenda'[u] = agenda[u]
  /\ \A job \in Range(agenda'[t]) :
       (b \in Block /\ job = Job(do, b)) \/ (c \in Block /\ job = Job(then, c))

LEMMA AddsTwo ==
  ASSUME IInv, NEW t \in Thread, Idle(t), NEW do \in Do, NEW then \in Do,
         NEW b \in Block \cup {Null}, NEW c \in Block \cup {Null}, TwoJobs(t, do, b, then, c)
  PROVE  AddedTwo(t, do, b, then, c)
<1> DEFINE B == [agenda EXCEPT ![t] = Release(then, c) \o agenda[t]]
<1>1. agenda \in Agendas /\ FinitelyMany(agenda) /\ agenda[t] = <<>> /\ Adds(agenda, t, then, c, B)
  BY DEF IInv, TypeOK, Finite, Idle, Adds
<1>2. Added(agenda, t, then, c, B)
  BY <1>1, AddsOne
<1>3. Adds(B, t, do, b, agenda')
  <2>1. B[t] = Release(then, c)
    BY <1>1 DEF Release, Agendas
  <2> QED  BY <1>1, <2>1 DEF TwoJobs, Adds, Agendas
<1> HIDE DEF B
<1>4. Added(B, t, do, b, agenda')
  <2>1. B \in Agendas /\ FinitelyMany(B)
    BY <1>2 DEF Added
  <2> QED  BY <1>3, <2>1, AddsOne
<1>5. \A d \in Do, x \in Block : P(agenda, d, x) \in Nat
  BY Numbers
<1>6. Range(agenda[t]) = {}
  BY IdleJobs
<1>7. ASSUME NEW d \in Do, NEW x \in Block
      PROVE  P(agenda', d, x) = P(agenda, d, x) + One(d = do /\ x = b) + One(d = then /\ x = c)
  <2>1. /\ P(B, d, x) = P(agenda, d, x) + One(d = then /\ x = c)
        /\ P(agenda', d, x) = P(B, d, x) + One(d = do /\ x = b)
    BY <1>2, <1>4 DEF Added
  <2> QED  BY <1>5, <2>1 DEF One
<1>8. \A u \in Thread \ {t} : agenda'[u] = agenda[u]
  BY <1>2, <1>4 DEF Added
<1>9. \A job \in Range(agenda'[t]) :
       (b \in Block /\ job = Job(do, b)) \/ (c \in Block /\ job = Job(then, c))
  BY <1>2, <1>4, <1>6 DEF Added
<1> QED  BY <1>4, <1>7, <1>8, <1>9 DEF Added, AddedTwo

LEMMA SharedReleased ==
  ASSUME IInv, NEW t \in Thread, Idle(t), NEW this \in Block \cup {Null}, Has(shared, t, this),
         shared' = Loses(shared, t, this), NEW then \in {"IncStrong", "ReadMember"},
         NEW other \in Block \cup {Null}, TwoJobs(t, "DecStrong", this, then, other),
         other \in Block => Justified(t, Job(then, other))', MemoryStays, UNCHANGED weak
  PROVE  IInv'
<1>1. /\ shared' \in Pointers /\ FiniteHeld(shared')
      /\ \A c \in Block : H(shared', c) = H(shared, c) - One(c = this)
      /\ \A u \in Thread, c \in Block : shared'[u][c] = shared[u][c] - One(u = t /\ c = this)
  BY LosesOne DEF IInv, TypeOK, Finite, FiniteHeld, Lost
<1>2. AddedTwo(t, "DecStrong", this, then, other)
  BY AddsTwo DEF Do
<1>3. TypeOK' /\ Finite'
  BY <1>1, <1>2, Memory DEF AddedTwo, IInv, TypeOK, Finite, FiniteHeld, MemoryStays
<1>4. ASSUME NEW c \in Block PROVE BlockOK(c)'
  <2>1. /\ H(shared, c)' = H(shared, c) - One(c = this) /\ H(weak, c)' = H(weak, c) /\ M(c)' = M(c)
        /\ P(agenda, "DecStrong", c)' = P(agenda, "DecStrong", c) + One(c = this)
        /\ P(agenda, "DecWeak", c)' = P(agenda, "DecWeak", c)
        /\ P(agenda, "Dispose", c)' = P(agenda, "Dispose", c)
        /\ P(agenda, "Destroy", c)' = P(agenda, "Destroy", c)
    BY <1>1, <1>2, Memory, Numbers DEF AddedTwo, Do, One
  <2>2. BlockOK(c) /\ strong_count'[c] = strong_count[c] /\ weak_count'[c] = weak_count[c]
    BY Memory DEF IInv
  <2>3. /\ H(shared, c) \in Nat /\ H(weak, c) \in Nat /\ M(c) \in Nat
        /\ P(agenda, "DecStrong", c) \in Nat
    BY Numbers DEF Do
  <2>4. /\ object'[c] = "live" <=> object[c] = "live"
        /\ block'[c] = "live" <=> block[c] = "live"
        /\ object'[c] = "none" <=> block'[c] = "none"
    BY Memory
  <2>5. strong_count'[c] = H(shared, c)' + M(c)' + P(agenda, "DecStrong", c)'
    BY <2>1, <2>2, <2>3 DEF BlockOK, One
  <2>6. /\ weak_count'[c] = H(weak, c)' + P(agenda, "DecWeak", c)' + One(strong_count'[c] > 0)
        /\ strong_count'[c] > 0 => object'[c] = "live"
        /\ weak_count'[c] > 0 => block'[c] = "live"
    BY <2>1, <2>2, <2>4 DEF BlockOK
  <2>7. /\ P(agenda, "Dispose", c)' = One(object'[c] = "live" /\ strong_count'[c] = 0)
        /\ P(agenda, "Destroy", c)' = One(block'[c] = "live" /\ weak_count'[c] = 0)
    BY <2>1, <2>2, <2>4 DEF BlockOK, One
  <2> QED  BY <2>4, <2>5, <2>6, <2>7 DEF BlockOK
<1>5. JobsJustified'
  <2>1. \A u \in Thread \ {t} : Keeps(u)
    BY <1>1 DEF Keeps, One, IInv, TypeOK, Pointers
  <2>2. this \in Block => Justified(t, Job("DecStrong", this))'
    BY DEF Justified, Job
  <2> QED  BY <1>2, <2>1, <2>2, Memory, JobsAfter DEF AddedTwo
<1> QED  BY <1>3, <1>4, <1>5 DEF IInv

(* A weak_ptr, likewise.                                                   *)
LEMMA WeakReleased ==
  ASSUME IInv, NEW t \in Thread, Idle(t), NEW this \in Block \cup {Null}, Has(weak, t, this),
         weak' = Loses(weak, t, this), NEW then \in {"IncWeak"},
         NEW other \in Block \cup {Null}, TwoJobs(t, "DecWeak", this, then, other),
         other \in Block => Justified(t, Job(then, other))', MemoryStays, UNCHANGED shared
  PROVE  IInv'
<1>1. /\ weak' \in Pointers /\ FiniteHeld(weak')
      /\ \A c \in Block : H(weak', c) = H(weak, c) - One(c = this)
      /\ \A u \in Thread, c \in Block : weak'[u][c] = weak[u][c] - One(u = t /\ c = this)
  BY LosesOne DEF IInv, TypeOK, Finite, FiniteHeld, Lost
<1>2. AddedTwo(t, "DecWeak", this, then, other)
  BY AddsTwo DEF Do
<1>3. TypeOK' /\ Finite'
  BY <1>1, <1>2, Memory DEF AddedTwo, IInv, TypeOK, Finite, FiniteHeld, MemoryStays
<1>4. ASSUME NEW c \in Block PROVE BlockOK(c)'
  <2>1. /\ H(weak, c)' = H(weak, c) - One(c = this) /\ H(shared, c)' = H(shared, c) /\ M(c)' = M(c)
        /\ P(agenda, "DecWeak", c)' = P(agenda, "DecWeak", c) + One(c = this)
        /\ P(agenda, "DecStrong", c)' = P(agenda, "DecStrong", c)
        /\ P(agenda, "Dispose", c)' = P(agenda, "Dispose", c)
        /\ P(agenda, "Destroy", c)' = P(agenda, "Destroy", c)
    BY <1>1, <1>2, Memory, Numbers DEF AddedTwo, Do, One
  <2>2. BlockOK(c) /\ strong_count'[c] = strong_count[c] /\ weak_count'[c] = weak_count[c]
    BY Memory DEF IInv
  <2> QED  BY <2>1, <2>2, Memory, Numbers DEF BlockOK, Do, One
<1>5. JobsJustified'
  <2>1. \A u \in Thread \ {t} : Keeps(u)
    BY <1>1 DEF Keeps, One, IInv, TypeOK, Pointers
  <2>2. this \in Block => Justified(t, Job("DecWeak", this))'
    BY DEF Justified, Job
  <2> QED  BY <1>2, <2>1, <2>2, Memory, JobsAfter DEF AddedTwo
<1> QED  BY <1>3, <1>4, <1>5 DEF IInv

-----------------------------------------------------------------------------
(* Steps that leave alone the jobs the counts depend on.                   *)
Settled == {"DecStrong", "DecWeak", "Dispose", "Destroy"}
Orderly(t) ==
  /\ agenda' \in Agendas /\ FinitelyMany(agenda')
  /\ \A u \in Thread \ {t} : agenda'[u] = agenda[u]
  /\ \A job \in Range(agenda'[t]) : job \in Range(agenda[t]) \/ Justified(t, job)'
Quiet(t) ==
  /\ Orderly(t)
  /\ \A d \in Settled, c \in Block : P(agenda', d, c) = P(agenda, d, c)

(* The rest of the agenda, the next job being done.                        *)
Rest(t) == [agenda EXCEPT ![t] = Tail(agenda[t])]
Done(t, B) ==
  /\ B \in Agendas /\ FinitelyMany(B) /\ B[t] = Tail(agenda[t])
  /\ Head(agenda[t]) \in Jobs /\ Head(agenda[t]) \in Range(agenda[t])
  /\ \A d \in Do, c \in Block : P(B, d, c) = P(agenda, d, c) - One(Is(Head(agenda[t]), d, c))
  /\ \A u \in Thread \ {t} : B[u] = agenda[u]
  /\ Range(B[t]) \subseteq Range(agenda[t])

LEMMA RestDone ==
  ASSUME IInv, NEW t \in Thread, ~Idle(t)
  PROVE  Done(t, Rest(t))
<1>1. agenda \in Agendas /\ FinitelyMany(agenda) /\ agenda[t] # <<>>
  BY DEF IInv, TypeOK, Finite, Idle
<1>2. Popped(agenda, t, Rest(t))
  BY DEF Popped, Rest
<1> DEFINE B == Rest(t)
<1> HIDE DEF B
<1>3. ASSUME Popped(agenda, t, B) PROVE Done(t, B)
  <2>1. /\ B \in Agendas /\ FinitelyMany(B) /\ Head(agenda[t]) \in Jobs /\ Head(agenda[t]) \in Range(agenda[t])
        /\ \A d \in Do, c \in Block : P(B, d, c) = P(agenda, d, c) - One(Is(Head(agenda[t]), d, c))
        /\ \A u \in Thread \ {t} : B[u] = agenda[u]
        /\ B[t] = Tail(agenda[t]) /\ Range(B[t]) \subseteq Range(agenda[t])
    BY <1>1, <1>3, PopsOne
  <2> QED  BY <2>1 DEF Done
<1> QED  BY <1>2, <1>3 DEF B

LEMMA Replaced ==
  ASSUME IInv, NEW t \in Thread, ~Idle(t), NEW jobs, Replace(t, jobs)
  PROVE  agenda' = [Rest(t) EXCEPT ![t] = jobs \o Rest(t)[t]]
BY DEF Replace, Rest, IInv, TypeOK, Agendas

LEMMA ReplacedByNone ==
  ASSUME IInv, NEW t \in Thread, ~Idle(t), Replace(t, <<>>)
  PROVE  agenda' = Rest(t)
<1>1. Tail(agenda[t]) \in Seq(Jobs)
  BY PopIsPush DEF IInv, TypeOK, Agendas, Idle
<1>2. <<>> \o Tail(agenda[t]) = Tail(agenda[t])
  BY <1>1
<1> QED  BY <1>2 DEF Replace, Rest, IInv, TypeOK, Agendas

LEMMA QuietSame == ASSUME IInv, NEW t, agenda' = agenda PROVE Quiet(t)
BY DEF IInv, TypeOK, Finite, Quiet, Orderly

LEMMA QuietDone ==
  ASSUME IInv, NEW t \in Thread, NEW do \in {"IncStrong", "ReadMember", "IncWeak", "Cas"},
         Next_(t, do), Replace(t, <<>>)
  PROVE  Quiet(t)
<1>1. Done(t, agenda')
  BY RestDone, ReplacedByNone DEF Next_
<1>2. ASSUME NEW d \in Settled, NEW c \in Block PROVE P(agenda', d, c) = P(agenda, d, c)
  <2>1. P(agenda', d, c) = P(agenda, d, c) - One(Is(Head(agenda[t]), d, c)) /\ P(agenda, d, c) \in Nat
    BY <1>1, Numbers DEF Done, Settled, Do
  <2>2. ~Is(Head(agenda[t]), d, c)
    BY DEF Is, Settled, Next_
  <2> QED  BY <2>1, <2>2 DEF One
<1> QED  BY <1>1, <1>2 DEF Done, Quiet, Orderly

LEMMA QuietRead ==
  ASSUME IInv, NEW t \in Thread, Next_(t, "ReadMember"), NEW c \in Block \cup {Null},
         Replace(t, Release("IncStrong", c)), c \in Block => Justified(t, Job("IncStrong", c))'
  PROVE  Quiet(t)
<1> DEFINE B == Rest(t)
<1>1. Done(t, B)
  BY RestDone DEF Next_
<1>2. Adds(B, t, "IncStrong", c, agenda')
  BY Replaced DEF Adds, Next_
<1> HIDE DEF B
<1>3. Added(B, t, "IncStrong", c, agenda')
  BY <1>1, <1>2, AddsOne DEF Done, Do
<1>4. ASSUME NEW d \in Settled, NEW x \in Block PROVE P(agenda', d, x) = P(agenda, d, x)
  <2>1. P(B, d, x) = P(agenda, d, x) - One(Is(Head(agenda[t]), d, x)) /\ P(agenda, d, x) \in Nat
    BY <1>1, Numbers DEF Done, Settled, Do
  <2>2. P(agenda', d, x) = P(B, d, x) + One(d = "IncStrong" /\ x = c)
    BY <1>3 DEF Added, Settled, Do
  <2>3. ~Is(Head(agenda[t]), d, x) /\ d # "IncStrong"
    BY DEF Is, Settled, Next_
  <2> QED  BY <2>1, <2>2, <2>3 DEF One
<1> QED  BY <1>1, <1>3, <1>4 DEF Done, Added, Quiet, Orderly

(* A job of weak_ptr::lock is put on top of t's agenda.                    *)
OnTop(A, t, job, B) ==
  /\ B \in Agendas /\ FinitelyMany(B)
  /\ \A d \in Do, c \in Block : P(B, d, c) = P(A, d, c)
  /\ \A u \in Thread \ {t} : B[u] = A[u]
  /\ Range(B[t]) = Range(A[t]) \cup {job}

LEMMA CasAdded ==
  ASSUME NEW A \in Agendas, FinitelyMany(A), NEW t \in Thread, NEW job \in Jobs, job.do = "Cas",
         NEW B, Pushed(A, t, job, B)
  PROVE  OnTop(A, t, job, B)
<1>1. /\ B \in Agendas /\ FinitelyMany(B)
      /\ \A d \in Do, c \in Block : P(B, d, c) = P(A, d, c) + One(Is(job, d, c))
  BY Push
<1>2. \A d \in Do, c \in Block : P(A, d, c) \in Nat /\ ~Is(job, d, c)
  BY CountPositive DEF FinitelyMany, P, Is, Do
<1>3. B[t] = <<job>> \o A[t] /\ A[t] \in Seq(Jobs) /\ \A u \in Thread \ {t} : B[u] = A[u]
  BY DEF Pushed, Agendas
<1> QED  BY <1>1, <1>2, <1>3, RangePush DEF One, OnTop

LEMMA QuietLock ==
  ASSUME IInv, NEW t \in Thread, Idle(t), NEW job \in Jobs, job.do = "Cas", Justified(t, job)',
         agenda' = [agenda EXCEPT ![t] = <<job>>]
  PROVE  Quiet(t)
<1>1. agenda \in Agendas /\ FinitelyMany(agenda) /\ agenda[t] = <<>>
  BY DEF IInv, TypeOK, Finite, Idle
<1>2. Pushed(agenda, t, job, agenda')
  BY <1>1 DEF Pushed
<1>3. OnTop(agenda, t, job, agenda')
  BY <1>1, <1>2, CasAdded
<1>4. Settled \subseteq Do /\ Range(agenda[t]) \cup {job} = {job}
  BY <1>1 DEF Settled, Do, Range
<1>5. Orderly(t)
  BY <1>3, <1>4 DEF OnTop, Orderly
<1> QED  BY <1>3, <1>4, <1>5 DEF OnTop, Quiet

LEMMA QuietRetry ==
  ASSUME IInv, NEW t \in Thread, Next_(t, "Cas"), NEW job \in Jobs, job.do = "Cas", Justified(t, job)',
         Replace(t, <<job>>)
  PROVE  Quiet(t)
<1> DEFINE B == Rest(t)
<1>1. Done(t, B)
  BY RestDone DEF Next_
<1>2. Pushed(B, t, job, agenda')
  BY Replaced DEF Pushed, Next_
<1> HIDE DEF B
<1>3. OnTop(B, t, job, agenda')
  BY <1>1, <1>2, CasAdded DEF Done
<1>4. ASSUME NEW d \in Settled, NEW x \in Block PROVE P(B, d, x) = P(agenda, d, x)
  <2>1. P(B, d, x) = P(agenda, d, x) - One(Is(Head(agenda[t]), d, x)) /\ P(agenda, d, x) \in Nat
    BY <1>1, Numbers DEF Done, Settled, Do
  <2>2. ~Is(Head(agenda[t]), d, x)
    BY DEF Is, Settled, Next_
  <2> QED  BY <2>1, <2>2 DEF One
<1> QED  BY <1>1, <1>3, <1>4 DEF Done, OnTop, Quiet, Orderly, Settled, Do

LEMMA OrderlyJobs ==
  ASSUME IInv, NEW t \in Thread, Orderly(t), MembersKept, \A u \in Thread : Idle(u) \/ Keeps(u)
  PROVE  JobsJustified'
<1>1. ASSUME NEW job \in Range(agenda'[t]) PROVE Justified(t, job)'
  <2>1. CASE job \in Range(agenda[t])
    <3>1. job \in Jobs /\ ~Idle(t)
      BY <2>1 DEF Range, Idle, IInv, TypeOK, Agendas
    <3>2. Justified(t, job)
      BY <2>1 DEF IInv, JobsJustified
    <3> QED  BY <3>1, <3>2, StillJustified
  <2>2. CASE job \notin Range(agenda[t])
    BY <1>1, <2>2 DEF Orderly
  <2> QED  BY <2>1, <2>2
<1> QED  BY <1>1, JobsAfter DEF Orderly

LEMMA QuietIInv ==
  ASSUME IInv, NEW t \in Thread, Quiet(t), UNCHANGED <<counts, memory, pointers>>
  PROVE  IInv'
<1>1. MemoryStays /\ shared' = shared /\ weak' = weak
  BY SameMemory DEF pointers
<1>2. TypeOK' /\ Finite'
  BY <1>1, Memory DEF IInv, TypeOK, Finite, Quiet, Orderly, MemoryStays
<1>3. ASSUME NEW c \in Block PROVE BlockOK(c)'
  <2>1. /\ BlockOK(c) /\ H(shared, c)' = H(shared, c) /\ H(weak, c)' = H(weak, c) /\ M(c)' = M(c)
        /\ P(agenda, "DecStrong", c)' = P(agenda, "DecStrong", c)
        /\ P(agenda, "DecWeak", c)' = P(agenda, "DecWeak", c)
        /\ P(agenda, "Dispose", c)' = P(agenda, "Dispose", c)
        /\ P(agenda, "Destroy", c)' = P(agenda, "Destroy", c)
    BY <1>1, Memory DEF Quiet, Settled, IInv
  <2> QED  BY <1>1, <2>1, Memory DEF BlockOK
<1>4. JobsJustified'
  BY <1>1, Memory, OrderlyJobs DEF Quiet, Keeps
<1> QED  BY <1>2, <1>3, <1>4 DEF IInv

(* One more shared_ptr to an object that is alive.                         *)
LEMMA SharedGained ==
  ASSUME IInv, NEW t \in Thread, Quiet(t), NEW b \in Block, StrongAlive(b),
         strong_count' = [strong_count EXCEPT ![b] = strong_count[b] + 1],
         shared' = Gains(shared, t, b), UNCHANGED <<weak_count, memory, weak>>
  PROVE  IInv'
<1>1. /\ shared' \in Pointers /\ FiniteHeld(shared')
      /\ \A c \in Block : H(shared', c) = H(shared, c) + One(c = b)
      /\ \A u \in Thread, c \in Block : shared'[u][c] = shared[u][c] + One(u = t /\ c = b)
  BY GainsOne DEF IInv, TypeOK, Finite, FiniteHeld, Gained
<1>2. object' = object /\ block' = block /\ member' = member /\ \A c \in Block : M(c)' = M(c)
  BY DEF memory, M, Inside
<1>3. TypeOK' /\ Finite'
  BY <1>1, <1>2 DEF IInv, TypeOK, Finite, FiniteHeld, Quiet, Orderly
<1>4. ASSUME NEW c \in Block PROVE BlockOK(c)'
  <2>1. /\ H(shared, c)' = H(shared, c) + One(c = b) /\ H(weak, c)' = H(weak, c) /\ M(c)' = M(c)
        /\ P(agenda, "DecStrong", c)' = P(agenda, "DecStrong", c)
        /\ P(agenda, "DecWeak", c)' = P(agenda, "DecWeak", c)
        /\ P(agenda, "Dispose", c)' = P(agenda, "Dispose", c)
        /\ P(agenda, "Destroy", c)' = P(agenda, "Destroy", c)
    BY <1>1, <1>2 DEF Quiet, Settled
  <2>2. BlockOK(c) /\ strong_count'[c] = strong_count[c] + One(c = b) /\ weak_count'[c] = weak_count[c]
    BY DEF IInv, TypeOK, One
  <2> QED  BY <1>2, <2>1, <2>2, Numbers DEF BlockOK, Do, One, StrongAlive
<1>5. \A u \in Thread : Keeps(u)
  BY <1>1 DEF Keeps, One, IInv, TypeOK, Pointers
<1>6. JobsJustified'
  BY <1>2, <1>5, OrderlyJobs DEF Quiet, MembersKept
<1> QED  BY <1>3, <1>4, <1>6 DEF IInv

(* One more weak_ptr to a block that is.                                   *)
LEMMA WeakGained ==
  ASSUME IInv, NEW t \in Thread, Quiet(t), NEW b \in Block, WeakAlive(b),
         CountWeak(b), weak' = Gains(weak, t, b), UNCHANGED <<strong_count, memory, shared>>
  PROVE  IInv'
<1>1. /\ weak' \in Pointers /\ FiniteHeld(weak')
      /\ \A c \in Block : H(weak', c) = H(weak, c) + One(c = b)
      /\ \A u \in Thread, c \in Block : weak'[u][c] = weak[u][c] + One(u = t /\ c = b)
  BY GainsOne DEF IInv, TypeOK, Finite, FiniteHeld, Gained
<1>2. strong_count' = strong_count /\ shared' = shared
      /\ object' = object /\ block' = block /\ member' = member /\ \A c \in Block : M(c)' = M(c)
  BY DEF memory, M, Inside
<1>3. TypeOK' /\ Finite'
  BY <1>1, <1>2 DEF IInv, TypeOK, Finite, FiniteHeld, Quiet, Orderly, CountWeak
<1>4. ASSUME NEW c \in Block PROVE BlockOK(c)'
  <2>1. /\ H(weak, c)' = H(weak, c) + One(c = b) /\ H(shared, c)' = H(shared, c) /\ M(c)' = M(c)
        /\ P(agenda, "DecStrong", c)' = P(agenda, "DecStrong", c)
        /\ P(agenda, "DecWeak", c)' = P(agenda, "DecWeak", c)
        /\ P(agenda, "Dispose", c)' = P(agenda, "Dispose", c)
        /\ P(agenda, "Destroy", c)' = P(agenda, "Destroy", c)
    BY <1>1, <1>2 DEF Quiet, Settled
  <2>2. BlockOK(c) /\ weak_count'[c] = weak_count[c] + One(c = b) /\ strong_count'[c] = strong_count[c]
    BY <1>2 DEF IInv, TypeOK, One, CountWeak
  <2>3. CASE c = b
    BY <1>2, <2>1, <2>2, <2>3, Numbers DEF BlockOK, Do, One, WeakAlive
  <2>4. CASE c # b
    BY <1>2, <2>1, <2>2, <2>4, Numbers DEF BlockOK, Do, One
  <2> QED  BY <2>3, <2>4
<1>5. \A u \in Thread : Keeps(u)
  BY <1>1, <1>2 DEF Keeps, One, IInv, TypeOK, Pointers
<1>6. JobsJustified'
  BY <1>2, <1>5, OrderlyJobs DEF Quiet, MembersKept
<1> QED  BY <1>3, <1>4, <1>6 DEF IInv

(* A pointer goes from an idle thread to another.                          *)
LEMMA SharedMoved ==
  ASSUME IInv, NEW t \in Thread, NEW u \in Thread, NEW b \in Block, MoveCtor(t, u, b)
  PROVE  IInv'
<1> DEFINE less == Loses(shared, t, b)
<1>1. /\ Idle(t) /\ Idle(u) /\ t # u /\ shared[t][b] > 0 /\ shared' = Gains(less, u, b)
      /\ counts' = counts /\ memory' = memory /\ weak' = weak /\ agenda' = agenda
  BY DEF MoveCtor, counts, memory
<1> HIDE DEF less
<1>2. /\ less \in Pointers /\ FiniteHeld(less)
      /\ \A c \in Block : H(less, c) = H(shared, c) - One(c = b)
      /\ \A v \in Thread, c \in Block : less[v][c] = shared[v][c] - One(v = t /\ c = b)
  BY <1>1, LosesOne DEF IInv, TypeOK, Finite, FiniteHeld, Lost, Has, less
<1>3. /\ shared' \in Pointers /\ FiniteHeld(shared')
      /\ \A c \in Block : H(shared', c) = H(less, c) + One(c = b)
      /\ \A v \in Thread, c \in Block : shared'[v][c] = less[v][c] + One(v = u /\ c = b)
  BY <1>1, <1>2, GainsOne DEF Gained
<1>4. MemoryStays
  BY <1>1, SameMemory
<1>5. TypeOK' /\ Finite'
  BY <1>1, <1>3, <1>4, Memory DEF IInv, TypeOK, Finite, FiniteHeld, MemoryStays
<1>6. ASSUME NEW c \in Block PROVE BlockOK(c)'
  <2>1. H(shared, c)' = H(shared, c) /\ BlockOK(c)
    BY <1>2, <1>3, Numbers DEF One, IInv
  <2> QED  BY <1>1, <1>4, <2>1, Memory DEF BlockOK
<1>7. Quiet(t)
  BY <1>1, QuietSame
<1>8. \A v \in Thread : Idle(v) \/ Keeps(v)
  BY <1>1, <1>2, <1>3 DEF Keeps, One, IInv, TypeOK, Pointers
<1>9. JobsJustified'
  BY <1>4, <1>7, <1>8, Memory, OrderlyJobs DEF Quiet
<1> QED  BY <1>5, <1>6, <1>9 DEF IInv

LEMMA WeakMoved ==
  ASSUME IInv, NEW t \in Thread, NEW u \in Thread, NEW b \in Block, WeakMoveCtor(t, u, b)
  PROVE  IInv'
<1> DEFINE less == Loses(weak, t, b)
<1>1. /\ Idle(t) /\ Idle(u) /\ t # u /\ weak[t][b] > 0 /\ weak' = Gains(less, u, b)
      /\ counts' = counts /\ memory' = memory /\ shared' = shared /\ agenda' = agenda
  BY DEF WeakMoveCtor, counts, memory
<1> HIDE DEF less
<1>2. /\ less \in Pointers /\ FiniteHeld(less)
      /\ \A c \in Block : H(less, c) = H(weak, c) - One(c = b)
      /\ \A v \in Thread, c \in Block : less[v][c] = weak[v][c] - One(v = t /\ c = b)
  BY <1>1, LosesOne DEF IInv, TypeOK, Finite, FiniteHeld, Lost, Has, less
<1>3. /\ weak' \in Pointers /\ FiniteHeld(weak')
      /\ \A c \in Block : H(weak', c) = H(less, c) + One(c = b)
      /\ \A v \in Thread, c \in Block : weak'[v][c] = less[v][c] + One(v = u /\ c = b)
  BY <1>1, <1>2, GainsOne DEF Gained
<1>4. MemoryStays
  BY <1>1, SameMemory
<1>5. TypeOK' /\ Finite'
  BY <1>1, <1>3, <1>4, Memory DEF IInv, TypeOK, Finite, FiniteHeld, MemoryStays
<1>6. ASSUME NEW c \in Block PROVE BlockOK(c)'
  <2>1. H(weak, c)' = H(weak, c) /\ BlockOK(c)
    BY <1>2, <1>3, Numbers DEF One, IInv
  <2> QED  BY <1>1, <1>4, <2>1, Memory DEF BlockOK
<1>7. Quiet(t)
  BY <1>1, QuietSame
<1>8. \A v \in Thread : Idle(v) \/ Keeps(v)
  BY <1>1, <1>2, <1>3 DEF Keeps, One, IInv, TypeOK, Pointers
<1>9. JobsJustified'
  BY <1>4, <1>7, <1>8, Memory, OrderlyJobs DEF Quiet
<1> QED  BY <1>5, <1>6, <1>9 DEF IInv

(* A block that is not made yet: nothing points to it.                     *)
LEMMA Unmade ==
  ASSUME IInv, NEW b \in Block, object[b] = "none"
  PROVE  /\ block[b] = "none" /\ strong_count[b] = 0 /\ weak_count[b] = 0
         /\ H(shared, b) = 0 /\ H(weak, b) = 0 /\ M(b) = 0
         /\ \A d \in Settled : P(agenda, d, b) = 0
<1>1. BlockOK(b)
  BY DEF IInv
<1>2. block[b] = "none" /\ strong_count[b] = 0 /\ weak_count[b] = 0
  BY <1>1, Numbers DEF BlockOK
<1>3. H(shared, b) = 0 /\ M(b) = 0 /\ P(agenda, "DecStrong", b) = 0
  BY <1>1, <1>2, Numbers DEF BlockOK, Do
<1>4. H(weak, b) = 0 /\ P(agenda, "DecWeak", b) = 0
  BY <1>1, <1>2, Numbers DEF BlockOK, Do, One
<1>5. P(agenda, "Dispose", b) = 0 /\ P(agenda, "Destroy", b) = 0
  BY <1>1, <1>2 DEF BlockOK, One
<1> QED  BY <1>2, <1>3, <1>4, <1>5 DEF Settled

LEMMA CreateIInv ==
  ASSUME IInv, NEW t \in Thread, NEW b \in Block, NEW inside \in Block \cup {Null}, Create(t, b, inside)
  PROVE  IInv'
<1> DEFINE less == Loses(shared, t, inside)
<1>1. /\ Idle(t) /\ object[b] = "none" /\ Has(shared, t, inside) /\ inside # b
      /\ object' = [object EXCEPT ![b] = "live"] /\ block' = [block EXCEPT ![b] = "live"]
      /\ member' = [member EXCEPT ![b] = inside]
      /\ strong_count' = [strong_count EXCEPT ![b] = 1] /\ weak_count' = [weak_count EXCEPT ![b] = 1]
      /\ shared' = Gains(less, t, b) /\ weak' = weak /\ agenda' = agenda
  BY DEF Create
<1> HIDE DEF less
<1>2. /\ less \in Pointers /\ FiniteHeld(less)
      /\ \A c \in Block : H(less, c) = H(shared, c) - One(c = inside)
      /\ \A v \in Thread, c \in Block : less[v][c] = shared[v][c] - One(v = t /\ c = inside)
  BY <1>1, LosesOne DEF IInv, TypeOK, Finite, FiniteHeld, Lost, less
<1>3. /\ shared' \in Pointers /\ FiniteHeld(shared')
      /\ \A c \in Block : H(shared', c) = H(less, c) + One(c = b)
      /\ \A v \in Thread, c \in Block : shared'[v][c] = less[v][c] + One(v = t /\ c = b)
  BY <1>1, <1>2, GainsOne DEF Gained
<1>4. TypeOK' /\ Finite'
  BY <1>1, <1>3 DEF IInv, TypeOK, Finite, FiniteHeld
<1>5. ASSUME NEW c \in Block PROVE M(c)' = M(c) + One(c = inside)
  <2>1. b \notin Inside(c) /\ Inside(c)' = IF c = inside THEN Inside(c) \cup {b} ELSE Inside(c)
    BY <1>1 DEF Inside, IInv, TypeOK
  <2>2. CASE c = inside
    <3>1. Grown(Inside(c), Inside(c)')
      BY <2>1, <2>2, GrownByOne
    <3> QED  BY <2>2, <3>1, InsideFinite DEF Grown, M, One
  <2>3. CASE c # inside
    BY <2>1, <2>3, InsideFinite DEF M, One
  <2> QED  BY <2>2, <2>3
<1>6. ASSUME NEW c \in Block PROVE BlockOK(c)'
  <2>1. /\ BlockOK(c) /\ H(shared, c)' = H(shared, c) - One(c = inside) + One(c = b)
        /\ H(weak, c)' = H(weak, c) /\ M(c)' = M(c) + One(c = inside)
    BY <1>1, <1>2, <1>3, <1>5, Numbers DEF One, IInv
  <2>2. CASE c = b
    <3>1. /\ object'[c] = "live" /\ block'[c] = "live" /\ strong_count'[c] = 1 /\ weak_count'[c] = 1
          /\ H(shared, c)' = 1 /\ H(weak, c)' = 0 /\ M(c)' = 0
          /\ \A d \in Settled : P(agenda, d, c)' = 0
      BY <1>1, <2>1, <2>2, Unmade DEF One, IInv, TypeOK
    <3> QED  BY <3>1 DEF BlockOK, One, Settled
  <2>3. CASE c # b
    <3>1. /\ object'[c] = object[c] /\ block'[c] = block[c]
          /\ strong_count'[c] = strong_count[c] /\ weak_count'[c] = weak_count[c] /\ agenda' = agenda
      BY <1>1, <2>3 DEF IInv, TypeOK
    <3>2. H(shared, c)' + M(c)' = H(shared, c) + M(c)
      BY <2>1, <2>3, Numbers DEF One
    <3>3. strong_count[c] = H(shared, c)' + M(c)' + P(agenda, "DecStrong", c)
      BY <2>1, <3>2 DEF BlockOK
    <3> QED  BY <2>1, <3>1, <3>3 DEF BlockOK
  <2> QED  BY <2>2, <2>3
<1>7. MembersKept
  BY <1>1 DEF MembersKept, IInv, TypeOK
<1>8. \A v \in Thread : Idle(v) \/ Keeps(v)
  <2>1. SUFFICES ASSUME NEW v \in Thread \ {t} PROVE Keeps(v)
    BY <1>1
  <2>2. \A c \in Block : shared'[v][c] = shared[v][c] /\ shared[v][c] \in Nat
    BY <1>2, <1>3 DEF One, IInv, TypeOK, Pointers
  <2> QED  BY <1>1, <2>2 DEF Keeps
<1>9. JobsJustified'
  BY <1>1, <1>7, <1>8, QuietSame, OrderlyJobs DEF Quiet
<1> QED  BY <1>4, <1>6, <1>9 DEF IInv

-----------------------------------------------------------------------------
(* The jobs that give up a count, and what they leave to be done.          *)
LEMMA SettledJustified == ASSUME NEW t, NEW d \in Settled, NEW b PROVE Justified(t, Job(d, b))'
BY DEF Justified, Job, Settled


LEMMA WorkOne ==
  ASSUME IInv, NEW t \in Thread, ~Idle(t), NEW do \in Settled, NEW x \in Block \cup {Null},
         Replace(t, Release(do, x))
  PROVE  /\ Orderly(t)
         /\ \A d \in Settled, c \in Block :
              P(agenda', d, c) = P(agenda, d, c) - One(Is(Head(agenda[t]), d, c)) + One(d = do /\ c = x)
<1> DEFINE B == Rest(t)
<1>1. Done(t, B)
  BY RestDone
<1>2. Adds(B, t, do, x, agenda')
  BY Replaced DEF Adds
<1> HIDE DEF B
<1>3. Added(B, t, do, x, agenda')
  BY <1>1, <1>2, AddsOne DEF Done, Settled, Do
<1>4. Orderly(t)
  BY <1>1, <1>3, SettledJustified DEF Done, Added, Orderly
<1>5. ASSUME NEW d \in Settled, NEW c \in Block
      PROVE  P(agenda', d, c) = P(agenda, d, c) - One(Is(Head(agenda[t]), d, c)) + One(d = do /\ c = x)
  <2>1. /\ P(B, d, c) = P(agenda, d, c) - One(Is(Head(agenda[t]), d, c)) /\ P(agenda, d, c) \in Nat
        /\ P(agenda', d, c) = P(B, d, c) + One(d = do /\ c = x)
    BY <1>1, <1>3, Numbers DEF Done, Added, Settled, Do
  <2> QED  BY <2>1 DEF One
<1> QED  BY <1>4, <1>5

LEMMA Pair == ASSUME NEW j \in Jobs, NEW k \in Jobs PROVE <<j, k>> = <<j>> \o <<k>>
<1> DEFINE r == <<j>> \o <<k>>
<1>1. <<j>> \in Seq(Jobs) /\ <<k>> \in Seq(Jobs)
  OBVIOUS
<1>2. r \in Seq(Jobs) /\ Len(r) = 2 /\ r[1] = j /\ r[2] = k
  BY <1>1
<1>3. <<j, k>> \in Seq(Jobs) /\ Len(<<j, k>>) = 2 /\ <<j, k>>[1] = j /\ <<j, k>>[2] = k
  OBVIOUS
<1> HIDE DEF r
<1>4. <<j, k>> = r
  BY <1>2, <1>3, SeqEqual
<1> QED  BY <1>4 DEF r

LEMMA WorkTwo ==
  ASSUME IInv, NEW t \in Thread, ~Idle(t), NEW do \in Settled, NEW then \in Settled, NEW x \in Block,
         Replace(t, <<Job(do, x), Job(then, x)>>)
  PROVE  /\ Orderly(t)
         /\ \A d \in Settled, c \in Block :
              P(agenda', d, c) = P(agenda, d, c) - One(Is(Head(agenda[t]), d, c))
                                 + One(d = do /\ c = x) + One(d = then /\ c = x)
<1> DEFINE B == Rest(t)
           C == [B EXCEPT ![t] = Release(then, x) \o B[t]]
<1>1. Done(t, B)
  BY RestDone
<1>2. Adds(B, t, then, x, C)
  BY DEF Adds
<1>3. Adds(C, t, do, x, agenda')
  <2>1. B \in Agendas /\ B[t] \in Seq(Jobs) /\ x # Null
    BY <1>1, SharedPtrAssumption DEF Done, Agendas
  <2>2. Job(do, x) \in Jobs /\ Job(then, x) \in Jobs
    BY DEF Job, Jobs, Do, Settled
  <2>3. \A j, k \in Jobs, q \in Seq(Jobs) : <<j, k>> \o q = <<j>> \o (<<k>> \o q)
    <3> SUFFICES ASSUME NEW j \in Jobs, NEW k \in Jobs, NEW q \in Seq(Jobs)
                 PROVE  <<j, k>> \o q = <<j>> \o (<<k>> \o q)
      OBVIOUS
    <3>1. <<j>> \in Seq(Jobs) /\ <<k>> \in Seq(Jobs)
      OBVIOUS
    <3> QED  BY <3>1, Pair, ConcatAssociative
  <2>4. C[t] = <<Job(then, x)>> \o B[t] /\ agenda' = [B EXCEPT ![t] = <<Job(do, x), Job(then, x)>> \o B[t]]
    BY <2>1, Replaced DEF Release, Agendas
  <2>5. agenda' = [C EXCEPT ![t] = <<Job(do, x)>> \o C[t]]
    BY <2>1, <2>2, <2>3, <2>4 DEF Agendas
  <2> QED  BY <2>1, <2>5 DEF Adds, Release
<1> HIDE DEF B, C
<1>4. Added(B, t, then, x, C)
  BY <1>1, <1>2, AddsOne DEF Done, Settled, Do
<1>5. Added(C, t, do, x, agenda')
  <2>1. C \in Agendas /\ FinitelyMany(C)
    BY <1>4 DEF Added
  <2> QED  BY <1>3, <2>1, AddsOne DEF Settled, Do
<1>6. Orderly(t)
  BY <1>1, <1>4, <1>5, SettledJustified DEF Done, Added, Orderly
<1>7. ASSUME NEW d \in Settled, NEW c \in Block
      PROVE  P(agenda', d, c) = P(agenda, d, c) - One(Is(Head(agenda[t]), d, c))
                                 + One(d = do /\ c = x) + One(d = then /\ c = x)
  <2>1. /\ P(B, d, c) = P(agenda, d, c) - One(Is(Head(agenda[t]), d, c)) /\ P(agenda, d, c) \in Nat
        /\ P(C, d, c) = P(B, d, c) + One(d = then /\ c = x)
        /\ P(agenda', d, c) = P(C, d, c) + One(d = do /\ c = x)
    BY <1>1, <1>4, <1>5, Numbers DEF Done, Added, Settled, Do
  <2> QED  BY <2>1 DEF One
<1> QED  BY <1>6, <1>7

(* The job a thread is at.                                                 *)
LEMMA HeadJob ==
  ASSUME IInv, NEW t \in Thread, NEW do, Next_(t, do)
  PROVE  /\ ~Idle(t) /\ Head(agenda[t]) \in Jobs /\ Head(agenda[t]).block \in Block
         /\ Justified(t, Head(agenda[t]))
         /\ \A d \in Do, c \in Block : Is(Head(agenda[t]), d, c) <=> d = do /\ c = Head(agenda[t]).block
         /\ do \in Do => P(agenda, do, Head(agenda[t]).block) > 0
<1>1. ~Idle(t) /\ Head(agenda[t]).do = do
  BY DEF Next_
<1>2. Head(agenda[t]) \in Jobs /\ Head(agenda[t]) \in Range(agenda[t])
  BY <1>1, RestDone DEF Done
<1>3. Head(agenda[t]).block \in Block
  BY <1>2 DEF Jobs
<1>4. Justified(t, Head(agenda[t]))
  BY <1>2 DEF IInv, JobsJustified
<1>5. do \in Do => P(agenda, do, Head(agenda[t]).block) > 0
  BY <1>1, <1>2, <1>3, JobCounted DEF IInv, TypeOK, Finite, Is
<1> QED  BY <1>1, <1>2, <1>3, <1>4, <1>5 DEF Is

LEMMA DecStrongIInv == ASSUME IInv, NEW t \in Thread, DecStrong(t) PROVE IInv'
<1> DEFINE b == Head(agenda[t]).block
           last == LastStrong(b)
<1>1. /\ ~Idle(t) /\ b \in Block
      /\ \A d \in Do, c \in Block : Is(Head(agenda[t]), d, c) <=> d = "DecStrong" /\ c = b
      /\ P(agenda, "DecStrong", b) > 0
  BY HeadJob DEF DecStrong, Do
<1>2. /\ strong_count' = [strong_count EXCEPT ![b] = strong_count[b] - 1] /\ weak_count' = weak_count
      /\ object' = object /\ block' = block /\ member' = member /\ shared' = shared /\ weak' = weak
  BY DEF DecStrong, memory, pointers
<1>3. StrongAlive(b) /\ (last <=> strong_count[b] = 1)
  BY <1>1, Alive DEF LastStrong
<1>4. /\ Orderly(t)
      /\ \A c \in Block :
           /\ P(agenda', "DecStrong", c) = P(agenda, "DecStrong", c) - One(c = b)
           /\ P(agenda', "Dispose", c) = P(agenda, "Dispose", c) + One(last /\ c = b)
           /\ P(agenda', "DecWeak", c) = P(agenda, "DecWeak", c) + One(last /\ c = b)
           /\ P(agenda', "Destroy", c) = P(agenda, "Destroy", c)
  <2>1. CASE last
    <3>1. Replace(t, <<Job("Dispose", b), Job("DecWeak", b)>>)
      BY <2>1 DEF DecStrong
    <3>2. /\ Orderly(t)
          /\ \A d \in Settled, c \in Block :
               P(agenda', d, c) = P(agenda, d, c) - One(Is(Head(agenda[t]), d, c))
                                 + One(d = "Dispose" /\ c = b) + One(d = "DecWeak" /\ c = b)
      BY <1>1, <3>1, WorkTwo DEF Settled
    <3> HIDE DEF b, last
    <3> QED  BY <1>1, <2>1, <3>2, Numbers DEF Settled, Do, One
  <2>2. CASE ~last
    <3>1. Replace(t, Release("Destroy", Null))
      BY <2>2 DEF DecStrong, Release
    <3>2. /\ Orderly(t)
          /\ \A d \in Settled, c \in Block :
               P(agenda', d, c) = P(agenda, d, c) - One(Is(Head(agenda[t]), d, c)) + One(d = "Destroy" /\ c = Null)
      BY <1>1, <3>1, WorkOne DEF Settled
    <3> HIDE DEF b, last
    <3> QED  BY <1>1, <2>2, <3>2, Numbers, SharedPtrAssumption DEF Settled, Do, One
  <2> QED  BY <2>1, <2>2
<1> HIDE DEF b, last
<1>5. strong_count' \in [Block -> Nat]
  BY <1>1, <1>2, <1>3 DEF IInv, TypeOK, StrongAlive
<1>6. TypeOK' /\ Finite'
  BY <1>2, <1>4, <1>5 DEF IInv, TypeOK, Finite, Orderly
<1>7. ASSUME NEW c \in Block PROVE BlockOK(c)'
  <2>1. BlockOK(c) /\ H(shared, c)' = H(shared, c) /\ H(weak, c)' = H(weak, c) /\ M(c)' = M(c)
    BY <1>2 DEF IInv, M, Inside
  <2>2. CASE c = b
    <3>1. strong_count'[c] = strong_count[c] - 1
      BY <1>2, <2>2 DEF IInv, TypeOK
    <3>2. /\ strong_count[c] > 0 /\ object[c] = "live" /\ block[c] = "live" /\ weak_count[c] > 0
          /\ last <=> strong_count[c] = 1
      BY <1>3, <2>2 DEF StrongAlive
    <3>3. /\ P(agenda', "DecStrong", c) = P(agenda, "DecStrong", c) - 1
          /\ P(agenda', "Dispose", c) = P(agenda, "Dispose", c) + One(last)
          /\ P(agenda', "DecWeak", c) = P(agenda, "DecWeak", c) + One(last)
          /\ P(agenda', "Destroy", c) = P(agenda, "Destroy", c)
      BY <1>4, <2>2 DEF One
    <3>4. CASE last
      BY <1>2, <2>1, <3>1, <3>2, <3>3, <3>4, Numbers DEF BlockOK, Do, One
    <3>5. CASE ~last
      BY <1>2, <2>1, <3>1, <3>2, <3>3, <3>5, Numbers DEF BlockOK, Do, One
    <3> QED  BY <3>4, <3>5
  <2>3. CASE c # b
    <3>1. strong_count'[c] = strong_count[c]
      BY <1>2, <2>3 DEF IInv, TypeOK
    <3> QED  BY <1>2, <1>4, <2>1, <2>3, <3>1, Numbers DEF BlockOK, Do, One
  <2> QED  BY <2>2, <2>3
<1>8. JobsJustified'
  BY <1>2, <1>4, OrderlyJobs DEF MembersKept, Keeps
<1> QED  BY <1>6, <1>7, <1>8 DEF IInv

LEMMA DecWeakIInv == ASSUME IInv, NEW t \in Thread, DecWeak(t) PROVE IInv'
<1> DEFINE b == Head(agenda[t]).block
           last == LastWeak(b)
           x == IF last THEN b ELSE Null
<1>1. /\ ~Idle(t) /\ b \in Block
      /\ \A d \in Do, c \in Block : Is(Head(agenda[t]), d, c) <=> d = "DecWeak" /\ c = b
      /\ P(agenda, "DecWeak", b) > 0
  BY HeadJob DEF DecWeak, Do
<1>2. /\ weak_count' = [weak_count EXCEPT ![b] = weak_count[b] - 1] /\ strong_count' = strong_count
      /\ object' = object /\ block' = block /\ member' = member /\ shared' = shared /\ weak' = weak
  BY DEF DecWeak, memory, pointers
<1>3. WeakAlive(b) /\ (last <=> weak_count[b] = 1)
  BY <1>1, Alive DEF LastWeak
<1>4. Null \notin Block
  BY SharedPtrAssumption
<1>5. Replace(t, Release("Destroy", x))
  BY <1>1, <1>4 DEF DecWeak, Release
<1>6. x \in Block \cup {Null} /\ \A c \in Block : c = x <=> last /\ c = b
  BY <1>1, <1>4
<1> HIDE DEF b, last, x
<1>7. /\ Orderly(t)
      /\ \A d \in Settled, c \in Block :
           P(agenda', d, c) = P(agenda, d, c) - One(Is(Head(agenda[t]), d, c)) + One(d = "Destroy" /\ c = x)
  BY <1>1, <1>5, <1>6, WorkOne DEF Settled
<1>8. \A c \in Block :
        /\ P(agenda', "DecWeak", c) = P(agenda, "DecWeak", c) - One(c = b)
        /\ P(agenda', "Destroy", c) = P(agenda, "Destroy", c) + One(last /\ c = b)
        /\ P(agenda', "DecStrong", c) = P(agenda, "DecStrong", c)
        /\ P(agenda', "Dispose", c) = P(agenda, "Dispose", c)
  BY <1>1, <1>6, <1>7, Numbers DEF Settled, Do, One
<1>9. weak_count' \in [Block -> Nat]
  BY <1>1, <1>2, <1>3 DEF IInv, TypeOK, WeakAlive
<1>10. TypeOK' /\ Finite'
  BY <1>2, <1>7, <1>9 DEF IInv, TypeOK, Finite, Orderly
<1>11. ASSUME NEW c \in Block PROVE BlockOK(c)'
  <2>1. BlockOK(c) /\ H(shared, c)' = H(shared, c) /\ H(weak, c)' = H(weak, c) /\ M(c)' = M(c)
    BY <1>2 DEF IInv, M, Inside
  <2>2. CASE c = b
    <3>1. weak_count'[c] = weak_count[c] - 1
      BY <1>2, <2>2 DEF IInv, TypeOK
    <3> QED  BY <1>2, <1>3, <1>8, <2>1, <2>2, <3>1, Numbers DEF BlockOK, Do, One, WeakAlive
  <2>3. CASE c # b
    <3>1. weak_count'[c] = weak_count[c]
      BY <1>2, <2>3 DEF IInv, TypeOK
    <3>2. \A d \in Settled : P(agenda', d, c) = P(agenda, d, c)
      BY <1>8, <2>3, Numbers DEF Settled, Do, One
    <3> QED  BY <1>2, <2>1, <3>1, <3>2 DEF BlockOK, Settled
  <2> QED  BY <2>2, <2>3
<1>12. JobsJustified'
  BY <1>2, <1>7, OrderlyJobs DEF MembersKept, Keeps
<1> QED  BY <1>10, <1>11, <1>12 DEF IInv

(* The object goes, and with it its member's place among the pointers.     *)
LEMMA DisposeIInv == ASSUME IInv, NEW t \in Thread, Dispose(t) PROVE IInv'
<1> DEFINE b == Head(agenda[t]).block
           x == member[b]
<1>1. /\ ~Idle(t) /\ b \in Block
      /\ \A d \in Do, c \in Block : Is(Head(agenda[t]), d, c) <=> d = "Dispose" /\ c = b
      /\ P(agenda, "Dispose", b) > 0
  BY HeadJob DEF Dispose, Do
<1>2. /\ object' = [object EXCEPT ![b] = "dead"] /\ block' = block /\ member' = member
      /\ strong_count' = strong_count /\ weak_count' = weak_count /\ shared' = shared /\ weak' = weak
      /\ Replace(t, Release("DecStrong", x))
  BY DEF Dispose, counts, pointers
<1>3. x \in Block \cup {Null}
  BY <1>1 DEF IInv, TypeOK
<1>4. object[b] = "live" /\ strong_count[b] = 0 /\ P(agenda, "Dispose", b) = 1
  <2>1. BlockOK(b)
    BY <1>1 DEF IInv
  <2> QED  BY <1>1, <2>1 DEF BlockOK, One
<1>5. x # b
  <2>1. x = b => StrongAlive(b)
    BY <1>1, <1>4, Alive
  <2> QED  BY <1>4, <2>1 DEF StrongAlive
<1>6. ASSUME NEW c \in Block PROVE M(c)' = M(c) - One(c = x)
  <2>1. Inside(c)' = IF c = x THEN Inside(c) \ {b} ELSE Inside(c)
    BY <1>1, <1>2 DEF Inside, IInv, TypeOK
  <2>2. CASE c = x
    <3>1. b \in Inside(c)
      BY <1>1, <1>4, <2>2 DEF Inside
    <3>2. Shrunk(Inside(c), Inside(c)')
      BY <2>1, <2>2, <3>1, ShrunkByOne
    <3> QED  BY <2>2, <3>2, InsideFinite DEF Shrunk, M, One
  <2>3. CASE c # x
    BY <2>1, <2>3, InsideFinite DEF M, One
  <2> QED  BY <2>2, <2>3
<1>7. MembersKept
  BY <1>2 DEF MembersKept
<1> HIDE DEF b, x
<1>8. /\ Orderly(t)
      /\ \A d \in Settled, c \in Block :
           P(agenda', d, c) = P(agenda, d, c) - One(Is(Head(agenda[t]), d, c)) + One(d = "DecStrong" /\ c = x)
  BY <1>1, <1>2, <1>3, WorkOne DEF Settled
<1>9. \A c \in Block :
        /\ P(agenda', "DecStrong", c) = P(agenda, "DecStrong", c) + One(c = x)
        /\ P(agenda', "Dispose", c) = P(agenda, "Dispose", c) - One(c = b)
        /\ P(agenda', "DecWeak", c) = P(agenda, "DecWeak", c)
        /\ P(agenda', "Destroy", c) = P(agenda, "Destroy", c)
  BY <1>1, <1>8, Numbers DEF Settled, Do, One
<1>10. TypeOK' /\ Finite'
  BY <1>2, <1>8 DEF IInv, TypeOK, Finite, Orderly
<1>11. ASSUME NEW c \in Block PROVE BlockOK(c)'
  <2>1. BlockOK(c) /\ H(shared, c)' = H(shared, c) /\ H(weak, c)' = H(weak, c)
    BY <1>2 DEF IInv
  <2>2. CASE c = b
    <3>1. object'[c] = "dead" /\ M(c)' = M(c)
      BY <1>2, <1>5, <1>6, <2>2, InsideFinite DEF One, IInv, TypeOK
    <3>2. /\ P(agenda', "DecStrong", c) = P(agenda, "DecStrong", c)
          /\ P(agenda', "Dispose", c) = 0
          /\ P(agenda', "DecWeak", c) = P(agenda, "DecWeak", c)
          /\ P(agenda', "Destroy", c) = P(agenda, "Destroy", c)
      BY <1>4, <1>5, <1>9, <2>2, Numbers DEF One, Do
    <3>3. object[c] = "live" /\ strong_count[c] = 0
      BY <1>4, <2>2
    <3> QED  BY <1>2, <2>1, <3>1, <3>2, <3>3 DEF BlockOK, One
  <2>3. CASE c # b
    <3>1. object'[c] = object[c]
      BY <1>2, <2>3 DEF IInv, TypeOK
    <3>2. M(c)' + P(agenda', "DecStrong", c) = M(c) + P(agenda, "DecStrong", c)
      BY <1>6, <1>9, Numbers DEF One, Do
    <3>3. strong_count[c] = H(shared, c) + M(c)' + P(agenda', "DecStrong", c)
      <4>1. /\ H(shared, c) \in Nat /\ M(c) \in Nat /\ P(agenda, "DecStrong", c) \in Nat
            /\ M(c)' = M(c) - One(c = x) /\ P(agenda', "DecStrong", c) = P(agenda, "DecStrong", c) + One(c = x)
        BY <1>6, <1>9, Numbers DEF Do
      <4> QED  BY <2>1, <4>1 DEF BlockOK, One
    <3> QED  BY <1>2, <1>9, <2>1, <2>3, <3>1, <3>3, Numbers DEF BlockOK, Do, One
  <2> QED  BY <2>2, <2>3
<1>12. JobsJustified'
  BY <1>2, <1>7, <1>8, OrderlyJobs DEF Keeps
<1> QED  BY <1>10, <1>11, <1>12 DEF IInv

LEMMA DestroyIInv == ASSUME IInv, NEW t \in Thread, Destroy(t) PROVE IInv'
<1> DEFINE b == Head(agenda[t]).block
<1>1. /\ ~Idle(t) /\ b \in Block
      /\ \A d \in Do, c \in Block : Is(Head(agenda[t]), d, c) <=> d = "Destroy" /\ c = b
      /\ P(agenda, "Destroy", b) > 0
  BY HeadJob DEF Destroy, Do
<1>2. /\ block' = [block EXCEPT ![b] = "dead"] /\ object' = object /\ member' = member
      /\ strong_count' = strong_count /\ weak_count' = weak_count /\ shared' = shared /\ weak' = weak
      /\ Replace(t, Release("DecStrong", Null))
  BY DEF Destroy, counts, pointers, Release
<1>3. block[b] = "live" /\ weak_count[b] = 0 /\ P(agenda, "Destroy", b) = 1
  <2>1. BlockOK(b)
    BY <1>1 DEF IInv
  <2> QED  BY <1>1, <2>1 DEF BlockOK, One
<1> HIDE DEF b
<1>4. /\ Orderly(t)
      /\ \A d \in Settled, c \in Block :
           P(agenda', d, c) = P(agenda, d, c) - One(Is(Head(agenda[t]), d, c)) + One(d = "DecStrong" /\ c = Null)
  BY <1>1, <1>2, WorkOne DEF Settled
<1>5. \A c \in Block :
        /\ P(agenda', "Destroy", c) = P(agenda, "Destroy", c) - One(c = b)
        /\ P(agenda', "DecStrong", c) = P(agenda, "DecStrong", c)
        /\ P(agenda', "DecWeak", c) = P(agenda, "DecWeak", c)
        /\ P(agenda', "Dispose", c) = P(agenda, "Dispose", c)
  BY <1>1, <1>4, Numbers, SharedPtrAssumption DEF Settled, Do, One
<1>6. TypeOK' /\ Finite'
  BY <1>2, <1>4 DEF IInv, TypeOK, Finite, Orderly
<1>7. ASSUME NEW c \in Block PROVE BlockOK(c)'
  <2>1. BlockOK(c) /\ H(shared, c)' = H(shared, c) /\ H(weak, c)' = H(weak, c) /\ M(c)' = M(c)
    BY <1>2 DEF IInv, M, Inside
  <2>2. CASE c = b
    <3>1. block'[c] = "dead"
      BY <1>2, <2>2 DEF IInv, TypeOK
    <3> QED  BY <1>2, <1>3, <1>5, <2>1, <2>2, <3>1, Numbers DEF BlockOK, Do, One
  <2>3. CASE c # b
    <3>1. block'[c] = block[c]
      BY <1>2, <2>3 DEF IInv, TypeOK
    <3> QED  BY <1>2, <1>5, <2>1, <2>3, <3>1, Numbers DEF BlockOK, Do, One
  <2> QED  BY <2>2, <2>3
<1>8. JobsJustified'
  BY <1>2, <1>4, OrderlyJobs DEF MembersKept, Keeps
<1> QED  BY <1>6, <1>7, <1>8 DEF IInv

LEMMA IncStrongIInv == ASSUME IInv, NEW t \in Thread, IncStrong(t) PROVE IInv'
<1> DEFINE b == Head(agenda[t]).block
<1>1. b \in Block /\ Reaches(t, b)
  BY HeadJob DEF IncStrong, Justified, Next_
<1>2. /\ Quiet(t) /\ strong_count' = [strong_count EXCEPT ![b] = strong_count[b] + 1]
      /\ shared' = Gains(shared, t, b) /\ UNCHANGED <<weak_count, memory, weak>>
  BY QuietDone DEF IncStrong
<1>3. StrongAlive(b)
  BY <1>1, ReachesAlive
<1> HIDE DEF b
<1> QED  BY <1>1, <1>2, <1>3, SharedGained

LEMMA IncWeakIInv == ASSUME IInv, NEW t \in Thread, IncWeak(t) PROVE IInv'
<1> DEFINE b == Head(agenda[t]).block
<1>1. b \in Block /\ (shared[t][b] > 0 \/ weak[t][b] > 0)
  BY HeadJob DEF IncWeak, Justified, Next_
<1>2. /\ Quiet(t) /\ CountWeak(b) /\ weak' = Gains(weak, t, b)
      /\ UNCHANGED <<strong_count, memory, shared>>
  BY QuietDone DEF IncWeak
<1>3. WeakAlive(b)
  BY <1>1, Alive DEF StrongAlive, WeakAlive
<1> HIDE DEF b
<1> QED  BY <1>1, <1>2, <1>3, WeakGained

LEMMA ReadMemberIInv == ASSUME IInv, NEW t \in Thread, ReadMember(t) PROVE IInv'
<1>1. PICK b \in Block : b = Head(agenda[t]).block /\ shared[t][b] > 0
  BY HeadJob DEF ReadMember, Justified, Next_
<1>2. PICK x \in Block \cup {Null} : x = member[b]
  BY DEF IInv, TypeOK
<1>3. /\ Next_(t, "ReadMember") /\ Replace(t, Release("IncStrong", x))
      /\ UNCHANGED <<counts, memory, pointers>> /\ shared' = shared /\ member' = member
  BY <1>1, <1>2 DEF ReadMember, pointers, memory
<1>4. ASSUME x \in Block PROVE Justified(t, Job("IncStrong", x))'
  <2>1. Reaches(t, x)'
    BY <1>1, <1>2, <1>3 DEF Reaches
  <2> QED  BY <2>1 DEF Justified, Job
<1>5. Quiet(t)
  BY <1>3, <1>4, QuietRead
<1> QED  BY <1>3, <1>5, QuietIInv

LEMMA CasIInv == ASSUME IInv, NEW t \in Thread, Cas(t) PROVE IInv'
<1> DEFINE job == Head(agenda[t])
           b == job.block
<1>1. b \in Block /\ weak[t][b] > 0 /\ Next_(t, "Cas") /\ UNCHANGED <<weak_count, memory, weak>>
  BY HeadJob DEF Cas, Justified, Next_
<1>2. job \in Jobs /\ job.do = "Cas" /\ job \in [do : {"Cas"}, block : Block, count : Nat]
  BY <1>1, HeadJob DEF Next_, Jobs, Do
<1>3. CASE GivesUp(job.count) /\ Replace(t, <<>>) /\ UNCHANGED <<strong_count, shared, order>>
  <2>1. Quiet(t)
    BY <1>1, <1>3, QuietDone
  <2>2. UNCHANGED <<counts, memory, pointers>>
    BY <1>1, <1>3 DEF counts, pointers
  <2> QED  BY <2>1, <2>2, QuietIInv
<1>4. CASE /\ ~ GivesUp(job.count) /\ CasSucceeds(b, job.count)
           /\ strong_count' = [strong_count EXCEPT ![b] = job.count + 1]
           /\ shared' = Gains(shared, t, b) /\ Replace(t, <<>>)
  <2>1. Quiet(t)
    BY <1>1, <1>4, QuietDone
  <2>2. strong_count[b] = job.count /\ strong_count[b] # 0
    BY <1>4 DEF GivesUp, CasSucceeds
  <2>3. StrongAlive(b)
    BY <1>1, <2>2, Alive, Numbers
  <2>4. strong_count' = [strong_count EXCEPT ![b] = strong_count[b] + 1]
    BY <1>4, <2>2
  <2> HIDE DEF b
  <2> QED  BY <1>1, <1>4, <2>1, <2>3, <2>4, SharedGained
<1>5. CASE /\ Replace(t, <<[job EXCEPT !.count = strong_count[b]]>>)
           /\ UNCHANGED <<strong_count, shared>>
  <2>1. strong_count[b] \in Nat
    BY <1>1 DEF IInv, TypeOK
  <2>2. PICK again : again = [job EXCEPT !.count = strong_count[b]]
    OBVIOUS
  <2>3. again \in [do : {"Cas"}, block : Block, count : Nat] /\ again.block = b
    BY <1>2, <2>1, <2>2
  <2>4. again \in Jobs /\ again.do = "Cas" /\ Replace(t, <<again>>)
    BY <1>5, <2>2, <2>3 DEF Jobs
  <2>5. Justified(t, again)'
    <3>1. weak'[t][again.block] > 0
      BY <1>1, <2>3
    <3> QED  BY <2>4, <3>1 DEF Justified
  <2>6. Quiet(t)
    BY <1>1, <2>4, <2>5, QuietRetry
  <2>7. UNCHANGED <<counts, memory, pointers>>
    BY <1>1, <1>5 DEF counts, pointers
  <2> QED  BY <2>6, <2>7, QuietIInv
<1>6. \/ GivesUp(job.count) /\ Replace(t, <<>>) /\ UNCHANGED <<strong_count, shared, order>>
      \/ /\ ~ GivesUp(job.count) /\ CasSucceeds(b, job.count)
         /\ strong_count' = [strong_count EXCEPT ![b] = job.count + 1]
         /\ shared' = Gains(shared, t, b) /\ Replace(t, <<>>)
      \/ /\ Replace(t, <<[job EXCEPT !.count = strong_count[b]]>>)
         /\ UNCHANGED <<strong_count, shared>>
  BY DEF Cas
<1> QED  BY <1>3, <1>4, <1>5, <1>6

-----------------------------------------------------------------------------
(* Calls *)
LEMMA ReleaseAlone ==
  ASSUME NEW do \in Do, NEW then, NEW b \in Block \cup {Null}
  PROVE  Release(do, b) \o Release(then, Null) = Release(do, b)
<1>1. Release(do, b) \in Seq(Jobs)
  <2>1. b \in Block => Job(do, b) \in Jobs
    BY DEF Job, Jobs
  <2> QED  BY <2>1 DEF Release
<1>2. Release(then, Null) = <<>>
  BY DEF Release
<1> QED  BY <1>1, <1>2, ConcatEmptySeq

LEMMA SharedAssignIInv ==
  ASSUME IInv, ~Aliased, NEW t \in Thread,
         \/ \E this, other \in Block \cup {Null} : CopyAssign(t, this, other)
         \/ \E b \in Block : AssignFromMember(t, b) \/ Drop(t, b)
         \/ \E b \in Block, inside \in Block \cup {Null} : CreateThrows(t, b, inside)
  PROVE  IInv'
<1>1. Null \notin Block
  BY SharedPtrAssumption
<1>2. ASSUME NEW this \in Block \cup {Null}, NEW other \in Block \cup {Null}, CopyAssign(t, this, other)
      PROVE  IInv'
  <2>1. /\ Idle(t) /\ Has(shared, t, this) /\ shared' = Loses(shared, t, this) /\ weak' = weak
        /\ TwoJobs(t, "DecStrong", this, "IncStrong", other) /\ UNCHANGED <<counts, memory>>
    BY <1>2 DEF CopyAssign, TwoJobs
  <2>2. other \in Block => Justified(t, Job("IncStrong", other))'
    BY <1>1, <1>2 DEF CopyAssign, Has, Justified, Job, Reaches
  <2> QED  BY <2>1, <2>2, SameMemory, SharedReleased
<1>3. ASSUME NEW this \in Block, AssignFromMember(t, this) PROVE IInv'
  <2>1. /\ Idle(t) /\ shared' = Loses(shared, t, this) /\ weak' = weak /\ UNCHANGED <<counts, memory>>
        /\ shared[t][this] > 1
    BY <1>3 DEF AssignFromMember
  <2>2. TwoJobs(t, "DecStrong", this, "ReadMember", this)
    <3>1. Job("DecStrong", this) \in Jobs /\ Job("ReadMember", this) \in Jobs
      BY DEF Job, Jobs, Do
    <3>2. <<Job("DecStrong", this), Job("ReadMember", this)>>
          = Release("DecStrong", this) \o Release("ReadMember", this)
      BY <1>1, <3>1, Pair DEF Release
    <3> QED  BY <1>3, <3>2 DEF AssignFromMember, TwoJobs
  <2>3. Has(shared, t, this)
    BY <2>1 DEF Has, IInv, TypeOK, Pointers
  <2>4. Justified(t, Job("ReadMember", this))'
    <3>1. shared'[t][this] > 0
      BY <1>1, <2>1 DEF Loses, IInv, TypeOK, Pointers
    <3> QED  BY <3>1 DEF Justified, Job
  <2> QED  BY <2>1, <2>2, <2>3, <2>4, SameMemory, SharedReleased
<1>4. ASSUME NEW b \in Block, Drop(t, b) PROVE IInv'
  <2>1. /\ Idle(t) /\ shared' = Loses(shared, t, b) /\ weak' = weak /\ UNCHANGED <<counts, memory>>
        /\ Has(shared, t, b)
    BY <1>4 DEF Drop, Has
  <2>2. TwoJobs(t, "DecStrong", b, "IncStrong", Null)
    <3>1. Release("DecStrong", b) = <<Job("DecStrong", b)>>
      BY <1>1 DEF Release
    <3> QED  BY <1>4, <3>1, ReleaseAlone DEF Drop, TwoJobs, Do
  <2> QED  BY <1>1, <2>1, <2>2, SameMemory, SharedReleased
<1>5. ASSUME NEW b \in Block, NEW inside \in Block \cup {Null}, CreateThrows(t, b, inside)
      PROVE  IInv'
  <2>1. /\ Idle(t) /\ shared' = Loses(shared, t, inside) /\ weak' = weak /\ Has(shared, t, inside)
    BY <1>5 DEF CreateThrows
  <2>2. TwoJobs(t, "DecStrong", inside, "IncStrong", Null)
    BY <1>5, ReleaseAlone DEF CreateThrows, TwoJobs, Do
  <2>3. MemoryStays
    BY <1>5 DEF CreateThrows, MemoryStays, IInv, TypeOK
  <2> QED  BY <1>1, <2>1, <2>2, <2>3, SharedReleased
<1> QED  BY <1>2, <1>3, <1>4, <1>5

LEMMA WeakAssignIInv ==
  ASSUME IInv, NEW t \in Thread,
         \/ \E this, other \in Block \cup {Null} : WeakAssign(t, this, other)
         \/ \E b \in Block : WeakDrop(t, b)
  PROVE  IInv'
<1>1. Null \notin Block
  BY SharedPtrAssumption
<1>2. ASSUME NEW this \in Block \cup {Null}, NEW other \in Block \cup {Null}, WeakAssign(t, this, other)
      PROVE  IInv'
  <2>1. /\ Idle(t) /\ Has(weak, t, this) /\ weak' = Loses(weak, t, this) /\ shared' = shared
        /\ TwoJobs(t, "DecWeak", this, "IncWeak", other) /\ UNCHANGED <<counts, memory>>
    BY <1>2 DEF WeakAssign, TwoJobs
  <2>2. other \in Block => Justified(t, Job("IncWeak", other))'
    BY <1>1, <1>2, <2>1 DEF WeakAssign, Has, Justified, Job
  <2> QED  BY <2>1, <2>2, SameMemory, WeakReleased
<1>3. ASSUME NEW b \in Block, WeakDrop(t, b) PROVE IInv'
  <2>1. /\ Idle(t) /\ weak' = Loses(weak, t, b) /\ shared' = shared /\ UNCHANGED <<counts, memory>>
        /\ Has(weak, t, b)
    BY <1>3 DEF WeakDrop, Has
  <2>2. TwoJobs(t, "DecWeak", b, "IncWeak", Null)
    <3>1. Release("DecWeak", b) = <<Job("DecWeak", b)>>
      BY <1>1 DEF Release
    <3> QED  BY <1>3, <3>1, ReleaseAlone DEF WeakDrop, TwoJobs, Do
  <2> QED  BY <1>1, <2>1, <2>2, SameMemory, WeakReleased
<1> QED  BY <1>2, <1>3

LEMMA OtherCallIInv ==
  ASSUME IInv, NEW t \in Thread, NEW b \in Block,
         \/ CopyCtor(t, b) \/ Use(t, b) \/ Observe(t, b) \/ WeakCtor(t, b) \/ Lock(t, b)
  PROVE  IInv'
<1>1. CASE CopyCtor(t, b)
  <2>1. StrongAlive(b)
    BY <1>1, ReachesAlive DEF CopyCtor, Reaches
  <2>2. Quiet(t) /\ strong_count' = [strong_count EXCEPT ![b] = strong_count[b] + 1]
    BY <1>1, QuietSame DEF CopyCtor
  <2> QED  BY <1>1, <2>1, <2>2, SharedGained DEF CopyCtor
<1>2. CASE Use(t, b) \/ Observe(t, b)
  <2>1. agenda' = agenda /\ UNCHANGED <<counts, memory, pointers>>
    BY <1>2 DEF Use, Observe
  <2> QED  BY <2>1, QuietSame, QuietIInv
<1>3. CASE WeakCtor(t, b)
  <2>1. WeakAlive(b)
    BY <1>3, Alive DEF WeakCtor, StrongAlive, WeakAlive
  <2>2. Quiet(t)
    BY <1>3, QuietSame DEF WeakCtor
  <2> QED  BY <1>3, <2>1, <2>2, WeakGained DEF WeakCtor
<1>4. CASE Lock(t, b)
  <2>0. PICK job : job = [do |-> "Cas", block |-> b, count |-> strong_count[b]]
    OBVIOUS
  <2>1. job \in Jobs /\ job.do = "Cas" /\ job.block = b
    BY <2>0, Numbers DEF Jobs
  <2>2. /\ agenda' = [agenda EXCEPT ![t] = <<job>>] /\ Idle(t) /\ weak[t][b] > 0 /\ weak' = weak
        /\ UNCHANGED <<counts, memory, pointers>>
    BY <1>4, <2>0 DEF Lock, pointers
  <2>3. Justified(t, job)'
    BY <2>1, <2>2 DEF Justified
  <2> QED  BY <2>1, <2>2, <2>3, QuietLock, QuietIInv
<1> QED  BY <1>1, <1>2, <1>3, <1>4

-----------------------------------------------------------------------------
LEMMA NothingHeld ==
  ASSUME NEW b
  PROVE  /\ Held([t \in Thread |-> [c \in Block |-> 0]], b) = {} \/ b \notin Block
         /\ \A do : Pending([t \in Thread |-> <<>>], do, b) = {}
<1>1. ASSUME b \in Block, NEW x \in Held([t \in Thread |-> [c \in Block |-> 0]], b) PROVE FALSE
  BY <1>1, InTagged DEF Held
<1>2. ASSUME NEW do, NEW x \in Pending([t \in Thread |-> <<>>], do, b) PROVE FALSE
  BY <1>2, InTagged DEF Pending, Heights
<1> QED  BY <1>1, <1>2

LEMMA InitIInv == ASSUME Init PROVE IInv
<1>1. TypeOK
  BY DEF Init, TypeOK, Pointers, Agendas
<1>2. /\ \A b \in Block : Held(shared, b) = {} /\ Held(weak, b) = {} /\ Inside(b) = {}
      /\ \A do, b : Pending(agenda, do, b) = {}
  BY NothingHeld DEF Init, Inside
<1>3. Finite
  BY <1>2, FS_EmptySet DEF Finite, FinitelyMany
<1>4. \A b \in Block : BlockOK(b)
  <2>1. \A b \in Block : H(shared, b) = 0 /\ H(weak, b) = 0 /\ M(b) = 0 /\ \A do : P(agenda, do, b) = 0
    BY <1>2, FS_EmptySet DEF H, M, P
  <2> QED  BY <2>1 DEF Init, BlockOK, One
<1>5. JobsJustified
  BY DEF Init, JobsJustified, Range
<1> QED  BY <1>1, <1>3, <1>4, <1>5 DEF IInv

LEMMA NextIInv == ASSUME IInv, ~Aliased, [Next]_vars PROVE IInv'
<1>1. ASSUME NEW t \in Thread, Call(t) PROVE IInv'
  BY <1>1, CreateIInv, SharedAssignIInv, WeakAssignIInv, OtherCallIInv, SharedMoved, WeakMoved DEF Call
<1>2. ASSUME NEW t \in Thread, Work(t) PROVE IInv'
  BY <1>2, DecStrongIInv, DisposeIInv, DecWeakIInv, DestroyIInv,
     IncStrongIInv, ReadMemberIInv, IncWeakIInv, CasIInv DEF Work
<1>3. CASE UNCHANGED vars
  <2>1. UNCHANGED <<strong_count, weak_count, object, block, member, shared, weak, agenda>>
    BY <1>3 DEF vars, counts, memory, pointers
  <2> QED  BY <2>1 DEF IInv, TypeOK, Finite, BlockOK, M, Inside, JobsJustified, Justified, Reaches
<1> QED  BY <1>1, <1>2, <1>3 DEF Next

(* The counts are exact, and what they reach zero for is done once.        *)
THEOREM Invariance == ASSUME ~Aliased PROVE Spec => []IInv
<1>1. Init => IInv
  BY InitIInv
<1>2. IInv /\ [Next]_vars => IInv'
  BY NextIInv
<1> QED  BY <1>1, <1>2, PTL DEF Spec

-----------------------------------------------------------------------------
(* Both counts are exact at every step, whatever the interleaving.         *)
THEOREM Exact == ASSUME ~Aliased PROVE Spec => []CountsExact
<1>1. IInv => CountsExact
  BY DEF IInv, BlockOK, CountsExact, H, M, P, One
<1> QED  BY <1>1, Invariance, PTL

(* An object that a shared_ptr points to is alive, and so is a control     *)
(* block that any pointer points to.                                       *)
THEOREM HeldAlive == ASSUME ~Aliased PROVE Spec => []HeldObjectsAlive
<1>1. IInv => HeldObjectsAlive
  BY Alive DEF HeldObjectsAlive, StrongAlive, WeakAlive
<1> QED  BY <1>1, Invariance, PTL

LEMMA JobsAlive ==
  ASSUME IInv, NEW t \in Thread, NEW do, Next_(t, do), NEW b, b = Head(agenda[t]).block
  PROVE  /\ do \in {"DecStrong", "DecWeak", "Destroy", "IncStrong", "IncWeak", "Cas"} => block[b] = "live"
         /\ do \in {"Dispose", "ReadMember"} => object[b] = "live"
<1>1. /\ b \in Block /\ Justified(t, Head(agenda[t])) /\ Head(agenda[t]).do = do
      /\ do \in Do => P(agenda, do, b) > 0
  BY HeadJob DEF Next_
<1>2. BlockOK(b)
  BY <1>1 DEF IInv
<1>3. CASE do \in {"DecStrong", "DecWeak"}
  BY <1>1, <1>3, Alive DEF Do, StrongAlive, WeakAlive
<1>4. CASE do = "Destroy"
  BY <1>1, <1>2, <1>4 DEF Do, BlockOK, One
<1>5. CASE do = "Dispose"
  BY <1>1, <1>2, <1>5 DEF Do, BlockOK, One
<1>6. CASE do = "IncStrong"
  BY <1>1, <1>6, ReachesAlive DEF Justified, StrongAlive
<1>7. CASE do \in {"ReadMember", "IncWeak", "Cas"}
  BY <1>1, <1>7, Alive DEF Justified, StrongAlive, WeakAlive
<1> QED  BY <1>3, <1>4, <1>5, <1>6, <1>7

(* No step of a call reaches into an object or a block that is gone, and   *)
(* none destroys an object or deletes a block a second time.               *)
THEOREM NoneUsedAfterFree == ASSUME ~Aliased PROVE Spec => []NoUseAfterFree
<1>1. IInv => NoUseAfterFree
  BY JobsAlive DEF NoUseAfterFree, Doing
<1> QED  BY <1>1, Invariance, PTL

LEMMA NothingLeft ==
  ASSUME IInv, NEW b \in Block, \A t \in Thread : Idle(t) /\ shared[t][b] = 0,
         \A c \in Block : object[c] = "live" => member[c] # b
  PROVE  object[b] # "live" /\ ((\A t \in Thread : weak[t][b] = 0) => block[b] # "live")
<1>1. BlockOK(b)
  BY DEF IInv
<1>2. ASSUME NEW p \in Pointers, \A t \in Thread : p[t][b] = 0 PROVE H(p, b) = 0
  <2>1. Held(p, b) = {}
    <3>1. ASSUME NEW x \in Held(p, b) PROVE FALSE
      BY <1>2, <3>1, InTagged DEF Held
    <3> QED  BY <3>1
  <2> QED  BY <2>1, FS_EmptySet DEF H
<1>3. \A do \in Do : P(agenda, do, b) = 0
  <2> SUFFICES ASSUME NEW do \in Do PROVE Pending(agenda, do, b) = {}
    BY FS_EmptySet DEF P
  <2>1. ASSUME NEW x \in Pending(agenda, do, b) PROVE FALSE
    BY <2>1, InTagged DEF Pending, Heights, Idle
  <2> QED  BY <2>1
<1>4. Inside(b) = {} /\ M(b) = 0
  BY FS_EmptySet DEF Inside, M
<1>5. strong_count[b] = 0 /\ object[b] # "live"
  BY <1>1, <1>2, <1>3, <1>4 DEF BlockOK, Do, One, IInv, TypeOK
<1>6. (\A t \in Thread : weak[t][b] = 0) => weak_count[b] = 0
  BY <1>1, <1>2, <1>3, <1>5 DEF BlockOK, Do, One, IInv, TypeOK
<1> QED  BY <1>1, <1>3, <1>5, <1>6 DEF BlockOK, Do, One

(* Once no pointer is left and no call is under way, everything is gone.   *)
THEOREM NothingLeaks == ASSUME ~Aliased PROVE Spec => []NoLeak
<1>1. IInv => NoLeak
  BY NothingLeft DEF NoLeak
<1> QED  BY <1>1, Invariance, PTL

LEMMA StaysZero ==
  ASSUME IInv, [Next]_vars, NEW b \in Block, object[b] # "none", strong_count[b] = 0
  PROVE  strong_count'[b] = 0
<1>1. ASSUME NEW t \in Thread, NEW c \in Block, NEW inside \in Block \cup {Null},
             Create(t, c, inside) \/ CreateThrows(t, c, inside)
      PROVE  strong_count'[b] = 0
  BY <1>1 DEF Create, CreateThrows, counts, IInv, TypeOK
<1>2. ASSUME NEW t \in Thread, NEW c \in Block, CopyCtor(t, c) PROVE strong_count'[b] = 0
  <2>1. c # b
    BY <1>2, ReachesAlive DEF CopyCtor, Reaches, StrongAlive
  <2> QED  BY <1>2, <2>1 DEF CopyCtor, IInv, TypeOK
<1>3. ASSUME NEW t \in Thread, DecStrong(t) PROVE strong_count'[b] = 0
  <2>1. Head(agenda[t]).block # b
    BY <1>3, HeadJob, Alive DEF DecStrong, Do, StrongAlive
  <2> QED  BY <1>3, <2>1 DEF DecStrong, IInv, TypeOK
<1>4. ASSUME NEW t \in Thread, IncStrong(t) PROVE strong_count'[b] = 0
  <2>1. Head(agenda[t]).block # b
    BY <1>4, HeadJob, ReachesAlive DEF IncStrong, Justified, Next_, StrongAlive
  <2> QED  BY <1>4, <2>1 DEF IncStrong, IInv, TypeOK
<1>5. ASSUME NEW t \in Thread, Cas(t) PROVE strong_count'[b] = 0
  <2>1. \/ strong_count' = strong_count
        \/ /\ strong_count' = [strong_count EXCEPT ![Head(agenda[t]).block] = Head(agenda[t]).count + 1]
           /\ strong_count[Head(agenda[t]).block] = Head(agenda[t]).count /\ Head(agenda[t]).count # 0
    BY <1>5 DEF Cas, GivesUp, CasSucceeds
  <2> QED  BY <2>1 DEF IInv, TypeOK
<1>6. ASSUME NEW t \in Thread, Dispose(t) \/ DecWeak(t) \/ Destroy(t) \/ ReadMember(t) \/ IncWeak(t)
      PROVE  strong_count'[b] = 0
  BY <1>6 DEF Dispose, DecWeak, Destroy, ReadMember, IncWeak, counts
<1>7. ASSUME NEW t \in Thread, NEW c \in Block,
             Drop(t, c) \/ AssignFromMember(t, c) \/ Use(t, c) \/ Observe(t, c) \/ WeakCtor(t, c)
             \/ WeakDrop(t, c) \/ Lock(t, c)
      PROVE  strong_count'[b] = 0
  BY <1>7 DEF Drop, AssignFromMember, Use, Observe, WeakCtor, WeakDrop, Lock, counts
<1>8. ASSUME NEW t \in Thread, NEW u \in Thread, NEW c \in Block, MoveCtor(t, u, c) \/ WeakMoveCtor(t, u, c)
      PROVE  strong_count'[b] = 0
  BY <1>8 DEF MoveCtor, WeakMoveCtor, counts
<1>9. ASSUME NEW t \in Thread, NEW this \in Block \cup {Null}, NEW other \in Block \cup {Null},
             CopyAssign(t, this, other) \/ WeakAssign(t, this, other)
      PROVE  strong_count'[b] = 0
  BY <1>9 DEF CopyAssign, WeakAssign, counts
<1>10. CASE UNCHANGED vars
  BY <1>10 DEF vars, counts
<1> QED
  BY <1>1, <1>2, <1>3, <1>4, <1>5, <1>6, <1>7, <1>8, <1>9, <1>10 DEF Next, Call, Work

(* weak_ptr::lock never brings an object back.                             *)
THEOREM NoneResurrected == ASSUME ~Aliased PROVE Spec => NoResurrection
<1>1. IInv /\ [Next]_vars => [\A b \in Block : object[b] # "none" /\ strong_count[b] = 0 => strong_count'[b] = 0]_vars
  BY StaysZero
<1> QED  BY <1>1, Invariance, PTL DEF Spec, NoResurrection

-----------------------------------------------------------------------------
(* Memory orders.  Whoever holds a pointer knows of the accesses that he   *)
(* could hear of, or has handed them to the count.  So an access has a     *)
(* guard at an object: a pointer to it, or a release or the disposal under *)
(* way, whose thread knows of the access, or the count of the object, if   *)
(* it carries the access.  The guard of an access to an object need not be *)
(* there, as the pointer may have been moved into another object: an       *)
(* access is guarded if one of the objects has a guard in every set that   *)
(* has, with an object, all those that point to it.  An access to a block  *)
(* may also have its guard in a weak_ptr or in the other count.            *)

(* the accesses that happen before v's next step *)
Knows(v) == known[v] \cup Of(v)

HasJob(v, do, b) == \E job \in Range(agenda[v]) : Is(job, do, b)

OrderTypeOK ==
  /\ accesses \subseteq Location \X Thread
  /\ known \in [Thread -> SUBSET accesses] /\ carried \in [Counter -> SUBSET accesses]

(* an object is disposed of at once, and its block's count decremented later *)
DisposesNext ==
  \A t \in Thread :
    \/ \A job \in Range(agenda[t]) : job.do # "Dispose"
    \/ /\ agenda[t] # <<>> /\ \A job \in Range(Tail(agenda[t])) : job.do # "Dispose"
       /\ \E job \in Range(Tail(agenda[t])) : Is(job, "DecWeak", Head(agenda[t]).block)

(* who took a count to zero knows what it carried *)
Acquired ==
  \A t \in Thread, b \in Block :
    /\ HasJob(t, "Dispose", b) => carried[<<"strong", b>>] \subseteq Knows(t)
    /\ HasJob(t, "Destroy", b) => carried[<<"weak", b>>] \subseteq Knows(t)

Holds(v, c) == shared[v][c] > 0 \/ HasJob(v, "DecStrong", c) \/ HasJob(v, "Dispose", c)
Guards(a, c) ==
  \/ \E v \in Thread : Holds(v, c) /\ a \in Knows(v)
  \/ object[c] = "live" /\ a \in carried[<<"strong", c>>]
Closed(X) == \A c \in Block : object[c] = "live" /\ member[c] \in X => c \in X
Guarded(a, b) == \A X \in SUBSET Block : b \in X /\ Closed(X) => \E c \in X : Guards(a, c)

HoldsWeakly(v, c) == weak[v][c] > 0 \/ HasJob(v, "DecWeak", c) \/ HasJob(v, "Destroy", c)
GuardsBlock(a, c) ==
  \/ \E v \in Thread : HoldsWeakly(v, c) /\ a \in Knows(v)
  \/ a \in carried[<<"weak", c>>]

AccessesGuarded ==
  \A a \in accesses, b \in Block :
    /\ a[1] = <<"object", b>> => Guarded(a, b)
    /\ a[1] = <<"block", b>> => Guarded(a, b) \/ GuardsBlock(a, b)

OrderInv == OrderTypeOK /\ DisposesNext /\ Acquired /\ AccessesGuarded

-----------------------------------------------------------------------------
(* What a step leaves on the agendas: J is put on top of what was there.   *)
LEMMA RangeConcat ==
  ASSUME NEW S, NEW p \in Seq(S), NEW q \in Seq(S)
  PROVE  Range(p \o q) = Range(p) \cup Range(q)
<1> DEFINE r == p \o q
<1>1. /\ Len(p) \in Nat /\ Len(q) \in Nat /\ DOMAIN p = 1 .. Len(p) /\ DOMAIN q = 1 .. Len(q)
      /\ DOMAIN r = 1 .. Len(p) + Len(q)
      /\ \A i \in 1 .. Len(p) + Len(q) : r[i] = IF i <= Len(p) THEN p[i] ELSE q[i - Len(p)]
  OBVIOUS
<1> HIDE DEF r
<1>2. ASSUME NEW x \in Range(r) PROVE x \in Range(p) \cup Range(q)
  <2>1. PICK i \in 1 .. Len(p) + Len(q) : x = r[i]
    BY <1>1 DEF Range
  <2>2. CASE i <= Len(p)
    <3>1. i \in DOMAIN p /\ x = p[i]
      BY <1>1, <2>1, <2>2
    <3> QED  BY <3>1 DEF Range
  <2>3. CASE i > Len(p)
    <3>1. i - Len(p) \in DOMAIN q /\ x = q[i - Len(p)]
      BY <1>1, <2>1, <2>3
    <3> QED  BY <3>1 DEF Range
  <2> QED  BY <1>1, <2>2, <2>3
<1>3. ASSUME NEW x \in Range(p) PROVE x \in Range(r)
  <2>1. PICK i \in 1 .. Len(p) : x = p[i]
    BY <1>1 DEF Range
  <2>2. i \in DOMAIN r /\ x = r[i]
    BY <1>1, <2>1
  <2> QED  BY <2>2 DEF Range
<1>4. ASSUME NEW x \in Range(q) PROVE x \in Range(r)
  <2>1. PICK i \in 1 .. Len(q) : x = q[i]
    BY <1>1 DEF Range
  <2>2. i + Len(p) \in 1 .. Len(p) + Len(q) /\ ~(i + Len(p) <= Len(p)) /\ (i + Len(p)) - Len(p) = i
    BY <1>1, <2>1
  <2>3. i + Len(p) \in DOMAIN r /\ x = r[i + Len(p)]
    BY <1>1, <2>1, <2>2
  <2> QED  BY <2>3 DEF Range
<1> QED  BY <1>2, <1>3, <1>4 DEF r

LEMMA RangeShort ==
  /\ Range(<<>>) = {}
  /\ \A x : Range(<<x>>) = {x}
  /\ \A x, y : Range(<<x, y>>) = {x, y}
<1>1. Range(<<>>) = {}
  BY DEF Range
<1>2. ASSUME NEW x PROVE Range(<<x>>) = {x}
  BY DEF Range
<1>3. ASSUME NEW x, NEW y PROVE Range(<<x, y>>) = {x, y}
  <2>1. DOMAIN <<x, y>> = {1, 2} /\ <<x, y>>[1] = x /\ <<x, y>>[2] = y
    OBVIOUS
  <2> QED  BY <2>1 DEF Range
<1> QED  BY <1>1, <1>2, <1>3

Left(t) == IF Idle(t) THEN {} ELSE Range(Tail(agenda[t]))
Onto(t, J) ==
  /\ \A u \in Thread \ {t} : agenda'[u] = agenda[u]
  /\ Range(agenda'[t]) = J \cup Left(t)

LEMMA Leaves ==
  ASSUME IInv, NEW t \in Thread
  PROVE  Range(agenda[t]) = IF Idle(t) THEN {} ELSE {Head(agenda[t])} \cup Left(t)
<1>1. CASE Idle(t)
  BY <1>1, IdleJobs
<1>2. CASE ~Idle(t)
  <2>1. /\ Head(agenda[t]) \in Jobs /\ Tail(agenda[t]) \in Seq(Jobs)
        /\ agenda[t] = <<Head(agenda[t])>> \o Tail(agenda[t])
    BY <1>2, PopIsPush DEF IInv, TypeOK, Agendas, Idle
  <2>2. Range(agenda[t]) = Range(Tail(agenda[t])) \cup {Head(agenda[t])}
    BY <2>1, RangePush
  <2> QED  BY <1>2, <2>2 DEF Left
<1> QED  BY <1>1, <1>2

LEMMA OntoCall ==
  ASSUME IInv, NEW t \in Thread, Idle(t), NEW jobs, agenda' = [agenda EXCEPT ![t] = jobs]
  PROVE  Onto(t, Range(jobs))
BY DEF Onto, Left, IInv, TypeOK, Agendas

LEMMA OntoSame ==
  ASSUME IInv, NEW t \in Thread, Idle(t), agenda' = agenda
  PROVE  Onto(t, {})
BY IdleJobs DEF Onto, Left

LEMMA OntoWork ==
  ASSUME IInv, NEW t \in Thread, ~Idle(t), NEW jobs \in Seq(Jobs), Replace(t, jobs)
  PROVE  Onto(t, Range(jobs))
<1>1. Tail(agenda[t]) \in Seq(Jobs)
  BY PopIsPush DEF IInv, TypeOK, Agendas, Idle
<1>2. agenda'[t] = jobs \o Tail(agenda[t]) /\ \A u \in Thread \ {t} : agenda'[u] = agenda[u]
  BY DEF Replace, IInv, TypeOK, Agendas
<1>3. Range(agenda'[t]) = Range(jobs) \cup Range(Tail(agenda[t]))
  BY <1>1, <1>2, RangeConcat
<1> QED  BY <1>2, <1>3 DEF Onto, Left

(* Only the job that is done is lost.                                      *)
IsDone(t, do, b) == ~Idle(t) /\ Is(Head(agenda[t]), do, b)

LEMMA JobsStay ==
  ASSUME IInv, NEW t \in Thread, NEW J, Onto(t, J), NEW v \in Thread, NEW do, NEW b,
         HasJob(v, do, b), ~(v = t /\ IsDone(t, do, b))
  PROVE  HasJob(v, do, b)'
<1>1. CASE v # t
  BY <1>1 DEF Onto, HasJob
<1>2. CASE v = t
  <2>1. PICK job \in Range(agenda[t]) : Is(job, do, b)
    BY <1>2 DEF HasJob
  <2>2. job \in Left(t)
    BY <1>2, <2>1, Leaves DEF IsDone
  <2> QED  BY <1>2, <2>1, <2>2 DEF Onto, HasJob
<1> QED  BY <1>1, <1>2

LEMMA JobsFrom ==
  ASSUME IInv, NEW t \in Thread, NEW J, Onto(t, J), NEW v \in Thread, NEW do, NEW b,
         HasJob(v, do, b)'
  PROVE  HasJob(v, do, b) \/ (v = t /\ \E job \in J : Is(job, do, b))
<1>1. CASE v # t
  BY <1>1 DEF Onto, HasJob
<1>2. CASE v = t
  <2>1. PICK job \in J \cup Left(t) : Is(job, do, b)
    BY <1>2 DEF Onto, HasJob
  <2>2. job \in Left(t) => job \in Range(agenda[t])
    BY Leaves DEF Left
  <2> QED  BY <1>2, <2>1, <2>2 DEF HasJob
<1> QED  BY <1>1, <1>2

LEMMA JobsPut ==
  ASSUME NEW t \in Thread, NEW J, Onto(t, J), NEW do, NEW b, \E job \in J : Is(job, do, b)
  PROVE  HasJob(t, do, b)'
BY DEF Onto, HasJob

LEMMA NoDisposeLeft ==
  ASSUME IInv, DisposesNext, NEW t \in Thread
  PROVE  \A job \in Left(t) : job.do # "Dispose"
BY Leaves DEF DisposesNext, Left

LEMMA DisposesStay ==
  ASSUME IInv, DisposesNext, NEW t \in Thread, NEW J, Onto(t, J), \A job \in J : job.do # "Dispose"
  PROVE  DisposesNext'
<1> SUFFICES ASSUME NEW u \in Thread
             PROVE  \/ \A job \in Range(agenda'[u]) : job.do # "Dispose"
                    \/ /\ agenda'[u] # <<>> /\ \A job \in Range(Tail(agenda'[u])) : job.do # "Dispose"
                       /\ \E job \in Range(Tail(agenda'[u])) : Is(job, "DecWeak", Head(agenda'[u]).block)
  BY DEF DisposesNext
<1>1. CASE u = t
  BY <1>1, NoDisposeLeft DEF Onto
<1>2. CASE u # t
  BY <1>2 DEF Onto, DisposesNext
<1> QED  BY <1>1, <1>2

-----------------------------------------------------------------------------
(* What a step does to the orders: of the accesses that are not new nothing *)
(* is forgotten, and only the counters in C carry more.                    *)
OrderStays(new, C) ==
  /\ OrderTypeOK'
  /\ \A a \in accesses' \ new :
       /\ a \in accesses
       /\ \A v \in Thread : a \in Knows(v) => a \in Knows(v)'
       /\ \A c \in Counter : a \in carried[c] => a \in carried'[c]
  /\ \A c \in Counter \ C : carried'[c] \subseteq carried[c] \ new

New(locations, t) == IF TrackOrder THEN locations \X {t} ELSE {}

LEMMA OrderSame ==
  ASSUME OrderTypeOK, UNCHANGED order
  PROVE  OrderStays({}, {})
BY DEF OrderStays, OrderTypeOK, order, Knows, Of

LEMMA OrderAccess ==
  ASSUME OrderTypeOK, NEW t \in Thread, NEW locations \in SUBSET Location, Access(t, locations)
  PROVE  OrderStays(New(locations, t), {}) /\ New(locations, t) \subseteq Knows(t)'
<1> DEFINE new == New(locations, t)
<1>1. new \subseteq Location \X {t}
  BY DEF New
<1>2. /\ accesses' = accesses \cup new
      /\ known' = [u \in Thread |-> known[u] \ new]
      /\ carried' = [c \in Counter |-> carried[c] \ new]
  BY DEF Access, New
<1> HIDE DEF new
<1>3. OrderTypeOK'
  BY <1>1, <1>2 DEF OrderTypeOK
<1>4. OrderStays(new, {})
  BY <1>2, <1>3 DEF OrderStays, OrderTypeOK, Knows, Of
<1>5. new \subseteq Knows(t)'
  BY <1>1, <1>2 DEF Knows, Of
<1> QED  BY <1>4, <1>5 DEF new

LEMMA OrderSynchronize ==
  ASSUME OrderTypeOK, NEW t \in Thread, NEW u \in Thread, Synchronize(t, u)
  PROVE  OrderStays({}, {}) /\ Knows(t) \subseteq Knows(u)'
<1>1. accesses' = accesses /\ carried' = carried
  BY DEF Synchronize
<1>2. known' = [known EXCEPT ![u] = @ \cup {a \in known[t] \cup Of(t) : a[2] # u}]
  BY DEF Synchronize
<1>3. OrderTypeOK' /\ \A v \in Thread : known[v] \subseteq known'[v]
  BY <1>1, <1>2 DEF OrderTypeOK, Of
<1>4. OrderStays({}, {})
  BY <1>1, <1>3 DEF OrderStays, OrderTypeOK, Knows, Of
<1>5. Knows(t) \subseteq Knows(u)'
  BY <1>1, <1>2 DEF Knows, Of, OrderTypeOK
<1> QED  BY <1>4, <1>5

LEMMA OrderGone ==
  ASSUME OrderTypeOK, NEW location, Gone(location)
  PROVE  OrderStays({}, {}) /\ \A a \in accesses' : a[1] # location
<1>1. /\ accesses' = {a \in accesses : a[1] # location}
      /\ known' = [u \in Thread |-> {a \in known[u] : a[1] # location}]
      /\ carried' = [c \in Counter |-> {a \in carried[c] : a[1] # location}]
  BY DEF Gone
<1> QED  BY <1>1 DEF OrderStays, OrderTypeOK, Knows, Of

(* The counter carries what the thread knows, and the thread knows it.     *)
LEMMA OrderAcquireRelease ==
  ASSUME OrderTypeOK, NEW t \in Thread, NEW c \in Counter, AcquireRelease(t, c)
  PROVE  /\ OrderStays(New({<<"block", c[2]>>}, t), {c})
         /\ New({<<"block", c[2]>>}, t) \subseteq Knows(t)'
         /\ Knows(t)' = carried'[c] /\ Knows(t) \subseteq Knows(t)'
<1> DEFINE new == New({<<"block", c[2]>>}, t)
           all == carried[c] \cup known[t] \cup Of(t) \cup new
<1>1. /\ accesses' = accesses \cup new
      /\ known' = [u \in Thread |-> IF u = t THEN {a \in all : a[2] # t} ELSE known[u] \ new]
      /\ carried' = [d \in Counter |-> IF d = c THEN all ELSE carried[d] \ new]
  BY DEF AcquireRelease, New
<1>2. new \subseteq Location \X {t}
  BY DEF New, Location, Counter
<1>3. /\ all \subseteq accesses' /\ new \subseteq all
      /\ carried[c] \subseteq all /\ known[t] \subseteq all /\ Of(t) \subseteq all
  BY <1>1 DEF OrderTypeOK, Of
<1>4. Of(t)' = Of(t) \cup new /\ \A a \in new : a[2] = t
  BY <1>1, <1>2 DEF Of
<1>5. Knows(t)' = {a \in all : a[2] # t} \cup (Of(t) \cup new)
  BY <1>1, <1>4 DEF Knows
<1>6. carried'[c] = all
  BY <1>1
<1>7. \A d \in Counter \ {c} : carried'[d] = carried[d] \ new
  BY <1>1
<1>8. \A u \in Thread \ {t} : known'[u] = known[u] \ new
  BY <1>1
<1>9. Knows(t) = known[t] \cup Of(t)
  BY DEF Knows
<1>10. accesses' \subseteq Location \X Thread
  BY <1>1, <1>2 DEF OrderTypeOK
<1>11. known' \in [Thread -> SUBSET accesses'] /\ carried' \in [Counter -> SUBSET accesses']
  BY <1>1, <1>3 DEF OrderTypeOK
<1> HIDE DEF new, all
<1>12. all \subseteq Knows(t)'
  <2>1. SUFFICES ASSUME NEW a \in all, a[2] = t PROVE a \in Of(t) \cup new
    BY <1>5
  <2> QED  BY <1>1, <1>3, <2>1, <1>4 DEF Of
<1>13. Knows(t)' = all
  BY <1>3, <1>5, <1>12
<1>14. \A u \in Thread : \A a \in accesses' \ new : a \in Knows(u) => a \in Knows(u)'
  <2>1. SUFFICES ASSUME NEW u \in Thread, NEW a \in accesses' \ new, a \in Knows(u), u # t
                 PROVE  a \in Knows(u)'
    BY <1>3, <1>9, <1>13
  <2> QED  BY <1>1, <1>8, <2>1 DEF Knows, Of
<1>15. \A d \in Counter : \A a \in accesses' \ new : a \in carried[d] => a \in carried'[d]
  BY <1>3, <1>6, <1>7
<1>16. OrderStays(new, {c})
  BY <1>1, <1>7, <1>10, <1>11, <1>14, <1>15 DEF OrderStays, OrderTypeOK
<1> QED  BY <1>3, <1>6, <1>9, <1>13, <1>16 DEF new

-----------------------------------------------------------------------------
(* A step that changes no more of this than the orders and the agendas say. *)
LEMMA KnowsStays ==
  ASSUME NEW new, NEW C, OrderStays(new, C), NEW v \in Thread, NEW c \in Counter \ C,
         carried[c] \subseteq Knows(v)
  PROVE  carried'[c] \subseteq Knows(v)'
BY DEF OrderStays, OrderTypeOK

LEMMA AcquiredStays ==
  ASSUME Acquired, NEW new, NEW C, OrderStays(new, C),
         \A v \in Thread, b \in Block :
           /\ HasJob(v, "Dispose", b)' =>
                \/ HasJob(v, "Dispose", b) /\ <<"strong", b>> \notin C
                \/ carried'[<<"strong", b>>] \subseteq Knows(v)'
           /\ HasJob(v, "Destroy", b)' =>
                \/ HasJob(v, "Destroy", b) /\ <<"weak", b>> \notin C
                \/ carried'[<<"weak", b>>] \subseteq Knows(v)'
  PROVE  Acquired'
<1>1. \A b \in Block : <<"strong", b>> \in Counter /\ <<"weak", b>> \in Counter
  BY DEF Counter
<1>2. ASSUME NEW v \in Thread, NEW b \in Block, HasJob(v, "Dispose", b)'
      PROVE  carried'[<<"strong", b>>] \subseteq Knows(v)'
  BY <1>1, <1>2, KnowsStays DEF Acquired
<1>3. ASSUME NEW v \in Thread, NEW b \in Block, HasJob(v, "Destroy", b)'
      PROVE  carried'[<<"weak", b>>] \subseteq Knows(v)'
  BY <1>1, <1>3, KnowsStays DEF Acquired
<1> QED  BY <1>2, <1>3 DEF Acquired

MemoryHolds ==
  \A c \in Block : /\ object'[c] = "live" <=> object[c] = "live"
                   /\ object[c] = "live" => member'[c] = member[c]

(* A new access to b has a guard at b.                                     *)
NewGuarded(new) ==
  \A a \in new, b \in Block :
    /\ a[1] = <<"object", b>> => Guards(a, b)'
    /\ a[1] = <<"block", b>> => Guards(a, b)' \/ GuardsBlock(a, b)'

LEMMA GuardedThere == ASSUME NEW a, NEW b, Guards(a, b) PROVE Guarded(a, b)
BY DEF Guarded

LEMMA GuardedStays ==
  ASSUME MemoryHolds, NEW a, NEW b, Guarded(a, b), \A c \in Block : Guards(a, c) => Guards(a, c)'
  PROVE  Guarded(a, b)'
<1> SUFFICES ASSUME NEW X \in SUBSET Block, b \in X, Closed(X)' PROVE \E c \in X : Guards(a, c)'
  BY DEF Guarded
<1>1. Closed(X)
  BY DEF Closed, MemoryHolds
<1>2. PICK c \in X : Guards(a, c)
  BY <1>1 DEF Guarded
<1> QED  BY <1>2

LEMMA AccessesStay ==
  ASSUME AccessesGuarded, NEW new, NEW C, OrderStays(new, C), NewGuarded(new),
         \A a \in accesses' \ new, b \in Block :
           /\ Guarded(a, b) /\ a[1] = <<"object", b>> => Guarded(a, b)'
           /\ Guarded(a, b) /\ a[1] = <<"block", b>> => Guarded(a, b)' \/ GuardsBlock(a, b)'
           /\ GuardsBlock(a, b) /\ a[1] = <<"block", b>> => GuardsBlock(a, b)'
  PROVE  AccessesGuarded'
<1> SUFFICES ASSUME NEW a \in accesses', NEW b \in Block
             PROVE  /\ a[1] = <<"object", b>> => Guarded(a, b)'
                    /\ a[1] = <<"block", b>> => Guarded(a, b)' \/ GuardsBlock(a, b)'
  BY DEF AccessesGuarded
<1>1. CASE a \in new
  <2>1. Guards(a, b)' => Guarded(a, b)'
    BY DEF Guarded
  <2> QED  BY <1>1, <2>1 DEF NewGuarded
<1>2. CASE a \notin new
  <2>1. a \in accesses
    BY <1>2 DEF OrderStays
  <2> QED  BY <1>2, <2>1 DEF AccessesGuarded
<1> QED  BY <1>1, <1>2

(* Most steps: a pointer is given up only for a job that releases it.      *)
Settles(job) == job.do \in Settled
PointersStay(t, J) ==
  \A v \in Thread, c \in Block :
    /\ shared[v][c] > 0 => shared'[v][c] > 0 \/ (v = t /\ \E job \in J : Is(job, "DecStrong", c))
    /\ weak[v][c] > 0 => weak'[v][c] > 0 \/ (v = t /\ \E job \in J : Is(job, "DecWeak", c))
NewHeld(t, new) ==
  \A a \in new, b \in Block :
    /\ a \in Knows(t)'
    /\ a[1] = <<"object", b>> => shared'[t][b] > 0
    /\ a[1] = <<"block", b>> => shared'[t][b] > 0 \/ weak'[t][b] > 0

LEMMA Plain ==
  ASSUME IInv, OrderInv, NEW t \in Thread, NEW J, Onto(t, J), ~Idle(t) => ~Settles(Head(agenda[t])),
         \A job \in J : job.do \notin {"Dispose", "Destroy"},
         NEW new, OrderStays(new, {}), MemoryHolds, PointersStay(t, J), NewHeld(t, new)
  PROVE  OrderInv'
<1>1. OrderTypeOK'
  BY DEF OrderStays
<1>2. DisposesNext'
  BY DisposesStay DEF OrderInv
<1>3. Acquired'
  <2>1. \A v \in Thread, b \in Block : HasJob(v, "Dispose", b)' => HasJob(v, "Dispose", b)
    BY JobsFrom DEF Is
  <2>2. \A v \in Thread, b \in Block : HasJob(v, "Destroy", b)' => HasJob(v, "Destroy", b)
    BY JobsFrom DEF Is
  <2> QED  BY <2>1, <2>2, AcquiredStays DEF OrderInv
<1>4. ASSUME NEW v \in Thread, NEW c \in Block, NEW do \in {"DecStrong", "DecWeak", "Dispose", "Destroy"},
             HasJob(v, do, c)
      PROVE  HasJob(v, do, c)'
  BY <1>4, JobsStay DEF IsDone, Is, Settles, Settled
<1>5. ASSUME NEW v \in Thread, NEW c \in Block
      PROVE  (Holds(v, c) => Holds(v, c)') /\ (HoldsWeakly(v, c) => HoldsWeakly(v, c)')
  BY <1>4, JobsPut DEF Holds, HoldsWeakly, PointersStay
<1>6. ASSUME NEW a \in accesses' \ new, NEW c \in Block
      PROVE  (Guards(a, c) => Guards(a, c)') /\ (GuardsBlock(a, c) => GuardsBlock(a, c)')
  <2>1. <<"strong", c>> \in Counter /\ <<"weak", c>> \in Counter
    BY DEF Counter
  <2> QED  BY <1>5, <2>1 DEF OrderStays, MemoryHolds, Guards, GuardsBlock
<1>7. NewGuarded(new)
  BY DEF NewGuarded, NewHeld, Guards, GuardsBlock, Holds, HoldsWeakly
<1>8. ASSUME NEW a \in accesses' \ new, NEW b \in Block, Guarded(a, b) PROVE Guarded(a, b)'
  BY <1>6, <1>8, GuardedStays
<1>9. AccessesGuarded'
  BY <1>6, <1>7, <1>8, AccessesStay DEF OrderInv
<1> QED  BY <1>1, <1>2, <1>3, <1>9 DEF OrderInv

-----------------------------------------------------------------------------
(* The steps that are not plain: a pointer that changes hands,             *)
LEMMA Handed ==
  ASSUME IInv, OrderInv, NEW t \in Thread, NEW u \in Thread, Idle(t), agenda' = agenda,
         Synchronize(t, u), MemoryHolds,
         \A v \in Thread, c \in Block :
           /\ shared[v][c] > 0 => shared'[v][c] > 0 \/ (v = t /\ shared'[u][c] > 0)
           /\ weak[v][c] > 0 => weak'[v][c] > 0 \/ (v = t /\ weak'[u][c] > 0)
  PROVE  OrderInv'
<1>1. OrderStays({}, {}) /\ Knows(t) \subseteq Knows(u)'
  BY OrderSynchronize DEF OrderInv
<1>2. OrderTypeOK' /\ DisposesNext'
  BY <1>1 DEF OrderStays, OrderInv, DisposesNext
<1>3. \A v \in Thread : \A do, c : HasJob(v, do, c)' <=> HasJob(v, do, c)
  BY DEF HasJob
<1>4. Acquired'
  BY <1>1, <1>3, AcquiredStays DEF OrderInv
<1>5. ASSUME NEW a \in accesses', NEW v \in Thread, a \in Knows(v)
      PROVE  a \in Knows(v)' /\ (v = t => a \in Knows(u)')
  BY <1>1, <1>5 DEF OrderStays
<1>6. ASSUME NEW a \in accesses', NEW c \in Block, Guards(a, c) PROVE Guards(a, c)'
  <2>1. CASE \E v \in Thread : Holds(v, c) /\ a \in Knows(v)
    BY <1>3, <1>5, <2>1 DEF Holds, Guards
  <2>2. CASE object[c] = "live" /\ a \in carried[<<"strong", c>>]
    BY <1>1, <2>2 DEF OrderStays, Counter, MemoryHolds, Guards
  <2> QED  BY <1>6, <2>1, <2>2 DEF Guards
<1>7. ASSUME NEW a \in accesses', NEW c \in Block, GuardsBlock(a, c) PROVE GuardsBlock(a, c)'
  <2>1. CASE \E v \in Thread : HoldsWeakly(v, c) /\ a \in Knows(v)
    BY <1>3, <1>5, <2>1 DEF HoldsWeakly, GuardsBlock
  <2>2. CASE a \in carried[<<"weak", c>>]
    BY <1>1, <2>2 DEF OrderStays, Counter, GuardsBlock
  <2> QED  BY <1>7, <2>1, <2>2 DEF GuardsBlock
<1>8. ASSUME NEW a \in accesses', NEW b \in Block, Guarded(a, b) PROVE Guarded(a, b)'
  BY <1>6, <1>8, GuardedStays
<1>9. AccessesGuarded'
  <2>1. NewGuarded({})
    BY DEF NewGuarded
  <2> QED  BY <1>1, <1>7, <1>8, <2>1, AccessesStay DEF OrderInv
<1> QED  BY <1>2, <1>4, <1>9 DEF OrderInv

(* a new object,                                                           *)
LEMMA CreateOrder ==
  ASSUME IInv, OrderInv, NEW t \in Thread, NEW b \in Block, NEW inside \in Block \cup {Null},
         Create(t, b, inside)
  PROVE  OrderInv'
<1> DEFINE new == New({<<"object", b>>, <<"block", b>>}, t)
<1>1. /\ Idle(t) /\ object[b] = "none" /\ agenda' = agenda /\ weak' = weak
      /\ object' = [object EXCEPT ![b] = "live"] /\ member' = [member EXCEPT ![b] = inside]
      /\ Has(shared, t, inside) /\ shared' = Gains(Loses(shared, t, inside), t, b)
      /\ Access(t, {<<"object", b>>, <<"block", b>>})
  BY DEF Create
<1>2. /\ object'[b] = "live" /\ member'[b] = inside
      /\ \A c \in Block \ {b} : object'[c] = object[c] /\ member'[c] = member[c]
  BY <1>1 DEF IInv, TypeOK
<1>3. /\ shared'[t][b] > 0
      /\ \A v \in Thread, c \in Block : shared[v][c] > 0 => shared'[v][c] > 0 \/ (v = t /\ c = inside)
  <2>1. FiniteHeld(shared) /\ shared \in Pointers
    BY DEF IInv, Finite, FiniteHeld, TypeOK
  <2> DEFINE p == Loses(shared, t, inside)
  <2>2. /\ p \in Pointers /\ FiniteHeld(p)
        /\ \A u \in Thread, c \in Block : p[u][c] = shared[u][c] - One(u = t /\ c = inside)
    BY <1>1, <2>1, LosesOne DEF Lost
  <2> HIDE DEF p
  <2>3. \A u \in Thread, c \in Block : shared'[u][c] = p[u][c] + One(u = t /\ c = b)
    <3>1. Gained(p, t, b, Gains(p, t, b))
      BY DEF Gained
    <3>2. shared' = Gains(p, t, b)
      BY <1>1 DEF p
    <3> QED  BY <2>2, <3>1, <3>2, GainsOne
  <2>4. \A u \in Thread, c \in Block : p[u][c] \in Nat /\ shared[u][c] \in Nat
    BY <2>1, <2>2 DEF Pointers
  <2> QED  BY <2>2, <2>3, <2>4 DEF One
<1>4. OrderStays(new, {}) /\ new \subseteq Knows(t)'
  <2>1. {<<"object", b>>, <<"block", b>>} \in SUBSET Location
    BY DEF Location
  <2> QED  BY <1>1, <2>1, OrderAccess DEF OrderInv
<1> HIDE DEF new
<1>5. OrderTypeOK' /\ DisposesNext'
  BY <1>1, <1>4 DEF OrderStays, OrderInv, DisposesNext
<1>6. \A v \in Thread : \A do, c : HasJob(v, do, c)' <=> HasJob(v, do, c)
  BY <1>1 DEF HasJob
<1>7. Acquired'
  BY <1>4, <1>6, AcquiredStays DEF OrderInv
<1>8. ASSUME NEW a \in accesses' \ new, NEW c \in Block, Guards(a, c)
      PROVE  Guards(a, c)' \/ (c = inside /\ Guards(a, b)')
  <2>1. ASSUME NEW v \in Thread, Holds(v, c), a \in Knows(v)
        PROVE  Guards(a, c)' \/ (c = inside /\ Guards(a, b)')
    <3>1. a \in Knows(v)'
      BY <1>4, <2>1 DEF OrderStays
    <3>2. Holds(v, c)' \/ (v = t /\ c = inside /\ Holds(t, b)')
      BY <1>3, <1>6, <2>1 DEF Holds
    <3> QED  BY <3>1, <3>2 DEF Guards
  <2>2. CASE object[c] = "live" /\ a \in carried[<<"strong", c>>]
    BY <1>2, <1>4, <2>2 DEF OrderStays, Counter, Guards
  <2> QED  BY <1>8, <2>1, <2>2 DEF Guards
<1>9. ASSUME NEW a \in accesses' \ new, NEW x \in Block, Guarded(a, x) PROVE Guarded(a, x)'
  <2> SUFFICES ASSUME NEW X \in SUBSET Block, x \in X, Closed(X)' PROVE \E c \in X : Guards(a, c)'
    BY DEF Guarded
  <2>1. Closed(X)
    BY <1>1, <1>2 DEF Closed
  <2>2. PICK c \in X : Guards(a, c)
    BY <1>9, <2>1 DEF Guarded
  <2>3. c = inside => b \in X
    BY <1>2, <2>2 DEF Closed
  <2> QED  BY <1>8, <2>2, <2>3
<1>10. ASSUME NEW a \in accesses' \ new, NEW c \in Block, GuardsBlock(a, c) PROVE GuardsBlock(a, c)'
  <2>1. \A v \in Thread : HoldsWeakly(v, c) => HoldsWeakly(v, c)'
    BY <1>1, <1>6 DEF HoldsWeakly
  <2> QED  BY <1>4, <1>10, <2>1 DEF OrderStays, Counter, GuardsBlock
<1>11. NewGuarded(new)
  <2>1. \A a \in new : a[1] \in {<<"object", b>>, <<"block", b>>}
    BY DEF new, New
  <2>2. \A a \in new : Guards(a, b)'
    BY <1>3, <1>4 DEF Guards, Holds
  <2> QED  BY <2>1, <2>2 DEF NewGuarded
<1>12. AccessesGuarded'
  BY <1>4, <1>9, <1>10, <1>11, AccessesStay DEF OrderInv
<1> QED  BY <1>5, <1>7, <1>12 DEF OrderInv

-----------------------------------------------------------------------------
(* and the releases.  Who is to dispose of an object is alone with it.     *)
LEMMA IsJob ==
  \A do, b : /\ Job(do, b).do = do /\ Job(do, b).block = b
             /\ \A e, c : Is(Job(do, b), e, c) <=> e = do /\ c = b
BY DEF Job, Is

LEMMA JobPending ==
  ASSUME IInv, NEW v \in Thread, NEW do, NEW b, HasJob(v, do, b)
  PROVE  \E n : <<v, n>> \in Pending(agenda, do, b)
<1>0. PICK job \in Range(agenda[v]) : Is(job, do, b)
  BY DEF HasJob
<1>1. agenda[v] \in Seq(Jobs)
  BY DEF IInv, TypeOK, Agendas
<1>2. PICK i \in DOMAIN agenda[v] : job = agenda[v][i]
  BY <1>0 DEF Range
<1>3. Len(agenda[v]) + 1 - i \in Heights(agenda[v], do, b)
  BY <1>0, <1>1, <1>2 DEF Heights, Is
<1> QED  BY <1>3, InTagged DEF Pending

LEMMA HasPending ==
  ASSUME IInv, NEW v \in Thread, NEW do \in Do, NEW b \in Block, HasJob(v, do, b)
  PROVE  P(agenda, do, b) > 0 /\ \A u \in Thread : P(agenda, do, b) = 1 /\ HasJob(u, do, b) => u = v
<1> DEFINE S == Pending(agenda, do, b)
<1>1. IsFiniteSet(S)
  BY DEF IInv, Finite, FinitelyMany
<1>2. PICK n : <<v, n>> \in S
  BY JobPending
<1>3. ASSUME NEW u \in Thread, Cardinality(S) = 1, HasJob(u, do, b) PROVE u = v
  <2>1. PICK m : <<u, m>> \in S
    BY <1>3, JobPending
  <2> HIDE DEF S
  <2>2. PICK x : S = {x}
    BY <1>1, <1>3, FS_Singleton
  <2>3. <<u, m>> = <<v, n>>
    BY <1>2, <2>1, <2>2
  <2> QED  BY <2>3
<1>4. Cardinality(S) > 0
  BY <1>1, <1>2, CountPositive
<1> QED  BY <1>3, <1>4 DEF P

LEMMA Disposer ==
  ASSUME IInv, NEW t \in Thread, NEW b \in Block, HasJob(t, "Dispose", b)
  PROVE  /\ object[b] = "live"
         /\ \A v \in Thread : Holds(v, b) => v = t
         /\ \A c \in Block : object[c] = "live" => member[c] # b
<1>1. BlockOK(b) /\ P(agenda, "Dispose", b) > 0
  BY HasPending DEF IInv, Do
<1>2. object[b] = "live" /\ strong_count[b] = 0 /\ P(agenda, "Dispose", b) = 1
  BY <1>1 DEF BlockOK, One
<1>3. P(agenda, "DecStrong", b) = 0
  BY <1>1, <1>2, Numbers DEF BlockOK, Do
<1>4. \A v \in Thread : ~(shared[v][b] > 0) /\ ~HasJob(v, "DecStrong", b)
  BY <1>2, <1>3, Alive, HasPending DEF StrongAlive, Do
<1>5. \A v \in Thread : HasJob(v, "Dispose", b) => v = t
  BY <1>2, HasPending DEF Do
<1>6. \A c \in Block : object[c] = "live" => member[c] # b
  BY <1>2, Alive DEF StrongAlive
<1> QED  BY <1>2, <1>4, <1>5, <1>6 DEF Holds

LEMMA DisposerKnows ==
  ASSUME IInv, OrderInv, NEW t \in Thread, NEW b \in Block, HasJob(t, "Dispose", b), NEW a
  PROVE  (Guards(a, b) => a \in Knows(t)) /\ (Guarded(a, b) => a \in Knows(t))
<1>1. Guards(a, b) => a \in Knows(t)
  BY Disposer DEF OrderInv, Acquired, Guards
<1>2. Closed({b})
  BY Disposer DEF Closed
<1>3. Guarded(a, b) => Guards(a, b)
  BY <1>2 DEF Guarded
<1> QED  BY <1>1, <1>3

(* Who is to delete a block is alone with that, and its object is gone.    *)
LEMMA Destroyer ==
  ASSUME IInv, OrderInv, NEW t \in Thread, NEW b \in Block, HasJob(t, "Destroy", b)
  PROVE  /\ object[b] # "live"
         /\ \A v \in Thread : ~Holds(v, b) /\ (HoldsWeakly(v, b) => v = t)
         /\ \A c \in Block : object[c] = "live" => member[c] # b
<1>1. BlockOK(b) /\ P(agenda, "Destroy", b) > 0
  BY HasPending DEF IInv, Do
<1>2. weak_count[b] = 0 /\ P(agenda, "Destroy", b) = 1
  BY <1>1 DEF BlockOK, One
<1>3. P(agenda, "DecWeak", b) = 0 /\ strong_count[b] = 0
  BY <1>1, <1>2, Numbers DEF BlockOK, Do, One
<1>4. \A v \in Thread : ~(weak[v][b] > 0) /\ ~HasJob(v, "DecWeak", b)
  BY <1>2, <1>3, Alive, HasPending DEF WeakAlive, Do
<1>5. \A v \in Thread : HasJob(v, "Destroy", b) => v = t
  BY <1>2, HasPending DEF Do
<1>6. ASSUME NEW v \in Thread, HasJob(v, "Dispose", b) PROVE FALSE
  <2>1. PICK job \in Range(agenda[v]) : Is(job, "Dispose", b)
    BY <1>6 DEF HasJob
  <2>2. /\ agenda[v] # <<>>
        /\ \A k \in Range(Tail(agenda[v])) : k.do # "Dispose"
        /\ \E k \in Range(Tail(agenda[v])) : Is(k, "DecWeak", Head(agenda[v]).block)
    BY <2>1 DEF OrderInv, DisposesNext, Is
  <2>3. Range(agenda[v]) = {Head(agenda[v])} \cup Range(Tail(agenda[v]))
    BY <2>2, Leaves DEF Idle, Left
  <2>4. HasJob(v, "DecWeak", b)
    BY <2>1, <2>2, <2>3 DEF HasJob, Is
  <2> QED  BY <1>4, <2>4
<1>7. P(agenda, "DecStrong", b) = 0
  BY <1>1, <1>3, Numbers DEF BlockOK, Do
<1>8. \A v \in Thread : ~(shared[v][b] > 0) /\ ~HasJob(v, "DecStrong", b)
  BY <1>3, <1>7, Alive, HasPending DEF StrongAlive, Do
<1>9. \A c \in Block : object[c] = "live" => member[c] # b
  BY <1>3, Alive DEF StrongAlive
<1>10. object[b] # "live"
  <2>1. SUFFICES ASSUME object[b] = "live" PROVE FALSE
    OBVIOUS
  <2>2. P(agenda, "Dispose", b) = 1
    BY <1>1, <1>3, <2>1 DEF BlockOK, One
  <2>3. PICK x : x \in Pending(agenda, "Dispose", b)
    BY <2>2, FS_EmptySet DEF P
  <2>4. PICK v \in Thread : \E n \in Heights(agenda[v], "Dispose", b) : x = <<v, n>>
    BY <2>3, InTagged DEF Pending
  <2>5. HasJob(v, "Dispose", b)
    BY <2>4 DEF Heights, HasJob, Is, Range, IInv, TypeOK, Agendas
  <2> QED  BY <1>6, <2>5
<1> QED  BY <1>4, <1>5, <1>6, <1>8, <1>9, <1>10 DEF Holds, HoldsWeakly

LEMMA DestroyerKnows ==
  ASSUME IInv, OrderInv, NEW t \in Thread, NEW b \in Block, HasJob(t, "Destroy", b), NEW a
  PROVE  (GuardsBlock(a, b) => a \in Knows(t)) /\ ~Guarded(a, b)
<1>1. GuardsBlock(a, b) => a \in Knows(t)
  BY Destroyer DEF OrderInv, Acquired, GuardsBlock
<1>2. Closed({b}) /\ ~Guards(a, b)
  BY Destroyer DEF Closed, Guards
<1> QED  BY <1>1, <1>2 DEF Guarded

LEMMA DecStrongOrders == ASSUME IInv, OrderInv, NEW t \in Thread, DecStrong(t) PROVE OrderInv'
<1>1. PICK b \in Block :
        /\ ~Idle(t) /\ Next_(t, "DecStrong") /\ Head(agenda[t]).do = "DecStrong" /\ Head(agenda[t]).block = b
        /\ Replace(t, IF LastStrong(b) THEN <<Job("Dispose", b), Job("DecWeak", b)>> ELSE <<>>)
        /\ AcquireRelease(t, <<"strong", b>>) /\ UNCHANGED <<memory, pointers>>
  BY HeadJob DEF DecStrong, DecStrongOrder, Next_
<1> DEFINE c0 == <<"strong", b>>
           new == New({<<"block", b>>}, t)
           J == IF LastStrong(b) THEN {Job("Dispose", b), Job("DecWeak", b)} ELSE {}
<1>2. object' = object /\ member' = member /\ shared' = shared /\ weak' = weak
  BY <1>1 DEF memory, pointers
<1>3. Job("Dispose", b) \in Jobs /\ Job("DecWeak", b) \in Jobs
  BY DEF Job, Jobs, Do
<1>4. Onto(t, J)
  <2>1. CASE LastStrong(b)
    <3>1. Replace(t, <<Job("Dispose", b), Job("DecWeak", b)>>)
      BY <1>1, <2>1
    <3>2. <<Job("Dispose", b), Job("DecWeak", b)>> \in Seq(Jobs)
      BY <1>3
    <3>3. Onto(t, Range(<<Job("Dispose", b), Job("DecWeak", b)>>))
      BY <1>1, <3>1, <3>2, OntoWork
    <3> QED  BY <2>1, <3>3, RangeShort
  <2>2. CASE ~LastStrong(b)
    <3>1. Replace(t, <<>>)
      BY <1>1, <2>2
    <3>2. <<>> \in Seq(Jobs)
      OBVIOUS
    <3>3. Onto(t, Range(<<>>))
      BY <1>1, <3>1, <3>2, OntoWork
    <3> QED  BY <2>2, <3>3, RangeShort
  <2> QED  BY <2>1, <2>2
<1>5. /\ OrderStays(new, {c0}) /\ new \subseteq Knows(t)'
      /\ Knows(t)' = carried'[c0] /\ Knows(t) \subseteq Knows(t)'
  <2>1. c0 \in Counter /\ c0[2] = b
    BY <1>1 DEF Counter
  <2> QED  BY <1>1, <2>1, OrderAcquireRelease DEF OrderInv
<1>6. object[b] = "live" /\ \A v \in Thread : ~HasJob(v, "Dispose", b)
  <2>1. strong_count[b] > 0 /\ object[b] = "live" /\ BlockOK(b)
    BY <1>1, HeadJob, Alive DEF StrongAlive, IInv, Do
  <2>2. P(agenda, "Dispose", b) = 0
    BY <2>1 DEF BlockOK, One
  <2> QED  BY <1>1, <2>1, <2>2, HasPending DEF Do
<1>7. /\ \A job \in J : Is(job, "Dispose", b) \/ Is(job, "DecWeak", b)
      /\ LastStrong(b) => \E job \in J : Is(job, "Dispose", b)
  BY IsJob
<1> HIDE DEF c0, new, J
<1>8. DisposesNext'
  <2>1. CASE LastStrong(b)
    <3> DEFINE q == <<Job("DecWeak", b)>> \o Tail(agenda[t])
    <3>1. Tail(agenda[t]) \in Seq(Jobs) 
      BY <1>1, PopIsPush DEF IInv, TypeOK, Agendas, Idle
    <3>2. q \in Seq(Jobs) /\ Range(q) = Left(t) \cup {Job("DecWeak", b)}
      BY <1>1, <1>3, <3>1, RangePush, HeightsPush DEF Left
    <3>3. agenda'[t] = <<Job("Dispose", b)>> \o q
      <4>1. agenda'[t] = <<Job("Dispose", b), Job("DecWeak", b)>> \o Tail(agenda[t])
        BY <1>1, <2>1 DEF Replace, IInv, TypeOK, Agendas
      <4>2. <<Job("Dispose", b), Job("DecWeak", b)>> = <<Job("Dispose", b)>> \o <<Job("DecWeak", b)>>
        BY <1>3, Pair
      <4>3. \A x, y \in Jobs, r \in Seq(Jobs) : (<<x>> \o <<y>>) \o r = <<x>> \o (<<y>> \o r)
        BY SMTT(30)
      <4> QED  BY <1>3, <3>1, <4>1, <4>2, <4>3
    <3> HIDE DEF q
    <3>4. agenda'[t] # <<>> /\ Head(agenda'[t]) = Job("Dispose", b) /\ Tail(agenda'[t]) = q
      BY <1>3, <3>2, <3>3
    <3>5. Head(agenda'[t]).block = b
      BY <3>4, IsJob
    <3>6. Is(Job("DecWeak", b), "DecWeak", b) /\ Job("DecWeak", b).do # "Dispose"
      BY IsJob
    <3>7. \A job \in Range(Tail(agenda'[t])) : job.do # "Dispose"
      BY <3>2, <3>4, <3>6, NoDisposeLeft DEF OrderInv
    <3>8. \E job \in Range(Tail(agenda'[t])) : Is(job, "DecWeak", Head(agenda'[t]).block)
      BY <3>2, <3>4, <3>5, <3>6
    <3> QED  BY <1>4, <3>4, <3>7, <3>8 DEF OrderInv, DisposesNext, Onto
  <2>2. CASE ~LastStrong(b)
    BY <1>4, <2>2, DisposesStay DEF OrderInv, J
  <2> QED  BY <2>1, <2>2
<1>9. Acquired'
  <2>1. ASSUME NEW v \in Thread, NEW d \in Block, HasJob(v, "Dispose", d)'
        PROVE  \/ HasJob(v, "Dispose", d) /\ <<"strong", d>> \notin {c0}
               \/ carried'[<<"strong", d>>] \subseteq Knows(v)'
    <3>1. HasJob(v, "Dispose", d) \/ (v = t /\ \E job \in J : Is(job, "Dispose", d))
      BY <1>4, <2>1, JobsFrom
    <3>2. HasJob(v, "Dispose", d) => d # b
      BY <1>6
    <3>3. (\E job \in J : Is(job, "Dispose", d)) => d = b
      BY <1>7 DEF Is
    <3> QED  BY <1>5, <3>1, <3>2, <3>3 DEF c0
  <2>2. ASSUME NEW v \in Thread, NEW d \in Block, HasJob(v, "Destroy", d)'
        PROVE  HasJob(v, "Destroy", d) /\ <<"weak", d>> \notin {c0}
    <3>1. ~ \E job \in J : Is(job, "Destroy", d)
      BY <1>7 DEF Is
    <3> QED  BY <1>4, <2>2, <3>1, JobsFrom DEF c0
  <2> QED  BY <1>5, <2>1, <2>2, AcquiredStays DEF OrderInv
<1>10. \A a \in carried'[c0] : Guards(a, b)'
  BY <1>2, <1>6 DEF Guards, c0
<1>11. ASSUME NEW a \in accesses' \ new, NEW c \in Block, Guards(a, c) PROVE Guards(a, c)'
  <2>1. ASSUME NEW v \in Thread, Holds(v, c), a \in Knows(v) PROVE Guards(a, c)'
    <3>1. CASE v = t /\ c = b
      BY <1>5, <1>10, <2>1, <3>1
    <3>2. CASE ~(v = t /\ c = b)
      <4>1. \A do : HasJob(v, do, c) => HasJob(v, do, c)'
        BY <1>1, <1>4, <3>2, JobsStay DEF IsDone, Is
      <4> QED  BY <1>2, <1>5, <2>1, <4>1 DEF Holds, Guards, OrderStays
    <3> QED  BY <3>1, <3>2
  <2>2. CASE object[c] = "live" /\ a \in carried[<<"strong", c>>]
    BY <1>2, <1>5, <2>2 DEF OrderStays, Counter, Guards
  <2> QED  BY <1>11, <2>1, <2>2 DEF Guards
<1>12. ASSUME NEW a \in accesses' \ new, NEW c \in Block, GuardsBlock(a, c) PROVE GuardsBlock(a, c)'
  <2>1. \A v \in Thread : \A do \in {"DecWeak", "Destroy"} : HasJob(v, do, c) => HasJob(v, do, c)'
    BY <1>1, <1>4, JobsStay DEF IsDone, Is
  <2>2. \A v \in Thread : HoldsWeakly(v, c) => HoldsWeakly(v, c)'
    BY <1>2, <2>1 DEF HoldsWeakly
  <2> QED  BY <1>5, <1>12, <2>2 DEF OrderStays, Counter, GuardsBlock
<1>13. MemoryHolds
  BY <1>2 DEF MemoryHolds
<1>14. NewGuarded(new)
  <2>1. \A a \in new : a[1] = <<"block", b>>
    BY DEF new, New
  <2> QED  BY <1>5, <1>10, <2>1 DEF NewGuarded
<1>15. AccessesGuarded'
  <2>1. \A a \in accesses' \ new, x \in Block : Guarded(a, x) => Guarded(a, x)'
    BY <1>11, <1>13, GuardedStays
  <2> QED  BY <1>5, <1>12, <1>14, <2>1, AccessesStay DEF OrderInv
<1> QED  BY <1>5, <1>8, <1>9, <1>15 DEF OrderInv, OrderStays

LEMMA DisposeOrders == ASSUME IInv, OrderInv, NEW t \in Thread, Dispose(t) PROVE OrderInv'
<1>1. PICK b \in Block :
        /\ ~Idle(t) /\ Head(agenda[t]).do = "Dispose" /\ Head(agenda[t]).block = b
        /\ object' = [object EXCEPT ![b] = "dead"] /\ Replace(t, Release("DecStrong", member[b]))
        /\ Gone(<<"object", b>>) /\ member' = member /\ UNCHANGED pointers
  BY HeadJob DEF Dispose, Next_
<1>2. /\ object'[b] # "live" /\ (\A c \in Block \ {b} : object'[c] = object[c])
      /\ shared' = shared /\ weak' = weak
  BY <1>1 DEF pointers, IInv, TypeOK
<1>3. PICK J : Onto(t, J) /\ J = (IF member[b] = Null THEN {} ELSE {Job("DecStrong", member[b])})
  <2>1. Release("DecStrong", member[b]) \in Seq(Jobs)
    <3>1. member[b] # Null => Job("DecStrong", member[b]) \in Jobs
      BY DEF IInv, TypeOK, Job, Jobs, Do
    <3> QED  BY <3>1 DEF Release
  <2>2. Onto(t, Range(Release("DecStrong", member[b])))
    BY <1>1, <2>1, OntoWork
  <2> QED  BY <2>2, RangeShort DEF Release
<1>4. OrderStays({}, {}) /\ \A a \in accesses' : a[1] # <<"object", b>>
  BY <1>1, OrderGone DEF OrderInv
<1>5. HasJob(t, "Dispose", b)
  BY <1>1, Leaves DEF HasJob, Is
<1>6. \A job \in J : job.do = "DecStrong" /\ (member[b] \in Block => Is(job, "DecStrong", member[b]))
  BY <1>3, IsJob
<1>7. OrderTypeOK' /\ DisposesNext'
  BY <1>3, <1>4, <1>6, DisposesStay DEF OrderStays, OrderInv
<1>8. Acquired'
  <2>1. \A v \in Thread, c \in Block, do \in {"Dispose", "Destroy"} : HasJob(v, do, c)' => HasJob(v, do, c)
    BY <1>3, <1>6, JobsFrom DEF Is
  <2> QED  BY <1>4, <2>1, AcquiredStays DEF OrderInv
<1>9. \A v \in Thread, c \in Block : \A do :
        HasJob(v, do, c) /\ ~(v = t /\ do = "Dispose" /\ c = b) => HasJob(v, do, c)'
  BY <1>1, <1>3, JobsStay DEF IsDone, Is
<1>10. ASSUME NEW a \in accesses', NEW c \in Block \ {b}, Guards(a, c) PROVE Guards(a, c)'
  <2>1. \A v \in Thread : Holds(v, c) => Holds(v, c)'
    BY <1>2, <1>9 DEF Holds
  <2> QED  BY <1>2, <1>4, <1>10, <2>1 DEF OrderStays, Counter, Guards
<1>11. ASSUME NEW a \in accesses', Guards(a, b), member[b] \in Block PROVE Guards(a, member[b])'
  <2>1. a \in Knows(t)'
    BY <1>4, <1>5, <1>11, DisposerKnows DEF OrderStays
  <2>2. PICK m \in Block : m = member[b]
    BY <1>11
  <2>3. HasJob(t, "DecStrong", m)'
    <3>1. Job("DecStrong", m) \in J /\ Is(Job("DecStrong", m), "DecStrong", m)
      BY <1>3, <2>2, SharedPtrAssumption, IsJob
    <3> QED  BY <1>3, <3>1, JobsPut
  <2>4. Guards(a, m)'
    BY <2>1, <2>3 DEF Guards, Holds
  <2> QED  BY <1>1, <2>2, <2>4
<1>12. ASSUME NEW a \in accesses', NEW x \in Block \ {b}, Guarded(a, x) PROVE Guarded(a, x)'
  <2> SUFFICES ASSUME NEW X \in SUBSET Block, x \in X, Closed(X)' PROVE \E c \in X : Guards(a, c)'
    BY DEF Guarded
  <2> DEFINE Y == IF member[b] \in X THEN X \cup {b} ELSE X \ {b}
  <2>1. Y \in SUBSET Block /\ x \in Y /\ Y \subseteq X \cup {b} /\ (b \in Y <=> member[b] \in X)
    OBVIOUS
  <2>2. Closed(Y)
    <3>1. \A c \in Block : object[c] = "live" => member[c] # b
      BY <1>5, Disposer
    <3>2. \A c \in Block \ {b} : object[c] = "live" /\ member[c] \in X => c \in X
      BY <1>1, <1>2 DEF Closed
    <3> QED  BY <2>1, <3>1, <3>2 DEF Closed
  <2> HIDE DEF Y
  <2>3. PICK c \in Y : Guards(a, c)
    BY <1>12, <2>1, <2>2 DEF Guarded
  <2>4. CASE c = b
    <3>1. member[b] \in X /\ member[b] \in Block
      BY <2>1, <2>3, <2>4
    <3>2. PICK m \in X : m = member[b]
      BY <3>1
    <3> QED  BY <1>1, <1>11, <2>3, <2>4, <3>1, <3>2
  <2>5. CASE c # b
    BY <1>10, <2>1, <2>3, <2>5
  <2> QED  BY <2>4, <2>5
<1>13. \A a \in accesses' : Guarded(a, b) => GuardsBlock(a, b)'
  <2>1. HasJob(t, "DecWeak", b)'
    <3>1. \E job \in Left(t) : Is(job, "DecWeak", b)
      BY <1>1, <1>5 DEF OrderInv, DisposesNext, HasJob, Is, Left
    <3> QED  BY <1>3, <3>1 DEF Onto, HasJob
  <2> QED  BY <1>4, <1>5, <2>1, DisposerKnows DEF OrderStays, GuardsBlock, HoldsWeakly
<1>14. ASSUME NEW a \in accesses', NEW c \in Block, GuardsBlock(a, c) PROVE GuardsBlock(a, c)'
  <2>1. \A v \in Thread : HoldsWeakly(v, c) => HoldsWeakly(v, c)'
    BY <1>2, <1>9 DEF HoldsWeakly
  <2> QED  BY <1>4, <1>14, <2>1 DEF OrderStays, Counter, GuardsBlock
<1>15. AccessesGuarded'
  <2>1. NewGuarded({})
    BY DEF NewGuarded
  <2> QED  BY <1>4, <1>12, <1>13, <1>14, <2>1, AccessesStay DEF OrderInv
<1> QED  BY <1>7, <1>8, <1>15 DEF OrderInv

LEMMA DecWeakOrders == ASSUME IInv, OrderInv, NEW t \in Thread, DecWeak(t) PROVE OrderInv'
<1>1. PICK b \in Block :
        /\ ~Idle(t) /\ Next_(t, "DecWeak") /\ Head(agenda[t]).do = "DecWeak" /\ Head(agenda[t]).block = b
        /\ Replace(t, IF LastWeak(b) THEN <<Job("Destroy", b)>> ELSE <<>>)
        /\ AcquireRelease(t, <<"weak", b>>) /\ UNCHANGED <<memory, pointers>>
  BY HeadJob DEF DecWeak, Next_
<1> DEFINE c0 == <<"weak", b>>
           new == New({<<"block", b>>}, t)
<1>2. object' = object /\ member' = member /\ shared' = shared /\ weak' = weak
  BY <1>1 DEF memory, pointers
<1>3. PICK J : Onto(t, J) /\ \A job \in J : Is(job, "Destroy", b)
  <2>1. Job("Destroy", b) \in Jobs
    BY DEF Job, Jobs, Do
  <2> DEFINE jobs == IF LastWeak(b) THEN <<Job("Destroy", b)>> ELSE <<>>
  <2>2. jobs \in Seq(Jobs) /\ Range(jobs) \subseteq {Job("Destroy", b)} /\ Replace(t, jobs)
    BY <1>1, <2>1, RangeShort
  <2> HIDE DEF jobs
  <2>3. Onto(t, Range(jobs))
    BY <1>1, <2>2, OntoWork
  <2>4. \A job \in Range(jobs) : Is(job, "Destroy", b)
    BY <2>2, IsJob
  <2> QED  BY <2>3, <2>4
<1>4. /\ OrderStays(new, {c0}) /\ new \subseteq Knows(t)'
      /\ Knows(t)' = carried'[c0] /\ Knows(t) \subseteq Knows(t)'
  <2>1. c0 \in Counter /\ c0[2] = b
    BY DEF Counter
  <2> QED  BY <1>1, <2>1, OrderAcquireRelease DEF OrderInv
<1>5. \A v \in Thread : ~HasJob(v, "Destroy", b)
  <2>1. weak_count[b] > 0 /\ BlockOK(b)
    BY <1>1, HeadJob, Alive DEF WeakAlive, IInv, Do
  <2>2. P(agenda, "Destroy", b) = 0
    BY <2>1 DEF BlockOK, One
  <2> QED  BY <2>2, HasPending DEF Do
<1> HIDE DEF c0, new
<1>6. OrderTypeOK' /\ DisposesNext'
  BY <1>3, <1>4, DisposesStay DEF OrderStays, OrderInv, Is
<1>7. Acquired'
  <2>1. ASSUME NEW v \in Thread, NEW d \in Block, HasJob(v, "Dispose", d)'
        PROVE  HasJob(v, "Dispose", d) /\ <<"strong", d>> \notin {c0}
    BY <1>3, <2>1, JobsFrom DEF Is, c0
  <2>2. ASSUME NEW v \in Thread, NEW d \in Block, HasJob(v, "Destroy", d)'
        PROVE  \/ HasJob(v, "Destroy", d) /\ <<"weak", d>> \notin {c0}
               \/ carried'[<<"weak", d>>] \subseteq Knows(v)'
    <3>1. HasJob(v, "Destroy", d) \/ (v = t /\ d = b)
      BY <1>3, <2>2, JobsFrom DEF Is
    <3>2. HasJob(v, "Destroy", d) => d # b
      BY <1>5
    <3> QED  BY <1>4, <3>1, <3>2 DEF c0
  <2> QED  BY <1>4, <2>1, <2>2, AcquiredStays DEF OrderInv
<1>8. \A v \in Thread, c \in Block : \A do :
        HasJob(v, do, c) /\ ~(v = t /\ do = "DecWeak" /\ c = b) => HasJob(v, do, c)'
  BY <1>1, <1>3, JobsStay DEF IsDone, Is
<1>9. ASSUME NEW a \in accesses' \ new, NEW c \in Block, Guards(a, c) PROVE Guards(a, c)'
  <2>1. \A v \in Thread : Holds(v, c) => Holds(v, c)'
    BY <1>2, <1>8 DEF Holds
  <2> QED  BY <1>2, <1>4, <1>9, <2>1 DEF OrderStays, Counter, Guards
<1>10. \A a \in carried'[c0] : GuardsBlock(a, b)'
  BY DEF GuardsBlock, c0
<1>11. ASSUME NEW a \in accesses' \ new, NEW c \in Block, GuardsBlock(a, c) PROVE GuardsBlock(a, c)'
  <2>1. ASSUME NEW v \in Thread, HoldsWeakly(v, c), a \in Knows(v) PROVE GuardsBlock(a, c)'
    <3>1. CASE v = t /\ c = b
      BY <1>4, <1>10, <2>1, <3>1
    <3>2. CASE ~(v = t /\ c = b)
      BY <1>2, <1>4, <1>8, <2>1, <3>2 DEF HoldsWeakly, GuardsBlock, OrderStays
    <3> QED  BY <3>1, <3>2
  <2>2. CASE a \in carried[<<"weak", c>>]
    BY <1>4, <2>2 DEF OrderStays, Counter, GuardsBlock
  <2> QED  BY <1>11, <2>1, <2>2 DEF GuardsBlock
<1>12. MemoryHolds
  BY <1>2 DEF MemoryHolds
<1>13. NewGuarded(new)
  <2>1. \A a \in new : a[1] = <<"block", b>>
    BY DEF new, New
  <2> QED  BY <1>4, <1>10, <2>1 DEF NewGuarded
<1>14. AccessesGuarded'
  <2>1. \A a \in accesses' \ new, x \in Block : Guarded(a, x) => Guarded(a, x)'
    BY <1>9, <1>12, GuardedStays
  <2> QED  BY <1>4, <1>11, <1>13, <2>1, AccessesStay DEF OrderInv
<1> QED  BY <1>6, <1>7, <1>14 DEF OrderInv

LEMMA DestroyOrders == ASSUME IInv, OrderInv, NEW t \in Thread, Destroy(t) PROVE OrderInv'
<1>1. PICK b \in Block :
        /\ ~Idle(t) /\ Head(agenda[t]).do = "Destroy" /\ Head(agenda[t]).block = b
        /\ Gone(<<"block", b>>) /\ Replace(t, <<>>) /\ UNCHANGED <<object, member, pointers>>
  BY HeadJob DEF Destroy, Next_
<1>2. object' = object /\ member' = member /\ shared' = shared /\ weak' = weak
  BY <1>1 DEF pointers
<1>3. Onto(t, {})
  <2>1. <<>> \in Seq(Jobs)
    OBVIOUS
  <2>2. Onto(t, Range(<<>>))
    BY <1>1, <2>1, OntoWork
  <2> QED  BY <2>2, RangeShort
<1>4. OrderStays({}, {}) /\ \A a \in accesses' : a[1] # <<"block", b>>
  BY <1>1, OrderGone DEF OrderInv
<1>5. OrderTypeOK' /\ DisposesNext'
  BY <1>3, <1>4, DisposesStay DEF OrderStays, OrderInv
<1>6. Acquired'
  <2>1. \A v \in Thread, c \in Block : \A do : HasJob(v, do, c)' => HasJob(v, do, c)
    BY <1>3, JobsFrom
  <2> QED  BY <1>4, <2>1, AcquiredStays DEF OrderInv
<1>7. \A v \in Thread, c \in Block : \A do :
        HasJob(v, do, c) /\ ~(v = t /\ do = "Destroy" /\ c = b) => HasJob(v, do, c)'
  BY <1>1, <1>3, JobsStay DEF IsDone, Is
<1>8. ASSUME NEW a \in accesses', NEW c \in Block, Guards(a, c) PROVE Guards(a, c)'
  <2>1. \A v \in Thread : Holds(v, c) => Holds(v, c)'
    BY <1>2, <1>7 DEF Holds
  <2> QED  BY <1>2, <1>4, <1>8, <2>1 DEF OrderStays, Counter, Guards
<1>9. ASSUME NEW a \in accesses', NEW c \in Block \ {b}, GuardsBlock(a, c) PROVE GuardsBlock(a, c)'
  <2>1. \A v \in Thread : HoldsWeakly(v, c) => HoldsWeakly(v, c)'
    BY <1>2, <1>7 DEF HoldsWeakly
  <2> QED  BY <1>4, <1>9, <2>1 DEF OrderStays, Counter, GuardsBlock
<1>10. AccessesGuarded'
  <2>1. MemoryHolds /\ NewGuarded({})
    BY <1>2 DEF MemoryHolds, NewGuarded
  <2>2. \A a \in accesses', x \in Block : Guarded(a, x) => Guarded(a, x)'
    BY <1>8, <2>1, GuardedStays
  <2> QED  BY <1>4, <1>9, <2>1, <2>2, AccessesStay DEF OrderInv
<1> QED  BY <1>5, <1>6, <1>10 DEF OrderInv

-----------------------------------------------------------------------------
(* The plain steps.                                                        *)
Unsettled(t) == ~Idle(t) => ~Settles(Head(agenda[t]))
NoDisposal(J) == \A job \in J : job.do \notin {"Dispose", "Destroy"}

LEMMA PlainSame ==
  ASSUME IInv, OrderInv, NEW t \in Thread, NEW J, Onto(t, J), Unsettled(t), NoDisposal(J),
         MemoryHolds, PointersStay(t, J), UNCHANGED order
  PROVE  OrderInv'
<1>1. OrderStays({}, {})
  BY OrderSame DEF OrderInv
<1>2. NewHeld(t, {})
  BY DEF NewHeld
<1> QED  BY <1>1, <1>2, Plain DEF Unsettled, NoDisposal

LEMMA PlainAccess ==
  ASSUME IInv, OrderInv, NEW t \in Thread, NEW J, Onto(t, J), Unsettled(t), NoDisposal(J),
         MemoryHolds, PointersStay(t, J), NEW b \in Block, NEW what \in {"object", "block"},
         Access(t, {<<what, b>>}), shared'[t][b] > 0 \/ (what = "block" /\ weak'[t][b] > 0)
  PROVE  OrderInv'
<1> DEFINE new == New({<<what, b>>}, t)
<1>1. {<<what, b>>} \in SUBSET Location
  BY DEF Location
<1>2. OrderStays(new, {}) /\ new \subseteq Knows(t)'
  BY <1>1, OrderAccess DEF OrderInv
<1>3. \A a \in new : a[1] = <<what, b>>
  BY DEF New
<1> HIDE DEF new
<1>4. NewHeld(t, new)
  BY <1>2, <1>3 DEF NewHeld
<1> QED  BY <1>2, <1>4, Plain DEF Unsettled, NoDisposal

LEMMA GainedStay ==
  ASSUME IInv, NEW t \in Thread, NEW b \in Block, NEW J,
         \/ shared' = Gains(shared, t, b) /\ weak' = weak
         \/ weak' = Gains(weak, t, b) /\ shared' = shared
  PROVE  /\ PointersStay(t, J)
         /\ shared' = Gains(shared, t, b) => shared'[t][b] > 0
         /\ weak' = Gains(weak, t, b) => weak'[t][b] > 0
<1>1. ASSUME NEW p \in Pointers, NEW q, q = Gains(p, t, b)
      PROVE  q[t][b] > 0 /\ \A v \in Thread, c \in Block : p[v][c] > 0 => q[v][c] > 0
  BY <1>1 DEF Gains, Pointers
<1>2. shared \in Pointers /\ weak \in Pointers
  BY DEF IInv, TypeOK
<1> QED  BY <1>1, <1>2 DEF PointersStay

LEMMA SameStay ==
  ASSUME NEW t, NEW J, shared' = shared /\ weak' = weak
  PROVE  PointersStay(t, J)
BY DEF PointersStay

LEMMA LostStay ==
  ASSUME IInv, NEW t \in Thread, NEW this \in Block \cup {Null}, NEW J,
         \/ /\ shared' = Loses(shared, t, this) /\ weak' = weak
            /\ this \in Block => \E job \in J : Is(job, "DecStrong", this)
         \/ /\ weak' = Loses(weak, t, this) /\ shared' = shared
            /\ this \in Block => \E job \in J : Is(job, "DecWeak", this)
  PROVE  PointersStay(t, J)
<1>1. Null \notin Block
  BY SharedPtrAssumption
<1>2. \A v \in Thread, c \in Block : ~(v = t /\ c = this) =>
        Loses(shared, t, this)[v][c] = shared[v][c] /\ Loses(weak, t, this)[v][c] = weak[v][c]
  BY <1>1 DEF Loses, IInv, TypeOK, Pointers
<1> QED  BY <1>2 DEF PointersStay

LEMMA MemorySame == ASSUME UNCHANGED memory PROVE MemoryHolds
BY DEF memory, MemoryHolds

LEMMA ReleaseJobs ==
  ASSUME NEW do, NEW b \in Block \cup {Null}
  PROVE  /\ \A job \in Range(Release(do, b)) : job.do = do
         /\ b \in Block => \E job \in Range(Release(do, b)) : Is(job, do, b)
         /\ do \in Do => Release(do, b) \in Seq(Jobs)
<1>1. Null \notin Block
  BY SharedPtrAssumption
<1>2. Range(Release(do, b)) = IF b = Null THEN {} ELSE {Job(do, b)}
  BY RangeShort DEF Release
<1>3. do \in Do /\ b \in Block => Job(do, b) \in Jobs
  BY DEF Job, Jobs
<1>4. do \in Do => Release(do, b) \in Seq(Jobs)
  BY <1>3 DEF Release
<1> QED  BY <1>1, <1>2, <1>4, IsJob

LEMMA AccessCalls ==
  ASSUME IInv, OrderInv, NEW t \in Thread, NEW b \in Block,
         \/ CopyCtor(t, b) \/ Use(t, b) \/ Observe(t, b) \/ WeakCtor(t, b) \/ Lock(t, b)
  PROVE  OrderInv'
<1>1. Idle(t) /\ Unsettled(t) /\ UNCHANGED memory
  BY DEF CopyCtor, Use, Observe, WeakCtor, Lock, Unsettled
<1>2. MemoryHolds /\ NoDisposal({})
  BY <1>1, MemorySame DEF NoDisposal
<1>3. CASE ~Lock(t, b)
  <2>1. Onto(t, {})
    BY <1>1, <1>3, OntoSame DEF CopyCtor, Use, Observe, WeakCtor
  <2>2. CASE CopyCtor(t, b)
    BY <1>1, <1>2, <2>1, <2>2, GainedStay, PlainAccess DEF CopyCtor
  <2>3. CASE Use(t, b)
    BY <1>1, <1>2, <2>1, <2>3, SameStay, PlainAccess DEF Use, pointers
  <2>4. CASE Observe(t, b)
    BY <1>1, <1>2, <2>1, <2>4, SameStay, PlainAccess DEF Observe, pointers
  <2>5. CASE WeakCtor(t, b)
    BY <1>1, <1>2, <2>1, <2>5, GainedStay, PlainAccess DEF WeakCtor
  <2> QED  BY <1>3, <2>2, <2>3, <2>4, <2>5
<1>4. CASE Lock(t, b)
  <2>1. PICK job : job = [do |-> "Cas", block |-> b, count |-> strong_count[b]]
    OBVIOUS
  <2>2. /\ agenda' = [agenda EXCEPT ![t] = <<job>>] /\ job.do = "Cas" /\ shared' = shared /\ weak' = weak
        /\ weak[t][b] > 0 /\ Access(t, {<<"block", b>>})
    BY <1>4, <2>1 DEF Lock, pointers
  <2>3. Onto(t, {job})
    BY <1>1, <2>2, OntoCall, RangeShort
  <2>4. NoDisposal({job}) /\ PointersStay(t, {job})
    BY <2>2, SameStay DEF NoDisposal
  <2> QED  BY <1>1, <1>2, <2>2, <2>3, <2>4, PlainAccess
<1> QED  BY <1>3, <1>4

LEMMA ReleasingCalls ==
  ASSUME IInv, OrderInv, NEW t \in Thread,
         \/ \E this, other \in Block \cup {Null} : CopyAssign(t, this, other) \/ WeakAssign(t, this, other)
         \/ \E b \in Block : AssignFromMember(t, b) \/ Drop(t, b) \/ WeakDrop(t, b)
         \/ \E b \in Block, inside \in Block \cup {Null} : CreateThrows(t, b, inside)
  PROVE  OrderInv'
<1>1. ASSUME NEW this \in Block \cup {Null}, NEW do \in {"DecStrong", "DecWeak"}, NEW jobs,
             Idle(t), agenda' = [agenda EXCEPT ![t] = jobs], NoDisposal(Range(jobs)),
             this \in Block => \E job \in Range(jobs) : Is(job, do, this),
             \/ do = "DecStrong" /\ shared' = Loses(shared, t, this) /\ weak' = weak
             \/ do = "DecWeak" /\ weak' = Loses(weak, t, this) /\ shared' = shared,
             MemoryHolds, UNCHANGED order
      PROVE  OrderInv'
  <2>1. Onto(t, Range(jobs)) /\ PointersStay(t, Range(jobs)) /\ Unsettled(t)
    BY <1>1, OntoCall, LostStay DEF Unsettled
  <2> QED  BY <1>1, <2>1, PlainSame
<1>2. ASSUME NEW this \in Block \cup {Null}, NEW other \in Block \cup {Null},
             NEW do \in {"DecStrong", "DecWeak"}, NEW then \in {"IncStrong", "IncWeak"}
      PROVE  /\ NoDisposal(Range(Release(do, this) \o Release(then, other)))
             /\ this \in Block => \E job \in Range(Release(do, this) \o Release(then, other)) : Is(job, do, this)
  <2>1. Range(Release(do, this) \o Release(then, other))
        = Range(Release(do, this)) \cup Range(Release(then, other))
    BY ReleaseJobs, RangeConcat DEF Do
  <2> QED  BY <2>1, ReleaseJobs DEF NoDisposal
<1>3. ASSUME NEW this \in Block \cup {Null}, NEW other \in Block \cup {Null}, CopyAssign(t, this, other)
      PROVE  OrderInv'
  BY <1>1, <1>2, <1>3, MemorySame DEF CopyAssign
<1>4. ASSUME NEW this \in Block \cup {Null}, NEW other \in Block \cup {Null}, WeakAssign(t, this, other)
      PROVE  OrderInv'
  BY <1>1, <1>2, <1>4, MemorySame DEF WeakAssign
<1>5. ASSUME NEW b \in Block, AssignFromMember(t, b) PROVE OrderInv'
  <2>1. Range(<<Job("DecStrong", b), Job("ReadMember", b)>>) = {Job("DecStrong", b), Job("ReadMember", b)}
    BY RangeShort
  <2>2. /\ NoDisposal({Job("DecStrong", b), Job("ReadMember", b)})
        /\ \E job \in {Job("DecStrong", b), Job("ReadMember", b)} : Is(job, "DecStrong", b)
    BY IsJob DEF NoDisposal
  <2> QED  BY <1>1, <1>5, <2>1, <2>2, MemorySame DEF AssignFromMember
<1>6. ASSUME NEW b \in Block, NEW do \in {"DecStrong", "DecWeak"}
      PROVE  NoDisposal(Range(<<Job(do, b)>>)) /\ \E job \in Range(<<Job(do, b)>>) : Is(job, do, b)
  BY RangeShort, IsJob DEF NoDisposal
<1>7. ASSUME NEW b \in Block, Drop(t, b) PROVE OrderInv'
  BY <1>1, <1>6, <1>7, MemorySame DEF Drop
<1>8. ASSUME NEW b \in Block, WeakDrop(t, b) PROVE OrderInv'
  BY <1>1, <1>6, <1>8, MemorySame DEF WeakDrop
<1>9. ASSUME NEW b \in Block, NEW inside \in Block \cup {Null}, CreateThrows(t, b, inside)
      PROVE  OrderInv'
  <2>1. MemoryHolds
    BY <1>9 DEF CreateThrows, MemoryHolds, IInv, TypeOK
  <2>2. NoDisposal(Range(Release("DecStrong", inside)))
    BY ReleaseJobs DEF NoDisposal
  <2> QED  BY <1>1, <1>9, <2>1, <2>2, ReleaseJobs DEF CreateThrows
<1> QED  BY <1>3, <1>4, <1>5, <1>7, <1>8, <1>9

LEMMA PlainWork ==
  ASSUME IInv, OrderInv, NEW t \in Thread,
         IncStrong(t) \/ ReadMember(t) \/ IncWeak(t) \/ Cas(t)
  PROVE  OrderInv'
<1>1. MemoryHolds /\ ~Idle(t) /\ Unsettled(t)
  BY MemorySame DEF IncStrong, ReadMember, IncWeak, Cas, Next_, Unsettled, Settles, Settled
<1>2. NoDisposal({})
  BY DEF NoDisposal
<1>3. Replace(t, <<>>) => Onto(t, {})
  <2>1. <<>> \in Seq(Jobs)
    OBVIOUS
  <2> QED  BY <1>1, <2>1, OntoWork, RangeShort
<1>4. CASE IncStrong(t)
  <2>1. PICK b \in Block : /\ shared' = Gains(shared, t, b) /\ weak' = weak
                           /\ Access(t, {<<"block", b>>}) /\ Replace(t, <<>>)
    BY <1>4, HeadJob DEF IncStrong
  <2> QED  BY <1>1, <1>2, <1>3, <2>1, GainedStay, PlainAccess
<1>5. CASE IncWeak(t)
  <2>1. PICK b \in Block : /\ weak' = Gains(weak, t, b) /\ shared' = shared
                           /\ Access(t, {<<"block", b>>}) /\ Replace(t, <<>>)
    BY <1>5, HeadJob DEF IncWeak
  <2> QED  BY <1>1, <1>2, <1>3, <2>1, GainedStay, PlainAccess
<1>6. CASE ReadMember(t)
  <2>1. PICK b \in Block : /\ shared[t][b] > 0 /\ shared' = shared /\ weak' = weak
                           /\ Access(t, {<<"object", b>>}) /\ Replace(t, Release("IncStrong", member[b]))
    BY <1>6, HeadJob DEF ReadMember, Next_, Justified, pointers
  <2>2. PICK J : Onto(t, J) /\ NoDisposal(J)
    <3>1. member[b] \in Block \cup {Null}
      BY DEF IInv, TypeOK
    <3>2. Release("IncStrong", member[b]) \in Seq(Jobs) /\ NoDisposal(Range(Release("IncStrong", member[b])))
      BY <3>1, ReleaseJobs DEF NoDisposal, Do
    <3> QED  BY <1>1, <2>1, <3>2, OntoWork
  <2> QED  BY <1>1, <2>1, <2>2, SameStay, PlainAccess
<1>7. CASE Cas(t)
  <2>1. PICK job \in Jobs, b \in Block :
          /\ job = Head(agenda[t]) /\ b = job.block /\ job.do = "Cas" /\ weak[t][b] > 0 /\ weak' = weak
    BY <1>7, HeadJob DEF Cas, Next_, Justified
  <2>2. CASE Replace(t, <<>>) /\ UNCHANGED <<shared, order>>
    BY <1>1, <1>2, <1>3, <2>1, <2>2, SameStay, PlainSame
  <2>3. CASE Replace(t, <<>>) /\ shared' = Gains(shared, t, b) /\ Access(t, {<<"block", b>>})
    BY <1>1, <1>2, <1>3, <2>1, <2>3, GainedStay, PlainAccess
  <2>4. CASE /\ Replace(t, <<[job EXCEPT !.count = strong_count[b]]>>) /\ shared' = shared
             /\ Access(t, {<<"block", b>>})
    <3>1. job \in [do : {"Cas"}, block : Block, count : Nat] /\ strong_count[b] \in Nat
      BY <2>1 DEF Jobs, Do, IInv, TypeOK
    <3>2. PICK again : again = [job EXCEPT !.count = strong_count[b]]
      OBVIOUS
    <3>3. again \in [do : {"Cas"}, block : Block, count : Nat]
      BY <3>1, <3>2
    <3>4. again \in Jobs /\ again.do = "Cas" /\ Replace(t, <<again>>)
      BY <2>4, <3>2, <3>3 DEF Jobs
    <3>5. Onto(t, {again})
      <4>1. <<again>> \in Seq(Jobs)
        BY <3>4
      <4> QED  BY <1>1, <3>4, <4>1, OntoWork, RangeShort
    <3>6. NoDisposal({again}) /\ PointersStay(t, {again})
      BY <2>1, <2>4, <3>4, SameStay DEF NoDisposal
    <3> QED  BY <1>1, <2>1, <2>4, <3>5, <3>6, PlainAccess
  <2> QED  BY <1>7, <2>1, <2>2, <2>3, <2>4 DEF Cas
<1> QED  BY <1>4, <1>5, <1>6, <1>7

LEMMA Moves ==
  ASSUME IInv, OrderInv, NEW t \in Thread, NEW u \in Thread, NEW b \in Block,
         MoveCtor(t, u, b) \/ WeakMoveCtor(t, u, b)
  PROVE  OrderInv'
<1>1. Idle(t) /\ t # u /\ agenda' = agenda /\ Synchronize(t, u) /\ MemoryHolds
  BY MemorySame DEF MoveCtor, WeakMoveCtor
<1>2. ASSUME NEW p \in Pointers, NEW v \in Thread, NEW c \in Block, p[v][c] > 0
      PROVE  LET q == Gains(Loses(p, t, b), u, b)
             IN q[v][c] > 0 \/ (v = t /\ q[u][c] > 0)
  <2>1. Null \notin Block
    BY SharedPtrAssumption
  <2> DEFINE m == Loses(p, t, b)
  <2>2. /\ m = [p EXCEPT ![t][b] = @ - 1]
        /\ \A w \in Thread, d \in Block : ~(w = t /\ d = b) => m[w][d] = p[w][d]
    BY <2>1 DEF Loses, Pointers
  <2>3. m \in [Thread -> [Block -> Int]] /\ m[u][b] = p[u][b] /\ p[u][b] \in Nat
    BY <1>1, <2>2 DEF Pointers
  <2> HIDE DEF m
  <2> DEFINE q == Gains(m, u, b)
  <2>4. /\ q[u][b] = m[u][b] + 1
        /\ \A w \in Thread, d \in Block : ~(w = u /\ d = b) => q[w][d] = m[w][d]
    BY <2>3 DEF Gains
  <2> HIDE DEF q
  <2>5. CASE c = b /\ v \in {t, u}
    <3>1. q[u][b] > 0
      BY <2>3, <2>4
    <3> QED  BY <2>5, <3>1 DEF q, m
  <2>6. CASE ~(c = b /\ v \in {t, u})
    <3>1. q[v][c] = p[v][c]
      BY <2>2, <2>4, <2>6
    <3> QED  BY <1>2, <3>1 DEF q, m
  <2> QED  BY <2>5, <2>6
<1>3. shared \in Pointers /\ weak \in Pointers
  BY DEF IInv, TypeOK
<1>4. CASE MoveCtor(t, u, b)
  <2>1. shared' = Gains(Loses(shared, t, b), u, b) /\ weak' = weak
    BY <1>4 DEF MoveCtor
  <2> QED  BY <1>1, <1>2, <1>3, <2>1, Handed
<1>5. CASE WeakMoveCtor(t, u, b)
  <2>1. weak' = Gains(Loses(weak, t, b), u, b) /\ shared' = shared
    BY <1>5 DEF WeakMoveCtor
  <2> QED  BY <1>1, <1>2, <1>3, <2>1, Handed
<1> QED  BY <1>4, <1>5

-----------------------------------------------------------------------------
LEMMA InitOrders == ASSUME Init PROVE OrderInv
<1>1. OrderTypeOK
  BY DEF Init, OrderTypeOK
<1>2. \A t \in Thread : Range(agenda[t]) = {}
  BY DEF Init, Range
<1>3. DisposesNext /\ Acquired
  BY <1>2 DEF DisposesNext, Acquired, HasJob
<1>4. AccessesGuarded
  BY DEF Init, AccessesGuarded
<1> QED  BY <1>1, <1>3, <1>4 DEF OrderInv

LEMMA NextOrders == ASSUME IInv, OrderInv, [Next]_vars PROVE OrderInv'
<1>1. ASSUME NEW t \in Thread, Call(t) PROVE OrderInv'
  BY <1>1, CreateOrder, ReleasingCalls, AccessCalls, Moves DEF Call
<1>2. ASSUME NEW t \in Thread, Work(t) PROVE OrderInv'
  BY <1>2, DecStrongOrders, DisposeOrders, DecWeakOrders, DestroyOrders, PlainWork DEF Work
<1>3. CASE UNCHANGED vars
  <2>1. UNCHANGED <<object, member, shared, weak, agenda, accesses, known, carried>>
    BY <1>3 DEF vars, memory, pointers, order
  <2>2. \A v \in Thread, c \in Block : \A do : HasJob(v, do, c)' <=> HasJob(v, do, c)
    BY <2>1 DEF HasJob
  <2>3. \A v \in Thread : Knows(v)' = Knows(v)
    BY <2>1 DEF Knows, Of
  <2>4. \A a : \A c \in Block :
          (Guards(a, c)' <=> Guards(a, c)) /\ (GuardsBlock(a, c)' <=> GuardsBlock(a, c))
    BY <2>1, <2>2, <2>3 DEF Guards, GuardsBlock, Holds, HoldsWeakly
  <2>5. MemoryHolds
    BY <2>1 DEF MemoryHolds
  <2>6. \A a : \A b \in Block : Guarded(a, b) => Guarded(a, b)'
    BY <2>4, <2>5, GuardedStays
  <2>7. AccessesGuarded'
    BY <2>1, <2>4, <2>6 DEF OrderInv, AccessesGuarded
  <2>8. OrderTypeOK' /\ DisposesNext'
    BY <2>1 DEF OrderInv, OrderTypeOK, DisposesNext
  <2>9. Acquired'
    BY <2>1, <2>2, <2>3 DEF OrderInv, Acquired
  <2> QED  BY <2>7, <2>8, <2>9 DEF OrderInv
<1> QED  BY <1>1, <1>2, <1>3 DEF Next

LEMMA GuardedNoRace == ASSUME IInv, OrderInv PROVE NoDataRace
<1> SUFFICES ASSUME NEW t \in Thread, NEW b \in Block, NEW u \in Thread \ {t}
             PROVE  /\ t \in Doing("Dispose", b) /\ <<<<"object", b>>, u>> \in accesses
                         => <<<<"object", b>>, u>> \in known[t]
                    /\ t \in Doing("Destroy", b) /\ <<<<"block", b>>, u>> \in accesses
                         => <<<<"block", b>>, u>> \in known[t]
  BY DEF NoDataRace
<1>1. \A do : t \in Doing(do, b) => HasJob(t, do, b)
  BY Leaves DEF Doing, Next_, HasJob, Is
<1>2. \A location : <<location, u>> \in Knows(t) => <<location, u>> \in known[t]
  BY DEF Knows, Of
<1>3. ASSUME HasJob(t, "Dispose", b), <<<<"object", b>>, u>> \in accesses
      PROVE  <<<<"object", b>>, u>> \in Knows(t)
  BY <1>3, DisposerKnows DEF OrderInv, AccessesGuarded
<1>4. ASSUME HasJob(t, "Destroy", b), <<<<"block", b>>, u>> \in accesses
      PROVE  <<<<"block", b>>, u>> \in Knows(t)
  BY <1>4, DestroyerKnows DEF OrderInv, AccessesGuarded
<1> QED  BY <1>1, <1>2, <1>3, <1>4

(* An object is destroyed, and a block deleted, after all accesses to it,  *)
(* however many threads made them and in whatever objects the pointers were. *)
THEOREM RaceFreedom == ASSUME ~Aliased PROVE Spec => []NoDataRace
<1>1. Init => OrderInv
  BY InitOrders
<1>2. IInv /\ OrderInv /\ [Next]_vars => OrderInv'
  BY NextOrders
<1>3. IInv /\ OrderInv => NoDataRace
  BY GuardedNoRace
<1>4. Spec => []IInv
  BY Invariance
<1> QED  BY <1>1, <1>2, <1>3, <1>4, PTL DEF Spec
=============================================================================

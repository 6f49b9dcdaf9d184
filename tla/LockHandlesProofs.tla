------------------------- MODULE LockHandlesProofs -------------------------
(***************************************************************************)
(* For any threads, mutexes and handles: no hold is lost or given back     *)
(* twice, and what the handles do to a mutex is what SharedMutex allows.   *)
(*                                                                         *)
(* OneKeeperPerHold counts.  The inductive invariant says the same without *)
(* counting: a hold has a keeper, no two keepers have the same hold, and,  *)
(* since unlock of a unique_lock empties writers[m] whoever is in there,   *)
(* no mutex has two writers.                                               *)
(***************************************************************************)
EXTENDS LockHandles, FiniteSetTheorems, TLAPS

HandleState == [m_ : Mutex \cup {NoMutex}, owns_ : BOOLEAN]

TypeOK ==
  /\ lk \in [Handle -> HandleState \cup {Absent}]
  /\ readers \in [Mutex -> SUBSET Thread] /\ writers \in [Mutex -> SUBSET Thread]
  /\ raw \subseteq Thread \X Mutex \X {Unique, Shared}

(* what a handle keeps *)
Owns(h) == InScope(h) /\ lk[h].owns_
HoldOf(h) == <<ThreadOf[h], lk[h].m_, Kind(h)>>

Holds(t, m, kind) == t \in (IF kind = Unique THEN writers[m] ELSE readers[m])
IsHold(hold) == \E t \in Thread, m \in Mutex, kind \in {Unique, Shared} :
                  hold = <<t, m, kind>> /\ Holds(t, m, kind)

OwnersHaveMutex == \A h \in Handle : Owns(h) => lk[h].m_ \in Mutex
OneWriter == \A m \in Mutex : \A t, u \in writers[m] : t = u
KeepersApart ==
  \A h \in Handle : Owns(h) =>
    HoldOf(h) \notin raw /\ \A g \in Handle : g # h /\ Owns(g) => HoldOf(g) # HoldOf(h)
Kept(hold) == hold \in raw \/ \E h \in Handle : Owns(h) /\ HoldOf(h) = hold
HoldsKept ==
  \A t \in Thread, m \in Mutex, kind \in {Unique, Shared} : Holds(t, m, kind) <=> Kept(<<t, m, kind>>)

IInv == TypeOK /\ OwnersHaveMutex /\ OneWriter /\ KeepersApart /\ HoldsKept

-----------------------------------------------------------------------------
LEMMA HandleFacts ==
  ASSUME IInv, NEW h \in Handle
  PROVE  /\ ThreadOf[h] \in Thread /\ Kind(h) \in {Unique, Shared}
         /\ InScope(h) => lk[h] \in HandleState /\ lk[h] = [m_ |-> lk[h].m_, owns_ |-> lk[h].owns_]
         /\ Owns(h) => lk[h].m_ \in Mutex /\ HoldOf(h) \in Thread \X Mutex \X {Unique, Shared}
         /\ Owns(h) => HoldOf(h) \notin raw /\ Holds(ThreadOf[h], lk[h].m_, Kind(h))
<1>1. ThreadOf[h] \in Thread /\ Kind(h) \in {Unique, Shared}
  BY HandleAssumption DEF Kind
<1>2. InScope(h) => lk[h] \in HandleState /\ lk[h] = [m_ |-> lk[h].m_, owns_ |-> lk[h].owns_]
  BY DEF IInv, TypeOK, InScope, HandleState
<1>3. ASSUME Owns(h) PROVE lk[h].m_ \in Mutex /\ HoldOf(h) \in Thread \X Mutex \X {Unique, Shared}
  BY <1>1, <1>3 DEF IInv, OwnersHaveMutex, HoldOf
<1>4. ASSUME Owns(h) PROVE HoldOf(h) \notin raw /\ Holds(ThreadOf[h], lk[h].m_, Kind(h))
  <2>1. Kept(HoldOf(h)) /\ HoldOf(h) \notin raw
    BY <1>4 DEF IInv, KeepersApart, Kept
  <2> QED  BY <1>1, <1>3, <1>4, <2>1 DEF IInv, HoldsKept, HoldOf
<1> QED  BY <1>1, <1>2, <1>3, <1>4

(* What taking a mutex, and giving it back, do to the holds.               *)
Takes(t, m, kind) == Free(t, m, kind) /\ Hold(t, m, kind)
Gives(t, m, kind) == Holds(t, m, kind) /\ Unhold(t, m, kind)

MutexesOK == /\ readers \in [Mutex -> SUBSET Thread] /\ writers \in [Mutex -> SUBSET Thread]
             /\ OneWriter

LEMMA TakesHold ==
  ASSUME IInv, NEW t \in Thread, NEW m \in Mutex, NEW kind \in {Unique, Shared}, Takes(t, m, kind)
  PROVE  /\ MutexesOK' /\ ~Holds(t, m, kind)
         /\ \A u \in Thread, n \in Mutex, k \in {Unique, Shared} :
              Holds(u, n, k)' <=> Holds(u, n, k) \/ <<u, n, k>> = <<t, m, kind>>
<1>1. readers \in [Mutex -> SUBSET Thread] /\ writers \in [Mutex -> SUBSET Thread] /\ OneWriter
  BY DEF IInv, TypeOK
<1>2. CASE kind = Unique
  BY <1>1, <1>2 DEF Takes, Free, Hold, MutexesOK, OneWriter, Holds
<1>3. CASE kind # Unique
  BY <1>1, <1>3 DEF Takes, Free, Hold, MutexesOK, OneWriter, Holds
<1> QED  BY <1>2, <1>3

LEMMA GivesHold ==
  ASSUME IInv, NEW t \in Thread, NEW m \in Mutex, NEW kind \in {Unique, Shared}, Gives(t, m, kind)
  PROVE  /\ MutexesOK'
         /\ \A u \in Thread, n \in Mutex, k \in {Unique, Shared} :
              Holds(u, n, k)' <=> Holds(u, n, k) /\ <<u, n, k>> # <<t, m, kind>>
<1>1. readers \in [Mutex -> SUBSET Thread] /\ writers \in [Mutex -> SUBSET Thread] /\ OneWriter
  BY DEF IInv, TypeOK
<1>2. CASE kind = Unique
  BY <1>1, <1>2 DEF Gives, Unhold, MutexesOK, OneWriter, Holds
<1>3. CASE kind # Unique
  BY <1>1, <1>3 DEF Gives, Unhold, MutexesOK, OneWriter, Holds
<1> QED  BY <1>2, <1>3

LEMMA SameHolds ==
  ASSUME IInv, UNCHANGED <<readers, writers>>
  PROVE  /\ MutexesOK'
         /\ \A u \in Thread, n \in Mutex, k \in {Unique, Shared} : Holds(u, n, k)' <=> Holds(u, n, k)
BY DEF IInv, TypeOK, MutexesOK, OneWriter, Holds

(* What is left of the handles when one or two of them change.             *)
LEMMA OneChanges ==
  ASSUME IInv, NEW h \in Handle, NEW v \in HandleState \cup {Absent}, lk' = [lk EXCEPT ![h] = v]
  PROVE  /\ lk' \in [Handle -> HandleState \cup {Absent}]
         /\ \A x \in Handle : x # h => (Owns(x)' <=> Owns(x)) /\ lk'[x] = lk[x] /\ HoldOf(x)' = HoldOf(x)
         /\ (Owns(h)' <=> v # Absent /\ v.owns_)
         /\ lk'[h] = v /\ HoldOf(h)' = <<ThreadOf[h], v.m_, Kind(h)>>
BY DEF IInv, TypeOK, Owns, InScope, HoldOf

LEMMA TwoChange ==
  ASSUME IInv, NEW h \in Handle, NEW g \in Handle, SameType(h, g), h # g,
         NEW w \in HandleState \cup {Absent}, lk' = [lk EXCEPT ![h] = lk[g], ![g] = w]
  PROVE  /\ lk' \in [Handle -> HandleState \cup {Absent}]
         /\ \A x \in Handle : x \notin {g, h} =>
              (Owns(x)' <=> Owns(x)) /\ lk'[x] = lk[x] /\ HoldOf(x)' = HoldOf(x)
         /\ (Owns(h)' <=> Owns(g)) /\ lk'[h] = lk[g] /\ HoldOf(h)' = HoldOf(g)
         /\ (Owns(g)' <=> w # Absent /\ w.owns_) /\ lk'[g] = w
         /\ HoldOf(g)' = <<ThreadOf[g], w.m_, Kind(g)>>
BY DEF IInv, TypeOK, Owns, InScope, HoldOf, SameType

LEMMA States ==
  /\ NullHandle \in HandleState /\ ~NullHandle.owns_ /\ Absent \notin HandleState
  /\ \A m \in Mutex : /\ Deferred(m) \in HandleState /\ ~Deferred(m).owns_
                      /\ Owning(m) \in HandleState /\ Owning(m).owns_ /\ Owning(m).m_ = m
BY HandleAssumption DEF NullHandle, Deferred, Owning, HandleState

LEMMA BecomesOwning ==
  ASSUME IInv, NEW h \in Handle, NEW m \in Mutex, lk' = [lk EXCEPT ![h] = Owning(m)]
  PROVE  /\ lk' \in [Handle -> HandleState \cup {Absent}]
         /\ Owns(h)' /\ HoldOf(h)' = <<ThreadOf[h], m, Kind(h)>> /\ lk'[h].m_ = m
         /\ \A x \in Handle : x # h => (Owns(x)' <=> Owns(x)) /\ lk'[x] = lk[x] /\ HoldOf(x)' = HoldOf(x)
<1> DEFINE v == Owning(m)
<1>1. v \in HandleState /\ v # Absent /\ v.owns_ /\ v.m_ = m
  BY States
<1>2. v \in HandleState \cup {Absent} /\ lk' = [lk EXCEPT ![h] = v]
  BY <1>1
<1> HIDE DEF v
<1> QED  BY <1>1, <1>2, OneChanges

-----------------------------------------------------------------------------
(* A handle that owned nothing owns nothing still.                         *)
LEMMA IdleIInv ==
  ASSUME IInv, NEW h \in Handle, NEW v \in HandleState \cup {Absent}, lk' = [lk EXCEPT ![h] = v],
         ~Owns(h), v = Absent \/ ~v.owns_, UNCHANGED <<readers, writers, raw>>
  PROVE  IInv'
<1>1. /\ lk' \in [Handle -> HandleState \cup {Absent}] /\ ~Owns(h)'
      /\ \A x \in Handle : x # h => (Owns(x)' <=> Owns(x)) /\ lk'[x] = lk[x] /\ HoldOf(x)' = HoldOf(x)
  BY OneChanges
<1>2. /\ MutexesOK'
      /\ \A u \in Thread, n \in Mutex, k \in {Unique, Shared} : Holds(u, n, k)' <=> Holds(u, n, k)
  BY SameHolds
<1>3. TypeOK' /\ OneWriter'
  BY <1>1, <1>2 DEF IInv, TypeOK, MutexesOK
<1>4. OwnersHaveMutex' /\ KeepersApart'
  BY <1>1 DEF IInv, OwnersHaveMutex, KeepersApart
<1>5. \A hold : Kept(hold)' <=> Kept(hold)
  BY <1>1 DEF Kept
<1>6. HoldsKept'
  BY <1>2, <1>5 DEF IInv, HoldsKept
<1> QED  BY <1>3, <1>4, <1>6 DEF IInv

(* A handle takes a mutex.                                                 *)
LEMMA TakeIInv ==
  ASSUME IInv, NEW h \in Handle, NEW m \in Mutex, lk' = [lk EXCEPT ![h] = Owning(m)],
         ~Owns(h), Acquire(h, m), UNCHANGED raw
  PROVE  IInv'
<1> DEFINE hold == <<ThreadOf[h], m, Kind(h)>>
<1>1. /\ lk' \in [Handle -> HandleState \cup {Absent}] /\ Owns(h)' /\ HoldOf(h)' = hold /\ lk'[h].m_ = m
      /\ \A x \in Handle : x # h => (Owns(x)' <=> Owns(x)) /\ lk'[x] = lk[x] /\ HoldOf(x)' = HoldOf(x)
  BY BecomesOwning
<1>2. ThreadOf[h] \in Thread /\ Kind(h) \in {Unique, Shared}
  BY HandleFacts
<1>3. /\ MutexesOK' /\ ~Holds(ThreadOf[h], m, Kind(h))
      /\ \A u \in Thread, n \in Mutex, k \in {Unique, Shared} :
           Holds(u, n, k)' <=> Holds(u, n, k) \/ <<u, n, k>> = hold
  BY <1>2, TakesHold DEF Acquire, Takes
<1>4. TypeOK' /\ OneWriter'
  BY <1>1, <1>3 DEF IInv, TypeOK, MutexesOK
<1>5. hold \notin raw /\ \A g \in Handle : Owns(g) => HoldOf(g) # hold
  BY <1>2, <1>3 DEF IInv, HoldsKept, Kept
<1>6. OwnersHaveMutex' /\ KeepersApart'
  BY <1>1, <1>5 DEF IInv, OwnersHaveMutex, KeepersApart
<1> HIDE DEF hold
<1>7. \A x : Kept(x)' <=> Kept(x) \/ x = hold
  BY <1>1 DEF Kept
<1>8. HoldsKept'
  BY <1>3, <1>7 DEF IInv, HoldsKept
<1> QED  BY <1>4, <1>6, <1>8 DEF IInv

LEMMA UnlockOwned ==
  ASSUME IInv, NEW h \in Handle, Owns(h), UnlockIfOwned(h, lk[h].m_)
  PROVE  /\ MutexesOK'
         /\ \A u \in Thread, n \in Mutex, k \in {Unique, Shared} :
              Holds(u, n, k)' <=> Holds(u, n, k) /\ <<u, n, k>> # HoldOf(h)
<1>1. /\ ThreadOf[h] \in Thread /\ lk[h].m_ \in Mutex /\ Kind(h) \in {Unique, Shared}
      /\ Holds(ThreadOf[h], lk[h].m_, Kind(h))
  BY HandleFacts
<1>2. Gives(ThreadOf[h], lk[h].m_, Kind(h))
  BY <1>1 DEF Gives, UnlockIfOwned, Owns
<1> QED  BY <1>1, <1>2, GivesHold DEF HoldOf

(* A handle owns no more: it gives the mutex back if it owned it.          *)
LEMMA GiveIInv ==
  ASSUME IInv, NEW h \in Handle, NEW v \in HandleState \cup {Absent}, lk' = [lk EXCEPT ![h] = v],
         v = Absent \/ ~v.owns_, InScope(h), UnlockIfOwned(h, lk[h].m_), UNCHANGED raw
  PROVE  IInv'
<1>1. CASE ~Owns(h)
  BY <1>1, IdleIInv DEF UnlockIfOwned, Owns
<1>2. CASE Owns(h)
  <2>1. /\ lk' \in [Handle -> HandleState \cup {Absent}] /\ ~Owns(h)'
        /\ \A x \in Handle : x # h => (Owns(x)' <=> Owns(x)) /\ lk'[x] = lk[x] /\ HoldOf(x)' = HoldOf(x)
    BY OneChanges
  <2>2. /\ MutexesOK'
        /\ \A u \in Thread, n \in Mutex, k \in {Unique, Shared} :
             Holds(u, n, k)' <=> Holds(u, n, k) /\ <<u, n, k>> # HoldOf(h)
    BY <1>2, UnlockOwned
  <2>3. TypeOK' /\ OneWriter'
    BY <2>1, <2>2 DEF IInv, TypeOK, MutexesOK
  <2>4. OwnersHaveMutex' /\ KeepersApart'
    BY <2>1 DEF IInv, OwnersHaveMutex, KeepersApart
  <2>5. HoldOf(h) \notin raw /\ \A g \in Handle : g # h /\ Owns(g) => HoldOf(g) # HoldOf(h)
    BY <1>2 DEF IInv, KeepersApart
  <2>6. \A x : Kept(x)' <=> Kept(x) /\ x # HoldOf(h)
    BY <1>2, <2>1, <2>5 DEF Kept
  <2>7. HoldsKept'
    BY <2>2, <2>6 DEF IInv, HoldsKept
  <2> QED  BY <2>3, <2>4, <2>7 DEF IInv
<1> QED  BY <1>1, <1>2

(* What a handle keeps goes to the client code, and back.                  *)
LEMMA ReleaseIInv == ASSUME IInv, NEW h \in Handle, Release(h) PROVE IInv'
<1>1. CASE ~Owns(h)
  BY <1>1, IdleIInv, States DEF Release, Owns
<1>2. CASE Owns(h)
  <2>1. /\ lk' \in [Handle -> HandleState \cup {Absent}] /\ ~Owns(h)'
        /\ \A x \in Handle : x # h => (Owns(x)' <=> Owns(x)) /\ lk'[x] = lk[x] /\ HoldOf(x)' = HoldOf(x)
    BY OneChanges, States DEF Release
  <2>2. /\ MutexesOK'
        /\ \A u \in Thread, n \in Mutex, k \in {Unique, Shared} : Holds(u, n, k)' <=> Holds(u, n, k)
    BY SameHolds DEF Release
  <2>3. raw' = raw \cup {HoldOf(h)} /\ HoldOf(h) \in Thread \X Mutex \X {Unique, Shared}
    BY <1>2, HandleFacts DEF Release, HoldOf, Owns
  <2>4. TypeOK' /\ OneWriter'
    BY <2>1, <2>2, <2>3 DEF IInv, TypeOK, MutexesOK
  <2>5. OwnersHaveMutex' /\ KeepersApart'
    BY <1>2, <2>1, <2>3 DEF IInv, OwnersHaveMutex, KeepersApart
  <2>6. \A x : Kept(x)' <=> Kept(x)
    BY <1>2, <2>1, <2>3 DEF Kept
  <2>7. HoldsKept'
    BY <2>2, <2>6 DEF IInv, HoldsKept
  <2> QED  BY <2>4, <2>5, <2>7 DEF IInv
<1> QED  BY <1>1, <1>2

LEMMA AdoptIInv == ASSUME IInv, NEW h \in Handle, NEW m \in Mutex, AdoptCtor(h, m) PROVE IInv'
<1> DEFINE hold == <<ThreadOf[h], m, Kind(h)>>
<1>1. ~InScope(h) /\ hold \in raw /\ raw' = raw \ {hold} /\ lk' = [lk EXCEPT ![h] = Owning(m)]
  BY DEF AdoptCtor
<1>2. /\ lk' \in [Handle -> HandleState \cup {Absent}] /\ Owns(h)' /\ HoldOf(h)' = hold /\ lk'[h].m_ = m
      /\ \A x \in Handle : x # h => (Owns(x)' <=> Owns(x)) /\ lk'[x] = lk[x] /\ HoldOf(x)' = HoldOf(x)
  BY <1>1, BecomesOwning
<1>3. /\ MutexesOK'
      /\ \A u \in Thread, n \in Mutex, k \in {Unique, Shared} : Holds(u, n, k)' <=> Holds(u, n, k)
  BY SameHolds DEF AdoptCtor
<1>4. ~Owns(h) /\ \A g \in Handle : Owns(g) => HoldOf(g) # hold
  BY <1>1 DEF IInv, KeepersApart, Owns
<1>5. TypeOK' /\ OneWriter'
  BY <1>1, <1>2, <1>3 DEF IInv, TypeOK, MutexesOK
<1>6. OwnersHaveMutex' /\ KeepersApart'
  BY <1>1, <1>2, <1>4 DEF IInv, OwnersHaveMutex, KeepersApart
<1> HIDE DEF hold
<1>7. \A x : Kept(x)' <=> Kept(x)
  BY <1>1, <1>2, <1>4 DEF Kept
<1>8. HoldsKept'
  BY <1>3, <1>7 DEF IInv, HoldsKept
<1> QED  BY <1>5, <1>6, <1>8 DEF IInv

-----------------------------------------------------------------------------
(* A handle takes over what another has.                                   *)
LEMMA MoveCtorIInv == ASSUME IInv, NEW h \in Handle, NEW g \in Handle, MoveCtor(h, g) PROVE IInv'
<1>1. /\ SameType(h, g) /\ ~InScope(h) /\ InScope(g) /\ h # g
      /\ lk' = [lk EXCEPT ![h] = lk[g], ![g] = NullHandle] /\ raw' = raw
  BY DEF MoveCtor
<1>2. /\ lk' \in [Handle -> HandleState \cup {Absent}] /\ ~Owns(g)'
      /\ (Owns(h)' <=> Owns(g)) /\ lk'[h] = lk[g] /\ HoldOf(h)' = HoldOf(g)
      /\ \A x \in Handle : x \notin {g, h} =>
           (Owns(x)' <=> Owns(x)) /\ lk'[x] = lk[x] /\ HoldOf(x)' = HoldOf(x)
  BY <1>1, TwoChange, States
<1>3. /\ MutexesOK'
      /\ \A u \in Thread, n \in Mutex, k \in {Unique, Shared} : Holds(u, n, k)' <=> Holds(u, n, k)
  BY SameHolds DEF MoveCtor
<1>4. ~Owns(h)
  BY <1>1 DEF Owns
<1>5. TypeOK' /\ OneWriter'
  BY <1>1, <1>2, <1>3 DEF IInv, TypeOK, MutexesOK
<1>6. OwnersHaveMutex' /\ KeepersApart'
  BY <1>1, <1>2, <1>4 DEF IInv, OwnersHaveMutex, KeepersApart
<1>7. \A x : Kept(x)' <=> Kept(x)
  BY <1>1, <1>2, <1>4 DEF Kept
<1>8. HoldsKept'
  BY <1>3, <1>7 DEF IInv, HoldsKept
<1> QED  BY <1>5, <1>6, <1>8 DEF IInv

LEMMA MoveAssignIInv == ASSUME IInv, NEW h \in Handle, NEW g \in Handle, MoveAssign(h, g) PROVE IInv'
<1>1. /\ SameType(h, g) /\ InScope(h) /\ InScope(g) /\ h # g
      /\ lk' = [lk EXCEPT ![h] = lk[g], ![g] = NullHandle] /\ raw' = raw
      /\ UnlockIfOwned(h, lk[h].m_)
  BY DEF MoveAssign
<1>2. /\ lk' \in [Handle -> HandleState \cup {Absent}] /\ ~Owns(g)'
      /\ (Owns(h)' <=> Owns(g)) /\ lk'[h] = lk[g] /\ HoldOf(h)' = HoldOf(g)
      /\ \A x \in Handle : x \notin {g, h} =>
           (Owns(x)' <=> Owns(x)) /\ lk'[x] = lk[x] /\ HoldOf(x)' = HoldOf(x)
  BY <1>1, TwoChange, States
<1>3. /\ MutexesOK'
      /\ \A u \in Thread, n \in Mutex, k \in {Unique, Shared} :
           Holds(u, n, k)' <=> Holds(u, n, k) /\ ~ (Owns(h) /\ <<u, n, k>> = HoldOf(h))
  <2>1. CASE Owns(h)
    BY <1>1, <2>1, UnlockOwned
  <2>2. CASE ~Owns(h)
    BY <1>1, <2>2, SameHolds DEF UnlockIfOwned, Owns
  <2> QED  BY <2>1, <2>2
<1>4. TypeOK' /\ OneWriter'
  BY <1>1, <1>2, <1>3 DEF IInv, TypeOK, MutexesOK
<1>5. OwnersHaveMutex' /\ KeepersApart'
  BY <1>1, <1>2 DEF IInv, OwnersHaveMutex, KeepersApart
<1>6. Owns(h) => HoldOf(h) \notin raw /\ \A x \in Handle : x # h /\ Owns(x) => HoldOf(x) # HoldOf(h)
  BY DEF IInv, KeepersApart
<1>7. \A x : Kept(x)' <=> Kept(x) /\ ~ (Owns(h) /\ x = HoldOf(h))
  BY <1>1, <1>2, <1>6 DEF Kept
<1>8. HoldsKept'
  BY <1>3, <1>7 DEF IInv, HoldsKept
<1> QED  BY <1>4, <1>5, <1>8 DEF IInv

LEMMA SwapIInv == ASSUME IInv, NEW h \in Handle, NEW g \in Handle, Swap(h, g) PROVE IInv'
<1>1. /\ SameType(h, g) /\ InScope(h) /\ InScope(g) /\ raw' = raw
      /\ lk' = [lk EXCEPT ![h] = lk[g], ![g] = lk[h]]
  BY DEF Swap
<1>2. /\ MutexesOK'
      /\ \A u \in Thread, n \in Mutex, k \in {Unique, Shared} : Holds(u, n, k)' <=> Holds(u, n, k)
  BY SameHolds DEF Swap
<1>3. CASE h = g
  <2>1. lk' = lk
    BY <1>1, <1>3 DEF IInv, TypeOK
  <2>2. UNCHANGED vars
    BY <2>1 DEF Swap, vars
  <2> QED  BY <2>2 DEF vars, IInv, TypeOK, OwnersHaveMutex, OneWriter, KeepersApart, HoldsKept, Kept,
                Owns, InScope, HoldOf, Holds
<1>4. CASE h # g
  <2>1. /\ lk' \in [Handle -> HandleState \cup {Absent}]
        /\ (Owns(h)' <=> Owns(g)) /\ lk'[h] = lk[g] /\ HoldOf(h)' = HoldOf(g)
        /\ (Owns(g)' <=> Owns(h)) /\ lk'[g] = lk[h] /\ HoldOf(g)' = HoldOf(h)
        /\ \A x \in Handle : x \notin {g, h} =>
             (Owns(x)' <=> Owns(x)) /\ lk'[x] = lk[x] /\ HoldOf(x)' = HoldOf(x)
    <3>1. lk[h] \in HandleState \cup {Absent} /\ (Owns(h) <=> lk[h] # Absent /\ lk[h].owns_)
      BY DEF IInv, TypeOK, Owns, InScope
    <3>2. HoldOf(h) = <<ThreadOf[g], lk[h].m_, Kind(g)>>
      BY <1>1 DEF HoldOf, SameType
    <3> QED  BY <1>1, <1>4, <3>1, <3>2, TwoChange
  <2>2. TypeOK' /\ OneWriter'
    BY <1>1, <1>2, <2>1 DEF IInv, TypeOK, MutexesOK
  <2>3. OwnersHaveMutex' /\ KeepersApart'
    BY <1>1, <1>4, <2>1 DEF IInv, OwnersHaveMutex, KeepersApart
  <2>4. \A x : Kept(x)' <=> Kept(x)
    BY <1>1, <2>1 DEF Kept
  <2>5. HoldsKept'
    BY <1>2, <2>4 DEF IInv, HoldsKept
  <2> QED  BY <2>2, <2>3, <2>5 DEF IInv
<1> QED  BY <1>3, <1>4

-----------------------------------------------------------------------------
(* The client code takes a mutex itself, and gives it back.                *)
LEMMA RawIInv ==
  ASSUME IInv, NEW t \in Thread, NEW m \in Mutex, NEW kind \in {Unique, Shared},
         RawLock(t, m, kind) \/ RawUnlock(t, m, kind)
  PROVE  IInv'
<1> DEFINE hold == <<t, m, kind>>
<1>1. \A x \in Handle : (Owns(x)' <=> Owns(x)) /\ lk'[x] = lk[x] /\ HoldOf(x)' = HoldOf(x)
  BY DEF RawLock, RawUnlock, Owns, InScope, HoldOf
<1>2. CASE RawLock(t, m, kind)
  <2>1. /\ MutexesOK' /\ ~Holds(t, m, kind)
        /\ \A u \in Thread, n \in Mutex, k \in {Unique, Shared} :
             Holds(u, n, k)' <=> Holds(u, n, k) \/ <<u, n, k>> = hold
    BY <1>2, TakesHold DEF RawLock, Takes
  <2>2. raw' = raw \cup {hold} /\ \A g \in Handle : Owns(g) => HoldOf(g) # hold
    BY <1>2, <2>1 DEF RawLock, IInv, HoldsKept, Kept
  <2>3. TypeOK' /\ OneWriter'
    BY <1>2, <2>1, <2>2 DEF RawLock, IInv, TypeOK, MutexesOK
  <2>4. OwnersHaveMutex' /\ KeepersApart'
    BY <1>1, <2>2 DEF IInv, OwnersHaveMutex, KeepersApart
  <2> HIDE DEF hold
  <2>5. \A x : Kept(x)' <=> Kept(x) \/ x = hold
    BY <1>1, <2>2 DEF Kept
  <2>6. HoldsKept'
    BY <2>1, <2>5 DEF IInv, HoldsKept
  <2> QED  BY <2>3, <2>4, <2>6 DEF IInv
<1>3. CASE RawUnlock(t, m, kind)
  <2>1. hold \in raw /\ raw' = raw \ {hold} /\ Holds(t, m, kind)
    BY <1>3 DEF RawUnlock, IInv, HoldsKept, Kept
  <2>2. /\ MutexesOK'
        /\ \A u \in Thread, n \in Mutex, k \in {Unique, Shared} :
             Holds(u, n, k)' <=> Holds(u, n, k) /\ <<u, n, k>> # hold
    BY <1>3, <2>1, GivesHold DEF RawUnlock, Gives
  <2>3. \A g \in Handle : Owns(g) => HoldOf(g) # hold
    BY <2>1 DEF IInv, KeepersApart
  <2>4. TypeOK' /\ OneWriter'
    BY <1>3, <2>1, <2>2 DEF RawUnlock, IInv, TypeOK, MutexesOK
  <2>5. OwnersHaveMutex' /\ KeepersApart'
    BY <1>1, <2>1, <2>3 DEF IInv, OwnersHaveMutex, KeepersApart
  <2> HIDE DEF hold
  <2>6. \A x : Kept(x)' <=> Kept(x) /\ x # hold
    BY <1>1, <2>1, <2>3 DEF Kept
  <2>7. HoldsKept'
    BY <2>2, <2>6 DEF IInv, HoldsKept
  <2> QED  BY <2>4, <2>5, <2>7 DEF IInv
<1> QED  BY <1>2, <1>3

LEMMA InitIInv == ASSUME Init PROVE IInv
<1>1. TypeOK /\ \A h \in Handle : ~Owns(h)
  BY DEF Init, TypeOK, Owns, InScope
<1>2. \A t \in Thread, m \in Mutex, kind \in {Unique, Shared} : ~Holds(t, m, kind)
  BY DEF Init, Holds
<1> QED  BY <1>1, <1>2 DEF Init, IInv, OwnersHaveMutex, OneWriter, KeepersApart, HoldsKept, Kept

LEMMA HandleIInv == ASSUME IInv, NEW h \in Handle, HandleStep(h) PROVE IInv'
<1>1. CASE DefaultCtor(h)
  BY <1>1, IdleIInv, States DEF DefaultCtor, Owns
<1>2. CASE Lock(h)
  <2>1. lk[h] \in HandleState /\ lk[h].m_ \in Mutex
    BY <1>2 DEF Lock, IInv, TypeOK, InScope, HandleState
  <2>2. [lk EXCEPT ![h].owns_ = TRUE] = [lk EXCEPT ![h] = Owning(lk[h].m_)]
    <3> DEFINE v == [lk[h] EXCEPT !.owns_ = TRUE]
    <3>1. v \in HandleState /\ v.m_ = lk[h].m_ /\ v.owns_ = TRUE
      BY <2>1 DEF HandleState
    <3>2. ASSUME NEW s \in HandleState PROVE s = [m_ |-> s.m_, owns_ |-> s.owns_]
      BY DEF HandleState
    <3>3. v = Owning(lk[h].m_)
      BY <3>1, <3>2 DEF Owning
    <3> QED  BY <3>3
  <2> QED  BY <1>2, <2>1, <2>2, TakeIInv DEF Lock, Owns
<1>3. CASE Unlock(h)
  <2>1. lk[h] \in HandleState
    BY <1>3 DEF Unlock, IInv, TypeOK, InScope
  <2>2. PICK v : v = [lk[h] EXCEPT !.owns_ = FALSE]
    OBVIOUS
  <2>3. v \in HandleState /\ ~v.owns_ /\ lk' = [lk EXCEPT ![h] = v]
    BY <1>3, <2>1, <2>2 DEF Unlock, HandleState
  <2> QED  BY <1>3, <2>3, GiveIInv DEF Unlock, UnlockIfOwned
<1>4. CASE Release(h)
  BY <1>4, ReleaseIInv
<1>5. CASE Destructor(h)
  BY <1>5, GiveIInv DEF Destructor
<1>6. ASSUME NEW m \in Mutex, LockCtor(h, m) PROVE IInv'
  BY <1>6, TakeIInv DEF LockCtor, Owns
<1>7. ASSUME NEW m \in Mutex, DeferCtor(h, m) PROVE IInv'
  BY <1>7, IdleIInv, States DEF DeferCtor, Owns
<1>8. ASSUME NEW m \in Mutex, TryToLockCtor(h, m) PROVE IInv'
  <2>1. CASE Acquire(h, m) /\ lk' = [lk EXCEPT ![h] = Owning(m)]
    BY <1>8, <2>1, TakeIInv DEF TryToLockCtor, Owns
  <2>2. CASE lk' = [lk EXCEPT ![h] = Deferred(m)] /\ UNCHANGED <<readers, writers>>
    BY <1>8, <2>2, IdleIInv, States DEF TryToLockCtor, Owns
  <2> QED  BY <1>8, <2>1, <2>2 DEF TryToLockCtor
<1>9. ASSUME NEW m \in Mutex, AdoptCtor(h, m) PROVE IInv'
  BY <1>9, AdoptIInv
<1>10. ASSUME NEW g \in Handle, MoveCtor(h, g) \/ MoveAssign(h, g) \/ Swap(h, g) PROVE IInv'
  BY <1>10, MoveCtorIInv, MoveAssignIInv, SwapIInv
<1> QED
  BY <1>1, <1>2, <1>3, <1>4, <1>5, <1>6, <1>7, <1>8, <1>9, <1>10 DEF HandleStep

LEMMA NextIInv == ASSUME IInv, [Next]_vars PROVE IInv'
<1>1. CASE UniqueLock \/ SharedLock
  BY <1>1, HandleIInv DEF UniqueLock, SharedLock, Handle
<1>2. ASSUME NEW t \in Thread, NEW m \in Mutex, NEW kind \in {Unique, Shared},
             RawLock(t, m, kind) \/ RawUnlock(t, m, kind)
      PROVE  IInv'
  BY <1>2, RawIInv
<1>3. CASE UNCHANGED vars
  BY <1>3 DEF vars, IInv, TypeOK, OwnersHaveMutex, OneWriter, KeepersApart, HoldsKept, Kept,
       Owns, InScope, HoldOf, Holds
<1> QED  BY <1>1, <1>2, <1>3 DEF Next

(* Every hold has one keeper, and a mutex one writer.                      *)
THEOREM Invariance == Spec => []IInv
<1>1. Init => IInv
  BY InitIInv
<1>2. IInv /\ [Next]_vars => IInv'
  BY NextIInv
<1> QED  BY <1>1, <1>2, PTL DEF Spec

-----------------------------------------------------------------------------
(* The handles that own a hold, counted.                                   *)
LEMMA KeepersOf ==
  ASSUME IInv, NEW t \in Thread, NEW m \in Mutex, NEW kind \in {Unique, Shared}
  PROVE  OwningHandles(t, m, kind) = {h \in Handle : Owns(h) /\ HoldOf(h) = <<t, m, kind>>}
<1>1. ASSUME NEW h \in kind
      PROVE  h \in Handle /\ Kind(h) = kind
  BY HandleAssumption DEF Handle, Kind
<1>2. ASSUME NEW h \in Handle, Kind(h) = kind
      PROVE  h \in kind
  BY <1>2 DEF Handle, Kind
<1>3. ASSUME NEW h \in Handle
      PROVE  lk[h] = Owning(m) <=> Owns(h) /\ lk[h].m_ = m
  <2>1. Owning(m) # Absent /\ Owning(m).owns_ /\ Owning(m).m_ = m
    BY States
  <2>2. ASSUME Owns(h), lk[h].m_ = m PROVE lk[h] = Owning(m)
    <3>1. InScope(h) /\ lk[h] \in HandleState /\ lk[h].owns_ = TRUE
      BY <2>2 DEF Owns, IInv, TypeOK, InScope, HandleState
    <3> QED  BY <2>2, <3>1, HandleFacts DEF Owning
  <2> QED  BY <2>1, <2>2 DEF Owns, InScope
<1> QED  BY <1>1, <1>2, <1>3 DEF OwningHandles, HoldOf

LEMMA IInvKeepers == IInv => OneKeeperPerHold
<1> SUFFICES ASSUME IInv, NEW t \in Thread, NEW m \in Mutex, NEW kind \in {Unique, Shared}
             PROVE  Cardinality(OwningHandles(t, m, kind)) + (IF <<t, m, kind>> \in raw THEN 1 ELSE 0)
                    = IF Holds(t, m, kind) THEN 1 ELSE 0
  BY DEF OneKeeperPerHold, Holds
<1> DEFINE hold == <<t, m, kind>>
           owning == {h \in Handle : Owns(h) /\ HoldOf(h) = hold}
<1>1. owning = OwningHandles(t, m, kind)
  BY KeepersOf
<1>2. Holds(t, m, kind) <=> hold \in raw \/ owning # {}
  BY DEF IInv, HoldsKept, Kept
<1>3. \A g, h \in owning : g = h
  BY DEF IInv, KeepersApart
<1>4. owning # {} => hold \notin raw
  BY DEF IInv, KeepersApart
<1> HIDE DEF owning, hold
<1>5. CASE owning = {}
  BY <1>1, <1>2, <1>5, FS_EmptySet DEF hold
<1>6. CASE owning # {}
  <2>1. PICK h : owning = {h}
    BY <1>3, <1>6
  <2> QED  BY <1>1, <1>2, <1>4, <1>6, <2>1, FS_Singleton DEF hold
<1> QED  BY <1>5, <1>6

(* No hold is leaked and none is given back twice.                         *)
THEOREM KeepersCounted == Spec => []OneKeeperPerHold
<1>1. IInv => OneKeeperPerHold
  BY IInvKeepers
<1> QED  BY <1>1, Invariance, PTL

-----------------------------------------------------------------------------
(* To its mutex every call of a handle is a call SharedMutex allows, or no *)
(* call at all.                                                            *)
Called(m) == INSTANCE SharedMutex WITH readers <- readers[m], writers <- writers[m]

LEMMA TakeImplements ==
  ASSUME IInv, NEW t \in Thread, NEW n \in Mutex, NEW kind \in {Unique, Shared}, Takes(t, n, kind),
         NEW m \in Mutex
  PROVE  [Called(m)!Next]_<<readers[m], writers[m]>>
<1>1. CASE m # n
  BY <1>1 DEF Takes, Hold, IInv, TypeOK
<1>2. CASE m = n /\ kind = Unique
  <2>1. Called(m)!AcquireExclusive(t)
    BY <1>2 DEF Takes, Free, Hold, IInv, TypeOK, Called!AcquireExclusive
  <2> QED  BY <2>1 DEF Called!Next
<1>3. CASE m = n /\ kind # Unique
  <2>1. Called(m)!AcquireShared(t)
    BY <1>3 DEF Takes, Free, Hold, IInv, TypeOK, Called!AcquireShared
  <2> QED  BY <2>1 DEF Called!Next
<1> QED  BY <1>1, <1>2, <1>3

LEMMA GiveImplements ==
  ASSUME IInv, NEW t \in Thread, NEW n \in Mutex, NEW kind \in {Unique, Shared}, Gives(t, n, kind),
         NEW m \in Mutex
  PROVE  [Called(m)!Next]_<<readers[m], writers[m]>>
<1>1. CASE m # n
  BY <1>1 DEF Gives, Unhold, IInv, TypeOK
<1>2. CASE m = n /\ kind = Unique
  <2>1. t \in writers[m] /\ writers[m] = {t}
    BY <1>2 DEF Gives, Holds, IInv, TypeOK, OneWriter
  <2>2. Called(m)!ReleaseExclusive(t)
    BY <1>2, <2>1 DEF Gives, Unhold, IInv, TypeOK, Called!ReleaseExclusive
  <2> QED  BY <2>2 DEF Called!Next
<1>3. CASE m = n /\ kind # Unique
  <2>1. Called(m)!ReleaseShared(t)
    BY <1>3 DEF Gives, Holds, Unhold, IInv, TypeOK, Called!ReleaseShared
  <2> QED  BY <2>1 DEF Called!Next
<1> QED  BY <1>1, <1>2, <1>3

Calls == \E t \in Thread, m \in Mutex, kind \in {Unique, Shared} : Takes(t, m, kind) \/ Gives(t, m, kind)

LEMMA HandleCalls ==
  ASSUME IInv, NEW h \in Handle, HandleStep(h)
  PROVE  Calls \/ UNCHANGED <<readers, writers>>
<1>1. ThreadOf[h] \in Thread /\ Kind(h) \in {Unique, Shared}
  BY HandleFacts
<1>2. ASSUME NEW m \in Mutex, Acquire(h, m) PROVE Calls
  BY <1>1, <1>2 DEF Acquire, Takes, Calls
<1>3. ASSUME Owns(h), Unhold(ThreadOf[h], lk[h].m_, Kind(h)) PROVE Calls
  <2>1. lk[h].m_ \in Mutex /\ Holds(ThreadOf[h], lk[h].m_, Kind(h))
    BY <1>3, HandleFacts
  <2> QED  BY <1>1, <1>3, <2>1 DEF Gives, Calls
<1>4. ASSUME InScope(h), UnlockIfOwned(h, lk[h].m_) PROVE Calls \/ UNCHANGED <<readers, writers>>
  BY <1>3, <1>4 DEF UnlockIfOwned, Owns
<1>5. CASE Lock(h)
  <2>1. lk[h].m_ \in Mutex
    BY <1>5 DEF Lock, IInv, TypeOK, InScope, HandleState
  <2> QED  BY <1>2, <1>5, <2>1 DEF Lock
<1>6. CASE Unlock(h) \/ Destructor(h)
  BY <1>3, <1>4, <1>6 DEF Unlock, Destructor, Owns
<1>7. CASE DefaultCtor(h) \/ Release(h)
  BY <1>7 DEF DefaultCtor, Release
<1>8. ASSUME NEW m \in Mutex, LockCtor(h, m) \/ DeferCtor(h, m) \/ TryToLockCtor(h, m) \/ AdoptCtor(h, m)
      PROVE  Calls \/ UNCHANGED <<readers, writers>>
  BY <1>2, <1>8 DEF LockCtor, DeferCtor, TryToLockCtor, AdoptCtor
<1>9. ASSUME NEW g \in Handle, MoveCtor(h, g) \/ MoveAssign(h, g) \/ Swap(h, g)
      PROVE  Calls \/ UNCHANGED <<readers, writers>>
  BY <1>4, <1>9 DEF MoveCtor, MoveAssign, Swap
<1> QED  BY <1>5, <1>6, <1>7, <1>8, <1>9 DEF HandleStep

LEMMA NextCalls == ASSUME IInv, [Next]_vars PROVE Calls \/ UNCHANGED <<readers, writers>>
<1>1. CASE UniqueLock \/ SharedLock
  BY <1>1, HandleCalls DEF UniqueLock, SharedLock, Handle
<1>2. ASSUME NEW t \in Thread, NEW m \in Mutex, NEW kind \in {Unique, Shared}, RawLock(t, m, kind)
      PROVE  Calls
  BY <1>2 DEF RawLock, Takes, Calls
<1>3. ASSUME NEW t \in Thread, NEW m \in Mutex, NEW kind \in {Unique, Shared}, RawUnlock(t, m, kind)
      PROVE  Calls
  <2>1. Holds(t, m, kind)
    BY <1>3 DEF RawUnlock, IInv, HoldsKept, Kept
  <2> QED  BY <1>3, <2>1 DEF RawUnlock, Gives, Calls
<1>4. CASE UNCHANGED vars
  BY <1>4 DEF vars
<1> QED  BY <1>1, <1>2, <1>3, <1>4 DEF Next

(* Whatever the threads do with their handles, each mutex sees a sequence  *)
(* of calls its specification allows: none is unlocked by a thread that    *)
(* does not hold it, although unlock does not look who calls it.           *)
THEOREM ImplementsSharedMutex == \A m \in Mutex : Spec => Called(m)!Spec
<1> SUFFICES ASSUME NEW m \in Mutex PROVE Spec => Called(m)!Spec
  OBVIOUS
<1>1. Init => Called(m)!Init
  BY DEF Init, Called!Init
<1>2. IInv /\ [Next]_vars => [Called(m)!Next]_<<readers[m], writers[m]>>
  <2> SUFFICES ASSUME IInv, [Next]_vars PROVE [Called(m)!Next]_<<readers[m], writers[m]>>
    OBVIOUS
  <2>1. CASE Calls
    BY <2>1, TakeImplements, GiveImplements DEF Calls
  <2>2. CASE UNCHANGED <<readers, writers>>
    BY <2>2
  <2> QED  BY <2>1, <2>2, NextCalls
<1> QED  BY <1>1, <1>2, Invariance, PTL DEF Spec, Called!Spec
=============================================================================

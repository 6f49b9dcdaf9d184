------------------------ MODULE SharedMutexV1Proofs ------------------------
(***************************************************************************)
(* For any finite set of threads, shared_mutex_v1 excludes, has no race on *)
(* its counter, releases no semaphore twice, and implements SharedMutex.   *)
(*                                                                         *)
(* The inductive invariant says who holds each semaphore.  turnstile_ and  *)
(* reader_ are 0 exactly while one thread is between acquiring and         *)
(* releasing them.  resource_ is 0 exactly while a writer is in or the     *)
(* group of readers owns it: the first reader acquires it for the group    *)
(* and the last one, another thread in general, releases it, which is what *)
(* num_readers_ is for.                                                    *)
(***************************************************************************)
EXTENDS SharedMutexV1, FiniteSetTheorems, TLAPS

TurnstileLabel ==
  {"lk_resource", "writer", "ul_turnstile", "tl_resource", "tl_backout", "ls_pass", "ts_pass"}

ReaderLabel ==
  {"ls_count", "ls_resource", "ls_done", "ts_check", "ts_count", "ts_done", "ts_fail",
   "us_count", "us_resource", "us_done"}

CountedLabel == {"ls_resource", "ls_done", "ts_done", "reader", "us_count"}

SharedLabel == {"ls_done", "ts_count", "ts_done", "reader", "us_count", "us_resource"}

At(labels) == {t \in Thread : pc[t] \in labels}

(* A binary semaphore: 0 exactly while it has a holder, and only one.      *)
Guarded(sem, holders) ==
  /\ sem = IF holders = {} THEN 1 ELSE 0
  /\ \A t, u \in holders : t = u

TurnstileGuarded == Guarded(turnstile, At(TurnstileLabel))

ReaderGuarded == Guarded(reader, At(ReaderLabel))

ReadersCounted == num_readers = Cardinality(At(CountedLabel))

(* resource_ belongs to a writer or to the group of readers.               *)
ResourceOwned ==
  /\ resource = IF At(SharedLabel) = {} /\ At({"writer"}) = {} THEN 1 ELSE 0
  /\ At(SharedLabel) = {} \/ At({"writer"}) = {}

(* The reader about to acquire resource_ is the first, the one about to    *)
(* release it was the last.                                                *)
FirstAndLast ==
  /\ \A t \in At({"ls_resource"}) : At(CountedLabel) = {t}
  /\ At({"us_resource"}) # {} => At(CountedLabel) = {}

IInv == TypeOK /\ TurnstileGuarded /\ ReaderGuarded /\ ReadersCounted /\ ResourceOwned /\ FirstAndLast

-----------------------------------------------------------------------------
LEMMA CountType ==
  ASSUME NEW S \in SUBSET Thread
  PROVE  IsFiniteSet(S) /\ Cardinality(S) \in Nat /\ (Cardinality(S) = 0 <=> S = {})
  BY ThreadAssumption, FS_Subset, FS_CardinalityType, FS_EmptySet

(* num_readers_ counts a thread that joins the counted ones or leaves them. *)
LEMMA CountEnter ==
  ASSUME NEW S \in SUBSET Thread, NEW t \in Thread, t \notin S
  PROVE  Cardinality(S \cup {t}) = Cardinality(S) + 1
  BY CountType, FS_AddElement

LEMMA CountLeave ==
  ASSUME NEW S \in SUBSET Thread, NEW t \in S
  PROVE  Cardinality(S \ {t}) = Cardinality(S) - 1
  BY CountType, FS_RemoveElement

(* Acquiring a semaphore makes the thread its holder; its holder releases. *)
LEMMA GuardAcquire ==
  ASSUME NEW sem, NEW H, NEW t, Guarded(sem, H), sem = 1
  PROVE  Guarded(0, H \cup {t})
  BY DEF Guarded

LEMMA GuardRelease ==
  ASSUME NEW sem, NEW H, NEW t \in H, Guarded(sem, H)
  PROVE  Guarded(sem + 1, H \ {t})
  BY DEF Guarded

(* A step of thread t moves t, and nobody else, between sets of labels.    *)
LEMMA GotoMoves ==
  ASSUME TypeOK, NEW t \in Thread, NEW from \in Label, NEW to \in Label, Goto(t, from, to),
         NEW L
  PROVE  At(L)' = IF to \in L THEN At(L) \cup {t} ELSE At(L) \ {t}
  BY DEF TypeOK, Goto, At

LEMMA GotoType ==
  ASSUME TypeOK, NEW t \in Thread, NEW from \in Label, NEW to \in Label, Goto(t, from, to)
  PROVE  /\ pc' \in [Thread -> Label]
         /\ \A L : t \in At(L) <=> from \in L
  BY DEF TypeOK, Goto, At

LEMMA InitIInv == Init => IInv
<1> SUFFICES ASSUME Init PROVE IInv
  OBVIOUS
<1>1. \A L : "idle" \notin L => At(L) = {}
  BY DEF Init, At
<1>2. TypeOK
  BY DEF Init, TypeOK, Label
<1> QED
  BY <1>1, <1>2, FS_EmptySet DEF Init, IInv, TurnstileGuarded, ReaderGuarded, Guarded,
     ReadersCounted, ResourceOwned, FirstAndLast, TurnstileLabel, ReaderLabel,
     CountedLabel, SharedLabel

-----------------------------------------------------------------------------
(* Steps that leave resource_ and the counter alone: what a thread does to *)
(* turnstile_ and reader_ on its way in and out.                           *)
LEMMA GateStep ==
  ASSUME IInv, NEW t \in Thread, NEW from \in Label, NEW to \in Label, Goto(t, from, to),
         UNCHANGED <<resource, num_readers>>,
         {from, to} \cap {"ls_resource", "us_resource", "writer"} = {},
         from \in CountedLabel <=> to \in CountedLabel,
         from \in SharedLabel <=> to \in SharedLabel,
         \/ from \notin TurnstileLabel /\ to \in TurnstileLabel /\ Acquire(turnstile)
         \/ from \in TurnstileLabel /\ to \notin TurnstileLabel /\ Release(turnstile)
         \/ (from \in TurnstileLabel <=> to \in TurnstileLabel) /\ UNCHANGED turnstile,
         \/ from \notin ReaderLabel /\ to \in ReaderLabel /\ Acquire(reader)
         \/ from \in ReaderLabel /\ to \notin ReaderLabel /\ Release(reader)
         \/ (from \in ReaderLabel <=> to \in ReaderLabel) /\ UNCHANGED reader
  PROVE  IInv'
<1> USE DEF IInv
<1>0. \A L : At(L)' = IF to \in L THEN At(L) \cup {t} ELSE At(L) \ {t}
  BY GotoMoves
<1>1. pc' \in [Thread -> Label] /\ \A L : t \in At(L) <=> from \in L
  BY GotoType
<1>2. TurnstileGuarded'
  <2>1. CASE to \in TurnstileLabel /\ Acquire(turnstile)
    BY <1>0, <2>1, GuardAcquire DEF TurnstileGuarded, Acquire
  <2>2. CASE from \in TurnstileLabel /\ to \notin TurnstileLabel /\ Release(turnstile)
    BY <1>0, <1>1, <2>2, GuardRelease DEF TurnstileGuarded, Release
  <2>3. CASE (from \in TurnstileLabel <=> to \in TurnstileLabel) /\ UNCHANGED turnstile
    <3>1. At(TurnstileLabel)' = At(TurnstileLabel)
      BY <1>0, <1>1, <2>3
    <3> QED
      BY <2>3, <3>1 DEF TurnstileGuarded
  <2> QED
    BY <2>1, <2>2, <2>3
<1>3. ReaderGuarded'
  <2>1. CASE to \in ReaderLabel /\ Acquire(reader)
    BY <1>0, <2>1, GuardAcquire DEF ReaderGuarded, Acquire
  <2>2. CASE from \in ReaderLabel /\ to \notin ReaderLabel /\ Release(reader)
    BY <1>0, <1>1, <2>2, GuardRelease DEF ReaderGuarded, Release
  <2>3. CASE (from \in ReaderLabel <=> to \in ReaderLabel) /\ UNCHANGED reader
    <3>1. At(ReaderLabel)' = At(ReaderLabel)
      BY <1>0, <1>1, <2>3
    <3> QED
      BY <2>3, <3>1 DEF ReaderGuarded
  <2> QED
    BY <2>1, <2>2, <2>3
<1>4. \A L \in {CountedLabel, SharedLabel, {"writer"}, {"ls_resource"}, {"us_resource"}} :
        At(L)' = At(L)
  <2>1. \A L : (from \in L <=> to \in L) => At(L)' = At(L)
    BY <1>0, <1>1
  <2>2. from # "ls_resource" /\ from # "us_resource" /\ from # "writer"
        /\ to # "ls_resource" /\ to # "us_resource" /\ to # "writer"
    OBVIOUS
  <2>3. \A L \in {CountedLabel, SharedLabel, {"writer"}, {"ls_resource"}, {"us_resource"}} :
          from \in L <=> to \in L
    BY <2>2
  <2> QED
    BY <2>1, <2>3
<1>5. ReadersCounted' /\ ResourceOwned' /\ FirstAndLast'
  BY <1>4 DEF ReadersCounted, ResourceOwned, FirstAndLast
<1>6. TypeOK'
  BY <1>1, <1>2, <1>3 DEF TypeOK, TurnstileGuarded, ReaderGuarded, Guarded
<1> QED
  BY <1>2, <1>3, <1>5, <1>6

(* A writer takes resource_, or gives it back.                             *)
LEMMA WriterStep ==
  ASSUME IInv, NEW t \in Thread, NEW from \in Label, NEW to \in Label, Goto(t, from, to),
         UNCHANGED <<turnstile, reader, num_readers>>,
         \/ from \in {"lk_resource", "tl_resource"} /\ to = "writer" /\ Acquire(resource)
         \/ from = "writer" /\ to = "ul_turnstile" /\ Release(resource)
  PROVE  IInv'
<1> USE DEF IInv
<1>0. \A L : At(L)' = IF to \in L THEN At(L) \cup {t} ELSE At(L) \ {t}
  BY GotoMoves
<1>1. pc' \in [Thread -> Label] /\ \A L : t \in At(L) <=> from \in L
  BY GotoType
<1>2. \A L \in {TurnstileLabel, ReaderLabel, CountedLabel, SharedLabel, {"ls_resource"}, {"us_resource"}} :
        At(L)' = At(L)
  BY <1>0, <1>1 DEF TurnstileLabel, ReaderLabel, CountedLabel, SharedLabel
<1>3. TurnstileGuarded' /\ ReaderGuarded' /\ ReadersCounted' /\ FirstAndLast'
  BY <1>2 DEF TurnstileGuarded, ReaderGuarded, ReadersCounted, FirstAndLast
<1>4. ResourceOwned'
  <2>1. CASE from \in {"lk_resource", "tl_resource"} /\ to = "writer" /\ Acquire(resource)
    <3>1. At({"writer"})' = {t} \cup At({"writer"})
      BY <1>0, <2>1
    <3> QED
      BY <1>2, <2>1, <3>1 DEF ResourceOwned, Acquire
  <2>2. CASE from = "writer" /\ to = "ul_turnstile" /\ Release(resource)
    <3>1. t \in At({"writer"}) /\ At({"writer"})' = At({"writer"}) \ {t}
      BY <1>0, <1>1, <2>2
    <3>2. \A u \in At({"writer"}) : u = t
      BY <3>1 DEF TurnstileGuarded, Guarded, At, TurnstileLabel
    <3>3. At({"writer"})' = {}
      BY <3>1, <3>2
    <3> QED
      BY <1>2, <2>2, <3>1, <3>3 DEF ResourceOwned, Release
  <2> QED
    BY <2>1, <2>2
<1>5. TypeOK'
  BY <1>1, <1>4 DEF TypeOK, ResourceOwned
<1> QED
  BY <1>3, <1>4, <1>5

-----------------------------------------------------------------------------
(* A counted reader is in the group that owns resource_, unless it is the  *)
(* first one, about to acquire it; and conversely.                         *)
LEMMA CountedShared ==
  ASSUME IInv, NEW t \in Thread, pc[t] \in ReaderLabel
  PROVE  /\ At(CountedLabel) \ {t} = At(SharedLabel) \ {t}
         /\ num_readers = 0 <=> At(CountedLabel) = {}
<1>1. \A u \in Thread : u # t => pc[u] \notin ReaderLabel
  BY DEF IInv, ReaderGuarded, Guarded, At
<1>2. \A u \in Thread : u # t => (pc[u] \in CountedLabel <=> pc[u] \in SharedLabel)
  BY <1>1 DEF ReaderLabel, CountedLabel, SharedLabel
<1>3. At(CountedLabel) \ {t} = At(SharedLabel) \ {t}
  BY <1>2 DEF At
<1> QED
  BY <1>3, CountType DEF IInv, ReadersCounted, At

(* What the steps below, taken with reader_ held, have in common: the      *)
(* semaphores turnstile_ and reader_ keep their holders, and no other      *)
(* thread is about to acquire or release resource_ for the group.          *)
InnerStepFacts(t, from, to) ==
  /\ TurnstileGuarded' /\ ReaderGuarded'
  /\ At({"writer"})' = At({"writer"})
  /\ At({"ls_resource"})' = IF to = "ls_resource" THEN {t} ELSE {}
  /\ At({"us_resource"})' = IF to = "us_resource" THEN {t} ELSE {}
  /\ \A L : At(L)' = IF to \in L THEN At(L) \cup {t} ELSE At(L) \ {t}
  /\ \A L : t \in At(L) <=> from \in L
  /\ pc' \in [Thread -> Label]
  /\ At(CountedLabel) \ {t} = At(SharedLabel) \ {t}
  /\ num_readers = 0 <=> At(CountedLabel) = {}

LEMMA InnerStep ==
  ASSUME IInv, NEW t \in Thread, NEW from \in ReaderLabel, NEW to \in ReaderLabel,
         Goto(t, from, to), UNCHANGED <<turnstile, reader>>
  PROVE  InnerStepFacts(t, from, to)
<1> USE DEF IInv
<1>1. from \in Label /\ to \in Label
  BY DEF ReaderLabel, Label
<1>2. /\ \A L : At(L)' = IF to \in L THEN At(L) \cup {t} ELSE At(L) \ {t}
      /\ pc' \in [Thread -> Label] /\ \A L : t \in At(L) <=> from \in L
  BY <1>1, GotoMoves, GotoType
<1>3. At(TurnstileLabel)' = At(TurnstileLabel) /\ At({"writer"})' = At({"writer"})
  BY <1>2 DEF ReaderLabel, TurnstileLabel
<1>4. At(ReaderLabel)' = At(ReaderLabel)
  BY <1>2
<1>5. At({"ls_resource"})' = (IF to = "ls_resource" THEN {t} ELSE {})
      /\ At({"us_resource"})' = (IF to = "us_resource" THEN {t} ELSE {})
  <2>1. At({"ls_resource"}) \subseteq {t} /\ At({"us_resource"}) \subseteq {t}
    BY DEF Goto, ReaderGuarded, Guarded, At, ReaderLabel
  <2> QED
    BY <1>2, <2>1
<1>6. /\ At(CountedLabel) \ {t} = At(SharedLabel) \ {t}
      /\ num_readers = 0 <=> At(CountedLabel) = {}
  BY CountedShared DEF Goto
<1> QED
  BY <1>2, <1>3, <1>4, <1>5, <1>6 DEF TurnstileGuarded, ReaderGuarded, InnerStepFacts

(* lock_shared counts its reader: the first one goes on to resource_, the  *)
(* others join a group that owns it.                                       *)
LEMMA LockSharedCountStep ==
  ASSUME IInv, NEW t \in Thread, LockSharedCount(t)
  PROVE  IInv'
<1> USE DEF IInv
<1> DEFINE to == IF num_readers' = 1 THEN "ls_resource" ELSE "ls_done"
<1>1. Goto(t, "ls_count", to) /\ num_readers' = num_readers + 1
      /\ UNCHANGED <<turnstile, resource, reader>>
  BY DEF LockSharedCount
<1>2. InnerStepFacts(t, "ls_count", to)
  BY <1>1, InnerStep DEF ReaderLabel
<1> HIDE DEF to
<1>3. to \in {"ls_resource", "ls_done"} /\ (to = "ls_resource" <=> num_readers = 0)
  BY <1>1 DEF to, TypeOK
<1>4. t \notin At(CountedLabel) /\ t \notin At(SharedLabel)
  BY <1>2 DEF InnerStepFacts, CountedLabel, SharedLabel
<1>5. At(CountedLabel)' = At(CountedLabel) \cup {t}
  BY <1>2, <1>3 DEF InnerStepFacts, CountedLabel
<1>6. ReadersCounted'
  BY <1>1, <1>4, <1>5, CountEnter DEF ReadersCounted, At
<1>7. TypeOK'
  BY <1>1, <1>2 DEF InnerStepFacts, TypeOK
<1>8. FirstAndLast'
  BY <1>2, <1>3, <1>5 DEF InnerStepFacts, FirstAndLast
<1>9. ResourceOwned'
  BY <1>1, <1>2, <1>3, <1>4 DEF InnerStepFacts, ResourceOwned, SharedLabel
<1> QED
  BY <1>2, <1>6, <1>7, <1>8, <1>9 DEF InnerStepFacts

(* The first reader gets resource_ for the group.                          *)
LEMMA LockSharedResourceStep ==
  ASSUME IInv, NEW t \in Thread, LockSharedResource(t)
  PROVE  IInv'
<1> USE DEF IInv
<1>1. Goto(t, "ls_resource", "ls_done") /\ Acquire(resource)
      /\ UNCHANGED <<turnstile, reader, num_readers>>
  BY DEF LockSharedResource
<1>2. InnerStepFacts(t, "ls_resource", "ls_done")
  BY <1>1, InnerStep DEF ReaderLabel
<1>3. At(CountedLabel)' = At(CountedLabel)
  <2>1. t \in At(CountedLabel) /\ At(CountedLabel)' = At(CountedLabel) \cup {t}
    BY <1>2 DEF InnerStepFacts, CountedLabel
  <2> QED
    BY <2>1
<1>4. At(SharedLabel)' # {}
  BY <1>2 DEF InnerStepFacts, SharedLabel
<1>5. ReadersCounted' /\ FirstAndLast'
  BY <1>1, <1>2, <1>3 DEF InnerStepFacts, ReadersCounted, FirstAndLast
<1>6. ResourceOwned' /\ TypeOK'
  BY <1>1, <1>2, <1>4 DEF InnerStepFacts, ResourceOwned, Acquire, TypeOK
<1> QED
  BY <1>2, <1>5, <1>6 DEF InnerStepFacts

(* try_lock_shared joins a group that has counted readers, or acquires     *)
(* resource_ for a new one.                                                *)
LEMMA TryLockSharedCheckStep ==
  ASSUME IInv, NEW t \in Thread, TryLockSharedCheck(t), pc'[t] = "ts_count"
  PROVE  IInv'
<1> USE DEF IInv
<1>1. Goto(t, "ts_check", "ts_count") /\ UNCHANGED <<turnstile, reader, num_readers>>
      /\ ((num_readers > 0 /\ UNCHANGED resource) \/ Acquire(resource))
  BY DEF TryLockSharedCheck, TryAcquire, Goto, TypeOK
<1>2. InnerStepFacts(t, "ts_check", "ts_count")
  BY <1>1, InnerStep DEF ReaderLabel
<1>3. At(CountedLabel)' = At(CountedLabel) /\ t \notin At(CountedLabel)
  BY <1>2 DEF InnerStepFacts, CountedLabel
<1>4. At(SharedLabel)' = At(SharedLabel) \cup {t} /\ t \notin At(SharedLabel)
  BY <1>2 DEF InnerStepFacts, SharedLabel
<1>5. ReadersCounted' /\ FirstAndLast'
  BY <1>1, <1>2, <1>3 DEF InnerStepFacts, ReadersCounted, FirstAndLast
<1>6. ResourceOwned' /\ TypeOK'
  <2>1. CASE num_readers > 0 /\ UNCHANGED resource
    <3>1. At(SharedLabel) # {}
      BY <1>2, <1>3, <2>1 DEF InnerStepFacts
    <3> QED
      BY <1>1, <1>2, <1>4, <2>1, <3>1 DEF InnerStepFacts, ResourceOwned, TypeOK
  <2>2. CASE Acquire(resource)
    BY <1>1, <1>2, <1>4, <2>2 DEF InnerStepFacts, ResourceOwned, Acquire, TypeOK
  <2> QED
    BY <1>1, <2>1, <2>2
<1> QED
  BY <1>2, <1>5, <1>6 DEF InnerStepFacts

LEMMA TryLockSharedCountStep ==
  ASSUME IInv, NEW t \in Thread, TryLockSharedCount(t)
  PROVE  IInv'
<1> USE DEF IInv
<1>1. Goto(t, "ts_count", "ts_done") /\ num_readers' = num_readers + 1
      /\ UNCHANGED <<turnstile, resource, reader>>
  BY DEF TryLockSharedCount
<1>2. InnerStepFacts(t, "ts_count", "ts_done")
  BY <1>1, InnerStep DEF ReaderLabel
<1>3. At(CountedLabel)' = At(CountedLabel) \cup {t} /\ t \notin At(CountedLabel)
  BY <1>2 DEF InnerStepFacts, CountedLabel
<1>4. At(SharedLabel)' = At(SharedLabel)
  BY <1>2 DEF InnerStepFacts, SharedLabel
<1>5. ReadersCounted'
  BY <1>1, <1>3, CountEnter DEF ReadersCounted, At
<1>6. FirstAndLast' /\ ResourceOwned' /\ TypeOK'
  BY <1>1, <1>2, <1>4 DEF InnerStepFacts, FirstAndLast, ResourceOwned, TypeOK
<1> QED
  BY <1>2, <1>5, <1>6 DEF InnerStepFacts

(* unlock_shared uncounts its reader: the last one goes on to resource_,   *)
(* the others leave a group that still owns it.                            *)
LEMMA UnlockSharedCountStep ==
  ASSUME IInv, NEW t \in Thread, UnlockSharedCount(t)
  PROVE  IInv'
<1> USE DEF IInv
<1> DEFINE to == IF num_readers' = 0 THEN "us_resource" ELSE "us_done"
<1>1. Goto(t, "us_count", to) /\ num_readers' = num_readers - 1
      /\ UNCHANGED <<turnstile, resource, reader>>
  BY DEF UnlockSharedCount
<1>2. InnerStepFacts(t, "us_count", to)
  BY <1>1, InnerStep DEF ReaderLabel
<1> HIDE DEF to
<1>3. to \in {"us_resource", "us_done"} /\ (to = "us_resource" <=> num_readers' = 0)
  BY DEF to
<1>4. t \in At(CountedLabel) /\ t \in At(SharedLabel)
  BY <1>2 DEF InnerStepFacts, CountedLabel, SharedLabel
<1>5. At(CountedLabel)' = At(CountedLabel) \ {t}
  BY <1>2, <1>3 DEF InnerStepFacts, CountedLabel
<1>6. ReadersCounted' /\ num_readers' \in Nat /\ (num_readers' = 0 <=> At(CountedLabel)' = {})
  <2>1. At(CountedLabel) \in SUBSET Thread /\ At(CountedLabel)' \in SUBSET Thread
    BY <1>5 DEF At
  <2>2. num_readers' = Cardinality(At(CountedLabel)')
    BY <1>1, <1>4, <1>5, <2>1, CountLeave DEF ReadersCounted
  <2> QED
    BY <2>1, <2>2, CountType DEF ReadersCounted
<1>7. TypeOK'
  BY <1>1, <1>2, <1>6 DEF InnerStepFacts, TypeOK
<1>8. FirstAndLast'
  BY <1>2, <1>3, <1>6 DEF InnerStepFacts, FirstAndLast
<1>9. ResourceOwned'
  <2>1. At(SharedLabel)' # {}
    BY <1>2, <1>3, <1>4, <1>5, <1>6 DEF InnerStepFacts, SharedLabel
  <2> QED
    BY <1>1, <1>2, <1>4, <2>1 DEF InnerStepFacts, ResourceOwned
<1> QED
  BY <1>2, <1>6, <1>7, <1>8, <1>9 DEF InnerStepFacts

(* The last reader gives resource_ back: it is alone in the group.         *)
LEMMA UnlockSharedResourceStep ==
  ASSUME IInv, NEW t \in Thread, UnlockSharedResource(t)
  PROVE  IInv'
<1> USE DEF IInv
<1>1. Goto(t, "us_resource", "us_done") /\ Release(resource)
      /\ UNCHANGED <<turnstile, reader, num_readers>>
  BY DEF UnlockSharedResource
<1>2. InnerStepFacts(t, "us_resource", "us_done")
  BY <1>1, InnerStep DEF ReaderLabel
<1>3. At(CountedLabel) = {} /\ At(CountedLabel)' = At(CountedLabel)
  BY <1>2 DEF InnerStepFacts, CountedLabel, FirstAndLast
<1>4. t \in At(SharedLabel) /\ At(SharedLabel)' = {}
  BY <1>2, <1>3 DEF InnerStepFacts, SharedLabel
<1>5. ReadersCounted' /\ FirstAndLast'
  BY <1>1, <1>2, <1>3 DEF InnerStepFacts, ReadersCounted, FirstAndLast
<1>6. ResourceOwned' /\ TypeOK'
  BY <1>1, <1>2, <1>4 DEF InnerStepFacts, ResourceOwned, Release, TypeOK
<1> QED
  BY <1>2, <1>5, <1>6 DEF InnerStepFacts

-----------------------------------------------------------------------------
(* The steps of the six calls, one by one.                                 *)
LEMMA StepStep ==
  ASSUME IInv, NEW t \in Thread, Call(t) \/ Step(t)
  PROVE  IInv'
<1> USE DEF Label, EntryPoint, TurnstileLabel, ReaderLabel, CountedLabel, SharedLabel
<1>1. CASE Call(t)
  <2>1. PICK entry \in EntryPoint : Goto(t, "idle", entry)
    BY <1>1 DEF Call
  <2> QED
    BY <1>1, <2>1, GateStep DEF Call
<1>2. CASE Lock(t)
  <2>1. CASE LockTurnstile(t)
    BY <2>1, GateStep DEF LockTurnstile
  <2>2. CASE LockResource(t)
    BY <2>2, WriterStep DEF LockResource
  <2> QED
    BY <1>2, <2>1, <2>2 DEF Lock
<1>3. CASE TryLock(t)
  <2>1. CASE TryLockTurnstile(t)
    BY <2>1, GateStep DEF TryLockTurnstile, TryAcquire
  <2>2. CASE TryLockResource(t)
    <3>1. CASE Goto(t, "tl_resource", "writer") /\ Acquire(resource)
      BY <2>2, <3>1, WriterStep DEF TryLockResource
    <3>2. CASE Goto(t, "tl_resource", "tl_backout") /\ UNCHANGED resource
      BY <2>2, <3>2, GateStep DEF TryLockResource
    <3> QED
      BY <2>2, <3>1, <3>2 DEF TryLockResource, TryAcquire
  <2>3. CASE TryLockBackout(t)
    BY <2>3, GateStep DEF TryLockBackout
  <2> QED
    BY <1>3, <2>1, <2>2, <2>3 DEF TryLock
<1>4. CASE Unlock(t)
  <2>1. CASE UnlockResource(t)
    BY <2>1, WriterStep DEF UnlockResource
  <2>2. CASE UnlockTurnstile(t)
    BY <2>2, GateStep DEF UnlockTurnstile
  <2> QED
    BY <1>4, <2>1, <2>2 DEF Unlock
<1>5. CASE LockShared(t)
  <2>1. CASE LockSharedTurnstile(t)
    BY <2>1, GateStep DEF LockSharedTurnstile
  <2>2. CASE LockSharedPass(t)
    BY <2>2, GateStep DEF LockSharedPass
  <2>3. CASE LockSharedReader(t)
    BY <2>3, GateStep DEF LockSharedReader
  <2>4. CASE LockSharedDone(t)
    BY <2>4, GateStep DEF LockSharedDone
  <2> QED
    BY <1>5, <2>1, <2>2, <2>3, <2>4, LockSharedCountStep, LockSharedResourceStep DEF LockShared
<1>6. CASE TryLockShared(t)
  <2>1. CASE TryLockSharedTurnstile(t)
    BY <2>1, GateStep DEF TryLockSharedTurnstile, TryAcquire
  <2>2. CASE TryLockSharedPass(t)
    BY <2>2, GateStep DEF TryLockSharedPass
  <2>3. CASE TryLockSharedReader(t)
    BY <2>3, GateStep DEF TryLockSharedReader, TryAcquire
  <2>4. CASE TryLockSharedCheck(t) /\ pc'[t] # "ts_count"
    <3>1. Goto(t, "ts_check", "ts_fail")
      BY <2>4 DEF TryLockSharedCheck, TryAcquire, Goto, IInv, TypeOK
    <3>2. UNCHANGED <<turnstile, resource, reader, num_readers>>
      BY <2>4 DEF TryLockSharedCheck, TryAcquire, Goto, IInv, TypeOK
    <3> QED
      BY <3>1, <3>2, GateStep
  <2>5. CASE TryLockSharedDone(t)
    BY <2>5, GateStep DEF TryLockSharedDone
  <2>6. CASE TryLockSharedFail(t)
    BY <2>6, GateStep DEF TryLockSharedFail
  <2> QED
    BY <1>6, <2>1, <2>2, <2>3, <2>4, <2>5, <2>6, TryLockSharedCheckStep, TryLockSharedCountStep
    DEF TryLockShared
<1>7. CASE UnlockShared(t)
  <2>1. CASE UnlockSharedReader(t)
    BY <2>1, GateStep DEF UnlockSharedReader
  <2>2. CASE UnlockSharedDone(t)
    BY <2>2, GateStep DEF UnlockSharedDone
  <2> QED
    BY <1>7, <2>1, <2>2, UnlockSharedCountStep, UnlockSharedResourceStep DEF UnlockShared
<1> QED
  BY <1>1, <1>2, <1>3, <1>4, <1>5, <1>6, <1>7 DEF Step

LEMMA StepIInv == IInv /\ [Next]_vars => IInv'
<1> SUFFICES ASSUME IInv, [Next]_vars PROVE IInv'
  OBVIOUS
<1>1. CASE UNCHANGED vars
  BY <1>1 DEF vars, IInv, TypeOK, TurnstileGuarded, ReaderGuarded, ReadersCounted,
              ResourceOwned, FirstAndLast, Guarded, At
<1>2. CASE Next
  BY <1>2, StepStep DEF Next
<1> QED
  BY <1>1, <1>2

LEMMA Inductive == Spec => []IInv
  BY InitIInv, StepIInv, PTL DEF Spec

(* Every reachable state is well-typed; num_readers_ never goes below 0.   *)
THEOREM TypeCorrect == Spec => []TypeOK
  BY Inductive, PTL DEF IInv

(* A thread that holds the mutex exclusively is alone.                     *)
THEOREM Exclusion == Spec => []MutualExclusion
<1>1. IInv => MutualExclusion
  <2> SUFFICES ASSUME IInv, NEW t \in Thread, NEW u \in Thread, pc[t] = "writer", t # u
               PROVE  pc[u] # "writer" /\ u \notin SharedHolders
    BY DEF MutualExclusion
  <2>1. pc[u] # "writer"
    BY DEF IInv, TurnstileGuarded, Guarded, At, TurnstileLabel
  <2>2. At(SharedLabel) = {}
    BY DEF IInv, ResourceOwned, At
  <2> QED
    BY <2>1, <2>2 DEF SharedHolders, At, SharedLabel
<1> QED
  BY <1>1, Inductive, PTL

(* No two threads are ever about to access num_readers_ together.          *)
THEOREM RaceFreedom == Spec => []NoRaceOnNumReaders
<1>1. IInv => NoRaceOnNumReaders
  BY DEF IInv, ReaderGuarded, Guarded, At, ReaderLabel, NoRaceOnNumReaders
<1> QED
  BY <1>1, Inductive, PTL

(* No semaphore is released above 1, on any path of any call.              *)
THEOREM SemaphoresBinary == Spec => []NoOverRelease
<1>1. IInv => NoOverRelease
  BY DEF IInv, TurnstileGuarded, ReaderGuarded, Guarded, ResourceOwned, NoOverRelease
<1> QED
  BY <1>1, Inductive, PTL

-----------------------------------------------------------------------------
(* The lock takes effect where resource_ changes hands or the group of     *)
(* readers changes; every other step is invisible.                         *)
LEMMA HoldersMove ==
  ASSUME IInv, NEW t \in Thread, NEW from \in Label, NEW to \in Label, Goto(t, from, to)
  PROVE  /\ SharedHolders' = IF to \in SharedLabel THEN SharedHolders \cup {t}
                             ELSE SharedHolders \ {t}
         /\ ExclusiveHolders' = IF to = "writer" THEN ExclusiveHolders \cup {t}
                                ELSE ExclusiveHolders \ {t}
         /\ t \in SharedHolders <=> from \in SharedLabel
         /\ t \in ExclusiveHolders <=> from = "writer"
  BY DEF IInv, TypeOK, Goto, SharedHolders, ExclusiveHolders, SharedLabel

(* resource_ is free only when nobody holds the mutex, and never held by   *)
(* both kinds.                                                             *)
LEMMA ResourceTells ==
  ASSUME IInv
  PROVE  /\ resource = 1 => SharedHolders = {} /\ ExclusiveHolders = {}
         /\ SharedHolders = {} \/ ExclusiveHolders = {}
<1>1. SharedHolders = At(SharedLabel) /\ ExclusiveHolders = At({"writer"})
  BY DEF SharedHolders, ExclusiveHolders, At, SharedLabel
<1> QED
  BY <1>1 DEF IInv, ResourceOwned

LEMMA InvisibleStep ==
  ASSUME IInv, NEW t \in Thread, NEW from \in Label, NEW to \in Label, Goto(t, from, to),
         from \in SharedLabel <=> to \in SharedLabel, from # "writer", to # "writer"
  PROVE  UNCHANGED <<SharedHolders, ExclusiveHolders>>
  BY HoldersMove

LEMMA VisibleStep ==
  ASSUME IInv, NEW t \in Thread, NEW from \in Label, NEW to \in Label, Goto(t, from, to)
  PROVE  /\ from # "writer" /\ to = "writer" /\ from \notin SharedLabel /\ resource = 1
              => Abstract!AcquireExclusive(t)
         /\ from = "writer" /\ to \notin SharedLabel /\ to # "writer"
              => Abstract!ReleaseExclusive(t)
         /\ from \notin SharedLabel /\ to \in SharedLabel /\ from # "writer"
            /\ (SharedHolders # {} \/ resource = 1)
              => Abstract!AcquireShared(t)
         /\ from \in SharedLabel /\ to \notin SharedLabel /\ to # "writer"
              => Abstract!ReleaseShared(t)
<1>1. from # "writer" /\ to = "writer" /\ from \notin SharedLabel /\ resource = 1
        => Abstract!AcquireExclusive(t)
  BY HoldersMove, ResourceTells DEF SharedLabel, Abstract!AcquireExclusive
<1>2. from = "writer" /\ to \notin SharedLabel /\ to # "writer"
        => Abstract!ReleaseExclusive(t)
  BY HoldersMove, ResourceTells DEF SharedLabel, Abstract!ReleaseExclusive
<1>3. from \notin SharedLabel /\ to \in SharedLabel /\ from # "writer"
        /\ (SharedHolders # {} \/ resource = 1)
        => Abstract!AcquireShared(t)
  <2> SUFFICES ASSUME from \notin SharedLabel, to \in SharedLabel, from # "writer",
                      SharedHolders # {} \/ resource = 1
               PROVE  Abstract!AcquireShared(t)
    OBVIOUS
  <2>1. ExclusiveHolders = {} /\ to # "writer"
    BY ResourceTells DEF SharedLabel
  <2>2. ExclusiveHolders' = {} /\ t \notin SharedHolders
        /\ SharedHolders' = SharedHolders \cup {t}
    BY <2>1, HoldersMove
  <2> QED
    BY <2>1, <2>2 DEF Abstract!AcquireShared
<1>4. from \in SharedLabel /\ to \notin SharedLabel /\ to # "writer"
        => Abstract!ReleaseShared(t)
  BY HoldersMove, ResourceTells DEF SharedLabel, Abstract!ReleaseShared
<1> QED
  BY <1>1, <1>2, <1>3, <1>4

LEMMA RefineStep ==
  ASSUME IInv, NEW t \in Thread, Call(t) \/ Step(t)
  PROVE  \/ UNCHANGED <<SharedHolders, ExclusiveHolders>>
         \/ Abstract!AcquireExclusive(t) \/ Abstract!ReleaseExclusive(t)
         \/ Abstract!AcquireShared(t)    \/ Abstract!ReleaseShared(t)
<1> USE DEF Label, EntryPoint, SharedLabel
<1>1. CASE Call(t)
  BY <1>1, InvisibleStep DEF Call
<1>2. CASE Lock(t) \/ TryLock(t) \/ Unlock(t)
  <2>1. CASE LockTurnstile(t) \/ TryLockTurnstile(t) \/ TryLockBackout(t) \/ UnlockTurnstile(t)
    BY <2>1, InvisibleStep
    DEF LockTurnstile, TryLockTurnstile, TryAcquire, TryLockBackout, UnlockTurnstile
  <2>2. CASE LockResource(t)
    BY <2>2, VisibleStep DEF LockResource, Acquire
  <2>3. CASE TryLockResource(t)
    BY <2>3, VisibleStep, InvisibleStep DEF TryLockResource, TryAcquire, Acquire
  <2>4. CASE UnlockResource(t)
    BY <2>4, VisibleStep DEF UnlockResource
  <2> QED
    BY <1>2, <2>1, <2>2, <2>3, <2>4 DEF Lock, TryLock, Unlock
<1>3. CASE LockShared(t)
  <2>1. CASE LockSharedTurnstile(t) \/ LockSharedPass(t) \/ LockSharedReader(t) \/ LockSharedDone(t)
    BY <2>1, InvisibleStep
    DEF LockSharedTurnstile, LockSharedPass, LockSharedReader, LockSharedDone
  <2>2. CASE LockSharedCount(t)
    <3>1. CASE num_readers = 0
      BY <2>2, <3>1, InvisibleStep DEF LockSharedCount
    <3>2. CASE num_readers # 0
      <4>1. Goto(t, "ls_count", "ls_done")
        BY <2>2, <3>2 DEF LockSharedCount, IInv, TypeOK
      <4>2. SharedHolders # {}
        <5>1. At(CountedLabel) # {} /\ t \notin At(CountedLabel)
          BY <3>2, <4>1, CountType DEF IInv, ReadersCounted, At, Goto, CountedLabel
        <5>2. At(CountedLabel) \ {t} = At(SharedLabel) \ {t}
          BY <4>1, CountedShared DEF Goto, ReaderLabel
        <5> QED
          BY <5>1, <5>2 DEF At, SharedHolders
      <4> QED
        BY <4>1, <4>2, VisibleStep
    <3> QED
      BY <3>1, <3>2
  <2>3. CASE LockSharedResource(t)
    BY <2>3, VisibleStep DEF LockSharedResource, Acquire
  <2> QED
    BY <1>3, <2>1, <2>2, <2>3 DEF LockShared
<1>4. CASE TryLockShared(t)
  <2>1. CASE \/ TryLockSharedTurnstile(t) \/ TryLockSharedPass(t) \/ TryLockSharedReader(t)
             \/ TryLockSharedCount(t) \/ TryLockSharedDone(t) \/ TryLockSharedFail(t)
    BY <2>1, InvisibleStep
    DEF TryLockSharedTurnstile, TryLockSharedPass, TryLockSharedReader, TryLockSharedCount,
        TryLockSharedDone, TryLockSharedFail, TryAcquire
  <2>2. CASE TryLockSharedCheck(t)
    <3>1. CASE num_readers > 0
      <4>1. Goto(t, "ts_check", "ts_count")
        BY <2>2, <3>1 DEF TryLockSharedCheck
      <4>2. SharedHolders # {}
        <5>1. At(CountedLabel) # {} /\ t \notin At(CountedLabel)
          BY <3>1, <4>1, CountType DEF IInv, ReadersCounted, At, Goto, CountedLabel
        <5>2. At(CountedLabel) \ {t} = At(SharedLabel) \ {t}
          BY <4>1, CountedShared DEF Goto, ReaderLabel
        <5> QED
          BY <5>1, <5>2 DEF At, SharedHolders
      <4> QED
        BY <4>1, <4>2, VisibleStep
    <3>2. CASE num_readers = 0
      BY <2>2, <3>2, VisibleStep, InvisibleStep DEF TryLockSharedCheck, TryAcquire, Acquire
    <3> QED
      BY <2>2, <3>1, <3>2 DEF TryLockSharedCheck
  <2> QED
    BY <1>4, <2>1, <2>2 DEF TryLockShared
<1>5. CASE UnlockShared(t)
  <2>1. CASE UnlockSharedReader(t) \/ UnlockSharedDone(t)
    BY <2>1, InvisibleStep DEF UnlockSharedReader, UnlockSharedDone
  <2>2. CASE UnlockSharedCount(t)
    BY <2>2, VisibleStep, InvisibleStep DEF UnlockSharedCount
  <2>3. CASE UnlockSharedResource(t)
    BY <2>3, VisibleStep DEF UnlockSharedResource
  <2> QED
    BY <1>5, <2>1, <2>2, <2>3 DEF UnlockShared
<1> QED
  BY <1>1, <1>2, <1>3, <1>4, <1>5 DEF Step

(* shared_mutex_v1 implements the abstract shared mutex.                   *)
THEOREM Implementation == Spec => ImplementsSharedMutex
<1>1. Init => Abstract!Init
  BY DEF Init, Abstract!Init, SharedHolders, ExclusiveHolders
<1>2. IInv /\ [Next]_vars => [Abstract!Next]_<<SharedHolders, ExclusiveHolders>>
  <2> SUFFICES ASSUME IInv, [Next]_vars
               PROVE  Abstract!Next \/ UNCHANGED <<SharedHolders, ExclusiveHolders>>
    OBVIOUS
  <2>1. CASE UNCHANGED vars
    BY <2>1 DEF vars, SharedHolders, ExclusiveHolders
  <2>2. CASE Next
    BY <2>2, RefineStep DEF Next, Abstract!Next
  <2> QED
    BY <2>1, <2>2
<1> QED
  BY <1>1, <1>2, Inductive, PTL DEF Spec, ImplementsSharedMutex, Abstract!Spec
=============================================================================

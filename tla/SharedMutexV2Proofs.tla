------------------------ MODULE SharedMutexV2Proofs ------------------------
(***************************************************************************)
(* For any finite set of threads, shared_mutex_v2 keeps writers alone,     *)
(* loses no wake-up, and implements SharedMutex.                           *)
(*                                                                         *)
(* The inductive invariant says what the two fields stand for: readers_    *)
(* is the number of threads in "reader", and writer_ is set exactly while  *)
(* one thread, and only one, has claimed it in lock() or try_lock().       *)
(***************************************************************************)
EXTENDS SharedMutexV2, FiniteSetTheorems, TLAPS

(* The threads for which writer_ is set: waiting at gate2, or holding.     *)
Claimed == {t \in Thread : pc[t] \in {"lk_asleep2", "lk_gate2", "writer"}}

ReadersCounted == readers = Cardinality(SharedHolders)

WriterClaimed ==
  /\ writer <=> Claimed # {}
  /\ \A t, u \in Claimed : t = u

WriterAlone == ExclusiveHolders # {} => readers = 0

IInv == TypeOK /\ ReadersCounted /\ WriterClaimed /\ WriterAlone /\ NoLostWakeup

-----------------------------------------------------------------------------
(* A finite set that is empty has no elements to count, and conversely.    *)
LEMMA CountType ==
  ASSUME NEW S \in SUBSET Thread
  PROVE  IsFiniteSet(S) /\ Cardinality(S) \in Nat /\ (Cardinality(S) = 0 <=> S = {})
  BY ThreadAssumption, FS_Subset, FS_CardinalityType, FS_EmptySet

(* readers_ counts a thread that enters "reader", or one that leaves it.   *)
LEMMA CountEnter ==
  ASSUME NEW S \in SUBSET Thread, NEW t \in Thread, t \notin S
  PROVE  Cardinality(S \cup {t}) = Cardinality(S) + 1
  BY CountType, FS_AddElement

LEMMA CountLeave ==
  ASSUME NEW S \in SUBSET Thread, NEW t \in S
  PROVE  Cardinality(S \ {t}) = Cardinality(S) - 1
  BY CountType, FS_RemoveElement

(* Waking threads up changes neither who holds the mutex nor the type.     *)
LEMMA AwakeType ==
  ASSUME NEW l \in Label
  PROVE  /\ Awake(l) \in Label
         /\ Awake(l) = "reader" <=> l = "reader"
         /\ Awake(l) = "writer" <=> l = "writer"
         /\ Awake(l) \in {"lk_asleep2", "lk_gate2", "writer"}
              <=> l \in {"lk_asleep2", "lk_gate2", "writer"}
         /\ Awake(l) = "lk_asleep2" => l = "lk_asleep2"
         /\ Awake(l) \in {"lk_asleep1", "ls_asleep1"} => l \in {"lk_asleep1", "ls_asleep1"}
         /\ Awake(l) \notin {"lk_asleep1", "ls_asleep1", "lk_asleep2"}
  BY DEF Awake, Label, EntryPoint

-----------------------------------------------------------------------------
LEMMA InitIInv == Init => IInv
<1> SUFFICES ASSUME Init PROVE IInv
  OBVIOUS
<1>1. TypeOK
  BY DEF Init, TypeOK, Label
<1>2. SharedHolders = {} /\ Claimed = {} /\ ExclusiveHolders = {}
  BY DEF Init, SharedHolders, Claimed, ExclusiveHolders
<1>3. ReadersCounted
  BY <1>2, FS_EmptySet DEF Init, ReadersCounted
<1>4. NoLostWakeup
  BY DEF Init, NoLostWakeup, AsleepAtGate1, AsleepAtGate2
<1> QED
  BY <1>1, <1>2, <1>3, <1>4 DEF Init, IInv, WriterClaimed, WriterAlone

(* A step that neither claims nor gives up, neither enters nor leaves.     *)
LEMMA NeutralStep ==
  ASSUME IInv, TypeOK', UNCHANGED <<writer, readers>>,
         SharedHolders' = SharedHolders, Claimed' = Claimed,
         ExclusiveHolders' # {} => readers = 0, NoLostWakeup'
  PROVE  IInv'
<1>1. ReadersCounted'
  BY DEF IInv, ReadersCounted
<1>2. WriterClaimed' /\ WriterAlone'
  BY DEF IInv, WriterClaimed, WriterAlone
<1> QED
  BY <1>1, <1>2 DEF IInv

LEMMA CallStep ==
  ASSUME IInv, NEW t \in Thread, Call(t)
  PROVE  IInv'
<1> USE DEF IInv, Call, Goto, EntryPoint
<1>1. TypeOK'
  BY DEF TypeOK, Label
<1>2. SharedHolders' = SharedHolders /\ Claimed' = Claimed
      /\ ExclusiveHolders' = ExclusiveHolders
  BY DEF TypeOK, SharedHolders, Claimed, ExclusiveHolders
<1>3. NoLostWakeup'
  BY DEF TypeOK, NoLostWakeup, AsleepAtGate1, AsleepAtGate2
<1> QED
  BY <1>1, <1>2, <1>3, NeutralStep DEF WriterAlone

LEMMA SpuriousWakeupStep ==
  ASSUME IInv, NEW t \in Thread, SpuriousWakeup(t)
  PROVE  IInv'
<1> USE DEF IInv, SpuriousWakeup, AsleepAtGate1, AsleepAtGate2
<1>0. pc[t] \in Label
  BY DEF TypeOK
<1>1. TypeOK'
  BY <1>0, AwakeType DEF TypeOK
<1>2. SharedHolders' = SharedHolders /\ Claimed' = Claimed
      /\ ExclusiveHolders' = ExclusiveHolders
  BY <1>0, AwakeType DEF TypeOK, SharedHolders, Claimed, ExclusiveHolders
<1>3. NoLostWakeup'
  BY <1>0, AwakeType DEF TypeOK, NoLostWakeup
<1> QED
  BY <1>1, <1>2, <1>3, NeutralStep DEF WriterAlone

(* A thread claims writer_, at gate1 or in try_lock.                       *)
LEMMA ClaimStep ==
  ASSUME IInv, NEW t \in Thread, ~writer, writer' = TRUE, UNCHANGED readers,
         pc[t] \in {"lk_gate1", "tl_entry"},
         \/ readers = 0 /\ pc' = [pc EXCEPT ![t] = "writer"]
         \/ readers # 0 /\ pc' = [pc EXCEPT ![t] = "lk_asleep2"]
  PROVE  IInv'
<1> USE DEF IInv
<1>1. TypeOK'
  BY DEF TypeOK, Label
<1>2. SharedHolders' = SharedHolders
  BY DEF TypeOK, SharedHolders
<1>3. Claimed = {} /\ Claimed' = {t}
  BY DEF TypeOK, Claimed, WriterClaimed
<1>4. WriterAlone'
  BY <1>3 DEF TypeOK, WriterAlone, ExclusiveHolders, Claimed
<1>5. NoLostWakeup'
  BY DEF TypeOK, NoLostWakeup, AsleepAtGate1, AsleepAtGate2
<1> QED
  BY <1>1, <1>2, <1>3, <1>4, <1>5 DEF ReadersCounted, WriterClaimed

LEMMA LockGate1Step ==
  ASSUME IInv, NEW t \in Thread, LockGate1(t)
  PROVE  IInv'
<1>1. CASE writer
  <2> USE <1>1 DEF IInv, LockGate1, Goto
  <2>1. TypeOK'
    BY DEF TypeOK, Label
  <2>2. SharedHolders' = SharedHolders /\ Claimed' = Claimed
        /\ ExclusiveHolders' = ExclusiveHolders
    BY DEF TypeOK, SharedHolders, Claimed, ExclusiveHolders
  <2>3. NoLostWakeup'
    BY DEF TypeOK, NoLostWakeup, AsleepAtGate1, AsleepAtGate2
  <2> QED
    BY <2>1, <2>2, <2>3, NeutralStep DEF WriterAlone
<1>2. CASE ~writer
  BY <1>2, ClaimStep DEF LockGate1, Goto
<1> QED
  BY <1>1, <1>2 DEF IInv, TypeOK

LEMMA LockGate2Step ==
  ASSUME IInv, NEW t \in Thread, LockGate2(t)
  PROVE  IInv'
<1> USE DEF IInv, LockGate2, Goto
<1>1. TypeOK'
  BY DEF TypeOK, Label
<1>2. SharedHolders' = SharedHolders /\ Claimed' = Claimed
  BY DEF TypeOK, SharedHolders, Claimed
<1>3. ExclusiveHolders' # {} => readers = 0
  BY DEF TypeOK, ExclusiveHolders, WriterAlone
<1>4. NoLostWakeup'
  BY DEF TypeOK, NoLostWakeup, AsleepAtGate1, AsleepAtGate2, WriterClaimed, Claimed
<1> QED
  BY <1>1, <1>2, <1>3, <1>4, NeutralStep

LEMMA TryLockStep ==
  ASSUME IInv, NEW t \in Thread, TryLock(t)
  PROVE  IInv'
<1>1. CASE readers > 0 \/ writer
  <2> USE <1>1 DEF IInv, TryLock, Goto
  <2>1. TypeOK'
    BY DEF TypeOK, Label
  <2>2. SharedHolders' = SharedHolders /\ Claimed' = Claimed
        /\ ExclusiveHolders' = ExclusiveHolders
    BY DEF TypeOK, SharedHolders, Claimed, ExclusiveHolders
  <2>3. NoLostWakeup'
    BY DEF TypeOK, NoLostWakeup, AsleepAtGate1, AsleepAtGate2
  <2> QED
    BY <2>1, <2>2, <2>3, NeutralStep DEF WriterAlone
<1>2. CASE readers = 0 /\ ~writer
  <2>1. /\ writer' = TRUE /\ UNCHANGED readers
        /\ pc[t] = "tl_entry" /\ pc' = [pc EXCEPT ![t] = "writer"]
    BY <1>2 DEF TryLock, Goto
  <2> QED
    BY <1>2, <2>1, ClaimStep
<1> QED
  BY <1>1, <1>2 DEF IInv, TypeOK

(* A thread enters "reader": writer_ is not set, so nobody is asleep.      *)
LEMMA EnterSharedStep ==
  ASSUME IInv, NEW t \in Thread, ~writer, UNCHANGED writer,
         readers' = readers + 1,
         pc[t] \in {"ls_gate1", "ts_entry"}, pc' = [pc EXCEPT ![t] = "reader"]
  PROVE  IInv'
<1> USE DEF IInv
<1>1. TypeOK'
  BY DEF TypeOK, Label
<1>2. t \notin SharedHolders /\ SharedHolders' = SharedHolders \cup {t}
  BY DEF TypeOK, SharedHolders
<1>3. ReadersCounted'
  BY <1>2, CountEnter DEF ReadersCounted, SharedHolders
<1>4. Claimed = {} /\ Claimed' = {}
  BY DEF TypeOK, Claimed, WriterClaimed
<1>5. WriterAlone'
  BY <1>4 DEF WriterAlone, ExclusiveHolders, Claimed
<1>6. NoLostWakeup'
  BY DEF TypeOK, NoLostWakeup, AsleepAtGate1, AsleepAtGate2
<1> QED
  BY <1>1, <1>3, <1>4, <1>5, <1>6 DEF WriterClaimed

LEMMA LockSharedGate1Step ==
  ASSUME IInv, NEW t \in Thread, LockSharedGate1(t)
  PROVE  IInv'
<1>1. CASE writer
  <2> USE <1>1 DEF IInv, LockSharedGate1, Goto
  <2>1. TypeOK'
    BY DEF TypeOK, Label
  <2>2. SharedHolders' = SharedHolders /\ Claimed' = Claimed
        /\ ExclusiveHolders' = ExclusiveHolders
    BY DEF TypeOK, SharedHolders, Claimed, ExclusiveHolders
  <2>3. NoLostWakeup'
    BY DEF TypeOK, NoLostWakeup, AsleepAtGate1, AsleepAtGate2
  <2> QED
    BY <2>1, <2>2, <2>3, NeutralStep DEF WriterAlone
<1>2. CASE ~writer
  BY <1>2, EnterSharedStep DEF LockSharedGate1, Goto
<1> QED
  BY <1>1, <1>2 DEF IInv, TypeOK

LEMMA TryLockSharedStep ==
  ASSUME IInv, NEW t \in Thread, TryLockShared(t)
  PROVE  IInv'
<1>1. CASE writer
  <2> USE <1>1 DEF IInv, TryLockShared, Goto
  <2>1. TypeOK'
    BY DEF TypeOK, Label
  <2>2. SharedHolders' = SharedHolders /\ Claimed' = Claimed
        /\ ExclusiveHolders' = ExclusiveHolders
    BY DEF TypeOK, SharedHolders, Claimed, ExclusiveHolders
  <2>3. NoLostWakeup'
    BY DEF TypeOK, NoLostWakeup, AsleepAtGate1, AsleepAtGate2
  <2> QED
    BY <2>1, <2>2, <2>3, NeutralStep DEF WriterAlone
<1>2. CASE ~writer
  BY <1>2, EnterSharedStep DEF TryLockShared, Goto
<1> QED
  BY <1>1, <1>2 DEF IInv, TypeOK

LEMMA UnlockStep ==
  ASSUME IInv, NEW t \in Thread, Unlock(t)
  PROVE  IInv'
<1> USE DEF IInv, Unlock, ReturnAndWake
<1>0. \A u \in Thread : pc[u] \in Label
  BY DEF TypeOK
<1>1. TypeOK'
  BY <1>0, AwakeType DEF TypeOK, Label
<1>2. Claimed = {t}
  BY DEF TypeOK, Claimed, WriterClaimed
<1>3. Claimed' = {}
  BY <1>0, <1>2, AwakeType DEF Claimed
<1>4. SharedHolders' = SharedHolders
  BY <1>0, AwakeType DEF SharedHolders
<1>5. WriterAlone'
  BY <1>3 DEF WriterAlone, ExclusiveHolders, Claimed
<1>6. AsleepAtGate2' = {}
  BY <1>3 DEF AsleepAtGate2, Claimed
<1>7. AsleepAtGate1' = {}
  BY <1>0, AwakeType DEF AsleepAtGate1
<1> QED
  BY <1>1, <1>3, <1>4, <1>5, <1>6, <1>7 DEF ReadersCounted, WriterClaimed, NoLostWakeup

LEMMA UnlockSharedStep ==
  ASSUME IInv, NEW t \in Thread, UnlockShared(t)
  PROVE  IInv'
<1>1. PICK S \in SUBSET AsleepAtGate2 :
        /\ ReturnAndWake(t, S)
        /\ writer /\ readers' = 0 /\ AsleepAtGate2 # {} => S # {}
  BY DEF UnlockShared, ReturnAndWakeOne
<1> USE DEF IInv
<1>0. \A u \in Thread : pc[u] \in Label
  BY DEF TypeOK
<1>2. pc[t] = "reader" /\ t \in SharedHolders /\ UNCHANGED writer /\ readers' = readers - 1
  BY DEF UnlockShared, SharedHolders
<1>3. SharedHolders' = SharedHolders \ {t}
  BY <1>0, <1>1, <1>2, AwakeType DEF ReturnAndWake, SharedHolders
<1>4. ReadersCounted' /\ readers > 0 /\ readers' \in Nat
  <2>1. SharedHolders \in SUBSET Thread
    BY DEF SharedHolders
  <2>2. Cardinality(SharedHolders') = readers - 1
    BY <1>2, <1>3, <2>1, CountLeave DEF ReadersCounted
  <2>3. readers \in Nat /\ readers # 0
    BY <1>2, <2>1, CountType DEF ReadersCounted, TypeOK
  <2> QED
    BY <1>2, <2>2, <2>3 DEF ReadersCounted
<1>5. Claimed' = Claimed /\ ExclusiveHolders' = ExclusiveHolders
  BY <1>0, <1>1, <1>2, AwakeType DEF ReturnAndWake, Claimed, ExclusiveHolders
<1>6. TypeOK'
  BY <1>0, <1>1, <1>2, <1>4, AwakeType DEF ReturnAndWake, TypeOK, Label
<1>7. AsleepAtGate1' \subseteq AsleepAtGate1
  BY <1>0, <1>1, <1>2, AwakeType DEF ReturnAndWake, AsleepAtGate1
<1>8. AsleepAtGate2' # {} => writer /\ readers' > 0
  <2> SUFFICES ASSUME AsleepAtGate2' # {} PROVE writer /\ readers' > 0
    OBVIOUS
  <2>1. AsleepAtGate2' = AsleepAtGate2 \ S
    BY <1>0, <1>1, <1>2, AwakeType DEF ReturnAndWake, AsleepAtGate2
  <2>2. writer
    BY <2>1 DEF NoLostWakeup
  <2>3. \A u, v \in AsleepAtGate2 : u = v
    BY DEF AsleepAtGate2, Claimed, WriterClaimed
  <2>4. S = {}
    BY <2>1, <2>3
  <2> QED
    BY <1>1, <1>4, <2>1, <2>2, <2>4
<1> QED
  BY <1>2, <1>4, <1>5, <1>6, <1>7, <1>8 DEF WriterClaimed, WriterAlone, NoLostWakeup

-----------------------------------------------------------------------------
LEMMA StepIInv == IInv /\ [Next]_vars => IInv'
<1> SUFFICES ASSUME IInv, [Next]_vars PROVE IInv'
  OBVIOUS
<1>1. CASE UNCHANGED vars
  BY <1>1 DEF vars, IInv, TypeOK, ReadersCounted, SharedHolders, WriterClaimed, Claimed,
              WriterAlone, ExclusiveHolders, NoLostWakeup, AsleepAtGate1, AsleepAtGate2
<1>2. ASSUME NEW t \in Thread, Call(t) \/ Step(t) \/ SpuriousWakeup(t)
      PROVE  IInv'
  BY <1>2, CallStep, SpuriousWakeupStep, LockGate1Step, LockGate2Step, TryLockStep, UnlockStep,
     LockSharedGate1Step, TryLockSharedStep, UnlockSharedStep DEF Step
<1> QED
  BY <1>1, <1>2 DEF Next

LEMMA Inductive == Spec => []IInv
  BY InitIInv, StepIInv, PTL DEF Spec

(* Every reachable state is well-typed: readers_, an unsigned, is never    *)
(* decremented below zero.                                                 *)
THEOREM TypeCorrect == Spec => []TypeOK
  BY Inductive, PTL DEF IInv

(* A thread that holds the mutex exclusively is alone, however many        *)
(* threads there are.                                                      *)
THEOREM Exclusion == Spec => []MutualExclusion
<1>1. IInv => MutualExclusion
  <2> SUFFICES ASSUME IInv, NEW t \in Thread, NEW u \in Thread, pc[t] = "writer", t # u
               PROVE  pc[u] \notin {"writer", "reader"}
    BY DEF MutualExclusion
  <2>1. pc[u] # "writer"
    BY DEF IInv, WriterClaimed, Claimed
  <2>2. SharedHolders = {}
    BY CountType DEF IInv, WriterAlone, ExclusiveHolders, ReadersCounted, SharedHolders
  <2> QED
    BY <2>1, <2>2 DEF SharedHolders
<1> QED
  BY <1>1, Inductive, PTL

(* No thread sleeps on a gate whose predicate holds, however many threads  *)
(* there are and wherever notify_one picks its waiter.                     *)
THEOREM WakeupsKept == Spec => []NoLostWakeup
  BY Inductive, PTL DEF IInv

-----------------------------------------------------------------------------
(* The steps of the lock, mapped to steps of SharedMutex: writer_ and the  *)
(* gates are internal, only who is in "writer" and "reader" shows.         *)
LEMMA RefineSteps ==
  ASSUME IInv, IInv', [Next]_vars
  PROVE  Abstract!Next \/ UNCHANGED <<SharedHolders, ExclusiveHolders>>
<1> USE DEF IInv
<1>0. \A u \in Thread : pc[u] \in Label
  BY DEF TypeOK
<1>1. CASE UNCHANGED vars
  BY <1>1 DEF vars, SharedHolders, ExclusiveHolders
<1>2. ASSUME NEW t \in Thread,
             \/ Call(t) \/ SpuriousWakeup(t)
             \/ LockGate1(t) /\ pc'[t] # "writer"
             \/ LockGate2(t) /\ pc'[t] # "writer"
             \/ TryLock(t) /\ pc'[t] # "writer"
             \/ LockSharedGate1(t) /\ pc'[t] # "reader"
             \/ TryLockShared(t) /\ pc'[t] # "reader"
      PROVE  UNCHANGED <<SharedHolders, ExclusiveHolders>>
  BY <1>0, <1>2, AwakeType
  DEF TypeOK, Call, SpuriousWakeup, LockGate1, LockGate2, TryLock, LockSharedGate1,
      TryLockShared, Goto, EntryPoint, SharedHolders, ExclusiveHolders,
      AsleepAtGate1, AsleepAtGate2
<1>3. ASSUME NEW t \in Thread, LockGate1(t) \/ LockGate2(t) \/ TryLock(t), pc'[t] = "writer"
      PROVE  Abstract!AcquireExclusive(t)
  <2>1. readers = 0 /\ pc' = [pc EXCEPT ![t] = "writer"] /\ pc[t] # "reader"
    BY <1>3 DEF TypeOK, LockGate1, LockGate2, TryLock, Goto
  <2>2. SharedHolders = {} /\ SharedHolders' = {}
    BY <2>1, CountType DEF TypeOK, ReadersCounted, SharedHolders
  <2>3. ExclusiveHolders' = {t}
    BY <2>1 DEF TypeOK, WriterClaimed, Claimed, ExclusiveHolders
  <2>4. ExclusiveHolders = {}
    <3> SUFFICES ASSUME NEW u \in Thread, pc[u] = "writer" PROVE FALSE
      BY DEF ExclusiveHolders
    <3>1. u # t
      BY <1>3 DEF LockGate1, LockGate2, TryLock, Goto
    <3>2. pc'[u] = "writer"
      BY <2>1, <3>1 DEF TypeOK
    <3> QED
      BY <2>3, <3>1, <3>2 DEF ExclusiveHolders
  <2> QED
    BY <2>2, <2>3, <2>4 DEF Abstract!AcquireExclusive
<1>4. ASSUME NEW t \in Thread, LockSharedGate1(t) \/ TryLockShared(t), pc'[t] = "reader"
      PROVE  Abstract!AcquireShared(t)
  <2>1. ~writer /\ pc' = [pc EXCEPT ![t] = "reader"] /\ pc[t] # "reader" /\ pc[t] # "writer"
    BY <1>4 DEF TypeOK, LockSharedGate1, TryLockShared, Goto
  <2>2. ExclusiveHolders = {} /\ ExclusiveHolders' = {}
    BY <2>1 DEF TypeOK, WriterClaimed, Claimed, ExclusiveHolders
  <2>3. t \notin SharedHolders /\ SharedHolders' = SharedHolders \cup {t}
    BY <2>1 DEF TypeOK, SharedHolders
  <2> QED
    BY <2>2, <2>3 DEF Abstract!AcquireShared
<1>5. ASSUME NEW t \in Thread, Unlock(t)
      PROVE  Abstract!ReleaseExclusive(t)
  <2>1. ExclusiveHolders = {t}
    BY <1>5 DEF Unlock, WriterClaimed, Claimed, ExclusiveHolders
  <2>2. ExclusiveHolders' = {} /\ SharedHolders' = SharedHolders
    BY <1>0, <1>5, <2>1, AwakeType DEF Unlock, ReturnAndWake, ExclusiveHolders, SharedHolders
  <2> QED
    BY <2>1, <2>2 DEF Abstract!ReleaseExclusive
<1>6. ASSUME NEW t \in Thread, UnlockShared(t)
      PROVE  Abstract!ReleaseShared(t)
  <2>1. PICK S \in SUBSET Thread : ReturnAndWake(t, S)
    BY <1>6 DEF UnlockShared, ReturnAndWakeOne, AsleepAtGate2
  <2>2. t \in SharedHolders /\ SharedHolders' = SharedHolders \ {t}
    BY <1>0, <1>6, <2>1, AwakeType DEF UnlockShared, ReturnAndWake, SharedHolders
  <2>3. UNCHANGED ExclusiveHolders
    BY <1>0, <1>6, <2>1, AwakeType DEF UnlockShared, ReturnAndWake, ExclusiveHolders
  <2> QED
    BY <2>2, <2>3 DEF Abstract!ReleaseShared
<1> QED
  BY <1>1, <1>2, <1>3, <1>4, <1>5, <1>6 DEF Next, Step, Abstract!Next

(* shared_mutex_v2 implements the abstract shared mutex.                   *)
THEOREM Implementation == Spec => ImplementsSharedMutex
<1>1. Init => Abstract!Init
  BY DEF Init, Abstract!Init, SharedHolders, ExclusiveHolders
<1>2. IInv /\ IInv' /\ [Next]_vars => [Abstract!Next]_<<SharedHolders, ExclusiveHolders>>
  BY RefineSteps
<1> QED
  BY <1>1, <1>2, Inductive, PTL DEF Spec, ImplementsSharedMutex, Abstract!Spec
=============================================================================

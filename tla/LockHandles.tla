---------------------------- MODULE LockHandles ----------------------------
(***************************************************************************)
(* my_std::unique_lock and my_std::shared_lock (concurrency/locks/         *)
(* unique_lock.hpp, shared_lock.hpp): movable handles that own a hold on a *)
(* shared mutex.  The two classes are the same but for the mutex functions *)
(* they call, so one set of actions describes both.                        *)
(*                                                                         *)
(* A mutex is taken and given back in one step, as in SharedMutex.  A      *)
(* handle is a local object of one thread.  A call that throws             *)
(* system_error (check_can_lock, unlock of a handle that does not own)     *)
(* changes nothing and is not a step.  A blocked lock() is a step that is  *)
(* not enabled yet.                                                        *)
(***************************************************************************)
EXTENDS Naturals, FiniteSets

CONSTANTS
  Thread, Mutex,
  Unique, Shared,   \* the variables of type unique_lock and of type shared_lock
  ThreadOf,         \* the thread a variable is local to
  NoMutex,          \* nullptr
  Absent            \* the variable is out of scope

Handle == Unique \cup Shared

Kind(h) == IF h \in Unique THEN Unique ELSE Shared

ASSUME HandleAssumption ==
  /\ Unique \cap Shared = {}
  /\ ThreadOf \in [Handle -> Thread]
  /\ NoMutex \notin Mutex
  /\ Absent \notin [m_ : Mutex \cup {NoMutex}, owns_ : BOOLEAN]

VARIABLES
  lk,                  \* the handles: fields m_ and owns_
  readers, writers,    \* per mutex: the threads that hold it
  raw                  \* <<t, m, kind>>: thread t has a hold no handle owns

vars == <<lk, readers, writers, raw>>

Init ==
  /\ lk = [h \in Handle |-> Absent]
  /\ readers = [m \in Mutex |-> {}] /\ writers = [m \in Mutex |-> {}]
  /\ raw = {}

NullHandle == [m_ |-> NoMutex, owns_ |-> FALSE]
Deferred(m) == [m_ |-> m, owns_ |-> FALSE]
Owning(m) == [m_ |-> m, owns_ |-> TRUE]

-----------------------------------------------------------------------------
(* What lock, try_lock, unlock (kind Unique) and lock_shared,              *)
(* try_lock_shared, unlock_shared (kind Shared) do to mutex m.  A thread   *)
(* may not acquire a mutex it holds.                                       *)
Free(t, m, kind) ==
  /\ writers[m] = {}
  /\ IF kind = Unique THEN readers[m] = {} ELSE t \notin readers[m]

Hold(t, m, kind) ==
  IF kind = Unique
  THEN writers' = [writers EXCEPT ![m] = {t}] /\ UNCHANGED readers
  ELSE readers' = [readers EXCEPT ![m] = @ \cup {t}] /\ UNCHANGED writers

(* unlock does not check who calls it: the mutex is free afterwards        *)
Unhold(t, m, kind) ==
  IF kind = Unique
  THEN writers' = [writers EXCEPT ![m] = {}] /\ UNCHANGED readers
  ELSE readers' = [readers EXCEPT ![m] = @ \ {t}] /\ UNCHANGED writers

Acquire(h, m) == Free(ThreadOf[h], m, Kind(h)) /\ Hold(ThreadOf[h], m, Kind(h))

(* if (owns_) m_->unlock();                                                *)
UnlockIfOwned(h, m) ==
  IF lk[h].owns_ THEN Unhold(ThreadOf[h], m, Kind(h)) ELSE UNCHANGED <<readers, writers>>

InScope(h) == lk[h] # Absent

SameType(h, g) == Kind(h) = Kind(g) /\ ThreadOf[h] = ThreadOf[g]

-----------------------------------------------------------------------------
(* A slip a maintainer could make: it replaces the action it is named      *)
(* after, and breaks the property PROJECT.json pairs it with.              *)

(* the move assignment forgets what the target owned *)
MoveAssign_NoUnlock(h, g) ==
  /\ SameType(h, g) /\ h # g /\ InScope(h) /\ InScope(g)
  /\ lk' = [lk EXCEPT ![h] = lk[g], ![g] = NullHandle]
  /\ UNCHANGED <<readers, writers, raw>>

-----------------------------------------------------------------------------
(* Constructors *)

DefaultCtor(h) ==
  /\ ~InScope(h)
  /\ lk' = [lk EXCEPT ![h] = NullHandle]
  /\ UNCHANGED <<readers, writers, raw>>

LockCtor(h, m) ==
  /\ ~InScope(h)
  /\ Acquire(h, m)
  /\ lk' = [lk EXCEPT ![h] = Owning(m)]
  /\ UNCHANGED raw

DeferCtor(h, m) ==
  /\ ~InScope(h)
  /\ lk' = [lk EXCEPT ![h] = Deferred(m)]
  /\ UNCHANGED <<readers, writers, raw>>

(* try_lock may fail although the mutex is free                            *)
TryToLockCtor(h, m) ==
  /\ ~InScope(h)
  /\ \/ Acquire(h, m) /\ lk' = [lk EXCEPT ![h] = Owning(m)]
     \/ lk' = [lk EXCEPT ![h] = Deferred(m)] /\ UNCHANGED <<readers, writers>>
  /\ UNCHANGED raw

(* the caller holds the mutex already, in the handle's way                 *)
AdoptCtor(h, m) ==
  LET hold == <<ThreadOf[h], m, Kind(h)>>
  IN /\ ~InScope(h) /\ hold \in raw
     /\ lk' = [lk EXCEPT ![h] = Owning(m)]
     /\ raw' = raw \ {hold}
     /\ UNCHANGED <<readers, writers>>

MoveCtor(h, g) ==
  /\ SameType(h, g) /\ ~InScope(h) /\ InScope(g)
  /\ lk' = [lk EXCEPT ![h] = lk[g], ![g] = NullHandle]
  /\ UNCHANGED <<readers, writers, raw>>

-----------------------------------------------------------------------------
(* Operations.  Assigning a handle to itself returns early.                *)

MoveAssign(h, g) ==
  /\ SameType(h, g) /\ h # g /\ InScope(h) /\ InScope(g)
  /\ UnlockIfOwned(h, lk[h].m_)
  /\ lk' = [lk EXCEPT ![h] = lk[g], ![g] = NullHandle]
  /\ UNCHANGED raw

(* lock(), or a try_lock() that succeeds: one that fails changes nothing   *)
Lock(h) ==
  /\ InScope(h) /\ lk[h].m_ # NoMutex /\ ~lk[h].owns_
  /\ Acquire(h, lk[h].m_)
  /\ lk' = [lk EXCEPT ![h].owns_ = TRUE]
  /\ UNCHANGED raw

Unlock(h) ==
  /\ InScope(h) /\ lk[h].owns_
  /\ Unhold(ThreadOf[h], lk[h].m_, Kind(h))
  /\ lk' = [lk EXCEPT ![h].owns_ = FALSE]
  /\ UNCHANGED raw

(* the caller takes over the hold, if there is one                         *)
Release(h) ==
  /\ InScope(h)
  /\ lk' = [lk EXCEPT ![h] = NullHandle]
  /\ raw' = IF lk[h].owns_ THEN raw \cup {<<ThreadOf[h], lk[h].m_, Kind(h)>>} ELSE raw
  /\ UNCHANGED <<readers, writers>>

Swap(h, g) ==
  /\ SameType(h, g) /\ InScope(h) /\ InScope(g)
  /\ lk' = [lk EXCEPT ![h] = lk[g], ![g] = lk[h]]
  /\ UNCHANGED <<readers, writers, raw>>

Destructor(h) ==
  /\ InScope(h)
  /\ UnlockIfOwned(h, lk[h].m_)
  /\ lk' = [lk EXCEPT ![h] = Absent]
  /\ UNCHANGED raw

HandleStep(h) ==
  \/ DefaultCtor(h) \/ Lock(h) \/ Unlock(h) \/ Release(h) \/ Destructor(h)
  \/ \E m \in Mutex : LockCtor(h, m) \/ DeferCtor(h, m) \/ TryToLockCtor(h, m) \/ AdoptCtor(h, m)
  \/ \E g \in Handle : MoveCtor(h, g) \/ MoveAssign(h, g) \/ Swap(h, g)

UniqueLock == \E h \in Unique : HandleStep(h)
SharedLock == \E h \in Shared : HandleStep(h)

(* Client code calls the mutex functions itself: it acquires a hold for a  *)
(* handle to adopt, or gives back one it got from release().               *)
RawLock(t, m, kind) ==
  /\ Free(t, m, kind) /\ Hold(t, m, kind)
  /\ raw' = raw \cup {<<t, m, kind>>}
  /\ UNCHANGED lk

RawUnlock(t, m, kind) ==
  /\ <<t, m, kind>> \in raw
  /\ Unhold(t, m, kind)
  /\ raw' = raw \ {<<t, m, kind>>}
  /\ UNCHANGED lk

Next ==
  \/ UniqueLock \/ SharedLock
  \/ \E t \in Thread, m \in Mutex, kind \in {Unique, Shared} :
       RawLock(t, m, kind) \/ RawUnlock(t, m, kind)

Spec == Init /\ [][Next]_vars

-----------------------------------------------------------------------------
OwningHandles(t, m, kind) ==
  {h \in kind : ThreadOf[h] = t /\ lk[h] = Owning(m)}

(* Each hold on a mutex has exactly one keeper, an owning handle or the    *)
(* client code that called release() or means to adopt: whatever the       *)
(* sequence of moves, swaps, releases and destructions, no hold is leaked  *)
(* and none is given back twice.                                           *)
OneKeeperPerHold ==
  \A t \in Thread, m \in Mutex, kind \in {Unique, Shared} :
    Cardinality(OwningHandles(t, m, kind)) + (IF <<t, m, kind>> \in raw THEN 1 ELSE 0)
    = IF t \in (IF kind = Unique THEN writers[m] ELSE readers[m]) THEN 1 ELSE 0
=============================================================================

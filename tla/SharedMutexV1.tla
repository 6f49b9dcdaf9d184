--------------------------- MODULE SharedMutexV1 ---------------------------
(***************************************************************************)
(* my_std::shared_mutex_v1 (concurrency/locks/shared_mutex_v1.hpp): a      *)
(* reader-writer lock made of three std::binary_semaphores and one plain   *)
(* counter.  Every semaphore operation, and every access to the counter,   *)
(* is an atomic step of its own, so all the interleavings of the calls are *)
(* behaviours of the model.                                                *)
(*                                                                         *)
(* pc[t] names the next statement of the call thread t is in: the prefix   *)
(* is the call (lk lock, tl try_lock, ul unlock, ls lock_shared,           *)
(* ts try_lock_shared, us unlock_shared), the suffix the statement.        *)
(* "idle" is a thread that holds nothing, "writer" and "reader" are        *)
(* threads between a successful acquisition and the release.               *)
(***************************************************************************)
EXTENDS Naturals, FiniteSets

CONSTANT Thread

ASSUME ThreadAssumption == IsFiniteSet(Thread)

VARIABLES
  turnstile,     \* binary_semaphore turnstile_: a writer keeps it, a reader passes through
  resource,      \* binary_semaphore resource_: held by a writer, or by the readers as a group
  reader,        \* binary_semaphore reader_: guards num_readers_
  num_readers,   \* unsigned num_readers_
  pc

vars == <<turnstile, resource, reader, num_readers, pc>>

EntryPoint == {"lk_turnstile", "tl_turnstile", "ls_turnstile", "ts_turnstile"}

Label == EntryPoint \cup
  {"idle", "lk_resource", "writer", "ul_turnstile", "tl_resource", "tl_backout",
   "ls_pass", "ls_reader", "ls_count", "ls_resource", "ls_done",
   "ts_pass", "ts_reader", "ts_check", "ts_count", "ts_done", "ts_fail",
   "reader", "us_count", "us_resource", "us_done"}

Init ==
  /\ turnstile = 1 /\ resource = 1 /\ reader = 1
  /\ num_readers = 0
  /\ pc = [t \in Thread |-> "idle"]

-----------------------------------------------------------------------------
(* Semaphores.  Release does not saturate: raising a binary_semaphore      *)
(* above 1 is undefined behaviour in C++, and NoOverRelease rules it out.  *)
Acquire(sem) == sem = 1 /\ sem' = 0
Release(sem) == sem' = sem + 1

Goto(t, from, to) == pc[t] = from /\ pc' = [pc EXCEPT ![t] = to]

(* try_acquire: on success the thread moves to yes, otherwise to no.  The  *)
(* C++ standard lets try_acquire fail although the semaphore is free, so   *)
(* failing is always possible.                                             *)
TryAcquire(t, sem, from, yes, no) ==
  \/ Goto(t, from, yes) /\ Acquire(sem)
  \/ Goto(t, from, no)  /\ UNCHANGED sem

(* A client thread that holds nothing calls one of the four acquisitions.  *)
Call(t) ==
  /\ \E entry \in EntryPoint : Goto(t, "idle", entry)
  /\ UNCHANGED <<turnstile, resource, reader, num_readers>>

-----------------------------------------------------------------------------
(* Slips a maintainer could make: each replaces the action it is named     *)
(* after, and breaks the property PROJECT.json pairs it with.              *)

(* the failed try_lock backs out although it never got the turnstile *)
TryLockTurnstile_AlwaysBackout(t) ==
  /\ TryAcquire(t, turnstile, "tl_turnstile", "tl_resource", "tl_backout")
  /\ UNCHANGED <<resource, reader, num_readers>>

(* the failed try_lock returns with the turnstile *)
TryLockResource_NoBackout(t) ==
  /\ TryAcquire(t, resource, "tl_resource", "writer", "idle")
  /\ UNCHANGED <<turnstile, reader, num_readers>>

(* readers do not queue at the turnstile *)
LockSharedTurnstile_Skipped(t) ==
  /\ Goto(t, "ls_turnstile", "ls_reader")
  /\ UNCHANGED <<turnstile, resource, reader, num_readers>>

(* the first reader does not take the resource *)
LockSharedCount_NoResource(t) ==
  /\ num_readers' = num_readers + 1
  /\ Goto(t, "ls_count", "ls_done")
  /\ UNCHANGED <<turnstile, resource, reader>>

(* the failed try_lock_shared uncounts a reader it never counted *)
TryLockSharedFail_Uncounts(t) ==
  /\ Goto(t, "ts_fail", "idle")
  /\ Release(reader)
  /\ num_readers' = num_readers - 1
  /\ UNCHANGED <<turnstile, resource>>

(* the counter is decremented without reader_ *)
UnlockSharedReader_Unguarded(t) ==
  /\ Goto(t, "reader", "us_count")
  /\ UNCHANGED <<turnstile, resource, reader, num_readers>>

(* the last reader but one gives the resource back *)
UnlockSharedCount_OffByOne(t) ==
  /\ num_readers' = num_readers - 1
  /\ Goto(t, "us_count", IF num_readers' <= 1 THEN "us_resource" ELSE "us_done")
  /\ UNCHANGED <<turnstile, resource, reader>>

-----------------------------------------------------------------------------
(* lock, unlock and try_lock *)

LockTurnstile(t) ==
  /\ Goto(t, "lk_turnstile", "lk_resource")
  /\ Acquire(turnstile)
  /\ UNCHANGED <<resource, reader, num_readers>>

LockResource(t) ==
  /\ Goto(t, "lk_resource", "writer")
  /\ Acquire(resource)
  /\ UNCHANGED <<turnstile, reader, num_readers>>

UnlockResource(t) ==
  /\ Goto(t, "writer", "ul_turnstile")
  /\ Release(resource)
  /\ UNCHANGED <<turnstile, reader, num_readers>>

UnlockTurnstile(t) ==
  /\ Goto(t, "ul_turnstile", "idle")
  /\ Release(turnstile)
  /\ UNCHANGED <<resource, reader, num_readers>>

TryLockTurnstile(t) ==
  /\ TryAcquire(t, turnstile, "tl_turnstile", "tl_resource", "idle")
  /\ UNCHANGED <<resource, reader, num_readers>>

TryLockResource(t) ==
  /\ TryAcquire(t, resource, "tl_resource", "writer", "tl_backout")
  /\ UNCHANGED <<turnstile, reader, num_readers>>

TryLockBackout(t) ==
  /\ Goto(t, "tl_backout", "idle")
  /\ Release(turnstile)
  /\ UNCHANGED <<resource, reader, num_readers>>

-----------------------------------------------------------------------------
(* lock_shared *)

LockSharedTurnstile(t) ==
  /\ Goto(t, "ls_turnstile", "ls_pass")
  /\ Acquire(turnstile)
  /\ UNCHANGED <<resource, reader, num_readers>>

LockSharedPass(t) ==
  /\ Goto(t, "ls_pass", "ls_reader")
  /\ Release(turnstile)
  /\ UNCHANGED <<resource, reader, num_readers>>

LockSharedReader(t) ==
  /\ Goto(t, "ls_reader", "ls_count")
  /\ Acquire(reader)
  /\ UNCHANGED <<turnstile, resource, num_readers>>

LockSharedCount(t) ==
  /\ num_readers' = num_readers + 1
  /\ Goto(t, "ls_count", IF num_readers' = 1 THEN "ls_resource" ELSE "ls_done")
  /\ UNCHANGED <<turnstile, resource, reader>>

LockSharedResource(t) ==
  /\ Goto(t, "ls_resource", "ls_done")
  /\ Acquire(resource)
  /\ UNCHANGED <<turnstile, reader, num_readers>>

LockSharedDone(t) ==
  /\ Goto(t, "ls_done", "reader")
  /\ Release(reader)
  /\ UNCHANGED <<turnstile, resource, num_readers>>

-----------------------------------------------------------------------------
(* try_lock_shared *)

TryLockSharedTurnstile(t) ==
  /\ TryAcquire(t, turnstile, "ts_turnstile", "ts_pass", "idle")
  /\ UNCHANGED <<resource, reader, num_readers>>

TryLockSharedPass(t) ==
  /\ Goto(t, "ts_pass", "ts_reader")
  /\ Release(turnstile)
  /\ UNCHANGED <<resource, reader, num_readers>>

TryLockSharedReader(t) ==
  /\ TryAcquire(t, reader, "ts_reader", "ts_check", "idle")
  /\ UNCHANGED <<turnstile, resource, num_readers>>

(* num_readers_ > 0 || resource_.try_acquire() *)
TryLockSharedCheck(t) ==
  /\ \/ num_readers > 0 /\ Goto(t, "ts_check", "ts_count") /\ UNCHANGED resource
     \/ num_readers = 0 /\ TryAcquire(t, resource, "ts_check", "ts_count", "ts_fail")
  /\ UNCHANGED <<turnstile, reader, num_readers>>

TryLockSharedCount(t) ==
  /\ Goto(t, "ts_count", "ts_done")
  /\ num_readers' = num_readers + 1
  /\ UNCHANGED <<turnstile, resource, reader>>

TryLockSharedDone(t) ==
  /\ Goto(t, "ts_done", "reader")
  /\ Release(reader)
  /\ UNCHANGED <<turnstile, resource, num_readers>>

TryLockSharedFail(t) ==
  /\ Goto(t, "ts_fail", "idle")
  /\ Release(reader)
  /\ UNCHANGED <<turnstile, resource, num_readers>>

-----------------------------------------------------------------------------
(* unlock_shared *)

UnlockSharedReader(t) ==
  /\ Goto(t, "reader", "us_count")
  /\ Acquire(reader)
  /\ UNCHANGED <<turnstile, resource, num_readers>>

UnlockSharedCount(t) ==
  /\ num_readers' = num_readers - 1
  /\ Goto(t, "us_count", IF num_readers' = 0 THEN "us_resource" ELSE "us_done")
  /\ UNCHANGED <<turnstile, resource, reader>>

UnlockSharedResource(t) ==
  /\ Goto(t, "us_resource", "us_done")
  /\ Release(resource)
  /\ UNCHANGED <<turnstile, reader, num_readers>>

UnlockSharedDone(t) ==
  /\ Goto(t, "us_done", "idle")
  /\ Release(reader)
  /\ UNCHANGED <<turnstile, resource, num_readers>>

-----------------------------------------------------------------------------
Lock(t)   == LockTurnstile(t) \/ LockResource(t)
TryLock(t) == TryLockTurnstile(t) \/ TryLockResource(t) \/ TryLockBackout(t)
Unlock(t) == UnlockResource(t) \/ UnlockTurnstile(t)
LockShared(t) ==
  \/ LockSharedTurnstile(t) \/ LockSharedPass(t)     \/ LockSharedReader(t)
  \/ LockSharedCount(t)     \/ LockSharedResource(t) \/ LockSharedDone(t)
TryLockShared(t) ==
  \/ TryLockSharedTurnstile(t) \/ TryLockSharedPass(t)  \/ TryLockSharedReader(t)
  \/ TryLockSharedCheck(t)     \/ TryLockSharedCount(t) \/ TryLockSharedDone(t)
  \/ TryLockSharedFail(t)
UnlockShared(t) ==
  \/ UnlockSharedReader(t) \/ UnlockSharedCount(t)
  \/ UnlockSharedResource(t) \/ UnlockSharedDone(t)

(* The next statement of the call thread t is in; from "writer" and        *)
(* "reader" it is the release that ends the critical section.              *)
Step(t) ==
  \/ Lock(t) \/ TryLock(t) \/ Unlock(t)
  \/ LockShared(t) \/ TryLockShared(t) \/ UnlockShared(t)

Next == \E t \in Thread : Call(t) \/ Step(t)

Spec == Init /\ [][Next]_vars

(* The scheduler runs every thread that can run, and clients end their     *)
(* critical sections.  Nothing makes a client start a call, and nothing    *)
(* makes a semaphore hand itself to a particular waiter.                   *)
FairSpec == Spec /\ \A t \in Thread : WF_vars(Step(t))

-----------------------------------------------------------------------------
TypeOK ==
  /\ turnstile \in Nat /\ resource \in Nat /\ reader \in Nat
  /\ num_readers \in Nat
  /\ pc \in [Thread -> Label]

(* The threads whose call has counted itself in num_readers_.              *)
Counted == {t \in Thread :
              pc[t] \in {"ls_resource", "ls_done", "ts_done", "reader", "us_count"}}

(* The threads that hold the mutex shared: from the step that makes the    *)
(* group own resource_, or that joins a group that owns it, to the step    *)
(* that leaves the group or gives resource_ back.                          *)
SharedHolders == {t \in Thread :
  pc[t] \in {"ls_done", "ts_count", "ts_done", "reader", "us_count", "us_resource"}}

ExclusiveHolders == {t \in Thread : pc[t] = "writer"}

(* A thread in the critical section of lock() is alone: no other writer    *)
(* and no reader is in theirs (shared_mutex_v1::lock, lock_shared and the  *)
(* two try_ calls, in any interleaving).                                   *)
MutualExclusion ==
  \A t, u \in Thread :
    pc[t] = "writer" /\ t # u => pc[u] # "writer" /\ u \notin SharedHolders

(* num_readers_ is a plain unsigned: no two threads may be about to access *)
(* it at once, or the program has a data race.  reader_ has to order every *)
(* access of lock_shared, try_lock_shared and unlock_shared.               *)
NoRaceOnNumReaders ==
  \A t, u \in Thread :
    /\ pc[t] \in {"ls_count", "ts_check", "ts_count", "us_count"}
    /\ pc[u] \in {"ls_count", "ts_check", "ts_count", "us_count"}
    => t = u

(* No execution releases a binary_semaphore that is already 1, whatever    *)
(* path (success, back-out, last reader, writer) gives it back.            *)
NoOverRelease == turnstile <= 1 /\ resource <= 1 /\ reader <= 1

(* Whenever a thread is inside a call or a critical section, some such     *)
(* thread can take its next step: the three semaphores, acquired in        *)
(* different orders by readers and writers, never deadlock.                *)
NoStuck ==
  (\E t \in Thread : pc[t] # "idle") => \E t \in Thread : ENABLED Step(t)

(* The mutex behaves like the abstract shared mutex: each acquisition and  *)
(* release takes effect in one step, under the abstract guard.             *)
Abstract == INSTANCE SharedMutex
              WITH readers <- SharedHolders, writers <- ExclusiveHolders
ImplementsSharedMutex == Abstract!Spec

(* A writer that has the turnstile is admitted: readers that arrive later  *)
(* queue behind it, so a stream of readers cannot starve it.  Only weak    *)
(* fairness is assumed.                                                    *)
WriterAdmitted ==
  \A t \in Thread : (pc[t] = "lk_resource") ~> (pc[t] = "writer")
=============================================================================

--------------------------- MODULE SharedMutexV2 ---------------------------
(***************************************************************************)
(* my_std::shared_mutex_v2 (concurrency/locks/shared_mutex_v2.hpp): a      *)
(* reader-writer lock made of one std::mutex, two condition variables and  *)
(* the fields writer_ and readers_.                                        *)
(*                                                                         *)
(* The fields are only touched with m_ held, so what a call does between   *)
(* acquiring m_ and releasing it (or blocking on a gate) is one action.    *)
(* gate.wait(lk, pred) re-evaluates pred each time the thread has m_: in   *)
(* "x_gateN" thread t is about to get m_ and evaluate the predicate of     *)
(* gate N, on entry or after a wake-up, and in "x_asleepN" it is blocked   *)
(* on the gate.  The prefix x is the call: lk lock, tl try_lock,           *)
(* ls lock_shared, ts try_lock_shared.                                     *)
(***************************************************************************)
EXTENDS Naturals, FiniteSets

CONSTANT Thread

ASSUME ThreadAssumption == IsFiniteSet(Thread)

VARIABLES
  writer,    \* bool writer_: a writer is in, or waits for the readers to leave
  readers,   \* unsigned readers_
  pc

vars == <<writer, readers, pc>>

EntryPoint == {"lk_gate1", "tl_entry", "ls_gate1", "ts_entry"}

Label == EntryPoint \cup
  {"idle", "lk_asleep1", "lk_asleep2", "lk_gate2", "ls_asleep1", "writer", "reader"}

Init == writer = FALSE /\ readers = 0 /\ pc = [t \in Thread |-> "idle"]

Goto(t, from, to) == pc[t] = from /\ pc' = [pc EXCEPT ![t] = to]

(* A client thread that holds nothing calls one of the four acquisitions.  *)
Call(t) ==
  /\ \E entry \in EntryPoint : Goto(t, "idle", entry)
  /\ UNCHANGED <<writer, readers>>

-----------------------------------------------------------------------------
(* Condition variables *)

Awake(label) ==
  CASE label = "lk_asleep1" -> "lk_gate1"
    [] label = "ls_asleep1" -> "ls_gate1"
    [] label = "lk_asleep2" -> "lk_gate2"
    [] OTHER                -> label

(* The caller t returns to its client, and the threads in S wake up.       *)
ReturnAndWake(t, S) ==
  pc' = [u \in Thread |-> IF u = t THEN "idle"
                          ELSE IF u \in S THEN Awake(pc[u]) ELSE pc[u]]

AsleepAtGate1 == {t \in Thread : pc[t] \in {"lk_asleep1", "ls_asleep1"}}
AsleepAtGate2 == {t \in Thread : pc[t] = "lk_asleep2"}

(* notify_one wakes an arbitrary waiter, if there is one.                  *)
ReturnAndWakeOne(t, S) ==
  IF S = {} THEN ReturnAndWake(t, {}) ELSE \E u \in S : ReturnAndWake(t, {u})

(* A condition variable may wake a thread that nobody notified.            *)
SpuriousWakeup(t) ==
  /\ t \in AsleepAtGate1 \cup AsleepAtGate2
  /\ pc' = [pc EXCEPT ![t] = Awake(@)]
  /\ UNCHANGED <<writer, readers>>

-----------------------------------------------------------------------------
(* Slips a maintainer could make: each replaces the action it is named     *)
(* after, and breaks the property PROJECT.json pairs it with.              *)

(* try_lock looks at writer_ only *)
TryLock_IgnoresReaders(t) ==
  \/ writer /\ Goto(t, "tl_entry", "idle") /\ UNCHANGED <<writer, readers>>
  \/ ~writer /\ Goto(t, "tl_entry", "writer") /\ writer' = TRUE /\ UNCHANGED readers

(* unlock wakes one waiter instead of all *)
Unlock_NotifyOne(t) ==
  /\ pc[t] = "writer"
  /\ writer' = FALSE
  /\ ReturnAndWakeOne(t, AsleepAtGate1)
  /\ UNCHANGED readers

(* a reader joins other readers although a writer waits *)
LockSharedGate1_Barging(t) ==
  /\ \/ (~writer \/ readers > 0) /\ Goto(t, "ls_gate1", "reader") /\ readers' = readers + 1
     \/ (writer /\ readers = 0)  /\ Goto(t, "ls_gate1", "ls_asleep1") /\ UNCHANGED readers
  /\ UNCHANGED writer

(* the writer does not wait for the readers to leave *)
LockGate1_NoGate2(t) ==
  \/ writer /\ Goto(t, "lk_gate1", "lk_asleep1") /\ UNCHANGED <<writer, readers>>
  \/ ~writer /\ writer' = TRUE /\ Goto(t, "lk_gate1", "writer") /\ UNCHANGED readers

(* try_lock_shared succeeds without counting its reader *)
TryLockShared_NotCounted(t) ==
  /\ Goto(t, "ts_entry", IF writer THEN "idle" ELSE "reader")
  /\ UNCHANGED <<writer, readers>>

-----------------------------------------------------------------------------
(* lock: wait on gate1 for writer_ to be false, claim it, then wait on     *)
(* gate2 for the readers to leave.  m_ is held from the claim to the       *)
(* first evaluation of the second predicate.                               *)
LockGate1(t) ==
  \/ writer /\ Goto(t, "lk_gate1", "lk_asleep1") /\ UNCHANGED <<writer, readers>>
  \/ /\ ~writer
     /\ writer' = TRUE
     /\ Goto(t, "lk_gate1", IF readers = 0 THEN "writer" ELSE "lk_asleep2")
     /\ UNCHANGED readers

LockGate2(t) ==
  /\ Goto(t, "lk_gate2", IF readers = 0 THEN "writer" ELSE "lk_asleep2")
  /\ UNCHANGED <<writer, readers>>

TryLock(t) ==
  \/ /\ readers > 0 \/ writer
     /\ Goto(t, "tl_entry", "idle")
     /\ UNCHANGED <<writer, readers>>
  \/ /\ readers = 0 /\ ~writer
     /\ Goto(t, "tl_entry", "writer")
     /\ writer' = TRUE
     /\ UNCHANGED readers

Unlock(t) ==
  /\ pc[t] = "writer"
  /\ writer' = FALSE
  /\ ReturnAndWake(t, AsleepAtGate1)
  /\ UNCHANGED readers

LockSharedGate1(t) ==
  /\ \/ ~writer /\ Goto(t, "ls_gate1", "reader") /\ readers' = readers + 1
     \/ writer /\ Goto(t, "ls_gate1", "ls_asleep1") /\ UNCHANGED readers
  /\ UNCHANGED writer

TryLockShared(t) ==
  /\ \/ ~writer /\ Goto(t, "ts_entry", "reader") /\ readers' = readers + 1
     \/ writer /\ Goto(t, "ts_entry", "idle") /\ UNCHANGED readers
  /\ UNCHANGED writer

UnlockShared(t) ==
  /\ pc[t] = "reader"
  /\ readers' = readers - 1
  /\ IF readers' = 0 /\ writer THEN ReturnAndWakeOne(t, AsleepAtGate2)
                               ELSE ReturnAndWake(t, {})
  /\ UNCHANGED writer

-----------------------------------------------------------------------------
Step(t) ==
  \/ LockGate1(t) \/ LockGate2(t) \/ TryLock(t) \/ Unlock(t)
  \/ LockSharedGate1(t) \/ TryLockShared(t) \/ UnlockShared(t)

Next == \E t \in Thread : Call(t) \/ Step(t) \/ SpuriousWakeup(t)

Spec == Init /\ [][Next]_vars

(* The scheduler runs every thread that is not asleep and gives it m_, and *)
(* clients end their critical sections.  Spurious wake-ups may never come, *)
(* and nothing makes a client start a call.                                *)
FairSpec == Spec /\ \A t \in Thread : WF_vars(Step(t))

-----------------------------------------------------------------------------
TypeOK ==
  /\ writer \in BOOLEAN
  /\ readers \in Nat
  /\ pc \in [Thread -> Label]

SharedHolders == {t \in Thread : pc[t] = "reader"}
ExclusiveHolders == {t \in Thread : pc[t] = "writer"}

(* A thread that returned from lock() or a successful try_lock() is alone  *)
(* in its critical section until it calls unlock().                        *)
MutualExclusion ==
  \A t, u \in Thread :
    pc[t] = "writer" /\ t # u => pc[u] \notin {"writer", "reader"}

(* No lost wake-up: a thread asleep on a gate still has to wait, because   *)
(* the state its predicate asks for has not come.  Every change that makes *)
(* a predicate true (unlock, the last unlock_shared) therefore wakes every *)
(* thread that waits for it; no call relies on a spurious wake-up.         *)
NoLostWakeup ==
  /\ AsleepAtGate1 # {} => writer
  /\ AsleepAtGate2 # {} => writer /\ readers > 0

(* The mutex behaves like the abstract shared mutex.                       *)
Abstract == INSTANCE SharedMutex
              WITH readers <- SharedHolders, writers <- ExclusiveHolders
ImplementsSharedMutex == Abstract!Spec

(* A writer that has claimed writer_ and waits at gate2 is admitted: later *)
(* readers stop at gate1, and the last reader to leave wakes it.           *)
WriterAdmitted ==
  \A t \in Thread : (pc[t] \in {"lk_asleep2", "lk_gate2"}) ~> (pc[t] = "writer")
=============================================================================

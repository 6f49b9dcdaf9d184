---------------------------- MODULE SharedMutex ----------------------------
(***************************************************************************)
(* What a shared mutex promises its callers, whatever it is made of: any   *)
(* number of threads hold it shared, or one thread holds it exclusively.   *)
(* SharedMutexV1 and SharedMutexV2 implement this specification.           *)
(***************************************************************************)
CONSTANT Thread

VARIABLES
  readers,   \* the threads that hold the mutex shared
  writers    \* the threads that hold it exclusively

Init == readers = {} /\ writers = {}

AcquireExclusive(t) ==
  /\ readers = {} /\ writers = {}
  /\ writers' = {t}
  /\ UNCHANGED readers

ReleaseExclusive(t) ==
  /\ t \in writers
  /\ writers' = writers \ {t}
  /\ UNCHANGED readers

AcquireShared(t) ==
  /\ writers = {} /\ t \notin readers
  /\ readers' = readers \cup {t}
  /\ UNCHANGED writers

ReleaseShared(t) ==
  /\ t \in readers
  /\ readers' = readers \ {t}
  /\ UNCHANGED writers

Next ==
  \E t \in Thread : \/ AcquireExclusive(t) \/ ReleaseExclusive(t)
                    \/ AcquireShared(t)    \/ ReleaseShared(t)

Spec == Init /\ [][Next]_<<readers, writers>>
=============================================================================

----------------------------- MODULE SharedMem -----------------------------
(***************************************************************************)
(* ipc/shared_mem/shared_mem.cpp: the parent writes messages into shared   *)
(* memory, the child reads them, and each waits for a semaphore that the   *)
(* other posts.  Either process may be killed at any step.  The shared     *)
(* memory outlives them then, with its semaphores, until the program is    *)
(* started again: shm_open takes what is there.                            *)
(*                                                                         *)
(* A message is its number, the last one's being that of END_MESSAGE; the  *)
(* parent writes it in two halves, which the child may see apart.          *)
(***************************************************************************)
EXTENDS Naturals, Sequences

CONSTANTS
  MessageCount,   \* MESSAGE_COUNT
  MaxRuns         \* bound: the times the program is started

VARIABLES
  sem,            \* writer_sem ("parent") and reader_sem ("child")
  message,        \* the halves of data->message
  pc,
  i,              \* the parent's i, and the runs of the program so far
  log             \* <<0, i>> when the parent has written i, <<1, m>> when the child has read m

vars == <<sem, message, pc, i, log>>

Process == {"parent", "child"}

(* no message: what new shared memory holds, and two halves apart *)
Blank == <<MessageCount, MessageCount>>
Torn == MessageCount + 1

SemInit == [parent |-> 1, child |-> 0]

Init ==
  /\ sem = SemInit /\ message = Blank
  /\ pc = [parent |-> "wait", child |-> "wait"]
  /\ i = [message |-> 0, run |-> 1] /\ log = <<>>

-----------------------------------------------------------------------------
(* Slips a maintainer could make *)

(* shared memory that was there already is not initialised *)
SemOfNextRun_AsFound == sem

(* the parent posts when half of the message is written *)
HalfWritten_Posts == [sem EXCEPT !["child"] = 1]

-----------------------------------------------------------------------------
To(p, l) == pc' = [pc EXCEPT ![p] = l]
sem_wait(p) == sem[p] > 0 /\ sem' = [sem EXCEPT ![p] = @ - 1]
sem_post(p) == sem' = [sem EXCEPT ![p] = @ + 1]

ParentWait ==
  pc.parent = "wait" /\ sem_wait("parent") /\ To("parent", "write") /\ UNCHANGED <<message, i, log>>

HalfWritten == sem

(* strncpy, one half after the other *)
Write ==
  /\ pc.parent = "write" /\ To("parent", "write on") /\ sem' = HalfWritten
  /\ message' = [message EXCEPT ![1] = i.message] /\ UNCHANGED <<i, log>>
WriteOn ==
  /\ pc.parent = "write on" /\ To("parent", "post")
  /\ message' = [message EXCEPT ![2] = i.message]
  /\ log' = Append(log, <<0, i.message>>) /\ UNCHANGED <<sem, i>>

ParentPost ==
  /\ pc.parent = "post" /\ sem_post("child")
  /\ To("parent", IF i.message + 1 < MessageCount THEN "wait" ELSE "waitpid")
  /\ i' = [i EXCEPT !.message = @ + 1] /\ UNCHANGED <<message, log>>

(* the child is gone: nobody uses the shared memory, which is unlinked *)
Waitpid ==
  /\ pc.parent = "waitpid" /\ pc.child \in {"exited", "killed"}
  /\ To("parent", "exited") /\ UNCHANGED <<sem, message, i, log>>

ChildWait ==
  pc.child = "wait" /\ sem_wait("child") /\ To("child", "read") /\ UNCHANGED <<message, i, log>>

(* the message is written out, and read again to compare it *)
Read ==
  /\ pc.child = "read" /\ To("child", "compare")
  /\ log' = Append(log, <<1, IF message[1] = message[2] THEN message[1] ELSE Torn>>)
  /\ UNCHANGED <<sem, message, i>>
Compare ==
  /\ pc.child = "compare"
  /\ To("child", IF message = <<MessageCount - 1, MessageCount - 1>> THEN "last post" ELSE "post")
  /\ UNCHANGED <<sem, message, i, log>>

ChildPost ==
  /\ pc.child \in {"post", "last post"} /\ sem_post("parent")
  /\ To("child", IF pc.child = "post" THEN "wait" ELSE "exited") /\ UNCHANGED <<message, i, log>>

Parent == ParentWait \/ Write \/ WriteOn \/ ParentPost \/ Waitpid
Child == ChildWait \/ Read \/ Compare \/ ChildPost

Killed == \E p \in Process : pc[p] = "killed"
Exited == \A p \in Process : pc[p] = "exited"

Kill(p) == pc[p] # "exited" /\ To(p, "killed") /\ UNCHANGED <<sem, message, i, log>>

(* the next run, once both processes are gone, in new shared memory if the *)
(* parent has unlinked the old                                             *)
SemOfNextRun == SemInit
Run ==
  /\ \A p \in Process : pc[p] \in {"exited", "killed"}
  /\ i.run < MaxRuns /\ i' = [message |-> 0, run |-> i.run + 1]
  /\ sem' = SemOfNextRun /\ pc' = [parent |-> "wait", child |-> "wait"]
  /\ message' = IF pc.parent = "exited" THEN Blank ELSE message
  /\ log' = <<>>

Next == Parent \/ Child \/ Run \/ \E p \in Process : Kill(p)

(* no process waits for ever but at a semaphore or for the child *)
Fairness == WF_vars(Parent) /\ WF_vars(Child)
Spec == Init /\ [][Next]_vars /\ Fairness
=============================================================================

----------------------------- MODULE ThreadPool -----------------------------
(***************************************************************************)
(* my_std::thread_pool (concurrency/thread_pool.hpp).  Whatever the        *)
(* workers and the client share is used with m_ held, so each critical     *)
(* section is one step.  stop_ has no initialiser: it may be anything at   *)
(* first.  Neither submit nor shut_down notifies, so that a worker which   *)
(* waits goes on only if it wakes for no reason.                           *)
(*                                                                         *)
(* submit is taken for what it says, though its lambda does not compile.   *)
(* Tasks are numbered as they are submitted; one client uses the pool.     *)
(***************************************************************************)
EXTENDS Naturals, Sequences, FiniteSets

CONSTANTS
  Worker,
  MaxTasks        \* bound: the calls of submit

VARIABLES
  stop,           \* stop_
  task_queue,
  pc,             \* where each worker is, and the client
  taken,          \* the tasks popped, in order
  late            \* the tasks submitted when stop_ was true

vars == <<stop, task_queue, pc, taken, late>>

Init ==
  /\ stop \in BOOLEAN /\ task_queue = <<>>
  /\ pc = [t \in Worker \cup {"client"} |-> IF t = "client" THEN "constructor" ELSE "unborn"]
  /\ taken = <<>> /\ late = {}

To(t, l) == pc' = [pc EXCEPT ![t] = l]

Unborn == {w \in Worker : pc[w] = "unborn"}
Awake == {w \in Worker : pc[w] \in {"loop", "woken", "task"}}

-----------------------------------------------------------------------------
(* Slips a maintainer could make *)

(* a worker leaves as soon as it is told to *)
MayLeave_AtOnce == stop

(* a worker waits before it looks whether there is a task *)
MustWait_BeforeLooking(w) == ~stop /\ (task_queue = <<>> \/ pc[w] = "loop")

-----------------------------------------------------------------------------
Spawn(w) ==
  /\ pc["client"] = "constructor" /\ w \in Unborn /\ To(w, "loop")
  /\ UNCHANGED <<stop, task_queue, taken, late>>

(* a thread cannot be started: shut_down, and those there are are joined *)
SpawnFails ==
  /\ pc["client"] = "constructor" /\ Unborn # {}
  /\ stop' = TRUE /\ To("client", "join")
  /\ UNCHANGED <<task_queue, taken, late>>

Constructed ==
  /\ pc["client"] = "constructor" /\ Unborn = {} /\ To("client", "client")
  /\ UNCHANGED <<stop, task_queue, taken, late>>

Submitted == Len(taken) + Len(task_queue)

submit ==
  /\ pc["client"] = "client" /\ Submitted < MaxTasks
  /\ task_queue' = Append(task_queue, Submitted + 1)
  /\ late' = IF stop THEN late \cup {Submitted + 1} ELSE late
  /\ UNCHANGED <<stop, pc, taken>>

shut_down ==
  pc["client"] = "client" /\ stop' = TRUE /\ UNCHANGED <<task_queue, pc, taken, late>>

(* the destructor, which joins the workers *)
Destroy ==
  /\ pc["client"] = "client" /\ To("client", "join")
  /\ UNCHANGED <<stop, task_queue, taken, late>>
Joined ==
  /\ pc["client"] = "join" /\ \A w \in Worker : pc[w] \in {"unborn", "left"}
  /\ To("client", "joined") /\ UNCHANGED <<stop, task_queue, taken, late>>

(* one critical section of worker_loop: to wait, to leave or to take a task *)
MayLeave == stop /\ task_queue = <<>>
MustWait(w) == ~stop /\ task_queue = <<>>
Popped == Tail(task_queue)

Enter(w) ==
  /\ pc[w] \in {"loop", "woken"}
  /\ IF MustWait(w) THEN To(w, "waiting") /\ UNCHANGED <<task_queue, taken>>
     ELSE IF MayLeave THEN To(w, "left") /\ UNCHANGED <<task_queue, taken>>
     ELSE /\ To(w, "task") /\ task_queue' = Popped
          /\ taken' = Append(taken, Head(task_queue))
  /\ UNCHANGED <<stop, late>>

TaskEnds(w) ==
  pc[w] = "task" /\ To(w, "loop") /\ UNCHANGED <<stop, task_queue, taken, late>>

WakeForNoReason(w) ==
  pc[w] = "waiting" /\ To(w, "woken") /\ UNCHANGED <<stop, task_queue, taken, late>>

Work(w) == Enter(w) \/ TaskEnds(w)

Next ==
  \/ SpawnFails \/ Constructed \/ submit \/ shut_down \/ Destroy \/ Joined
  \/ \E w \in Worker : Spawn(w) \/ Work(w) \/ WakeForNoReason(w)

(* tasks end, and a worker that is not waiting goes on *)
Fairness == \A w \in Worker : WF_vars(Work(w))
Spec == Init /\ [][Next]_vars /\ Fairness

-----------------------------------------------------------------------------
(* Tasks are taken in the order of their submission, each once; and when   *)
(* the workers are gone, only those are left that came after stop_ was     *)
(* true (thread_pool.hpp:32).                                              *)
TasksServed ==
  /\ taken \o task_queue = [n \in 1 .. Submitted |-> n]
  /\ pc["client"] = "joined" /\ Worker \cap Unborn = {} =>
       \A n \in DOMAIN task_queue : task_queue[n] \in late
=============================================================================

----------------------------- MODULE Concurrent -----------------------------
(***************************************************************************)
(* The programs of two or more threads or processes that hand something    *)
(* over to one another; one of them, the subject, is chosen at the start.  *)
(* Each has its state in the same variables:                               *)
(*                                                                         *)
(*   sync   what they wait for: semaphores, the turn, the socket, stop_    *)
(*   data   what is being handed over                                      *)
(*   pc     where each thread or process is                                *)
(*   nth    which round, run or connection each is at; which tasks are late *)
(*   log    what has come out                                              *)
(***************************************************************************)
EXTENDS Naturals, Sequences, FiniteSets, SequencesExt

CONSTANTS
  Worker,        \* the workers of the thread pool
  Times,         \* bound: rounds, messages, bytes
  BufferSize,    \* what one read of the server takes at most
  MaxStarts,     \* bound: the times shared_mem, or the client, is started
  MaxTasks       \* bound: tasks

VARIABLES subject, sync, data, pc, nth, log

vars == <<subject, sync, data, pc, nth, log>>

ASSUME ConcurrentAssumption ==
  /\ Times \in Nat \ {0} /\ BufferSize \in Nat \ {0} /\ MaxStarts \in Nat /\ MaxTasks \in Nat
  /\ IsFiniteSet(Worker) /\ "client" \notin Worker

P1 == INSTANCE PingPong1 WITH sem <- sync, i <- nth, os <- log
P2 == INSTANCE PingPong2 WITH turn <- sync, i <- nth, os <- log
S == INSTANCE SharedMem WITH sem <- sync, message <- data, i <- nth, MessageCount <- Times, MaxRuns <- MaxStarts
U == INSTANCE UnixSocket WITH path <- sync, stream <- data, clients <- nth, received <- log,
                              Length <- Times, MaxClients <- MaxStarts
T == INSTANCE ThreadPool WITH stop <- sync, task_queue <- data, taken <- log, late <- nth

Init ==
  \/ subject = "ping_pong1" /\ P1!Init /\ data = <<>>
  \/ subject = "ping_pong2" /\ P2!Init /\ data = <<>>
  \/ subject = "shared_mem" /\ S!Init
  \/ subject = "socket" /\ U!Init
  \/ subject = "thread_pool" /\ T!Init

Next ==
  /\ UNCHANGED subject
  /\ \/ subject = "ping_pong1" /\ P1!Next /\ UNCHANGED data
     \/ subject = "ping_pong2" /\ P2!Next /\ UNCHANGED data
     \/ subject = "shared_mem" /\ S!Next
     \/ subject = "socket" /\ U!Next
     \/ subject = "thread_pool" /\ T!Next

(* the fairness of each program, for the runs of that program *)
Fairness ==
  /\ \A p \in {0, 1} : WF_vars(subject = "ping_pong1" /\ P1!Step(p) /\ UNCHANGED <<subject, data>>)
  /\ \A p \in {0, 1} : WF_vars(subject = "ping_pong2" /\ P2!Step(p) /\ UNCHANGED <<subject, data>>)
  /\ WF_vars(subject = "shared_mem" /\ S!Parent /\ UNCHANGED subject)
  /\ WF_vars(subject = "shared_mem" /\ S!Child /\ UNCHANGED subject)
  /\ WF_vars(subject = "socket" /\ U!Server /\ UNCHANGED subject)
  /\ WF_vars(subject = "socket" /\ U!Client /\ UNCHANGED subject)
  /\ \A w \in Worker : WF_vars(subject = "thread_pool" /\ T!Work(w) /\ UNCHANGED subject)

Spec == Init /\ [][Next]_vars /\ Fairness

-----------------------------------------------------------------------------
(* The two players write their lines in turn (ping_pong.cpp:6, 24), and    *)
(* the child reads each message once, whole, before the parent writes the  *)
(* next (shared_mem.cpp:47), whatever process is killed.                   *)
Takes == INSTANCE Turns WITH
  turns <- IF subject \in {"ping_pong1", "ping_pong2", "shared_mem"} THEN log ELSE <<>>
TakesTurns == Takes!Spec

(* What comes out is what went in, in its order.  A server that ends has   *)
(* all its client wrote (server.cpp:45); a pool takes its tasks in turn,   *)
(* and leaves none undone but those submitted after stop_ was true         *)
(* (thread_pool.hpp:32).                                                   *)
ServedInOrder ==
  CASE subject = "socket" -> U!StreamInOrder
    [] subject = "thread_pool" -> T!TasksServed
    [] OTHER -> TRUE

(* The players finish; so do parent and child, unless one is killed; a     *)
(* server, unless killed, ends or waits for its first client.  The pool's  *)
(* queue is emptied while a worker is awake: tasks wait for ever only when *)
(* all workers wait, which no submit ends (thread_pool.hpp:66).            *)
Subject(s, P) == subject = s /\ P
Terminates ==
  /\ Subject("ping_pong1", TRUE) ~> Subject("ping_pong1", P1!Done)
  /\ Subject("ping_pong2", TRUE) ~> Subject("ping_pong2", P2!Done)
  /\ Subject("shared_mem", TRUE) ~> Subject("shared_mem", S!Killed \/ S!Exited)
  /\ Subject("socket", TRUE) ~> Subject("socket", U!Settled)
  /\ Subject("thread_pool", T!Awake # {} /\ data # <<>>) ~> (data = <<>>)
=============================================================================

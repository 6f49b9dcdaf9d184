----------------------------- MODULE PingPong1 -----------------------------
(***************************************************************************)
(* ping_pong1 (concurrency/ping_pong.cpp): two threads write a line in     *)
(* turn, each waiting for a binary semaphore that the other releases.      *)
(* Player 0 is the calling thread, player 1 the jthread.                   *)
(***************************************************************************)
EXTENDS Naturals, Sequences

CONSTANT Times

VARIABLES
  sem,     \* ping_turn (0) and pong_turn (1)
  pc, i,   \* where each player is, and in which round
  os       \* the lines written: who wrote it, and the number in it

vars == <<sem, pc, i, os>>

Player == {0, 1}

Start == IF Times > 0 THEN "acquire" ELSE "done"

Init ==
  /\ sem = [p \in Player |-> 1 - p]
  /\ pc = [p \in Player |-> Start] /\ i = [p \in Player |-> 0]
  /\ os = <<>>

(* Slip: a player gives the turn away before its line is written *)
AfterAcquire_GivesAway(p) == [sem EXCEPT ![p] = 0, ![1 - p] = 1]

AfterAcquire(p) == [sem EXCEPT ![p] = 0]

acquire(p) ==
  /\ pc[p] = "acquire" /\ sem[p] = 1
  /\ sem' = AfterAcquire(p) /\ pc' = [pc EXCEPT ![p] = "write"]
  /\ UNCHANGED <<i, os>>

write(p) ==
  /\ pc[p] = "write"
  /\ os' = Append(os, <<p, i[p]>>) /\ pc' = [pc EXCEPT ![p] = "release"]
  /\ UNCHANGED <<sem, i>>

release(p) ==
  /\ pc[p] = "release"
  /\ sem' = [sem EXCEPT ![1 - p] = 1] /\ i' = [i EXCEPT ![p] = @ + 1]
  /\ pc' = [pc EXCEPT ![p] = IF i[p] + 1 < Times THEN "acquire" ELSE "done"]
  /\ UNCHANGED os

Step(p) == acquire(p) \/ write(p) \/ release(p)

Next == \E p \in Player : Step(p)

(* pong is joined when ping_pong1 returns: no turn is over before both are *)
Fairness == \A p \in Player : WF_vars(Step(p))
Spec == Init /\ [][Next]_vars /\ Fairness

Done == \A p \in Player : pc[p] = "done"
=============================================================================

----------------------------- MODULE PingPong2 -----------------------------
(***************************************************************************)
(* ping_pong2 (concurrency/ping_pong.cpp): the turn is an atomic number;   *)
(* who finds it is the other's waits for it to change.  A wait goes to     *)
(* sleep only if the number is still the one that was loaded, and wakes    *)
(* when notified, or for no reason.                                        *)
(***************************************************************************)
EXTENDS Naturals, Sequences

CONSTANT Times

VARIABLES
  turn,
  pc, i,   \* where each player is, and in which round
  os       \* the lines written: who wrote it, and the number in it

vars == <<turn, pc, i, os>>

Player == {0, 1}

Start == IF Times > 0 THEN "load" ELSE "done"

Init ==
  /\ turn = 0
  /\ pc = [p \in Player |-> Start] /\ i = [p \in Player |-> 0]
  /\ os = <<>>

(* Slip: who stores the turn leaves it to the other to look *)
Woken_Nobody(p) == pc

To(p, l) == pc' = [pc EXCEPT ![p] = l]

load(p) ==
  /\ pc[p] = "load" /\ To(p, IF turn = p THEN "action" ELSE "wait")
  /\ UNCHANGED <<turn, i, os>>

(* turn.wait(t): t was the other's number *)
wait(p) ==
  /\ pc[p] = "wait" /\ To(p, IF turn = 1 - p THEN "asleep" ELSE "load")
  /\ UNCHANGED <<turn, i, os>>

action(p) ==
  /\ pc[p] = "action" /\ To(p, "store")
  /\ os' = Append(os, <<p, i[p]>>) /\ UNCHANGED <<turn, i>>

store(p) == pc[p] = "store" /\ To(p, "notify") /\ turn' = 1 - p /\ UNCHANGED <<i, os>>

Woken(p) == [pc EXCEPT ![1 - p] = IF @ = "asleep" THEN "wait" ELSE @]

notify_one(p) ==
  /\ pc[p] = "notify"
  /\ pc' = [Woken(p) EXCEPT ![p] = IF i[p] + 1 < Times THEN "load" ELSE "done"]
  /\ i' = [i EXCEPT ![p] = @ + 1] /\ UNCHANGED <<turn, os>>

WakeForNoReason(p) == pc[p] = "asleep" /\ To(p, "wait") /\ UNCHANGED <<turn, i, os>>

Step(p) == load(p) \/ wait(p) \/ action(p) \/ store(p) \/ notify_one(p)

Next == \E p \in Player : Step(p) \/ WakeForNoReason(p)

(* a sleeper is only sure to wake when it is notified *)
Fairness == \A p \in Player : WF_vars(Step(p))
Spec == Init /\ [][Next]_vars /\ Fairness

Done == \A p \in Player : pc[p] = "done"
=============================================================================

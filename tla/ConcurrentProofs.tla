-------------------------- MODULE ConcurrentProofs --------------------------
(***************************************************************************)
(* What the programs that hand something over hand over in order, for any  *)
(* number of rounds, messages, bytes, tasks and workers: the players write *)
(* in turn, parent and child write and read in turn, the server writes out *)
(* what its client wrote, and the pool takes its tasks as they came.       *)
(*                                                                         *)
(* Each program has an invariant of its own, below; that of them all says  *)
(* that the subject's holds.  The invariants of the first three say who    *)
(* has the turn, and how long the log is then; Turns numbers what is done  *)
(* by the length of the log.                                               *)
(***************************************************************************)
EXTENDS Concurrent, SequenceTheorems, TLAPS

Player == {0, 1}

(* the number of an entry of the log tells whose it is, and which of them *)
LEMMA HalfOf ==
  ASSUME NEW n \in Nat, NEW p \in Player
  PROVE  (2 * n + p) % 2 = p /\ (2 * n + p) \div 2 = n
<1>1. CASE p = 0
  BY <1>1
<1>2. CASE p = 1
  BY <1>2
<1> QED  BY <1>1, <1>2 DEF Player

(* an entry that is the next one of Turns *)
Turned(p, n) == n < Times /\ Len(log) = 2 * n + p /\ log' = Append(log, <<p, n>>)

LEMMA TakesTurn ==
  ASSUME NEW p \in Player, NEW n \in Nat, Turned(p, n),
         subject \in {"ping_pong1", "ping_pong2", "shared_mem"}, UNCHANGED subject
  PROVE  Takes!TakeTurn
<1>1. Len(log) % 2 = p /\ Len(log) \div 2 = n
  BY HalfOf, Zenon DEF Turned
<1>2. Len(log) < 2 * Times
  BY ConcurrentAssumption DEF Turned, Player
<1>3. log' = Append(log, <<Len(log) % 2, Len(log) \div 2>>)
  BY <1>1, Zenon DEF Turned
<1> QED  BY <1>2, <1>3 DEF Takes!TakeTurn

-----------------------------------------------------------------------------
(* ping_pong1: the turn is always in one place, a semaphore, or a player   *)
(* between acquire and release.                                            *)
P1TypeOK ==
  /\ sync \in [Player -> {0, 1}]
  /\ pc \in [Player -> {"acquire", "write", "release", "done"}]
  /\ nth \in [Player -> Nat]
  /\ log \in Seq(Player \X Nat)

(* a player has its rounds before it, or is done *)
P1RoundsCounted ==
  \A p \in Player : nth[p] <= Times /\ (pc[p] = "done" <=> nth[p] = Times)

(* p has the turn, and the other has not *)
P1HasTurn(p) == sync[p] = 1 \/ pc[p] \in {"write", "release"}
P1OneTurn ==
  /\ \E p \in Player : P1HasTurn(p)
  /\ ~ (P1HasTurn(0) /\ P1HasTurn(1))
  /\ \A p \in Player : sync[p] = 1 => pc[p] \in {"acquire", "done"}

(* who has the turn has played as often as the other, but for the order of *)
(* the two, and the lines are those of both                                *)
P1LinesCounted ==
  \A p \in Player : P1HasTurn(p) =>
    /\ nth[0] = nth[1] + p
    /\ Len(log) = 2 * nth[p] + p + (IF pc[p] = "release" THEN 1 ELSE 0)

P1IInv == P1TypeOK /\ P1RoundsCounted /\ P1OneTurn /\ P1LinesCounted

LEMMA P1InitIInv == ASSUME Times \in Nat, P1!Init PROVE P1IInv
BY DEF P1!Init, P1IInv, P1TypeOK, P1RoundsCounted, P1OneTurn, P1HasTurn, P1LinesCounted, Player, P1!Player, P1!Start

LEMMA P1AcquireIInv ==
  ASSUME Times \in Nat, P1IInv, NEW p \in Player, P1!acquire(p) PROVE P1IInv'
BY DEF P1!acquire, P1!AfterAcquire, P1IInv, P1TypeOK, P1RoundsCounted, P1OneTurn, P1HasTurn, P1LinesCounted, Player

(* What the holder of the turn knows. *)
LEMMA P1TurnKnown ==
  ASSUME Times \in Nat, P1IInv, NEW p \in Player, P1HasTurn(p)
  PROVE  /\ nth[p] \in Nat /\ nth[p] <= Times /\ nth[0] = nth[1] + p
         /\ log \in Seq(Player \X Nat)
         /\ Len(log) = 2 * nth[p] + p + (IF pc[p] = "release" THEN 1 ELSE 0)
         /\ \A q \in Player : P1HasTurn(q) => q = p
BY DEF P1IInv, P1TypeOK, P1RoundsCounted, P1OneTurn, P1LinesCounted, Player

LEMMA P1WriteIInv ==
  ASSUME Times \in Nat, P1IInv, NEW p \in Player, P1!write(p) PROVE P1IInv'
<1>1. P1HasTurn(p) /\ pc[p] = "write"
  BY DEF P1!write, P1HasTurn
<1>2. /\ log' \in Seq(Player \X Nat) /\ Len(log') = Len(log) + 1
      /\ UNCHANGED <<sync, nth>> /\ pc' = [pc EXCEPT ![p] = "release"]
  BY <1>1, P1TurnKnown, <<p, nth[p]>> \in Player \X Nat DEF P1!write
<1>3. P1TypeOK'
  BY <1>2 DEF P1IInv, P1TypeOK
<1>4. P1RoundsCounted'
  BY <1>1, <1>2 DEF P1IInv, P1TypeOK, P1RoundsCounted
<1>5. \A q \in Player : P1HasTurn(q)' <=> P1HasTurn(q)
  BY <1>1, <1>2 DEF P1IInv, P1TypeOK, P1HasTurn
<1>6. P1OneTurn'
  BY <1>1, <1>2, <1>5 DEF P1IInv, P1TypeOK, P1OneTurn, Player
<1>7. P1LinesCounted'
  <2> SUFFICES ASSUME NEW q \in Player, P1HasTurn(q)'
               PROVE  /\ nth'[0] = nth'[1] + q
                      /\ Len(log') = 2 * nth'[q] + q + (IF pc'[q] = "release" THEN 1 ELSE 0)
    BY DEF P1LinesCounted
  <2>1. q = p
    BY <1>1, <1>5, P1TurnKnown
  <2>2. pc'[p] = "release"
    BY <1>2 DEF P1IInv, P1TypeOK
  <2>3. Len(log) = 2 * nth[p] + p /\ nth[0] = nth[1] + p /\ nth[p] \in Nat /\ Len(log) \in Nat
    BY <1>1, P1TurnKnown DEF Player
  <2> QED  BY <1>2, <2>1, <2>2, <2>3 DEF Player
<1> QED  BY <1>3, <1>4, <1>6, <1>7 DEF P1IInv

LEMMA P1ReleaseIInv ==
  ASSUME Times \in Nat, P1IInv, NEW p \in Player, P1!release(p) PROVE P1IInv'
<1>1. P1HasTurn(p) /\ pc[p] = "release" /\ nth[p] \in Nat /\ nth[p] < Times
  BY DEF P1!release, P1HasTurn, P1IInv, P1TypeOK, P1RoundsCounted
<1>2. /\ nth[p] + 1 <= Times /\ nth[p] + 1 \in Nat /\ 1 - p \in Player /\ 1 - p # p
      /\ (nth[p] + 1 < Times <=> nth[p] + 1 # Times)
  BY <1>1 DEF Player
<1>3. P1TypeOK'
  BY <1>2 DEF P1!release, P1IInv, P1TypeOK
<1>4. P1RoundsCounted'
  BY <1>1, <1>2 DEF P1!release, P1IInv, P1TypeOK, P1RoundsCounted
<1>5. ~P1HasTurn(1 - p) /\ sync[p] = 0
  BY <1>1, <1>2, P1TurnKnown DEF P1IInv, P1TypeOK, P1OneTurn
<1>6. ~P1HasTurn(p)' /\ sync'[1 - p] = 1 /\ pc'[1 - p] = pc[1 - p] /\ nth'[1 - p] = nth[1 - p]
  BY <1>2, <1>5 DEF P1!release, P1HasTurn, P1IInv, P1TypeOK
<1>7. P1OneTurn'
  <2>1. pc[1 - p] \in {"acquire", "done"}
    BY <1>2, <1>5 DEF P1HasTurn, P1IInv, P1TypeOK
  <2> QED  BY <1>2, <1>6, <2>1 DEF P1OneTurn, P1HasTurn, Player
<1>8. P1LinesCounted'
  <2>1. Len(log') = 2 * nth[p] + p + 1 /\ nth[0] = nth[1] + p
    BY <1>1, P1TurnKnown DEF P1!release
  <2>2. nth'[0] = nth'[1] + (1 - p) /\ 2 * nth[p] + p + 1 = 2 * nth'[1 - p] + (1 - p)
    <3>1. nth' = [nth EXCEPT ![p] = nth[p] + 1] /\ nth \in [Player -> Nat]
      BY DEF P1!release, P1IInv, P1TypeOK
    <3>2. CASE p = 0
      BY <2>1, <3>1, <3>2 DEF Player
    <3>3. CASE p = 1
      BY <2>1, <3>1, <3>3 DEF Player
    <3> QED  BY <3>2, <3>3 DEF Player
  <2>3. pc'[1 - p] # "release"
    BY <1>2, <1>5, <1>6 DEF P1HasTurn
  <2> QED  BY <1>6, <2>1, <2>2, <2>3 DEF P1LinesCounted, Player
<1> QED  BY <1>3, <1>4, <1>7, <1>8 DEF P1IInv


LEMMA P1Next ==
  ASSUME Times \in Nat, P1IInv, P1!Next
  PROVE  /\ P1IInv'
         /\ UNCHANGED log \/ \E p \in Player, n \in Nat : Turned(p, n)
<1>1. ASSUME NEW p \in Player, P1!acquire(p) PROVE P1IInv' /\ UNCHANGED log
  BY <1>1, P1AcquireIInv DEF P1!acquire
<1>2. ASSUME NEW p \in Player, P1!write(p) PROVE P1IInv' /\ nth[p] \in Nat /\ Turned(p, nth[p])
  <2>1. P1HasTurn(p) /\ pc[p] = "write"
    BY <1>2 DEF P1!write, P1HasTurn
  <2>2. nth[p] # Times
    BY <2>1 DEF P1IInv, P1RoundsCounted
  <2>3. nth[p] \in Nat /\ nth[p] <= Times /\ Len(log) = 2 * nth[p] + p
    BY <2>1, P1TurnKnown DEF Player
  <2>4. Turned(p, nth[p])
    BY <1>2, <2>2, <2>3 DEF P1!write, Turned
  <2> QED  BY <1>2, <2>3, <2>4, P1WriteIInv
<1>3. ASSUME NEW p \in Player, P1!release(p) PROVE P1IInv' /\ UNCHANGED log
  BY <1>3, P1ReleaseIInv DEF P1!release
<1> QED  BY <1>1, <1>2, <1>3 DEF P1!Next, P1!Step, P1!Player, Player

-----------------------------------------------------------------------------
(* ping_pong2: the turn's number alone decides who may write; a player     *)
(* that has stored it may still have to notify while the other is already  *)
(* writing, so a round counts as played from the store on.                 *)
P2TypeOK ==
  /\ sync \in Player
  /\ pc \in [Player -> {"load", "wait", "asleep", "action", "store", "notify", "done"}]
  /\ nth \in [Player -> Nat]
  /\ log \in Seq(Player \X Nat)

(* a player has its rounds before it, or is done *)
P2RoundsCounted ==
  \A p \in Player : nth[p] <= Times /\ (pc[p] = "done" <=> nth[p] = Times)

(* only who has the sync writes, and stores *)
P2WritesInTurn == \A p \in Player : pc[p] \in {"action", "store"} => sync = p

(* the lines are those of the rounds played, and of the one being played *)
P2Played(p) == IF pc[p] = "notify" THEN nth[p] + 1 ELSE nth[p]
P2Written(p) == IF pc[p] = "store" THEN 1 ELSE 0
P2LinesCounted ==
  /\ P2Played(0) = P2Played(1) + sync
  /\ Len(log) = 2 * P2Played(sync) + sync + P2Written(sync)

P2IInv == P2TypeOK /\ P2RoundsCounted /\ P2WritesInTurn /\ P2LinesCounted

LEMMA P2InitIInv == ASSUME Times \in Nat, P2!Init PROVE P2IInv
<1>1. P2TypeOK /\ P2RoundsCounted /\ P2WritesInTurn
  BY DEF P2!Init, P2TypeOK, P2RoundsCounted, P2WritesInTurn, Player, P2!Player, P2!Start
<1>2. P2LinesCounted
  BY DEF P2!Init, P2LinesCounted, P2Played, P2Written, Player, P2!Player, P2!Start
<1> QED  BY <1>1, <1>2 DEF P2IInv

(* A step between load, wait, asleep and P2!action changes no count.          *)
LEMMA P2LookIInv ==
  ASSUME Times \in Nat, P2IInv, NEW p \in Player, NEW l \in {"load", "wait", "asleep", "action"},
         pc[p] \in {"load", "wait", "asleep"}, P2!To(p, l), UNCHANGED <<sync, nth, log>>,
         l = "action" => sync = p
  PROVE  P2IInv'
<1>1. P2TypeOK'
  BY DEF P2!To, P2IInv, P2TypeOK
<1>2. P2RoundsCounted'
  BY DEF P2!To, P2IInv, P2TypeOK, P2RoundsCounted
<1>3. P2WritesInTurn'
  BY DEF P2!To, P2IInv, P2TypeOK, P2WritesInTurn
<1>4. \A q \in Player : P2Played(q)' = P2Played(q) /\ P2Written(q)' = P2Written(q)
  BY DEF P2!To, P2IInv, P2TypeOK, P2Played, P2Written
<1>5. P2LinesCounted'
  BY <1>4 DEF P2IInv, P2TypeOK, P2LinesCounted, Player
<1> QED  BY <1>1, <1>2, <1>3, <1>5 DEF P2IInv

LEMMA P2ActionIInv ==
  ASSUME Times \in Nat, P2IInv, NEW p \in Player, P2!action(p) PROVE P2IInv'
<1>1. sync = p /\ nth[p] \in Nat
  BY DEF P2!action, P2IInv, P2TypeOK, P2WritesInTurn
<1>2. /\ log' \in Seq(Player \X Nat) /\ Len(log') = Len(log) + 1
      /\ UNCHANGED <<sync, nth>> /\ pc' = [pc EXCEPT ![p] = "store"] /\ pc[p] = "action"
  BY <1>1, <<p, nth[p]>> \in Player \X Nat DEF P2!action, P2!To, P2IInv, P2TypeOK
<1>3. P2TypeOK'
  BY <1>2 DEF P2IInv, P2TypeOK
<1>4. P2RoundsCounted'
  BY <1>2 DEF P2IInv, P2TypeOK, P2RoundsCounted
<1>5. P2WritesInTurn'
  BY <1>1, <1>2 DEF P2IInv, P2TypeOK, P2WritesInTurn
<1>6. P2LinesCounted'
  <2>1. \A q \in Player : P2Played(q)' = P2Played(q) /\ P2Played(q) \in Nat
    BY <1>2 DEF P2IInv, P2TypeOK, P2Played
  <2>2. P2Written(p) = 0 /\ P2Written(p)' = 1
    BY <1>2 DEF P2IInv, P2TypeOK, P2Written
  <2> QED  BY <1>1, <1>2, <2>1, <2>2 DEF P2IInv, P2LinesCounted, Player
<1> QED  BY <1>3, <1>4, <1>5, <1>6 DEF P2IInv

LEMMA P2StoreIInv ==
  ASSUME Times \in Nat, P2IInv, NEW p \in Player, P2!store(p) PROVE P2IInv'
<1>1. sync = p /\ sync' = 1 - p /\ 1 - p \in Player /\ 1 - p # p
  BY DEF P2!store, P2IInv, P2WritesInTurn, Player
<1>2. pc[p] = "store" /\ pc' = [pc EXCEPT ![p] = "notify"] /\ UNCHANGED <<nth, log>>
  BY DEF P2!store, P2!To
<1>3. P2TypeOK'
  BY <1>1, <1>2 DEF P2IInv, P2TypeOK
<1>4. P2RoundsCounted'
  BY <1>2 DEF P2IInv, P2TypeOK, P2RoundsCounted
<1>5. P2WritesInTurn'
  BY <1>1, <1>2 DEF P2IInv, P2TypeOK, P2WritesInTurn
<1>6. P2LinesCounted'
  <2>1. /\ P2Played(p)' = P2Played(p) + 1 /\ P2Played(1 - p)' = P2Played(1 - p)
        /\ P2Played(p) \in Nat /\ P2Played(1 - p) \in Nat
    BY <1>1, <1>2 DEF P2IInv, P2TypeOK, P2Played
  <2>2. P2Written(p) = 1 /\ P2Written(1 - p)' = 0
    BY <1>1, <1>2 DEF P2IInv, P2TypeOK, P2WritesInTurn, P2Written
  <2>3. P2Played(0) = P2Played(1) + p /\ Len(log) = 2 * P2Played(p) + p + 1
    BY <1>1, <2>2 DEF P2IInv, P2LinesCounted
  <2>4. CASE p = 0
    BY <1>1, <1>2, <2>1, <2>2, <2>3, <2>4 DEF P2LinesCounted
  <2>5. CASE p = 1
    BY <1>1, <1>2, <2>1, <2>2, <2>3, <2>5 DEF P2LinesCounted
  <2> QED  BY <2>4, <2>5 DEF Player
<1> QED  BY <1>3, <1>4, <1>5, <1>6 DEF P2IInv

LEMMA P2NotifyIInv ==
  ASSUME Times \in Nat, P2IInv, NEW p \in Player, P2!notify_one(p) PROVE P2IInv'
<1>1. /\ pc[p] = "notify" /\ 1 - p \in Player /\ 1 - p # p
      /\ nth[p] \in Nat /\ nth[p] < Times /\ nth[p] + 1 \in Nat
  BY DEF P2!notify_one, P2IInv, P2TypeOK, P2RoundsCounted, Player
<1>2. /\ nth' = [nth EXCEPT ![p] = nth[p] + 1] /\ UNCHANGED <<sync, log>>
      /\ pc' \in [Player -> {"load", "wait", "asleep", "action", "store", "notify", "done"}]
      /\ pc'[p] = (IF nth[p] + 1 < Times THEN "load" ELSE "done")
      /\ pc'[1 - p] = (IF pc[1 - p] = "asleep" THEN "wait" ELSE pc[1 - p])
  BY <1>1 DEF P2!notify_one, P2!Woken, P2IInv, P2TypeOK
<1>3. P2TypeOK'
  BY <1>1, <1>2 DEF P2IInv, P2TypeOK
<1>4. P2RoundsCounted'
  <2>1. nth'[p] <= Times /\ (pc'[p] = "done" <=> nth'[p] = Times)
    BY <1>1, <1>2 DEF P2IInv, P2TypeOK
  <2>2. nth'[1 - p] <= Times /\ (pc'[1 - p] = "done" <=> nth'[1 - p] = Times)
    BY <1>1, <1>2 DEF P2IInv, P2TypeOK, P2RoundsCounted
  <2> QED  BY <2>1, <2>2 DEF P2RoundsCounted, Player
<1>5. P2WritesInTurn'
  <2>1. pc'[p] \notin {"action", "store"}
    BY <1>2
  <2>2. pc'[1 - p] \in {"action", "store"} => sync' = 1 - p
    BY <1>1, <1>2 DEF P2IInv, P2WritesInTurn
  <2> QED  BY <2>1, <2>2 DEF P2WritesInTurn, Player
<1>6. P2LinesCounted'
  <2>1. \A q \in {p, 1 - p} : P2Played(q)' = P2Played(q) /\ P2Written(q)' = P2Written(q)
    BY <1>1, <1>2 DEF P2IInv, P2TypeOK, P2Played, P2Written
  <2>2. P2Played(0)' = P2Played(0) /\ P2Played(1)' = P2Played(1)
        /\ P2Played(sync)' = P2Played(sync) /\ P2Written(sync)' = P2Written(sync)
    BY <1>2, <2>1 DEF P2IInv, P2TypeOK, Player
  <2> QED  BY <1>2, <2>2 DEF P2IInv, P2LinesCounted
<1> QED  BY <1>3, <1>4, <1>5, <1>6 DEF P2IInv


LEMMA P2Next ==
  ASSUME Times \in Nat, P2IInv, P2!Next
  PROVE  /\ P2IInv'
         /\ UNCHANGED log \/ \E p \in Player, n \in Nat : Turned(p, n)
<1>1. ASSUME NEW p \in Player, P2!load(p) \/ P2!wait(p) \/ P2!WakeForNoReason(p)
      PROVE  P2IInv' /\ UNCHANGED log
  <2>1. CASE P2!load(p)
    BY <2>1, P2LookIInv DEF P2!load
  <2>2. CASE P2!wait(p)
    BY <2>2, P2LookIInv DEF P2!wait
  <2>3. CASE P2!WakeForNoReason(p)
    BY <2>3, P2LookIInv DEF P2!WakeForNoReason
  <2> QED  BY <1>1, <2>1, <2>2, <2>3
<1>2. ASSUME NEW p \in Player, P2!action(p) PROVE P2IInv' /\ nth[p] \in Nat /\ Turned(p, nth[p])
  <2>1. sync = p /\ pc[p] = "action" /\ nth[p] \in Nat /\ nth[p] <= Times /\ nth[p] # Times
    BY <1>2 DEF P2!action, P2IInv, P2TypeOK, P2RoundsCounted, P2WritesInTurn
  <2>2. Len(log) = 2 * nth[p] + p
    BY <2>1 DEF P2IInv, P2LinesCounted, P2Played, P2Written, Player
  <2>3. Turned(p, nth[p])
    BY <1>2, <2>1, <2>2 DEF P2!action, Turned
  <2> QED  BY <1>2, <2>1, <2>3, P2ActionIInv
<1>3. ASSUME NEW p \in Player, P2!store(p) PROVE P2IInv' /\ UNCHANGED log
  BY <1>3, P2StoreIInv DEF P2!store
<1>4. ASSUME NEW p \in Player, P2!notify_one(p) PROVE P2IInv' /\ UNCHANGED log
  BY <1>4, P2NotifyIInv DEF P2!notify_one
<1> QED  BY <1>1, <1>2, <1>3, <1>4 DEF P2!Next, P2!Step, P2!Player, Player

-----------------------------------------------------------------------------
(* shared_mem: at most one of the two semaphores and of the two processes  *)
(* has the turn; a process that is killed keeps it.  The child's message   *)
(* is whole, and the one whose reading is next.                            *)
ShmLabel == {"wait", "write", "write on", "post", "waitpid", "read", "compare", "last post",
             "exited", "killed"}

ShmTypeOK ==
  /\ sync \in [{"parent", "child"} -> {0, 1}] /\ pc \in [{"parent", "child"} -> ShmLabel]
  /\ data \in [{1, 2} -> Nat] /\ nth \in [message : Nat, run : Nat]
  /\ log \in Seq(Player \X Nat)

ShmLabels ==
  /\ pc["parent"] \in {"wait", "write", "write on", "post", "waitpid", "exited", "killed"}
  /\ pc["child"] \in {"wait", "read", "compare", "post", "last post", "exited", "killed"}

(* who has the turn *)
ParentHas == pc["parent"] \in {"write", "write on", "post"}
ChildHas == pc["child"] \in {"read", "compare", "post", "last post"}
ShmOneTurn ==
  /\ ~ (sync["parent"] = 1 /\ sync["child"] = 1) /\ ~ (ParentHas /\ ChildHas)
  /\ ParentHas \/ ChildHas => sync["parent"] = 0 /\ sync["child"] = 0

(* the parent has its messages before it *)
MessagesCounted ==
  pc["parent"] \in {"wait", "write", "write on", "post"} => nth.message < Times

(* it is the parent's turn, or will be when the child has posted *)
ParentsTurn ==
  \/ pc["parent"] \in {"write", "write on"}
  \/ pc["parent"] = "wait" /\ (sync["parent"] = 1 \/ pc["child"] \in {"compare", "post", "last post"})

(* there is a message the child has not read *)
Unread == sync["child"] = 1 \/ pc["child"] = "read" \/ pc["parent"] = "post"

ShmCounted ==
  /\ ParentsTurn => Len(log) = 2 * nth.message
  /\ pc["parent"] = "write on" => data[1] = nth.message
  /\ Unread => data[1] = data[2] /\ data[1] < Times /\ Len(log) = 2 * data[1] + 1
  /\ pc["parent"] = "post" => data[1] = nth.message
  /\ pc["parent"] = "wait" /\ Unread => nth.message = data[1] + 1

ShmIInv == ShmTypeOK /\ ShmLabels /\ ShmOneTurn /\ MessagesCounted /\ ShmCounted

LEMMA ShmTo ==
  ASSUME ShmTypeOK, NEW p \in {"parent", "child"}, NEW l \in ShmLabel, S!To(p, l)
  PROVE  /\ pc' \in [{"parent", "child"} -> ShmLabel] /\ pc'[p] = l
         /\ \A q \in {"parent", "child"} \ {p} : pc'[q] = pc[q]
BY DEF S!To, ShmTypeOK

LEMMA ShmWaits ==
  ASSUME ShmTypeOK, NEW p \in {"parent", "child"}, S!sem_wait(p)
  PROVE  /\ sync' \in [{"parent", "child"} -> {0, 1}] /\ sync[p] = 1 /\ sync'[p] = 0
         /\ \A q \in {"parent", "child"} \ {p} : sync'[q] = sync[q]
BY DEF S!sem_wait, ShmTypeOK

LEMMA ShmPosts ==
  ASSUME ShmTypeOK, NEW p \in {"parent", "child"}, S!sem_post(p), sync[p] = 0
  PROVE  /\ sync' \in [{"parent", "child"} -> {0, 1}] /\ sync'[p] = 1
         /\ \A q \in {"parent", "child"} \ {p} : sync'[q] = sync[q]
BY DEF S!sem_post, ShmTypeOK

LEMMA ShmBegins ==
  ASSUME Times \in Nat \ {0}, sync' = S!SemInit, pc' = [parent |-> "wait", child |-> "wait"],
         data' \in [{1, 2} -> Nat], nth' \in [message : Nat, run : Nat], nth'.message = 0, log' = <<>>
  PROVE  ShmIInv'
<1>1. /\ sync' \in [{"parent", "child"} -> {0, 1}] /\ sync'["parent"] = 1 /\ sync'["child"] = 0
      /\ pc' \in [{"parent", "child"} -> ShmLabel] /\ pc'["parent"] = "wait" /\ pc'["child"] = "wait"
  <2>1. sync' = [parent |-> 1, child |-> 0] /\ pc' = [parent |-> "wait", child |-> "wait"]
    BY DEF S!SemInit
  <2>2. sync' \in [{"parent", "child"} -> {0, 1}] /\ sync'["parent"] = 1 /\ sync'["child"] = 0
    BY <2>1
  <2>3. pc' \in [{"parent", "child"} -> {"wait"}] /\ pc'["parent"] = "wait" /\ pc'["child"] = "wait"
    BY <2>1
  <2> QED  BY <2>2, <2>3 DEF ShmLabel
<1>2. ShmTypeOK'
  BY <1>1 DEF ShmTypeOK
<1> QED
  BY <1>1, <1>2 DEF ShmIInv, ShmLabels, ShmOneTurn, ParentHas, ChildHas, MessagesCounted,
                    ParentsTurn, Unread, ShmCounted

LEMMA ParentWaitIInv == ASSUME Times \in Nat, ShmIInv, S!ParentWait PROVE ShmIInv'
<1>1. /\ pc["parent"] = "wait" /\ S!To("parent", "write") /\ S!sem_wait("parent")
      /\ UNCHANGED <<data, nth, log>> /\ ShmTypeOK
  BY DEF S!ParentWait, ShmIInv
<1>2. /\ sync["parent"] = 1 /\ sync'["parent"] = 0 /\ sync'["child"] = sync["child"]
      /\ pc'["parent"] = "write" /\ pc'["child"] = pc["child"] /\ ShmTypeOK'
  BY <1>1, ShmTo, ShmWaits DEF ShmTypeOK, ShmLabel
<1> QED
  BY <1>1, <1>2 DEF ShmIInv, ShmLabels, ShmOneTurn, ParentHas, ChildHas, MessagesCounted,
                    ParentsTurn, Unread, ShmCounted, ShmTypeOK

LEMMA ParentPostIInv == ASSUME Times \in Nat, ShmIInv, S!ParentPost PROVE ShmIInv'
<1>1. /\ pc["parent"] = "post" /\ S!sem_post("child") /\ UNCHANGED <<data, log>> /\ ShmTypeOK
      /\ S!To("parent", IF nth.message + 1 < Times THEN "wait" ELSE "waitpid")
      /\ nth' = [nth EXCEPT !.message = nth.message + 1] /\ nth \in [message : Nat, run : Nat]
      /\ sync["parent"] = 0 /\ sync["child"] = 0 /\ ~ChildHas
  BY DEF S!ParentPost, ShmIInv, ShmTypeOK, ShmOneTurn, ParentHas
<1>2. nth' \in [message : Nat, run : Nat] /\ nth'.message = nth.message + 1
  BY <1>1
<1>3. /\ sync'["child"] = 1 /\ sync'["parent"] = 0
      /\ pc'["parent"] = IF nth.message + 1 < Times THEN "wait" ELSE "waitpid"
      /\ pc'["child"] = pc["child"] /\ ShmTypeOK'
  BY <1>1, <1>2, ShmTo, ShmPosts DEF ShmTypeOK, ShmLabel
<1> QED
  BY <1>1, <1>2, <1>3 DEF ShmIInv, ShmLabels, ShmOneTurn, ParentHas, ChildHas, MessagesCounted,
                    ParentsTurn, Unread, ShmCounted, ShmTypeOK

LEMMA ShmInitIInv == ASSUME Times \in Nat \ {0}, S!Init PROVE ShmIInv
<1>1. /\ sync \in [{"parent", "child"} -> {0, 1}] /\ sync["parent"] = 1 /\ sync["child"] = 0
      /\ pc \in [{"parent", "child"} -> ShmLabel] /\ pc["parent"] = "wait" /\ pc["child"] = "wait"
  <2>1. sync = [parent |-> 1, child |-> 0] /\ pc = [parent |-> "wait", child |-> "wait"]
    BY DEF S!Init, S!SemInit
  <2>2. sync \in [{"parent", "child"} -> {0, 1}] /\ sync["parent"] = 1 /\ sync["child"] = 0
    BY <2>1
  <2>3. pc \in [{"parent", "child"} -> {"wait"}] /\ pc["parent"] = "wait" /\ pc["child"] = "wait"
    BY <2>1
  <2> QED  BY <2>2, <2>3 DEF ShmLabel
<1>2. nth \in [message : Nat, run : Nat] /\ nth.message = 0 /\ log = <<>> /\ data \in [{1, 2} -> Nat]
  BY DEF S!Init, S!Blank
<1>3. ShmTypeOK
  BY <1>1, <1>2 DEF ShmTypeOK
<1> QED
  BY <1>1, <1>2, <1>3 DEF ShmIInv, ShmLabels, ShmOneTurn, ParentHas, ChildHas, MessagesCounted,
                          ParentsTurn, Unread, ShmCounted

LEMMA ShmRunIInv == ASSUME Times \in Nat \ {0}, ShmIInv, S!Run PROVE ShmIInv'
<1>1. nth.run \in Nat /\ data \in [{1, 2} -> Nat]
  BY DEF ShmIInv, ShmTypeOK
<1>2. nth' \in [message : Nat, run : Nat] /\ nth'.message = 0 /\ data' \in [{1, 2} -> Nat]
  BY <1>1 DEF S!Run, S!Blank
<1> QED  BY <1>2, ShmBegins DEF S!Run, S!SemOfNextRun

LEMMA WriteIInv == ASSUME Times \in Nat, ShmIInv, S!Write PROVE ShmIInv'
<1>1. /\ pc["parent"] = "write" /\ S!To("parent", "write on") /\ ShmTypeOK
      /\ UNCHANGED <<sync, nth, log>> /\ data' = [data EXCEPT ![1] = nth.message] /\ nth.message \in Nat
  BY DEF S!Write, S!HalfWritten, ShmIInv, ShmTypeOK
<1>2. data' \in [{1, 2} -> Nat] /\ data'[1] = nth.message
  BY <1>1 DEF ShmTypeOK
<1>3. pc'["parent"] = "write on" /\ pc'["child"] = pc["child"] /\ ShmTypeOK'
  BY <1>1, <1>2, ShmTo DEF ShmTypeOK, ShmLabel
<1> QED
  BY <1>1, <1>2, <1>3 DEF ShmIInv, ShmLabels, ShmOneTurn, ParentHas, ChildHas, MessagesCounted,
                    ParentsTurn, Unread, ShmCounted, ShmTypeOK

LEMMA WriteOnIInv ==
  ASSUME Times \in Nat, ShmIInv, S!WriteOn
  PROVE  ShmIInv' /\ nth.message \in Nat /\ Turned(0, nth.message)
<1>1. /\ pc["parent"] = "write on" /\ S!To("parent", "post") /\ ShmTypeOK
      /\ UNCHANGED <<sync, nth>> /\ data' = [data EXCEPT ![2] = nth.message]
      /\ log' = Append(log, <<0, nth.message>>)
  BY DEF S!WriteOn, ShmIInv
<1>2. /\ nth.message \in Nat /\ nth.message < Times /\ data[1] = nth.message
      /\ Len(log) = 2 * nth.message
  BY <1>1 DEF ShmIInv, ShmTypeOK, MessagesCounted, ShmCounted, ParentsTurn
<1>3. log' \in Seq(Player \X Nat) /\ Len(log') = Len(log) + 1
  <2>1. <<0, nth.message>> \in Player \X Nat /\ log \in Seq(Player \X Nat)
    BY <1>1, <1>2 DEF Player, ShmTypeOK
  <2> DEFINE entry == <<0, nth.message>>
             Entries == Player \X Nat
  <2> HIDE DEF entry, Entries
  <2>2. ASSUME entry \in Entries, log \in Seq(Entries)
        PROVE  Append(log, entry) \in Seq(Entries) /\ Len(Append(log, entry)) = Len(log) + 1
    BY <2>2, AppendProperties
  <2> QED  BY <1>1, <2>1, <2>2 DEF entry, Entries
<1>4. data' \in [{1, 2} -> Nat] /\ data'[1] = nth.message /\ data'[2] = nth.message
  BY <1>1, <1>2 DEF ShmTypeOK
<1>5. pc'["parent"] = "post" /\ pc'["child"] = pc["child"] /\ ShmTypeOK'
  BY <1>1, <1>3, <1>4, ShmTo DEF ShmTypeOK, ShmLabel
<1>6. Turned(0, nth.message)
  <2>1. Len(log) = 2 * nth.message + 0
    BY <1>2
  <2> QED  BY <1>1, <1>2, <2>1 DEF Turned
<1> QED
  BY <1>1, <1>2, <1>3, <1>4, <1>5, <1>6 DEF ShmIInv, ShmLabels, ShmOneTurn, ParentHas, ChildHas,
                    MessagesCounted, ParentsTurn, Unread, ShmCounted, ShmTypeOK

LEMMA WaitpidIInv == ASSUME Times \in Nat, ShmIInv, S!Waitpid PROVE ShmIInv'
<1>1. /\ pc["parent"] = "waitpid" /\ S!To("parent", "exited") /\ ShmTypeOK
      /\ UNCHANGED <<sync, data, nth, log>>
  BY DEF S!Waitpid, ShmIInv
<1>2. pc'["parent"] = "exited" /\ pc'["child"] = pc["child"] /\ ShmTypeOK'
  BY <1>1, ShmTo DEF ShmTypeOK, ShmLabel
<1> QED
  BY <1>1, <1>2 DEF ShmIInv, ShmLabels, ShmOneTurn, ParentHas, ChildHas, MessagesCounted,
                    ParentsTurn, Unread, ShmCounted, ShmTypeOK

LEMMA ChildWaitIInv == ASSUME Times \in Nat, ShmIInv, S!ChildWait PROVE ShmIInv'
<1>1. /\ pc["child"] = "wait" /\ S!To("child", "read") /\ S!sem_wait("child")
      /\ UNCHANGED <<data, nth, log>> /\ ShmTypeOK
  BY DEF S!ChildWait, ShmIInv
<1>2. /\ sync["child"] = 1 /\ sync'["child"] = 0 /\ sync'["parent"] = sync["parent"]
      /\ pc'["child"] = "read" /\ pc'["parent"] = pc["parent"] /\ ShmTypeOK'
  BY <1>1, ShmTo, ShmWaits DEF ShmTypeOK, ShmLabel
<1> QED
  BY <1>1, <1>2 DEF ShmIInv, ShmLabels, ShmOneTurn, ParentHas, ChildHas, MessagesCounted,
                    ParentsTurn, Unread, ShmCounted, ShmTypeOK

LEMMA ReadIInv ==
  ASSUME Times \in Nat, ShmIInv, S!Read
  PROVE  ShmIInv' /\ data[1] \in Nat /\ Turned(1, data[1])
<1>1. /\ pc["child"] = "read" /\ S!To("child", "compare") /\ ShmTypeOK /\ UNCHANGED <<sync, data, nth>>
      /\ log' = Append(log, <<1, IF data[1] = data[2] THEN data[1] ELSE S!Torn>>)
  BY DEF S!Read, ShmIInv
<1>2. data[1] \in Nat /\ data[1] = data[2] /\ data[1] < Times /\ Len(log) = 2 * data[1] + 1
  BY <1>1 DEF ShmIInv, ShmTypeOK, ShmCounted, Unread
<1>3. log' = Append(log, <<1, data[1]>>)
  BY <1>1, <1>2
<1>4. log' \in Seq(Player \X Nat) /\ Len(log') = Len(log) + 1
  <2>1. <<1, data[1]>> \in Player \X Nat /\ log \in Seq(Player \X Nat)
    BY <1>1, <1>2 DEF Player, ShmTypeOK
  <2> QED  BY <1>3, <2>1, AppendProperties
<1>5. pc'["child"] = "compare" /\ pc'["parent"] = pc["parent"] /\ ShmTypeOK'
  BY <1>1, <1>4, ShmTo DEF ShmTypeOK, ShmLabel
<1>6. Turned(1, data[1])
  BY <1>2, <1>3 DEF Turned
<1>7. /\ sync["parent"] = 0 /\ sync["child"] = 0 /\ ~ParentHas
      /\ pc["parent"] = "wait" => nth.message = data[1] + 1 /\ nth.message < Times
  BY <1>1 DEF ShmIInv, ShmOneTurn, ParentHas, ChildHas, MessagesCounted, Unread, ShmCounted
<1>8. ShmCounted'
  <2>1. ~Unread' /\ pc'["parent"] \notin {"write", "write on", "post"}
    <3>1. sync'["child"] # 1
      BY <1>1, <1>7
    <3>2. pc'["parent"] \notin {"write", "write on", "post"}
      BY <1>5, <1>7 DEF ParentHas
    <3>3. pc'["child"] # "read"
      BY <1>5
    <3> QED  BY <3>1, <3>2, <3>3, Zenon DEF Unread
  <2>2. pc'["parent"] = "wait" => Len(log') = 2 * nth'.message
    BY <1>1, <1>2, <1>4, <1>5, <1>7
  <2> QED  BY <2>1, <2>2 DEF ParentsTurn, ShmCounted
<1>9. ShmLabels' /\ ShmOneTurn' /\ MessagesCounted'
  BY <1>1, <1>5, <1>7 DEF ShmIInv, ShmLabels, ShmOneTurn, ParentHas, ChildHas, MessagesCounted
<1> QED  BY <1>2, <1>5, <1>6, <1>8, <1>9 DEF ShmIInv

LEMMA CompareIInv == ASSUME Times \in Nat, ShmIInv, S!Compare PROVE ShmIInv'
<1>1. PICK l \in {"post", "last post"} : S!To("child", l)
  BY DEF S!Compare
<1>2. pc["child"] = "compare" /\ ShmTypeOK /\ UNCHANGED <<sync, data, nth, log>>
  BY DEF S!Compare, ShmIInv
<1>3. pc'["child"] = l /\ pc'["parent"] = pc["parent"] /\ ShmTypeOK'
  BY <1>1, <1>2, ShmTo DEF ShmTypeOK, ShmLabel
<1> QED
  BY <1>2, <1>3 DEF ShmIInv, ShmLabels, ShmOneTurn, ParentHas, ChildHas, MessagesCounted,
                    ParentsTurn, Unread, ShmCounted, ShmTypeOK

LEMMA ChildPostIInv == ASSUME Times \in Nat, ShmIInv, S!ChildPost PROVE ShmIInv'
<1>1. PICK l \in {"wait", "exited"} : S!To("child", l)
  BY DEF S!ChildPost
<1>2. /\ pc["child"] \in {"post", "last post"} /\ ShmTypeOK /\ UNCHANGED <<data, nth, log>>
      /\ S!sem_post("parent") /\ sync["parent"] = 0 /\ sync["child"] = 0 /\ ~ParentHas
  BY DEF S!ChildPost, ShmIInv, ShmOneTurn, ShmTypeOK, ChildHas
<1>3. /\ pc'["child"] = l /\ pc'["parent"] = pc["parent"] /\ ShmTypeOK'
      /\ sync'["parent"] = 1 /\ sync'["child"] = 0
  BY <1>1, <1>2, ShmTo, ShmPosts DEF ShmTypeOK, ShmLabel
<1> QED
  BY <1>2, <1>3 DEF ShmIInv, ShmLabels, ShmOneTurn, ParentHas, ChildHas, MessagesCounted,
                    ParentsTurn, Unread, ShmCounted, ShmTypeOK

LEMMA KillIInv ==
  ASSUME Times \in Nat, ShmIInv, NEW p \in {"parent", "child"}, S!Kill(p) PROVE ShmIInv'
<1>1. S!To(p, "killed") /\ ShmTypeOK /\ UNCHANGED <<sync, data, nth, log>>
  BY DEF S!Kill, ShmIInv
<1>2. /\ pc'[p] = "killed" /\ \A q \in {"parent", "child"} \ {p} : pc'[q] = pc[q]
      /\ ShmTypeOK'
  BY <1>1, ShmTo DEF ShmTypeOK, ShmLabel
<1>3. CASE p = "parent"
  BY <1>1, <1>2, <1>3 DEF ShmIInv, ShmLabels, ShmOneTurn, ParentHas, ChildHas, MessagesCounted,
                    ParentsTurn, Unread, ShmCounted, ShmTypeOK
<1>4. CASE p = "child"
  BY <1>1, <1>2, <1>4 DEF ShmIInv, ShmLabels, ShmOneTurn, ParentHas, ChildHas, MessagesCounted,
                    ParentsTurn, Unread, ShmCounted, ShmTypeOK
<1> QED  BY <1>3, <1>4

LEMMA ShmNext ==
  ASSUME Times \in Nat \ {0}, ShmIInv, S!Next
  PROVE  /\ ShmIInv'
         /\ \/ UNCHANGED log \/ \E p \in Player, n \in Nat : Turned(p, n)
            \/ log' = <<>>
<1>1. CASE S!ParentWait \/ S!Write \/ S!ParentPost \/ S!Waitpid \/ S!ChildWait \/ S!Compare \/ S!ChildPost
  <2>1. UNCHANGED log
    BY <1>1 DEF S!ParentWait, S!Write, S!ParentPost, S!Waitpid, S!ChildWait, S!Compare, S!ChildPost
  <2> QED
    BY <1>1, <2>1, ParentWaitIInv, WriteIInv, ParentPostIInv, WaitpidIInv, ChildWaitIInv, CompareIInv,
       ChildPostIInv
<1>2. CASE S!WriteOn
  BY <1>2, WriteOnIInv DEF Player
<1>3. CASE S!Read
  BY <1>3, ReadIInv DEF Player
<1>4. CASE S!Run
  BY <1>4, ShmRunIInv DEF S!Run
<1>5. ASSUME NEW p \in {"parent", "child"}, S!Kill(p) PROVE ShmIInv' /\ UNCHANGED log
  BY <1>5, KillIInv DEF S!Kill
<1> QED  BY <1>1, <1>2, <1>3, <1>4, <1>5 DEF S!Next, S!Parent, S!Child, S!Process

-----------------------------------------------------------------------------
(* The socket.  What the server has and what is on the way is nothing, or  *)
(* the message, and is nothing until the first client has written; without *)
(* an end no server stops reading.                                         *)
SockLabel == {"unlink", "bind", "listen", "accept", "read", "close", "exited", "failed", "killed",
              "connect", "write"}

Connection == [bytes : Seq(Nat), closed : BOOLEAN]

SockTypeOK ==
  /\ pc \in [{"server", "client"} -> SockLabel]
  /\ data \in Seq(Connection) /\ log \in Seq(Nat) /\ nth \in Nat \ {0}

(* who uses a connection has one *)
Connected ==
  /\ pc["server"] \in {"read", "close", "exited"} => Len(data) > 0
  /\ pc["client"] \in {"write", "close"} => Len(data) > 0
  /\ Len(data) + (IF pc["client"] = "connect" THEN 1 ELSE 0) <= nth

Delivered ==
  IF Len(data) = 0 THEN log = <<>> ELSE log \o data[1].bytes \in {<<>>, U!Message}

(* the first connection, before its client has written *)
Unwritten ==
  pc["client"] = "write" /\ Len(data) = 1 => log = <<>> /\ data[1].bytes = <<>> /\ ~data[1].closed

(* the server goes on to the end *)
ReadToEnd == pc["server"] \in {"close", "exited"} => data[1].bytes = <<>> /\ data[1].closed

(* the first client has written all, when it has written *)
FirstClient ==
  nth = 1 /\ pc["client"] \in {"close", "exited"} =>
    Len(data) = 1 /\ log \o data[1].bytes = U!Message

SockIInv == SockTypeOK /\ Connected /\ Delivered /\ Unwritten /\ ReadToEnd /\ FirstClient

LEMMA MessageIs == ASSUME Times \in Nat PROVE U!Message \in Seq(Nat) /\ <<>> \o U!Message = U!Message
<1>1. U!Message \in Seq(Nat)
  BY DEF U!Message
<1> QED  BY <1>1, ConcatEmptySeq

LEMMA SockTo ==
  ASSUME SockTypeOK, NEW p \in {"server", "client"}, NEW l \in SockLabel, U!To(p, l)
  PROVE  /\ pc' \in [{"server", "client"} -> SockLabel] /\ pc'[p] = l
         /\ \A q \in {"server", "client"} \ {p} : pc'[q] = pc[q]
BY DEF U!To, SockTypeOK

LEMMA SockInitIInv == ASSUME Times \in Nat, U!Init PROVE SockIInv
<1>1. pc = [server |-> "unlink", client |-> "connect"] /\ data = <<>> /\ log = <<>> /\ nth = 1
  BY DEF U!Init
<1>2. /\ pc \in [{"server", "client"} -> SockLabel]
      /\ pc["server"] = "unlink" /\ pc["client"] = "connect"
  <2>1. /\ pc \in [{"server", "client"} -> {"unlink", "connect"}]
        /\ pc["server"] = "unlink" /\ pc["client"] = "connect"
    BY <1>1
  <2> QED  BY <2>1 DEF SockLabel
<1>3. SockTypeOK
  BY <1>1, <1>2 DEF SockTypeOK
<1> QED
  BY <1>1, <1>2, <1>3 DEF SockIInv, Connected, Delivered, Unwritten, ReadToEnd, FirstClient

(* The server goes on, and reads nothing. *)
LEMMA ServerGoesOn ==
  ASSUME SockIInv, NEW l \in SockLabel, U!To("server", l), UNCHANGED <<data, log, nth>>,
         l \in {"read", "close", "exited"} => Len(data) > 0,
         l \in {"close", "exited"} => data[1].bytes = <<>> /\ data[1].closed
  PROVE  SockIInv'
<1>1. /\ pc'["server"] = l /\ pc'["client"] = pc["client"] /\ SockTypeOK'
  BY SockTo DEF SockIInv, SockTypeOK
<1> QED
  BY <1>1 DEF SockIInv, Connected, Delivered, Unwritten, ReadToEnd, FirstClient

LEMMA ServerIInv ==
  ASSUME SockIInv, U!ServerUnlink \/ U!Bind \/ U!Listen \/ U!Accept \/ U!ServerClose \/ U!KillServer
  PROVE  SockIInv'
<1>1. PICK l \in SockLabel : U!To("server", l) /\ UNCHANGED <<data, log, nth>>
                             /\ l \in {"read", "exited", "bind", "listen", "failed", "accept", "killed"}
                             /\ (l = "read" => Len(data) > 0)
                             /\ (l = "exited" => pc["server"] = "close")
  BY DEF U!ServerUnlink, U!Bind, U!Listen, U!Accept, U!ServerClose, U!KillServer, SockLabel, SockIInv, SockTypeOK
<1>2. pc["server"] = "close" => Len(data) > 0 /\ data[1].bytes = <<>> /\ data[1].closed
  BY DEF SockIInv, Connected, ReadToEnd
<1> QED  BY <1>1, <1>2, ServerGoesOn

LEMMA ConnectionBytes ==
  ASSUME NEW c \in Connection, NEW bytes \in Seq(Nat), NEW d, d = [c EXCEPT !.bytes = bytes]
  PROVE  d \in Connection /\ d.bytes = bytes /\ d.closed = c.closed
BY DEF Connection

LEMMA ConnectionClosed ==
  ASSUME NEW c \in Connection, NEW d, d = [c EXCEPT !.closed = TRUE]
  PROVE  d \in Connection /\ d.bytes = c.bytes /\ d.closed
BY DEF Connection

(* One connection of several is changed. *)
LEMMA Changed ==
  ASSUME NEW s \in Seq(Connection), NEW k \in 1 .. Len(s), NEW d \in Connection, NEW r,
         r = [s EXCEPT ![k] = d]
  PROVE  /\ r \in Seq(Connection) /\ Len(r) = Len(s) /\ r[k] = d
         /\ \A n \in 1 .. Len(s) : n # k => r[n] = s[n]
BY ExceptSeq

LEMMA Associates ==
  ASSUME NEW s \in Seq(Nat), NEW t \in Seq(Nat), NEW u \in Seq(Nat)
  PROVE  (s \o t) \o u = s \o (t \o u)
BY SMTT(30)

(* What is read was on the way before. *)
LEMMA TakesSome ==
  ASSUME NEW s \in Seq(Nat), NEW t \in Seq(Nat), NEW n \in 1 .. Len(t)
  PROVE  /\ SubSeq(t, 1, n) \in Seq(Nat) /\ SubSeq(t, n + 1, Len(t)) \in Seq(Nat)
         /\ (s \o SubSeq(t, 1, n)) \o SubSeq(t, n + 1, Len(t)) = s \o t
<1>1. SubSeq(t, 1, n) \in Seq(Nat) /\ SubSeq(t, n + 1, Len(t)) \in Seq(Nat)
  BY SubSeqProperties
<1>2. SubSeq(t, 1, n) \o SubSeq(t, n + 1, Len(t)) = t
  BY ConcatAdjacentSubSeq, SubSeqFull
<1>3. (s \o SubSeq(t, 1, n)) \o SubSeq(t, n + 1, Len(t)) = s \o (SubSeq(t, 1, n) \o SubSeq(t, n + 1, Len(t)))
  BY <1>1, Associates
<1> QED  BY <1>1, <1>2, <1>3

LEMMA SockReadIInv == ASSUME Times \in Nat, BufferSize \in Nat, SockIInv, U!Read PROVE SockIInv'
<1>1. pc["server"] = "read" /\ Len(data) > 0 /\ UNCHANGED nth /\ SockTypeOK
  BY DEF U!Read, SockIInv, Connected
<1>2. CASE U!AtEnd /\ U!To("server", "close") /\ UNCHANGED <<data, log>>
  BY <1>1, <1>2, ServerGoesOn DEF U!AtEnd, SockLabel
<1>3. ASSUME NEW n \in 1 .. BufferSize, n <= Len(data[1].bytes),
             log' = log \o SubSeq(data[1].bytes, 1, n),
             data' = [data EXCEPT ![1].bytes = SubSeq(data[1].bytes, n + 1, Len(data[1].bytes))],
             UNCHANGED pc
      PROVE  SockIInv'
  <2>1. /\ data[1] \in Connection /\ log \in Seq(Nat) /\ data \in Seq(Connection)
        /\ data = <<>> <=> Len(data) = 0
    BY <1>1, ElementOfSeq DEF SockTypeOK
  <2>2. data[1].bytes \in Seq(Nat) /\ data[1].closed \in BOOLEAN
    BY <2>1 DEF Connection
  <2>3. n \in 1 .. Len(data[1].bytes) /\ data[1].bytes # <<>>
    BY <1>3, <2>2
  <2> DEFINE rest == SubSeq(data[1].bytes, n + 1, Len(data[1].bytes))
  <2>4. /\ rest \in Seq(Nat) /\ log' \in Seq(Nat) /\ log' \o rest = log \o data[1].bytes
    <3>1. SubSeq(data[1].bytes, 1, n) \in Seq(Nat) /\ rest \in Seq(Nat)
      BY <2>2, <2>3, TakesSome
    <3>2. log' \o rest = log \o data[1].bytes
      BY <1>3, <2>1, <2>2, <2>3, TakesSome
    <3>3. log' \in Seq(Nat)
      BY <1>3, <2>1, <3>1, ConcatProperties
    <3> QED  BY <3>1, <3>2, <3>3
  <2>5. data' = [data EXCEPT ![1] = [data[1] EXCEPT !.bytes = rest]]
    BY <1>3
  <2> HIDE DEF rest
  <2>6. /\ data' \in Seq(Connection) /\ Len(data') = Len(data)
        /\ data'[1].bytes = rest /\ data'[1].closed = data[1].closed
    <3> DEFINE d == [data[1] EXCEPT !.bytes = rest]
    <3>1. d \in Connection /\ d.bytes = rest /\ d.closed = data[1].closed
      BY <2>1, <2>4, ConnectionBytes
    <3>2. data' = [data EXCEPT ![1] = d] /\ 1 \in 1 .. Len(data)
      BY <1>1, <2>1, <2>5
    <3> HIDE DEF d
    <3>3. data' \in Seq(Connection) /\ Len(data') = Len(data) /\ data'[1] = d
      BY <2>1, <3>1, <3>2, Changed
    <3> QED  BY <3>1, <3>3
  <2>7. SockTypeOK' /\ Connected'
    BY <1>1, <1>3, <2>4, <2>6 DEF SockIInv, SockTypeOK, Connected
  <2>8. Delivered' /\ FirstClient'
    <3>1. U!Message' = U!Message /\ log' \o data'[1].bytes = log \o data[1].bytes
      BY <2>4, <2>6 DEF U!Message
    <3>2. log \o data[1].bytes \in {<<>>, U!Message}
      BY <1>1 DEF SockIInv, Delivered
    <3>3. Delivered'
      BY <1>1, <2>6, <3>1, <3>2 DEF Delivered
    <3>4. FirstClient'
      BY <1>1, <1>3, <2>6, <3>1 DEF SockIInv, FirstClient
    <3> QED  BY <3>3, <3>4
  <2>9. Unwritten' /\ ReadToEnd'
    BY <1>1, <1>3, <2>3, <2>6 DEF SockIInv, Unwritten, ReadToEnd
  <2> QED  BY <2>7, <2>8, <2>9 DEF SockIInv
<1> QED  BY <1>2, <1>3 DEF U!Read

(* A client that goes, and writes nothing. *)
SameBytes ==
  /\ data' \in Seq(Connection) /\ Len(data') = Len(data)
  /\ Len(data) > 0 => /\ data'[1].bytes = data[1].bytes
                      /\ data[1].closed => data'[1].closed

LEMMA ClientGoes ==
  ASSUME Times \in Nat, SockIInv, NEW l \in {"failed", "killed", "exited"}, U!To("client", l), SameBytes,
         UNCHANGED <<log, nth>>, l = "exited" => pc["client"] = "close"
  PROVE  SockIInv'
<1>1. pc'["client"] = l /\ pc'["server"] = pc["server"] /\ SockTypeOK'
  BY SockTo DEF SockIInv, SockTypeOK, SockLabel, SameBytes
<1>2. Connected' /\ Unwritten'
  BY <1>1 DEF SockIInv, SockTypeOK, Connected, Unwritten, SameBytes
<1>3. U!Message' = U!Message
  BY DEF U!Message
<1>4. Len(data') = Len(data) /\ Len(data) \in Nat /\ (Len(data) # 0 => data'[1].bytes = data[1].bytes)
  BY DEF SameBytes, SockIInv, SockTypeOK
<1>5. Delivered'
  BY <1>3, <1>4 DEF SockIInv, Delivered
<1>6. ReadToEnd'
  <2>1. CASE Len(data) = 0
    BY <1>1, <2>1 DEF SockIInv, ReadToEnd, Connected
  <2>2. CASE Len(data) > 0
    BY <1>1, <2>2 DEF SockIInv, ReadToEnd, SameBytes
  <2> QED  BY <1>4, <2>1, <2>2
<1>7. FirstClient'
  <2>1. Len(data') = 1 => Len(data) = 1 /\ data'[1].bytes = data[1].bytes
    BY <1>4
  <2>2. nth = 1 /\ pc["client"] = "close" => Len(data) = 1 /\ log \o data[1].bytes = U!Message
    BY DEF SockIInv, FirstClient
  <2> QED  BY <1>1, <1>3, <1>4, <2>1, <2>2 DEF FirstClient
<1> QED  BY <1>1, <1>2, <1>5, <1>6, <1>7 DEF SockIInv

LEMMA ClosedSame ==
  ASSUME SockIInv, Len(data) > 0, data' = U!Closed
  PROVE  SameBytes
<1>1. data \in Seq(Connection) /\ Len(data) \in Nat /\ Len(data) \in 1 .. Len(data) /\ 1 \in 1 .. Len(data)
  BY DEF SockIInv, SockTypeOK
<1> DEFINE c == data[Len(data)]
           d == [c EXCEPT !.closed = TRUE]
<1>2. d \in Connection /\ d.bytes = c.bytes /\ d.closed
  BY <1>1, ElementOfSeq, ConnectionClosed
<1>3. data' = [data EXCEPT ![Len(data)] = d]
  BY DEF U!Closed
<1> HIDE DEF d
<1>4. /\ data' \in Seq(Connection) /\ Len(data') = Len(data) /\ data'[Len(data)] = d
      /\ \A n \in 1 .. Len(data) : n # Len(data) => data'[n] = data[n]
  BY <1>1, <1>2, <1>3, Changed
<1>5. CASE Len(data) = 1
  BY <1>2, <1>4, <1>5 DEF SameBytes
<1>6. CASE Len(data) # 1
  BY <1>1, <1>4, <1>6 DEF SameBytes
<1> QED  BY <1>5, <1>6

LEMMA ConnectIInv == ASSUME Times \in Nat, SockIInv, U!Connect PROVE SockIInv'
<1>1. pc["client"] = "connect" /\ UNCHANGED <<nth, log>> /\ SockTypeOK /\ data \in Seq(Connection) /\ Len(data) \in Nat
  BY DEF U!Connect, SockIInv, SockTypeOK
<1>2. CASE U!To("client", "failed") /\ UNCHANGED data
  BY <1>1, <1>2, ClientGoes DEF SameBytes
<1>3. CASE data' = Append(data, [bytes |-> <<>>, closed |-> FALSE]) /\ U!To("client", "write")
  <2> DEFINE new == [bytes |-> <<>>, closed |-> FALSE]
  <2>1. new \in Connection /\ new.bytes = <<>> /\ ~new.closed
    BY DEF Connection
  <2>2. data' = Append(data, new)
    BY <1>3
  <2> HIDE DEF new
  <2>3. /\ data' \in Seq(Connection) /\ Len(data') = Len(data) + 1
        /\ Len(data) > 0 => data'[1] = data[1]
        /\ Len(data) = 0 => data'[1] = new
    BY <1>1, <2>1, <2>2, AppendProperties
  <2>4. pc'["client"] = "write" /\ pc'["server"] = pc["server"] /\ SockTypeOK'
    BY <1>1, <1>3, <2>3, SockTo DEF SockTypeOK, SockLabel
  <2>5. Connected'
    BY <1>1, <2>3, <2>4 DEF SockIInv, Connected, SockTypeOK
  <2>6. Delivered' /\ Unwritten' /\ ReadToEnd' /\ FirstClient'
    <3>1. U!Message' = U!Message /\ (<<>> \o <<>> = <<>>)
      BY DEF U!Message
    <3>2. CASE Len(data) = 0
      <4>1. log = <<>> /\ pc["server"] \notin {"close", "exited"}
        BY <3>2 DEF SockIInv, Delivered, Connected
      <4>2. log' \o data'[1].bytes = <<>>
        BY <1>1, <2>1, <2>3, <3>1, <3>2, <4>1
      <4> QED  BY <1>1, <2>1, <2>3, <2>4, <3>2, <4>1, <4>2 DEF Delivered, Unwritten, ReadToEnd, FirstClient
    <3>3. CASE Len(data) > 0
      <4>1. Len(data') > 1 /\ data'[1] = data[1]
        BY <1>1, <2>3, <3>3
      <4>2. Delivered'
        BY <1>1, <3>1, <3>3, <4>1 DEF SockIInv, Delivered
      <4>3. Unwritten' /\ FirstClient'
        BY <2>4, <4>1 DEF Unwritten, FirstClient
      <4>4. ReadToEnd'
        BY <2>4, <4>1, Zenon DEF SockIInv, ReadToEnd
      <4> QED  BY <4>2, <4>3, <4>4
    <3> QED  BY <1>1, <3>2, <3>3
  <2> QED  BY <2>4, <2>5, <2>6 DEF SockIInv
<1> QED  BY <1>2, <1>3 DEF U!Connect

LEMMA SockWriteIInv == ASSUME Times \in Nat, SockIInv, U!Write PROVE SockIInv'
<1>1. pc["client"] = "write" /\ Len(data) > 0 /\ UNCHANGED <<nth, log>> /\ SockTypeOK
  BY DEF U!Write, SockIInv, Connected
<1>2. CASE U!To("client", "failed") /\ data' = U!Closed
  BY <1>1, <1>2, ClosedSame, ClientGoes
<1>3. CASE U!To("client", "close") /\ data' = [data EXCEPT ![Len(data)].bytes = U!Message]
  <2>1. data \in Seq(Connection) /\ Len(data) \in Nat /\ Len(data) \in 1 .. Len(data) /\ 1 \in 1 .. Len(data)
    BY <1>1 DEF SockTypeOK
  <2> DEFINE c == data[Len(data)]
             d == [c EXCEPT !.bytes = U!Message]
  <2>2. d \in Connection /\ d.bytes = U!Message /\ d.closed = c.closed
    BY <2>1, ElementOfSeq, ConnectionBytes, MessageIs
  <2>3. data' = [data EXCEPT ![Len(data)] = d]
    BY <1>3
  <2> HIDE DEF d
  <2>4. /\ data' \in Seq(Connection) /\ Len(data') = Len(data) /\ data'[Len(data)] = d
        /\ \A n \in 1 .. Len(data) : n # Len(data) => data'[n] = data[n]
    BY <2>1, <2>2, <2>3, Changed
  <2>5. pc'["client"] = "close" /\ pc'["server"] = pc["server"] /\ SockTypeOK'
    BY <1>1, <1>3, <2>4, SockTo DEF SockTypeOK, SockLabel
  <2>6. Connected' /\ Unwritten'
    BY <1>1, <2>4, <2>5 DEF SockIInv, Connected, Unwritten
  <2>7. U!Message' = U!Message /\ <<>> \o U!Message = U!Message
    BY MessageIs DEF U!Message
  <2>8. CASE Len(data) = 1
    <3>1. /\ log = <<>> /\ pc["server"] \notin {"close", "exited"} /\ data'[1].bytes = U!Message
      BY <1>1, <2>2, <2>4, <2>8 DEF SockIInv, Unwritten, ReadToEnd
    <3>2. log' \o data'[1].bytes = U!Message'
      BY <1>1, <2>7, <3>1
    <3> QED  BY <2>4, <2>5, <2>6, <2>8, <3>1, <3>2 DEF SockIInv, Delivered, ReadToEnd, FirstClient
  <2>9. CASE Len(data) # 1
    <3>1. data'[1] = data[1] /\ nth' # 1 /\ Len(data) > 1
      BY <1>1, <2>1, <2>4, <2>9 DEF SockIInv, SockTypeOK, Connected
    <3>2. Delivered' /\ ReadToEnd' /\ FirstClient'
      BY <1>1, <2>4, <2>5, <2>7, <3>1 DEF SockIInv, Delivered, ReadToEnd, FirstClient
    <3> QED  BY <2>5, <2>6, <3>2 DEF SockIInv
  <2> QED  BY <2>8, <2>9
<1> QED  BY <1>2, <1>3 DEF U!Write

LEMMA ClientEndsIInv ==
  ASSUME Times \in Nat, SockIInv, U!ClientClose \/ U!KillClient PROVE SockIInv'
<1>1. CASE U!ClientClose
  BY <1>1, ClosedSame, ClientGoes DEF U!ClientClose, SockIInv, Connected
<1>2. CASE U!KillClient /\ pc["client"] = "connect"
  BY <1>2, ClientGoes DEF U!KillClient, SameBytes, SockIInv, SockTypeOK
<1>3. CASE U!KillClient /\ pc["client"] \in {"write", "close"}
  BY <1>3, ClosedSame, ClientGoes DEF U!KillClient, SockIInv, Connected
<1> QED  BY <1>1, <1>2, <1>3 DEF U!KillClient

LEMMA NextClientIInv == ASSUME SockIInv, U!NextClient PROVE SockIInv'
<1>1. /\ pc["client"] # "connect" /\ nth' = nth + 1 /\ UNCHANGED <<data, log>> /\ U!To("client", "connect")
      /\ nth \in Nat \ {0} /\ nth' \in Nat \ {0} /\ nth' # 1
  BY DEF U!NextClient, SockIInv, SockTypeOK
<1>2. pc'["client"] = "connect" /\ pc'["server"] = pc["server"] /\ SockTypeOK'
  BY <1>1, SockTo DEF SockIInv, SockTypeOK, SockLabel
<1>3. Len(data) \in Nat
  BY DEF SockIInv, SockTypeOK
<1> QED
  BY <1>1, <1>2, <1>3 DEF SockIInv, Connected, Delivered, Unwritten, ReadToEnd, FirstClient, U!Message

LEMMA SockNextIInv ==
  ASSUME Times \in Nat, BufferSize \in Nat, SockIInv, U!Next PROVE SockIInv'
BY ServerIInv, SockReadIInv, ConnectIInv, SockWriteIInv, ClientEndsIInv, NextClientIInv
   DEF U!Next, U!Server, U!Client

LEMMA SockIInvInOrder == ASSUME Times \in Nat, SockIInv PROVE U!StreamInOrder
<1>1. data \in Seq(Connection) /\ log \in Seq(Nat) /\ (data = <<>> <=> Len(data) = 0)
  BY DEF SockIInv, SockTypeOK
<1>2. pc["server"] = "exited" /\ pc["client"] = "exited" /\ nth = 1 => log = U!Message
  <2>1. log \o <<>> = log
    BY <1>1, ConcatEmptySeq
  <2> QED  BY <2>1 DEF SockIInv, ReadToEnd, FirstClient
<1> QED  BY <1>1, <1>2 DEF U!StreamInOrder, SockIInv, Delivered, ReadToEnd

-----------------------------------------------------------------------------
(* thread_pool.  That only late tasks are left is not inductive: it says   *)
(* nothing until the workers have been joined.  A worker that has left is  *)
(* the reason: it saw stop_ and an empty queue, and what came after that   *)
(* came late.                                                              *)
PoolLabel == {"unborn", "loop", "waiting", "woken", "task", "left",
              "constructor", "client", "join", "joined"}

PoolTypeOK ==
  /\ sync \in BOOLEAN
  /\ data \in Seq(Nat) /\ log \in Seq(Nat)
  /\ pc \in [Worker \cup {"client"} -> PoolLabel]

(* the tasks by their numbers *)
PoolNumbered ==
  /\ \A n \in 1 .. Len(log) : log[n] = n
  /\ \A n \in 1 .. Len(data) : data[n] = Len(log) + n

(* what is in the queue after a worker has left came too late *)
PoolLateAfterLeft ==
  \A w \in Worker : pc[w] = "left" =>
    sync /\ \A n \in 1 .. Len(data) : data[n] \in nth

PoolJoinedLeft == pc["client"] = "joined" => \A w \in Worker : pc[w] \in {"unborn", "left"}

PoolIInv == PoolTypeOK /\ PoolNumbered /\ PoolLateAfterLeft /\ PoolJoinedLeft

LEMMA PoolInitIInv == ASSUME "client" \notin Worker, T!Init PROVE PoolIInv
BY DEF T!Init, PoolIInv, PoolTypeOK, PoolLabel, PoolNumbered, PoolLateAfterLeft, PoolJoinedLeft

(* A step that moves a thread to a label other than "left" and "joined"    *)
(* and changes nothing else.                                               *)
LEMMA PoolMoveIInv ==
  ASSUME "client" \notin Worker, PoolIInv, NEW t \in Worker \cup {"client"},
         NEW l \in PoolLabel \ {"left", "joined"}, T!To(t, l),
         pc["client"] = "joined" => t \in Worker /\ pc[t] \notin {"unborn", "left"},
         sync' \in BOOLEAN, sync => sync', UNCHANGED <<data, log, nth>>
  PROVE  PoolIInv'
<1>1. PoolTypeOK'
  BY DEF T!To, PoolIInv, PoolTypeOK
<1>2. PoolNumbered'
  BY DEF PoolIInv, PoolNumbered
<1>3. PoolLateAfterLeft'
  BY DEF T!To, PoolIInv, PoolTypeOK, PoolLateAfterLeft
<1>4. PoolJoinedLeft'
  BY DEF T!To, PoolIInv, PoolTypeOK, PoolJoinedLeft
<1> QED  BY <1>1, <1>2, <1>3, <1>4 DEF PoolIInv

LEMMA PoolSubmitIInv == ASSUME "client" \notin Worker, PoolIInv, T!submit PROVE PoolIInv'
<1>1. /\ Len(log) \in Nat /\ Len(data) \in Nat /\ T!Submitted + 1 \in Nat
      /\ T!Submitted + 1 = Len(log) + Len(data) + 1
  BY DEF PoolIInv, PoolTypeOK, T!Submitted
<1>2. /\ data' = Append(data, T!Submitted + 1) /\ UNCHANGED <<sync, pc, log>>
      /\ nth' = (IF sync THEN nth \cup {T!Submitted + 1} ELSE nth)
  BY DEF T!submit
<1>3. /\ data' \in Seq(Nat) /\ Len(data') = Len(data) + 1
      /\ \A n \in 1 .. Len(data) : data'[n] = data[n]
      /\ data'[Len(data) + 1] = T!Submitted + 1
  BY <1>1, <1>2 DEF PoolIInv, PoolTypeOK
<1>4. PoolTypeOK'
  BY <1>2, <1>3 DEF PoolIInv, PoolTypeOK
<1>5. PoolNumbered'
  <2>1. \A n \in 1 .. Len(log') : log'[n] = n
    BY <1>2 DEF PoolIInv, PoolNumbered
  <2>2. ASSUME NEW n \in 1 .. Len(data') PROVE data'[n] = Len(log') + n
    <3>1. CASE n = Len(data) + 1
      BY <1>1, <1>2, <1>3, <3>1
    <3>2. CASE n \in 1 .. Len(data)
      BY <1>2, <1>3, <3>2 DEF PoolIInv, PoolNumbered
    <3> QED  BY <1>1, <1>3, <3>1, <3>2
  <2> QED  BY <2>1, <2>2 DEF PoolNumbered
<1>6. PoolLateAfterLeft'
  BY <1>1, <1>2, <1>3 DEF PoolIInv, PoolLateAfterLeft
<1>7. PoolJoinedLeft'
  BY <1>2 DEF PoolIInv, PoolJoinedLeft
<1> QED  BY <1>4, <1>5, <1>6, <1>7 DEF PoolIInv

(* A worker that takes a task, and one that leaves.                        *)
LEMMA PoolTakeIInv ==
  ASSUME "client" \notin Worker, PoolIInv, NEW w \in Worker, pc[w] \in {"loop", "woken"}, T!To(w, "task"),
         data # <<>>, data' = Tail(data),
         log' = Append(log, Head(data)), UNCHANGED <<sync, nth>>
  PROVE  PoolIInv'
<1>1. /\ Len(log) \in Nat /\ Len(data) \in Nat \ {0}
      /\ Head(data) = data[1] /\ data[1] \in Nat
  BY DEF PoolIInv, PoolTypeOK
<1>2. /\ data' \in Seq(Nat) /\ Len(data') = Len(data) - 1
      /\ \A n \in 1 .. Len(data') : data'[n] = data[n + 1]
  BY HeadTailProperties DEF PoolIInv, PoolTypeOK
<1>3. /\ log' \in Seq(Nat) /\ Len(log') = Len(log) + 1
      /\ \A n \in 1 .. Len(log) : log'[n] = log[n]
      /\ log'[Len(log) + 1] = data[1]
  BY <1>1 DEF PoolIInv, PoolTypeOK
<1>4. PoolTypeOK'
  BY <1>2, <1>3 DEF T!To, PoolIInv, PoolTypeOK, PoolLabel
<1>5. PoolNumbered'
  BY <1>1, <1>2, <1>3 DEF PoolIInv, PoolNumbered
<1>6. PoolLateAfterLeft'
  BY <1>1, <1>2 DEF T!To, PoolIInv, PoolTypeOK, PoolLateAfterLeft
<1>7. PoolJoinedLeft'
  BY DEF T!To, PoolIInv, PoolTypeOK, PoolJoinedLeft
<1> QED  BY <1>4, <1>5, <1>6, <1>7 DEF PoolIInv

LEMMA PoolLeaveIInv ==
  ASSUME "client" \notin Worker, PoolIInv, NEW w \in Worker, pc[w] \in {"loop", "woken"}, T!To(w, "left"),
         sync, data = <<>>, UNCHANGED <<sync, data, log, nth>>
  PROVE  PoolIInv'
<1>1. PoolTypeOK'
  BY DEF T!To, PoolIInv, PoolTypeOK, PoolLabel
<1>2. PoolNumbered' /\ Len(data') = 0
  BY DEF PoolIInv, PoolNumbered
<1>3. PoolLateAfterLeft'
  BY <1>2 DEF T!To, PoolIInv, PoolTypeOK, PoolLateAfterLeft
<1>4. PoolJoinedLeft'
  BY DEF T!To, PoolIInv, PoolTypeOK, PoolJoinedLeft
<1> QED  BY <1>1, <1>2, <1>3, <1>4 DEF PoolIInv

LEMMA PoolEnterIInv ==
  ASSUME "client" \notin Worker, PoolIInv, NEW w \in Worker, T!Enter(w) PROVE PoolIInv'
<1>1. CASE T!MustWait(w)
  <2>1. T!To(w, "waiting") /\ pc[w] \in {"loop", "woken"} /\ UNCHANGED <<sync, data, log, nth>>
    BY <1>1 DEF T!Enter
  <2> QED  BY <2>1, PoolMoveIInv DEF PoolLabel, PoolIInv, PoolTypeOK
<1>2. CASE ~T!MustWait(w) /\ T!MayLeave
  BY <1>2, PoolLeaveIInv DEF T!Enter, T!MayLeave
<1>3. CASE ~T!MustWait(w) /\ ~T!MayLeave
  BY <1>3, PoolTakeIInv DEF T!Enter, T!MustWait, T!MayLeave, T!Popped, PoolIInv, PoolTypeOK
<1> QED  BY <1>1, <1>2, <1>3

LEMMA PoolJoinedIInv == ASSUME "client" \notin Worker, PoolIInv, T!Joined PROVE PoolIInv'
<1>1. PoolTypeOK'
  BY DEF T!Joined, T!To, PoolIInv, PoolTypeOK, PoolLabel
<1>2. PoolNumbered' /\ PoolLateAfterLeft' /\ PoolJoinedLeft'
  BY DEF T!Joined, T!To, PoolIInv, PoolTypeOK, PoolNumbered, PoolLateAfterLeft, PoolJoinedLeft
<1> QED  BY <1>1, <1>2 DEF PoolIInv

LEMMA PoolNextIInv == ASSUME "client" \notin Worker, PoolIInv, T!Next PROVE PoolIInv'
<1>1. CASE T!SpawnFails
  BY <1>1, PoolMoveIInv DEF T!SpawnFails, PoolLabel
<1>2. CASE T!Constructed \/ T!Destroy
  BY <1>2, PoolMoveIInv DEF T!Constructed, T!Destroy, PoolLabel, PoolIInv, PoolTypeOK
<1>3. CASE T!shut_down
  BY <1>3 DEF T!shut_down, PoolIInv, PoolTypeOK, PoolNumbered, PoolLateAfterLeft, PoolJoinedLeft
<1>4. CASE T!submit
  BY <1>4, PoolSubmitIInv
<1>5. CASE T!Joined
  BY <1>5, PoolJoinedIInv
<1>6. ASSUME NEW w \in Worker, T!Spawn(w) PROVE PoolIInv'
  BY <1>6, PoolMoveIInv DEF T!Spawn, PoolLabel, PoolIInv, PoolTypeOK
<1>7. ASSUME NEW w \in Worker, T!TaskEnds(w) \/ T!WakeForNoReason(w) PROVE PoolIInv'
  BY <1>7, PoolMoveIInv DEF T!TaskEnds, T!WakeForNoReason, PoolLabel, PoolIInv, PoolTypeOK
<1>8. ASSUME NEW w \in Worker, T!Enter(w) PROVE PoolIInv'
  BY <1>8, PoolEnterIInv
<1> QED  BY <1>1, <1>2, <1>3, <1>4, <1>5, <1>6, <1>7, <1>8 DEF T!Next, T!Work

LEMMA PoolIInvServes ==
  ASSUME "client" \notin Worker, Worker # {}, PoolIInv PROVE T!TasksServed
<1>1. /\ Len(log) \in Nat /\ Len(data) \in Nat
      /\ T!Submitted = Len(log) + Len(data)
  BY DEF PoolIInv, PoolTypeOK, T!Submitted
<1>2. log \o data = [n \in 1 .. T!Submitted |-> n]
  <2> DEFINE all == log \o data
  <2>1. all \in Seq(Nat) /\ Len(all) = T!Submitted
    BY <1>1 DEF PoolIInv, PoolTypeOK
  <2>2. ASSUME NEW n \in 1 .. T!Submitted PROVE all[n] = n
    <3>1. all[n] = IF n <= Len(log) THEN log[n] ELSE data[n - Len(log)]
      BY <1>1, ConcatProperties DEF PoolIInv, PoolTypeOK
    <3>2. CASE n <= Len(log)
      BY <1>1, <3>1, <3>2 DEF PoolIInv, PoolNumbered
    <3>3. CASE n > Len(log)
      <4>1. n - Len(log) \in 1 .. Len(data)
        BY <1>1, <3>3
      <4> QED  BY <1>1, <3>1, <3>3, <4>1 DEF PoolIInv, PoolNumbered
    <3> QED  BY <1>1, <3>2, <3>3
  <2> HIDE DEF all
  <2>3. all = [n \in 1 .. T!Submitted |-> all[n]]
    BY <2>1
  <2>4. all = [n \in 1 .. T!Submitted |-> n]
    BY <2>2, <2>3
  <2> QED  BY <2>4 DEF all
<1>3. ASSUME pc["client"] = "joined", Worker \cap T!Unborn = {}
      PROVE  \A n \in DOMAIN data : data[n] \in nth
  <2>1. PICK w \in Worker : pc[w] = "left"
    BY <1>3 DEF PoolIInv, PoolJoinedLeft, T!Unborn
  <2> QED  BY <2>1 DEF PoolIInv, PoolTypeOK, PoolLateAfterLeft
<1> QED  BY <1>2, <1>3 DEF T!TasksServed


-----------------------------------------------------------------------------
(* All of them.                                                            *)
IInv ==
  /\ subject \in {"ping_pong1", "ping_pong2", "shared_mem", "socket", "thread_pool"}
  /\ subject = "ping_pong1" => P1IInv
  /\ subject = "ping_pong2" => P2IInv
  /\ subject = "shared_mem" => ShmIInv
  /\ subject = "socket" => SockIInv
  /\ subject = "thread_pool" => PoolIInv

LEMMA InitIInv == ASSUME Init PROVE IInv
BY ConcurrentAssumption, P1InitIInv, P2InitIInv, ShmInitIInv, SockInitIInv, PoolInitIInv DEF Init, IInv

LEMMA Unchanged == ASSUME IInv, UNCHANGED vars PROVE IInv'
<1>1. subject \in {"ping_pong1", "ping_pong2", "shared_mem", "socket", "thread_pool"} /\ UNCHANGED subject
  BY DEF IInv, vars
<1>2. CASE subject = "ping_pong1"
  BY <1>1, <1>2 DEF IInv, vars, P1IInv, P1TypeOK, P1RoundsCounted, P1OneTurn, P1HasTurn, P1LinesCounted
<1>3. CASE subject = "ping_pong2"
  BY <1>1, <1>3 DEF IInv, vars, P2IInv, P2TypeOK, P2RoundsCounted, P2WritesInTurn, P2LinesCounted,
                    P2Played, P2Written
<1>4. CASE subject = "shared_mem"
  BY <1>1, <1>4 DEF IInv, vars, ShmIInv, ShmTypeOK, ShmLabels, ShmOneTurn, ParentHas, ChildHas,
                    MessagesCounted, ParentsTurn, Unread, ShmCounted
<1>5. CASE subject = "socket"
  BY <1>1, <1>5 DEF IInv, vars, SockIInv, SockTypeOK, Connected, Delivered, Unwritten, ReadToEnd,
                    FirstClient, U!Message
<1>6. CASE subject = "thread_pool"
  BY <1>1, <1>6 DEF IInv, vars, PoolIInv, PoolTypeOK, PoolNumbered, PoolLateAfterLeft, PoolJoinedLeft
<1> QED  BY <1>1, <1>2, <1>3, <1>4, <1>5, <1>6

(* What a step does to the turns: nothing, the next one, or all anew.      *)
TurnsStep == UNCHANGED log \/ (\E p \in Player, n \in Nat : Turned(p, n)) \/ log' = <<>>

LEMMA NextIInv ==
  ASSUME IInv, Next
  PROVE  /\ IInv' /\ UNCHANGED subject
         /\ subject \in {"ping_pong1", "ping_pong2", "shared_mem"} => TurnsStep
<1>1. Times \in Nat \ {0} /\ Times \in Nat /\ BufferSize \in Nat /\ "client" \notin Worker
  BY ConcurrentAssumption
<1>2. UNCHANGED subject
  BY DEF Next
<1>3. CASE subject = "ping_pong1" /\ P1!Next
  BY <1>1, <1>2, <1>3, P1Next DEF IInv, TurnsStep
<1>4. CASE subject = "ping_pong2" /\ P2!Next
  BY <1>1, <1>2, <1>4, P2Next DEF IInv, TurnsStep
<1>5. CASE subject = "shared_mem" /\ S!Next
  BY <1>1, <1>2, <1>5, ShmNext DEF IInv, TurnsStep
<1>6. CASE subject = "socket" /\ U!Next
  BY <1>1, <1>2, <1>6, SockNextIInv DEF IInv
<1>7. CASE subject = "thread_pool" /\ T!Next
  BY <1>1, <1>2, <1>7, PoolNextIInv DEF IInv
<1> QED  BY <1>3, <1>4, <1>5, <1>6, <1>7 DEF Next

(* The invariant of each program holds while it runs.                      *)
THEOREM Invariance == Spec => []IInv
<1>1. IInv /\ [Next]_vars => IInv'
  BY NextIInv, Unchanged
<1> QED  BY <1>1, InitIInv, PTL DEF Spec

(* The server writes out what its client has written, in order, and has    *)
(* all of it when it ends; a pool with at least one worker takes its tasks *)
(* in order, each once, and leaves only those that were late.              *)
THEOREM Served == ASSUME Worker # {} PROVE Spec => []ServedInOrder
<1>1. IInv => ServedInOrder
  <2> SUFFICES ASSUME IInv PROVE ServedInOrder
    OBVIOUS
  <2>1. Times \in Nat /\ "client" \notin Worker
    BY ConcurrentAssumption
  <2>2. CASE subject = "socket"
    BY <2>1, <2>2, SockIInvInOrder DEF IInv, ServedInOrder
  <2>3. CASE subject = "thread_pool"
    BY <2>1, <2>3, PoolIInvServes DEF IInv, ServedInOrder
  <2> QED  BY <2>2, <2>3 DEF ServedInOrder
<1> QED  BY <1>1, Invariance, PTL

(* The players write in turn, and the child reads each message once, whole *)
(* and before the next is written, though either process be killed: what   *)
(* they do is what Turns says, however many rounds or messages there are,  *)
(* however late a notification comes, and however often they are started.  *)
THEOREM TurnsTaken == Spec => TakesTurns
<1> DEFINE turns == IF subject \in {"ping_pong1", "ping_pong2", "shared_mem"} THEN log ELSE <<>>
<1>1. Init => Takes!Init
  BY DEF Init, P1!Init, P2!Init, S!Init, Takes!Init
<1>2. IInv /\ [Next]_vars => [Takes!Next]_turns
  <2> SUFFICES ASSUME IInv, [Next]_vars, ~ UNCHANGED turns PROVE Takes!Next
    OBVIOUS
  <2>1. Next
    BY DEF vars
  <2>2. UNCHANGED subject /\ subject \in {"ping_pong1", "ping_pong2", "shared_mem"} /\ TurnsStep
    BY <2>1, NextIInv
  <2>3. CASE UNCHANGED log
    BY <2>2, <2>3
  <2>4. ASSUME NEW p \in Player, NEW n \in Nat, Turned(p, n) PROVE Takes!Next
    BY <2>2, <2>4, TakesTurn DEF Takes!Next
  <2>5. CASE log' = <<>>
    BY <2>2, <2>5 DEF Takes!Next, Takes!Again
  <2> QED  BY <2>2, <2>3, <2>4, <2>5 DEF TurnsStep
<1> QED  BY <1>1, <1>2, Invariance, PTL DEF Spec, TakesTurns, Takes!Spec
=============================================================================

---------------------------- MODULE EventManager ----------------------------
(***************************************************************************)
(* my_std::event_manager (concurrency/event_manager.hpp).  It has no lock: *)
(* what makes its calls interleave is that a callback may itself call on   *)
(* and emit, for any event, and may throw through the emit that runs it.   *)
(*                                                                         *)
(* emits is the stack of the calls of emit, the latest first, each with    *)
(* its snapshot and the callback it has reached.  Callbacks are numbered   *)
(* in the order of the calls of on.                                        *)
(***************************************************************************)
EXTENDS Sequences, Heap

CONSTANTS
  Event,         \* the names of events
  MaxObservers,  \* bound: the calls of on
  MaxEmits       \* bound: the emits within one another

VARIABLES
  observers,     \* observers_
  emits,
  ran            \* for each of emits: what was registered when it began, and what it ran

vars == <<observers, emits, ran>>

Init == observers = [e \in {} |-> <<>>] /\ emits = <<>> /\ ran = <<>>

(* Slip: emit goes through the vector in the map itself *)
ToRun_Live(frame) == observers[frame.event]

-----------------------------------------------------------------------------
Registered(e) == IF e \in DOMAIN observers THEN observers[e] ELSE <<>>
NextId == Cardinality(UNION {{<<e, i>> : i \in DOMAIN observers[e]} : e \in DOMAIN observers}) + 1

(* the client runs, or a callback that an emit has called *)
MayCall == emits # <<>> => Head(emits).reached > 0

on(e) ==
  /\ MayCall /\ NextId <= MaxObservers
  /\ observers' = With(observers, e, Append(Registered(e), NextId))
  /\ UNCHANGED <<emits, ran>>

(* an event without observers is nothing to emit *)
emit(e) ==
  /\ MayCall /\ e \in DOMAIN observers /\ Len(emits) < MaxEmits
  /\ emits' = <<[event |-> e, snapshot |-> observers[e], reached |-> 0]>> \o emits
  /\ ran' = <<[due |-> observers[e], done |-> <<>>]>> \o ran
  /\ UNCHANGED observers

(* the callbacks a call of emit goes through *)
ToRun(frame) == frame.snapshot

(* emit calls its next callback, the one before having returned *)
Call ==
  /\ emits # <<>> /\ Head(emits).reached < Len(ToRun(Head(emits)))
  /\ LET n == Head(emits).reached + 1
     IN /\ emits' = [emits EXCEPT ![1].reached = n]
        /\ ran' = [ran EXCEPT ![1].done = Append(@, ToRun(Head(emits))[n])]
  /\ UNCHANGED observers

Leave == emits' = Tail(emits) /\ ran' = Tail(ran) /\ UNCHANGED observers

(* the last callback has returned, or one has thrown, which ends the emit; *)
(* the callback that called it goes on, or throws in turn.                 *)
Return == emits # <<>> /\ Head(emits).reached = Len(ToRun(Head(emits))) /\ Leave
Throw == emits # <<>> /\ Head(emits).reached > 0 /\ Leave

Next == (\E e \in Event : on(e) \/ emit(e)) \/ Call \/ Return \/ Throw

Spec == Init /\ [][Next]_vars

-----------------------------------------------------------------------------
(* Whatever its callbacks register, emit or throw, a call of emit runs     *)
(* those that were registered when it began, in their order; when it       *)
(* returns it has run them all.                                            *)
EmitsRegistered ==
  \A i \in DOMAIN ran :
    /\ emits[i].reached <= Len(ran[i].due)
    /\ ran[i].done = SubSeq(ran[i].due, 1, emits[i].reached)
    /\ emits[i].reached = Len(ToRun(emits[i])) => ran[i].done = ran[i].due
=============================================================================

------------------------------- MODULE Turns -------------------------------
(***************************************************************************)
(* What two parties that take turns promise: number 0 does its first, then *)
(* number 1 its first, then number 0 its second..., up to Times each.  It  *)
(* may begin anew.                                                         *)
(***************************************************************************)
EXTENDS Naturals, Sequences

CONSTANT Times

VARIABLE turns   \* what was done: by whom, and which

Init == turns = <<>>

TakeTurn ==
  /\ Len(turns) < 2 * Times
  /\ turns' = Append(turns, <<Len(turns) % 2, Len(turns) \div 2>>)

Again == turns' = <<>>

Next == TakeTurn \/ Again

Spec == Init /\ [][Next]_turns
=============================================================================

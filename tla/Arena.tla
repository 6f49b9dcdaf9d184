------------------------------- MODULE Arena -------------------------------
(***************************************************************************)
(* my_std::arena (misc/allocator/arena_allocator.hpp): allocate cuts one   *)
(* block after the other off the buffer, each aligned as asked; reset      *)
(* takes all of them back.  An arena is used by one thread.                *)
(***************************************************************************)
EXTENDS Integers, FiniteSets

CONSTANTS
  Capacity,     \* the size of the buffer
  Bases,        \* the addresses operator new may give it
  Alignments    \* the alignments asked for

VARIABLES
  arena,        \* buffer_ and offset_
  blocks        \* the blocks the client has: address, size and alignment

vars == <<arena, blocks>>

Init == arena \in [buffer : Bases, offset : {0}] /\ blocks = {}

(* Slip: the padding in front of a block is not counted *)
EndOf_NoPadding(aligned, size) == arena.offset + size

(* std::align: the first address from p on that is aligned *)
align(alignment, p) == alignment * ((p + alignment - 1) \div alignment)

(* offset_ behind a block *)
EndOf(aligned, size) == aligned - arena.buffer + size

allocate(size, alignment) ==
  LET current == arena.buffer + arena.offset
      aligned == align(alignment, current)
  IN /\ aligned - current + size <= Capacity - arena.offset
     /\ arena' = [arena EXCEPT !.offset = EndOf(aligned, size)]
     /\ blocks' = blocks \cup {[address |-> aligned, size |-> size, alignment |-> alignment]}

reset == arena' = [arena EXCEPT !.offset = 0] /\ blocks' = {}

Next ==
  \/ reset
  \/ \E size \in 1 .. Capacity, alignment \in Alignments : allocate(size, alignment)

Spec == Init /\ [][Next]_vars

-----------------------------------------------------------------------------
(* Since the last reset no two blocks overlap, and each is aligned and     *)
(* within the buffer, wherever that begins.                                *)
BlocksDisjoint ==
  /\ \A b \in blocks : /\ b.address % b.alignment = 0 /\ b.address >= arena.buffer
                       /\ b.address + b.size <= arena.buffer + Capacity
  /\ \A b, c \in blocks :
       b # c => b.address + b.size <= c.address \/ c.address + c.size <= b.address
=============================================================================

--------------------------- MODULE BlockAllocator ---------------------------
(***************************************************************************)
(* What slab_alloc and slab_free promise their callers: a block that is    *)
(* handed out is in nobody else's hands, and only a block that was handed  *)
(* out comes back.                                                         *)
(***************************************************************************)
EXTENDS Integers

CONSTANT Blocks   \* the blocks that an allocator may hand out

VARIABLES
  live,         \* the blocks in the callers' hands
  outstanding   \* the number of allocations not yet freed

Init == live = {} /\ outstanding = 0

Alloc(b) ==
  /\ b \notin live
  /\ live' = live \cup {b}
  /\ outstanding' = outstanding + 1

Free(b) ==
  /\ b \in live
  /\ live' = live \ {b}
  /\ outstanding' = outstanding - 1

Next == \E b \in Blocks : Alloc(b) \/ Free(b)

Spec == Init /\ [][Next]_<<live, outstanding>>
=============================================================================

----------------------------- MODULE MCTasking -----------------------------
(* Instances of Tasking for TLC. *)
EXTENDS Tasking

(* Nobody but the creators and the dying uses the heap. *)
QuietCalls ==
  [t \in Task |-> CASE t = Root -> {"create", "sleep"}
                    [] t = 2 -> {"create", "waitpid", "exit"}
                    [] t = 3 -> {"fault", "exit"}
                    [] t = 4 -> {"exit"}
                    [] OTHER -> {}]

(* The heap is contended: tasks are interrupted inside kmalloc. *)
ContendedCalls ==
  [t \in Task |-> CASE t = Root -> {"fault"}
                    [] t = 2 -> {"yield", "sem", "fault"}
                    [] t = 3 -> {"create"}
                    [] OTHER -> {}]

(* One process waits for another, as sh does for its children. *)
WaitCalls ==
  [t \in Task |-> CASE t = 2 -> {"waitpid"}
                    [] t = 3 -> {"exit"}
                    [] OTHER -> {}]

(* One process waits, another sleeps and exits, the kernel's main thread   *)
(* yields.                                                                 *)
LiveCalls ==
  [t \in Task |-> CASE t = Root -> {"yield"}
                    [] t = 2 -> {"waitpid"}
                    [] t = 3 -> {"sleep", "exit"}
                    [] OTHER -> {}]

(* Processes that take a semaphore after having yielded in the same call.  *)
SemCalls ==
  [t \in Task |-> IF t \in {2, 3, 4} THEN {"sem", "yield"} ELSE {}]
=============================================================================

-------------------------------- MODULE MCIpc --------------------------------
(***************************************************************************)
(* Pipes between two tasks, for TLC.                                       *)
(***************************************************************************)
EXTENDS Pipes

CONSTANTS t1, t2, a, b

(* Standard input and output swapped, as for the end of a pipeline. *)
MCFdList == {Nil, [i \in 0..2 |-> IF i = 0 THEN 1 ELSE 0]}
MCMessage == {<<a>>, <<b, a, b>>}
=============================================================================

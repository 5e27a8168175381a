-------------------------------- MODULE Dlist --------------------------------
(***************************************************************************)
(* The tasks' object tables: growing arrays (dlist.c) whose indexes are    *)
(* the file descriptors (pobj.c), and what a new task gets of its parent's *)
(* (init_task).                                                            *)
(***************************************************************************)
EXTENDS Integers, FiniteSets

CONSTANTS
  Nil,      \* the null pointer: an empty entry
  MaxFd,    \* bound: a table has the entries 0..(MaxFd - 1)
  FdList    \* the fds arguments that spawn is called with; Nil is none

ASSUME DlistAssumption ==
  /\ MaxFd \in Nat
  /\ FdList \subseteq [0..2 -> Nat] \cup {Nil}

Fd == 0..(MaxFd - 1)

EmptyTable == [fd \in Fd |-> Nil]

(* dlist_get *)
Get(table, fd) == IF fd \in Fd THEN table[fd] ELSE Nil

(* dlist_add puts an object into the first empty entry. *)
FirstEmpty(table) ==
  CHOOSE fd \in Fd : table[fd] = Nil /\ \A lower \in 0..(fd - 1) : table[lower] # Nil

HasRoom(table, n) == Cardinality({fd \in Fd : table[fd] = Nil}) >= n

DlistAdd(table, obj) == [table EXCEPT ![FirstEmpty(table)] = obj]

(* What init_task copies: the entries that fds names, or the first three,  *)
(* up to the first that is empty.                                          *)
Copied(table, fds) ==
  LET entry == [i \in 0..2 |-> Get(table, IF fds = Nil THEN i ELSE fds[i])]
      n == Cardinality({i \in 0..2 : \A j \in 0..i : entry[j] # Nil})
  IN  [i \in 0..(n - 1) |-> entry[i]]

(* The table of the new task *)
Inherited(copies) == [fd \in Fd |-> IF fd \in DOMAIN copies THEN copies[fd] ELSE Nil]
=============================================================================

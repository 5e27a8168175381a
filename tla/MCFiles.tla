------------------------------- MODULE MCFiles -------------------------------
(***************************************************************************)
(* The VFS with the file systems in memory and the devices, and with FAT,  *)
(* for TLC.  Three parts without common steps: the trees of several tasks  *)
(* with short files, one file that grows through the slab caches, and FAT, *)
(* which shares the code of the VFS but none of this state.                *)
(***************************************************************************)
EXTENDS FatFs, TLC

PathOf(slash, dirs, file) == [slash |-> slash, dirs |-> dirs, file |-> file]

(* A new task gets its parent's objects, or none. *)
MCFdList == {Nil, [i \in 0..2 |-> MaxFd]}
TheFile == PathOf(TRUE, <<"test">>, "x")
MCOpenPath == {TheFile, PathOf(FALSE, <<>>, "x"), PathOf(FALSE, <<"kbd">>, "x"),
               PathOf(TRUE, <<>>, "")}
MCChangePath == {PathOf(TRUE, <<"test", "devices">>, "")}
MCBootDir == <<"devices", "somedir">>
MCDevice == <<"x", "kbd">>
MCOffset == {-1, 0}

(* Slab caches of three sizes, one with blocks longer than its objects *)
MCCaches == {[obj_size |-> 4, block_size |-> 4], [obj_size |-> 8, block_size |-> 10],
             [obj_size |-> 16, block_size |-> 16]}

(* A file of two and a half clusters in a directory, an empty one, and one *)
(* of two whole clusters.  In a FAT12 table, cluster 6 is in another       *)
(* sector than 3 and 4, and the entry of cluster 5 is in both.             *)
Ent(name, cluster, size) == [answers |-> {name}, dir |-> FALSE, cluster |-> cluster, size |-> size]
DirEnt(name, cluster) == [answers |-> {name}, dir |-> TRUE, cluster |-> cluster, size |-> 0]
MCTable == (3 :> 6) @@ (6 :> 4) @@ (4 :> End) @@ (5 :> 7) @@ (7 :> End) @@ (8 :> End)
MCDirents ==
  (0 :> <<Ent("whole", 5, 8), Ent("empty", 0, 0), DirEnt("sub", 8)>>) @@
  (8 :> <<DirEnt("..", 0), Ent("long", 3, 10)>>)
MCFatPath == {PathOf(TRUE, <<>>, "whole"), PathOf(TRUE, <<>>, "empty"),
              PathOf(TRUE, <<"sub">>, "long"), PathOf(TRUE, <<"sub", "..">>, "")}

VARIABLE part   \* the part that moves

FilesInit ==
  /\ VfsInit /\ FatInit /\ part \in {"trees", "strings", "fat"}
  /\ part # "fat" => type = 12

(* Files of at most two bytes *)
TreesNext ==
  /\ VfsNext
  /\ \A t \in Task, fd \in Fd :
       LET obj == pobjects'[t][fd]
       IN  obj # Nil => obj.write_offset <= 2 /\ obj.read_offset <= 2

(* One file, read and written by two tasks until it is in pages *)
StringsNext ==
  \/ \E t \in Task :
       \/ VfsOpen(t, TheFile, TRUE)
       \/ \E fd \in Fd :
            VfsClose(t, fd) \/ VfsWrite(t, fd, 3) \/ VfsRead(t, fd, 3) \/ VfsLseek(t, fd, 0, "SET")
       \/ \E u \in Task : VfsSpawn(t, u, Nil)
       \/ VfsExit(t)
  \/ VfsStopped

(* In FAT32 one task: the cache of open files is the same for all types. *)
FatPartNext == FatNext /\ (type = 32 => running' \subseteq {First})

FilesNext ==
  /\ UNCHANGED part
  /\ \/ part = "trees" /\ TreesNext /\ UNCHANGED fatVars
     \/ part = "strings" /\ StringsNext /\ UNCHANGED fatVars
     \/ part = "fat" /\ FatPartNext /\ UNCHANGED vfsVars

FilesSpec == FilesInit /\ [][FilesNext]_<<vfsVars, fatVars, part>>
=============================================================================

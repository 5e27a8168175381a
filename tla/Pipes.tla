------------------------------- MODULE Pipes --------------------------------
(***************************************************************************)
(* Pipes between processes: the ends in the tasks' object tables           *)
(* (pobj.c, dlist.c), the reference counted box around the pipe            *)
(* (shared.c), its numbers of readers and writers, and reads that wait     *)
(* for a writer (pipes.c, vfs_read).                                       *)
(*                                                                         *)
(* A system call runs with interrupts off until it first reschedules, so   *)
(* every call is one step except a read that finds the pipe empty: from    *)
(* its first reschedule on interrupts are enabled, and what it takes from  *)
(* the ring and its test of writers are two steps.  pipe->sem is taken to  *)
(* keep its promise, and the heap to be free.                              *)
(***************************************************************************)
EXTENDS Ring, Dlist

CONSTANTS
  Task,      \* the tasks
  Shell,     \* the task that runs at the start
  Pipe,      \* bound: the pipes that can be made
  Message,   \* the buffers that are written
  Length     \* the lengths that are read

ASSUME PipesAssumption ==
  /\ Shell \in Task
  /\ Message \subseteq Seq(Byte) \ {<<>>} /\ Length \subseteq Nat \ {0}
  /\ MaxFd >= 3   \* there is room for what a new task is given

(* file_type of a pipe's object: PIPE_POBJ is the end that is written,     *)
(* PIPELINE_POBJ the one that is read.                                     *)
End == [pipe : Pipe, file_type : {"PIPE_POBJ", "PIPELINE_POBJ"}, nonblock : BOOLEAN]

ASSUME EndAssumption == Nil \notin End

VARIABLES
  pobjects,     \* pobjects[t][fd]: the object tables
  alive,        \* the tasks that exist
  ring,         \* pipe->bufs[0]
  readers, writers, references,
  made, freed,  \* the pipes that were created, and those given back to the heap
  reading,      \* reading[t]: where a read that had to wait is, or Nil
  got,          \* got[p]: what the latest read of p copied
  eof           \* the pipes of which a read has returned 0

counts == <<readers, writers, references, made, freed>>
pipeVars == <<pobjects, alive, ring, readers, writers, references, made, freed,
              reading, got, eof>>

Reading == [fd : Fd, length : Length, at : {"rescheduled", "read"}]

Running(t) == t \in alive /\ reading[t] = Nil

(* The ends in the tables of the tasks, and those of one kind. *)
Ends == {e \in alive \X Fd : pobjects[e[1]][e[2]] # Nil}
EndsOf(p) == {e \in Ends : pobjects[e[1]][e[2]].pipe = p}
EndsOfType(p, type) == {e \in EndsOf(p) : pobjects[e[1]][e[2]].file_type = type}

PipesInit ==
  /\ pobjects = [t \in Task |-> EmptyTable]
  /\ alive = {Shell}
  /\ ring = [p \in Pipe |-> NewRing]
  /\ readers = [p \in Pipe |-> 0] /\ writers = [p \in Pipe |-> 0]
  /\ references = [p \in Pipe |-> 0]
  /\ made = {} /\ freed = {}
  /\ reading = [t \in Task |-> Nil]
  /\ got = [p \in Pipe |-> <<>>]
  /\ eof = {}

-----------------------------------------------------------------------------
(* make_pipes: both ends of a new pipe, the reading one first.  The copy   *)
(* takes the second reference.                                             *)
MakePipes(t) ==
  /\ Running(t) /\ HasRoom(pobjects[t], 2)
  /\ \E p \in Pipe \ made :
       LET end(type) == [pipe |-> p, file_type |-> type, nonblock |-> FALSE]
       IN  /\ pobjects' = [pobjects EXCEPT ![t] =
                             DlistAdd(DlistAdd(@, end("PIPELINE_POBJ")), end("PIPE_POBJ"))]
           /\ made' = made \cup {p}
           /\ readers' = [readers EXCEPT ![p] = 1]
           /\ writers' = [writers EXCEPT ![p] = 1]
           /\ references' = [references EXCEPT ![p] = 2]
           /\ ring' = [ring EXCEPT ![p] = NewRing]
  /\ UNCHANGED <<alive, freed, reading, got, eof>>

-----------------------------------------------------------------------------
(* Faulty variant of Counted: several copies of an end are counted once. *)
CountedOnce(copies, p, type) ==
  IF \E i \in DOMAIN copies : copies[i].pipe = p /\ copies[i].file_type = type
  THEN 1 ELSE 0

(* pipe_obj_ctor, for each of the copies: one more end of that type. *)
Counted(copies, p, type) ==
  Cardinality({i \in DOMAIN copies : copies[i].pipe = p /\ copies[i].file_type = type})

(* create_process and create_thread: init_task fills the new task's table. *)
Spawn(t, u, fds) ==
  /\ Running(t) /\ u \in Task \ alive
  /\ LET copies == Copied(pobjects[t], fds)
         isRead == "PIPELINE_POBJ"
         isWrite == "PIPE_POBJ"
     IN  /\ pobjects' = [pobjects EXCEPT ![u] = Inherited(copies)]
         /\ readers' = [p \in Pipe |-> readers[p] + Counted(copies, p, isRead)]
         /\ writers' = [p \in Pipe |-> writers[p] + Counted(copies, p, isWrite)]
         /\ references' = [p \in Pipe |-> references[p] + Counted(copies, p, isRead)
                                                        + Counted(copies, p, isWrite)]
  /\ alive' = alive \cup {u}
  /\ UNCHANGED <<ring, made, freed, reading, got, eof>>

(* pipe_obj_dtor of each of the ends: shared_release frees the pipe when   *)
(* no reference is left.                                                   *)
Release(ends) ==
  LET gone(p) == {e \in ends : pobjects[e[1]][e[2]].pipe = p}
      goneOf(p, type) == {e \in gone(p) : pobjects[e[1]][e[2]].file_type = type}
      left == [p \in Pipe |-> references[p] - Cardinality(gone(p))]
  IN  /\ readers' = [p \in Pipe |-> readers[p] - Cardinality(goneOf(p, "PIPELINE_POBJ"))]
      /\ writers' = [p \in Pipe |-> writers[p] - Cardinality(goneOf(p, "PIPE_POBJ"))]
      /\ references' = left
      /\ freed' = freed \cup {p \in Pipe : gone(p) # {} /\ left[p] = 0}

(* vfs_close: the entry is emptied and the object destroyed. *)
Close(t, fd) ==
  /\ Running(t) /\ pobjects[t][fd] # Nil
  /\ Release({<<t, fd>>})
  /\ pobjects' = [pobjects EXCEPT ![t][fd] = Nil]
  /\ UNCHANGED <<alive, ring, made, reading, got, eof>>

(* remove_task_by_pid destroys the objects of the task that ends. *)
Exit(t) ==
  /\ Running(t) /\ t # Shell
  /\ Release({t} \X {fd \in Fd : pobjects[t][fd] # Nil})
  /\ pobjects' = [pobjects EXCEPT ![t] = EmptyTable]
  /\ alive' = alive \ {t}
  /\ UNCHANGED <<ring, made, reading, got, eof>>

(* vfs_fcntl with FILE_CTRL_SETFLAGS: only FILE_NONBLOCK changes. *)
Fcntl(t, fd, nonblock) ==
  /\ Running(t) /\ pobjects[t][fd] # Nil
  /\ pobjects' = [pobjects EXCEPT ![t][fd].nonblock = nonblock]
  /\ UNCHANGED <<alive, ring, counts, reading, got, eof>>

-----------------------------------------------------------------------------
(* pipe_vfs_write.  Either end can be written.  The ring takes every byte, *)
(* so the call never has to try again, and it looks at no reader.          *)
VfsWrite(t, fd, bytes) ==
  /\ Running(t) /\ pobjects[t][fd] # Nil
  /\ LET p == pobjects[t][fd].pipe
     IN  ring' = [ring EXCEPT ![p] = Write(@, bytes)]
  /\ UNCHANGED <<pobjects, alive, counts, reading, got, eof>>

(* pipeline_read inside pipe->sem *)
Take(p, n) ==
  /\ got' = [got EXCEPT ![p] = BytesRead(ring[p], n)]
  /\ ring' = [ring EXCEPT ![p] = AfterRead(@, n)]

(* Faulty variant of TryAgain: a single writer is not enough to wait for. *)
TryAgainAbove(p, nread) == nread = 0 /\ writers[p] > 1

(* Faulty variant of TryAgain: the readers are counted, this one included. *)
TryAgainReaders(p, nread) == nread = 0 /\ readers[p] >= 1

(* pipe_vfs_read's -ERROR_TRY_AGAIN: nothing was read, and there is a      *)
(* writer.                                                                 *)
TryAgain(p, nread) == nread = 0 /\ writers[p] >= 1

(* How vfs_read goes on after pipe_vfs_read: it waits, or it returns, with *)
(* 0 at the end of the file.                                               *)
Result(t, fd, n, nread) ==
  LET p == pobjects[t][fd].pipe
  IN  /\ reading' = [reading EXCEPT ![t] =
                       IF TryAgain(p, nread) /\ ~pobjects[t][fd].nonblock
                       THEN [fd |-> fd, length |-> n, at |-> "rescheduled"] ELSE Nil]
      /\ eof' = IF nread = 0 /\ ~TryAgain(p, nread) THEN eof \cup {p} ELSE eof

(* vfs_read, its first try *)
VfsRead(t, fd, n) ==
  /\ Running(t) /\ pobjects[t][fd] # Nil
  /\ LET p == pobjects[t][fd].pipe
     IN  Take(p, n) /\ Result(t, fd, n, Readable(ring[p], n))
  /\ UNCHANGED <<pobjects, alive, counts>>

(* The next try, after a reschedule: what the ring holds ... *)
ReadAgain(t) ==
  /\ reading[t] # Nil /\ reading[t].at = "rescheduled"
  /\ LET p == pobjects[t][reading[t].fd].pipe
     IN  /\ Take(p, reading[t].length)
         /\ reading' = [reading EXCEPT ![t] = IF ring[p].avail = 0
                                              THEN [@ EXCEPT !.at = "read"] ELSE Nil]
  /\ UNCHANGED <<pobjects, alive, counts, eof>>

(* ... and then, if it was empty, whether somebody may still write. *)
TestWriters(t) ==
  /\ reading[t] # Nil /\ reading[t].at = "read"
  /\ Result(t, reading[t].fd, reading[t].length, 0)
  /\ UNCHANGED <<pobjects, alive, ring, counts, got>>

PipesNext ==
  \E t \in Task :
    \/ MakePipes(t)
    \/ Exit(t)
    \/ ReadAgain(t)
    \/ TestWriters(t)
    \/ \E u \in Task, fds \in FdList : Spawn(t, u, fds)
    \/ \E fd \in Fd :
         \/ Close(t, fd)
         \/ \E nonblock \in BOOLEAN : Fcntl(t, fd, nonblock)
         \/ \E bytes \in Message : VfsWrite(t, fd, bytes)
         \/ \E n \in Length : VfsRead(t, fd, n)

(* The tasks' kernel code goes on: round robin comes to every ready task   *)
(* (ReadyRuns of Tasking), a read that waits included.                     *)
PipesFairness == \A t \in Task : WF_pipeVars(ReadAgain(t)) /\ WF_pipeVars(TestWriters(t))

PipesSpec == PipesInit /\ [][PipesNext]_pipeVars /\ PipesFairness

-----------------------------------------------------------------------------
PipesTypeOK ==
  /\ pobjects \in [Task -> [Fd -> End \cup {Nil}]]
  /\ alive \subseteq Task
  /\ ring \in [Pipe -> RingType]
  /\ {readers, writers, references} \subseteq [Pipe -> Nat]
  /\ made \subseteq Pipe /\ freed \subseteq Pipe /\ eof \subseteq Pipe
  /\ reading \in [Task -> Reading \cup {Nil}]
  /\ got \in [Pipe -> Seq(Byte)]

(* However ends are made, copied by spawn, closed and dropped at exit, the *)
(* pipe's counters are the numbers of ends that are open, and the pipe is  *)
(* freed exactly when none is: no open end leads to freed memory, and no   *)
(* pipe stays behind.                                                      *)
EndsCounted ==
  \A p \in made :
    /\ readers[p] = Cardinality(EndsOfType(p, "PIPELINE_POBJ"))
    /\ writers[p] = Cardinality(EndsOfType(p, "PIPE_POBJ"))
    /\ references[p] = Cardinality(EndsOf(p))
    /\ p \in freed <=> EndsOf(p) = {}

(* A read of a pipe returns 0, the end of the file, only when no task has  *)
(* its writing end open, and none ever will: also when the test of writers *)
(* comes long after the look into the ring.                                *)
EofFinal == \A p \in eof : EndsOfType(p, "PIPE_POBJ") = {}

(* The bytes in the ring, oldest first. *)
Contents(p) == BytesRead(ring[p], Size)

(* The ring, with its positions that wrap and its lost oldest bytes, is a  *)
(* queue of the newest Size - 1 bytes.                                     *)
Queue == INSTANCE LossyQueue WITH Queue <- Pipe, Capacity <- Size - 1,
                                  queue <- [p \in Pipe |-> Contents(p)]
ImplementsQueue == Queue!Spec

(* A read that waits does not outlive what it waits for: it returns once   *)
(* the last writer is gone, and it does not wait for ever in front of a    *)
(* pipe that has bytes.                                                    *)
ReaderReturns ==
  \A t \in Task, p \in Pipe :
    LET waits == reading[t] # Nil /\ pobjects[t][reading[t].fd].pipe = p
    IN  /\ (waits /\ writers[p] = 0) ~> ~waits
        /\ []<>(~waits \/ ring[p].avail = 0)
=============================================================================

------------------------------ MODULE Tasking ------------------------------
(***************************************************************************)
(* The tasking core of the Helix kernel on its single CPU: the task list,  *)
(* the round robin scheduler, the timer interrupt that calls it, counting  *)
(* semaphores, usleep, waitpid, task creation, exit and the page fault     *)
(* handler's kill.                                                         *)
(*                                                                         *)
(* One step is what the CPU does between two accesses to shared memory.    *)
(* Only the current task takes steps; the timer can come between any two   *)
(* of them while interrupts are enabled (intr).  System calls and faults   *)
(* enter through interrupt gates, hence with interrupts disabled, and      *)
(* every switch to a task enables them again (the sti before the jump of   *)
(* rrschedule_call), in the middle of a system call too.                   *)
(*                                                                         *)
(* Task structures are numbered in the order in which they are allocated.  *)
(* The memory of a freed structure keeps its contents.                     *)
(***************************************************************************)
EXTENDS Integers, Sequences

CONSTANTS
  MaxTask,   \* bound: the tasks are 0..MaxTask
  Boot,      \* tasks 0..Boot exist when the model starts
  Sems,      \* the kernel's semaphores, each initialised to 1
  Heap,      \* heap_semaphore, taken by every kmalloc and kfree
  NullSem,   \* the task's sem field before its first wait (a null pointer)
  Calls,     \* Calls[t]: the kernel services that task t's program uses
  Naps,      \* the lengths of usleep, in ticks
  MaxTick,   \* bound: the last tick
  MaxDrift   \* bound: how far from 0..1 a semaphore may be when it is entered

Services == {"sem", "sleep", "yield", "waitpid", "exit", "fault", "create"}

Task == 0..MaxTask
Root == 0    \* the kernel's main thread, pid 0
Idle == 1    \* idle_task, created by init_tasking

ASSUME TaskingAssumption ==
  /\ MaxTask \in Nat /\ Boot \in 1..MaxTask
  /\ Heap \in Sems /\ NullSem \notin Sems
  /\ Calls \in [Task -> SUBSET Services]
  /\ Naps \subseteq Nat /\ MaxTick \in Nat /\ MaxDrift \in Nat

VARIABLES
  list,      \* task_list: the linked tasks in list order
  current,   \* current_task
  gap,       \* where a node that unlinked itself still points: before list[gap + 1]
  intr,      \* the CPU's interrupt flag
  tick,      \* the timer's tick counter
  panicked,  \* the machine has stopped
  state, sleep, waitsem, waiting, pid,   \* fields of task_t
  pidcount,
  allocated, \* the number of task structures allocated so far
  freed,     \* the task structures that were freed
  sem,       \* the value of each semaphore
  pc,        \* where each task is
  arg, ret, tmp, node, tail   \* local variables of the kernel function a task is in,
                              \* reset to 0 and Root where they go out of scope

fields == <<sleep, waitsem, waiting, pid>>
locals == <<arg, ret, tmp, node, tail>>
life == <<list, gap, panicked, pidcount, allocated, freed>>
vars == <<list, current, gap, intr, tick, panicked, state, sleep, waitsem,
          waiting, pid, pidcount, allocated, freed, sem, pc,
          arg, ret, tmp, node, tail>>

States == {"RUNNING", "SLEEPING", "WAITING", "ENDED"}

Labels == {"none", "user", "kern", "idle",
           "wait_state", "wait_sem", "wait_sched", "dec_load", "dec_store",
           "crit", "inc_store",
           "sleep_state", "sleep_sched", "sleep_ret",
           "wp_test", "wp_sched", "wp_dec", "wp_dec_store",
           "ex_sched", "ex_block", "ex_free", "ex_gone",
           "c_pid", "c_pid_store", "c_tail", "c_link"}

Linked(t) == \E i \in DOMAIN list : list[i] = t

IndexOf(t) == CHOOSE i \in DOMAIN list : list[i] = t

-----------------------------------------------------------------------------
(***************************************************************************)
(* The scheduler.                                                          *)
(***************************************************************************)

(* Faulty variant of Eligible: a sleeper is let through a tick early. *)
EligibleEarly(t, now) ==
  /\ ~(state[t] = "SLEEPING" /\ sleep[t] > now + 1)
  /\ ~(state[t] = "WAITING" /\ sem[waitsem[t]] = 0)
  /\ ~(state[t] = "ENDED" /\ waiting[t] # 0)

(* The task is not skipped by the scheduler's loop at tick now. *)
Eligible(t, now) ==
  /\ ~(state[t] = "SLEEPING" /\ sleep[t] > now)
  /\ ~(state[t] = "WAITING" /\ sem[waitsem[t]] = 0)
  /\ ~(state[t] = "ENDED" /\ waiting[t] # 0)

(* Faulty variants of Walk: the end of the list does not lead back to its  *)
(* head; every search starts at the head.                                  *)
WalkStuck(d) ==
  LET start == IF Linked(current) THEN IndexOf(current) ELSE 0
  IN  list[IF start + d <= Len(list) THEN start + d ELSE Len(list)]
WalkFromHead(d) == list[d]

(* The task that the loop looks at in its d-th round, starting after the   *)
(* current node and going back to the head at the end of the list.  A node *)
(* that unlinked itself is followed by what its next pointer still says.   *)
Walk(d) ==
  LET start == IF Linked(current) THEN IndexOf(current)
               ELSE IF gap < Len(list) THEN gap ELSE 0
  IN  list[IF start + d <= Len(list) THEN start + d ELSE start + d - Len(list)]

(* rrschedule_call: the first eligible task becomes RUNNING and current,   *)
(* with interrupts enabled.                                                *)
Switch(now) ==
  \E d \in 1..Len(list) :
    /\ Eligible(Walk(d), now)
    /\ \A e \in 1..(d - 1) : ~Eligible(Walk(e), now)
    /\ state' = [state EXCEPT ![Walk(d)] = "RUNNING"]
    /\ current' = Walk(d)
    /\ intr' = TRUE

(* Faulty variant of Timer: the tick is not counted. *)
TimerUncounted ==
  /\ ~panicked /\ intr
  /\ tick' = tick
  /\ Switch(tick')
  /\ UNCHANGED <<life, fields, sem, pc, locals>>

(* The timer interrupt: pitimer_stub counts the tick and calls the         *)
(* scheduler on behalf of whatever task it interrupted.                    *)
Timer ==
  /\ ~panicked /\ intr
  /\ tick' = IF tick < MaxTick THEN tick + 1 ELSE tick
  /\ Switch(tick')
  /\ UNCHANGED <<life, fields, sem, pc, locals>>

(* Control of the current task t moves from one label to another. *)
Goto(t, from, to) ==
  /\ ~panicked /\ t = current
  /\ pc[t] = from
  /\ pc' = [pc EXCEPT ![t] = to]

(* A call of rrschedule_call at label from, returning to label to. *)
Reschedule(t, from, to) ==
  /\ Goto(t, from, to)
  /\ Switch(tick)
  /\ UNCHANGED <<life, tick, fields, sem, locals>>

IdleTask(t) == Reschedule(t, "idle", "idle")

(* A kernel loop that gives up the CPU, as vfs_read and vfs_write do while *)
(* the driver answers that it should try again.                            *)
Yield(t) ==
  /\ "yield" \in Calls[t]
  /\ Reschedule(t, "kern", "kern")

-----------------------------------------------------------------------------
(***************************************************************************)
(* System call entry and return: the gate clears the interrupt flag, the   *)
(* stub sets it before iret.                                               *)
(***************************************************************************)
Syscall(t) ==
  /\ Goto(t, "user", "kern")
  /\ Calls[t] \cap {"sem", "sleep", "yield", "create"} # {}
  /\ intr' = FALSE
  /\ UNCHANGED <<life, current, tick, state, fields, sem, locals>>

Sysret(t) ==
  /\ t # Root
  /\ Goto(t, "kern", "user")
  /\ intr' = TRUE
  /\ UNCHANGED <<life, current, tick, state, fields, sem, locals>>

-----------------------------------------------------------------------------
(***************************************************************************)
(* Semaphores.  enter_semaphore reads the value, then either goes on to    *)
(* decrement it or waits first; the decrement is a load and a store.       *)
(***************************************************************************)

(* The call enter_semaphore(s) at label from; after the matching           *)
(* leave_semaphore control is at label after.                              *)
EnterCall(t, from, s, after) ==
  /\ Goto(t, from, IF sem[s] # 0 THEN "dec_load" ELSE "wait_state")
  /\ arg' = [arg EXCEPT ![t] = s]
  /\ ret' = [ret EXCEPT ![t] = after]

EnterSemaphore(t, s) ==
  /\ "sem" \in Calls[t]
  /\ sem[s] \in (-MaxDrift)..(1 + MaxDrift)
  /\ EnterCall(t, "kern", s, "kern")
  /\ UNCHANGED <<life, current, intr, tick, state, fields, sem, tmp, node, tail>>

SemaphoreWaitState(t) ==
  /\ Goto(t, "wait_state", "wait_sem")
  /\ state' = [state EXCEPT ![t] = "WAITING"]
  /\ UNCHANGED <<life, current, intr, tick, fields, sem, locals>>

SemaphoreWaitSem(t) ==
  /\ Goto(t, "wait_sem", "wait_sched")
  /\ waitsem' = [waitsem EXCEPT ![t] = arg[t]]
  /\ UNCHANGED <<life, current, intr, tick, state, sleep, waiting, pid, sem, locals>>

SemaphoreWaitSched(t) == Reschedule(t, "wait_sched", "dec_load")

DecrementLoad(t) ==
  /\ Goto(t, "dec_load", "dec_store")
  /\ tmp' = [tmp EXCEPT ![t] = sem[arg[t]]]
  /\ UNCHANGED <<life, current, intr, tick, state, fields, sem, arg, ret, node, tail>>

DecrementStore(t) ==
  /\ Goto(t, "dec_store", "crit")
  /\ sem' = [sem EXCEPT ![arg[t]] = tmp[t] - 1]
  /\ tmp' = [tmp EXCEPT ![t] = 0]
  /\ UNCHANGED <<life, current, intr, tick, state, fields, arg, ret, node, tail>>

(* leave_semaphore: the load and the store of the increment. *)
LeaveSemaphore(t) ==
  /\ Goto(t, "crit", "inc_store")
  /\ tmp' = [tmp EXCEPT ![t] = sem[arg[t]]]
  /\ UNCHANGED <<life, current, intr, tick, state, fields, sem, arg, ret, node, tail>>

IncrementStore(t) ==
  /\ Goto(t, "inc_store", ret[t])
  /\ sem' = [sem EXCEPT ![arg[t]] = tmp[t] + 1]
  /\ tmp' = [tmp EXCEPT ![t] = 0]
  /\ UNCHANGED <<life, current, intr, tick, state, fields, arg, ret, node, tail>>

-----------------------------------------------------------------------------
(***************************************************************************)
(* usleep.                                                                 *)
(***************************************************************************)
(* Faulty variant of Usleep: the deadline is one tick too early. *)
UsleepShort(t, ticks) ==
  /\ "sleep" \in Calls[t]
  /\ tick + ticks <= MaxTick
  /\ Goto(t, "kern", "sleep_state")
  /\ sleep' = [sleep EXCEPT ![t] = tick + ticks - 1]
  /\ UNCHANGED <<life, current, intr, tick, state, waitsem, waiting, pid, sem, locals>>

Usleep(t, ticks) ==
  /\ "sleep" \in Calls[t]
  /\ tick + ticks <= MaxTick
  /\ Goto(t, "kern", "sleep_state")
  /\ sleep' = [sleep EXCEPT ![t] = tick + ticks]
  /\ UNCHANGED <<life, current, intr, tick, state, waitsem, waiting, pid, sem, locals>>

UsleepState(t) ==
  /\ Goto(t, "sleep_state", "sleep_sched")
  /\ state' = [state EXCEPT ![t] = "SLEEPING"]
  /\ UNCHANGED <<life, current, intr, tick, fields, sem, locals>>

UsleepSched(t) == Reschedule(t, "sleep_sched", "sleep_ret")

UsleepReturn(t) ==
  /\ Goto(t, "sleep_ret", "kern")
  /\ UNCHANGED <<life, current, intr, tick, state, fields, sem, locals>>

-----------------------------------------------------------------------------
(***************************************************************************)
(* waitpid.  The lookup, the registration and the first test run inside    *)
(* the system call's gate; after the first reschedule interrupts are on.   *)
(***************************************************************************)

(* get_task_node_by_pid: the first linked task with that pid. *)
Finds(p, n) ==
  \E i \in DOMAIN list :
    /\ list[i] = n /\ pid[n] = p
    /\ \A j \in 1..(i - 1) : pid[list[j]] # p

(* A pid that is not in the list makes waitpid return -1 and change        *)
(* nothing.                                                                *)
Waitpid(t, n) ==
  /\ "waitpid" \in Calls[t]
  /\ Goto(t, "user", "wp_test")
  /\ Finds(pid[n], n)
  /\ waiting' = [waiting EXCEPT ![n] = @ + 1]
  /\ node' = [node EXCEPT ![t] = n]
  /\ intr' = FALSE
  /\ UNCHANGED <<life, current, tick, state, sleep, waitsem, pid,
                 sem, arg, ret, tmp, tail>>

WaitpidTest(t) ==
  /\ Goto(t, "wp_test", IF state[node[t]] # "ENDED" THEN "wp_sched" ELSE "wp_dec")
  /\ UNCHANGED <<life, current, intr, tick, state, fields, sem, locals>>

WaitpidSched(t) == Reschedule(t, "wp_sched", "wp_test")

WaitpidDecrement(t) ==
  /\ Goto(t, "wp_dec", "wp_dec_store")
  /\ tmp' = [tmp EXCEPT ![t] = waiting[node[t]]]
  /\ UNCHANGED <<life, current, intr, tick, state, fields, sem, arg, ret, node, tail>>

(* Faulty variant of WaitpidReturn: the waiter stays registered. *)
WaitpidReturnRegistered(t) ==
  /\ Goto(t, "wp_dec_store", "user")
  /\ waiting' = waiting
  /\ tmp' = [tmp EXCEPT ![t] = 0]
  /\ node' = [node EXCEPT ![t] = Root]
  /\ intr' = TRUE
  /\ UNCHANGED <<life, current, tick, state, sleep, waitsem, pid, sem, arg, ret, tail>>

WaitpidReturn(t) ==
  /\ Goto(t, "wp_dec_store", "user")
  /\ waiting' = [waiting EXCEPT ![node[t]] = tmp[t] - 1]
  /\ tmp' = [tmp EXCEPT ![t] = 0]
  /\ node' = [node EXCEPT ![t] = Root]
  /\ intr' = TRUE
  /\ UNCHANGED <<life, current, tick, state, sleep, waitsem, pid, sem, arg, ret, tail>>

-----------------------------------------------------------------------------
(***************************************************************************)
(* Exit and kill.  Both call remove_task_by_pid with the current pid.      *)
(***************************************************************************)

(* remove_task_by_pid up to its first reschedule: the task found by its    *)
(* pid is ENDED; with registered waiters the scheduler is called.          *)
RemoveTask(t, from) ==
  \E n \in Task :
    /\ Finds(pid[t], n)
    /\ Goto(t, from, IF waiting[n] # 0 THEN "ex_sched" ELSE "ex_block")
    /\ state' = [state EXCEPT ![n] = "ENDED"]
    /\ node' = [node EXCEPT ![t] = n]
    /\ intr' = FALSE

(* exit_process; the kernel's main thread, pid 0, is not removed.  The     *)
(* status is stored before the task is ENDED, inside the same gate.        *)
ExitProcess(t) ==
  /\ "exit" \in Calls[t] /\ pid[t] # 0
  /\ RemoveTask(t, "user")
  /\ UNCHANGED <<life, current, tick, sleep, waitsem, waiting, pid, sem,
                 arg, ret, tmp, tail>>

(* page_fault_handler for an address outside the memory maps, from user    *)
(* code or from kernel code that touches user memory.  *current->sem++     *)
(* moves the pointer off the semaphore and leaves its value alone.         *)
PageFaultKill(t, from) ==
  /\ "fault" \in Calls[t] /\ pid[t] # 0
  /\ from = "crit" => ret[t] = "kern"
  /\ waitsem' = [waitsem EXCEPT ![t] = NullSem]
  /\ RemoveTask(t, from)
  /\ UNCHANGED <<life, current, tick, sleep, waiting, pid, sem,
                 arg, ret, tmp, tail>>

(* A page fault of the kernel's main thread panics. *)
PageFaultPanic(t) ==
  /\ "fault" \in Calls[t] /\ pid[t] = 0
  /\ Goto(t, "kern", "kern")
  /\ panicked' = TRUE /\ intr' = FALSE
  /\ UNCHANGED <<list, gap, pidcount, allocated, freed, current, tick, state,
                 fields, sem, locals>>

RemoveSched(t) == Reschedule(t, "ex_sched", "ex_block")

(* Faulty variant of Unlink: the links around the node stay. *)
UnlinkNothing(n) == UNCHANGED <<list, gap>>

(* list_remove_node without its kfree: the successor takes its place. *)
Unlink(n) ==
  LET k == IndexOf(n)
  IN  /\ list' = [i \in 1..(Len(list) - 1) |-> IF i < k THEN list[i] ELSE list[i + 1]]
      /\ gap' = IF n = current THEN k - 1 ELSE gap

(* Faulty variant of RemoveUnlink: without its block_tasks. *)
RemoveUnlinkUnblocked(t) ==
  /\ EnterCall(t, "ex_block", Heap, "ex_free")
  /\ IF Linked(node[t]) THEN Unlink(node[t]) ELSE UNCHANGED <<list, gap>>
  /\ panicked' = ~Linked(node[t])
  /\ UNCHANGED <<pidcount, allocated, freed, current, intr, tick, state, fields, sem,
                 tmp, node, tail>>

(* block_tasks, the unlinking, and the call of kfree for the node.         *)
(* Relinking around a node that is no longer in the list is undefined:     *)
(* nothing is said of the machine from there on.                           *)
RemoveUnlink(t) ==
  /\ EnterCall(t, "ex_block", Heap, "ex_free")
  /\ IF Linked(node[t]) THEN Unlink(node[t]) ELSE UNCHANGED <<list, gap>>
  /\ panicked' = ~Linked(node[t])
  /\ intr' = FALSE
  /\ UNCHANGED <<pidcount, allocated, freed, current, tick, state, fields, sem,
                 tmp, node, tail>>

(* The rest of remove_task_by_pid: the objects and the task structure are  *)
(* freed, and interrupts enabled.                                          *)
RemoveFree(t) ==
  /\ Goto(t, "ex_free", "ex_gone")
  /\ freed' = freed \cup {node[t]}
  /\ intr' = TRUE
  /\ UNCHANGED <<list, gap, panicked, pidcount, allocated, current, tick, state,
                 fields, sem, locals>>

(* The last reschedule; exit returns only if another task was removed.     *)
RemoveDone(t) == Reschedule(t, "ex_gone", "user")

-----------------------------------------------------------------------------
(***************************************************************************)
(* create_thread and create_process.                                       *)
(***************************************************************************)

(* block_tasks and the kmalloc of the structure. *)
Create(t) ==
  /\ "create" \in Calls[t]
  /\ allocated < MaxTask
  /\ EnterCall(t, "kern", Heap, "c_pid")
  /\ allocated' = allocated + 1
  /\ node' = [node EXCEPT ![t] = allocated + 1]
  /\ intr' = FALSE
  /\ UNCHANGED <<list, gap, panicked, pidcount, freed, current, tick, state,
                 fields, sem, tmp, tail>>

(* init_task: the load of ++pidcount. *)
CreatePidLoad(t) ==
  /\ Goto(t, "c_pid", "c_pid_store")
  /\ tmp' = [tmp EXCEPT ![t] = pidcount]
  /\ UNCHANGED <<life, current, intr, tick, state, fields, sem, arg, ret, node, tail>>

(* Faulty variant of CreatePidStore: the new pidcount is not stored. *)
CreatePidStoreUnsaved(t) ==
  /\ EnterCall(t, "c_pid_store", Heap, "c_tail")
  /\ pid' = [pid EXCEPT ![node[t]] = tmp[t] + 1]
  /\ tmp' = [tmp EXCEPT ![t] = 0]
  /\ UNCHANGED <<list, gap, panicked, pidcount, allocated, freed, current, intr, tick,
                 state, sleep, waitsem, waiting, sem, node, tail>>

(* Its store, and the kmallocs of init_task and add_task, taken as one.    *)
CreatePidStore(t) ==
  /\ EnterCall(t, "c_pid_store", Heap, "c_tail")
  /\ pidcount' = tmp[t] + 1
  /\ pid' = [pid EXCEPT ![node[t]] = tmp[t] + 1]
  /\ tmp' = [tmp EXCEPT ![t] = 0]
  /\ UNCHANGED <<list, gap, panicked, allocated, freed, current, intr, tick,
                 state, sleep, waitsem, waiting, sem, node, tail>>

(* add_task: the walk of list_add_node to the end of the list. *)
CreateTail(t) ==
  /\ Goto(t, "c_tail", "c_link")
  /\ tail' = [tail EXCEPT ![t] = list[Len(list)]]
  /\ UNCHANGED <<life, current, intr, tick, state, fields, sem, arg, ret, tmp, node>>

(* The new node becomes the successor, the only one, of the node found; a  *)
(* node that has left the list since takes it out of reach.  unblock_tasks *)
(* follows.                                                                *)
CreateLink(t) ==
  /\ ~panicked /\ t = current
  /\ pc[t] = "c_link"
  /\ list' = IF Linked(tail[t])
             THEN Append(SubSeq(list, 1, IndexOf(tail[t])), node[t])
             ELSE list
  /\ pc' = [pc EXCEPT ![t] = "kern", ![node[t]] = "user"]
  /\ node' = [node EXCEPT ![t] = Root]
  /\ tail' = [tail EXCEPT ![t] = Root]
  /\ intr' = TRUE
  /\ UNCHANGED <<gap, panicked, pidcount, allocated, freed, current, tick,
                 state, fields, sem, arg, ret, tmp>>

-----------------------------------------------------------------------------
(* The machine after panic: interrupts off, while (1). *)
Halted == panicked /\ UNCHANGED vars

(* After init_tasking and the creation, in order, of the tasks up to Boot. *)
Init ==
  /\ list = [i \in 1..(Boot + 1) |-> i - 1]
  /\ current = Root /\ gap = 0
  /\ intr = TRUE /\ tick = 0 /\ panicked = FALSE
  /\ state = [t \in Task |-> "RUNNING"]
  /\ sleep = [t \in Task |-> 0]
  /\ waitsem = [t \in Task |-> NullSem]
  /\ waiting = [t \in Task |-> 0]
  /\ pid = [t \in Task |-> IF t <= Boot THEN t ELSE 0]
  /\ pidcount = Boot /\ allocated = Boot /\ freed = {}
  /\ sem \in {[s \in Sems \cup {NullSem} |-> IF s = NullSem THEN w ELSE 1] : w \in {0, 1}}
  /\ pc = [t \in Task |-> CASE t = Root -> "kern"
                            [] t = Idle -> "idle"
                            [] t \in 2..Boot -> "user"
                            [] OTHER -> "none"]
  /\ arg = [t \in Task |-> Heap]
  /\ ret = [t \in Task |-> "kern"]
  /\ tmp = [t \in Task |-> 0]
  /\ node = [t \in Task |-> Root]
  /\ tail = [t \in Task |-> Root]

TaskStep(t) ==
  \/ IdleTask(t) \/ Yield(t) \/ Syscall(t) \/ Sysret(t)
  \/ \E s \in Sems : EnterSemaphore(t, s)
  \/ SemaphoreWaitState(t) \/ SemaphoreWaitSem(t) \/ SemaphoreWaitSched(t)
  \/ DecrementLoad(t) \/ DecrementStore(t)
  \/ LeaveSemaphore(t) \/ IncrementStore(t)
  \/ \E d \in Naps : Usleep(t, d)
  \/ UsleepState(t) \/ UsleepSched(t) \/ UsleepReturn(t)
  \/ \E n \in Task : Waitpid(t, n)
  \/ WaitpidTest(t) \/ WaitpidSched(t) \/ WaitpidDecrement(t) \/ WaitpidReturn(t)
  \/ ExitProcess(t)
  \/ \E from \in {"user", "kern", "crit"} : PageFaultKill(t, from)
  \/ PageFaultPanic(t)
  \/ RemoveSched(t) \/ RemoveUnlink(t) \/ RemoveFree(t) \/ RemoveDone(t)
  \/ Create(t) \/ CreatePidLoad(t) \/ CreatePidStore(t) \/ CreateTail(t) \/ CreateLink(t)

Next == Timer \/ Halted \/ \E t \in Task : TaskStep(t)

Spec == Init /\ [][Next]_vars

(* The timer keeps interrupting (the controller holds a tick that comes    *)
(* while interrupts are off), and a tick is long enough for a task that    *)
(* gets the CPU again and again to get on with the kernel code it is in.   *)
Fairness ==
  /\ SF_vars(Timer)
  /\ \A t \in Task : SF_vars(pc[t] # "user" /\ TaskStep(t))

FairSpec == Spec /\ Fairness

-----------------------------------------------------------------------------
(***************************************************************************)
(* Properties.                                                             *)
(***************************************************************************)

(* Every variable has its type. *)
TypeOK ==
  /\ list \in Seq(Task) /\ current \in Task /\ gap \in Nat
  /\ intr \in BOOLEAN /\ tick \in 0..MaxTick /\ panicked \in BOOLEAN
  /\ state \in [Task -> States]
  /\ sleep \in [Task -> Nat]
  /\ waitsem \in [Task -> Sems \cup {NullSem}]
  /\ waiting \in [Task -> Int]
  /\ pid \in [Task -> Nat]
  /\ pidcount \in Nat /\ allocated \in 0..MaxTask /\ freed \in SUBSET Task
  /\ sem \in [Sems \cup {NullSem} -> Int]
  /\ pc \in [Task -> Labels]
  /\ arg \in [Task -> Sems] /\ ret \in [Task -> Labels]
  /\ tmp \in [Task -> Int] /\ node \in [Task -> Task] /\ tail \in [Task -> Task]

(* The scheduler's loop, which runs with interrupts off, always ends: some *)
(* linked task is eligible, whatever the others wait for, and although any *)
(* of them may leave the list at any time.                                 *)
SchedulerFindsTask == \E d \in 1..Len(list) : Eligible(Walk(d), tick)

(* A task structure that was freed is not in the list, and the CPU is on   *)
(* it only until the reschedule that ends remove_task_by_pid: no switch    *)
(* ever goes to freed memory.                                              *)
FreedNeverRuns ==
  /\ \A i \in DOMAIN list : list[i] \notin freed
  /\ current \in freed => pc[current] = "ex_gone"

(* usleep does not return before its deadline, wherever the timer          *)
(* interrupts it.                                                          *)
UsleepNotEarly == pc[current] = "sleep_ret" => sleep[current] <= tick

(* No two linked tasks have one pid: block_tasks makes ++pidcount and the  *)
(* insertion one step for the other creators.                              *)
UniquePids ==
  \A i, j \in DOMAIN list : pid[list[i]] = pid[list[j]] => i = j

(* No task is lost: one that was created is linked until it is freed,      *)
(* except while it is current and on its way out.                          *)
NoLostTask ==
  \A t \in Task \ freed : pc[t] # "none" => Linked(t) \/ t = current

(* Round robin starves nobody: a task that is ready gets the CPU. *)
ReadyRuns ==
  \A t \in Task :
    (Linked(t) /\ state[t] = "RUNNING") ~> (current = t \/ ~Linked(t))

(* A task in usleep becomes RUNNING again, even if all the others sleep    *)
(* too: the idle task lets the ticks come.                                 *)
SleeperWakes ==
  \A t \in Task : (state[t] = "SLEEPING") ~> (state[t] = "RUNNING")

(* A task that has begun to exit is freed, with another in waitpid for it. *)
DyingFreed ==
  \A t \in Task : (pc[t] \in {"ex_sched", "ex_block"}) ~> (t \in freed)

(* Where a task is, or will be once it has left the semaphore. *)
SemLabels == {"wait_state", "wait_sem", "wait_sched", "dec_load", "dec_store",
              "crit", "inc_store"}
At(t) == IF pc[t] \in SemLabels THEN ret[t] ELSE pc[t]

Creating == {"c_pid", "c_pid_store", "c_tail", "c_link"}
Removing == {"ex_sched", "ex_block", "ex_free", "ex_gone"}

(* The list starts with the kernel's main thread and the idle task, holds  *)
(* no task twice and only tasks whose creation is complete.                *)
ListInv ==
  /\ Len(list) >= 2 /\ list[1] = Root /\ list[2] = Idle
  /\ \A i, j \in 1..Len(list) : list[i] = list[j] => i = j
  /\ \A i \in 1..Len(list) : pc[list[i]] # "none" /\ list[i] \notin freed

(* The idle task only ever loops.  No other task has its pid, or pid 0.    *)
IdleInv ==
  /\ state[Idle] = "RUNNING" /\ pc[Idle] = "idle"
  /\ pid[Root] = 0 /\ pid[Idle] = 1 /\ pidcount >= 1
  /\ \A t \in Task \ {Root, Idle} : pc[t] # "none" => pid[t] >= 2

(* A structure under construction is in the hands of one creator only.     *)
CreateInv ==
  /\ allocated >= 1 /\ \A t \in Task : t > allocated => pc[t] = "none"
  /\ \A t \in Task : At(t) \in Creating =>
       /\ node[t] \in 2..allocated /\ pc[node[t]] = "none"
       /\ \A u \in Task : At(u) \in Creating /\ node[u] = node[t] => u = t
  /\ \A t \in Task : pc[t] = "c_pid_store" => tmp[t] >= 1
  /\ \A t \in Task : At(t) \in {"c_tail", "c_link"} => pid[node[t]] >= 2
  /\ \A t \in Task : pc[t] = "c_link" => tail[t] # Root

(* A structure that is being removed is neither of the first two, and out  *)
(* of the list before it is freed.                                         *)
RemoveInv ==
  /\ \A t \in Task : At(t) \in Removing =>
       node[t] \notin {Root, Idle} /\ pc[node[t]] # "none"
  /\ \A t \in Task : At(t) = "ex_free" => ~Linked(node[t])
  /\ \A t \in freed : pc[t] # "none"
  /\ current \in freed => pc[current] = "ex_gone"

(* What enter_semaphore was called from. *)
CallInv == \A t \in Task : ret[t] \in {"kern", "ex_free", "c_pid", "c_tail"}

IInv == TypeOK /\ ListInv /\ IdleInv /\ CreateInv /\ RemoveInv /\ CallInv

(* At most one task is between enter_semaphore and leave_semaphore of a    *)
(* semaphore that was initialised to 1.                                    *)
SemaphoreExclusion ==
  \A t, u \in Task :
    /\ pc[t] \in {"crit", "inc_store"} /\ pc[u] \in {"crit", "inc_store"}
    /\ arg[t] = arg[u]
    => t = u

(* A process in waitpid's loop is not left with a target that was freed    *)
(* without ever showing it the ENDED state.                                *)
ExitStatusDelivered ==
  \A t \in Task :
    pc[t] \in {"wp_test", "wp_sched"} /\ node[t] \in freed => state[node[t]] = "ENDED"
=============================================================================

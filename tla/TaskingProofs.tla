--------------------------- MODULE TaskingProofs ---------------------------
(***************************************************************************)
(* The inductive invariant IInv of Tasking and what follows from it for    *)
(* every number of tasks, every set of semaphores and every assignment of  *)
(* kernel services to tasks; then QuietInv, and what follows where no      *)
(* program takes a semaphore by itself.                                    *)
(***************************************************************************)
EXTENDS Tasking, TLAPS

USE TaskingAssumption

(* kmain's task and the idle task are two tasks. *)
LEMMA TaskFacts == Root \in Task /\ Idle \in Task /\ Root # Idle
BY DEF Root, Idle, Task

(* A function on 1..n is a sequence of length n. *)
LEMMA FunctionIsSeq ==
  ASSUME NEW S, NEW n \in Nat, NEW f \in [1..n -> S]
  PROVE  f \in Seq(S) /\ Len(f) = n
OBVIOUS

(* Positions in a list that is a sequence of tasks. *)
LEMMA ListFacts ==
  ASSUME TypeOK
  PROVE  /\ Len(list) \in Nat /\ DOMAIN list = 1..Len(list)
         /\ \A i \in 1..Len(list) : list[i] \in Task
BY DEF TypeOK

(* IndexOf returns a position of the task. *)
LEMMA IndexFacts ==
  ASSUME TypeOK, NEW t, Linked(t)
  PROVE  IndexOf(t) \in 1..Len(list) /\ list[IndexOf(t)] = t
<1>1. \E i \in 1..Len(list) : list[i] = t
  BY ListFacts DEF Linked
<1> QED BY <1>1, ListFacts DEF IndexOf

(* Every round of the scheduler's loop looks at a linked task. *)
LEMMA WalkInList ==
  ASSUME TypeOK, ListInv, NEW d \in 1..Len(list)
  PROVE  \E i \in 1..Len(list) : Walk(d) = list[i]
<1> DEFINE start == IF Linked(current) THEN IndexOf(current)
                    ELSE IF gap < Len(list) THEN gap ELSE 0
           i == IF start + d <= Len(list) THEN start + d ELSE start + d - Len(list)
<1>1. start \in 0..Len(list)
  <2>1. gap \in Nat BY DEF TypeOK
  <2> QED BY <2>1, ListFacts, IndexFacts
<1>2. i \in 1..Len(list)
  <2> HIDE DEF start
  <2> QED BY <1>1, ListFacts
<1>3. Walk(d) = list[i]
  BY DEF Walk
<1> QED BY <1>2, <1>3

(* A switch goes to a linked task and leaves the idle task RUNNING. *)
LEMMA SwitchEffect ==
  ASSUME TypeOK, ListInv, IdleInv, NEW now, Switch(now)
  PROVE  /\ current' \in Task /\ intr' = TRUE /\ current' \notin freed
         /\ state' \in [Task -> States] /\ state'[Idle] = "RUNNING"
<1>1. PICK d \in 1..Len(list) :
        /\ state' = [state EXCEPT ![Walk(d)] = "RUNNING"]
        /\ current' = Walk(d) /\ intr' = TRUE
  BY DEF Switch
<1>2. PICK i \in 1..Len(list) : Walk(d) = list[i]
  BY WalkInList
<1>3. list[i] \in Task /\ list[i] \notin freed
  BY ListFacts DEF ListInv
<1>4. state \in [Task -> States] /\ state[Idle] = "RUNNING" /\ Idle \in Task
  BY DEF TypeOK, IdleInv, Idle, Task
<1> QED BY <1>1, <1>2, <1>3, <1>4 DEF States

Returns == {"kern", "ex_free", "c_pid", "c_tail"}

(* What a step of task t leaves alone when it neither creates, unlinks nor *)
(* frees a task.                                                           *)
Quiet(t) ==
  /\ list' = list /\ pid' = pid /\ pidcount' = pidcount
  /\ allocated' = allocated /\ freed' = freed
  /\ \A u \in Task \ {t} :
       /\ pc'[u] = pc[u] /\ ret'[u] = ret[u] /\ tmp'[u] = tmp[u]
       /\ node'[u] = node[u] /\ tail'[u] = tail[u]
  /\ pc[t] \notin {"none", "idle"} /\ pc'[t] \notin {"none", "idle"}
  /\ state'[Idle] = "RUNNING" /\ ret'[t] \in Returns
  /\ current' \in freed => current' = t /\ pc'[t] = "ex_gone"
  /\ At(t)' \in Creating => At(t) \in Creating /\ node'[t] = node[t]
  /\ pc'[t] = "c_pid_store" => tmp'[t] >= 1
  /\ At(t)' \in {"c_tail", "c_link"} => At(t) \in {"c_tail", "c_link"}
  /\ pc'[t] = "c_link" => tail'[t] # Root
  /\ At(t)' \in Removing => node'[t] \notin {Root, Idle} /\ pc[node'[t]] # "none"
  /\ At(t)' = "ex_free" => ~Linked(node'[t])

(* A step that leaves the list and the removers' and creators' state alone keeps IInv. *)
LEMMA QuietStep ==
  ASSUME IInv, TypeOK', NEW t \in Task, Quiet(t)
  PROVE  IInv'
<1> USE DEF IInv
<1>1. \A u \in Task : u # t => pc'[u] = pc[u] /\ At(u)' = At(u)
  BY DEF Quiet, At
<1>2. \A u \in Task : (pc[u] = "none") <=> (pc'[u] = "none")
  BY <1>1 DEF Quiet
<1>3. ListInv'
  <2>1. list' = list /\ freed' = freed BY DEF Quiet
  <2> QED BY <1>2, <2>1, ListFacts DEF ListInv
<1>4. IdleInv'
  <2>1. Idle \in Task /\ Idle # t BY DEF Quiet, IdleInv, Idle, Task
  <2>2. pc'[Idle] = pc[Idle] BY <1>1, <2>1
  <2>3. pid' = pid /\ pidcount' = pidcount /\ state'[Idle] = "RUNNING" BY DEF Quiet
  <2> QED BY <1>2, <2>2, <2>3 DEF IdleInv
<1>5. CreateInv'
  <2>1. allocated' = allocated /\ pid' = pid BY DEF Quiet
  <2>2. allocated' >= 1 /\ \A u \in Task : u > allocated' => pc'[u] = "none"
    BY <1>2, <2>1 DEF CreateInv
  <2>3. \A u \in Task : At(u)' \in Creating => At(u) \in Creating /\ node'[u] = node[u]
    BY <1>1 DEF Quiet
  <2>4. ASSUME NEW u \in Task, At(u)' \in Creating
        PROVE  /\ node'[u] \in 2..allocated' /\ pc'[node'[u]] = "none"
               /\ \A w \in Task : At(w)' \in Creating /\ node'[w] = node'[u] => w = u
    <3>1. At(u) \in Creating /\ node'[u] = node[u] BY <2>3, <2>4
    <3>2. node[u] \in Task BY DEF TypeOK
    <3> QED BY <1>2, <2>1, <2>3, <3>1, <3>2 DEF CreateInv
  <2>5. \A u \in Task : pc'[u] = "c_pid_store" => tmp'[u] >= 1
    BY DEF Quiet, CreateInv
  <2>6. \A u \in Task : At(u)' \in {"c_tail", "c_link"} =>
          At(u) \in {"c_tail", "c_link"} /\ node'[u] = node[u]
    BY <1>1, <2>3 DEF Quiet, Creating
  <2>7. \A u \in Task : At(u)' \in {"c_tail", "c_link"} => pid'[node'[u]] >= 2
    BY <2>1, <2>6 DEF CreateInv
  <2>8. \A u \in Task : pc'[u] = "c_link" => tail'[u] # Root
    BY DEF Quiet, CreateInv
  <2> QED BY <2>2, <2>4, <2>5, <2>7, <2>8 DEF CreateInv
<1>6. RemoveInv'
  <2>1. list' = list /\ freed' = freed BY DEF Quiet
  <2>2. \A u \in Task : node'[u] \in Task BY DEF TypeOK
  <2>3. \A u \in Task : At(u)' \in Removing =>
          node'[u] \notin {Root, Idle} /\ pc[node'[u]] # "none"
    BY <1>1 DEF Quiet, RemoveInv
  <2>4. \A u \in Task : At(u)' \in Removing =>
          node'[u] \notin {Root, Idle} /\ pc'[node'[u]] # "none"
    BY <1>2, <2>2, <2>3
  <2>5. \A u \in Task : At(u)' = "ex_free" => ~Linked(node'[u])
    BY <1>1 DEF Quiet, RemoveInv
  <2>6. \A u : Linked(u)' <=> Linked(u) BY <2>1 DEF Linked
  <2>7. \A u \in freed' : pc'[u] # "none"
    BY <1>2, <2>1 DEF RemoveInv, TypeOK
  <2>8. current' \in freed' => pc'[current'] = "ex_gone"
    BY <2>1 DEF Quiet
  <2>9. \A u \in Task : At(u)' = "ex_free" => ~Linked(node[u])'
    BY <2>5, <2>1 DEF Linked
  <2> QED BY <2>4, <2>9, <2>7, <2>8 DEF RemoveInv
<1>7. CallInv'
  BY DEF Quiet, CallInv, Returns
<1> QED BY <1>3, <1>4, <1>5, <1>6, <1>7

(* Entering the kernel through int 0x50 (syscall_handler) keeps IInv. *)
LEMMA SyscallStep == ASSUME IInv, NEW t \in Task, Syscall(t) PROVE IInv'
<1> USE DEF IInv, Syscall, Goto, life, fields, locals
<1>1. TypeOK' BY DEF TypeOK, Labels, States, CallInv
<1>2. Quiet(t)
  BY DEF TypeOK, Quiet, IdleInv, At, Creating, Removing, SemLabels, Returns, CallInv, RemoveInv
<1> QED BY <1>1, <1>2, QuietStep

(* Returning from a system call keeps IInv. *)
LEMMA SysretStep == ASSUME IInv, NEW t \in Task, Sysret(t) PROVE IInv'
<1> USE DEF IInv, Sysret, Goto, life, fields, locals
<1>1. TypeOK' BY DEF TypeOK, Labels, States, CallInv
<1>2. Quiet(t)
  BY DEF TypeOK, Quiet, IdleInv, At, Creating, Removing, SemLabels, Returns, CallInv, RemoveInv
<1> QED BY <1>1, <1>2, QuietStep

(* The test of enter_semaphore keeps IInv. *)
LEMMA EnterSemaphoreStep == ASSUME IInv, NEW t \in Task, NEW s \in Sems, EnterSemaphore(t, s) PROVE IInv'
<1> USE DEF IInv, EnterSemaphore, Goto, EnterCall, life, fields, locals
<1>1. TypeOK' BY DEF TypeOK, Labels, States, CallInv
<1>2. Quiet(t)
  BY DEF TypeOK, Quiet, IdleInv, At, Creating, Removing, SemLabels, Returns, CallInv, RemoveInv
<1> QED BY <1>1, <1>2, QuietStep

(* semaphore_wait's assignment of TASK_STATE_WAITING keeps IInv. *)
LEMMA SemaphoreWaitStateStep == ASSUME IInv, NEW t \in Task, SemaphoreWaitState(t) PROVE IInv'
<1> USE DEF IInv, SemaphoreWaitState, Goto, life, fields, locals
<1>1. TypeOK' BY DEF TypeOK, Labels, States, CallInv
<1>2. Quiet(t)
  BY DEF TypeOK, Quiet, IdleInv, At, Creating, Removing, SemLabels, Returns, CallInv, RemoveInv
<1> QED BY <1>1, <1>2, QuietStep

(* semaphore_wait's assignment of current->sem keeps IInv. *)
LEMMA SemaphoreWaitSemStep == ASSUME IInv, NEW t \in Task, SemaphoreWaitSem(t) PROVE IInv'
<1> USE DEF IInv, SemaphoreWaitSem, Goto, life, fields, locals
<1>1. TypeOK' BY DEF TypeOK, Labels, States, CallInv
<1>2. Quiet(t)
  BY DEF TypeOK, Quiet, IdleInv, At, Creating, Removing, SemLabels, Returns, CallInv, RemoveInv
<1> QED BY <1>1, <1>2, QuietStep

(* The load of enter_semaphore's decrement keeps IInv. *)
LEMMA DecrementLoadStep == ASSUME IInv, NEW t \in Task, DecrementLoad(t) PROVE IInv'
<1> USE DEF IInv, DecrementLoad, Goto, life, fields, locals
<1>1. TypeOK' BY DEF TypeOK, Labels, States, CallInv
<1>2. Quiet(t)
  BY DEF TypeOK, Quiet, IdleInv, At, Creating, Removing, SemLabels, Returns, CallInv, RemoveInv
<1> QED BY <1>1, <1>2, QuietStep

(* The store of enter_semaphore's decrement keeps IInv. *)
LEMMA DecrementStoreStep == ASSUME IInv, NEW t \in Task, DecrementStore(t) PROVE IInv'
<1> USE DEF IInv, DecrementStore, Goto, life, fields, locals
<1>1. TypeOK' BY DEF TypeOK, Labels, States, CallInv
<1>2. Quiet(t)
  BY DEF TypeOK, Quiet, IdleInv, At, Creating, Removing, SemLabels, Returns, CallInv, RemoveInv
<1> QED BY <1>1, <1>2, QuietStep

(* The load of leave_semaphore's increment keeps IInv. *)
LEMMA LeaveSemaphoreStep == ASSUME IInv, NEW t \in Task, LeaveSemaphore(t) PROVE IInv'
<1> USE DEF IInv, LeaveSemaphore, Goto, life, fields, locals
<1>1. TypeOK' BY DEF TypeOK, Labels, States, CallInv
<1>2. Quiet(t)
  BY DEF TypeOK, Quiet, IdleInv, At, Creating, Removing, SemLabels, Returns, CallInv, RemoveInv
<1> QED BY <1>1, <1>2, QuietStep

(* The store of leave_semaphore's increment keeps IInv. *)
LEMMA IncrementStoreStep == ASSUME IInv, NEW t \in Task, IncrementStore(t) PROVE IInv'
<1> USE DEF IInv, IncrementStore, Goto, life, fields, locals
<1>1. TypeOK' BY DEF TypeOK, Labels, States, CallInv
<1>2. Quiet(t)
  BY DEF TypeOK, Quiet, IdleInv, At, Creating, Removing, SemLabels, Returns, CallInv, RemoveInv
<1> QED BY <1>1, <1>2, QuietStep

(* usleep's deadline keeps IInv. *)
LEMMA UsleepStep == ASSUME IInv, NEW t \in Task, NEW d \in Naps, Usleep(t, d) PROVE IInv'
<1> USE DEF IInv, Usleep, Goto, life, fields, locals
<1>1. TypeOK' BY DEF TypeOK, Labels, States, CallInv
<1>2. Quiet(t)
  BY DEF TypeOK, Quiet, IdleInv, At, Creating, Removing, SemLabels, Returns, CallInv, RemoveInv
<1> QED BY <1>1, <1>2, QuietStep

(* usleep's assignment of TASK_STATE_SLEEPING keeps IInv. *)
LEMMA UsleepStateStep == ASSUME IInv, NEW t \in Task, UsleepState(t) PROVE IInv'
<1> USE DEF IInv, UsleepState, Goto, life, fields, locals
<1>1. TypeOK' BY DEF TypeOK, Labels, States, CallInv
<1>2. Quiet(t)
  BY DEF TypeOK, Quiet, IdleInv, At, Creating, Removing, SemLabels, Returns, CallInv, RemoveInv
<1> QED BY <1>1, <1>2, QuietStep

(* The return from usleep keeps IInv. *)
LEMMA UsleepReturnStep == ASSUME IInv, NEW t \in Task, UsleepReturn(t) PROVE IInv'
<1> USE DEF IInv, UsleepReturn, Goto, life, fields, locals
<1>1. TypeOK' BY DEF TypeOK, Labels, States, CallInv
<1>2. Quiet(t)
  BY DEF TypeOK, Quiet, IdleInv, At, Creating, Removing, SemLabels, Returns, CallInv, RemoveInv
<1> QED BY <1>1, <1>2, QuietStep

(* waitpid's lookup and registration keep IInv. *)
LEMMA WaitpidStep == ASSUME IInv, NEW t \in Task, NEW n \in Task, Waitpid(t, n) PROVE IInv'
<1> USE DEF IInv, Waitpid, Goto, life, fields, locals
<1>1. TypeOK'
  <2>1. waiting' \in [Task -> Int] BY DEF TypeOK
  <2>2. node' \in [Task -> Task] BY DEF TypeOK
  <2> QED BY <2>1, <2>2 DEF TypeOK, Labels
<1>2. Quiet(t)
  BY DEF TypeOK, Quiet, IdleInv, At, Creating, Removing, SemLabels, Returns, CallInv, RemoveInv
<1> QED BY <1>1, <1>2, QuietStep

(* waitpid's test of the child's state keeps IInv. *)
LEMMA WaitpidTestStep == ASSUME IInv, NEW t \in Task, WaitpidTest(t) PROVE IInv'
<1> USE DEF IInv, WaitpidTest, Goto, life, fields, locals
<1>1. TypeOK' BY DEF TypeOK, Labels, States, CallInv
<1>2. Quiet(t)
  BY DEF TypeOK, Quiet, IdleInv, At, Creating, Removing, SemLabels, Returns, CallInv, RemoveInv
<1> QED BY <1>1, <1>2, QuietStep

(* The load of waitpid's waiting-- keeps IInv. *)
LEMMA WaitpidDecrementStep == ASSUME IInv, NEW t \in Task, WaitpidDecrement(t) PROVE IInv'
<1> USE DEF IInv, WaitpidDecrement, Goto, life, fields, locals
<1>1. TypeOK' BY DEF TypeOK, Labels, States, CallInv
<1>2. Quiet(t)
  BY DEF TypeOK, Quiet, IdleInv, At, Creating, Removing, SemLabels, Returns, CallInv, RemoveInv
<1> QED BY <1>1, <1>2, QuietStep

(* The store of waitpid's waiting-- and its return keep IInv. *)
LEMMA WaitpidReturnStep == ASSUME IInv, NEW t \in Task, WaitpidReturn(t) PROVE IInv'
<1> USE DEF IInv, WaitpidReturn, Goto, life, fields, locals
<1>1. TypeOK'
  <2>1. waiting' \in [Task -> Int]
    <3>1. tmp[t] - 1 \in Int /\ node[t] \in Task BY DEF TypeOK
    <3> QED BY <3>1 DEF TypeOK
  <2>2. node' \in [Task -> Task] BY TaskFacts DEF TypeOK
  <2>3. tmp' \in [Task -> Int] BY DEF TypeOK
  <2> QED BY <2>1, <2>2, <2>3 DEF TypeOK, Labels
<1>2. Quiet(t)
  BY DEF TypeOK, Quiet, IdleInv, At, Creating, Removing, SemLabels, Returns, CallInv, RemoveInv
<1> QED BY <1>1, <1>2, QuietStep

(* A fault that panics keeps IInv. *)
LEMMA PageFaultPanicStep == ASSUME IInv, NEW t \in Task, PageFaultPanic(t) PROVE IInv'
<1> USE DEF IInv, PageFaultPanic, Goto, life, fields, locals
<1>1. TypeOK' BY DEF TypeOK, Labels, States, CallInv
<1>2. Quiet(t)
  BY DEF TypeOK, Quiet, IdleInv, At, Creating, Removing, SemLabels, Returns, CallInv, RemoveInv
<1> QED BY <1>1, <1>2, QuietStep

(* init_task's load of the pid counter keeps IInv. *)
LEMMA CreatePidLoadStep == ASSUME IInv, NEW t \in Task, CreatePidLoad(t) PROVE IInv'
<1> USE DEF IInv, CreatePidLoad, Goto, life, fields, locals
<1>1. TypeOK' BY DEF TypeOK, Labels, States, CallInv
<1>2. Quiet(t)
  BY DEF TypeOK, Quiet, IdleInv, At, Creating, Removing, SemLabels, Returns, CallInv, RemoveInv
<1> QED BY <1>1, <1>2, QuietStep

(* list_add_node's walk to the tail keeps IInv. *)
LEMMA CreateTailStep == ASSUME IInv, NEW t \in Task, CreateTail(t) PROVE IInv'
<1> USE DEF IInv, CreateTail, Goto, life, fields, locals
<1>0. list[Len(list)] \in Task /\ list[Len(list)] # Root
  BY ListFacts, TaskFacts DEF ListInv
<1>1. TypeOK' BY <1>0 DEF TypeOK, Labels
<1>2. Quiet(t)
  BY <1>0 DEF TypeOK, Quiet, IdleInv, At, Creating, Removing, SemLabels, Returns, CallInv, RemoveInv
<1> QED BY <1>1, <1>2, QuietStep

(* A task that gives up the processor keeps IInv. *)
LEMMA YieldStep == ASSUME IInv, NEW t \in Task, Yield(t) PROVE IInv'
<1> USE DEF IInv, Yield, Reschedule, Goto, life, fields, locals
<1>1. current' \in Task /\ intr' = TRUE /\ current' \notin freed
      /\ state' \in [Task -> States] /\ state'[Idle] = "RUNNING"
  BY SwitchEffect
<1>2. TypeOK' BY <1>1 DEF TypeOK, Labels
<1>3. Quiet(t)
  BY <1>1 DEF TypeOK, Quiet, At, Creating, Removing, SemLabels, Returns, CallInv, RemoveInv
<1> QED BY <1>2, <1>3, QuietStep

(* semaphore_wait's reschedule keeps IInv. *)
LEMMA SemaphoreWaitSchedStep == ASSUME IInv, NEW t \in Task, SemaphoreWaitSched(t) PROVE IInv'
<1> USE DEF IInv, SemaphoreWaitSched, Reschedule, Goto, life, fields, locals
<1>1. current' \in Task /\ intr' = TRUE /\ current' \notin freed
      /\ state' \in [Task -> States] /\ state'[Idle] = "RUNNING"
  BY SwitchEffect
<1>2. TypeOK' BY <1>1 DEF TypeOK, Labels
<1>3. Quiet(t)
  BY <1>1 DEF TypeOK, Quiet, At, Creating, Removing, SemLabels, Returns, CallInv, RemoveInv
<1> QED BY <1>2, <1>3, QuietStep

(* usleep's reschedule keeps IInv. *)
LEMMA UsleepSchedStep == ASSUME IInv, NEW t \in Task, UsleepSched(t) PROVE IInv'
<1> USE DEF IInv, UsleepSched, Reschedule, Goto, life, fields, locals
<1>1. current' \in Task /\ intr' = TRUE /\ current' \notin freed
      /\ state' \in [Task -> States] /\ state'[Idle] = "RUNNING"
  BY SwitchEffect
<1>2. TypeOK' BY <1>1 DEF TypeOK, Labels
<1>3. Quiet(t)
  BY <1>1 DEF TypeOK, Quiet, At, Creating, Removing, SemLabels, Returns, CallInv, RemoveInv
<1> QED BY <1>2, <1>3, QuietStep

(* waitpid's reschedule keeps IInv. *)
LEMMA WaitpidSchedStep == ASSUME IInv, NEW t \in Task, WaitpidSched(t) PROVE IInv'
<1> USE DEF IInv, WaitpidSched, Reschedule, Goto, life, fields, locals
<1>1. current' \in Task /\ intr' = TRUE /\ current' \notin freed
      /\ state' \in [Task -> States] /\ state'[Idle] = "RUNNING"
  BY SwitchEffect
<1>2. TypeOK' BY <1>1 DEF TypeOK, Labels
<1>3. Quiet(t)
  BY <1>1 DEF TypeOK, Quiet, At, Creating, Removing, SemLabels, Returns, CallInv, RemoveInv
<1> QED BY <1>2, <1>3, QuietStep

(* remove_task_by_pid's reschedule for the waiters keeps IInv. *)
LEMMA RemoveSchedStep == ASSUME IInv, NEW t \in Task, RemoveSched(t) PROVE IInv'
<1> USE DEF IInv, RemoveSched, Reschedule, Goto, life, fields, locals
<1>1. current' \in Task /\ intr' = TRUE /\ current' \notin freed
      /\ state' \in [Task -> States] /\ state'[Idle] = "RUNNING"
  BY SwitchEffect
<1>2. TypeOK' BY <1>1 DEF TypeOK, Labels
<1>3. Quiet(t)
  BY <1>1 DEF TypeOK, Quiet, At, Creating, Removing, SemLabels, Returns, CallInv, RemoveInv
<1> QED BY <1>2, <1>3, QuietStep

(* remove_task_by_pid's last reschedule keeps IInv. *)
LEMMA RemoveDoneStep == ASSUME IInv, NEW t \in Task, RemoveDone(t) PROVE IInv'
<1> USE DEF IInv, RemoveDone, Reschedule, Goto, life, fields, locals
<1>1. current' \in Task /\ intr' = TRUE /\ current' \notin freed
      /\ state' \in [Task -> States] /\ state'[Idle] = "RUNNING"
  BY SwitchEffect
<1>2. TypeOK' BY <1>1 DEF TypeOK, Labels
<1>3. Quiet(t)
  BY <1>1 DEF TypeOK, Quiet, At, Creating, Removing, SemLabels, Returns, CallInv, RemoveInv
<1> QED BY <1>2, <1>3, QuietStep

(* A switch at which no task moves: the timer's, and the idle task's. *)
LEMMA SwitchStep ==
  ASSUME IInv, NEW now, Switch(now), tick' \in 0..MaxTick, pc' = pc,
         UNCHANGED <<life, fields, sem, locals>>
  PROVE  IInv'
<1> USE DEF IInv, life, fields, locals
<1>1. current' \in Task /\ intr' = TRUE /\ current' \notin freed
      /\ state' \in [Task -> States] /\ state'[Idle] = "RUNNING"
  BY SwitchEffect
<1>2. TypeOK' BY <1>1 DEF TypeOK
<1>3. ListInv' BY DEF ListInv
<1>4. IdleInv' BY <1>1 DEF IdleInv
<1>5. CreateInv' BY DEF CreateInv, At
<1>6. RemoveInv' BY <1>1 DEF RemoveInv, At, Linked
<1>7. CallInv' BY DEF CallInv
<1> QED BY <1>2, <1>3, <1>4, <1>5, <1>6, <1>7

(* The timer interrupt keeps IInv. *)
LEMMA TimerStep == ASSUME IInv, Timer PROVE IInv'
<1>1. tick' \in 0..MaxTick BY DEF Timer, IInv, TypeOK
<1> QED BY <1>1, SwitchStep DEF Timer

(* The idle task keeps IInv. *)
LEMMA IdleTaskStep == ASSUME IInv, NEW t \in Task, IdleTask(t) PROVE IInv'
<1>1. pc' = pc BY DEF IdleTask, Reschedule, Goto, IInv, TypeOK
<1>2. tick' \in 0..MaxTick BY DEF IdleTask, Reschedule, IInv, TypeOK
<1> QED BY <1>1, <1>2, SwitchStep DEF IdleTask, Reschedule

(* The first task with a pid other than 0 and 1 is neither of the first    *)
(* two.                                                                    *)
LEMMA RemoveTaskStep ==
  ASSUME IInv, NEW t \in Task, NEW from \in {"user", "kern", "crit"}, pid[t] # 0,
         from = "crit" => ret[t] = "kern", RemoveTask(t, from),
         waitsem' \in [Task -> Sems \cup {NullSem}],
         UNCHANGED <<life, current, tick, sleep, waiting, pid, sem, arg, ret, tmp, tail>>
  PROVE  IInv'
<1> USE DEF IInv, life
<1>1. PICK n \in Task :
        /\ Finds(pid[t], n)
        /\ Goto(t, from, IF waiting[n] # 0 THEN "ex_sched" ELSE "ex_block")
        /\ state' = [state EXCEPT ![n] = "ENDED"]
        /\ node' = [node EXCEPT ![t] = n]
        /\ intr' = FALSE
  BY DEF RemoveTask
<1>2. n \notin {Root, Idle} /\ pc[n] # "none"
  <2>1. t \notin {Root, Idle} /\ pc[t] # "none"
    BY <1>1 DEF Goto, IdleInv
  <2>2. pid[t] >= 2 BY <2>1 DEF IdleInv
  <2>3. pid[n] = pid[t] /\ Linked(n) BY <1>1 DEF Finds, Linked
  <2>4. pc[n] # "none" BY <2>3, ListFacts DEF Linked, ListInv
  <2> QED BY <2>2, <2>3, <2>4 DEF IdleInv
<1>3. TypeOK' BY <1>1 DEF TypeOK, Goto, Labels, States
<1>4. Quiet(t)
  BY <1>1, <1>2, TaskFacts DEF TypeOK, Goto, Quiet, IdleInv, At, Creating, Removing,
       SemLabels, Returns, CallInv, RemoveInv
<1> QED BY <1>3, <1>4, QuietStep

(* exit_process keeps IInv. *)
LEMMA ExitProcessStep == ASSUME IInv, NEW t \in Task, ExitProcess(t) PROVE IInv'
<1>1. waitsem' \in [Task -> Sems \cup {NullSem}] BY DEF ExitProcess, IInv, TypeOK
<1> QED BY <1>1, RemoveTaskStep DEF ExitProcess

(* A fault that kills its task keeps IInv. *)
LEMMA PageFaultKillStep ==
  ASSUME IInv, NEW t \in Task, NEW from \in {"user", "kern", "crit"},
         PageFaultKill(t, from)
  PROVE  IInv'
<1>1. waitsem' \in [Task -> Sems \cup {NullSem}] BY DEF PageFaultKill, IInv, TypeOK
<1> QED BY <1>1, RemoveTaskStep DEF PageFaultKill

(* Unlinking a task other than the first two leaves a list of the others,  *)
(* the first two in their places.                                          *)
LEMMA UnlinkFacts ==
  ASSUME TypeOK, ListInv, NEW n, Linked(n), n \notin {Root, Idle}, Unlink(n)
  PROVE  /\ list' \in Seq(Task) /\ gap' \in Nat
         /\ Len(list') >= 2 /\ list'[1] = Root /\ list'[2] = Idle
         /\ \A i \in 1..Len(list') :
              \E j \in 1..Len(list) : list'[i] = list[j] /\ list[j] # n
         /\ \A i, j \in 1..Len(list') : list'[i] = list'[j] => i = j
<1> DEFINE k == IndexOf(n)
           m == Len(list) - 1
<1>1. k \in 1..Len(list) /\ list[k] = n BY IndexFacts
<1>2. k >= 3 BY <1>1, ListFacts DEF ListInv
<1>3. /\ list' = [i \in 1..m |-> IF i < k THEN list[i] ELSE list[i + 1]]
      /\ gap' = IF n = current THEN k - 1 ELSE gap
  BY DEF Unlink
<1> HIDE DEF k
<1>4. m \in Nat /\ m >= 2 BY <1>1, <1>2, ListFacts
<1>5. \A i \in 1..m : list'[i] = list[IF i < k THEN i ELSE i + 1] BY <1>3
<1>6. \A i \in 1..m : (IF i < k THEN i ELSE i + 1) \in 1..Len(list) /\ (IF i < k THEN i ELSE i + 1) # k
  BY <1>1, ListFacts
<1>7. list' \in [1..m -> Task] BY <1>3, <1>5, <1>6, ListFacts
<1>8. list' \in Seq(Task) /\ Len(list') = m BY <1>4, <1>7
<1>9. gap' \in Nat BY <1>1, <1>3, ListFacts DEF TypeOK
<1>10. list'[1] = Root /\ list'[2] = Idle
  <2>1. 1 \in 1..m /\ 2 \in 1..m /\ 1 < k /\ 2 < k BY <1>1, <1>2, <1>4
  <2> QED BY <1>5, <2>1 DEF ListInv
<1>11. \A i, j \in 1..Len(list) : list[i] = list[j] => i = j BY DEF ListInv
<1>12. \A i \in 1..m : \E j \in 1..Len(list) : list'[i] = list[j] /\ list[j] # n
  BY <1>1, <1>5, <1>6, <1>11
<1>13. \A i, j \in 1..m : list'[i] = list'[j] => i = j
  BY <1>1, <1>4, <1>5, <1>6, <1>11
<1> QED BY <1>4, <1>8, <1>9, <1>10, <1>12, <1>13

(* What a task removes. *)
LEMMA RemoverFacts ==
  ASSUME TypeOK, RemoveInv
  PROVE  \A u \in Task :
           /\ node[u] \in Task
           /\ At(u) \in Removing => node[u] \notin {Root, Idle} /\ pc[node[u]] # "none"
<1>1. \A u \in Task : node[u] \in Task BY DEF TypeOK
<1>2. \A u \in Task : At(u) \in Removing => node[u] \notin {Root, Idle} /\ pc[node[u]] # "none"
  BY DEF RemoveInv
<1> QED BY <1>1, <1>2

(* A step of t that is not in creation leaves the creators alone. *)
LEMMA CreateKept ==
  ASSUME TypeOK, CreateInv, NEW t \in Task,
         \A u \in Task : (pc[u] = "none") <=> (pc'[u] = "none"),
         \A u \in Task : u # t =>
           /\ pc'[u] = pc[u] /\ At(u)' = At(u) /\ node'[u] = node[u]
           /\ tmp'[u] = tmp[u] /\ tail'[u] = tail[u],
         pid' = pid, allocated' = allocated,
         At(t)' \notin Creating, pc'[t] \notin Creating
  PROVE  CreateInv'
<1>1. \A u \in Task : At(u)' \in Creating =>
        u # t /\ At(u) \in Creating /\ node'[u] = node[u] /\ node[u] \in Task
  BY DEF TypeOK
<1>2. allocated' >= 1 /\ \A u \in Task : u > allocated' => pc'[u] = "none"
  BY DEF CreateInv
<1>3. \A u \in Task : At(u)' \in Creating =>
        /\ node'[u] \in 2..allocated' /\ pc'[node'[u]] = "none"
        /\ \A w \in Task : At(w)' \in Creating /\ node'[w] = node'[u] => w = u
  BY <1>1 DEF CreateInv
<1>4. \A u \in Task : pc'[u] = "c_pid_store" => tmp'[u] >= 1
  BY DEF CreateInv, Creating
<1>5. \A u \in Task : At(u)' \in {"c_tail", "c_link"} => pid'[node'[u]] >= 2
  BY <1>1 DEF CreateInv, Creating
<1>6. \A u \in Task : pc'[u] = "c_link" => tail'[u] # Root
  BY DEF CreateInv, Creating
<1> QED BY <1>2, <1>3, <1>4, <1>5, <1>6 DEF CreateInv

(* Taking a dying task out of the list keeps IInv. *)
LEMMA RemoveUnlinkStep == ASSUME IInv, NEW t \in Task, RemoveUnlink(t) PROVE IInv'
<1> USE DEF IInv
<1> DEFINE n == node[t]
<1>1. /\ pc[t] = "ex_block" /\ t = current
      /\ pc' = [pc EXCEPT ![t] = IF sem[Heap] # 0 THEN "dec_load" ELSE "wait_state"]
      /\ arg' = [arg EXCEPT ![t] = Heap] /\ ret' = [ret EXCEPT ![t] = "ex_free"]
      /\ IF Linked(n) THEN Unlink(n) ELSE UNCHANGED <<list, gap>>
      /\ panicked' = ~Linked(n) /\ intr' = FALSE
      /\ UNCHANGED <<pidcount, allocated, freed, current, tick, state, fields, sem,
                     tmp, node, tail>>
  BY DEF RemoveUnlink, EnterCall, Goto
<1>2. n \in Task /\ n \notin {Root, Idle} /\ pc[n] # "none"
  BY <1>1 DEF RemoveInv, At, SemLabels, Removing, TypeOK
<1>3. /\ list' \in Seq(Task) /\ gap' \in Nat
      /\ Len(list') >= 2 /\ list'[1] = Root /\ list'[2] = Idle
      /\ \A i \in 1..Len(list') :
           \E j \in 1..Len(list) : list'[i] = list[j] /\ list[j] # n
      /\ \A i, j \in 1..Len(list') : list'[i] = list'[j] => i = j
  <2>1. CASE Linked(n) BY <1>1, <1>2, <2>1, UnlinkFacts
  <2>2. CASE ~Linked(n)
    <3>1. list' = list /\ gap' = gap BY <1>1, <2>2
    <3>2. \A j \in 1..Len(list) : list[j] # n BY <2>2, ListFacts DEF Linked
    <3> QED BY <3>1, <3>2 DEF ListInv, TypeOK
  <2> QED BY <2>1, <2>2
<1>4. DOMAIN list' = 1..Len(list') BY <1>3
<1>5. \A u : Linked(u)' => Linked(u) /\ u # n
  BY <1>3, <1>4, ListFacts DEF Linked
<1>6. \A u \in Task : u # t => pc'[u] = pc[u] /\ At(u)' = At(u) /\ node'[u] = node[u]
  BY <1>1 DEF At, TypeOK
<1>7. At(t)' = "ex_free" /\ node'[t] = n /\ pc'[t] \in {"dec_load", "wait_state"}
  BY <1>1 DEF At, SemLabels, TypeOK
<1>8. \A u \in Task : (pc[u] = "none") <=> (pc'[u] = "none") BY <1>1, <1>6, <1>7
<1>9. TypeOK'
  BY <1>1, <1>3 DEF TypeOK, Labels, fields
<1>10. ListInv'
  <2>1. freed' = freed BY <1>1
  <2>2. \A i \in 1..Len(list') : list'[i] \in Task BY <1>3
  <2> QED BY <1>3, <1>8, <2>1, <2>2 DEF ListInv
<1>11. IdleInv'
  BY <1>1, <1>6, <1>8, TaskFacts DEF IdleInv, fields
<1>12. CreateInv'
  <2>1. pid' = pid /\ allocated' = allocated /\ tmp' = tmp /\ tail' = tail
    BY <1>1 DEF fields
  <2>2. At(t)' \notin Creating /\ pc'[t] \notin Creating BY <1>7 DEF Creating
  <2> QED BY <1>6, <1>8, <2>1, <2>2, CreateKept
<1>13. RemoveInv'
  <2>1. \A u \in Task : At(u)' \in Removing =>
          node'[u] \notin {Root, Idle} /\ pc'[node'[u]] # "none"
    <3>1. \A u \in Task : At(u)' \in Removing =>
            node'[u] \in Task /\ node'[u] \notin {Root, Idle} /\ pc[node'[u]] # "none"
      BY <1>2, <1>6, <1>7 DEF RemoveInv, TypeOK
    <3> QED BY <1>8, <3>1
  <2>2. \A u \in Task : At(u)' = "ex_free" => ~Linked(node[u])'
    <3>1. \A u \in Task : Linked(node[u])' => Linked(node[u]) /\ node[u] # n
      BY <1>1, <1>5
    <3> QED BY <1>6, <3>1 DEF RemoveInv
  <2>3. \A u \in freed' : pc'[u] # "none" BY <1>1, <1>8 DEF RemoveInv, TypeOK
  <2>4. current' \notin freed' BY <1>1 DEF RemoveInv
  <2> QED BY <2>1, <2>2, <2>3, <2>4 DEF RemoveInv
<1>14. CallInv' BY <1>1 DEF CallInv, TypeOK
<1> QED BY <1>9, <1>10, <1>11, <1>12, <1>13, <1>14

(* Freeing a dying task's structure keeps IInv. *)
LEMMA RemoveFreeStep == ASSUME IInv, NEW t \in Task, RemoveFree(t) PROVE IInv'
<1> USE DEF IInv, RemoveFree, Goto, fields, locals
<1>1. node[t] \in Task /\ pc[node[t]] # "none" /\ ~Linked(node[t])
  BY DEF TypeOK, RemoveInv, At, SemLabels, Removing
<1>2. \A u \in Task : u # t => pc'[u] = pc[u] /\ At(u)' = At(u)
  BY DEF At, TypeOK
<1>3. At(t)' = "ex_gone" /\ pc'[t] = "ex_gone" BY DEF At, SemLabels, TypeOK
<1>4. \A u \in Task : (pc[u] = "none") <=> (pc'[u] = "none") BY <1>2, <1>3
<1>5. TypeOK' BY <1>1 DEF TypeOK, Labels
<1>6. ListInv'
  <2>1. \A i \in 1..Len(list) : list[i] # node[t] BY <1>1, ListFacts DEF Linked
  <2> QED BY <1>4, <2>1, ListFacts DEF ListInv
<1>7. IdleInv' BY <1>2, <1>4, TaskFacts DEF IdleInv
<1>8. CreateInv'
  <2>1. At(t)' \notin Creating /\ pc'[t] \notin Creating BY <1>3 DEF Creating
  <2> QED BY <1>2, <1>4, <2>1, CreateKept
<1>9. RemoveInv'
  <2>1. \A u \in Task : At(u)' \in Removing =>
          node[u] \notin {Root, Idle} /\ pc'[node[u]] # "none"
    <3>1. At(t) \in Removing BY DEF At, SemLabels, Removing
    <3>2. \A u \in Task : At(u)' \in Removing =>
            node[u] \in Task /\ node[u] \notin {Root, Idle} /\ pc[node[u]] # "none"
      BY <1>2, <3>1, RemoverFacts
    <3> QED BY <1>4, <3>2
  <2>2. \A u \in Task : At(u)' = "ex_free" => ~Linked(node[u])
    BY <1>2, <1>3 DEF RemoveInv
  <2>3. \A u : Linked(u)' <=> Linked(u) BY DEF Linked
  <2>4. \A u \in freed' : pc'[u] # "none" BY <1>1, <1>4 DEF RemoveInv, TypeOK
  <2>5. \A u \in Task : At(u)' = "ex_free" => ~Linked(node[u])'
    BY <2>2 DEF Linked
  <2> QED BY <1>3, <2>1, <2>5, <2>4 DEF RemoveInv
<1>10. CallInv' BY DEF CallInv
<1> QED BY <1>5, <1>6, <1>7, <1>8, <1>9, <1>10

(* create_thread's allocation keeps IInv. *)
LEMMA CreateStep == ASSUME IInv, NEW t \in Task, Create(t) PROVE IInv'
<1> USE DEF IInv, Create, EnterCall, Goto, fields
<1> DEFINE n == allocated + 1
<1>1. n \in Task /\ n \in 2..MaxTask /\ pc[n] = "none"
  BY DEF TypeOK, CreateInv, Task
<1>2. \A u \in Task : u # t =>
        pc'[u] = pc[u] /\ At(u)' = At(u) /\ node'[u] = node[u]
  BY DEF At, TypeOK
<1>3. At(t)' = "c_pid" /\ pc'[t] \in {"dec_load", "wait_state"} /\ node'[t] = n
  BY DEF At, SemLabels, TypeOK
<1>4. \A u \in Task : (pc[u] = "none") <=> (pc'[u] = "none") BY <1>2, <1>3
<1>5. TypeOK'
  <2>1. node' \in [Task -> Task] BY <1>1 DEF TypeOK
  <2>2. allocated' \in 0..MaxTask BY <1>1 DEF TypeOK
  <2> QED BY <2>1, <2>2 DEF TypeOK, Labels
<1>6. ListInv' BY <1>4, ListFacts DEF ListInv
<1>7. IdleInv' BY <1>2, <1>4, TaskFacts DEF IdleInv
<1>8. CreateInv'
  <2>1. allocated \in Nat /\ allocated >= 1 /\ allocated' = n BY DEF TypeOK, CreateInv
  <2>2. \A u \in Task : u > allocated' => pc'[u] = "none"
    BY <1>4, <2>1 DEF CreateInv, Task
  <2>3. \A u \in Task : u # t /\ At(u)' \in Creating =>
          At(u) \in Creating /\ node'[u] \in 2..allocated /\ pc[node'[u]] = "none"
    BY <1>2 DEF CreateInv
  <2>4. \A u \in Task : At(u)' \in Creating =>
          node'[u] \in 2..allocated' /\ pc'[node'[u]] = "none"
    <3>1. \A u \in Task : node'[u] \in Task BY <1>5 DEF TypeOK
    <3> QED BY <1>1, <1>3, <1>4, <2>1, <2>3, <3>1
  <2>5. \A u, w \in Task : At(u)' \in Creating /\ At(w)' \in Creating /\ node'[w] = node'[u] => w = u
    BY <1>2, <1>3, <2>1, <2>3 DEF CreateInv
  <2>6. \A u \in Task : pc'[u] = "c_pid_store" => tmp'[u] >= 1
    BY <1>2, <1>3 DEF CreateInv
  <2>7. \A u \in Task : At(u)' \in {"c_tail", "c_link"} => pid'[node'[u]] >= 2
    BY <1>2, <1>3 DEF CreateInv
  <2>8. \A u \in Task : pc'[u] = "c_link" => tail'[u] # Root
    BY <1>2, <1>3 DEF CreateInv
  <2> QED BY <2>1, <2>2, <2>4, <2>5, <2>6, <2>7, <2>8 DEF CreateInv
<1>9. RemoveInv'
  <2>1. \A u \in Task : At(u)' \in Removing =>
          node'[u] \notin {Root, Idle} /\ pc'[node'[u]] # "none"
    <3>1. \A u \in Task : At(u)' \in Removing =>
            node'[u] \in Task /\ node'[u] \notin {Root, Idle} /\ pc[node'[u]] # "none"
      BY <1>2, <1>3, RemoverFacts DEF Removing
    <3> QED BY <1>4, <3>1
  <2>2. \A u \in Task : At(u)' = "ex_free" => u # t /\ ~Linked(node'[u])
    BY <1>2, <1>3 DEF RemoveInv
  <2>3. \A u \in Task : At(u)' = "ex_free" => ~Linked(node[u])'
    BY <2>2 DEF Linked
  <2>4. \A u \in freed' : pc'[u] # "none" BY <1>4 DEF RemoveInv, TypeOK
  <2>5. current' \notin freed' BY DEF RemoveInv
  <2> QED BY <2>1, <2>3, <2>4, <2>5 DEF RemoveInv
<1>10. CallInv' BY DEF CallInv, TypeOK
<1> QED BY <1>5, <1>6, <1>7, <1>8, <1>9, <1>10

(* init_task keeps IInv. *)
LEMMA CreatePidStoreStep == ASSUME IInv, NEW t \in Task, CreatePidStore(t) PROVE IInv'
<1> USE DEF IInv, CreatePidStore, EnterCall, Goto
<1> DEFINE n == node[t]
<1>1. At(t) \in Creating /\ tmp[t] >= 1 /\ tmp[t] \in Int
  BY DEF At, SemLabels, Creating, CreateInv, TypeOK
<1>2. n \in Task /\ n \in 2..allocated /\ pc[n] = "none"
  BY <1>1 DEF CreateInv, TypeOK
<1>3. \A u \in Task : u # t =>
        pc'[u] = pc[u] /\ At(u)' = At(u) /\ tmp'[u] = tmp[u]
  BY DEF At, TypeOK
<1>4. At(t)' = "c_tail" /\ pc'[t] \in {"dec_load", "wait_state"}
  BY DEF At, SemLabels, TypeOK
<1>5. \A u \in Task : (pc[u] = "none") <=> (pc'[u] = "none") BY <1>3, <1>4
<1>6. \A u \in Task : pid'[u] = IF u = n THEN tmp[t] + 1 ELSE pid[u]
  BY <1>2 DEF TypeOK
<1>7. TypeOK'
  <2>1. tmp[t] + 1 \in Nat BY <1>1
  <2>2. pid' \in [Task -> Nat] /\ pidcount' \in Nat BY <1>2, <2>1 DEF TypeOK
  <2>3. tmp' \in [Task -> Int] BY DEF TypeOK
  <2> QED BY <2>2, <2>3 DEF TypeOK, Labels
<1>8. ListInv' BY <1>5, ListFacts DEF ListInv
<1>9. IdleInv'
  <2>1. n # Root /\ n # Idle BY <1>2 DEF Root, Idle
  <2>2. pid'[Root] = 0 /\ pid'[Idle] = 1 BY <1>6, <2>1, TaskFacts DEF IdleInv
  <2>3. pidcount' >= 1 BY <1>1
  <2>4. \A u \in Task \ {Root, Idle} : pc'[u] # "none" => pid'[u] >= 2
    BY <1>2, <1>5, <1>6 DEF IdleInv
  <2>5. state'[Idle] = "RUNNING" /\ pc'[Idle] = "idle"
    BY <1>3, TaskFacts DEF IdleInv
  <2> QED BY <2>2, <2>3, <2>4, <2>5 DEF IdleInv
<1>10. CreateInv'
  <2>1. \A u \in Task : At(u)' \in Creating => At(u) \in Creating BY <1>1, <1>3
  <2>2. \A u \in Task : At(u)' \in {"c_tail", "c_link"} => pid'[node[u]] >= 2
    <3>1. ASSUME NEW u \in Task, At(u)' \in {"c_tail", "c_link"}, u # t
          PROVE  pid'[node[u]] >= 2
      <4>1. At(u) \in {"c_tail", "c_link"} BY <1>3, <3>1
      <4>2. pid[node[u]] >= 2 BY <4>1 DEF CreateInv
      <4>3. node[u] \in Task /\ node[u] # n
        BY <1>1, <3>1, <4>1 DEF CreateInv, Creating, TypeOK
      <4> QED BY <1>6, <4>2, <4>3
    <3>2. pid'[n] >= 2 BY <1>1, <1>2, <1>6
    <3> QED BY <3>1, <3>2
  <2>3. \A u \in Task : pc'[u] = "c_pid_store" => tmp'[u] >= 1
    BY <1>3, <1>4 DEF CreateInv
  <2>4. \A u \in Task : pc'[u] = "c_link" => tail'[u] # Root
    BY <1>3, <1>4 DEF CreateInv
  <2> QED BY <1>5, <2>1, <2>2, <2>3, <2>4 DEF CreateInv, TypeOK
<1>11. RemoveInv'
  <2>1. \A u \in Task : At(u)' \in Removing =>
          node[u] \notin {Root, Idle} /\ pc'[node[u]] # "none"
    <3>1. \A u \in Task : At(u)' \in Removing =>
            node[u] \in Task /\ node[u] \notin {Root, Idle} /\ pc[node[u]] # "none"
      BY <1>3, <1>4, RemoverFacts DEF Removing
    <3> QED BY <1>5, <3>1
  <2>2. \A u \in Task : At(u)' = "ex_free" => ~Linked(node[u])
    BY <1>3, <1>4 DEF RemoveInv
  <2>3. \A u \in Task : At(u)' = "ex_free" => ~Linked(node[u])'
    BY <2>2 DEF Linked
  <2>4. \A u \in freed' : pc'[u] # "none" BY <1>5 DEF RemoveInv, TypeOK
  <2>5. current' \notin freed' BY DEF RemoveInv
  <2> QED BY <2>1, <2>3, <2>4, <2>5 DEF RemoveInv
<1>12. CallInv' BY DEF CallInv, TypeOK
<1> QED BY <1>7, <1>8, <1>9, <1>10, <1>11, <1>12

(* Linking a structure whose creator has it to itself. *)
LEMMA CreateLinkStep == ASSUME IInv, NEW t \in Task, CreateLink(t) PROVE IInv'
<1> USE DEF IInv
<1>0. PICK n : n = node[t] OBVIOUS
<1>1. /\ pc[t] = "c_link" /\ t = current
      /\ list' = IF Linked(tail[t])
                 THEN Append(SubSeq(list, 1, IndexOf(tail[t])), n) ELSE list
      /\ pc' = [pc EXCEPT ![t] = "kern", ![n] = "user"]
      /\ node' = [node EXCEPT ![t] = Root] /\ tail' = [tail EXCEPT ![t] = Root]
      /\ intr' = TRUE
      /\ UNCHANGED <<gap, panicked, pidcount, allocated, freed, current, tick,
                     state, fields, sem, arg, ret, tmp>>
  BY <1>0 DEF CreateLink
<1>2. At(t) = "c_link" /\ At(t) \in Creating BY <1>1 DEF At, SemLabels, Creating
<1>3. n \in Task /\ n \in 2..allocated /\ pc[n] = "none" /\ pid[n] >= 2 /\ tail[t] # Root
  BY <1>0, <1>1, <1>2 DEF CreateInv, TypeOK
<1>4. \A u \in Task : u # t /\ u # n =>
        /\ pc'[u] = pc[u] /\ At(u)' = At(u)
        /\ node'[u] = node[u] /\ tail'[u] = tail[u]
  BY <1>1 DEF At, TypeOK
<1>5. /\ pc'[t] = "kern" /\ At(t)' = "kern" /\ pc'[n] = "user" /\ At(n)' = "user"
      /\ n # t
  BY <1>1, <1>3 DEF At, SemLabels, TypeOK
<1>6. \A u \in Task : (pc'[u] = "none") <=> (pc[u] = "none" /\ u # n)
  BY <1>1, <1>4, <1>5
<1>7. /\ list' \in Seq(Task) /\ Len(list') >= 2 /\ list'[1] = Root /\ list'[2] = Idle
      /\ \A i \in 1..Len(list') :
           list'[i] = n \/ \E j \in 1..Len(list) : list'[i] = list[j]
      /\ \A i, j \in 1..Len(list') : list'[i] = list'[j] => i = j
  <2>1. CASE ~Linked(tail[t]) BY <1>1, <2>1 DEF ListInv, TypeOK
  <2>2. CASE Linked(tail[t])
    <3> DEFINE k == IndexOf(tail[t])
    <3>1. k \in 1..Len(list) /\ list[k] = tail[t] BY <2>2, IndexFacts
    <3>2. k >= 2 BY <1>3, <3>1, ListFacts DEF ListInv
    <3>3. list' = Append(SubSeq(list, 1, k), n) BY <1>1, <2>2
    <3> HIDE DEF k
    <3>4. list \in Seq(Task) BY DEF TypeOK
    <3>5. SubSeq(list, 1, k) \in Seq(Task) /\ Len(SubSeq(list, 1, k)) = k
          /\ \A i \in 1..k : SubSeq(list, 1, k)[i] = list[i]
      BY <3>1, <3>4
    <3>6. list' \in Seq(Task) /\ Len(list') = k + 1 /\ list'[k + 1] = n
          /\ \A i \in 1..k : list'[i] = list[i]
      BY <1>3, <3>1, <3>3, <3>5
    <3>7. \A i \in 1..Len(list) : list[i] # n
      BY <1>3, ListFacts DEF ListInv
    <3>8. list'[1] = Root /\ list'[2] = Idle
      BY <3>1, <3>2, <3>6 DEF ListInv
    <3>9. \A i \in 1..(k + 1) : i \in 1..k \/ i = k + 1 BY <3>1
    <3>10. \A i \in 1..k : i \in 1..Len(list) BY <3>1, ListFacts
    <3>11. \A i, j \in 1..Len(list') : list'[i] = list'[j] => i = j
      BY <3>6, <3>7, <3>9, <3>10 DEF ListInv
    <3> QED BY <3>1, <3>2, <3>6, <3>8, <3>9, <3>10, <3>11
  <2> QED BY <2>1, <2>2
<1>8. TypeOK'
  <2>1. node' \in [Task -> Task] /\ tail' \in [Task -> Task] BY <1>1, TaskFacts DEF TypeOK
  <2>2. pc' \in [Task -> Labels] BY <1>1 DEF TypeOK, Labels
  <2> QED BY <1>1, <1>7, <2>1, <2>2 DEF TypeOK, fields
<1>9. ListInv'
  <2>1. n \notin freed BY <1>3 DEF RemoveInv
  <2>2. \A i \in 1..Len(list') : pc'[list'[i]] # "none" /\ list'[i] \notin freed
    BY <1>5, <1>6, <1>7, <2>1, ListFacts DEF ListInv
  <2> QED BY <1>1, <1>7, <2>2 DEF ListInv
<1>10. IdleInv'
  <2>1. n # Idle BY <1>3 DEF Idle
  <2>2. t # Idle BY <1>1 DEF IdleInv
  <2>3. pid' = pid /\ pidcount' = pidcount /\ state' = state BY <1>1 DEF fields
  <2>4. pc'[Idle] = "idle" BY <1>4, <2>1, <2>2, TaskFacts DEF IdleInv
  <2> QED BY <1>3, <1>6, <2>3, <2>4 DEF IdleInv
<1>11. CreateInv'
  <2>1. pid' = pid /\ allocated' = allocated /\ tmp' = tmp BY <1>1 DEF fields
  <2>2. \A u \in Task : u > allocated => u # n BY <1>3 DEF Task, TypeOK
  <2>3. allocated' >= 1 /\ \A u \in Task : u > allocated' => pc'[u] = "none"
    BY <1>6, <2>1, <2>2 DEF CreateInv
  <2>4. \A u \in Task : At(u)' \in Creating =>
          /\ u # t /\ u # n /\ At(u) \in Creating
          /\ node'[u] = node[u] /\ node[u] \in Task /\ node[u] # n
    <3>1. \A u \in Task : At(u)' \in Creating =>
            u # t /\ u # n /\ At(u) \in Creating /\ node'[u] = node[u]
      BY <1>4, <1>5 DEF Creating
    <3>2. \A u \in Task : node[u] \in Task BY DEF TypeOK
    <3>3. \A u \in Task : At(u) \in Creating /\ u # t => node[u] # n
      BY <1>0, <1>2 DEF CreateInv
    <3> QED BY <3>1, <3>2, <3>3
  <2>5. \A u \in Task : At(u)' \in Creating =>
          /\ node'[u] \in 2..allocated' /\ pc'[node'[u]] = "none"
          /\ \A w \in Task : At(w)' \in Creating /\ node'[w] = node'[u] => w = u
    BY <1>6, <2>1, <2>4 DEF CreateInv
  <2>6. \A u \in Task : pc'[u] = "c_pid_store" => tmp'[u] >= 1
    BY <1>4, <1>5, <2>1 DEF CreateInv
  <2>7. \A u \in Task : At(u)' \in {"c_tail", "c_link"} =>
          At(u) \in {"c_tail", "c_link"} /\ node'[u] = node[u]
    BY <1>4, <1>5
  <2>8. \A u \in Task : At(u)' \in {"c_tail", "c_link"} => pid'[node'[u]] >= 2
    BY <2>1, <2>7 DEF CreateInv
  <2>9. \A u \in Task : pc'[u] = "c_link" => tail'[u] # Root
    BY <1>4, <1>5 DEF CreateInv
  <2> QED BY <2>3, <2>5, <2>6, <2>8, <2>9 DEF CreateInv
<1>12. RemoveInv'
  <2>1. \A u \in Task : At(u)' \in Removing =>
          /\ At(u)' = At(u) /\ node'[u] = node[u] /\ node[u] \in Task
          /\ node[u] \notin {Root, Idle} /\ pc[node[u]] # "none"
    BY <1>4, <1>5, RemoverFacts DEF Removing
  <2>2. \A u \in Task : At(u)' \in Removing =>
          node'[u] \notin {Root, Idle} /\ pc'[node'[u]] # "none"
    BY <1>3, <1>6, <2>1
  <2>3. DOMAIN list' = 1..Len(list') BY <1>7
  <2>4. ASSUME NEW u \in Task, At(u)' = "ex_free" PROVE ~Linked(node[u])'
    <3>1. At(u) = "ex_free" /\ node'[u] = node[u] /\ node[u] # n
      BY <1>3, <2>1, <2>4 DEF Removing
    <3>2. \A i \in 1..Len(list) : list[i] # node[u]
      BY <3>1, ListFacts DEF RemoveInv, Linked
    <3>3. \A i \in 1..Len(list') : list'[i] # node'[u] BY <1>7, <3>1, <3>2
    <3> QED BY <2>3, <3>3 DEF Linked
  <2>5. \A u \in freed' : pc'[u] # "none" BY <1>1, <1>6, <1>3 DEF RemoveInv, TypeOK
  <2>6. current' \notin freed' BY <1>1 DEF RemoveInv
  <2> QED BY <2>2, <2>4, <2>5, <2>6 DEF RemoveInv
<1>13. CallInv' BY <1>1 DEF CallInv
<1> QED BY <1>8, <1>9, <1>10, <1>11, <1>12, <1>13

(* init_tasking establishes IInv. *)
LEMMA InitInv == Init => IInv
<1> SUFFICES ASSUME Init PROVE IInv OBVIOUS
<1> USE DEF Init
<1>0. /\ list \in [1..(Boot + 1) -> Task] /\ Boot + 1 \in Nat
      /\ list \in Seq(Task) /\ Len(list) = Boot + 1
  <2>1. Boot + 1 \in Nat /\ \A i \in 1..(Boot + 1) : i - 1 \in Task BY DEF Task
  <2>2. list \in [1..(Boot + 1) -> Task] BY <2>1
  <2> HIDE DEF Init
  <2> QED BY <2>1, <2>2, FunctionIsSeq
<1>1. TypeOK
  <2>1. pc \in [Task -> Labels] BY DEF Labels
  <2>2. pid \in [Task -> Nat] BY DEF Task
  <2>3. sem \in [Sems \cup {NullSem} -> Int] OBVIOUS
  <2>4. pidcount \in Nat /\ allocated \in 0..MaxTask /\ tick \in 0..MaxTick OBVIOUS
  <2>5. current \in Task /\ node \in [Task -> Task] /\ tail \in [Task -> Task] BY TaskFacts
  <2>6. gap \in Nat /\ intr \in BOOLEAN /\ panicked \in BOOLEAN /\ freed \in SUBSET Task
    OBVIOUS
  <2>7. state \in [Task -> States] /\ ret \in [Task -> Labels] BY DEF States, Labels
  <2>8. /\ sleep \in [Task -> Nat] /\ waitsem \in [Task -> Sems \cup {NullSem}]
        /\ waiting \in [Task -> Int] /\ arg \in [Task -> Sems] /\ tmp \in [Task -> Int]
    OBVIOUS
  <2> HIDE DEF Init
  <2> QED BY <1>0, <2>1, <2>2, <2>3, <2>4, <2>5, <2>6, <2>7, <2>8 DEF TypeOK
<1>2. ListInv
  <2>1. \A i \in 1..(Boot + 1) : list[i] = i - 1 OBVIOUS
  <2>2. \A i \in 1..(Boot + 1) : pc[list[i]] # "none"
    BY <1>0, <2>1 DEF Root, Idle, Task
  <2> QED BY <1>0, <2>1, <2>2 DEF ListInv, Root, Idle
<1>3. IdleInv BY DEF IdleInv, Root, Idle, Task
<1>4. \A t \in Task : At(t) \in {"none", "user", "kern", "idle"}
                      /\ pc[t] \in {"none", "user", "kern", "idle"}
  BY DEF At, SemLabels, Root, Idle, Task
<1>5. CreateInv
  <2>1. \A t \in Task : t > Boot => pc[t] = "none" BY DEF Task, Root, Idle
  <2> QED BY <1>4, <2>1 DEF CreateInv, Creating
<1>6. RemoveInv BY <1>4 DEF RemoveInv, Removing
<1>7. CallInv BY DEF CallInv
<1> QED BY <1>1, <1>2, <1>3, <1>5, <1>6, <1>7 DEF IInv

(* A panicked kernel keeps IInv. *)
LEMMA HaltedStep == ASSUME IInv, UNCHANGED vars PROVE IInv'
<1> USE DEF vars, IInv
<1>1. TypeOK' BY DEF TypeOK
<1>2. ListInv' BY DEF ListInv
<1>3. IdleInv' BY DEF IdleInv
<1>4. CreateInv' BY DEF CreateInv, At
<1>5. RemoveInv' BY DEF RemoveInv, At, Linked
<1>6. CallInv' BY DEF CallInv
<1> QED BY <1>1, <1>2, <1>3, <1>4, <1>5, <1>6

(* Every step keeps IInv. *)
LEMMA NextInv == IInv /\ [Next]_vars => IInv'
<1> SUFFICES ASSUME IInv, [Next]_vars PROVE IInv' OBVIOUS
<1>1. CASE UNCHANGED vars BY <1>1, HaltedStep
<1>2. CASE Timer BY <1>2, TimerStep
<1>3. CASE Halted BY <1>3, HaltedStep DEF Halted
<1>4. ASSUME NEW t \in Task, TaskStep(t) PROVE IInv'
  <2>1. CASE IdleTask(t) \/ Yield(t) \/ Syscall(t) \/ Sysret(t)
    BY <2>1, IdleTaskStep, YieldStep, SyscallStep, SysretStep
  <2>2. CASE \/ \E s \in Sems : EnterSemaphore(t, s)
             \/ SemaphoreWaitState(t) \/ SemaphoreWaitSem(t) \/ SemaphoreWaitSched(t)
             \/ DecrementLoad(t) \/ DecrementStore(t) \/ LeaveSemaphore(t) \/ IncrementStore(t)
    BY <2>2, EnterSemaphoreStep, SemaphoreWaitStateStep, SemaphoreWaitSemStep,
       SemaphoreWaitSchedStep, DecrementLoadStep, DecrementStoreStep,
       LeaveSemaphoreStep, IncrementStoreStep
  <2>3. CASE \/ \E d \in Naps : Usleep(t, d)
             \/ UsleepState(t) \/ UsleepSched(t) \/ UsleepReturn(t)
    BY <2>3, UsleepStep, UsleepStateStep, UsleepSchedStep, UsleepReturnStep
  <2>4. CASE \/ \E n \in Task : Waitpid(t, n)
             \/ WaitpidTest(t) \/ WaitpidSched(t) \/ WaitpidDecrement(t) \/ WaitpidReturn(t)
    BY <2>4, WaitpidStep, WaitpidTestStep, WaitpidSchedStep, WaitpidDecrementStep,
       WaitpidReturnStep
  <2>5. CASE \/ ExitProcess(t) \/ PageFaultPanic(t)
             \/ \E from \in {"user", "kern", "crit"} : PageFaultKill(t, from)
    BY <2>5, ExitProcessStep, PageFaultPanicStep, PageFaultKillStep
  <2>6. CASE RemoveSched(t) \/ RemoveUnlink(t) \/ RemoveFree(t) \/ RemoveDone(t)
    BY <2>6, RemoveSchedStep, RemoveUnlinkStep, RemoveFreeStep, RemoveDoneStep
  <2>7. CASE Create(t) \/ CreatePidLoad(t) \/ CreatePidStore(t) \/ CreateTail(t) \/ CreateLink(t)
    BY <2>7, CreateStep, CreatePidLoadStep, CreatePidStoreStep, CreateTailStep, CreateLinkStep
  <2> QED BY <1>4, <2>1, <2>2, <2>3, <2>4, <2>5, <2>6, <2>7 DEF TaskStep
<1> QED BY <1>1, <1>2, <1>3, <1>4 DEF Next

(* IInv is an inductive invariant of the specification. *)
THEOREM Invariance == Spec => []IInv
<1> QED BY InitInv, NextInv, PTL DEF Spec

(* Every variable keeps its type. *)
THEOREM TypeCorrect == Spec => []TypeOK
<1>1. IInv => TypeOK BY DEF IInv
<1> QED BY <1>1, Invariance, PTL

(* The scheduler's loop always ends: in one of its first rounds, at most   *)
(* as many as there are linked tasks, it comes to the idle task, which is  *)
(* RUNNING and second in the list.                                         *)
THEOREM SchedulerTerminates == Spec => []SchedulerFindsTask
<1>1. ASSUME IInv PROVE SchedulerFindsTask
  <2> USE <1>1 DEF IInv
  <2> DEFINE start == IF Linked(current) THEN IndexOf(current)
                      ELSE IF gap < Len(list) THEN gap ELSE 0
  <2>1. start \in 0..Len(list)
    <3>1. gap \in Nat BY DEF TypeOK
    <3> QED BY <3>1, ListFacts, IndexFacts
  <2>2. \A d \in 1..Len(list) :
          Walk(d) = list[IF start + d <= Len(list) THEN start + d ELSE start + d - Len(list)]
    BY DEF Walk
  <2>3. Len(list) >= 2 /\ Len(list) \in Nat /\ list[2] = Idle
    BY ListFacts DEF ListInv
  <2> HIDE DEF start
  <2>4. \E d \in 1..Len(list) : Walk(d) = list[2]
    <3>1. CASE start < 2
      <4>1. 2 - start \in 1..Len(list) /\ start + (2 - start) = 2 BY <2>1, <2>3, <3>1
      <4> QED BY <2>2, <2>3, <4>1
    <3>2. CASE start >= 2
      <4> DEFINE d == 2 + Len(list) - start
      <4>1. /\ d \in 1..Len(list) /\ ~(start + d <= Len(list))
            /\ start + d - Len(list) = 2
        BY <2>1, <2>3, <3>2
      <4> QED BY <2>2, <4>1
    <3> QED BY <2>1, <3>1, <3>2
  <2>5. Eligible(Idle, tick) BY DEF Eligible, IdleInv
  <2> QED BY <2>3, <2>4, <2>5 DEF SchedulerFindsTask
<1> QED BY <1>1, Invariance, PTL

(* No switch ever goes to a task structure that was freed. *)
THEOREM FreedSafe == Spec => []FreedNeverRuns
<1>1. ASSUME IInv PROVE FreedNeverRuns
  BY <1>1, ListFacts DEF IInv, FreedNeverRuns, ListInv, RemoveInv
<1> QED BY <1>1, Invariance, PTL

-----------------------------------------------------------------------------
(* A quiet heap: only creation and removal take heap_semaphore, both with  *)
(* interrupts off.                                                         *)
QuietHeap == \A t \in Task : "sem" \notin Calls[t]

(* From block_tasks to unblock_tasks *)
Inside == SemLabels \cup Creating \cup {"ex_free"}

(* Only the current task is in there, with interrupts off, and so it never *)
(* finds the semaphore taken.                                              *)
BlockInv ==
  /\ sem[Heap] = IF pc[current] \in {"crit", "inc_store"} THEN 0 ELSE 1
  /\ \A t \in Task : pc[t] \in Inside => t = current /\ ~intr
  /\ \A t \in Task : pc[t] \in SemLabels =>
       /\ pc[t] \in {"dec_load", "dec_store", "crit", "inc_store"}
       /\ arg[t] = Heap /\ ret[t] \in {"ex_free", "c_pid", "c_tail"}
  /\ \A t \in Task : pc[t] = "dec_store" => tmp[t] = 1
  /\ \A t \in Task : pc[t] = "inc_store" => tmp[t] = 0
  /\ \A t \in Task : pc[t] = "c_pid_store" => tmp[t] = pidcount
  /\ \A t \in Task : pc[t] = "c_link" => tail[t] = list[Len(list)]

(* The tasks that have got their pid, and that no other has it. *)
Named(t) == pc[t] # "none" \/ \E u \in Task : At(u) \in {"c_tail", "c_link"} /\ node[u] = t

PidInv ==
  /\ \A t \in Task : Named(t) => pid[t] <= pidcount
  /\ \A t, u \in Task : Named(t) /\ Named(u) /\ pid[t] = pid[u] => t = u

(* A task removes itself, and is linked until then. *)
LinkedInv ==
  /\ \A t \in Task : At(t) \in Removing => node[t] = t
  /\ \A t \in Task \ freed : pc[t] # "none" =>
       Linked(t) \/ (t = current /\ At(t) = "ex_free")

(* A task in usleep is SLEEPING until the scheduler has seen its deadline  *)
(* pass.                                                                   *)
SleepInv ==
  \A t \in Task : pc[t] \in {"sleep_sched", "sleep_ret"} =>
    \/ state[t] = "RUNNING" /\ sleep[t] <= tick
    \/ state[t] = "SLEEPING" /\ ~(pc[t] = "sleep_ret" /\ t = current)

QuietInv == BlockInv /\ PidInv /\ LinkedInv /\ SleepInv

(* While the current task is not in there, nobody is. *)
LEMMA NobodyInside ==
  ASSUME BlockInv, pc[current] \notin Inside, NEW t \in Task
  PROVE  pc[t] \notin Inside /\ At(t) = pc[t]
BY DEF BlockInv, Inside, At

(* The scheduler lets no sleeper through before its deadline. *)
LEMMA SwitchSleep ==
  ASSUME IInv, SleepInv, NEW now \in Nat, now >= tick, Switch(now),
         sleep' = sleep, tick' = now,
         \A u \in Task : pc'[u] \in {"sleep_sched", "sleep_ret"} =>
                         pc[u] \in {"sleep_sched", "sleep_ret"}
  PROVE  SleepInv'
<1>1. TypeOK /\ ListInv BY DEF IInv
<1>2. PICK d \in 1..Len(list) :
        /\ Eligible(Walk(d), now) /\ current' = Walk(d)
        /\ state' = [state EXCEPT ![Walk(d)] = "RUNNING"]
  BY DEF Switch
<1>3. PICK w : w = Walk(d) OBVIOUS
<1>4. w \in Task BY <1>1, <1>3, WalkInList, ListFacts
<1>5. \A u \in Task : state'[u] = IF u = w THEN "RUNNING" ELSE state[u]
  BY <1>1, <1>2, <1>3 DEF TypeOK
<1>6. state[w] = "SLEEPING" => sleep[w] <= now
  <2>1. sleep[w] \in Nat BY <1>1, <1>4 DEF TypeOK
  <2> QED BY <1>2, <1>3, <2>1 DEF Eligible
<1>7. tick \in Nat /\ \A u \in Task : sleep[u] \in Nat BY <1>1 DEF TypeOK
<1> QED BY <1>2, <1>3, <1>4, <1>5, <1>6, <1>7 DEF SleepInv

(* Nor does a step of a task that is not in usleep. *)
LEMMA SleepKept ==
  ASSUME TypeOK, SleepInv, NEW t \in Task, t = current, current' = current, tick' = tick,
         \A u \in Task \ {t} : pc'[u] = pc[u] /\ state'[u] = state[u] /\ sleep'[u] = sleep[u],
         pc'[t] \notin {"sleep_sched", "sleep_ret"}
  PROVE  SleepInv'
BY DEF SleepInv

(* A step outside block_tasks: what it leaves alone. *)
Outside(t) ==
  /\ list' = list /\ pid' = pid /\ pidcount' = pidcount /\ freed' = freed /\ sem' = sem
  /\ \A u \in Task \ {t} : pc'[u] = pc[u] /\ node'[u] = node[u]
  /\ t = current /\ pc[t] \notin Inside /\ pc'[t] \notin Inside
  /\ (pc[t] = "none") <=> (pc'[t] = "none")
  /\ pc'[t] \in Removing => node'[t] = t

(* Such a step keeps the invariant. *)
LEMMA OutsideStep ==
  ASSUME IInv, IInv', QuietInv, SleepInv', NEW t \in Task, Outside(t)
  PROVE  QuietInv'
<1>1. BlockInv /\ PidInv /\ LinkedInv BY DEF QuietInv
<1>2. TypeOK /\ TypeOK' BY DEF IInv
<1>3. \A u \in Task : pc[u] \notin Inside /\ At(u) = pc[u]
  BY <1>1, NobodyInside DEF Outside
<1>4. \A u \in Task : pc'[u] \notin Inside BY <1>3 DEF Outside
<1>5. \A u \in Task : At(u)' = pc'[u] BY <1>4 DEF At, Inside
<1>6. current' \in Task /\ current \in Task BY <1>2 DEF TypeOK
<1>7. BlockInv'
  <2>1. sem'[Heap] = 1 BY <1>1, <1>3, <1>6 DEF Outside, BlockInv, Inside, SemLabels
  <2> QED BY <1>4, <1>6, <2>1 DEF BlockInv, Inside, SemLabels, Creating
<1>8. \A u \in Task : Named(u)' <=> Named(u)
  <2>1. \A u \in Task : (pc[u] = "none") <=> (pc'[u] = "none") BY DEF Outside
  <2>2. \A u \in Task : At(u) \notin {"c_tail", "c_link"} /\ At(u)' \notin {"c_tail", "c_link"}
    BY <1>3, <1>4, <1>5 DEF Inside, Creating
  <2> QED BY <2>1, <2>2 DEF Named
<1>9. PidInv' BY <1>1, <1>8 DEF PidInv, Outside
<1>10. LinkedInv'
  <2>1. ASSUME NEW u \in Task, At(u)' \in Removing PROVE node'[u] = u
    <3>1. CASE u = t BY <1>5, <2>1, <3>1 DEF Outside
    <3>2. CASE u # t BY <1>1, <1>3, <1>5, <2>1, <3>2 DEF Outside, LinkedInv
    <3> QED BY <3>1, <3>2
  <2>2. ASSUME NEW u \in Task \ freed, pc'[u] # "none" PROVE Linked(u)'
    <3>1. pc[u] # "none" BY <2>2 DEF Outside
    <3>2. Linked(u) BY <1>1, <1>3, <2>2, <3>1 DEF LinkedInv, Inside
    <3> QED BY <3>2 DEF Linked, Outside
  <2> QED BY <2>1, <2>2 DEF LinkedInv, Outside
<1> QED BY <1>7, <1>9, <1>10 DEF QuietInv

(* The timer finds no task in there. *)
LEMMA TimerQuiet == ASSUME IInv, IInv', QuietInv, Timer PROVE QuietInv'
<1> USE DEF Timer, life, fields, locals
<1>1. TypeOK /\ BlockInv /\ LinkedInv /\ SleepInv BY DEF IInv, QuietInv
<1>2. current \in Task /\ tick \in Nat /\ tick' \in Nat /\ tick' >= tick BY <1>1 DEF TypeOK
<1>3. pc[current] \notin Inside BY <1>1, <1>2 DEF BlockInv
<1>4. SleepInv' BY <1>1, <1>2, SwitchSleep
<1>5. At(current) = pc[current] BY <1>1, <1>2, <1>3, NobodyInside
<1>6. pc[current] \in Removing => node[current] = current BY <1>1, <1>2, <1>5 DEF LinkedInv
<1> QED BY <1>2, <1>3, <1>4, <1>6, OutsideStep DEF Outside

(* A call of the scheduler, too, comes from outside. *)
LEMMA RescheduleQuiet ==
  ASSUME IInv, IInv', QuietInv, NEW t \in Task, NEW from, NEW to, Reschedule(t, from, to),
         from \notin Inside \cup {"none"}, to \notin Inside \cup {"none"},
         to \in {"sleep_sched", "sleep_ret"} => from = "sleep_sched",
         to \in Removing => from \in Removing
  PROVE  QuietInv'
<1> USE DEF Reschedule, Goto, life, fields, locals
<1>1. TypeOK /\ BlockInv /\ LinkedInv /\ SleepInv BY DEF IInv, QuietInv
<1>2. pc' = [pc EXCEPT ![t] = to] /\ pc[t] = from /\ t = current OBVIOUS
<1>3. \A u \in Task : pc'[u] = IF u = t THEN to ELSE pc[u] BY <1>1, <1>2 DEF TypeOK
<1>4. tick \in Nat BY <1>1 DEF TypeOK
<1>5. SleepInv' BY <1>1, <1>2, <1>3, <1>4, SwitchSleep
<1>6. At(t) = pc[t] BY <1>1, <1>2, NobodyInside
<1>7. to \in Removing => node[t] = t BY <1>1, <1>2, <1>6 DEF LinkedInv
<1> QED BY <1>2, <1>3, <1>5, <1>7, OutsideStep DEF Outside

(* A step of a task by itself, outside block_tasks. *)
OutsideAlone(t) ==
  /\ Outside(t) /\ current' = current /\ tick' = tick
  /\ \A u \in Task \ {t} : state'[u] = state[u] /\ sleep'[u] = sleep[u]
  /\ pc'[t] \notin {"sleep_sched", "sleep_ret"}

(* It keeps the invariant. *)
LEMMA OutsideAloneStep ==
  ASSUME IInv, IInv', QuietInv, NEW t \in Task, OutsideAlone(t)
  PROVE  QuietInv'
<1>1. SleepInv'
  <2>1. TypeOK /\ SleepInv BY DEF IInv, QuietInv
  <2> QED BY <2>1, SleepKept DEF OutsideAlone, Outside
<1> QED BY <1>1, OutsideStep DEF OutsideAlone

(* System calls and their ends, and all of usleep and waitpid *)
LEMMA SyscallsQuiet ==
  ASSUME IInv, IInv', QuietInv, NEW t \in Task,
         \/ Syscall(t) \/ Sysret(t) \/ UsleepReturn(t) \/ PageFaultPanic(t)
         \/ \E d \in Naps : Usleep(t, d)
         \/ \E n \in Task : Waitpid(t, n)
         \/ WaitpidTest(t) \/ WaitpidDecrement(t) \/ WaitpidReturn(t)
  PROVE  QuietInv'
<1> USE DEF Goto, life, fields, locals, Outside, OutsideAlone, Inside, Creating, SemLabels,
            Removing
<1>1. TypeOK BY DEF IInv
<1>2. CASE Syscall(t) \/ Sysret(t) \/ UsleepReturn(t) \/ PageFaultPanic(t)
  <2>1. OutsideAlone(t)
    BY <1>1, <1>2 DEF TypeOK, Syscall, Sysret, UsleepReturn, PageFaultPanic
  <2> QED BY <2>1, OutsideAloneStep
<1>3. ASSUME NEW d \in Naps, Usleep(t, d) PROVE QuietInv'
  <2>1. OutsideAlone(t) BY <1>1, <1>3 DEF TypeOK, Usleep
  <2> QED BY <2>1, OutsideAloneStep
<1>4. ASSUME NEW n \in Task, Waitpid(t, n) PROVE QuietInv'
  <2>1. OutsideAlone(t) BY <1>1, <1>4 DEF TypeOK, Waitpid
  <2> QED BY <2>1, OutsideAloneStep
<1>5. CASE WaitpidTest(t) \/ WaitpidDecrement(t) \/ WaitpidReturn(t)
  <2>1. CASE WaitpidTest(t)
    <3>1. OutsideAlone(t) BY <1>1, <2>1 DEF TypeOK, WaitpidTest
    <3> QED BY <3>1, OutsideAloneStep
  <2>2. CASE WaitpidDecrement(t)
    <3>1. OutsideAlone(t) BY <1>1, <2>2 DEF TypeOK, WaitpidDecrement
    <3> QED BY <3>1, OutsideAloneStep
  <2>3. CASE WaitpidReturn(t)
    <3>1. OutsideAlone(t) BY <1>1, <2>3 DEF TypeOK, WaitpidReturn
    <3> QED BY <3>1, OutsideAloneStep
  <2> QED BY <1>5, <2>1, <2>2, <2>3
<1> QED BY <1>2, <1>3, <1>4, <1>5

(* usleep's assignment of TASK_STATE_SLEEPING *)
LEMMA UsleepStateQuiet ==
  ASSUME IInv, IInv', QuietInv, NEW t \in Task, UsleepState(t) PROVE QuietInv'
<1> USE DEF Goto, UsleepState, life, fields, locals
<1>1. TypeOK /\ SleepInv BY DEF IInv, QuietInv
<1>2. \A u \in Task : /\ pc'[u] = IF u = t THEN "sleep_sched" ELSE pc[u]
                      /\ state'[u] = IF u = t THEN "SLEEPING" ELSE state[u]
  BY <1>1 DEF TypeOK
<1>3. SleepInv' BY <1>1, <1>2 DEF SleepInv
<1>4. Outside(t) BY <1>2 DEF Outside, Inside, Creating, SemLabels, Removing
<1> QED BY <1>3, <1>4, OutsideStep

(* A task that ends is found by its pid: nobody else has it. *)
LEMMA FindsSelf ==
  ASSUME IInv, QuietInv, NEW t \in Task, pc[t] # "none", NEW n \in Task, Finds(pid[t], n)
  PROVE  n = t
<1>1. PICK i \in DOMAIN list : list[i] = n /\ pid[n] = pid[t] BY DEF Finds
<1>2. pc[n] # "none" BY <1>1, ListFacts DEF IInv, ListInv
<1> QED BY <1>1, <1>2 DEF QuietInv, PidInv, Named

(* Exit and kill up to the first reschedule *)
LEMMA RemoveTaskQuiet ==
  ASSUME IInv, IInv', QuietInv, NEW t \in Task,
         \/ ExitProcess(t)
         \/ \E from \in {"user", "kern", "crit"} : PageFaultKill(t, from)
  PROVE  QuietInv'
<1> USE DEF life
<1>1. TypeOK /\ BlockInv BY DEF IInv, QuietInv
<1>2. PICK from \in {"user", "kern", "crit"} : RemoveTask(t, from) /\ (from = "crit" => ret[t] = "kern")
  BY DEF ExitProcess, PageFaultKill
<1>3. PICK n \in Task :
        /\ Finds(pid[t], n) /\ Goto(t, from, IF waiting[n] # 0 THEN "ex_sched" ELSE "ex_block")
        /\ state' = [state EXCEPT ![n] = "ENDED"] /\ node' = [node EXCEPT ![t] = n]
  BY <1>2 DEF RemoveTask
<1>4. from \in {"user", "kern"}
  BY <1>1, <1>2, <1>3 DEF BlockInv, SemLabels, Goto
<1>5. n = t BY <1>3, <1>4, FindsSelf DEF Goto
<1>6. /\ UNCHANGED <<list, pid, pidcount, freed, sem, current, tick, sleep>>
  BY DEF ExitProcess, PageFaultKill
<1>7. OutsideAlone(t)
  <2>1. pc'[t] \in {"ex_sched", "ex_block"} /\ node'[t] = t /\ pc[t] = from /\ t = current
    BY <1>1, <1>3, <1>5 DEF Goto, TypeOK
  <2>2. \A u \in Task \ {t} : pc'[u] = pc[u] /\ node'[u] = node[u] /\ state'[u] = state[u]
    BY <1>1, <1>3, <1>5 DEF Goto, TypeOK
  <2> QED BY <1>4, <1>6, <2>1, <2>2 DEF OutsideAlone, Outside, Inside, Creating, SemLabels, Removing
<1> QED BY <1>7, OutsideAloneStep

(* A step inside block_tasks that neither names, links nor frees a task *)
Still(t) ==
  /\ list' = list /\ pid' = pid /\ pidcount' = pidcount /\ freed' = freed
  /\ current' = current /\ tick' = tick /\ t = current
  /\ \A u \in Task \ {t} : /\ pc'[u] = pc[u] /\ node'[u] = node[u] /\ ret'[u] = ret[u]
                           /\ state'[u] = state[u] /\ sleep'[u] = sleep[u]
  /\ pc'[t] \notin {"none", "sleep_sched", "sleep_ret"} /\ pc[t] # "none" /\ node'[t] = node[t]
  /\ \/ At(t)' = At(t)
     \/ At(t) = "c_pid" /\ At(t)' = "c_pid_store"
     \/ At(t) = "c_tail" /\ At(t)' = "c_link"

(* It keeps the invariant but for the semaphore. *)
LEMMA StillStep ==
  ASSUME IInv, IInv', QuietInv, BlockInv', NEW t \in Task, Still(t)
  PROVE  QuietInv'
<1>1. TypeOK /\ PidInv /\ LinkedInv /\ SleepInv BY DEF IInv, QuietInv
<1>2. SleepInv' BY <1>1, SleepKept DEF Still
<1>3. \A u \in Task : u # t => At(u)' = At(u) BY DEF Still, At
<1>4. \A u \in Task : /\ (pc'[u] = "none") <=> (pc[u] = "none")
                      /\ At(u)' \in {"c_tail", "c_link"} <=> At(u) \in {"c_tail", "c_link"}
                      /\ At(u)' \in Removing => At(u)' = At(u)
                      /\ At(u) = "ex_free" => At(u)' = "ex_free"
                      /\ node'[u] = node[u]
  BY <1>3 DEF Still, Removing
<1>5. \A u \in Task : Named(u)' <=> Named(u) BY <1>4 DEF Named
<1>6. PidInv' BY <1>1, <1>5 DEF PidInv, Still
<1>7. \A u \in Task : Linked(u)' <=> Linked(u) BY DEF Linked, Still
<1>8. LinkedInv' BY <1>1, <1>4, <1>7 DEF LinkedInv, Still
<1> QED BY <1>2, <1>6, <1>8 DEF QuietInv

(* enter_semaphore and leave_semaphore for kmalloc and kfree *)
LEMMA SemaphoreQuiet ==
  ASSUME IInv, IInv', QuietInv, NEW t \in Task,
         DecrementLoad(t) \/ DecrementStore(t) \/ LeaveSemaphore(t) \/ IncrementStore(t)
  PROVE  QuietInv'
<1> USE DEF Goto, life, fields, locals
<1>1. TypeOK /\ BlockInv BY DEF IInv, QuietInv
<1>2. /\ pc[t] \in SemLabels \ {"wait_state", "wait_sem", "wait_sched"} /\ t = current
      /\ arg[t] = Heap /\ ret[t] \in {"ex_free", "c_pid", "c_tail"} /\ ~intr
  BY <1>1 DEF DecrementLoad, DecrementStore, LeaveSemaphore, IncrementStore, BlockInv,
              SemLabels, Inside
<1>3. \A u \in Task : u # t => pc[u] \notin Inside BY <1>1, <1>2 DEF BlockInv
<1>4. Heap \in Sems \cup {NullSem} BY TaskingAssumption
<1>5. /\ UNCHANGED <<list, pid, pidcount, freed, current, tick, intr, state, sleep, arg, ret, node, tail>>
      /\ \A u \in Task \ {t} : pc'[u] = pc[u] /\ tmp'[u] = tmp[u]
  BY <1>1 DEF TypeOK, DecrementLoad, DecrementStore, LeaveSemaphore, IncrementStore
<1>6. CASE DecrementLoad(t)
  <2>1. pc[t] = "dec_load" /\ pc'[t] = "dec_store" /\ tmp'[t] = 1 /\ sem' = sem /\ sem[Heap] = 1
    BY <1>1, <1>2, <1>6 DEF TypeOK, DecrementLoad, BlockInv
  <2>2. BlockInv' BY <1>2, <1>3, <1>5, <2>1 DEF BlockInv, Inside, SemLabels, Creating
  <2>3. Still(t) BY <1>2, <1>5, <2>1 DEF Still, At, SemLabels
  <2> QED BY <2>2, <2>3, StillStep
<1>7. CASE DecrementStore(t)
  <2>1. pc[t] = "dec_store" /\ pc'[t] = "crit" /\ tmp[t] = 1 /\ sem'[Heap] = 0
    BY <1>1, <1>2, <1>4, <1>7 DEF TypeOK, DecrementStore, BlockInv
  <2>2. BlockInv' BY <1>2, <1>3, <1>5, <2>1 DEF BlockInv, Inside, SemLabels, Creating
  <2>3. Still(t) BY <1>2, <1>5, <2>1 DEF Still, At, SemLabels
  <2> QED BY <2>2, <2>3, StillStep
<1>8. CASE LeaveSemaphore(t)
  <2>1. pc[t] = "crit" /\ pc'[t] = "inc_store" /\ tmp'[t] = 0 /\ sem' = sem /\ sem[Heap] = 0
    BY <1>1, <1>2, <1>8 DEF TypeOK, LeaveSemaphore, BlockInv
  <2>2. BlockInv' BY <1>2, <1>3, <1>5, <2>1 DEF BlockInv, Inside, SemLabels, Creating
  <2>3. Still(t) BY <1>2, <1>5, <2>1 DEF Still, At, SemLabels
  <2> QED BY <2>2, <2>3, StillStep
<1>9. CASE IncrementStore(t)
  <2>1. pc[t] = "inc_store" /\ pc'[t] = ret[t] /\ tmp[t] = 0 /\ sem'[Heap] = 1
    BY <1>1, <1>2, <1>4, <1>9 DEF TypeOK, IncrementStore, BlockInv
  <2>2. BlockInv' BY <1>2, <1>3, <1>5, <2>1 DEF BlockInv, Inside, SemLabels, Creating
  <2>3. Still(t) BY <1>2, <1>5, <2>1 DEF Still, At, SemLabels
  <2> QED BY <2>2, <2>3, StillStep
<1> QED BY <1>6, <1>7, <1>8, <1>9

(* The load of ++pidcount, and the walk to the end of the list *)
LEMMA CreateWalkQuiet ==
  ASSUME IInv, IInv', QuietInv, NEW t \in Task, CreatePidLoad(t) \/ CreateTail(t)
  PROVE  QuietInv'
<1> USE DEF Goto, life, fields, locals
<1>1. TypeOK /\ BlockInv BY DEF IInv, QuietInv
<1>2. pc[t] \in {"c_pid", "c_tail"} /\ t = current /\ ~intr /\ sem[Heap] = 1
  BY <1>1 DEF CreatePidLoad, CreateTail, BlockInv, Inside, Creating
<1>3. \A u \in Task : u # t => pc[u] \notin Inside BY <1>1, <1>2 DEF BlockInv
<1>4. /\ UNCHANGED <<list, pid, pidcount, freed, current, tick, intr, state, sleep, sem, arg, ret, node>>
      /\ \A u \in Task \ {t} : pc'[u] = pc[u] /\ tmp'[u] = tmp[u] /\ tail'[u] = tail[u]
  BY <1>1 DEF TypeOK, CreatePidLoad, CreateTail
<1>5. \/ pc[t] = "c_pid" /\ pc'[t] = "c_pid_store" /\ tmp'[t] = pidcount
      \/ pc[t] = "c_tail" /\ pc'[t] = "c_link" /\ tail'[t] = list[Len(list)]
  BY <1>1 DEF TypeOK, CreatePidLoad, CreateTail
<1>6. BlockInv' BY <1>2, <1>3, <1>4, <1>5 DEF BlockInv, Inside, SemLabels, Creating
<1>7. Still(t) BY <1>2, <1>4, <1>5 DEF Still, At, SemLabels
<1> QED BY <1>6, <1>7, StillStep

(* kmalloc and kfree find the semaphore free. *)
Entered(t, after) ==
  /\ t = current /\ current' = current /\ ~intr' /\ sem' = sem /\ sem[Heap] = 1
  /\ pc'[t] = "dec_load" /\ arg'[t] = Heap /\ ret'[t] = after /\ At(t)' = after
  /\ \A u \in Task : u # t =>
       /\ pc'[u] = pc[u] /\ pc[u] \notin Inside
       /\ At(u) = pc[u] /\ At(u)' = pc'[u]

(* What EnterCall does then, and that it keeps BlockInv *)
LEMMA EnterQuiet ==
  ASSUME TypeOK, BlockInv, NEW t \in Task, NEW from, NEW after,
         EnterCall(t, from, Heap, after),
         from \in {"kern", "c_pid_store", "ex_block"}, after \in {"ex_free", "c_pid", "c_tail"},
         current' = current, ~intr', sem' = sem
  PROVE  Entered(t, after) /\ BlockInv'
<1>1. /\ t = current /\ pc[t] = from
      /\ pc' = [pc EXCEPT ![t] = IF sem[Heap] # 0 THEN "dec_load" ELSE "wait_state"]
      /\ arg' = [arg EXCEPT ![t] = Heap] /\ ret' = [ret EXCEPT ![t] = after]
  BY DEF EnterCall, Goto
<1>2. sem[Heap] = 1 BY <1>1 DEF BlockInv
<1>3. pc'[t] = "dec_load" /\ arg'[t] = Heap /\ ret'[t] = after BY <1>1, <1>2 DEF TypeOK
<1>4. \A u \in Task : u # t => pc'[u] = pc[u] /\ pc[u] \notin Inside
  BY <1>1 DEF TypeOK, BlockInv
<1>5. Entered(t, after)
  BY <1>1, <1>2, <1>3, <1>4 DEF Entered, At, Inside, SemLabels
<1>6. BlockInv' BY <1>1, <1>2, <1>3, <1>4 DEF BlockInv, Inside, SemLabels, Creating
<1> QED BY <1>5, <1>6

(* The kmalloc of a task structure *)
LEMMA CreateQuiet == ASSUME IInv, IInv', QuietInv, NEW t \in Task, Create(t) PROVE QuietInv'
<1> USE DEF fields
<1>1. TypeOK /\ BlockInv /\ PidInv /\ LinkedInv /\ SleepInv BY DEF IInv, QuietInv
<1>2. EnterCall(t, "kern", Heap, "c_pid") /\ ~intr' BY DEF Create
<1>3. UNCHANGED <<list, pidcount, freed, current, tick, state, sleep, pid, sem>> BY DEF Create
<1>4. BlockInv' /\ Entered(t, "c_pid") BY <1>1, <1>2, <1>3, EnterQuiet
<1>5. pc[t] = "kern" /\ At(t) = "kern" BY <1>2 DEF EnterCall, Goto, At, SemLabels
<1>6. \A u \in Task \ {t} : node'[u] = node[u] BY <1>1 DEF Create, TypeOK
<1>7. SleepInv' BY <1>1, <1>3, <1>4, SleepKept DEF Entered
<1>8. \A u \in Task : /\ (pc'[u] = "none") <=> (pc[u] = "none")
                      /\ At(u) \notin {"c_tail", "c_link"} /\ At(u)' \notin {"c_tail", "c_link"}
                      /\ At(u)' \in Removing => u # t /\ At(u)' = At(u)
                      /\ At(u) # "ex_free"
  BY <1>4, <1>5 DEF Entered, Inside, Creating, Removing
<1>9. \A u \in Task : Named(u)' <=> Named(u) BY <1>8 DEF Named
<1>10. PidInv' BY <1>1, <1>3, <1>9 DEF PidInv
<1>11. \A u \in Task : Linked(u)' <=> Linked(u) BY <1>3 DEF Linked
<1>12. LinkedInv' BY <1>1, <1>3, <1>6, <1>8, <1>11 DEF LinkedInv
<1> QED BY <1>4, <1>7, <1>10, <1>12 DEF QuietInv

(* The store of ++pidcount: the pid is a new one. *)
LEMMA CreatePidStoreQuiet ==
  ASSUME IInv, IInv', QuietInv, NEW t \in Task, CreatePidStore(t) PROVE QuietInv'
<1>1. TypeOK /\ BlockInv /\ PidInv /\ LinkedInv /\ SleepInv BY DEF IInv, QuietInv
<1>2. EnterCall(t, "c_pid_store", Heap, "c_tail") BY DEF CreatePidStore
<1>3. UNCHANGED <<list, freed, current, tick, state, sleep, sem, node, intr>> BY DEF CreatePidStore
<1>4. pc[t] = "c_pid_store" /\ At(t) = "c_pid_store" /\ tmp[t] = pidcount /\ ~intr
  BY <1>1, <1>2 DEF EnterCall, Goto, At, SemLabels, BlockInv, Inside, Creating
<1>5. BlockInv' /\ Entered(t, "c_tail") BY <1>1, <1>2, <1>3, <1>4, EnterQuiet
<1>6. PICK n : n = node[t] OBVIOUS
<1>7. n \in Task /\ pidcount \in Nat /\ pidcount' = pidcount + 1
      /\ \A u \in Task : pid[u] \in Nat /\ pid'[u] = IF u = n THEN pidcount + 1 ELSE pid[u]
  BY <1>1, <1>4, <1>6 DEF CreatePidStore, TypeOK
<1>8. SleepInv' BY <1>1, <1>3, <1>5, SleepKept DEF Entered
<1>9. \A u \in Task : /\ (pc'[u] = "none") <=> (pc[u] = "none")
                      /\ At(u) \notin {"c_tail", "c_link"}
                      /\ At(u)' \in {"c_tail", "c_link"} <=> u = t
                      /\ At(u)' \in Removing => u # t /\ At(u)' = At(u)
                      /\ At(u) # "ex_free"
  BY <1>4, <1>5 DEF Entered, Inside, Creating, Removing
<1>10. \A u \in Task : Named(u)' <=> Named(u) \/ u = n BY <1>3, <1>6, <1>9 DEF Named
<1>11. PidInv' BY <1>1, <1>7, <1>10 DEF PidInv
<1>12. \A u \in Task : Linked(u)' <=> Linked(u) BY <1>3 DEF Linked
<1>13. LinkedInv' BY <1>1, <1>3, <1>9, <1>12 DEF LinkedInv
<1> QED BY <1>5, <1>8, <1>11, <1>13 DEF QuietInv

(* The new task follows the last one of the list. *)
LEMMA CreateLinkQuiet ==
  ASSUME IInv, IInv', QuietInv, NEW t \in Task, CreateLink(t) PROVE QuietInv'
<1> USE DEF fields
<1>1. TypeOK /\ ListInv /\ BlockInv /\ PidInv /\ LinkedInv /\ SleepInv BY DEF IInv, QuietInv
<1>2. PICK n : n = node[t] OBVIOUS
<1>3. pc[t] = "c_link" /\ t = current /\ tail[t] = list[Len(list)] /\ sem[Heap] = 1 /\ At(t) = "c_link"
  BY <1>1 DEF CreateLink, BlockInv, At, SemLabels
<1>4. n \in Task /\ pc[n] = "none" /\ n # t
  BY <1>2, <1>3 DEF IInv, TypeOK, CreateInv, Creating
<1>5. \A u \in Task : u # t => pc[u] \notin Inside /\ At(u) = pc[u]
  BY <1>1, <1>3 DEF BlockInv, At, Inside, Creating
<1>6. UNCHANGED <<current, tick, state, sleep, sem, pid, pidcount, freed>> BY DEF CreateLink
<1>7. \A u \in Task : /\ pc'[u] = IF u = n THEN "user" ELSE IF u = t THEN "kern" ELSE pc[u]
                      /\ u # t => node'[u] = node[u]
  BY <1>1, <1>2 DEF CreateLink, TypeOK
<1>8. \A u \in Task : pc'[u] \notin Inside
  BY <1>5, <1>7 DEF Inside, SemLabels, Creating
<1>9. \A u \in Task : At(u)' = pc'[u] BY <1>8 DEF At, Inside
<1>10. BlockInv'
  <2>1. current' \in Task BY <1>3, <1>6
  <2> QED BY <1>3, <1>6, <1>8, <2>1 DEF BlockInv, Inside, SemLabels, Creating
<1>11. SleepInv'
  <2>1. pc'[n] = "user" /\ pc'[t] = "kern" BY <1>4, <1>7
  <2> QED BY <1>1, <1>6, <1>7, <2>1 DEF SleepInv
<1>12. \A u \in Task : Named(u)' <=> Named(u)
  <2>1. \A u \in Task : At(u)' \notin {"c_tail", "c_link"} BY <1>8, <1>9 DEF Inside, Creating
  <2>2. \A u \in Task : At(u) \in {"c_tail", "c_link"} <=> u = t
    BY <1>3, <1>5 DEF Inside, Creating
  <2>3. \A u \in Task : (pc'[u] # "none") <=> (pc[u] # "none" \/ u = n) BY <1>3, <1>4, <1>7
  <2> QED BY <1>2, <2>1, <2>2, <2>3 DEF Named
<1>13. PidInv' BY <1>1, <1>6, <1>12 DEF PidInv
<1>14. \A u \in Task : Linked(u) \/ u = n => Linked(u)'
  <2>1. Len(list) \in Nat /\ Len(list) >= 2 /\ DOMAIN list = 1..Len(list) /\ list \in Seq(Task)
    BY <1>1, ListFacts DEF ListInv, TypeOK
  <2>2. Linked(tail[t]) BY <1>3, <2>1 DEF Linked
  <2>3. IndexOf(tail[t]) = Len(list)
    <3>1. IndexOf(tail[t]) \in 1..Len(list) /\ list[IndexOf(tail[t])] = list[Len(list)]
      BY <1>1, <1>3, <2>2, IndexFacts
    <3> QED BY <1>1, <2>1, <3>1 DEF ListInv
  <2>4. list' = Append(SubSeq(list, 1, Len(list)), n) BY <1>2, <2>2, <2>3 DEF CreateLink
  <2>5. PICK l : l = SubSeq(list, 1, Len(list)) OBVIOUS
  <2>6. l \in Seq(Task) /\ Len(l) = Len(list) /\ \A i \in 1..Len(list) : l[i] = list[i]
    BY <2>1, <2>5
  <2>7. /\ list' \in Seq(Task) /\ Len(list') = Len(list) + 1 /\ list'[Len(list) + 1] = n
        /\ \A i \in 1..Len(list) : list'[i] = list[i]
    BY <1>4, <2>1, <2>4, <2>5, <2>6
  <2>8. DOMAIN list' = 1..(Len(list) + 1) BY <2>7
  <2>9. 1..Len(list) \subseteq 1..(Len(list) + 1) /\ Len(list) + 1 \in 1..(Len(list) + 1) BY <2>1
  <2> QED BY <2>1, <2>7, <2>8, <2>9 DEF Linked
<1>15. LinkedInv'
  <2>1. ASSUME NEW u \in Task, At(u)' \in Removing PROVE node'[u] = u
    <3>1. u # t /\ u # n /\ At(u) \in Removing
      BY <1>4, <1>5, <1>7, <1>9, <2>1 DEF Removing
    <3> QED BY <1>1, <1>7, <3>1 DEF LinkedInv
  <2>2. ASSUME NEW u \in Task \ freed, pc'[u] # "none" PROVE Linked(u)'
    <3>1. u = n \/ Linked(u)
      <4>1. u # n => pc[u] # "none" BY <1>3, <1>7, <2>2
      <4>2. At(u) # "ex_free" BY <1>3, <1>5 DEF Inside
      <4> QED BY <1>1, <4>1, <4>2 DEF LinkedInv
    <3> QED BY <1>14, <3>1
  <2> QED BY <1>6, <2>1, <2>2 DEF LinkedInv
<1> QED BY <1>10, <1>11, <1>13, <1>15 DEF QuietInv

(* list_remove_node takes one task out of the list and no other. *)
LEMMA UnlinkKeeps ==
  ASSUME TypeOK, NEW n, Linked(n), Unlink(n), NEW u, Linked(u), u # n
  PROVE  Linked(u)'
<1>0. PICK l \in Nat : l = Len(list) /\ DOMAIN list = 1..l BY ListFacts
<1>1. PICK k \in 1..l : l = Len(list) /\ k = IndexOf(n) /\ list[k] = n
  BY <1>0, IndexFacts
<1>2. list' = [i \in 1..(l - 1) |-> IF i < k THEN list[i] ELSE list[i + 1]]
  BY <1>1 DEF Unlink
<1>3. PICK i \in 1..l : list[i] = u BY <1>0 DEF Linked
<1>4. i # k BY <1>1, <1>3
<1>5. CASE i < k
  <2>1. i \in 1..(l - 1) BY <1>5
  <2> QED BY <1>2, <1>3, <1>5, <2>1 DEF Linked
<1>6. CASE i > k
  <2>1. i - 1 \in 1..(l - 1) /\ ~(i - 1 < k) /\ (i - 1) + 1 = i BY <1>6
  <2> QED BY <1>2, <1>3, <2>1 DEF Linked
<1> QED BY <1>4, <1>5, <1>6

(* A task unlinks itself. *)
LEMMA RemoveUnlinkQuiet ==
  ASSUME IInv, IInv', QuietInv, NEW t \in Task, RemoveUnlink(t) PROVE QuietInv'
<1> USE DEF fields
<1>1. TypeOK /\ BlockInv /\ PidInv /\ LinkedInv /\ SleepInv BY DEF IInv, QuietInv
<1>2. EnterCall(t, "ex_block", Heap, "ex_free") /\ ~intr' BY DEF RemoveUnlink
<1>3. UNCHANGED <<pidcount, freed, current, tick, state, sleep, pid, sem, node>>
  BY DEF RemoveUnlink
<1>4. BlockInv' /\ Entered(t, "ex_free") BY <1>1, <1>2, <1>3, EnterQuiet
<1>5. pc[t] = "ex_block" /\ At(t) = "ex_block" BY <1>2 DEF EnterCall, Goto, At, SemLabels
<1>6. node[t] = t BY <1>1, <1>5 DEF LinkedInv, Removing
<1>7. SleepInv' BY <1>1, <1>3, <1>4, SleepKept DEF Entered
<1>8. \A u \in Task : /\ (pc'[u] = "none") <=> (pc[u] = "none")
                      /\ At(u) \notin {"c_tail", "c_link"} /\ At(u)' \notin {"c_tail", "c_link"}
                      /\ u # t => At(u)' = At(u)
                      /\ At(u) # "ex_free"
  BY <1>4, <1>5 DEF Entered, Inside, Creating
<1>9. \A u \in Task : Named(u)' <=> Named(u) BY <1>8 DEF Named
<1>10. PidInv' BY <1>1, <1>3, <1>9 DEF PidInv
<1>11. \A u \in Task : u # t /\ Linked(u) => Linked(u)'
  <2>1. CASE Linked(t)
    <3>1. Unlink(t) BY <1>6, <2>1 DEF RemoveUnlink
    <3> QED BY <1>1, <2>1, <3>1, UnlinkKeeps
  <2>2. CASE ~Linked(t)
    <3>1. list' = list BY <1>6, <2>2 DEF RemoveUnlink
    <3> QED BY <3>1 DEF Linked
  <2> QED BY <2>1, <2>2
<1>12. LinkedInv'
  <2>1. \A u \in Task : At(u)' \in Removing => node'[u] = u
    BY <1>1, <1>3, <1>6, <1>8 DEF LinkedInv
  <2>2. At(t)' = "ex_free" /\ t = current' BY <1>4 DEF Entered
  <2>3. \A u \in Task \ freed' : pc'[u] # "none" => u = t \/ Linked(u)'
    BY <1>1, <1>3, <1>8, <1>11 DEF LinkedInv
  <2> QED BY <2>1, <2>2, <2>3 DEF LinkedInv
<1> QED BY <1>4, <1>7, <1>10, <1>12 DEF QuietInv

(* The structure that is freed is the task's own. *)
LEMMA RemoveFreeQuiet ==
  ASSUME IInv, IInv', QuietInv, NEW t \in Task, RemoveFree(t) PROVE QuietInv'
<1> USE DEF Goto, fields, locals
<1>1. TypeOK /\ BlockInv /\ PidInv /\ LinkedInv /\ SleepInv BY DEF IInv, QuietInv
<1>2. pc[t] = "ex_free" /\ t = current /\ At(t) = "ex_free" /\ sem[Heap] = 1
  BY <1>1 DEF RemoveFree, BlockInv, At, SemLabels
<1>3. UNCHANGED <<list, pidcount, current, tick, state, sleep, pid, sem, node>> BY DEF RemoveFree
<1>4. node[t] = t BY <1>1, <1>2 DEF LinkedInv, Removing
<1>5. freed' = freed \cup {t} BY <1>4 DEF RemoveFree
<1>6. \A u \in Task : pc'[u] = IF u = t THEN "ex_gone" ELSE pc[u] BY <1>1 DEF RemoveFree, TypeOK
<1>7. \A u \in Task : u # t => pc[u] \notin Inside /\ At(u) = pc[u]
  BY <1>1, <1>2 DEF BlockInv, At, Inside
<1>8. \A u \in Task : pc'[u] \notin Inside BY <1>6, <1>7 DEF Inside, SemLabels, Creating
<1>9. \A u \in Task : At(u)' = pc'[u] BY <1>8 DEF At, Inside
<1>10. BlockInv' BY <1>2, <1>3, <1>8 DEF BlockInv, Inside, SemLabels, Creating
<1>11. SleepInv' BY <1>1, <1>2, <1>3, <1>6, SleepKept
<1>12. \A u \in Task : Named(u)' <=> Named(u)
  <2>1. \A u \in Task : /\ At(u)' \notin {"c_tail", "c_link"} /\ At(u) \notin {"c_tail", "c_link"}
                        /\ (pc'[u] = "none") <=> (pc[u] = "none")
    BY <1>2, <1>6, <1>7, <1>8, <1>9 DEF Inside, Creating
  <2> QED BY <2>1 DEF Named
<1>13. PidInv' BY <1>1, <1>3, <1>12 DEF PidInv
<1>14. LinkedInv'
  <2>1. \A u \in Task : At(u)' \in Removing => node'[u] = u
    BY <1>1, <1>3, <1>4, <1>6, <1>7, <1>9 DEF LinkedInv
  <2>2. \A u \in Task \ freed' : pc'[u] # "none" => Linked(u)
    BY <1>1, <1>2, <1>5, <1>6, <1>7 DEF LinkedInv
  <2>3. \A u \in Task \ freed' : pc'[u] # "none" => Linked(u)' BY <1>3, <2>2 DEF Linked
  <2> QED BY <2>1, <2>3 DEF LinkedInv
<1> QED BY <1>10, <1>11, <1>13, <1>14 DEF QuietInv

(* Every step keeps the invariant if the heap is quiet. *)
LEMMA NextQuiet == ASSUME QuietHeap, IInv, QuietInv, [Next]_vars PROVE QuietInv'
<1>1. IInv' BY NextInv
<1>2. CASE UNCHANGED vars
  BY <1>2 DEF vars, QuietInv, BlockInv, PidInv, Named, LinkedInv, Linked, At, SleepInv
<1>3. CASE Timer BY <1>1, <1>3, TimerQuiet
<1>4. CASE Halted BY <1>2, <1>4 DEF Halted
<1>5. ASSUME NEW t \in Task, TaskStep(t) PROVE QuietInv'
  <2> USE DEF Inside, SemLabels, Creating, Removing
  <2>1. CASE IdleTask(t) \/ Yield(t) BY <1>1, <2>1, RescheduleQuiet DEF IdleTask, Yield
  <2>2. CASE UsleepSched(t) \/ WaitpidSched(t)
    BY <1>1, <2>2, RescheduleQuiet DEF UsleepSched, WaitpidSched
  <2>3. CASE RemoveSched(t) \/ RemoveDone(t)
    BY <1>1, <2>3, RescheduleQuiet DEF RemoveSched, RemoveDone
  <2>4. CASE \/ Syscall(t) \/ Sysret(t) \/ UsleepReturn(t) \/ PageFaultPanic(t)
             \/ \E d \in Naps : Usleep(t, d)
             \/ \E n \in Task : Waitpid(t, n)
             \/ WaitpidTest(t) \/ WaitpidDecrement(t) \/ WaitpidReturn(t)
    BY <1>1, <2>4, SyscallsQuiet
  <2>5. CASE UsleepState(t) BY <1>1, <2>5, UsleepStateQuiet
  <2>6. CASE \/ ExitProcess(t)
             \/ \E from \in {"user", "kern", "crit"} : PageFaultKill(t, from)
    BY <1>1, <2>6, RemoveTaskQuiet
  <2>7. CASE DecrementLoad(t) \/ DecrementStore(t) \/ LeaveSemaphore(t) \/ IncrementStore(t)
    BY <1>1, <2>7, SemaphoreQuiet
  <2>8. CASE RemoveUnlink(t) \/ RemoveFree(t) BY <1>1, <2>8, RemoveUnlinkQuiet, RemoveFreeQuiet
  <2>9. CASE Create(t) \/ CreatePidLoad(t) \/ CreatePidStore(t) \/ CreateTail(t) \/ CreateLink(t)
    BY <1>1, <2>9, CreateQuiet, CreateWalkQuiet, CreatePidStoreQuiet, CreateLinkQuiet
  <2>10. CASE \E s \in Sems : EnterSemaphore(t, s) BY <2>10 DEF EnterSemaphore, QuietHeap
  <2>11. CASE SemaphoreWaitState(t) \/ SemaphoreWaitSem(t) \/ SemaphoreWaitSched(t)
    BY <2>11 DEF SemaphoreWaitState, SemaphoreWaitSem, SemaphoreWaitSched, Reschedule, Goto,
                 QuietInv, BlockInv
  <2> QED BY <1>5, <2>1, <2>2, <2>3, <2>4, <2>5, <2>6, <2>7, <2>8, <2>9, <2>10, <2>11 DEF TaskStep
<1> QED BY <1>2, <1>3, <1>4, <1>5 DEF Next

(* It holds after init_tasking. *)
LEMMA InitQuiet == Init => QuietInv
<1> SUFFICES ASSUME Init PROVE QuietInv OBVIOUS
<1>0. MaxTask \in Nat /\ Boot \in 1..MaxTask /\ Heap \in Sems /\ NullSem \notin Sems
  BY TaskingAssumption
<1>1. \A t \in Task : /\ pc[t] \in {"kern", "idle", "user", "none"}
                      /\ pc[t] # "none" => t <= Boot
                      /\ At(t) = pc[t]
  BY <1>0 DEF Init, Root, Idle, Task, At, SemLabels
<1>2. BlockInv
  <2>1. sem[Heap] = 1 BY <1>0 DEF Init
  <2>2. current \in Task BY TaskFacts DEF Init
  <2> QED BY <1>1, <2>1, <2>2 DEF BlockInv, Inside, SemLabels, Creating
<1>3. \A t \in Task : Named(t) => t <= Boot BY <1>1 DEF Named
<1>4. PidInv
  <2>1. \A t \in Task : Named(t) => pid[t] = t BY <1>3 DEF Init
  <2> QED BY <1>3, <2>1 DEF PidInv, Init
<1>5. LinkedInv
  <2>1. \A t \in Task : pc[t] # "none" => Linked(t)
    <3>1. \A t \in 0..Boot : t + 1 \in 1..(Boot + 1) /\ (t + 1) - 1 = t BY <1>0
    <3>2. \A t \in Task : pc[t] # "none" => t \in 0..Boot BY <1>0, <1>1 DEF Task
    <3>3. DOMAIN list = 1..(Boot + 1) /\ \A i \in 1..(Boot + 1) : list[i] = i - 1 BY DEF Init
    <3> QED BY <3>1, <3>2, <3>3 DEF Linked
  <2> QED BY <1>1, <2>1 DEF LinkedInv, Removing
<1>6. SleepInv BY <1>1 DEF SleepInv
<1> QED BY <1>2, <1>4, <1>5, <1>6 DEF QuietInv

(* QuietInv is an invariant where only creation and removal use the heap:  *)
(* no semaphore is entered with interrupts on.                             *)
THEOREM QuietInvariance == ASSUME QuietHeap PROVE Spec => [](IInv /\ QuietInv)
<1>1. Init => IInv /\ QuietInv BY InitInv, InitQuiet
<1>2. IInv /\ QuietInv /\ [Next]_vars => IInv' /\ QuietInv' BY NextInv, NextQuiet
<1> QED BY <1>1, <1>2, PTL DEF Spec

(* Then no two linked tasks ever have one pid. *)
THEOREM PidsUnique == ASSUME QuietHeap PROVE Spec => []UniquePids
<1>1. ASSUME IInv, QuietInv PROVE UniquePids
  <2>1. \A i \in DOMAIN list : list[i] \in Task /\ pc[list[i]] # "none" /\ i \in 1..Len(list)
    BY <1>1, ListFacts DEF IInv, ListInv
  <2> QED BY <1>1, <2>1 DEF UniquePids, QuietInv, PidInv, Named, IInv, ListInv
<1> QED BY <1>1, QuietInvariance, PTL

(* No task is lost. *)
THEOREM TasksNeverLost == ASSUME QuietHeap PROVE Spec => []NoLostTask
<1>1. ASSUME QuietInv PROVE NoLostTask BY <1>1 DEF QuietInv, LinkedInv, NoLostTask
<1> QED BY <1>1, QuietInvariance, PTL

(* And usleep does not return before its deadline. *)
THEOREM NeverEarly == ASSUME QuietHeap PROVE Spec => []UsleepNotEarly
<1>1. ASSUME IInv, QuietInv PROVE UsleepNotEarly
  BY <1>1 DEF IInv, TypeOK, QuietInv, SleepInv, UsleepNotEarly
<1> QED BY <1>1, QuietInvariance, PTL
=============================================================================

------------------------------ MODULE TaskPool ------------------------------
(***************************************************************************)
(* utils::ThreadPool of src/utils/thread.cpp with the Thread objects of    *)
(* its workers and the ThreadTaskQueue they share, which a SpinLock of     *)
(* src/utils/thread.h protects.                                            *)
(*                                                                         *)
(* One thread owns the pool: it calls Init, then WaitTaskComplete as often *)
(* as it likes, and ends the pool with Exit, JoinwWithStop, WaitAndJoin or *)
(* Terminate.  Any number of clients add tasks meanwhile, also after the   *)
(* end.  A task is added once.                                             *)
(***************************************************************************)
EXTENDS Integers, Sequences, FiniteSets, SequencesExt

CONSTANTS threadNum,   \* how many workers Init asks for
          Task,        \* the tasks
          Client,      \* the threads that add tasks
          Owner,       \* the thread that owns the pool
          None,        \* no task
          CreateFails  \* TRUE: pthread_create can fail

Worker == 1 .. threadNum
Actor == Worker \cup Client \cup {Owner}

ASSUME TaskPoolAssumption ==
    /\ threadNum \in Nat
    /\ Client \cap Worker = {} /\ Owner \notin Client \cup Worker
    /\ None \notin Task
    /\ CreateFails \in BOOLEAN

VARIABLES enabled_,    \* of the pool
          tasks_,      \* the queue
          m_busy,      \* the spin lock: 0 or 1
          threads_,    \* how many Thread objects the pool has
          handle_,     \* handle_[w]: the Thread has a valid handle
          running_,    \* running_[w]: of the Thread
          canceled,    \* canceled[w]: pthread_cancel was called on it
          pc,          \* where each thread is
          task,        \* the task it holds
          op,          \* the function the owner is in
          i,           \* its loop variable
          added,       \* the tasks that were added
          finished,    \* the runs of tasks that ended, [by, task]
          asked        \* what had been added when the owner began its last call

threadVars == <<handle_, running_, canceled>>
ownerVars == <<op, i, asked>>
vars == <<enabled_, tasks_, m_busy, threads_, threadVars, pc, task, ownerVars,
          added, finished>>

Enders == {"Exit", "JoinwWithStop", "WaitAndJoin"}

Init ==
    /\ enabled_ = FALSE
    /\ tasks_ = << >>
    /\ m_busy = 0
    /\ threads_ = 0
    /\ handle_ = [w \in Worker |-> FALSE]
    /\ running_ = [w \in Worker |-> FALSE]
    /\ canceled = [w \in Worker |-> FALSE]
    /\ pc = [a \in Actor |-> IF a \in Worker THEN "new" ELSE "idle"]
    /\ task = [a \in Actor |-> None]
    /\ op = "none"
    /\ i = 1
    /\ added = {} /\ finished = {} /\ asked = {}

Goto(a, l) == pc' = [pc EXCEPT ![a] = l]

-----------------------------------------------------------------------------
(* SpinLock.                                                                *)

(* A slip: the lock is taken whatever the old value was. *)
CanLock_Always == TRUE

(* BUBI_CAS(&m_busy, SPINLOCK_BUSY, SPINLOCK_FREE) returns FREE. *)
CanLock == m_busy = 0

Lock(a, l) ==
    /\ pc[a] = "lock" /\ CanLock
    /\ m_busy' = 1
    /\ Goto(a, l)
    /\ UNCHANGED <<enabled_, tasks_, threads_, threadVars, task, ownerVars, added, finished>>

Unlock == m_busy' = 0

-----------------------------------------------------------------------------
(* A worker: ThreadPool::Run, and the tail of Thread::threadProc.           *)

(* while (enabled_) *)
RunLoop(w) ==
    /\ pc[w] = "loop"
    /\ Goto(w, IF enabled_ THEN "lock" ELSE "tail")
    /\ UNCHANGED <<enabled_, tasks_, m_busy, threads_, threadVars, task, ownerVars, added,
                   finished>>

(* ThreadTaskQueue::Get *)
GetFront(w) ==
    /\ pc[w] = "front"
    /\ IF tasks_ # << >>
       THEN task' = [task EXCEPT ![w] = Head(tasks_)] /\ Goto(w, "pop")
       ELSE UNCHANGED task /\ Goto(w, "got")
    /\ UNCHANGED <<enabled_, tasks_, m_busy, threads_, threadVars, ownerVars, added, finished>>

GetPop(w) ==
    /\ pc[w] = "pop"
    /\ tasks_' = Tail(tasks_)
    /\ Goto(w, "got")
    /\ UNCHANGED <<enabled_, m_busy, threads_, threadVars, task, ownerVars, added, finished>>

GetDone(w) ==
    /\ pc[w] = "got"
    /\ Unlock
    /\ Goto(w, "taken")
    /\ UNCHANGED <<enabled_, tasks_, threads_, threadVars, task, ownerVars, added, finished>>

(* A slip: enabled_ is looked at again before the task is run. *)
ToRun_IfEnabled(w) == task[w] # None /\ enabled_

(* if (task) *)
ToRun(w) == task[w] # None

Dispatch(w) ==
    /\ pc[w] = "taken"
    /\ IF ToRun(w) THEN Goto(w, "run") /\ UNCHANGED task
                   ELSE Goto(w, "sleep") /\ task' = [task EXCEPT ![w] = None]
    /\ UNCHANGED <<enabled_, tasks_, m_busy, threads_, threadVars, ownerVars, added, finished>>

(* task->Run(this_thread) *)
RunTask(w) ==
    /\ pc[w] = "run"
    /\ finished' = finished \cup {[by |-> w, task |-> task[w]]}
    /\ task' = [task EXCEPT ![w] = None]
    /\ Goto(w, "loop")
    /\ UNCHANGED <<enabled_, tasks_, m_busy, threads_, threadVars, ownerVars, added>>

(* utils::Sleep(1) *)
Awake(w) ==
    /\ pc[w] = "sleep" /\ ~ canceled[w]
    /\ Goto(w, "loop")
    /\ UNCHANGED <<enabled_, tasks_, m_busy, threads_, threadVars, task, ownerVars, added,
                   finished>>

(* A canceled thread ends at its next cancellation point, in its sleep or    *)
(* inside a task, without the tail of threadProc.                            *)
Canceled(w) ==
    /\ canceled[w] /\ pc[w] \in {"sleep", "run"}
    /\ Goto(w, "gone")
    /\ UNCHANGED <<enabled_, tasks_, m_busy, threads_, threadVars, task, ownerVars, added,
                   finished>>

(* thread_id_ = 0; handle_ = INVALID_HANDLE; ... *)
Tail1(w) ==
    /\ pc[w] = "tail"
    /\ handle_' = [handle_ EXCEPT ![w] = FALSE]
    /\ Goto(w, "tail2")
    /\ UNCHANGED <<enabled_, tasks_, m_busy, threads_, running_, canceled, task, ownerVars,
                   added, finished>>

(* ... running_ = false *)
Tail2(w) ==
    /\ pc[w] = "tail2"
    /\ running_' = [running_ EXCEPT ![w] = FALSE]
    /\ Goto(w, "gone")
    /\ UNCHANGED <<enabled_, tasks_, m_busy, threads_, handle_, canceled, task, ownerVars,
                   added, finished>>

WorkerStep(w) ==
    \/ RunLoop(w) \/ Lock(w, "front") \/ GetFront(w) \/ GetPop(w) \/ GetDone(w)
    \/ Dispatch(w) \/ RunTask(w) \/ Awake(w) \/ Canceled(w) \/ Tail1(w) \/ Tail2(w)

-----------------------------------------------------------------------------
(* A client: ThreadPool::AddTask, which is ThreadTaskQueue::Put.            *)

AddTask(c) ==
    /\ pc[c] = "idle"
    /\ \E x \in Task \ added :
         /\ task' = [task EXCEPT ![c] = x]
         /\ added' = added \cup {x}
    /\ Goto(c, "lock")
    /\ UNCHANGED <<enabled_, tasks_, m_busy, threads_, threadVars, ownerVars, finished>>

Put(c) ==
    /\ pc[c] = "put"
    /\ tasks_' = Append(tasks_, task[c])
    /\ task' = [task EXCEPT ![c] = None]
    /\ Goto(c, "put2")
    /\ UNCHANGED <<enabled_, m_busy, threads_, threadVars, ownerVars, added, finished>>

PutDone(c) ==
    /\ pc[c] = "put2"
    /\ Unlock
    /\ Goto(c, "idle")
    /\ UNCHANGED <<enabled_, tasks_, threads_, threadVars, task, ownerVars, added, finished>>

ClientStep(c) == Lock(c, "put") \/ Put(c) \/ PutDone(c)

-----------------------------------------------------------------------------
(* The owner.                                                               *)

InQueue == Range(tasks_)

(* ThreadPool::Init *)
InitPool ==
    /\ pc[Owner] = "idle" /\ op = "none"
    /\ enabled_' = TRUE
    /\ op' = "Init" /\ i' = 1
    /\ Goto(Owner, "start")
    /\ UNCHANGED <<tasks_, m_busy, threads_, threadVars, task, asked, added, finished>>

(* A slip: one worker more. *)
MoreWorkers_OneMore == i <= threadNum + 1

(* i < threadNum, with i counted from 0 *)
MoreWorkers == i <= threadNum

(* AddWorker: Thread::Start sets running_ before pthread_create.  A failure  *)
(* ends the loop, leaves running_ set and says nothing about the handle.     *)
AddWorker ==
    /\ pc[Owner] = "start" /\ MoreWorkers
    /\ threads_' = i
    /\ running_' = [running_ EXCEPT ![i] = TRUE]
    /\ \/ /\ handle_' = [handle_ EXCEPT ![i] = TRUE]
          /\ pc' = [pc EXCEPT ![i] = "loop"]
          /\ i' = i + 1
       \/ /\ CreateFails
          /\ \E b \in BOOLEAN : handle_' = [handle_ EXCEPT ![i] = b]
          /\ Goto(Owner, "work")
          /\ UNCHANGED i
    /\ UNCHANGED <<enabled_, tasks_, m_busy, canceled, task, op, asked, added, finished>>

InitDone ==
    /\ pc[Owner] = "start" /\ ~ MoreWorkers
    /\ Goto(Owner, "work")
    /\ UNCHANGED <<enabled_, tasks_, m_busy, threads_, threadVars, task, ownerVars, added,
                   finished>>

(* The owner calls f.  WaitTaskComplete and WaitAndJoin first look at the    *)
(* size of the queue.                                                        *)
CallOwner(f, l) ==
    /\ pc[Owner] = "work"
    /\ op' = f /\ i' = 1
    /\ asked' = InQueue \cup {task[w] : w \in {x \in Worker : task[x] # None}}
    /\ Goto(Owner, l)
    /\ UNCHANGED <<enabled_, tasks_, m_busy, threads_, threadVars, task, added, finished>>

WaitTaskComplete == CallOwner("WaitTaskComplete", "lock")
WaitAndJoin == CallOwner("WaitAndJoin", "lock")
Exit == CallOwner("Exit", "disable")
JoinwWithStop == CallOwner("JoinwWithStop", "disable")

Size ==
    /\ pc[Owner] = "size"
    /\ Unlock
    /\ Goto(Owner, IF tasks_ # << >> THEN "lock"
                   ELSE IF op = "WaitAndJoin" THEN "disable" ELSE "work")
    /\ UNCHANGED <<enabled_, tasks_, threads_, threadVars, task, ownerVars, added, finished>>

(* A slip: only the enabled_ of each Thread is cleared, which Run never reads. *)
Disable_ThreadOnly ==
    /\ pc[Owner] = "disable"
    /\ Goto(Owner, "join")
    /\ UNCHANGED <<enabled_, tasks_, m_busy, threads_, threadVars, task, ownerVars, added,
                   finished>>

(* enabled_ = false *)
Disable ==
    /\ pc[Owner] = "disable"
    /\ enabled_' = FALSE
    /\ Goto(Owner, "join")
    /\ UNCHANGED <<tasks_, m_busy, threads_, threadVars, task, ownerVars, added, finished>>

(* A slip: the join does not wait. *)
StillRunning_NoWait(w) == FALSE

(* while (running_) *)
StillRunning(w) == running_[w]

(* The loop over threads_ calls Thread::JoinWithStop, which returns at once  *)
(* without a valid handle; JoinwWithStop forgets the threads at its end.     *)
Join ==
    /\ pc[Owner] = "join"
    /\ IF i > threads_
       THEN /\ threads_' = IF op = "JoinwWithStop" THEN 0 ELSE threads_
            /\ Goto(Owner, "over")
            /\ UNCHANGED i
       ELSE /\ UNCHANGED threads_
            /\ IF handle_[i] THEN Goto(Owner, "wait") /\ UNCHANGED i
                             ELSE UNCHANGED pc /\ i' = i + 1
    /\ UNCHANGED <<enabled_, tasks_, m_busy, threadVars, task, op, asked, added, finished>>

JoinWait ==
    /\ pc[Owner] = "wait" /\ ~ StillRunning(i)
    /\ i' = i + 1
    /\ Goto(Owner, "join")
    /\ UNCHANGED <<enabled_, tasks_, m_busy, threads_, threadVars, task, op, asked, added,
                   finished>>

(* Thread::Terminate of every worker that has a valid handle. *)
Terminate ==
    /\ pc[Owner] = "work"
    /\ op' = "Terminate"
    /\ canceled' = [w \in Worker |-> handle_[w] /\ pc[w] # "new"]
    /\ Goto(Owner, "over")
    /\ UNCHANGED <<enabled_, tasks_, m_busy, threads_, handle_, running_, task, i, asked,
                   added, finished>>

OwnerStep ==
    \/ AddWorker \/ InitDone \/ Lock(Owner, "size") \/ Size \/ Disable \/ Join \/ JoinWait

OwnerCall ==
    InitPool \/ WaitTaskComplete \/ WaitAndJoin \/ Exit \/ JoinwWithStop \/ Terminate

Next ==
    \/ \E w \in Worker : WorkerStep(w)
    \/ \E c \in Client : AddTask(c) \/ ClientStep(c)
    \/ OwnerStep \/ OwnerCall

Spec == Init /\ [][Next]_vars

(* Every thread that is inside the library keeps running; nobody has to call. *)
FairSpec ==
    /\ Spec
    /\ \A w \in Worker : WF_vars(WorkerStep(w))
    /\ \A c \in Client : WF_vars(ClientStep(c))
    /\ WF_vars(OwnerStep)

-----------------------------------------------------------------------------

TypeOK ==
    /\ enabled_ \in BOOLEAN
    /\ tasks_ \in Seq(Task)
    /\ m_busy \in {0, 1}
    /\ threads_ \in 0 .. threadNum
    /\ handle_ \in [Worker -> BOOLEAN] /\ running_ \in [Worker -> BOOLEAN]
    /\ canceled \in [Worker -> BOOLEAN]
    /\ task \in [Actor -> Task \cup {None}]
    /\ op \in Enders \cup {"none", "Init", "WaitTaskComplete", "Terminate"}
    /\ i \in 1 .. threadNum + 1
    /\ added \subseteq Task /\ asked \subseteq added
    /\ finished \subseteq [by : Worker, task : Task]

(***************************************************************************)
(* TakenOnce: a task that was added is in one place: still with its        *)
(* client, once in the queue, with one worker, or finished once.  A worker *)
(* between front() and pop_front() holds the head of the queue: nobody     *)
(* else takes it meanwhile.                                                *)
(***************************************************************************)
Holders(x) == {a \in Actor : task[a] = x /\ pc[a] # "pop"}
TakenOnce ==
    /\ \A x \in added :
          Cardinality(Holders(x)) + Cardinality({k \in DOMAIN tasks_ : tasks_[k] = x})
              + Cardinality({r \in finished : r.task = x}) = 1
    /\ \A w \in Worker : pc[w] = "pop" => tasks_ # << >> /\ task[w] = Head(tasks_)

(***************************************************************************)
(* JoinedIsFinished: "wait all tasks has been": when WaitAndJoin returns,  *)
(* every task that was in the queue or with a worker when it was called    *)
(* has been run to its end, although the loop only looks at the size of    *)
(* the queue and a worker may have taken the last task a moment before     *)
(* enabled_ was cleared.                                                   *)
(***************************************************************************)
JoinedIsFinished ==
    pc[Owner] = "over" /\ op = "WaitAndJoin" =>
        \A x \in asked : \E r \in finished : r.task = x

(***************************************************************************)
(* NoTaskAbandoned: when Exit, JoinwWithStop or WaitAndJoin returns, no    *)
(* worker is inside a task or will take another: what the queue still      *)
(* holds stays there.                                                      *)
(***************************************************************************)
NoTaskAbandoned ==
    pc[Owner] = "over" /\ op \in Enders =>
        \A w \in Worker : pc[w] \in {"new", "tail2", "gone"}

(***************************************************************************)
(* Stopped: "stop and waiting for thead stopping": the threads a           *)
(* JoinWithStop has returned for are gone, and never touch their Thread    *)
(* object again, which ~ThreadPool deletes.                                *)
(***************************************************************************)
Stopped ==
    pc[Owner] = "over" /\ op \in Enders =>
        \A w \in Worker : pc[w] \in {"new", "gone"}

(***************************************************************************)
(* EndReturns: if every pthread_create succeeded, a pool that is being     *)
(* ended is ended: every worker notices, however the workers and the       *)
(* clients contend for the spin lock, and the call returns.  (A Thread     *)
(* whose pthread_create failed but left a handle is waited for forever.)   *)
(***************************************************************************)
AllStarted == \A w \in 1 .. threads_ : pc[w] # "new"
EndReturns == pc[Owner] = "disable" /\ AllStarted ~> pc[Owner] = "over"

=============================================================================

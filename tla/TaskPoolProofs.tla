--------------------------- MODULE TaskPoolProofs ---------------------------
(***************************************************************************)
(* Proofs about TaskPool, for any number of workers, clients and tasks and *)
(* whether or not pthread_create can fail.                                 *)
(***************************************************************************)
EXTENDS TaskPool, FiniteSetTheorems, SequenceTheorems, TLAPS

-----------------------------------------------------------------------------
(* The inductive invariant.                                                 *)

WorkerLabels == {"new", "loop", "lock", "front", "pop", "got", "taken", "run", "sleep",
                 "tail", "tail2", "gone"}
ClientLabels == {"idle", "lock", "put", "put2"}
OwnerLabels == {"idle", "start", "work", "lock", "size", "disable", "join", "wait", "over"}

(* Which labels a thread can be at. *)
Labelled ==
    /\ pc \in [Actor -> WorkerLabels \cup ClientLabels \cup OwnerLabels]
    /\ \A w \in Worker : pc[w] \in WorkerLabels
    /\ \A c \in Client : pc[c] \in ClientLabels
    /\ pc[Owner] \in OwnerLabels

(* The spin lock admits one thread. *)
Critical == {"front", "pop", "got", "put", "put2", "size"}
OneInside ==
    /\ \A a \in Actor : pc[a] \in Critical => m_busy = 1
    /\ \A a, b \in Actor : pc[a] \in Critical /\ pc[b] \in Critical => a = b

(* Who holds a task. *)
HoldsTask ==
    /\ \A w \in Worker : task[w] # None =>
          \/ pc[w] \in {"pop", "got", "taken", "run"}
          \/ pc[w] = "gone" /\ canceled[w]
    /\ \A w \in Worker : pc[w] \in {"pop", "run"} => task[w] # None
    /\ \A c \in Client : task[c] # None <=> pc[c] \in {"lock", "put"}
    /\ task[Owner] = None

(* A task is in one place, and only tasks that were added are anywhere.     *)
Somewhere(x) ==
    \/ \E a \in Actor : task[a] = x
    \/ \E k \in 1 .. Len(tasks_) : tasks_[k] = x
    \/ \E r \in finished : r.task = x
HeldOnce ==
    \A a, b \in Actor :
        task[a] # None /\ task[a] = task[b] /\ pc[a] # "pop" /\ pc[b] # "pop" => a = b
QueuedOnce == \A k, l \in 1 .. Len(tasks_) : tasks_[k] = tasks_[l] => k = l
DoneOnce == \A r, s \in finished : r.task = s.task => r = s
Apart ==
    /\ \A a \in Actor, k \in 1 .. Len(tasks_) : task[a] = tasks_[k] => pc[a] = "pop"
    /\ \A a \in Actor, r \in finished : task[a] # r.task
    /\ \A k \in 1 .. Len(tasks_), r \in finished : tasks_[k] # r.task
PopsHead == \A w \in Worker : pc[w] = "pop" => Len(tasks_) > 0 /\ task[w] = tasks_[1]
AddedSomewhere == \A x \in Task : x \in added <=> Somewhere(x)
OnePlace == HeldOnce /\ QueuedOnce /\ DoneOnce /\ Apart /\ PopsHead /\ AddedSomewhere

(* What the owner's call and its loop variable say about the workers.       *)
Ending == {"disable", "join", "wait"}
Outside == {"new", "tail2", "gone"}
OwnerPlace ==
    /\ pc[Owner] = "idle" => op = "none" /\ threads_ = 0
    /\ pc[Owner] \in {"lock", "size"} => op \in {"WaitTaskComplete", "WaitAndJoin"}
    /\ pc[Owner] \in Ending => op \in Enders
    /\ pc[Owner] = "wait" => i <= threads_
    /\ pc[Owner] = "start" => threads_ < i
    /\ pc[Owner] \in {"lock", "size", "disable"} => i = 1
    /\ \A w \in Worker : canceled[w] => pc[Owner] = "over" /\ op = "Terminate"
Threads ==
    /\ \A w \in Worker : w > threads_ /\ pc[Owner] # "over" => pc[w] = "new"
    /\ \A w \in Worker : pc[w] \notin Outside => handle_[w]
    /\ \A w \in Worker : pc[w] \notin {"new", "gone"} => running_[w]
    /\ \A w \in Worker : pc[Owner] \in Ending /\ w < i => pc[w] \in Outside
    /\ \A w \in Worker : pc[Owner] = "over" /\ op \in Enders => pc[w] \in Outside

(* Where the tasks are that WaitAndJoin waits for.                          *)
AskedFor ==
    op = "WaitAndJoin" =>
        \A x \in asked : \/ \E r \in finished : r.task = x
                         \/ \E w \in Worker : task[w] = x
                         \/ /\ pc[Owner] \in {"lock", "size"}
                            /\ \E k \in 1 .. Len(tasks_) : tasks_[k] = x

Inv == TypeOK /\ Labelled /\ OneInside /\ HoldsTask /\ OnePlace /\ OwnerPlace /\ Threads
         /\ AskedFor

-----------------------------------------------------------------------------

(* The queue as a sequence.                                                 *)
LEMMA QueueFacts ==
  ASSUME TypeOK
  PROVE  /\ Len(tasks_) \in Nat
         /\ \A k \in 1 .. Len(tasks_) : tasks_[k] \in Task
         /\ tasks_ # << >> <=> Len(tasks_) > 0
         /\ Len(tasks_) > 0 => Head(tasks_) = tasks_[1]
BY LenProperties, ElementOfSeq, EmptySeq DEF TypeOK

LEMMA TailFacts ==
  ASSUME TypeOK, Len(tasks_) > 0
  PROVE  /\ Tail(tasks_) \in Seq(Task)
         /\ Len(Tail(tasks_)) = Len(tasks_) - 1
         /\ \A k \in 1 .. Len(tasks_) - 1 : Tail(tasks_)[k] = tasks_[k + 1]
BY QueueFacts, HeadTailProperties DEF TypeOK

LEMMA AppendFacts ==
  ASSUME TypeOK, NEW x \in Task
  PROVE  /\ Append(tasks_, x) \in Seq(Task)
         /\ Len(Append(tasks_, x)) = Len(tasks_) + 1
         /\ \A k \in 1 .. Len(tasks_) : Append(tasks_, x)[k] = tasks_[k]
         /\ Append(tasks_, x)[Len(tasks_) + 1] = x
BY AppendProperties, LenProperties DEF TypeOK

-----------------------------------------------------------------------------
(***************************************************************************)
(* The steps that branch, one definition per branch.                       *)
(***************************************************************************)

FrontTask(w) ==
    /\ pc[w] = "front" /\ Len(tasks_) > 0 /\ tasks_[1] \in Task
    /\ task' = [task EXCEPT ![w] = tasks_[1]] /\ Goto(w, "pop")
    /\ UNCHANGED <<enabled_, tasks_, m_busy, threads_, handle_, running_, canceled, op, i,
                  asked, added, finished>>

FrontNone(w) ==
    /\ pc[w] = "front" /\ Goto(w, "got")
    /\ UNCHANGED <<enabled_, tasks_, m_busy, threads_, handle_, running_, canceled, task, op,
                  i, asked, added, finished>>

DispatchTask(w) ==
    /\ pc[w] = "taken" /\ task[w] # None /\ Goto(w, "run")
    /\ UNCHANGED <<enabled_, tasks_, m_busy, threads_, handle_, running_, canceled, task, op,
                  i, asked, added, finished>>

DispatchNone(w) ==
    /\ pc[w] = "taken" /\ task[w] = None /\ Goto(w, "sleep")
    /\ UNCHANGED <<enabled_, tasks_, m_busy, threads_, handle_, running_, canceled, task, op,
                  i, asked, added, finished>>

WorkerStarts ==
    /\ pc[Owner] = "start" /\ i \in Worker /\ pc[i] = "new"
    /\ threads_' = i /\ i' = i + 1
    /\ running_' = [running_ EXCEPT ![i] = TRUE]
    /\ handle_' = [handle_ EXCEPT ![i] = TRUE]
    /\ pc' = [pc EXCEPT ![i] = "loop"]
    /\ UNCHANGED <<enabled_, tasks_, m_busy, canceled, task, op, asked, added, finished>>

WorkerFails ==
    /\ pc[Owner] = "start" /\ i \in Worker /\ pc[i] = "new"
    /\ threads_' = i
    /\ running_' = [running_ EXCEPT ![i] = TRUE]
    /\ handle_' \in [Worker -> BOOLEAN] /\ \A w \in Worker \ {i} : handle_'[w] = handle_[w]
    /\ Goto(Owner, "work")
    /\ UNCHANGED <<enabled_, tasks_, m_busy, canceled, task, op, i,
                  asked, added, finished>>

SizeAgain ==
    /\ pc[Owner] = "size" /\ m_busy' = 0 /\ Goto(Owner, "lock")
    /\ UNCHANGED <<enabled_, tasks_, threads_, handle_, running_, canceled, task, op, i,
                  asked, added, finished>>

SizeJoin ==
    /\ pc[Owner] = "size" /\ m_busy' = 0 /\ Len(tasks_) = 0
    /\ op = "WaitAndJoin" /\ Goto(Owner, "disable")
    /\ UNCHANGED <<enabled_, tasks_, threads_, handle_, running_, canceled, task, op, i,
                  asked, added, finished>>

SizeBack ==
    /\ pc[Owner] = "size" /\ m_busy' = 0 /\ op # "WaitAndJoin"
    /\ Goto(Owner, "work")
    /\ UNCHANGED <<enabled_, tasks_, threads_, handle_, running_, canceled, task, op, i,
                  asked, added, finished>>

JoinOver ==
    /\ pc[Owner] = "join" /\ i > threads_
    /\ threads_' \in {0, threads_} /\ Goto(Owner, "over")
    /\ UNCHANGED <<enabled_, tasks_, m_busy, handle_, running_, canceled, task, op, i,
                  asked, added, finished>>

JoinHandle ==
    /\ pc[Owner] = "join" /\ i \in Worker /\ i <= threads_ /\ handle_[i]
    /\ Goto(Owner, "wait")
    /\ UNCHANGED <<enabled_, tasks_, m_busy, threads_, handle_, running_, canceled, task, op,
                  i, asked, added, finished>>

JoinSkip ==
    /\ pc[Owner] = "join" /\ i \in Worker /\ i <= threads_ /\ ~ handle_[i]
    /\ i' = i + 1
    /\ UNCHANGED <<enabled_, tasks_, m_busy, threads_, handle_, running_, canceled, pc, task,
                  op, asked, added, finished>>

OwnerCalls(f, l) ==
    /\ pc[Owner] = "work" /\ op' = f /\ i' = 1 /\ Goto(Owner, l)
    /\ asked' \subseteq added
    /\ \A x \in asked' : \/ \E k \in 1 .. Len(tasks_) : tasks_[k] = x
                         \/ \E w \in Worker : task[w] = x
    /\ UNCHANGED <<enabled_, tasks_, m_busy, threads_, handle_, running_, canceled,
                  task, added, finished>>

LEMMA GetFrontCases ==
  ASSUME Inv, NEW w \in Worker, GetFront(w)
  PROVE  FrontTask(w) \/ FrontNone(w)
BY QueueFacts DEF Inv, GetFront, Goto, FrontTask, FrontNone, threadVars, ownerVars

LEMMA DispatchCases ==
  ASSUME Inv, NEW w \in Worker, Dispatch(w)
  PROVE  DispatchTask(w) \/ DispatchNone(w)
BY DEF Inv, TypeOK, Actor, Dispatch, ToRun, Goto, DispatchTask, DispatchNone, threadVars,
       ownerVars

LEMMA AddWorkerCases ==
  ASSUME Inv, AddWorker
  PROVE  WorkerStarts \/ WorkerFails
<1>1. i \in Worker /\ pc[i] = "new"
  BY TaskPoolAssumption
     DEF AddWorker, MoreWorkers, Inv, TypeOK, Worker, OwnerPlace, Threads
<1>2. CASE pc' = [pc EXCEPT ![i] = "loop"] /\ i' = i + 1 /\ handle_' = [handle_ EXCEPT ![i] = TRUE]
  BY <1>1, <1>2 DEF AddWorker, WorkerStarts
<1>3. CASE /\ \E b \in BOOLEAN : handle_' = [handle_ EXCEPT ![i] = b]
           /\ Goto(Owner, "work") /\ i' = i
  BY <1>1, <1>3 DEF AddWorker, WorkerFails, Inv, TypeOK
<1> QED
  BY <1>2, <1>3 DEF AddWorker

LEMMA SizeCases ==
  ASSUME Inv, Size
  PROVE  SizeAgain \/ SizeJoin \/ SizeBack
<1>1. Len(tasks_) \in Nat /\ (tasks_ # << >> <=> Len(tasks_) > 0)
  BY QueueFacts DEF Inv
<1>2. CASE tasks_ # << >>
  BY <1>2 DEF Size, Unlock, SizeAgain, threadVars, ownerVars
<1>3. CASE tasks_ = << >> /\ op = "WaitAndJoin"
  BY <1>1, <1>3 DEF Size, Unlock, SizeJoin, threadVars, ownerVars
<1>4. CASE tasks_ = << >> /\ op # "WaitAndJoin"
  BY <1>4 DEF Size, Unlock, SizeBack, threadVars, ownerVars
<1> QED
  BY <1>2, <1>3, <1>4

LEMMA JoinCases ==
  ASSUME Inv, Join
  PROVE  JoinOver \/ JoinHandle \/ JoinSkip
<1>1. i \in Int /\ threads_ \in Int /\ (i <= threads_ => i \in Worker)
  BY TaskPoolAssumption DEF Inv, TypeOK, Worker
<1>2. CASE i > threads_
  BY <1>2 DEF Join, JoinOver, threadVars
<1>3. CASE ~ (i > threads_) /\ handle_[i]
  BY <1>1, <1>3 DEF Join, JoinHandle, threadVars
<1>4. CASE ~ (i > threads_) /\ ~ handle_[i]
  BY <1>1, <1>4 DEF Join, JoinSkip, threadVars
<1> QED
  BY <1>2, <1>3, <1>4

LEMMA CallCases ==
  ASSUME Inv, NEW f, NEW l, CallOwner(f, l)
  PROVE  OwnerCalls(f, l)
<1>1. \A x \in asked' : \/ \E k \in 1 .. Len(tasks_) : tasks_[k] = x
                        \/ \E w \in Worker : task[w] = x /\ x # None
  BY QueueFacts, LenProperties DEF Inv, TypeOK, CallOwner, InQueue, Range
<1>2. \A x \in asked' : x \in Task /\ Somewhere(x)
  BY <1>1, QueueFacts DEF Inv, TypeOK, Actor, Somewhere
<1>3. asked' \subseteq added
  BY <1>2 DEF Inv, OnePlace, AddedSomewhere
<1> QED
  BY <1>1, <1>3 DEF CallOwner, OwnerCalls, threadVars

LEMMA NextCases ==
  ASSUME Inv, Next
  PROVE  \/ \E w \in Worker :
              \/ RunLoop(w) \/ Lock(w, "front") \/ FrontTask(w) \/ FrontNone(w)
              \/ GetPop(w) \/ GetDone(w) \/ DispatchTask(w) \/ DispatchNone(w)
              \/ RunTask(w) \/ Awake(w) \/ Canceled(w) \/ Tail1(w) \/ Tail2(w)
         \/ \E c \in Client : \/ AddTask(c) \/ Lock(c, "put") \/ Put(c) \/ PutDone(c)
         \/ WorkerStarts \/ WorkerFails \/ InitDone \/ Lock(Owner, "size") \/ SizeAgain
         \/ SizeJoin \/ SizeBack \/ Disable \/ JoinOver \/ JoinHandle \/ JoinSkip
         \/ JoinWait \/ InitPool \/ Terminate
         \/ \E f \in {"WaitTaskComplete", "WaitAndJoin"} : OwnerCalls(f, "lock")
         \/ \E f \in {"Exit", "JoinwWithStop"} : OwnerCalls(f, "disable")
<1>1. CASE \E w \in Worker : WorkerStep(w)
  BY <1>1, GetFrontCases, DispatchCases DEF WorkerStep
<1>2. CASE \E c \in Client : AddTask(c) \/ ClientStep(c)
  BY <1>2 DEF ClientStep
<1>3. CASE OwnerStep
  BY <1>3, AddWorkerCases, SizeCases, JoinCases DEF OwnerStep
<1>4. CASE OwnerCall
  BY <1>4, CallCases DEF OwnerCall, WaitTaskComplete, WaitAndJoin, Exit, JoinwWithStop
<1> QED
  BY <1>1, <1>2, <1>3, <1>4 DEF Next

-----------------------------------------------------------------------------
(* A step preserves each part of the invariant.                             *)

(* Types. *)
LEMMA StepType ==
  ASSUME Inv, Next
  PROVE  TypeOK'
<1> USE TaskPoolAssumption DEF Inv, TypeOK, Actor, Worker, Enders, threadVars, ownerVars, Goto
<1>1. ASSUME NEW w \in Worker, RunLoop(w) PROVE TypeOK'
  BY <1>1 DEF RunLoop
<1>2. ASSUME NEW w \in Worker, Lock(w, "front") PROVE TypeOK'
  BY <1>2 DEF Lock, CanLock
<1>3. ASSUME NEW w \in Worker, FrontTask(w) PROVE TypeOK'
  BY <1>3 DEF FrontTask
<1>4. ASSUME NEW w \in Worker, FrontNone(w) PROVE TypeOK'
  BY <1>4 DEF FrontNone
<1>5. ASSUME NEW w \in Worker, GetPop(w) PROVE TypeOK'
  <2>1. Len(tasks_) > 0
    BY <1>5 DEF GetPop, OnePlace, PopsHead
  <2>2. tasks_' \in Seq(Task)
    BY <2>1, <1>5, TailFacts DEF GetPop
  <2> QED
    BY <2>2, <1>5 DEF GetPop
<1>6. ASSUME NEW w \in Worker, GetDone(w) PROVE TypeOK'
  BY <1>6 DEF GetDone, Unlock
<1>7. ASSUME NEW w \in Worker, DispatchTask(w) PROVE TypeOK'
  BY <1>7 DEF DispatchTask
<1>8. ASSUME NEW w \in Worker, DispatchNone(w) PROVE TypeOK'
  BY <1>8 DEF DispatchNone
<1>9. ASSUME NEW w \in Worker, RunTask(w) PROVE TypeOK'
  <2>1. task[w] \in Task
    BY <1>9 DEF RunTask, HoldsTask
  <2> QED
    BY <2>1, <1>9 DEF RunTask
<1>10. ASSUME NEW w \in Worker, Awake(w) PROVE TypeOK'
  BY <1>10 DEF Awake
<1>11. ASSUME NEW w \in Worker, Canceled(w) PROVE TypeOK'
  BY <1>11 DEF Canceled
<1>12. ASSUME NEW w \in Worker, Tail1(w) PROVE TypeOK'
  BY <1>12 DEF Tail1
<1>13. ASSUME NEW w \in Worker, Tail2(w) PROVE TypeOK'
  BY <1>13 DEF Tail2
<1>14. ASSUME NEW c \in Client, AddTask(c) PROVE TypeOK'
  BY <1>14 DEF AddTask
<1>15. ASSUME NEW c \in Client, Lock(c, "put") PROVE TypeOK'
  BY <1>15 DEF Lock, CanLock
<1>16. ASSUME NEW c \in Client, Put(c) PROVE TypeOK'
  <2>1. task[c] \in Task
    BY <1>16 DEF Put, HoldsTask
  <2>2. tasks_' \in Seq(Task)
    BY <2>1, <1>16, AppendFacts DEF Put
  <2> QED
    BY <2>2, <1>16 DEF Put
<1>17. ASSUME NEW c \in Client, PutDone(c) PROVE TypeOK'
  BY <1>17 DEF PutDone, Unlock
<1>18. ASSUME WorkerStarts PROVE TypeOK'
  BY <1>18 DEF WorkerStarts
<1>19. ASSUME WorkerFails PROVE TypeOK'
  BY <1>19 DEF WorkerFails
<1>20. ASSUME InitDone PROVE TypeOK'
  BY <1>20 DEF InitDone, MoreWorkers
<1>21. ASSUME Lock(Owner, "size") PROVE TypeOK'
  BY <1>21 DEF Lock, CanLock
<1>22. ASSUME SizeAgain PROVE TypeOK'
  BY <1>22 DEF SizeAgain
<1>23. ASSUME SizeJoin PROVE TypeOK'
  BY <1>23 DEF SizeJoin
<1>24. ASSUME SizeBack PROVE TypeOK'
  BY <1>24 DEF SizeBack
<1>25. ASSUME Disable PROVE TypeOK'
  BY <1>25 DEF Disable
<1>26. ASSUME JoinOver PROVE TypeOK'
  BY <1>26 DEF JoinOver
<1>27. ASSUME JoinHandle PROVE TypeOK'
  BY <1>27 DEF JoinHandle
<1>28. ASSUME JoinSkip PROVE TypeOK'
  BY <1>28 DEF JoinSkip
<1>29. ASSUME JoinWait PROVE TypeOK'
  BY <1>29 DEF JoinWait, OwnerPlace
<1>30. ASSUME InitPool PROVE TypeOK'
  BY <1>30 DEF InitPool
<1>31. ASSUME NEW f \in {"WaitTaskComplete", "WaitAndJoin"}, OwnerCalls(f, "lock")
       PROVE TypeOK'
  BY <1>31 DEF OwnerCalls
<1>32. ASSUME NEW f \in {"Exit", "JoinwWithStop"}, OwnerCalls(f, "disable") PROVE TypeOK'
  BY <1>32 DEF OwnerCalls
<1>33. ASSUME Terminate PROVE TypeOK'
  BY <1>33 DEF Terminate
<1> HIDE DEF Inv, TypeOK, Actor, Worker, Enders, threadVars, ownerVars, Goto
<1> QED
  BY NextCases, <1>1, <1>2, <1>3, <1>4, <1>5, <1>6, <1>7, <1>8, <1>9, <1>10, <1>11, <1>12, <1>13, <1>14, <1>15, <1>16, <1>17,
     <1>18, <1>19, <1>20, <1>21, <1>22, <1>23, <1>24, <1>25, <1>26, <1>27, <1>28, <1>29, <1>30, <1>31, <1>32, <1>33

(* Labels. *)
LEMMA StepLabels ==
  ASSUME Inv, Next
  PROVE  Labelled'
<1> USE TaskPoolAssumption DEF Inv, TypeOK, Labelled, Actor, Worker, WorkerLabels, ClientLabels, OwnerLabels, Goto
<1>1. ASSUME NEW w \in Worker, RunLoop(w) PROVE Labelled'
  BY <1>1 DEF RunLoop
<1>2. ASSUME NEW w \in Worker, Lock(w, "front") PROVE Labelled'
  BY <1>2 DEF Lock, CanLock
<1>3. ASSUME NEW w \in Worker, FrontTask(w) PROVE Labelled'
  BY <1>3 DEF FrontTask
<1>4. ASSUME NEW w \in Worker, FrontNone(w) PROVE Labelled'
  BY <1>4 DEF FrontNone
<1>5. ASSUME NEW w \in Worker, GetPop(w) PROVE Labelled'
  BY <1>5 DEF GetPop
<1>6. ASSUME NEW w \in Worker, GetDone(w) PROVE Labelled'
  BY <1>6 DEF GetDone, Unlock
<1>7. ASSUME NEW w \in Worker, DispatchTask(w) PROVE Labelled'
  BY <1>7 DEF DispatchTask
<1>8. ASSUME NEW w \in Worker, DispatchNone(w) PROVE Labelled'
  BY <1>8 DEF DispatchNone
<1>9. ASSUME NEW w \in Worker, RunTask(w) PROVE Labelled'
  BY <1>9 DEF RunTask
<1>10. ASSUME NEW w \in Worker, Awake(w) PROVE Labelled'
  BY <1>10 DEF Awake
<1>11. ASSUME NEW w \in Worker, Canceled(w) PROVE Labelled'
  BY <1>11 DEF Canceled
<1>12. ASSUME NEW w \in Worker, Tail1(w) PROVE Labelled'
  BY <1>12 DEF Tail1
<1>13. ASSUME NEW w \in Worker, Tail2(w) PROVE Labelled'
  BY <1>13 DEF Tail2
<1>14. ASSUME NEW c \in Client, AddTask(c) PROVE Labelled'
  BY <1>14 DEF AddTask
<1>15. ASSUME NEW c \in Client, Lock(c, "put") PROVE Labelled'
  BY <1>15 DEF Lock, CanLock
<1>16. ASSUME NEW c \in Client, Put(c) PROVE Labelled'
  BY <1>16 DEF Put
<1>17. ASSUME NEW c \in Client, PutDone(c) PROVE Labelled'
  BY <1>17 DEF PutDone, Unlock
<1>18. ASSUME WorkerStarts PROVE Labelled'
  BY <1>18 DEF WorkerStarts
<1>19. ASSUME WorkerFails PROVE Labelled'
  BY <1>19 DEF WorkerFails
<1>20. ASSUME InitDone PROVE Labelled'
  BY <1>20 DEF InitDone, MoreWorkers
<1>21. ASSUME Lock(Owner, "size") PROVE Labelled'
  BY <1>21 DEF Lock, CanLock
<1>22. ASSUME SizeAgain PROVE Labelled'
  BY <1>22 DEF SizeAgain
<1>23. ASSUME SizeJoin PROVE Labelled'
  BY <1>23 DEF SizeJoin
<1>24. ASSUME SizeBack PROVE Labelled'
  BY <1>24 DEF SizeBack
<1>25. ASSUME Disable PROVE Labelled'
  BY <1>25 DEF Disable
<1>26. ASSUME JoinOver PROVE Labelled'
  BY <1>26 DEF JoinOver
<1>27. ASSUME JoinHandle PROVE Labelled'
  BY <1>27 DEF JoinHandle
<1>28. ASSUME JoinSkip PROVE Labelled'
  BY <1>28 DEF JoinSkip
<1>29. ASSUME JoinWait PROVE Labelled'
  BY <1>29 DEF JoinWait, StillRunning
<1>30. ASSUME InitPool PROVE Labelled'
  BY <1>30 DEF InitPool
<1>31. ASSUME NEW f \in {"WaitTaskComplete", "WaitAndJoin"}, OwnerCalls(f, "lock")
       PROVE Labelled'
  BY <1>31 DEF OwnerCalls
<1>32. ASSUME NEW f \in {"Exit", "JoinwWithStop"}, OwnerCalls(f, "disable")
       PROVE Labelled'
  BY <1>32 DEF OwnerCalls
<1>33. ASSUME Terminate PROVE Labelled'
  BY <1>33 DEF Terminate
<1> HIDE DEF Inv, TypeOK, Labelled, Actor, Worker, WorkerLabels, ClientLabels, OwnerLabels, Goto
<1> QED
  BY NextCases, <1>1, <1>2, <1>3, <1>4, <1>5, <1>6, <1>7, <1>8, <1>9, <1>10, <1>11, <1>12, <1>13, <1>14, <1>15, <1>16, <1>17,
     <1>18, <1>19, <1>20, <1>21, <1>22, <1>23, <1>24, <1>25, <1>26, <1>27, <1>28, <1>29, <1>30, <1>31, <1>32, <1>33

(* The spin lock. *)
LEMMA StepInside ==
  ASSUME Inv, Next
  PROVE  OneInside'
<1> USE TaskPoolAssumption DEF Inv, TypeOK, Labelled, Actor, Worker, WorkerLabels, ClientLabels, OwnerLabels, OneInside, Critical, Goto
<1>1. ASSUME NEW w \in Worker, RunLoop(w) PROVE OneInside'
  BY <1>1 DEF RunLoop
<1>2. ASSUME NEW w \in Worker, Lock(w, "front") PROVE OneInside'
  BY <1>2 DEF Lock, CanLock
<1>3. ASSUME NEW w \in Worker, FrontTask(w) PROVE OneInside'
  BY <1>3 DEF FrontTask
<1>4. ASSUME NEW w \in Worker, FrontNone(w) PROVE OneInside'
  BY <1>4 DEF FrontNone
<1>5. ASSUME NEW w \in Worker, GetPop(w) PROVE OneInside'
  BY <1>5 DEF GetPop
<1>6. ASSUME NEW w \in Worker, GetDone(w) PROVE OneInside'
  BY <1>6 DEF GetDone, Unlock
<1>7. ASSUME NEW w \in Worker, DispatchTask(w) PROVE OneInside'
  BY <1>7 DEF DispatchTask
<1>8. ASSUME NEW w \in Worker, DispatchNone(w) PROVE OneInside'
  BY <1>8 DEF DispatchNone
<1>9. ASSUME NEW w \in Worker, RunTask(w) PROVE OneInside'
  BY <1>9 DEF RunTask
<1>10. ASSUME NEW w \in Worker, Awake(w) PROVE OneInside'
  BY <1>10 DEF Awake
<1>11. ASSUME NEW w \in Worker, Canceled(w) PROVE OneInside'
  BY <1>11 DEF Canceled
<1>12. ASSUME NEW w \in Worker, Tail1(w) PROVE OneInside'
  BY <1>12 DEF Tail1
<1>13. ASSUME NEW w \in Worker, Tail2(w) PROVE OneInside'
  BY <1>13 DEF Tail2
<1>14. ASSUME NEW c \in Client, AddTask(c) PROVE OneInside'
  BY <1>14 DEF AddTask
<1>15. ASSUME NEW c \in Client, Lock(c, "put") PROVE OneInside'
  BY <1>15 DEF Lock, CanLock
<1>16. ASSUME NEW c \in Client, Put(c) PROVE OneInside'
  BY <1>16 DEF Put
<1>17. ASSUME NEW c \in Client, PutDone(c) PROVE OneInside'
  BY <1>17 DEF PutDone, Unlock
<1>18. ASSUME WorkerStarts PROVE OneInside'
  BY <1>18 DEF WorkerStarts
<1>19. ASSUME WorkerFails PROVE OneInside'
  BY <1>19 DEF WorkerFails
<1>20. ASSUME InitDone PROVE OneInside'
  BY <1>20 DEF InitDone, MoreWorkers
<1>21. ASSUME Lock(Owner, "size") PROVE OneInside'
  BY <1>21 DEF Lock, CanLock
<1>22. ASSUME SizeAgain PROVE OneInside'
  <2>1. /\ pc[Owner] \in Critical /\ pc'[Owner] = "lock"
        /\ \A a \in Actor : a # Owner => pc'[a] = pc[a]
    BY <1>22 DEF SizeAgain
  <2>2. \A a \in Actor : pc'[a] \notin Critical
    BY <2>1
  <2> QED
    BY <2>2
<1>23. ASSUME SizeJoin PROVE OneInside'
  <2>1. /\ pc[Owner] \in Critical /\ pc'[Owner] \notin Critical
        /\ \A a \in Actor : a # Owner => pc'[a] = pc[a]
    BY <1>23 DEF SizeJoin
  <2>2. \A a \in Actor : pc'[a] \notin Critical
    BY <2>1
  <2> QED
    BY <2>2
<1>24. ASSUME SizeBack PROVE OneInside'
  <2>1. /\ pc[Owner] \in Critical /\ pc'[Owner] \notin Critical
        /\ \A a \in Actor : a # Owner => pc'[a] = pc[a]
    BY <1>24 DEF SizeBack
  <2>2. \A a \in Actor : pc'[a] \notin Critical
    BY <2>1
  <2> QED
    BY <2>2
<1>25. ASSUME Disable PROVE OneInside'
  BY <1>25 DEF Disable
<1>26. ASSUME JoinOver PROVE OneInside'
  BY <1>26 DEF JoinOver
<1>27. ASSUME JoinHandle PROVE OneInside'
  BY <1>27 DEF JoinHandle
<1>28. ASSUME JoinSkip PROVE OneInside'
  BY <1>28 DEF JoinSkip
<1>29. ASSUME JoinWait PROVE OneInside'
  BY <1>29 DEF JoinWait, StillRunning
<1>30. ASSUME InitPool PROVE OneInside'
  BY <1>30 DEF InitPool
<1>31. ASSUME NEW f \in {"WaitTaskComplete", "WaitAndJoin"}, OwnerCalls(f, "lock")
       PROVE OneInside'
  BY <1>31 DEF OwnerCalls
<1>32. ASSUME NEW f \in {"Exit", "JoinwWithStop"}, OwnerCalls(f, "disable")
       PROVE OneInside'
  BY <1>32 DEF OwnerCalls
<1>33. ASSUME Terminate PROVE OneInside'
  BY <1>33 DEF Terminate
<1> HIDE DEF Inv, TypeOK, Labelled, Actor, Worker, WorkerLabels, ClientLabels, OwnerLabels, OneInside, Critical, Goto
<1> QED
  BY NextCases, <1>1, <1>2, <1>3, <1>4, <1>5, <1>6, <1>7, <1>8, <1>9, <1>10, <1>11, <1>12, <1>13, <1>14, <1>15, <1>16, <1>17,
     <1>18, <1>19, <1>20, <1>21, <1>22, <1>23, <1>24, <1>25, <1>26, <1>27, <1>28, <1>29, <1>30, <1>31, <1>32, <1>33

(* Who holds a task. *)
LEMMA StepHolds ==
  ASSUME Inv, Next
  PROVE  HoldsTask'
<1> USE TaskPoolAssumption DEF Inv, TypeOK, Labelled, Actor, Worker, WorkerLabels, ClientLabels, OwnerLabels, HoldsTask, threadVars, Goto
<1>1. ASSUME NEW w \in Worker, RunLoop(w) PROVE HoldsTask'
  BY <1>1 DEF RunLoop
<1>2. ASSUME NEW w \in Worker, Lock(w, "front") PROVE HoldsTask'
  BY <1>2 DEF Lock, CanLock
<1>3. ASSUME NEW w \in Worker, FrontTask(w) PROVE HoldsTask'
  BY <1>3 DEF FrontTask
<1>4. ASSUME NEW w \in Worker, FrontNone(w) PROVE HoldsTask'
  BY <1>4 DEF FrontNone
<1>5. ASSUME NEW w \in Worker, GetPop(w) PROVE HoldsTask'
  BY <1>5 DEF GetPop
<1>6. ASSUME NEW w \in Worker, GetDone(w) PROVE HoldsTask'
  BY <1>6 DEF GetDone, Unlock
<1>7. ASSUME NEW w \in Worker, DispatchTask(w) PROVE HoldsTask'
  BY <1>7 DEF DispatchTask
<1>8. ASSUME NEW w \in Worker, DispatchNone(w) PROVE HoldsTask'
  BY <1>8 DEF DispatchNone
<1>9. ASSUME NEW w \in Worker, RunTask(w) PROVE HoldsTask'
  BY <1>9 DEF RunTask
<1>10. ASSUME NEW w \in Worker, Awake(w) PROVE HoldsTask'
  BY <1>10 DEF Awake
<1>11. ASSUME NEW w \in Worker, Canceled(w) PROVE HoldsTask'
  BY <1>11 DEF Canceled
<1>12. ASSUME NEW w \in Worker, Tail1(w) PROVE HoldsTask'
  BY <1>12 DEF Tail1
<1>13. ASSUME NEW w \in Worker, Tail2(w) PROVE HoldsTask'
  BY <1>13 DEF Tail2
<1>14. ASSUME NEW c \in Client, AddTask(c) PROVE HoldsTask'
  BY <1>14 DEF AddTask
<1>15. ASSUME NEW c \in Client, Lock(c, "put") PROVE HoldsTask'
  BY <1>15 DEF Lock, CanLock
<1>16. ASSUME NEW c \in Client, Put(c) PROVE HoldsTask'
  BY <1>16 DEF Put
<1>17. ASSUME NEW c \in Client, PutDone(c) PROVE HoldsTask'
  BY <1>17 DEF PutDone, Unlock
<1>18. ASSUME WorkerStarts PROVE HoldsTask'
  BY <1>18 DEF WorkerStarts
<1>19. ASSUME WorkerFails PROVE HoldsTask'
  BY <1>19 DEF WorkerFails
<1>20. ASSUME InitDone PROVE HoldsTask'
  BY <1>20 DEF InitDone, MoreWorkers
<1>21. ASSUME Lock(Owner, "size") PROVE HoldsTask'
  BY <1>21 DEF Lock, CanLock
<1>22. ASSUME SizeAgain PROVE HoldsTask'
  BY <1>22 DEF SizeAgain
<1>23. ASSUME SizeJoin PROVE HoldsTask'
  BY <1>23 DEF SizeJoin
<1>24. ASSUME SizeBack PROVE HoldsTask'
  BY <1>24 DEF SizeBack
<1>25. ASSUME Disable PROVE HoldsTask'
  BY <1>25 DEF Disable
<1>26. ASSUME JoinOver PROVE HoldsTask'
  BY <1>26 DEF JoinOver
<1>27. ASSUME JoinHandle PROVE HoldsTask'
  BY <1>27 DEF JoinHandle
<1>28. ASSUME JoinSkip PROVE HoldsTask'
  BY <1>28 DEF JoinSkip
<1>29. ASSUME JoinWait PROVE HoldsTask'
  BY <1>29 DEF JoinWait, StillRunning
<1>30. ASSUME InitPool PROVE HoldsTask'
  BY <1>30 DEF InitPool
<1>31. ASSUME NEW f \in {"WaitTaskComplete", "WaitAndJoin"}, OwnerCalls(f, "lock")
       PROVE HoldsTask'
  BY <1>31 DEF OwnerCalls
<1>32. ASSUME NEW f \in {"Exit", "JoinwWithStop"}, OwnerCalls(f, "disable")
       PROVE HoldsTask'
  BY <1>32 DEF OwnerCalls
<1>33. ASSUME Terminate PROVE HoldsTask'
  BY <1>33 DEF Terminate, OwnerPlace
<1> HIDE DEF Inv, TypeOK, Labelled, Actor, Worker, WorkerLabels, ClientLabels, OwnerLabels, HoldsTask, threadVars, Goto
<1> QED
  BY NextCases, <1>1, <1>2, <1>3, <1>4, <1>5, <1>6, <1>7, <1>8, <1>9, <1>10, <1>11, <1>12, <1>13, <1>14, <1>15, <1>16, <1>17,
     <1>18, <1>19, <1>20, <1>21, <1>22, <1>23, <1>24, <1>25, <1>26, <1>27, <1>28, <1>29, <1>30, <1>31, <1>32, <1>33

(* The owner. *)
LEMMA StepOwner ==
  ASSUME Inv, Next
  PROVE  OwnerPlace'
<1> USE TaskPoolAssumption DEF Inv, TypeOK, Labelled, Actor, Worker, WorkerLabels, ClientLabels, OwnerLabels, OwnerPlace, Ending, Enders, threadVars, ownerVars, Goto
<1>1. ASSUME NEW w \in Worker, RunLoop(w) PROVE OwnerPlace'
  BY <1>1 DEF RunLoop
<1>2. ASSUME NEW w \in Worker, Lock(w, "front") PROVE OwnerPlace'
  BY <1>2 DEF Lock, CanLock
<1>3. ASSUME NEW w \in Worker, FrontTask(w) PROVE OwnerPlace'
  BY <1>3 DEF FrontTask
<1>4. ASSUME NEW w \in Worker, FrontNone(w) PROVE OwnerPlace'
  BY <1>4 DEF FrontNone
<1>5. ASSUME NEW w \in Worker, GetPop(w) PROVE OwnerPlace'
  BY <1>5 DEF GetPop
<1>6. ASSUME NEW w \in Worker, GetDone(w) PROVE OwnerPlace'
  BY <1>6 DEF GetDone, Unlock
<1>7. ASSUME NEW w \in Worker, DispatchTask(w) PROVE OwnerPlace'
  BY <1>7 DEF DispatchTask
<1>8. ASSUME NEW w \in Worker, DispatchNone(w) PROVE OwnerPlace'
  BY <1>8 DEF DispatchNone
<1>9. ASSUME NEW w \in Worker, RunTask(w) PROVE OwnerPlace'
  BY <1>9 DEF RunTask
<1>10. ASSUME NEW w \in Worker, Awake(w) PROVE OwnerPlace'
  BY <1>10 DEF Awake
<1>11. ASSUME NEW w \in Worker, Canceled(w) PROVE OwnerPlace'
  BY <1>11 DEF Canceled
<1>12. ASSUME NEW w \in Worker, Tail1(w) PROVE OwnerPlace'
  BY <1>12 DEF Tail1
<1>13. ASSUME NEW w \in Worker, Tail2(w) PROVE OwnerPlace'
  BY <1>13 DEF Tail2
<1>14. ASSUME NEW c \in Client, AddTask(c) PROVE OwnerPlace'
  BY <1>14 DEF AddTask
<1>15. ASSUME NEW c \in Client, Lock(c, "put") PROVE OwnerPlace'
  BY <1>15 DEF Lock, CanLock
<1>16. ASSUME NEW c \in Client, Put(c) PROVE OwnerPlace'
  BY <1>16 DEF Put
<1>17. ASSUME NEW c \in Client, PutDone(c) PROVE OwnerPlace'
  BY <1>17 DEF PutDone, Unlock
<1>18. ASSUME WorkerStarts PROVE OwnerPlace'
  BY <1>18 DEF WorkerStarts
<1>19. ASSUME WorkerFails PROVE OwnerPlace'
  BY <1>19 DEF WorkerFails
<1>20. ASSUME InitDone PROVE OwnerPlace'
  BY <1>20 DEF InitDone, MoreWorkers
<1>21. ASSUME Lock(Owner, "size") PROVE OwnerPlace'
  BY <1>21 DEF Lock, CanLock
<1>22. ASSUME SizeAgain PROVE OwnerPlace'
  BY <1>22 DEF SizeAgain
<1>23. ASSUME SizeJoin PROVE OwnerPlace'
  BY <1>23 DEF SizeJoin
<1>24. ASSUME SizeBack PROVE OwnerPlace'
  BY <1>24 DEF SizeBack
<1>25. ASSUME Disable PROVE OwnerPlace'
  BY <1>25 DEF Disable
<1>26. ASSUME JoinOver PROVE OwnerPlace'
  BY <1>26 DEF JoinOver
<1>27. ASSUME JoinHandle PROVE OwnerPlace'
  BY <1>27 DEF JoinHandle
<1>28. ASSUME JoinSkip PROVE OwnerPlace'
  BY <1>28 DEF JoinSkip
<1>29. ASSUME JoinWait PROVE OwnerPlace'
  BY <1>29 DEF JoinWait, StillRunning
<1>30. ASSUME InitPool PROVE OwnerPlace'
  BY <1>30 DEF InitPool
<1>31. ASSUME NEW f \in {"WaitTaskComplete", "WaitAndJoin"}, OwnerCalls(f, "lock")
       PROVE OwnerPlace'
  BY <1>31 DEF OwnerCalls
<1>32. ASSUME NEW f \in {"Exit", "JoinwWithStop"}, OwnerCalls(f, "disable")
       PROVE OwnerPlace'
  BY <1>32 DEF OwnerCalls
<1>33. ASSUME Terminate PROVE OwnerPlace'
  BY <1>33 DEF Terminate
<1> HIDE DEF Inv, TypeOK, Labelled, Actor, Worker, WorkerLabels, ClientLabels, OwnerLabels, OwnerPlace, Ending, Enders, threadVars, ownerVars, Goto
<1> QED
  BY NextCases, <1>1, <1>2, <1>3, <1>4, <1>5, <1>6, <1>7, <1>8, <1>9, <1>10, <1>11, <1>12, <1>13, <1>14, <1>15, <1>16, <1>17,
     <1>18, <1>19, <1>20, <1>21, <1>22, <1>23, <1>24, <1>25, <1>26, <1>27, <1>28, <1>29, <1>30, <1>31, <1>32, <1>33

(* The workers. *)
LEMMA StepThreads ==
  ASSUME Inv, Next
  PROVE  Threads'
<1> USE TaskPoolAssumption DEF Inv, TypeOK, Labelled, Actor, Worker, WorkerLabels, ClientLabels, OwnerLabels, OwnerPlace, Threads, Outside, Ending, Enders, threadVars, ownerVars, Goto
<1>1. ASSUME NEW w \in Worker, RunLoop(w) PROVE Threads'
  BY <1>1 DEF RunLoop
<1>2. ASSUME NEW w \in Worker, Lock(w, "front") PROVE Threads'
  BY <1>2 DEF Lock, CanLock
<1>3. ASSUME NEW w \in Worker, FrontTask(w) PROVE Threads'
  BY <1>3 DEF FrontTask
<1>4. ASSUME NEW w \in Worker, FrontNone(w) PROVE Threads'
  BY <1>4 DEF FrontNone
<1>5. ASSUME NEW w \in Worker, GetPop(w) PROVE Threads'
  BY <1>5 DEF GetPop
<1>6. ASSUME NEW w \in Worker, GetDone(w) PROVE Threads'
  BY <1>6 DEF GetDone, Unlock
<1>7. ASSUME NEW w \in Worker, DispatchTask(w) PROVE Threads'
  BY <1>7 DEF DispatchTask
<1>8. ASSUME NEW w \in Worker, DispatchNone(w) PROVE Threads'
  BY <1>8 DEF DispatchNone
<1>9. ASSUME NEW w \in Worker, RunTask(w) PROVE Threads'
  BY <1>9 DEF RunTask
<1>10. ASSUME NEW w \in Worker, Awake(w) PROVE Threads'
  BY <1>10 DEF Awake
<1>11. ASSUME NEW w \in Worker, Canceled(w) PROVE Threads'
  BY <1>11 DEF Canceled
<1>12. ASSUME NEW w \in Worker, Tail1(w) PROVE Threads'
  BY <1>12 DEF Tail1
<1>13. ASSUME NEW w \in Worker, Tail2(w) PROVE Threads'
  BY <1>13 DEF Tail2
<1>14. ASSUME NEW c \in Client, AddTask(c) PROVE Threads'
  BY <1>14 DEF AddTask
<1>15. ASSUME NEW c \in Client, Lock(c, "put") PROVE Threads'
  BY <1>15 DEF Lock, CanLock
<1>16. ASSUME NEW c \in Client, Put(c) PROVE Threads'
  BY <1>16 DEF Put
<1>17. ASSUME NEW c \in Client, PutDone(c) PROVE Threads'
  BY <1>17 DEF PutDone, Unlock
<1>18. ASSUME WorkerStarts PROVE Threads'
  BY <1>18 DEF WorkerStarts
<1>19. ASSUME WorkerFails PROVE Threads'
  BY <1>19 DEF WorkerFails
<1>20. ASSUME InitDone PROVE Threads'
  BY <1>20 DEF InitDone, MoreWorkers
<1>21. ASSUME Lock(Owner, "size") PROVE Threads'
  BY <1>21 DEF Lock, CanLock
<1>22. ASSUME SizeAgain PROVE Threads'
  BY <1>22 DEF SizeAgain
<1>23. ASSUME SizeJoin PROVE Threads'
  BY <1>23 DEF SizeJoin
<1>24. ASSUME SizeBack PROVE Threads'
  BY <1>24 DEF SizeBack
<1>25. ASSUME Disable PROVE Threads'
  BY <1>25 DEF Disable
<1>26. ASSUME JoinOver PROVE Threads'
  BY <1>26 DEF JoinOver
<1>27. ASSUME JoinHandle PROVE Threads'
  BY <1>27 DEF JoinHandle
<1>28. ASSUME JoinSkip PROVE Threads'
  BY <1>28 DEF JoinSkip
<1>29. ASSUME JoinWait PROVE Threads'
  BY <1>29 DEF JoinWait, StillRunning
<1>30. ASSUME InitPool PROVE Threads'
  BY <1>30 DEF InitPool
<1>31. ASSUME NEW f \in {"WaitTaskComplete", "WaitAndJoin"}, OwnerCalls(f, "lock")
       PROVE Threads'
  BY <1>31 DEF OwnerCalls
<1>32. ASSUME NEW f \in {"Exit", "JoinwWithStop"}, OwnerCalls(f, "disable") PROVE Threads'
  BY <1>32 DEF OwnerCalls
<1>33. ASSUME Terminate PROVE Threads'
  BY <1>33 DEF Terminate
<1> HIDE DEF Inv, TypeOK, Labelled, Actor, Worker, WorkerLabels, ClientLabels, OwnerLabels, OwnerPlace, Threads, Outside, Ending, Enders, threadVars, ownerVars, Goto
<1> QED
  BY NextCases, <1>1, <1>2, <1>3, <1>4, <1>5, <1>6, <1>7, <1>8, <1>9, <1>10, <1>11, <1>12, <1>13, <1>14, <1>15, <1>16, <1>17,
     <1>18, <1>19, <1>20, <1>21, <1>22, <1>23, <1>24, <1>25, <1>26, <1>27, <1>28, <1>29, <1>30, <1>31, <1>32, <1>33

(* A step that moves no task and does not touch the queue. *)
LEMMA PlaceFrame ==
  ASSUME Inv, UNCHANGED <<tasks_, task, finished, added>>,
         \A a \in Actor : pc'[a] = "pop" <=> pc[a] = "pop"
  PROVE  OnePlace'
BY DEF Inv, OnePlace, HeldOnce, QueuedOnce, DoneOnce, Apart, PopsHead, AddedSomewhere,
       Somewhere, Actor

(* A task is in one place. *)
LEMMA StepPlace ==
  ASSUME Inv, Next
  PROVE  OnePlace'
<1> USE TaskPoolAssumption DEF Actor, OnePlace
<1> DEFINE n == Len(tasks_)
<1>0. /\ HeldOnce /\ QueuedOnce /\ DoneOnce /\ Apart /\ PopsHead /\ AddedSomewhere
      /\ n \in Nat /\ \A k \in 1 .. n : tasks_[k] \in Task
      /\ task \in [Actor -> Task \cup {None}]
      /\ \A r \in finished : r.task \in Task
  BY QueueFacts DEF Inv, TypeOK
<1>1. ASSUME NEW w \in Worker, FrontTask(w) PROVE OnePlace'
  <2>1. /\ n > 0 /\ task[w] = None /\ task' = [task EXCEPT ![w] = tasks_[1]]
        /\ pc' = [pc EXCEPT ![w] = "pop"] /\ UNCHANGED <<tasks_, finished, added>>
        /\ pc \in [Actor -> WorkerLabels \cup ClientLabels \cup OwnerLabels]
    BY <1>1 DEF FrontTask, Goto, Inv, HoldsTask, Labelled
  <2>2. HeldOnce'
    BY <1>0, <2>1 DEF HeldOnce
  <2>3. QueuedOnce'
    BY <1>0, <2>1 DEF QueuedOnce
  <2>4. DoneOnce'
    BY <1>0, <2>1 DEF DoneOnce
  <2>5. Apart'
    BY <1>0, <2>1 DEF Apart
  <2>6. PopsHead'
    BY <1>0, <2>1 DEF PopsHead
  <2>7. AddedSomewhere'
    BY <1>0, <2>1 DEF AddedSomewhere, Somewhere
  <2> QED
    BY <2>2, <2>3, <2>4, <2>5, <2>6, <2>7
<1>2. ASSUME NEW w \in Worker, GetPop(w) PROVE OnePlace'
  <2>1. /\ n > 0 /\ task[w] = tasks_[1] /\ pc[w] = "pop" /\ UNCHANGED <<task, finished, added>>
        /\ pc' = [pc EXCEPT ![w] = "got"]
        /\ pc \in [Actor -> WorkerLabels \cup ClientLabels \cup OwnerLabels]
        /\ \A a \in Actor : pc[a] = "pop" => a = w
    BY <1>2 DEF GetPop, Goto, Inv, PopsHead, OneInside, Critical, Labelled
  <2>2. Len(tasks_') = n - 1 /\ \A k \in 1 .. n - 1 : tasks_'[k] = tasks_[k + 1]
    BY <1>2, <2>1, TailFacts DEF GetPop, Inv
  <2>3. HeldOnce'
    BY <1>0, <2>1, <2>2 DEF HeldOnce, Apart
  <2>4. QueuedOnce'
    BY <1>0, <2>1, <2>2 DEF QueuedOnce
  <2>5. DoneOnce'
    BY <1>0, <2>1, <2>2 DEF DoneOnce
  <2>6. Apart'
    BY <1>0, <2>1, <2>2 DEF Apart, QueuedOnce
  <2>7. PopsHead'
    BY <1>0, <2>1, <2>2 DEF PopsHead
  <2>8. AddedSomewhere'
    <3>1. ASSUME NEW x \in Task, NEW k \in 1 .. n, tasks_[k] = x PROVE Somewhere(x)'
      <4>1. CASE k = 1
        BY <4>1, <3>1, <2>1 DEF Somewhere
      <4>2. CASE k # 1
        <5>1. k - 1 \in 1 .. n - 1 /\ tasks_'[k - 1] = x
          BY <4>2, <3>1, <2>2, <1>0
        <5> QED
          BY <5>1, <2>2 DEF Somewhere
      <4> QED
        BY <4>1, <4>2
    <3>2. ASSUME NEW x \in Task, NEW k \in 1 .. n - 1, tasks_'[k] = x PROVE Somewhere(x)
      <4>1. k + 1 \in 1 .. n /\ tasks_[k + 1] = x
        BY <3>2, <2>2, <1>0
      <4> QED
        BY <4>1 DEF Somewhere
    <3>3. \A x \in Task : Somewhere(x) <=> Somewhere(x)'
      BY <3>1, <3>2, <2>1, <2>2 DEF Somewhere
    <3> QED
      BY <3>3, <2>1, <1>0 DEF AddedSomewhere
  <2> QED
    BY <2>3, <2>4, <2>5, <2>6, <2>7, <2>8
<1>3. ASSUME NEW w \in Worker, RunTask(w) PROVE OnePlace'
  <2>1. /\ task[w] # None /\ pc[w] = "run" /\ pc' = [pc EXCEPT ![w] = "loop"]
        /\ task' = [task EXCEPT ![w] = None] /\ UNCHANGED <<tasks_, added>>
        /\ finished' = finished \cup {[by |-> w, task |-> task[w]]}
        /\ pc \in [Actor -> WorkerLabels \cup ClientLabels \cup OwnerLabels]
        /\ \A a \in Actor : pc[a] = "pop" => a \in Worker
    BY <1>3 DEF RunTask, Goto, Inv, HoldsTask, Labelled, ClientLabels, OwnerLabels
  <2>2. \A a \in Actor : task[a] = task[w] => a = w
    BY <2>1, <1>0 DEF HeldOnce, Apart, PopsHead
  <2>3. HeldOnce'
    BY <1>0, <2>1, <2>2 DEF HeldOnce
  <2>4. QueuedOnce'
    BY <1>0, <2>1, <2>2 DEF QueuedOnce
  <2>5. DoneOnce'
    BY <1>0, <2>1, <2>2 DEF DoneOnce, Apart
  <2>6. Apart'
    BY <1>0, <2>1, <2>2 DEF Apart
  <2>7. PopsHead'
    BY <1>0, <2>1, <2>2 DEF PopsHead
  <2>8. AddedSomewhere'
    <3>1. ASSUME NEW x \in Task, NEW a \in Actor, task[a] = x PROVE Somewhere(x)'
      <4>1. CASE a = w
        <5>1. [by |-> w, task |-> task[w]] \in finished'
          BY <2>1
        <5> QED
          BY <5>1, <4>1, <3>1 DEF Somewhere
      <4>2. CASE a # w
        BY <4>2, <3>1, <2>1, <1>0 DEF Somewhere
      <4> QED
        BY <4>1, <4>2
    <3>2. ASSUME NEW x \in Task, NEW r \in finished', r.task = x PROVE Somewhere(x)
      BY <3>2, <2>1 DEF Somewhere
    <3>3. ASSUME NEW x \in Task, NEW a \in Actor, task'[a] = x PROVE Somewhere(x)
      BY <3>3, <2>1, <1>0 DEF Somewhere
    <3>4. \A x \in Task : Somewhere(x) <=> Somewhere(x)'
      BY <3>1, <3>2, <3>3, <2>1 DEF Somewhere
    <3> QED
      BY <3>4, <2>1, <1>0 DEF AddedSomewhere
  <2> QED
    BY <2>3, <2>4, <2>5, <2>6, <2>7, <2>8
<1>4. ASSUME NEW c \in Client, AddTask(c) PROVE OnePlace'
  <2>1. PICK x \in Task \ added : task' = [task EXCEPT ![c] = x] /\ added' = added \cup {x}
    BY <1>4 DEF AddTask
  <2>2. /\ task[c] = None /\ pc[c] = "idle" /\ pc' = [pc EXCEPT ![c] = "lock"]
        /\ UNCHANGED <<tasks_, finished>>
        /\ pc \in [Actor -> WorkerLabels \cup ClientLabels \cup OwnerLabels]
    BY <1>4 DEF AddTask, Goto, Inv, HoldsTask, Labelled
  <2>3. ~ Somewhere(x)
    BY <1>0, <2>1 DEF AddedSomewhere
  <2>4. HeldOnce'
    BY <1>0, <2>1, <2>2, <2>3 DEF HeldOnce, Somewhere
  <2>5. QueuedOnce'
    BY <1>0, <2>1, <2>2, <2>3 DEF QueuedOnce, Somewhere
  <2>6. DoneOnce'
    BY <1>0, <2>1, <2>2, <2>3 DEF DoneOnce, Somewhere
  <2>7. Apart'
    BY <1>0, <2>1, <2>2, <2>3 DEF Apart, Somewhere
  <2>8. PopsHead'
    BY <1>0, <2>1, <2>2, <2>3 DEF PopsHead, Somewhere
  <2>9. AddedSomewhere'
    BY <1>0, <2>1, <2>2, <2>3 DEF AddedSomewhere, Somewhere
  <2> QED
    BY <2>4, <2>5, <2>6, <2>7, <2>8, <2>9
<1>5. ASSUME NEW c \in Client, Put(c) PROVE OnePlace'
  <2>1. /\ task[c] \in Task /\ pc[c] = "put" /\ pc' = [pc EXCEPT ![c] = "put2"]
        /\ task' = [task EXCEPT ![c] = None] /\ UNCHANGED <<finished, added>>
        /\ pc \in [Actor -> WorkerLabels \cup ClientLabels \cup OwnerLabels]
        /\ \A a \in Actor : pc[a] # "pop"
    BY <1>5, <1>0 DEF Put, Goto, Inv, HoldsTask, Labelled, OneInside, Critical
  <2>2. /\ Len(tasks_') = n + 1 /\ tasks_'[n + 1] = task[c]
        /\ \A k \in 1 .. n : tasks_'[k] = tasks_[k]
    BY <1>5, <2>1, AppendFacts DEF Put, Inv
  <2>3. HeldOnce'
    BY <1>0, <2>1, <2>2 DEF HeldOnce
  <2>4. QueuedOnce'
    BY <1>0, <2>1, <2>2 DEF QueuedOnce, Apart
  <2>5. DoneOnce'
    BY <1>0, <2>1, <2>2 DEF DoneOnce
  <2>6. Apart'
    BY <1>0, <2>1, <2>2 DEF Apart, HeldOnce
  <2>7. PopsHead'
    BY <1>0, <2>1, <2>2 DEF PopsHead
  <2>8. AddedSomewhere'
    BY <1>0, <2>1, <2>2 DEF AddedSomewhere, Somewhere
  <2> QED
    BY <2>3, <2>4, <2>5, <2>6, <2>7, <2>8
<1>6. ASSUME NEW w \in Worker, RunLoop(w) PROVE OnePlace'
  BY <1>6, PlaceFrame DEF Inv, TypeOK, Labelled, Goto, RunLoop
<1>7. ASSUME NEW w \in Worker, Lock(w, "front") PROVE OnePlace'
  BY <1>7, PlaceFrame DEF Inv, TypeOK, Labelled, Goto, Lock, CanLock
<1>8. ASSUME NEW w \in Worker, FrontNone(w) PROVE OnePlace'
  BY <1>8, PlaceFrame DEF Inv, TypeOK, Labelled, Goto, FrontNone
<1>9. ASSUME NEW w \in Worker, GetDone(w) PROVE OnePlace'
  BY <1>9, PlaceFrame DEF Inv, TypeOK, Labelled, Goto, GetDone, Unlock
<1>10. ASSUME NEW w \in Worker, DispatchTask(w) PROVE OnePlace'
  BY <1>10, PlaceFrame DEF Inv, TypeOK, Labelled, Goto, DispatchTask
<1>11. ASSUME NEW w \in Worker, DispatchNone(w) PROVE OnePlace'
  BY <1>11, PlaceFrame DEF Inv, TypeOK, Labelled, Goto, DispatchNone
<1>12. ASSUME NEW w \in Worker, Awake(w) PROVE OnePlace'
  BY <1>12, PlaceFrame DEF Inv, TypeOK, Labelled, Goto, Awake
<1>13. ASSUME NEW w \in Worker, Canceled(w) PROVE OnePlace'
  BY <1>13, PlaceFrame DEF Inv, TypeOK, Labelled, Goto, Canceled
<1>14. ASSUME NEW w \in Worker, Tail1(w) PROVE OnePlace'
  BY <1>14, PlaceFrame DEF Inv, TypeOK, Labelled, Goto, Tail1
<1>15. ASSUME NEW w \in Worker, Tail2(w) PROVE OnePlace'
  BY <1>15, PlaceFrame DEF Inv, TypeOK, Labelled, Goto, Tail2
<1>16. ASSUME NEW c \in Client, Lock(c, "put") PROVE OnePlace'
  BY <1>16, PlaceFrame DEF Inv, TypeOK, Labelled, Goto, Lock, CanLock
<1>17. ASSUME NEW c \in Client, PutDone(c) PROVE OnePlace'
  BY <1>17, PlaceFrame DEF Inv, TypeOK, Labelled, Goto, PutDone, Unlock
<1>18. ASSUME WorkerStarts PROVE OnePlace'
  BY <1>18, PlaceFrame DEF Inv, TypeOK, Labelled, Goto, WorkerStarts
<1>19. ASSUME WorkerFails PROVE OnePlace'
  BY <1>19, PlaceFrame DEF Inv, TypeOK, Labelled, Goto, WorkerFails
<1>20. ASSUME InitDone PROVE OnePlace'
  BY <1>20, PlaceFrame DEF Inv, TypeOK, Labelled, Goto, InitDone, MoreWorkers
<1>21. ASSUME Lock(Owner, "size") PROVE OnePlace'
  BY <1>21, PlaceFrame DEF Inv, TypeOK, Labelled, Goto, Lock, CanLock
<1>22. ASSUME SizeAgain PROVE OnePlace'
  BY <1>22, PlaceFrame DEF Inv, TypeOK, Labelled, Goto, SizeAgain
<1>23. ASSUME SizeJoin PROVE OnePlace'
  BY <1>23, PlaceFrame DEF Inv, TypeOK, Labelled, Goto, SizeJoin
<1>24. ASSUME SizeBack PROVE OnePlace'
  BY <1>24, PlaceFrame DEF Inv, TypeOK, Labelled, Goto, SizeBack
<1>25. ASSUME Disable PROVE OnePlace'
  BY <1>25, PlaceFrame DEF Inv, TypeOK, Labelled, Goto, Disable
<1>26. ASSUME JoinOver PROVE OnePlace'
  BY <1>26, PlaceFrame DEF Inv, TypeOK, Labelled, Goto, JoinOver
<1>27. ASSUME JoinHandle PROVE OnePlace'
  BY <1>27, PlaceFrame DEF Inv, TypeOK, Labelled, Goto, JoinHandle
<1>28. ASSUME JoinSkip PROVE OnePlace'
  BY <1>28, PlaceFrame DEF Inv, TypeOK, Labelled, Goto, JoinSkip
<1>29. ASSUME JoinWait PROVE OnePlace'
  BY <1>29, PlaceFrame DEF Inv, TypeOK, Labelled, Goto, JoinWait, StillRunning
<1>30. ASSUME InitPool PROVE OnePlace'
  BY <1>30, PlaceFrame DEF Inv, TypeOK, Labelled, Goto, InitPool
<1>31. ASSUME NEW f \in {"WaitTaskComplete", "WaitAndJoin"}, OwnerCalls(f, "lock")
       PROVE OnePlace'
  BY <1>31, PlaceFrame DEF Inv, TypeOK, Labelled, Goto, OwnerCalls
<1>32. ASSUME NEW f \in {"Exit", "JoinwWithStop"}, OwnerCalls(f, "disable")
       PROVE OnePlace'
  BY <1>32, PlaceFrame DEF Inv, TypeOK, Labelled, Goto, OwnerCalls
<1>33. ASSUME Terminate PROVE OnePlace'
  BY <1>33, PlaceFrame DEF Inv, TypeOK, Labelled, Goto, Terminate
<1> QED
  BY NextCases, <1>1, <1>2, <1>3, <1>4, <1>5, <1>6, <1>7, <1>8, <1>9, <1>10, <1>11, <1>12, <1>13, <1>14, <1>15, <1>16, <1>17,
     <1>18, <1>19, <1>20, <1>21, <1>22, <1>23, <1>24, <1>25, <1>26, <1>27, <1>28, <1>29, <1>30, <1>31, <1>32, <1>33

(* What WaitAndJoin waits for. *)
LEMMA StepAsked ==
  ASSUME Inv, Next
  PROVE  AskedFor'
<1> USE TaskPoolAssumption DEF Inv, TypeOK, Labelled, Actor, Worker, WorkerLabels, ClientLabels, OwnerLabels, HoldsTask, OwnerPlace, AskedFor, ownerVars, Goto
<1>1. ASSUME NEW w \in Worker, RunLoop(w) PROVE AskedFor'
  BY <1>1 DEF RunLoop
<1>2. ASSUME NEW w \in Worker, Lock(w, "front") PROVE AskedFor'
  BY <1>2 DEF Lock, CanLock
<1>3. ASSUME NEW w \in Worker, FrontTask(w) PROVE AskedFor'
  <2>1. /\ \A v \in Worker : task[v] # None => task'[v] = task[v]
        /\ UNCHANGED <<tasks_, finished, op, asked>> /\ pc'[Owner] = pc[Owner]
        /\ asked \subseteq Task
    BY <1>3 DEF FrontTask
  <2>2. ASSUME NEW x \in asked, NEW v \in Worker, task[v] = x
        PROVE  \E u \in Worker : task'[u] = x
    <3>1. task[v] # None
      BY <2>1, <2>2
    <3> QED
      BY <2>1, <2>2, <3>1
  <2> HIDE DEF Inv, TypeOK, Labelled, OwnerPlace, HoldsTask
  <2> QED
    BY <2>1, <2>2 DEF Inv
<1>4. ASSUME NEW w \in Worker, FrontNone(w) PROVE AskedFor'
  BY <1>4 DEF FrontNone
<1>5. ASSUME NEW w \in Worker, GetPop(w) PROVE AskedFor'
  <2>1. /\ Len(tasks_) > 0 /\ task[w] = tasks_[1] /\ UNCHANGED <<task, finished, op, asked>>
        /\ pc'[Owner] = pc[Owner]
    BY <1>5 DEF GetPop, OnePlace, PopsHead
  <2>2. /\ Len(tasks_') = Len(tasks_) - 1
        /\ \A k \in 1 .. Len(tasks_) - 1 : tasks_'[k] = tasks_[k + 1]
    BY <1>5, <2>1, TailFacts DEF GetPop
  <2>3. ASSUME NEW k \in 1 .. Len(tasks_), tasks_[k] # tasks_[1]
        PROVE  \E m \in 1 .. Len(tasks_') : tasks_'[m] = tasks_[k]
    <3>1. k - 1 \in 1 .. Len(tasks_) - 1 /\ tasks_'[k - 1] = tasks_[k]
      BY <2>3, <2>2, QueueFacts
    <3> QED
      BY <3>1, <2>2
  <2>4. ASSUME NEW x, \E k \in 1 .. Len(tasks_) : tasks_[k] = x
        PROVE  \/ \E v \in Worker : task'[v] = x
               \/ \E m \in 1 .. Len(tasks_') : tasks_'[m] = x
    BY <2>1, <2>3, <2>4
  <2> HIDE DEF Inv, TypeOK, Labelled, OwnerPlace, HoldsTask
  <2> QED
    BY <2>1, <2>4 DEF Inv
<1>6. ASSUME NEW w \in Worker, GetDone(w) PROVE AskedFor'
  BY <1>6 DEF GetDone, Unlock
<1>7. ASSUME NEW w \in Worker, DispatchTask(w) PROVE AskedFor'
  BY <1>7 DEF DispatchTask
<1>8. ASSUME NEW w \in Worker, DispatchNone(w) PROVE AskedFor'
  BY <1>8 DEF DispatchNone
<1>9. ASSUME NEW w \in Worker, RunTask(w) PROVE AskedFor'
  <2>1. [by |-> w, task |-> task[w]] \in finished' /\ finished \subseteq finished'
    BY <1>9 DEF RunTask
  <2>2. /\ UNCHANGED <<tasks_, op, asked>> /\ pc'[Owner] = pc[Owner]
        /\ \A v \in Worker : task[v] # task[w] => task'[v] = task[v]
    BY <1>9 DEF RunTask
  <2> HIDE DEF Inv, TypeOK, Labelled, OwnerPlace, HoldsTask, AskedFor
  <2>3. ASSUME NEW v \in Worker, NEW x, task[v] = x
        PROVE  \/ \E u \in Worker : task'[u] = x
               \/ \E r \in finished' : r.task = x
    <3>1. CASE x = task[w]
      BY <2>1, <3>1
    <3>2. CASE x # task[w]
      BY <2>2, <2>3, <3>2
    <3> QED
      BY <3>1, <3>2
  <2> QED
    BY <2>1, <2>2, <2>3 DEF Inv, AskedFor
<1>10. ASSUME NEW w \in Worker, Awake(w) PROVE AskedFor'
  BY <1>10 DEF Awake
<1>11. ASSUME NEW w \in Worker, Canceled(w) PROVE AskedFor'
  BY <1>11 DEF Canceled
<1>12. ASSUME NEW w \in Worker, Tail1(w) PROVE AskedFor'
  BY <1>12 DEF Tail1
<1>13. ASSUME NEW w \in Worker, Tail2(w) PROVE AskedFor'
  BY <1>13 DEF Tail2
<1>14. ASSUME NEW c \in Client, AddTask(c) PROVE AskedFor'
  BY <1>14 DEF AddTask
<1>15. ASSUME NEW c \in Client, Lock(c, "put") PROVE AskedFor'
  BY <1>15 DEF Lock, CanLock
<1>16. ASSUME NEW c \in Client, Put(c) PROVE AskedFor'
  <2>1. /\ \A v \in Worker : task'[v] = task[v]
        /\ UNCHANGED <<finished, op, asked>> /\ pc'[Owner] = pc[Owner] /\ task[c] \in Task
    <3>1. UNCHANGED <<finished, op, asked>>
      BY <1>16 DEF Put
    <3>2. task[c] \in Task
      BY <1>16 DEF Put
    <3>3. \A v \in Worker : task'[v] = task[v]
      BY <1>16 DEF Put
    <3>4. pc'[Owner] = pc[Owner]
      BY <1>16 DEF Put
    <3> QED
      BY <3>1, <3>2, <3>3, <3>4
  <2>2. /\ Len(tasks_') = Len(tasks_) + 1 /\ Len(tasks_) \in Nat
        /\ \A k \in 1 .. Len(tasks_) : tasks_'[k] = tasks_[k]
    BY <1>16, <2>1, AppendFacts, QueueFacts DEF Put
  <2>3. ASSUME NEW x, \E k \in 1 .. Len(tasks_) : tasks_[k] = x
        PROVE  \E k \in 1 .. Len(tasks_') : tasks_'[k] = x
    BY <2>2, <2>3
  <2> HIDE DEF Inv, TypeOK, Labelled, OwnerPlace, HoldsTask
  <2> QED
    BY <2>1, <2>3 DEF Inv
<1>17. ASSUME NEW c \in Client, PutDone(c) PROVE AskedFor'
  BY <1>17 DEF PutDone, Unlock
<1>18. ASSUME WorkerStarts PROVE AskedFor'
  BY <1>18 DEF WorkerStarts
<1>19. ASSUME WorkerFails PROVE AskedFor'
  BY <1>19 DEF WorkerFails
<1>20. ASSUME InitDone PROVE AskedFor'
  BY <1>20 DEF InitDone, MoreWorkers
<1>21. ASSUME Lock(Owner, "size") PROVE AskedFor'
  BY <1>21 DEF Lock, CanLock
<1>22. ASSUME SizeAgain PROVE AskedFor'
  BY <1>22 DEF SizeAgain
<1>23. ASSUME SizeJoin PROVE AskedFor'
  BY <1>23 DEF SizeJoin
<1>24. ASSUME SizeBack PROVE AskedFor'
  BY <1>24 DEF SizeBack
<1>25. ASSUME Disable PROVE AskedFor'
  BY <1>25 DEF Disable
<1>26. ASSUME JoinOver PROVE AskedFor'
  BY <1>26 DEF JoinOver
<1>27. ASSUME JoinHandle PROVE AskedFor'
  BY <1>27 DEF JoinHandle
<1>28. ASSUME JoinSkip PROVE AskedFor'
  BY <1>28 DEF JoinSkip
<1>29. ASSUME JoinWait PROVE AskedFor'
  BY <1>29 DEF JoinWait, StillRunning
<1>30. ASSUME InitPool PROVE AskedFor'
  BY <1>30 DEF InitPool
<1>31. ASSUME NEW f \in {"WaitTaskComplete", "WaitAndJoin"}, OwnerCalls(f, "lock")
       PROVE AskedFor'
  BY <1>31 DEF OwnerCalls
<1>32. ASSUME NEW f \in {"Exit", "JoinwWithStop"}, OwnerCalls(f, "disable")
       PROVE AskedFor'
  BY <1>32 DEF OwnerCalls
<1>33. ASSUME Terminate PROVE AskedFor'
  BY <1>33 DEF Terminate
<1> HIDE DEF Inv, TypeOK, Labelled, Actor, Worker, WorkerLabels, ClientLabels, OwnerLabels, HoldsTask, OwnerPlace, AskedFor, ownerVars, Goto
<1> QED
  BY NextCases, <1>1, <1>2, <1>3, <1>4, <1>5, <1>6, <1>7, <1>8, <1>9, <1>10, <1>11, <1>12, <1>13, <1>14, <1>15, <1>16, <1>17,
     <1>18, <1>19, <1>20, <1>21, <1>22, <1>23, <1>24, <1>25, <1>26, <1>27, <1>28, <1>29, <1>30, <1>31, <1>32, <1>33


-----------------------------------------------------------------------------
LEMMA InitInv == Init => Inv
<1> SUFFICES ASSUME Init PROVE Inv
  OBVIOUS
<1> USE TaskPoolAssumption DEF Init
<1>0. << >> \in Seq(Task) /\ 1 \in 1 .. threadNum + 1 /\ 0 \in 0 .. threadNum
  BY EmptySeq
<1>1. TypeOK
  BY <1>0 DEF TypeOK
<1>2. Labelled /\ OneInside /\ HoldsTask
  BY DEF Labelled, OneInside, HoldsTask, Critical, WorkerLabels, ClientLabels, OwnerLabels, Actor
<1>3. OnePlace
  BY EmptySeq DEF OnePlace, HeldOnce, QueuedOnce, DoneOnce, Apart, PopsHead, AddedSomewhere,
                  Somewhere, Actor
<1>4. OwnerPlace /\ Threads /\ AskedFor
  BY DEF OwnerPlace, Threads, AskedFor, Ending, Outside, Actor, Worker
<1> QED
  BY <1>1, <1>2, <1>3, <1>4 DEF Inv

LEMMA NextInv == Inv /\ [Next]_vars => Inv'
<1> SUFFICES ASSUME Inv, [Next]_vars PROVE Inv'
  OBVIOUS
<1>1. CASE Next
  BY <1>1, StepType, StepLabels, StepInside, StepHolds, StepPlace, StepOwner, StepThreads,
     StepAsked DEF Inv
<1>2. CASE UNCHANGED vars
  BY <1>2 DEF vars, threadVars, ownerVars, Inv, TypeOK, Labelled, OneInside, HoldsTask,
              OnePlace, HeldOnce, QueuedOnce, DoneOnce, Apart, PopsHead, AddedSomewhere,
              Somewhere, OwnerPlace, Threads, AskedFor
<1> QED
  BY <1>1, <1>2

LEMMA Invariance == Spec => []Inv
BY InitInv, NextInv, PTL DEF Spec

(* A set with exactly one element has cardinality 1.                        *)
LEMMA OneElement ==
  ASSUME NEW S, NEW e \in S, \A f \in S : f = e
  PROVE  Cardinality(S) = 1
<1>1. S = {e}
  OBVIOUS
<1> QED
  BY <1>1, FS_Singleton

LEMMA PlaceCounts ==
  ASSUME Inv, NEW x \in added
  PROVE  Cardinality(Holders(x)) + Cardinality({k \in DOMAIN tasks_ : tasks_[k] = x})
              + Cardinality({r \in finished : r.task = x}) = 1
<1> DEFINE Q == {k \in DOMAIN tasks_ : tasks_[k] = x}
           F == {r \in finished : r.task = x}
<1> SUFFICES Cardinality(Holders(x)) + Cardinality(Q) + Cardinality(F) = 1
  OBVIOUS
<1>1. x \in Task /\ x # None /\ DOMAIN tasks_ = 1 .. Len(tasks_)
  BY TaskPoolAssumption, LenProperties DEF Inv, TypeOK
<1>2. HeldOnce /\ QueuedOnce /\ DoneOnce /\ Apart /\ PopsHead /\ Somewhere(x)
  BY <1>1 DEF Inv, OnePlace, AddedSomewhere
<1>3. \A S : S = {} => Cardinality(S) = 0
  BY FS_EmptySet
<1>4. CASE \E a \in Actor : task[a] = x /\ pc[a] # "pop"
  <2>1. PICK a \in Actor : task[a] = x /\ pc[a] # "pop"
    BY <1>4
  <2>2. a \in Holders(x) /\ \A b \in Holders(x) : b = a
    BY <2>1, <1>1, <1>2 DEF Holders, HeldOnce
  <2>3. Cardinality(Holders(x)) = 1
    BY <2>2, OneElement
  <2>4. Q = {} /\ F = {}
    BY <2>1, <1>1, <1>2 DEF Apart
  <2>5. Cardinality(Q) = 0 /\ Cardinality(F) = 0
    BY <2>4, <1>3
  <2> HIDE DEF Q, F
  <2> QED
    BY <2>3, <2>5
<1>5. CASE \E k \in 1 .. Len(tasks_) : tasks_[k] = x
  <2>1. PICK k \in 1 .. Len(tasks_) : tasks_[k] = x
    BY <1>5
  <2>2. k \in Q /\ \A l \in Q : l = k
    BY <2>1, <1>1, <1>2 DEF QueuedOnce
  <2>3. Cardinality(Q) = 1
    BY <2>2, OneElement
  <2>4. Holders(x) = {} /\ F = {}
    BY <2>1, <1>1, <1>2 DEF Apart, Holders
  <2>5. Cardinality(Holders(x)) = 0 /\ Cardinality(F) = 0
    BY <2>4, <1>3
  <2> HIDE DEF Q, F
  <2> QED
    BY <2>3, <2>5
<1>6. CASE \E r \in finished : r.task = x
  <2>1. PICK r \in finished : r.task = x
    BY <1>6
  <2>2. r \in F /\ \A s \in F : s = r
    BY <2>1, <1>2 DEF DoneOnce
  <2>3. Cardinality(F) = 1
    BY <2>2, OneElement
  <2>4. Holders(x) = {} /\ Q = {}
    BY <2>1, <1>1, <1>2 DEF Apart, Holders
  <2>5. Cardinality(Holders(x)) = 0 /\ Cardinality(Q) = 0
    BY <2>4, <1>3
  <2> HIDE DEF Q, F
  <2> QED
    BY <2>3, <2>5
<1>7. ASSUME NEW a \in Actor, task[a] = x, pc[a] = "pop"
      PROVE  \E k \in 1 .. Len(tasks_) : tasks_[k] = x
  <2>1. a \in Worker
    BY <1>7 DEF Inv, Labelled, Actor, ClientLabels, OwnerLabels
  <2>2. Len(tasks_) > 0 /\ x = tasks_[1] /\ Len(tasks_) \in Nat
    BY <2>1, <1>7, <1>2, QueueFacts DEF PopsHead, Inv
  <2> QED
    BY <2>2
<1> QED
  BY <1>2, <1>4, <1>5, <1>6, <1>7 DEF Somewhere

LEMMA InvTaken == Inv => TakenOnce
<1> SUFFICES ASSUME Inv PROVE TakenOnce
  OBVIOUS
<1>1. \A w \in Worker : pc[w] = "pop" => tasks_ # << >> /\ task[w] = Head(tasks_)
  BY QueueFacts DEF Inv, OnePlace, PopsHead
<1> QED
  BY <1>1, PlaceCounts DEF TakenOnce

LEMMA InvAbandoned == Inv => NoTaskAbandoned
BY DEF Inv, Threads, Outside, NoTaskAbandoned

LEMMA InvJoined == Inv => JoinedIsFinished
<1> SUFFICES ASSUME Inv, pc[Owner] = "over", op = "WaitAndJoin", NEW x \in asked
             PROVE  \E r \in finished : r.task = x
  BY DEF JoinedIsFinished
<1>1. x # None
  BY TaskPoolAssumption DEF Inv, TypeOK
<1>2. \A w \in Worker : task[w] = None
  BY DEF Inv, HoldsTask, OwnerPlace, Threads, Outside, Enders
<1> QED
  BY <1>1, <1>2 DEF Inv, AskedFor

-----------------------------------------------------------------------------
(***************************************************************************)
(* ThreadPool, its Thread objects and its queue keep their types: the loop *)
(* variable of Exit and JoinwWithStop stays within threads_ and no worker  *)
(* runs a null task.                                                       *)
(***************************************************************************)
THEOREM TaskPoolTypes == Spec => []TypeOK
<1>1. Inv => TypeOK
  BY DEF Inv
<1> QED
  BY <1>1, Invariance, PTL

(***************************************************************************)
(* ThreadTaskQueue neither loses nor duplicates a task: whatever the       *)
(* workers and clients do at once, a task is in exactly one place.         *)
(***************************************************************************)
THEOREM TasksTakenOnce == Spec => []TakenOnce
BY Invariance, InvTaken, PTL

(***************************************************************************)
(* ThreadPool::WaitAndJoin returns only when every task it was asked to    *)
(* wait for has been run to its end.                                       *)
(***************************************************************************)
THEOREM WaitAndJoinWaits == Spec => []JoinedIsFinished
BY Invariance, InvJoined, PTL

(***************************************************************************)
(* When Exit, JoinwWithStop or WaitAndJoin returns, no worker of           *)
(* ThreadPool::Run is inside a task or takes another one.                  *)
(***************************************************************************)
THEOREM EndLeavesNoTask == Spec => []NoTaskAbandoned
BY Invariance, InvAbandoned, PTL

=============================================================================

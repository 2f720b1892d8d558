------------------------------ MODULE RWLock ------------------------------
(***************************************************************************)
(* utils::ReadWriteLock (src/utils/thread.cpp): a recursive mutex,         *)
(* _enterLock, and the counter _reads.  A reader passes through the mutex, *)
(* increments the counter and leaves the mutex; a writer keeps the mutex   *)
(* and spins until the counter is 0.  Reading ends with a decrement        *)
(* outside the mutex.                                                      *)
(*                                                                         *)
(* A thread may hold several locks (guards): the code has nothing against  *)
(* ReadLock in ReadLock, ReadLock in WriteLock, WriteLock in WriteLock or  *)
(* WriteLock in ReadLock, so the model has all four.                       *)
(***************************************************************************)
EXTENDS Naturals, FiniteSets

CONSTANTS RwThread,  \* the threads that share the lock
          RwNobody,  \* the owner of a free mutex
          RwMaxHold  \* bound: read guards, and write guards, of one thread

ASSUME RwAssumption ==
    /\ RwNobody \notin RwThread
    /\ RwMaxHold \in Nat

VARIABLES rwReads,   \* _reads
          rwOwner,   \* the thread that owns _enterLock
          rwDepth,   \* how often it has locked it (PTHREAD_MUTEX_RECURSIVE)
          rwPc,      \* where each thread is: "idle" outside the four functions
          rwRead,    \* the read guards: <<thread, k>> is a counted reader
          rwWrite    \* how many write guards each thread has

rwVars == <<rwReads, rwOwner, rwDepth, rwPc, rwRead, rwWrite>>

RwGuards == RwThread \X (1 .. RwMaxHold)

\* The read guards of a thread.
RwReadOf(t) == {g \in rwRead : g[1] = t}

RwTypeOK ==
    /\ rwReads \in Nat
    /\ rwOwner \in RwThread \cup {RwNobody}
    /\ rwDepth \in Nat
    /\ rwPc \in [RwThread -> {"idle", "read_lock", "read_inc", "read_exit",
                              "write_lock", "write_wait"}]
    /\ rwRead \subseteq RwGuards
    /\ rwWrite \in [RwThread -> Nat]

RwInit ==
    /\ rwReads = 0
    /\ rwOwner = RwNobody
    /\ rwDepth = 0
    /\ rwPc = [t \in RwThread |-> "idle"]
    /\ rwRead = {}
    /\ rwWrite = [t \in RwThread |-> 0]

-----------------------------------------------------------------------------
\* One step of a thread from one program point to the next.
RwGo(t, from, to) ==
    /\ rwPc[t] = from
    /\ rwPc' = [rwPc EXCEPT ![t] = to]

\* Mutex::Lock: the owner may lock again.
RwMutexLock(t) ==
    /\ rwOwner \in {RwNobody, t}
    /\ rwOwner' = t
    /\ rwDepth' = rwDepth + 1

\* Mutex::Unlock.
RwMutexUnlock(t) ==
    /\ rwOwner = t
    /\ rwDepth' = rwDepth - 1
    /\ rwOwner' = IF rwDepth = 1 THEN RwNobody ELSE t

-----------------------------------------------------------------------------
(* ReadLock and ReadUnlock *)

ReadLock(t) ==
    /\ Cardinality(RwReadOf(t)) < RwMaxHold
    /\ RwGo(t, "idle", "read_lock")
    /\ UNCHANGED <<rwReads, rwOwner, rwDepth, rwRead, rwWrite>>

ReadEnter(t) ==
    /\ RwGo(t, "read_lock", "read_inc")
    /\ RwMutexLock(t)
    /\ UNCHANGED <<rwReads, rwRead, rwWrite>>

ReadInc(t) ==
    /\ RwGo(t, "read_inc", "read_exit")
    /\ rwReads' = rwReads + 1
    /\ \E g \in RwGuards \ rwRead :
          g[1] = t /\ rwRead' = rwRead \cup {g}
    /\ UNCHANGED <<rwOwner, rwDepth, rwWrite>>

ReadExit(t) ==
    /\ RwGo(t, "read_exit", "idle")
    /\ RwMutexUnlock(t)
    /\ UNCHANGED <<rwReads, rwRead, rwWrite>>

\* Mutants: leaving is counted twice; leaving is not counted.
ReadUnlock_Twice(t) ==
    /\ rwPc[t] = "idle"
    /\ \E g \in RwReadOf(t) : rwRead' = rwRead \ {g}
    /\ rwReads' = rwReads - 2
    /\ UNCHANGED <<rwOwner, rwDepth, rwPc, rwWrite>>
ReadUnlock_NoDec(t) ==
    /\ rwPc[t] = "idle"
    /\ \E g \in RwReadOf(t) : rwRead' = rwRead \ {g}
    /\ UNCHANGED <<rwReads, rwOwner, rwDepth, rwPc, rwWrite>>

ReadUnlock(t) ==
    /\ rwPc[t] = "idle"
    /\ \E g \in RwReadOf(t) : rwRead' = rwRead \ {g}
    /\ rwReads' = rwReads - 1
    /\ UNCHANGED <<rwOwner, rwDepth, rwPc, rwWrite>>

-----------------------------------------------------------------------------
(* WriteLock and WriteUnlock *)

WriteLock(t) ==
    /\ rwWrite[t] < RwMaxHold
    /\ RwGo(t, "idle", "write_lock")
    /\ UNCHANGED <<rwReads, rwOwner, rwDepth, rwRead, rwWrite>>

WriteEnter(t) ==
    /\ RwGo(t, "write_lock", "write_wait")
    /\ RwMutexLock(t)
    /\ UNCHANGED <<rwReads, rwRead, rwWrite>>

\* Mutant: the loop lets the writer pass beside one reader.
NoReads_One == rwReads <= 1

\* The condition that ends the loop in WriteLock.
NoReads == ~ (rwReads > 0)

WriteIn(t) ==
    /\ RwGo(t, "write_wait", "idle")
    /\ NoReads
    /\ rwWrite' = [rwWrite EXCEPT ![t] = @ + 1]
    /\ UNCHANGED <<rwReads, rwOwner, rwDepth, rwRead>>

WriteUnlock(t) ==
    /\ rwPc[t] = "idle"
    /\ rwWrite[t] > 0
    /\ rwWrite' = [rwWrite EXCEPT ![t] = @ - 1]
    /\ RwMutexUnlock(t)
    /\ UNCHANGED <<rwReads, rwPc, rwRead>>

-----------------------------------------------------------------------------
\* What a thread does once it has called a function.
RwInside(t) == ReadEnter(t) \/ ReadInc(t) \/ ReadExit(t) \/ WriteEnter(t) \/ WriteIn(t)

\* What its guards do when they go out of scope.
RwLeave(t) == ReadUnlock(t) \/ WriteUnlock(t)

RwNext == \E t \in RwThread : ReadLock(t) \/ WriteLock(t) \/ RwInside(t) \/ RwLeave(t)

RwSpec == RwInit /\ [][RwNext]_rwVars

-----------------------------------------------------------------------------
(***************************************************************************)
(* RwExclusive: while a thread has the write lock no other thread has the  *)
(* read or the write lock, nested guards included.                         *)
(***************************************************************************)
RwExclusive ==
    \A t \in RwThread : rwWrite[t] > 0 =>
        \A u \in RwThread \ {t} : rwWrite[u] = 0 /\ RwReadOf(u) = {}

\* A thread that has a read guard is inside another lock call.
RwNested ==
    \E t \in RwThread : RwReadOf(t) # {} /\ rwPc[t] # "idle"

(***************************************************************************)
(* RwWriterEnters: a writer that has passed _enterLock gets the lock, new  *)
(* readers cannot keep it out.  The only thing that can is a thread that   *)
(* waits for the lock, for ever, while it has a read guard.                *)
(***************************************************************************)
RwWriterEnters ==
    \/ \A t \in RwThread : rwPc[t] = "write_wait" ~> rwPc[t] = "idle"
    \/ <>[]RwNested

=============================================================================

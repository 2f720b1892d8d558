---------------------------- MODULE RWLockProofs ----------------------------
(***************************************************************************)
(* Proofs about RWLock, for any set of threads and any depth of nesting.   *)
(***************************************************************************)
EXTENDS RWLock, FiniteSetTheorems, TLAPS

-----------------------------------------------------------------------------
(***************************************************************************)
(* The inductive invariant.  RwExclusive alone is not inductive: that a    *)
(* writer is alone rests on what the mutex counts and on what _reads       *)
(* counts.                                                                 *)
(***************************************************************************)

\* Where a thread is between Mutex::Lock and the end of the function.
RwInMutex == {"read_inc", "read_exit", "write_wait"}

\* How often a thread has locked _enterLock: once for every write guard, and
\* once more inside a function.
RwHolds(t) == rwWrite[t] + (IF rwPc[t] \in RwInMutex THEN 1 ELSE 0)

RwMutexInv ==
    /\ rwOwner = RwNobody => rwDepth = 0
    /\ \A t \in RwThread : IF t = rwOwner THEN rwDepth = RwHolds(t) /\ rwDepth > 0
                                          ELSE RwHolds(t) = 0

RwCountInv == IsFiniteSet(rwRead) /\ rwReads = Cardinality(rwRead)

RwWriterInv == \A t \in RwThread : rwWrite[t] > 0 => \A g \in rwRead : g[1] = t

RwInv == RwTypeOK /\ RwMutexInv /\ RwCountInv /\ RwWriterInv

LEMMA RwInitInv == RwInit => RwInv
BY RwAssumption, FS_EmptySet
   DEF RwInit, RwInv, RwTypeOK, RwMutexInv, RwCountInv, RwWriterInv, RwHolds, RwInMutex

\* A lock or an unlock of the mutex is accounted to the thread that does it.
LEMMA RwStepMutex ==
  ASSUME RwInv, NEW t \in RwThread, ReadLock(t) \/ WriteLock(t) \/ RwInside(t) \/ RwLeave(t)
  PROVE  RwTypeOK' /\ RwMutexInv'
<1> USE RwAssumption DEF RwInv, RwTypeOK, RwMutexInv, RwHolds, RwInMutex, RwGo
<1>1. CASE ReadLock(t)
  BY <1>1 DEF ReadLock
<1>2. CASE WriteLock(t)
  BY <1>2 DEF WriteLock
<1>3. CASE ReadEnter(t)
  BY <1>3 DEF ReadEnter, RwMutexLock
<1>4. CASE ReadInc(t)
  BY <1>4 DEF ReadInc
<1>5. CASE ReadExit(t)
  BY <1>5 DEF ReadExit, RwMutexUnlock
<1>6. CASE ReadUnlock(t)
  <2>1. PICK g \in rwRead : rwRead' = rwRead \ {g}
    BY <1>6 DEF ReadUnlock, RwReadOf
  <2>2. rwReads > 0 /\ rwReads' = rwReads - 1
    BY <2>1, <1>6, FS_EmptySet, FS_CardinalityType DEF ReadUnlock, RwCountInv
  <2> QED
    BY <2>1, <2>2, <1>6 DEF ReadUnlock
<1>7. CASE WriteEnter(t)
  BY <1>7 DEF WriteEnter, RwMutexLock
<1>8. CASE WriteIn(t)
  BY <1>8 DEF WriteIn
<1>9. CASE WriteUnlock(t)
  BY <1>9 DEF WriteUnlock, RwMutexUnlock
<1> QED
  BY <1>1, <1>2, <1>3, <1>4, <1>5, <1>6, <1>7, <1>8, <1>9 DEF RwInside, RwLeave

\* _reads counts the read guards.
LEMMA RwStepCount ==
  ASSUME RwInv, NEW t \in RwThread, ReadLock(t) \/ WriteLock(t) \/ RwInside(t) \/ RwLeave(t)
  PROVE  RwCountInv'
<1> USE DEF RwInv, RwCountInv, RwTypeOK
<1>1. CASE ReadInc(t)
  <2>1. PICK g \in RwGuards \ rwRead : rwRead' = rwRead \cup {g}
    BY <1>1 DEF ReadInc
  <2> QED
    BY <2>1, <1>1, FS_AddElement DEF ReadInc
<1>2. CASE ReadUnlock(t)
  <2>1. PICK g \in rwRead : rwRead' = rwRead \ {g}
    BY <1>2 DEF ReadUnlock, RwReadOf
  <2> QED
    BY <2>1, <1>2, FS_RemoveElement DEF ReadUnlock
<1>3. CASE ~ ReadInc(t) /\ ~ ReadUnlock(t)
  <2>1. UNCHANGED <<rwReads, rwRead>>
    BY <1>3 DEF RwInside, RwLeave, ReadLock, WriteLock, ReadEnter, ReadExit, WriteEnter,
                WriteIn, WriteUnlock
  <2> QED
    BY <2>1
<1> QED
  BY <1>1, <1>2, <1>3

\* A thread gets a read guard inside the mutex, a write guard without readers.
LEMMA RwStepWriter ==
  ASSUME RwInv, NEW t \in RwThread, ReadLock(t) \/ WriteLock(t) \/ RwInside(t) \/ RwLeave(t)
  PROVE  RwWriterInv'
<1> USE DEF RwInv, RwWriterInv, RwTypeOK
<1>1. CASE ReadInc(t)
  <2>1. PICK g \in RwGuards \ rwRead : g[1] = t /\ rwRead' = rwRead \cup {g}
    BY <1>1 DEF ReadInc
  <2>2. ASSUME NEW u \in RwThread, rwWrite[u] > 0 PROVE u = t
    BY <2>2, <1>1 DEF ReadInc, RwGo, RwMutexInv, RwHolds, RwInMutex
  <2> QED
    BY <2>1, <2>2, <1>1 DEF ReadInc
<1>2. CASE ReadUnlock(t)
  BY <1>2 DEF ReadUnlock, RwReadOf
<1>3. CASE WriteIn(t)
  <2>1. rwRead = {}
    BY <1>3, FS_EmptySet DEF WriteIn, NoReads, RwCountInv
  <2> QED
    BY <2>1, <1>3 DEF WriteIn
<1>4. CASE WriteUnlock(t)
  BY <1>4 DEF WriteUnlock
<1>5. CASE ~ ReadInc(t) /\ ~ ReadUnlock(t) /\ ~ WriteIn(t) /\ ~ WriteUnlock(t)
  <2>1. UNCHANGED <<rwWrite, rwRead>>
    BY <1>5 DEF RwInside, RwLeave, ReadLock, WriteLock, ReadEnter, ReadExit, WriteEnter
  <2> QED
    BY <2>1
<1> QED
  BY <1>1, <1>2, <1>3, <1>4, <1>5

LEMMA RwNextInv == RwInv /\ [RwNext]_rwVars => RwInv'
<1> SUFFICES ASSUME RwInv, [RwNext]_rwVars PROVE RwInv'
  OBVIOUS
<1>1. CASE RwNext
  BY <1>1, RwStepMutex, RwStepCount, RwStepWriter DEF RwNext, RwInv
<1>2. CASE UNCHANGED rwVars
  BY <1>2 DEF rwVars, RwInv, RwTypeOK, RwMutexInv, RwHolds, RwCountInv, RwWriterInv
<1> QED
  BY <1>1, <1>2

LEMMA RwInvExclusive == RwInv => RwExclusive
BY DEF RwInv, RwTypeOK, RwMutexInv, RwHolds, RwWriterInv, RwExclusive, RwReadOf

(***************************************************************************)
(* ReadWriteLock::ReadLock and WriteLock keep the variables of the lock in *)
(* their types; in particular _reads never falls below 0, although         *)
(* ReadUnlock decrements it outside the mutex.                             *)
(***************************************************************************)
THEOREM RwTypeCorrect == RwSpec => []RwTypeOK
<1>1. RwInv => RwTypeOK
  BY DEF RwInv
<1> QED
  BY <1>1, RwInitInv, RwNextInv, PTL DEF RwSpec

(***************************************************************************)
(* ReadWriteLock excludes: while a thread has a write guard no other       *)
(* thread has any guard, for any number of threads, however read and write *)
(* guards are nested.                                                      *)
(***************************************************************************)
THEOREM RwMutualExclusion == RwSpec => []RwExclusive
BY RwInitInv, RwNextInv, RwInvExclusive, PTL DEF RwSpec

=============================================================================

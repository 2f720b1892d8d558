------------------------------- MODULE Timer -------------------------------
(***************************************************************************)
(* utils::Timer (src/utils/timer.cpp).  Any thread, callbacks included,    *)
(* adds and deletes timers under lock_.  One thread calls OnTimer: every   *)
(* check_interval_ it moves what has expired to exeute_list_, under the    *)
(* lock, and then calls the callbacks one by one, outside the lock.        *)
(*                                                                         *)
(* The clock (Timestamp::HighResolution) does not run backwards, and       *)
(* OnTimer gets a reading of it that may be old when it is used.           *)
(***************************************************************************)
EXTENDS Naturals, Sequences, FiniteSets, SequencesExt

CONSTANTS TmInterval,  \* check_interval_
          TmDelay,     \* the delays (micro_time) that AddTimer is called with
          TmMaxTimers, \* bound: timers added
          TmMaxTime    \* bound: the clock

ASSUME TmAssumption ==
    /\ TmInterval \in Nat /\ TmMaxTimers \in Nat /\ TmMaxTime \in Nat
    /\ TmDelay \subseteq Nat

VARIABLES tmNow,     \* the clock
          tmEle,     \* time_ele_: the pending elements, [id, expire]
          tmList,    \* exeute_list_
          tmIter,    \* the next position of exeute_list_ to execute
          tmNextId,  \* global_element_id_
          tmLast,    \* last_check_time_
          tmCur,     \* the argument of the running OnTimer
          tmPc,      \* "idle" or "run": whether OnTimer runs
          tmFired,   \* history: the elements executed, in order
          tmDeleted  \* history: the elements DelTimer answered true for

tmVars == <<tmNow, tmEle, tmList, tmIter, tmNextId, tmLast, tmCur, tmPc,
            tmFired, tmDeleted>>

TmElement == [id : Nat \ {0}, expire : Nat]

TmTypeOK ==
    /\ tmNow \in Nat /\ tmLast \in Nat /\ tmCur \in Nat
    /\ tmEle \subseteq TmElement /\ tmDeleted \subseteq TmElement
    /\ tmList \in Seq(TmElement) /\ tmFired \in Seq(TmElement)
    /\ tmIter \in 1 .. (Len(tmList) + 1)
    /\ tmNextId \in 1 .. (TmMaxTimers + 1)
    /\ tmPc \in {"idle", "run"}

TmInit ==
    /\ tmNow = 0 /\ tmLast = 0 /\ tmCur = 0
    /\ tmEle = {} /\ tmDeleted = {}
    /\ tmList = <<>> /\ tmFired = <<>>
    /\ tmIter = 1 /\ tmNextId = 1
    /\ tmPc = "idle"

\* The order of the multimap: by key, equal keys as they were inserted.
TmBefore(a, b) ==
    a.expire < b.expire \/ (a.expire = b.expire /\ a.id < b.id)

-----------------------------------------------------------------------------
TmTick ==
    /\ tmNow < TmMaxTime
    /\ tmNow' = tmNow + 1
    /\ UNCHANGED <<tmEle, tmList, tmIter, tmNextId, tmLast, tmCur, tmPc,
                   tmFired, tmDeleted>>

\* The clock is read under the lock.
AddTimer(d) ==
    /\ tmNextId <= TmMaxTimers
    /\ tmEle' = tmEle \cup {[id |-> tmNextId, expire |-> tmNow + d]}
    /\ tmNextId' = tmNextId + 1
    /\ UNCHANGED <<tmNow, tmList, tmIter, tmLast, tmCur, tmPc, tmFired, tmDeleted>>

\* DelTimer that finds the element; otherwise it changes nothing.
DelTimer(e) ==
    /\ e \in tmEle
    /\ tmEle' = tmEle \ {e}
    /\ tmDeleted' = tmDeleted \cup {e}
    /\ UNCHANGED <<tmNow, tmList, tmIter, tmNextId, tmLast, tmCur, tmPc, tmFired>>

Expired(c) == {e \in tmEle : e.expire <= c}

\* The sequences that a loop over the elements of S in their order gives.
TmSorted(S) ==
    {s \in SetToSeqs(S) : \A i, j \in DOMAIN s : i < j => TmBefore(s[i], s[j])}

\* Mutant: the expired elements are executed as they were added.
CheckExpire_ById(c) ==
    /\ tmEle' = tmEle \ Expired(c)
    /\ \E s \in SetToSeqs(Expired(c)) :
          (\A i, j \in DOMAIN s : i < j => s[i].id < s[j].id) /\ tmList' = tmList \o s

CheckExpire(c) ==
    /\ tmEle' = tmEle \ Expired(c)
    /\ \E s \in TmSorted(Expired(c)) : tmList' = tmList \o s

\* OnTimer when a check is due; otherwise it changes nothing.
OnTimer(c) ==
    /\ tmPc = "idle"
    /\ c > tmLast + TmInterval
    /\ CheckExpire(c)
    /\ tmIter' = 1
    /\ tmCur' = c
    /\ tmPc' = "run"
    /\ UNCHANGED <<tmNow, tmNextId, tmLast, tmFired, tmDeleted>>

Excute ==
    /\ tmPc = "run"
    /\ tmIter <= Len(tmList)
    /\ tmFired' = Append(tmFired, tmList[tmIter])
    /\ tmIter' = tmIter + 1
    /\ UNCHANGED <<tmNow, tmEle, tmList, tmNextId, tmLast, tmCur, tmPc, tmDeleted>>

\* Mutants: the list is kept; the loop ends after its first element.
Clear_Kept == tmIter > Len(tmList) /\ tmIter' = 1 /\ UNCHANGED tmList
Clear_First ==
    /\ tmIter > IF tmList = <<>> THEN 0 ELSE 1
    /\ tmList' = <<>> /\ tmIter' = 1

Clear == tmIter > Len(tmList) /\ tmList' = <<>> /\ tmIter' = 1

OnTimerEnd ==
    /\ tmPc = "run"
    /\ Clear
    /\ tmLast' = tmCur
    /\ tmPc' = "idle"
    /\ UNCHANGED <<tmNow, tmEle, tmNextId, tmCur, tmFired, tmDeleted>>

-----------------------------------------------------------------------------
TmCheck == \E c \in tmLast .. tmNow : OnTimer(c)

TmRun == Excute \/ OnTimerEnd

TmNext ==
    \/ TmTick
    \/ \E d \in TmDelay : AddTimer(d)
    \/ \E e \in tmEle : DelTimer(e)
    \/ TmCheck
    \/ TmRun

TmSpec == TmInit /\ [][TmNext]_tmVars

-----------------------------------------------------------------------------
\* The part of exeute_list_ that is still to be executed.
TmToRun == SubSeq(tmList, tmIter, Len(tmList))

(***************************************************************************)
(* TmOnce: a timer that was added is pending, moved to exeute_list_,       *)
(* executed or deleted, and only one of these: it is executed once at      *)
(* most, and never when DelTimer answered true, whatever callbacks and     *)
(* other threads add and delete while the list is executed.                *)
(***************************************************************************)
TmOnce ==
    LET out == tmFired \o TmToRun
        ids(S) == {e.id : e \in S}
    IN  /\ \A i, j \in DOMAIN out : i # j => out[i].id # out[j].id
        /\ \A e \in tmEle, f \in tmDeleted : e.id # f.id
        /\ ids(tmEle \cup tmDeleted) \cap ids(ToSet(out)) = {}
        /\ 1 .. (tmNextId - 1) = ids(tmEle \cup tmDeleted \cup ToSet(out))

(***************************************************************************)
(* TmInOrder: timers are executed in the order of their times, those with  *)
(* the same time as they were added, also across several OnTimer and when  *)
(* timers are added while a list is executed, and none before its time.    *)
(***************************************************************************)
TmInOrder ==
    \A i, j \in DOMAIN tmFired :
        /\ i < j => TmBefore(tmFired[i], tmFired[j])
        /\ tmFired[i].expire <= tmNow

\* A timer whose time and the interval after it lie within the clock's bound.
TmDue(i) == \E e \in tmEle : e.id = i /\ e.expire + TmInterval < TmMaxTime

TmGone(i) ==
    \E e \in tmDeleted \cup ToSet(tmFired) : e.id = i

(***************************************************************************)
(* TmFires: when OnTimer is called again and again and callbacks return,   *)
(* every timer that is not deleted is executed.                            *)
(***************************************************************************)
TmFires == \A i \in 1 .. TmMaxTimers : TmDue(i) ~> TmGone(i)

=============================================================================

----------------------------- MODULE SdkProofs -----------------------------
(***************************************************************************)
(* Proofs about the SDK's smaller components: its log file (SdkLog),       *)
(* EChain_IssueAssets (IssueAssets), its start-up with the configuration   *)
(* file (Session) and its paged queries (QueryPages).                      *)
(***************************************************************************)
EXTENDS SdkLog, IssueAssets, Session, QueryPages, FiniteSetTheorems, FunctionTheorems,
        SequenceTheorems, WellFoundedInduction, TLAPS

-----------------------------------------------------------------------------
(***************************************************************************)
(* The log file.  logmutex protects the three places that use logfile, so  *)
(* that logfile is NULL for another thread only after an fopen that        *)
(* failed.  No file is emptied with lines in it because a name is used     *)
(* again only within its minute, and a file does not fill up in a minute.  *)
(***************************************************************************)

(* Who is inside logmutex. *)
LgOwns(t) == lgPc[t] \in {"print", "check", "open"} => lgMutex = t

(* logfile is the file that logfile_name names, or NULL. *)
LgFileNamed == lgFile \in {lgName, LgNull} /\ lgName <= lgNow

(* NULL is seen by no other thread, unless an fopen failed. *)
LgNullHidden == lgFile = LgNull => lgFailed \/ \E t \in LgThread : lgPc[t] = "open"

(* The files have the lines of their minute and of later ones. *)
LgLines ==
    /\ lgSize[lgNow] <= lgMinute
    /\ lgSize[lgNow] > 0 => lgName = lgNow
    /\ \A n \in LgTime : n > lgNow => lgSize[n] = 0

(* The file that is about to be opened is new. *)
LgOpensNew(t) == lgPc[t] = "open" => lgSize[lgName] = 0 /\ lgFile = LgNull

LgInv ==
    /\ LgTypeOK
    /\ \A t \in LgThread : LgOwns(t) /\ LgOpensNew(t)
    /\ LgFileNamed /\ LgNullHidden /\ LgLines
    /\ LgFilesIntact

LEMMA LgInitInv == LgInit => LgInv
<1> SUFFICES ASSUME LgInit PROVE LgInv
  OBVIOUS
<1>1. LgTypeOK
  <2>1. LgStart \in LgTime /\ 0 \in LgTime /\ 0 \in 0 .. LgRate
    BY LgAssumption DEF LgTime
  <2>2. lgNow \in LgTime /\ lgName \in LgTime /\ lgCur \in LgTime /\ lgCmp \in LgTime
    BY <2>1 DEF LgInit
  <2>3. lgFile \in LgTime \cup {LgNull} /\ lgMutex \in LgThread \cup {LgNobody}
    BY <2>1 DEF LgInit
  <2>4. /\ lgPc \in [LgThread -> {"idle", "lock", "print", "time", "test", "set",
                                  "change", "check", "open"}]
        /\ lgSize \in [LgTime -> Nat] /\ lgMinute \in 0 .. LgRate
    BY <2>1 DEF LgInit
  <2>5. lgFailed \in BOOLEAN /\ lgBad \in BOOLEAN /\ lgLost \in BOOLEAN
    BY DEF LgInit
  <2> QED
    BY <2>2, <2>3, <2>4, <2>5 DEF LgTypeOK
<1>2. \A t \in LgThread : LgOwns(t) /\ LgOpensNew(t)
  <2>1. \A t \in LgThread : lgPc[t] = "idle"
    BY Zenon DEF LgInit
  <2> QED
    BY <2>1, Zenon DEF LgOwns, LgOpensNew
<1>3. LgFileNamed /\ LgNullHidden /\ LgLines /\ LgFilesIntact
  BY LgAssumption DEF LgInit, LgFileNamed, LgNullHidden, LgLines, LgFilesIntact, LgTime
<1> QED
  BY <1>1, <1>2, <1>3 DEF LgInv

(* A step of t that changes no file: it may take or release the mutex.      *)
LEMMA LgLeavesFiles ==
    ASSUME LgInv, LgTypeOK', NEW t \in LgThread, NEW l,
           lgPc' = [lgPc EXCEPT ![t] = l], l # "open", lgPc[t] # "open",
           \/ l \in {"print", "check"} /\ lgMutex = LgNobody /\ lgMutex' = t
           \/ l \notin {"print", "check"} /\ lgMutex' = lgMutex
           \/ l \notin {"print", "check"} /\ lgMutex = t,
           UNCHANGED <<lgNow, lgFile, lgName, lgSize, lgMinute, lgFailed, lgBad, lgLost>>
    PROVE  LgInv'
<1>1. lgPc'[t] = l /\ \A u \in LgThread \ {t} : lgPc'[u] = lgPc[u]
  BY DEF LgInv, LgTypeOK
<1>2. \A u \in LgThread : LgOwns(u)' /\ LgOpensNew(u)'
  BY <1>1, LgAssumption DEF LgInv, LgOwns, LgOpensNew
<1>3. LgNullHidden'
  BY <1>1 DEF LgInv, LgNullHidden
<1> QED
  BY <1>2, <1>3 DEF LgInv, LgFileNamed, LgLines, LgFilesIntact

LEMMA LgTypeStep == LgTypeOK /\ [LgNext]_lgVars => LgTypeOK'
<1> SUFFICES ASSUME LgTypeOK, [LgNext]_lgVars PROVE LgTypeOK'
  OBVIOUS
<1> USE DEF LgTypeOK, LgTime
<1>1. CASE LgTick
  BY <1>1, LgAssumption DEF LgTick
<1>2. ASSUME NEW t \in LgThread, NBDLogPrint(t) PROVE LgTypeOK'
  BY <1>2, LgAssumption DEF NBDLogPrint, LgGo
<1>3. ASSUME NEW t \in LgThread,
             NBDLog(t) \/ NBDLogLock(t) \/ NBDLogTime(t) \/ NBDLogTest(t) \/ NBDLogSet(t)
      PROVE  LgTypeOK'
  BY <1>3 DEF NBDLog, NBDLogLock, NBDLogTime, NBDLogTest, NBDLogSet, LgGo, LgKeep
<1>4. ASSUME NEW t \in LgThread, ChangeLogFile(t) PROVE LgTypeOK'
  <2>1. CASE ChangeLogFileLock(t) \/ ChangeLogFileKeep(t)
    BY <2>1 DEF ChangeLogFileLock, ChangeLogFileKeep, LgGo, LgKeep
  <2>2. CASE ChangeLogFileClose(t)
    BY <2>2 DEF ChangeLogFileClose, LgGo
  <2>3. CASE ChangeLogFileOpen(t)
    <3>1. lgFile' \in LgTime \cup {LgNull} /\ lgSize' \in [LgTime -> Nat]
      BY <2>3 DEF ChangeLogFileOpen
    <3>2. lgFailed' \in BOOLEAN /\ lgLost' \in BOOLEAN
      BY <2>3 DEF ChangeLogFileOpen
    <3> QED
      BY <2>3, <3>1, <3>2 DEF ChangeLogFileOpen, LgGo
  <2> QED
    BY <1>4, <2>1, <2>2, <2>3 DEF ChangeLogFile
<1>5. CASE UNCHANGED lgVars
  BY <1>5 DEF lgVars
<1> QED
  BY <1>1, <1>2, <1>3, <1>4, <1>5 DEF LgNext

LEMMA LgInductive == LgInv /\ [LgNext]_lgVars => LgInv'
<1> SUFFICES ASSUME LgInv, [LgNext]_lgVars PROVE LgInv'
  OBVIOUS
<1>0. LgTypeOK /\ LgTypeOK'
  BY LgTypeStep DEF LgInv
<1>1. CASE LgTick
  <2>1. lgNow \in Nat /\ lgNow' = lgNow + 1 /\ lgNow' \in LgTime /\ lgMinute' = 0
    BY <1>0, <1>1, LgAssumption DEF LgTick, LgTypeOK, LgTime
  <2>2. UNCHANGED <<lgMutex, lgPc, lgFile, lgName, lgSize, lgFailed, lgBad, lgLost>>
    BY <1>1 DEF LgTick
  <2>3. LgLines'
    BY <1>0, <2>1, <2>2 DEF LgInv, LgLines, LgTypeOK, LgTime
  <2>4. LgFileNamed'
    BY <1>0, <2>1, <2>2 DEF LgInv, LgFileNamed, LgTypeOK, LgTime
  <2> QED
    BY <1>0, <2>2, <2>3, <2>4 DEF LgInv, LgOwns, LgOpensNew, LgNullHidden, LgFilesIntact
<1>2. ASSUME NEW t \in LgThread, NBDLogPrint(t) PROVE LgInv'
  <2>1. /\ lgPc[t] = "print" /\ lgPc'[t] = "time"
        /\ \A u \in LgThread \ {t} : lgPc'[u] = lgPc[u]
    BY <1>0, <1>2 DEF NBDLogPrint, LgGo, LgTypeOK
  <2>2. \A u \in LgThread : lgPc[u] \notin {"print", "check", "open"} \/ u = t
    BY <2>1 DEF LgInv, LgOwns
  <2>3. \A u \in LgThread : LgOwns(u)' /\ LgOpensNew(u)'
    BY <2>1, <2>2 DEF LgOwns, LgOpensNew
  <2>4. LgNullHidden' /\ LgFilesIntact'
    BY <1>2, <2>1, <2>2 DEF NBDLogPrint, LgInv, LgNullHidden, LgFilesIntact
  <2>5. LgFileNamed'
    BY <1>2 DEF NBDLogPrint, LgInv, LgFileNamed
  <2>6. CASE lgFile = LgNull
    <3>1. LgLines'
      BY <1>0, <1>2, <2>6, LgAssumption DEF NBDLogPrint, LgInv, LgLines, LgTypeOK, LgTime
    <3> QED
      BY <1>0, <2>3, <2>4, <2>5, <3>1 DEF LgInv
  <2>7. CASE lgFile # LgNull
    <3>1. lgFile = lgName /\ lgName <= lgNow /\ lgName \in LgTime /\ lgNow \in LgTime
      BY <1>0, <2>7 DEF LgInv, LgFileNamed, LgTypeOK
    <3>2. lgSize' = [lgSize EXCEPT ![lgName] = @ + 1] /\ lgMinute' = lgMinute + 1
          /\ UNCHANGED <<lgNow, lgName>>
      BY <1>2, <2>7, <3>1 DEF NBDLogPrint
    <3>3. /\ lgSize \in [LgTime -> Nat] /\ LgTime \subseteq Nat /\ lgMinute \in Nat
          /\ lgSize[lgNow] <= lgMinute
          /\ \A m \in LgTime : m > lgNow => lgSize[m] = 0
      <4>1. lgSize \in [LgTime -> Nat] /\ lgMinute \in 0 .. LgRate
        BY <1>0 DEF LgInv, LgTypeOK
      <4>2. LgTime \subseteq Nat /\ 0 .. LgRate \subseteq Nat
        BY LgAssumption DEF LgTime
      <4>3. lgSize[lgNow] <= lgMinute /\ \A m \in LgTime : m > lgNow => lgSize[m] = 0
        BY <1>0 DEF LgInv, LgLines
      <4> QED
        BY <4>1, <4>2, <4>3
    <3>4. /\ lgSize'[lgName] = lgSize[lgName] + 1
          /\ \A m \in LgTime : m # lgName => lgSize'[m] = lgSize[m]
      BY <3>1, <3>2, <3>3
    <3>5. lgSize'[lgNow] <= lgMinute + 1
      BY <3>1, <3>3, <3>4
    <3>6. lgSize'[lgNow] > 0 => lgName = lgNow
      <4>1. lgSize[lgNow] > 0 => lgName = lgNow
        BY <1>0 DEF LgInv, LgLines
      <4> QED
        BY <4>1, <3>1, <3>4
    <3>7. \A m \in LgTime : m > lgNow => lgSize'[m] = 0
      BY <3>1, <3>3, <3>4
    <3>8. LgLines'
      BY <3>2, <3>5, <3>6, <3>7 DEF LgLines
    <3> QED
      BY <1>0, <2>3, <2>4, <2>5, <3>8 DEF LgInv
  <2> QED
    BY <2>6, <2>7
<1>3. ASSUME NEW t \in LgThread,
             NBDLog(t) \/ NBDLogLock(t) \/ NBDLogTime(t) \/ NBDLogTest(t) \/ NBDLogSet(t)
      PROVE  LgInv'
  BY <1>0, <1>3, LgLeavesFiles
     DEF NBDLog, NBDLogLock, NBDLogTime, NBDLogTest, NBDLogSet, LgGo, LgKeep
<1>4. ASSUME NEW t \in LgThread, ChangeLogFile(t) PROVE LgInv'
  <2>1. CASE ChangeLogFileLock(t)
    <3>1. lgPc' = [lgPc EXCEPT ![t] = "check"] /\ lgPc[t] = "change" /\ lgMutex = LgNobody
          /\ lgMutex' = t
          /\ UNCHANGED <<lgNow, lgFile, lgName, lgSize, lgMinute, lgFailed, lgBad, lgLost>>
      BY <2>1 DEF ChangeLogFileLock, LgGo, LgKeep
    <3> QED
      BY <1>0, <3>1, LgLeavesFiles
  <2>2. CASE ChangeLogFileKeep(t)
    <3>1. lgMutex = t
      BY <2>2 DEF ChangeLogFileKeep, LgGo, LgInv, LgOwns
    <3>2. lgPc' = [lgPc EXCEPT ![t] = "idle"] /\ lgPc[t] = "check"
          /\ UNCHANGED <<lgNow, lgFile, lgName, lgSize, lgMinute, lgFailed, lgBad, lgLost>>
      BY <2>2 DEF ChangeLogFileKeep, LgGo, LgKeep
    <3> QED
      BY <1>0, <3>1, <3>2, LgLeavesFiles
  <2>3. CASE ChangeLogFileClose(t)
    <3>1. /\ lgPc[t] = "check" /\ lgPc'[t] = "open" /\ lgMutex = t /\ lgMutex' = t
          /\ \A u \in LgThread \ {t} : lgPc'[u] = lgPc[u]
      BY <1>0, <2>3 DEF ChangeLogFileClose, LgGo, LgTypeOK, LgInv, LgOwns
    <3>2. \A u \in LgThread \ {t} : lgPc[u] \notin {"print", "check", "open"}
      BY <3>1 DEF LgInv, LgOwns
    <3>3. lgSize[lgNow] = 0
      <4>1. lgName # lgNow \/ lgSize[lgNow] >= LgFull
        BY <2>3 DEF ChangeLogFileClose, NeedsChange, IsFull
      <4>2. lgSize[lgNow] \in Nat /\ lgMinute \in Nat /\ lgMinute <= LgRate
        <5>1. lgSize \in [LgTime -> Nat] /\ lgNow \in LgTime /\ lgMinute \in 0 .. LgRate
          BY <1>0, Zenon DEF LgTypeOK
        <5> QED
          BY <5>1, LgAssumption
      <4>3. lgSize[lgNow] <= lgMinute /\ (lgSize[lgNow] > 0 => lgName = lgNow)
        BY DEF LgInv, LgLines
      <4> QED
        BY <4>1, <4>2, <4>3, LgAssumption
    <3>4. /\ lgFile' = LgNull /\ lgName' = lgNow /\ lgBad' = (lgBad \/ lgFile = LgNull)
          /\ UNCHANGED <<lgNow, lgSize, lgMinute, lgFailed, lgLost>>
      BY <2>3 DEF ChangeLogFileClose
    <3>5. \A u \in LgThread : LgOwns(u)' /\ LgOpensNew(u)'
      BY <3>1, <3>2, <3>3, <3>4 DEF LgOwns, LgOpensNew
    <3>6. LgNullHidden' /\ LgFilesIntact'
      BY <3>1, <3>2, <3>4 DEF LgInv, LgNullHidden, LgFilesIntact
    <3>7. LgFileNamed' /\ LgLines'
      BY <1>0, <3>3, <3>4 DEF LgInv, LgFileNamed, LgLines, LgTypeOK, LgTime
    <3> QED
      BY <1>0, <3>5, <3>6, <3>7 DEF LgInv
  <2>4. CASE ChangeLogFileOpen(t)
    <3>1. /\ lgPc[t] = "open" /\ lgPc'[t] = "idle" /\ lgMutex = t
          /\ \A u \in LgThread \ {t} : lgPc'[u] = lgPc[u]
      BY <1>0, <2>4 DEF ChangeLogFileOpen, LgGo, LgTypeOK, LgInv, LgOwns
    <3>2. \A u \in LgThread \ {t} : lgPc[u] \notin {"print", "check", "open"}
      BY <3>1 DEF LgInv, LgOwns
    <3>3. lgSize[lgName] = 0 /\ lgName \in LgTime
      BY <1>0, <3>1 DEF LgInv, LgOpensNew, LgTypeOK
    <3>4. lgSize' = lgSize /\ UNCHANGED <<lgNow, lgName, lgMinute, lgBad>>
      BY <1>0, <2>4, <3>3 DEF ChangeLogFileOpen, LgTypeOK
    <3>5. /\ \/ lgFile' = lgName /\ UNCHANGED lgFailed
             \/ UNCHANGED lgFile /\ lgFailed' = TRUE
          /\ lgLost' = lgLost
      BY <1>0, <2>4, <3>3 DEF ChangeLogFileOpen, LgTypeOK
    <3>6. \A u \in LgThread : LgOwns(u)' /\ LgOpensNew(u)'
      BY <3>1, <3>2 DEF LgOwns, LgOpensNew
    <3>7. LgNullHidden' /\ LgFilesIntact'
      BY <3>3, <3>4, <3>5, LgAssumption DEF LgInv, LgNullHidden, LgFilesIntact, LgTime
    <3>8. LgFileNamed' /\ LgLines'
      BY <3>4, <3>5 DEF LgInv, LgFileNamed, LgLines
    <3> QED
      BY <1>0, <3>6, <3>7, <3>8 DEF LgInv
  <2> QED
    BY <1>4, <2>1, <2>2, <2>3, <2>4 DEF ChangeLogFile
<1>5. CASE UNCHANGED lgVars
  BY <1>0, <1>5
     DEF lgVars, LgInv, LgOwns, LgOpensNew, LgFileNamed, LgNullHidden, LgLines, LgFilesIntact
<1> QED
  BY <1>1, <1>2, <1>3, <1>4, <1>5 DEF LgNext

(***************************************************************************)
(* Every variable of NBDLog and ChangeLogFile keeps its type.              *)
(***************************************************************************)
THEOREM LgTypeCorrect == LgSpec => []LgTypeOK
<1>1. LgInit => LgTypeOK
  BY LgInitInv DEF LgInv
<1> QED
  BY <1>1, LgTypeStep, PTL DEF LgSpec

(***************************************************************************)
(* For any number of logging threads: no thread prints to or closes a file *)
(* that is not open unless an fopen failed before, and no file is emptied  *)
(* that has lines, although NBDLog decides about ChangeLogFile without the *)
(* lock.                                                                   *)
(***************************************************************************)
THEOREM LogFilesStayIntact == LgSpec => []LgFilesIntact
<1>1. LgInv => LgFilesIntact
  BY DEF LgInv
<1> QED
  BY <1>1, LgInitInv, LgInductive, PTL DEF LgSpec

(***************************************************************************)
(* The day of the log.  Whenever the log's day is behind that of           *)
(* g_cmpTime, a thread has set g_cmpTime and not looked at the day yet.    *)
(***************************************************************************)
LgChanging == \E t \in LgThread : lgPc[t] \in {"change", "check"}

LgDayInv ==
    /\ LgTypeOK
    /\ lgCur <= lgNow /\ lgCmp <= lgNow
    /\ LgDayOf(lgName) >= LgDayOf(lgCmp) \/ LgChanging

LEMMA DayOfMonotone ==
    ASSUME NEW m \in Nat, NEW n \in Nat, m <= n
    PROVE  LgDayOf(m) \in Nat /\ LgDayOf(n) \in Nat /\ LgDayOf(m) <= LgDayOf(n)
<1> DEFINE D == LgDay
           p == m \div D
           q == n \div D
<1>1. D \in Nat \ {0}
  BY LgAssumption
<1>2. p \in Nat /\ p * D <= m
  BY <1>1
<1>3. q \in Nat /\ n < (q + 1) * D
  BY <1>1
<1>4. p * D < (q + 1) * D
  BY <1>1, <1>2, <1>3
<1>5. p < q + 1
  <2>1. SUFFICES ASSUME p >= q + 1 PROVE FALSE
    BY <1>2, <1>3
  <2>2. p * D >= (q + 1) * D
    BY <1>1, <1>2, <1>3, <2>1
  <2> QED
    BY <1>1, <1>2, <1>3, <1>4, <2>2
<1> QED
  BY <1>2, <1>3, <1>5 DEF LgDayOf

LEMMA LgDayStep == LgDayInv /\ [LgNext]_lgVars => LgDayInv'
<1> SUFFICES ASSUME LgDayInv, [LgNext]_lgVars PROVE LgDayInv'
  OBVIOUS
<1>0. LgTypeOK /\ LgTypeOK'
  BY LgTypeStep DEF LgDayInv
<1>1. lgNow \in Nat /\ lgNow' \in Nat /\ lgCmp \in Nat /\ lgCur \in Nat /\ lgName \in Nat
  BY <1>0 DEF LgTypeOK, LgTime
<1>2. CASE LgTick
  BY <1>0, <1>1, <1>2 DEF LgTick, LgDayInv, LgChanging, LgDayOf
<1>3. ASSUME NEW t \in LgThread, NEW l, lgPc' = [lgPc EXCEPT ![t] = l],
             lgPc[t] \in {"change", "check"} => l \in {"change", "check"},
             UNCHANGED <<lgNow, lgName, lgCmp>>, lgCur' = lgCur \/ lgCur' = lgNow
      PROVE  LgDayInv'
  <2>1. lgPc'[t] = l /\ \A u \in LgThread \ {t} : lgPc'[u] = lgPc[u]
    BY <1>0, <1>3 DEF LgTypeOK
  <2>2. LgChanging => LgChanging'
    BY <1>3, <2>1 DEF LgChanging
  <2> QED
    BY <1>0, <1>1, <1>3, <2>2 DEF LgDayInv, LgDayOf
<1>4. ASSUME NEW t \in LgThread, NBDLogPrint(t) PROVE LgDayInv'
  BY <1>3, <1>4 DEF NBDLogPrint, LgGo
<1>5. ASSUME NEW t \in LgThread, NBDLog(t) \/ NBDLogLock(t) \/ NBDLogTime(t) \/ NBDLogTest(t)
      PROVE  LgDayInv'
  BY <1>3, <1>5 DEF NBDLog, NBDLogLock, NBDLogTime, NBDLogTest, LgGo, LgKeep
<1>6. ASSUME NEW t \in LgThread, NBDLogSet(t) PROVE LgDayInv'
  <2>1. lgPc'[t] = "change"
    BY <1>0, <1>6 DEF NBDLogSet, LgGo, LgTypeOK
  <2>2. LgChanging'
    BY <2>1 DEF LgChanging
  <2> QED
    BY <1>0, <1>6, <2>2 DEF NBDLogSet, LgKeep, LgDayInv
<1>7. ASSUME NEW t \in LgThread, ChangeLogFileLock(t) PROVE LgDayInv'
  BY <1>3, <1>7 DEF ChangeLogFileLock, LgGo, LgKeep
<1>8. ASSUME NEW t \in LgThread, ChangeLogFileKeep(t) \/ ChangeLogFileClose(t) PROVE LgDayInv'
  <2>1. LgDayOf(lgName') = LgDayOf(lgNow)
    BY <1>8 DEF ChangeLogFileKeep, ChangeLogFileClose, NeedsChange, LgKeep
  <2>2. UNCHANGED <<lgNow, lgCur, lgCmp>>
    BY <1>8 DEF ChangeLogFileKeep, ChangeLogFileClose, LgKeep
  <2>3. LgDayOf(lgCmp) <= LgDayOf(lgNow) /\ LgDayOf(lgCmp) \in Nat /\ LgDayOf(lgNow) \in Nat
    BY <1>1, DayOfMonotone DEF LgDayInv
  <2>4. LgDayOf(lgName)' = LgDayOf(lgName') /\ LgDayOf(lgCmp)' = LgDayOf(lgCmp)
    BY <2>2 DEF LgDayOf
  <2> QED
    BY <1>0, <2>1, <2>2, <2>3, <2>4 DEF LgDayInv
<1>9. ASSUME NEW t \in LgThread, ChangeLogFileOpen(t) PROVE LgDayInv'
  BY <1>3, <1>9 DEF ChangeLogFileOpen, LgGo
<1>10. CASE UNCHANGED lgVars
  BY <1>0, <1>10 DEF lgVars, LgDayInv, LgChanging, LgDayOf
<1> QED
  BY <1>2, <1>4, <1>5, <1>6, <1>7, <1>8, <1>9, <1>10 DEF LgNext, ChangeLogFile

(***************************************************************************)
(* The race on g_curTime and g_cmpTime loses no day: once no thread is on  *)
(* its way to ChangeLogFile, the log's day is not before g_cmpTime's.      *)
(***************************************************************************)
THEOREM LogFollowsDay == LgSpec => []LgDayIsFollowed
<1>1. LgInit => LgDayInv
  <2> SUFFICES ASSUME LgInit PROVE LgDayInv
    OBVIOUS
  <2>1. LgTypeOK
    BY LgInitInv DEF LgInv
  <2>2. lgName \in Nat /\ lgCmp = lgName
    BY LgAssumption DEF LgInit
  <2>3. LgDayOf(lgName) >= LgDayOf(lgCmp)
    BY <2>2, DayOfMonotone
  <2> QED
    BY <2>1, <2>3, LgAssumption DEF LgInit, LgDayInv
<1>2. LgDayInv => LgDayIsFollowed
  BY DEF LgDayInv, LgDayIsFollowed, LgChanging
<1> QED
  BY <1>1, <1>2, LgDayStep, PTL DEF LgSpec

-----------------------------------------------------------------------------
(***************************************************************************)
(* EChain_IssueAssets.  A call submits at most once: its answer, whatever  *)
(* it is, ends the call.  So nothing is recorded for a call that has not   *)
(* submitted yet, and the records of other calls name other callers.       *)
(***************************************************************************)

(* Every record was made by a call that has begun. *)
IaByCalls ==
    \A x \in accepted : \E u \in IaThread : \E c \in 1 .. iaCalls[u] : x.body.dest = <<u, c>>

(* A call that runs has nothing on the ledger. *)
IaNothingYet == \A t \in IaThread : iaPc[t] # "idle" => IaRecorded(t) = {}

(* What the function uses of the node's state. *)
IaNode == closed \in [Account -> Nat] /\ last \in [Account -> Nat]

(* A call that runs has a number. *)
IaStarted == \A t \in IaThread : iaPc[t] # "idle" => iaCalls[t] > 0

IaInv == IaTypeOK /\ IaNode /\ IaByCalls /\ IaStarted /\ IaNothingYet /\ IaResult

LEMMA IaInitInv == IaInit => IaInv
<1> SUFFICES ASSUME IaInit PROVE IaInv
  OBVIOUS
<1>1. IaTypeOK
  BY IaAssumption DEF IaInit, IaTypeOK
<1>2. IaNode /\ IaByCalls /\ IaStarted /\ IaNothingYet
  BY DEF IaInit, NodeInit, IaNode, IaByCalls, IaStarted, IaNothingYet
<1>3. IaResult
  BY DEF IaInit, IaResult
<1> QED
  BY <1>1, <1>2, <1>3 DEF IaInv

(* A step of t before or without its submission. *)
LEMMA IaQuiet ==
    ASSUME IaInv, NEW t \in IaThread, UNCHANGED <<nodeVars, iaCalls>>, IaTypeOK',
           iaPc[t] # "idle", iaPc'[t] = "idle" => iaRet'[t] # 1,
           \A u \in IaThread \ {t} : /\ iaPc'[u] = iaPc[u] /\ iaRet'[u] = iaRet[u]
                                      /\ iaSilent'[u] = iaSilent[u]
    PROVE  IaInv'
<1>1. \A u \in IaThread : IaRecorded(u)' = IaRecorded(u)
  BY DEF IaRecorded, nodeVars
<1>2. IaNode' /\ IaByCalls'
  BY DEF IaInv, IaNode, IaByCalls, nodeVars
<1>3. IaRecorded(t) = {}
  BY DEF IaInv, IaNothingYet
<1>4. IaNothingYet'
  BY <1>1, <1>3 DEF IaInv, IaNothingYet
<1>5. IaResult'
  BY <1>1, <1>3 DEF IaInv, IaResult
<1>6. IaStarted'
  BY DEF IaInv, IaStarted
<1> QED
  BY <1>2, <1>4, <1>5, <1>6 DEF IaInv

(* A new call has another number than the calls before it. *)
LEMMA IaCall ==
    ASSUME IaInv, NEW t \in IaThread, EChain_IssueAssets(t)
    PROVE  IaInv'
<1>1. IaTypeOK'
  BY IaAssumption DEF EChain_IssueAssets, IaGoto, IaReturn, IaInv, IaTypeOK
<1>2. /\ iaCalls[t] \in Nat /\ iaCalls'[t] = iaCalls[t] + 1
      /\ \A u \in IaThread \ {t} : /\ iaPc'[u] = iaPc[u] /\ iaRet'[u] = iaRet[u]
                                   /\ iaSilent'[u] = iaSilent[u] /\ iaCalls'[u] = iaCalls[u]
      /\ iaPc'[t] = "idle" => iaRet'[t] # 1
      /\ UNCHANGED nodeVars
  BY IaAssumption DEF EChain_IssueAssets, IaGoto, IaReturn, IaInv, IaTypeOK
<1>3. \A u \in IaThread : iaCalls[u] \in Nat
  BY IaAssumption DEF IaInv, IaTypeOK
<1>4. IaByCalls'
  <2>1. \A u \in IaThread : \A c \in 1 .. iaCalls[u] : c \in 1 .. iaCalls'[u]
    BY <1>2, <1>3
  <2> QED
    BY <1>2, <2>1 DEF IaInv, IaByCalls, nodeVars
<1>5. IaRecorded(t)' = {}
  <2>1. \A x \in accepted : x.body.dest # <<t, iaCalls[t] + 1>>
    BY <1>3 DEF IaInv, IaByCalls
  <2> QED
    BY <1>2, <2>1 DEF IaRecorded, nodeVars
<1>6. \A u \in IaThread \ {t} : IaRecorded(u)' = IaRecorded(u)
  BY <1>2 DEF IaRecorded, nodeVars
<1>7. IaNothingYet'
  BY <1>2, <1>5, <1>6 DEF IaInv, IaNothingYet
<1>8. IaResult'
  BY <1>2, <1>5, <1>6 DEF IaInv, IaResult
<1>9. IaNode'
  BY <1>2 DEF IaInv, IaNode, nodeVars
<1>10. IaStarted'
  BY <1>2 DEF IaInv, IaStarted
<1> QED
  BY <1>1, <1>4, <1>7, <1>8, <1>9, <1>10 DEF IaInv

(* The submission. *)
LEMMA IaSubmits ==
    ASSUME IaInv, NEW t \in IaThread, IaSubmit(t)
    PROVE  IaInv'
<1> DEFINE n == iaNonce[t]
           body == [op |-> "issue", dest |-> <<t, iaCalls[t]>>]
           tx == [src |-> IaIssuer, nonce |-> n, body |-> body]
           code == SubmitCode(IaIssuer, n, IaFee)
<1>1. /\ iaPc[t] = "submit" /\ iaPc' = [iaPc EXCEPT ![t] = "idle"]
      /\ UNCHANGED <<iaCalls, iaNonce>>
  BY DEF IaSubmit, AfterIssue, IaNoAnswer, IaReturn
<1>2. \/ /\ UNCHANGED nodeVars
         /\ iaRet' = [iaRet EXCEPT ![t] = -6]
         /\ iaSilent' = iaSilent \/ iaSilent' = [iaSilent EXCEPT ![t] = TRUE]
      \/ /\ last' = [last EXCEPT ![IaIssuer] = n] /\ UNCHANGED closed
         /\ accepted' = accepted \cup {tx}
         /\ \/ iaRet' = [iaRet EXCEPT ![t] = 1] /\ UNCHANGED iaSilent
            \/ iaRet' = [iaRet EXCEPT ![t] = -6] /\ iaSilent' = [iaSilent EXCEPT ![t] = TRUE]
  <2>1. CASE code = 0
    BY <2>1 DEF IaSubmit, AfterIssue, IaNoAnswer, IaReturn, Submit
  <2>2. CASE code # 0
    BY <2>2 DEF IaSubmit, AfterIssue, IaNoAnswer, IaReturn, Submit
  <2> QED
    BY <2>1, <2>2
<1>3. CASE /\ UNCHANGED nodeVars
           /\ iaRet' = [iaRet EXCEPT ![t] = -6]
           /\ iaSilent' = iaSilent \/ iaSilent' = [iaSilent EXCEPT ![t] = TRUE]
  <2> HIDE DEF n, body, tx, code
  <2>1. IaTypeOK'
    BY <1>1, <1>3 DEF IaInv, IaTypeOK
  <2>2. /\ iaPc[t] # "idle" /\ UNCHANGED <<nodeVars, iaCalls>> /\ iaRet'[t] # 1
        /\ \A u \in IaThread \ {t} : /\ iaPc'[u] = iaPc[u] /\ iaRet'[u] = iaRet[u]
                                     /\ iaSilent'[u] = iaSilent[u]
    BY <1>1, <1>3 DEF IaInv, IaTypeOK
  <2> QED
    BY <2>1, <2>2, IaQuiet
<1>4. CASE /\ last' = [last EXCEPT ![IaIssuer] = n] /\ UNCHANGED closed
           /\ accepted' = accepted \cup {tx}
           /\ \/ iaRet' = [iaRet EXCEPT ![t] = 1] /\ UNCHANGED iaSilent
              \/ iaRet' = [iaRet EXCEPT ![t] = -6] /\ iaSilent' = [iaSilent EXCEPT ![t] = TRUE]
  <2>1. IaTypeOK' /\ IaNode'
    BY <1>1, <1>4, IaAssumption DEF IaInv, IaTypeOK, IaNode
  <2>2. /\ iaPc'[t] = "idle" /\ (iaRet'[t] = 1 \/ iaSilent'[t])
        /\ \A u \in IaThread \ {t} : /\ iaPc'[u] = iaPc[u] /\ iaRet'[u] = iaRet[u]
                                     /\ iaSilent'[u] = iaSilent[u]
    BY <1>1, <1>4 DEF IaInv, IaTypeOK
  <2>3. tx.body.dest = <<t, iaCalls[t]>>
    OBVIOUS
  <2>4. IaRecorded(t) = {}
    BY <1>1 DEF IaInv, IaNothingYet
  <2>5. iaCalls[t] \in Nat
    BY IaAssumption DEF IaInv, IaTypeOK
  <2> HIDE DEF tx
  <2>6. IaRecorded(t)' = {tx}
    BY <1>1, <1>4, <2>3, <2>4 DEF IaRecorded
  <2>7. \A u \in IaThread \ {t} : IaRecorded(u)' = IaRecorded(u)
    BY <1>1, <1>4, <2>3 DEF IaRecorded
  <2>8. Cardinality(IaRecorded(t)') = 1
    BY <2>6, FS_Singleton
  <2>9. iaCalls[t] > 0
    BY <1>1, <2>5 DEF IaInv, IaStarted
  <2>10. IaByCalls'
    <3>1. iaCalls[t] \in 1 .. iaCalls[t]
      BY <2>5, <2>9
    <3> QED
      BY <1>1, <1>4, <2>3, <3>1 DEF IaInv, IaByCalls
  <2>11. IaNothingYet'
    BY <2>2, <2>7 DEF IaInv, IaNothingYet
  <2>12. IaResult'
    BY <1>1, <2>2, <2>7, <2>8 DEF IaInv, IaResult
  <2> QED
    BY <1>1, <2>1, <2>2, <2>10, <2>11, <2>12 DEF IaInv, IaStarted
<1> HIDE DEF tx
<1> QED
  BY <1>2, <1>3, <1>4

LEMMA IaInductive == IaInv /\ [IaNext]_iaVars => IaInv'
<1> SUFFICES ASSUME IaInv, [IaNext]_iaVars PROVE IaInv'
  OBVIOUS
<1>1. ASSUME NEW t \in IaThread, EChain_IssueAssets(t) PROVE IaInv'
  BY <1>1, IaCall
<1>2. ASSUME NEW t \in IaThread, IaGetNonce(t) PROVE IaInv'
  <2>1. iaNonce' \in [IaThread -> Nat]
    BY <1>2, IaAssumption DEF IaGetNonce, IaInv, IaTypeOK, IaNode
  <2>2. /\ UNCHANGED <<nodeVars, iaCalls, iaSilent>> /\ iaPc[t] = "nonce"
        /\ \/ iaPc' = [iaPc EXCEPT ![t] = "blob"] /\ UNCHANGED iaRet
           \/ iaPc' = [iaPc EXCEPT ![t] = "idle"] /\ iaRet' = [iaRet EXCEPT ![t] = -6]
    BY <1>2 DEF IaGetNonce, IaGoto, IaReturn
  <2>3. IaTypeOK'
    BY <2>1, <2>2 DEF IaInv, IaTypeOK
  <2>4. /\ iaPc'[t] = "idle" => iaRet'[t] # 1
        /\ \A u \in IaThread \ {t} : /\ iaPc'[u] = iaPc[u] /\ iaRet'[u] = iaRet[u]
                                     /\ iaSilent'[u] = iaSilent[u]
    BY <2>2 DEF IaInv, IaTypeOK
  <2> QED
    BY <2>2, <2>3, <2>4, IaQuiet
<1>3. ASSUME NEW t \in IaThread, IaBlob(t) PROVE IaInv'
  <2>1. iaNonce' \in [IaThread -> Nat]
    BY <1>3 DEF IaBlob, IaInv, IaTypeOK
  <2>2. /\ UNCHANGED <<nodeVars, iaCalls, iaSilent>> /\ iaPc[t] = "blob"
        /\ \/ iaPc' = [iaPc EXCEPT ![t] = "submit"] /\ UNCHANGED iaRet
           \/ iaPc' = [iaPc EXCEPT ![t] = "idle"] /\ iaRet' = [iaRet EXCEPT ![t] = -6]
    BY <1>3 DEF IaBlob, IaGoto, IaReturn
  <2>3. IaTypeOK'
    BY <2>1, <2>2 DEF IaInv, IaTypeOK
  <2>4. /\ iaPc'[t] = "idle" => iaRet'[t] # 1
        /\ \A u \in IaThread \ {t} : /\ iaPc'[u] = iaPc[u] /\ iaRet'[u] = iaRet[u]
                                     /\ iaSilent'[u] = iaSilent[u]
    BY <2>2 DEF IaInv, IaTypeOK
  <2> QED
    BY <2>2, <2>3, <2>4, IaQuiet
<1>4. ASSUME NEW t \in IaThread, IaSubmit(t) PROVE IaInv'
  BY <1>4, IaSubmits
<1>5. CASE IaClose \/ UNCHANGED iaVars
  <2>1. UNCHANGED <<accepted, iaPc, iaCalls, iaNonce, iaRet, iaSilent>>
    BY <1>5 DEF IaClose, CloseLedger, iaVars, nodeVars
  <2>2. IaNode'
    BY <1>5 DEF IaClose, CloseLedger, iaVars, nodeVars, IaInv, IaNode
  <2>3. \A u \in IaThread : IaRecorded(u)' = IaRecorded(u)
    BY <2>1 DEF IaRecorded
  <2> QED
    BY <2>1, <2>2, <2>3 DEF IaInv, IaTypeOK, IaByCalls, IaNothingYet, IaResult, IaStarted
<1> QED
  BY <1>1, <1>2, <1>3, <1>4, <1>5 DEF IaNext

(***************************************************************************)
(* What EChain_IssueAssets answers is true for any number of threads that  *)
(* share an issuer: 1 with exactly one issue of that call on the ledger,   *)
(* an error with none unless the node's answer was lost.                   *)
(***************************************************************************)
THEOREM IssueAnswerIsTrue == IaSpec => []IaResult
<1>1. IaInv => IaResult
  BY DEF IaInv
<1> QED
  BY <1>1, IaInitInv, IaInductive, PTL DEF IaSpec

(***************************************************************************)
(* The variables of EChain_IssueAssets and of the node it talks to keep    *)
(* their types through requests that fail or lose their answer.            *)
(***************************************************************************)
THEOREM IssueTypes == IaSpec => []IaTypeOK
<1>1. IaInv => IaTypeOK
  BY DEF IaInv
<1> QED
  BY <1>1, IaInitInv, IaInductive, PTL DEF IaSpec

-----------------------------------------------------------------------------
(***************************************************************************)
(* Start-up.  What EChain_InitSDK has done so far when it is at a stage.   *)
(***************************************************************************)

SesStages ==
    /\ sesPc \in {"idle", "log", "certificate", "database", "genesis"}
    /\ sesPc \in {"certificate", "database", "genesis"} => sesLog = "file"
    /\ sesPc = "genesis" => sesDb = "open"

SesInv == SesStages /\ SesReady

LEMMA SesInductive == SesInv /\ [SesNext]_sesVars => SesInv'
<1> SUFFICES ASSUME SesInv, [SesNext]_sesVars PROVE SesInv'
  OBVIOUS
<1> USE DEF SesInv, SesStages, SesReady, SesGo, SesReturn
<1>1. CASE EChain_InitSDK
  BY <1>1 DEF EChain_InitSDK
<1>2. CASE InitLog
  BY <1>2 DEF InitLog
<1>3. CASE InitCertificate
  BY <1>3 DEF InitCertificate
<1>4. CASE InitDatabase
  BY <1>4 DEF InitDatabase, DbConnected
<1>5. CASE InitGenesis
  BY <1>5 DEF InitGenesis
<1>6. CASE UNCHANGED sesVars
  BY <1>6 DEF sesVars
<1> QED
  BY <1>1, <1>2, <1>3, <1>4, <1>5, <1>6 DEF SesNext

(***************************************************************************)
(* A successful EChain_InitSDK with the debug log on leaves log, database  *)
(* and genesis nonce ready, whatever configuration file it read and        *)
(* however many attempts failed before.                                    *)
(***************************************************************************)
THEOREM SessionIsReady == SesSpec => []SesReady
<1>1. SesInit => SesInv
  <2> SUFFICES ASSUME SesInit PROVE SesInv
    OBVIOUS
  <2>1. sesPc = "idle" /\ sesRet = 0
    BY Zenon DEF SesInit
  <2>2. SesStages
    BY <2>1 DEF SesStages
  <2>3. SesReady
    BY <2>1 DEF SesReady
  <2> QED
    BY <2>2, <2>3 DEF SesInv
<1>2. SesInv => SesReady
  BY DEF SesInv
<1> QED
  BY <1>1, <1>2, SesInductive, PTL DEF SesSpec

-----------------------------------------------------------------------------
(***************************************************************************)
(* The configuration file.                                                 *)
(***************************************************************************)

\* A set of numbers has a least element.
LEMMA LeastNat ==
    ASSUME NEW T, T \subseteq Nat, T # {}
    PROVE  \E n \in T : \A m \in T : n <= m
<1> DEFINE R == {ss \in Nat \X Nat : ss[1] < ss[2]}
<1>1. IsWellFoundedOn(R, Nat)
  BY NatLessThanWellFounded, Zenon DEF OpToRel
<1> HIDE DEF R
<1>2. PICK n \in T : \A m \in T : ~ (<<m, n>> \in R)
  BY <1>1, WFMin, Zenon
<1>3. \A m \in T : ~ (m < n)
  BY <1>2 DEF R
<1> QED
  BY <1>3

\* GetIniString copies the value of the first line it stops at.
LEMMA IniFirst ==
    ASSUME NEW f \in Seq(IniLine), NEW sec, NEW id, IniFound(f, sec, id)
    PROVE  \E j \in IniHits(f, sec, id) :
              /\ \A k \in IniHits(f, sec, id) : j <= k
              /\ GetIniString(f, sec, id) = f[j].val
<1> DEFINE hits == IniHits(f, sec, id)
<1>1. hits \subseteq Nat
  BY DEF IniHits
<1>2. hits # {}
  BY DEF IniFound
<1>3. GetIniString(f, sec, id) = f[CHOOSE j \in hits : \A k \in hits : j <= k].val
  BY DEF GetIniString
<1> HIDE DEF hits
<1>4. \E j \in hits : \A k \in hits : j <= k
  BY <1>1, <1>2, LeastNat
<1>5. PICK j : j = CHOOSE i \in hits : \A k \in hits : i <= k
  OBVIOUS
<1>6. j \in hits /\ \A k \in hits : j <= k
  BY <1>4, <1>5
<1>7. GetIniString(f, sec, id) = f[j].val
  BY <1>3, <1>5
<1> QED
  BY <1>6, <1>7 DEF hits

\* A line GetIniString stops at is a key below the line of its section.
LEMMA IniHitFacts ==
    ASSUME NEW f \in Seq(IniLine), NEW sec, NEW id,
           NEW j \in IniHits(f, sec, id)
    PROVE  /\ j \in DOMAIN f /\ j \in Nat /\ f[j] = IniKey(id, f[j].val)
           /\ \E i \in DOMAIN f : i \in Nat /\ i < j /\ f[i] = IniSection(sec)
<1>1. j \in 1 .. Len(f) /\ f[j] \in IniLine /\ f[j].kind = "key" /\ f[j].name = id
  BY DEF IniHits
<1>2. PICK i \in 1 .. j : f[i] = IniSection(sec)
  BY DEF IniHits
<1>3. f[i].kind = "section"
  <2>1. IniSection(sec).kind = "section"
    BY DEF IniSection
  <2> QED
    BY <1>2, <2>1
<1>4. i # j
  BY <1>1, <1>3
<1>5. i \in DOMAIN f /\ i \in Nat /\ i < j
  BY <1>1, <1>2, <1>4
<1>6. f[j] = IniKey(id, f[j].val)
  BY <1>1 DEF IniLine, IniKey
<1> QED
  BY <1>1, <1>2, <1>5, <1>6

\* A key that its section has is found in that section, at its first
\* occurrence: the search begins there and meets no other section before.
LEMMA IniOwn ==
    ASSUME NEW f \in Seq(IniLine), SectionsOnce(f), NEW sec, NEW id,
           InSection(f, sec, id) # {}
    PROVE  /\ IniFound(f, sec, id)
           /\ \E j \in InSection(f, sec, id) :
                 /\ GetIniString(f, sec, id) = f[j].val
                 /\ \A k \in InSection(f, sec, id) : j <= k
<1>1. InSection(f, sec, id) \subseteq IniHits(f, sec, id)
  BY DEF InSection, IniHits
<1>2. IniFound(f, sec, id)
  BY <1>1 DEF IniFound
<1>3. PICK j \in IniHits(f, sec, id) :
          /\ \A k \in IniHits(f, sec, id) : j <= k
          /\ GetIniString(f, sec, id) = f[j].val
  BY <1>2, IniFirst
<1>4. PICK m \in InSection(f, sec, id) : TRUE
  OBVIOUS
<1>5. m \in 1 .. Len(f)
  BY DEF InSection
<1>6. PICK a \in 1 .. m : f[a] = IniSection(sec) /\ \A k \in (a + 1) .. m : f[k].kind = "key"
  BY DEF InSection
<1>7. /\ j \in DOMAIN f /\ j \in Nat
      /\ \E i \in DOMAIN f : i \in Nat /\ i < j /\ f[i] = IniSection(sec)
  BY IniHitFacts
<1>8. PICK i \in DOMAIN f : i \in Nat /\ i < j /\ f[i] = IniSection(sec)
  BY <1>7
<1>9. i = a
  <2>1. a \in DOMAIN f
    BY <1>5
  <2>2. f[i].kind = "section" /\ f[i] = f[a]
    <3>1. IniSection(sec).kind = "section"
      BY DEF IniSection
    <3> QED
      BY <1>6, <1>8, <3>1
  <2> QED
    BY <2>1, <2>2 DEF SectionsOnce
<1>10. j <= m
  BY <1>1, <1>3
<1>11. \A k \in (i + 1) .. j : f[k].kind = "key"
  <2>1. \A k \in (i + 1) .. j : k \in (a + 1) .. m
    BY <1>5, <1>7, <1>8, <1>9, <1>10
  <2> QED
    BY <1>6, <2>1
<1>12. i \in 1 .. j
  <2>1. i \in 1 .. Len(f) /\ Len(f) \in Nat
    OBVIOUS
  <2> QED
    BY <1>7, <1>8, <2>1
<1>13. f[j].kind = "key" /\ f[j].name = id
  BY DEF IniHits
<1>14. j \in InSection(f, sec, id)
  BY <1>7, <1>8, <1>11, <1>12, <1>13 DEF InSection
<1> QED
  BY <1>1, <1>2, <1>3, <1>14

\* temp after one more string setting.
IniNext(f, k, p) ==
    IF IniFound(f, "MySQL", Texts[k]) THEN GetIniString(f, "MySQL", Texts[k]) ELSE p

\* temp as ReadIni reads the four texts one after the other.
LEMMA IniTempEq ==
    ASSUME NEW f
    PROVE  /\ IniTemp(f)[1] = IniNext(f, 1, "")
           /\ IniTemp(f)[2] = IniNext(f, 2, IniTemp(f)[1])
           /\ IniTemp(f)[3] = IniNext(f, 3, IniTemp(f)[2])
           /\ IniTemp(f)[4] = IniNext(f, 4, IniTemp(f)[3])
<1> DEFINE body(t) == [k \in 0 .. Len(Texts) |-> IF k = 0 THEN "" ELSE IniNext(f, k, t[k - 1])]
           t1 == IniNext(f, 1, "")
           t2 == IniNext(f, 2, t1)
           t3 == IniNext(f, 3, t2)
           t4 == IniNext(f, 4, t3)
           g == [k \in 0 .. 4 |-> IF k = 0 THEN "" ELSE IF k = 1 THEN t1
                                  ELSE IF k = 2 THEN t2 ELSE IF k = 3 THEN t3 ELSE t4]
<1>1. Len(Texts) = 4
  BY DEF Texts
<1>2. IniTemp(f) = CHOOSE t : t = body(t)
  BY DEF IniTemp, IniNext
<1>3. g = body(g)
  <2>1. g[0] = "" /\ g[1] = t1 /\ g[2] = t2 /\ g[3] = t3 /\ g[4] = t4
    OBVIOUS
  <2>2. /\ g[1] = IniNext(f, 1, g[0]) /\ g[2] = IniNext(f, 2, g[1])
        /\ g[3] = IniNext(f, 3, g[2]) /\ g[4] = IniNext(f, 4, g[3])
    BY <2>1, Zenon
  <2>3. g = [k \in 0 .. 4 |-> g[k]]
    OBVIOUS
  <2> HIDE DEF g
  <2>4. ASSUME NEW k \in 0 .. 4
        PROVE  g[k] = IF k = 0 THEN "" ELSE IniNext(f, k, g[k - 1])
    <3>1. k = 0 \/ k = 1 \/ k = 2 \/ k = 3 \/ k = 4
      OBVIOUS
    <3>2. 1 - 1 = 0 /\ 2 - 1 = 1 /\ 3 - 1 = 2 /\ 4 - 1 = 3
      OBVIOUS
    <3>3. CASE k = 0
      BY <2>1, <3>3, Zenon
    <3>4. CASE k = 1
      BY <2>2, <3>2, <3>4
    <3>5. CASE k = 2
      BY <2>2, <3>2, <3>5
    <3>6. CASE k = 3
      BY <2>2, <3>2, <3>6
    <3>7. CASE k = 4
      BY <2>2, <3>2, <3>7
    <3> QED
      BY <3>1, <3>3, <3>4, <3>5, <3>6, <3>7, Zenon
  <2>5. body(g) = [k \in 0 .. 4 |-> IF k = 0 THEN "" ELSE IniNext(f, k, g[k - 1])]
    BY <1>1, Zenon
  <2>6. [k \in 0 .. 4 |-> g[k]] = [k \in 0 .. 4 |-> IF k = 0 THEN "" ELSE IniNext(f, k, g[k - 1])]
    BY <2>4, Zenon
  <2> QED
    BY <2>3, <2>5, <2>6, Zenon
<1> HIDE DEF g
<1>4. IniTemp(f) = body(IniTemp(f))
  <2>1. \E t : t = body(t)
    BY <1>3, Zenon
  <2> QED
    BY <1>2, <2>1, Zenon
<1>5. PICK t : t = IniTemp(f)
  OBVIOUS
<1>6. t = [k \in 0 .. 4 |-> IF k = 0 THEN "" ELSE IniNext(f, k, t[k - 1])]
  BY <1>1, <1>4, <1>5, Zenon
<1>7. \A k \in 0 .. 4 : t[k] = IF k = 0 THEN "" ELSE IniNext(f, k, t[k - 1])
  BY <1>6, Zenon
<1>8. /\ 0 \in 0 .. 4 /\ 1 \in 0 .. 4 /\ 2 \in 0 .. 4 /\ 3 \in 0 .. 4 /\ 4 \in 0 .. 4
      /\ 1 - 1 = 0 /\ 2 - 1 = 1 /\ 3 - 1 = 2 /\ 4 - 1 = 3
      /\ 1 # 0 /\ 2 # 0 /\ 3 # 0 /\ 4 # 0
  OBVIOUS
<1>9. t[0] = ""
  BY <1>7, <1>8, Zenon
<1>10. t[1] = IniNext(f, 1, t[0])
  BY <1>7, <1>8, Zenon
<1>11. t[2] = IniNext(f, 2, t[1])
  BY <1>7, <1>8, Zenon
<1>12. t[3] = IniNext(f, 3, t[2])
  BY <1>7, <1>8, Zenon
<1>13. t[4] = IniNext(f, 4, t[3])
  BY <1>7, <1>8, Zenon
<1> QED
  BY <1>5, <1>9, <1>10, <1>11, <1>12, <1>13, Zenon

\* atoi gives a number.
LEMMA IniIntType ==
    ASSUME NEW v
    PROVE  IniInt(v) \in Int
<1>1. CASE v = "1"
  BY <1>1 DEF IniInt
<1>2. CASE v = "3306"
  BY <1>2 DEF IniInt
<1>3. CASE v = "-1"
  BY <1>3 DEF IniInt
<1>4. CASE v # "1" /\ v # "3306" /\ v # "-1"
  BY <1>4 DEF IniInt
<1> QED
  BY <1>1, <1>2, <1>3, <1>4

\* ReadIni refuses a number that is there and negative.
LEMMA IniRefusedNumber ==
    ASSUME NEW f, NEW s \in {"DebugLog", "DBPort"}
    PROVE  IniRefused(f, s) <=>
              /\ IniFound(f, SectionOf(s), s)
              /\ ~ (IniInt(GetIniString(f, SectionOf(s), s)) >= 0)
<1>1. IniRefused(f, s) <=> IniValue(f, s) < 0
  BY Zenon DEF IniRefused
<1>2. IniValue(f, s) = GetIniInteger(f, SectionOf(s), s)
  BY Zenon DEF IniValue
<1>3. CASE IniFound(f, SectionOf(s), s)
  <2>1. IniValue(f, s) = IniInt(GetIniString(f, SectionOf(s), s))
    BY <1>2, <1>3, Zenon DEF GetIniInteger
  <2>2. IniInt(GetIniString(f, SectionOf(s), s)) \in Int
    BY IniIntType
  <2> QED
    BY <1>1, <1>3, <2>1, <2>2
<1>4. CASE ~ IniFound(f, SectionOf(s), s)
  <2>1. IniValue(f, s) = 0
    BY <1>2, <1>4, Zenon DEF GetIniInteger
  <2> QED
    BY <1>1, <1>4, <2>1
<1> QED
  BY <1>3, <1>4

\* ReadIni refuses a text that leaves temp empty.
LEMMA IniRefusedText ==
    ASSUME NEW f, NEW k \in 1 .. 4
    PROVE  IniRefused(f, Texts[k]) <=> IniTemp(f)[k] = ""
<1>1. Texts[k] \notin {"DebugLog", "DBPort"}
  BY DEF Texts
<1>2. DOMAIN Texts = 1 .. 4
  BY DEF Texts
<1>3. \A i \in 1 .. 4 : Texts[i] = Texts[k] => i = k
  BY DEF Texts
<1>4. (CHOOSE i \in DOMAIN Texts : Texts[i] = Texts[k]) = k
  BY <1>2, <1>3
<1>5. IniValue(f, Texts[k]) = IniTemp(f)[k]
  BY <1>1, <1>4, Zenon DEF IniValue
<1> QED
  BY <1>1, <1>5, Zenon DEF IniRefused

\* What ReadIni accepts: an address, no empty text, no negative number.
LEMMA ReadIniMeans ==
    ASSUME NEW f
    PROVE  ReadIniOk(f) <=>
             /\ IniFound(f, "MySQL", "DBAddr")
             /\ \A s \in SettingNames : IniFound(f, SectionOf(s), s) =>
                   LET v == GetIniString(f, SectionOf(s), s)
                   IN  IF s \in {Texts[k] : k \in DOMAIN Texts} THEN v # "" ELSE IniInt(v) >= 0
<1> DEFINE Good(s) == IniFound(f, SectionOf(s), s) =>
                         IF s \in {Texts[k] : k \in DOMAIN Texts}
                         THEN GetIniString(f, SectionOf(s), s) # ""
                         ELSE IniInt(GetIniString(f, SectionOf(s), s)) >= 0
           Has(s) == IniFound(f, "MySQL", s)
           Str(s) == GetIniString(f, "MySQL", s)
<1>1. /\ Settings[1] = "DebugLog" /\ Settings[2] = "DBAddr" /\ Settings[3] = "DBPort"
      /\ Settings[4] = "DBUser" /\ Settings[5] = "DBPassWd" /\ Settings[6] = "DBName"
      /\ (Len(Settings) + 1) - 1 = 6 /\ DOMAIN Settings = 1 .. 6
  BY DEF Settings
<1>2. \A k \in 1 .. 6 : k = 1 \/ k = 2 \/ k = 3 \/ k = 4 \/ k = 5 \/ k = 6
  OBVIOUS
<1>3. 1 \in 1 .. 6 /\ 2 \in 1 .. 6 /\ 3 \in 1 .. 6 /\ 4 \in 1 .. 6 /\ 5 \in 1 .. 6 /\ 6 \in 1 .. 6
  OBVIOUS
<1>4. ReadIniOk(f) <=> \A k \in 1 .. 6 : ~ IniRefused(f, Settings[k])
  <2>1. (Len(Settings) + 1) - 1 = 6
    BY <1>1
  <2>2. ReadIniOk(f) <=> \A k \in 1 .. ((Len(Settings) + 1) - 1) : ~ IniRefused(f, Settings[k])
    BY Zenon DEF ReadIniOk, IniReaches
  <2> QED
    BY <2>1, <2>2, Zenon
<1>5. ReadIniOk(f) <=>
         /\ ~ IniRefused(f, "DebugLog") /\ ~ IniRefused(f, "DBPort")
         /\ ~ IniRefused(f, "DBAddr") /\ ~ IniRefused(f, "DBUser")
         /\ ~ IniRefused(f, "DBPassWd") /\ ~ IniRefused(f, "DBName")
  BY <1>1, <1>2, <1>3, <1>4, Zenon
<1>6. SettingNames = {"DebugLog", "DBAddr", "DBPort", "DBUser", "DBPassWd", "DBName"}
  <2>1. \A s : s \in SettingNames <=> \E k \in 1 .. 6 : s = Settings[k]
    BY <1>1, Zenon DEF SettingNames
  <2>2. ASSUME NEW s \in SettingNames
        PROVE  s \in {"DebugLog", "DBAddr", "DBPort", "DBUser", "DBPassWd", "DBName"}
    <3>1. PICK k \in 1 .. 6 : s = Settings[k]
      BY <2>1, Zenon
    <3>2. k = 1 \/ k = 2 \/ k = 3 \/ k = 4 \/ k = 5 \/ k = 6
      BY <1>2
    <3> QED
      BY <1>1, <3>1, <3>2, Zenon
  <2>3. /\ "DebugLog" \in SettingNames /\ "DBAddr" \in SettingNames /\ "DBPort" \in SettingNames
        /\ "DBUser" \in SettingNames /\ "DBPassWd" \in SettingNames /\ "DBName" \in SettingNames
    BY <1>1, <1>3, <2>1, Zenon
  <2> QED
    BY <2>2, <2>3, Zenon
<1>7. {Texts[k] : k \in DOMAIN Texts} = {"DBAddr", "DBUser", "DBPassWd", "DBName"}
  <2>1. /\ Texts[1] = "DBAddr" /\ Texts[2] = "DBUser" /\ Texts[3] = "DBPassWd" /\ Texts[4] = "DBName"
        /\ DOMAIN Texts = 1 .. 4
    BY DEF Texts
  <2>2. \A k \in 1 .. 4 : k = 1 \/ k = 2 \/ k = 3 \/ k = 4
    OBVIOUS
  <2>3. 1 \in 1 .. 4 /\ 2 \in 1 .. 4 /\ 3 \in 1 .. 4 /\ 4 \in 1 .. 4
    OBVIOUS
  <2>4. \A s : s \in {Texts[k] : k \in DOMAIN Texts} <=> \E k \in 1 .. 4 : s = Texts[k]
    BY <2>1, Zenon
  <2>5. ASSUME NEW s \in {Texts[k] : k \in DOMAIN Texts}
        PROVE  s \in {"DBAddr", "DBUser", "DBPassWd", "DBName"}
    <3>1. PICK k \in 1 .. 4 : s = Texts[k]
      BY <2>4, Zenon
    <3>2. k = 1 \/ k = 2 \/ k = 3 \/ k = 4
      BY <2>2
    <3> QED
      BY <2>1, <3>1, <3>2, Zenon
  <2>6. \A k \in 1 .. 4 : Texts[k] \in {Texts[i] : i \in DOMAIN Texts}
    BY <2>4, Zenon
  <2>7. \A s \in {"DBAddr", "DBUser", "DBPassWd", "DBName"} : s \in {Texts[k] : k \in DOMAIN Texts}
    BY <2>1, <2>3, <2>6, Zenon
  <2> QED
    BY <2>5, <2>7, Zenon
<1>8. /\ SectionOf("DBAddr") = "MySQL" /\ SectionOf("DBUser") = "MySQL"
      /\ SectionOf("DBPassWd") = "MySQL" /\ SectionOf("DBName") = "MySQL"
  BY DEF SectionOf
<1>9. (\A s \in SettingNames : Good(s)) <=>
         /\ Good("DebugLog") /\ Good("DBPort")
         /\ Good("DBAddr") /\ Good("DBUser") /\ Good("DBPassWd") /\ Good("DBName")
  <2> HIDE DEF Good
  <2> QED
    BY <1>6, Zenon
<1>10. /\ Good("DBAddr") <=> (Has("DBAddr") => Str("DBAddr") # "")
       /\ Good("DBUser") <=> (Has("DBUser") => Str("DBUser") # "")
       /\ Good("DBPassWd") <=> (Has("DBPassWd") => Str("DBPassWd") # "")
       /\ Good("DBName") <=> (Has("DBName") => Str("DBName") # "")
  BY <1>7, <1>8, Zenon
<1>11. Good("DebugLog") <=> ~ IniRefused(f, "DebugLog")
  <2>1. "DebugLog" \notin {Texts[k] : k \in DOMAIN Texts}
    BY <1>7
  <2>2. "DebugLog" \in {"DebugLog", "DBPort"}
    OBVIOUS
  <2> QED
    BY <2>1, <2>2, IniRefusedNumber, Zenon
<1>12. Good("DBPort") <=> ~ IniRefused(f, "DBPort")
  <2>1. "DBPort" \notin {Texts[k] : k \in DOMAIN Texts}
    BY <1>7
  <2>2. "DBPort" \in {"DebugLog", "DBPort"}
    OBVIOUS
  <2> QED
    BY <2>1, <2>2, IniRefusedNumber, Zenon
<1>13. /\ Texts[1] = "DBAddr" /\ Texts[2] = "DBUser" /\ Texts[3] = "DBPassWd" /\ Texts[4] = "DBName"
  BY DEF Texts
<1>14. /\ IniRefused(f, "DBAddr") <=> IniTemp(f)[1] = ""
       /\ IniRefused(f, "DBUser") <=> IniTemp(f)[2] = ""
       /\ IniRefused(f, "DBPassWd") <=> IniTemp(f)[3] = ""
       /\ IniRefused(f, "DBName") <=> IniTemp(f)[4] = ""
  <2>1. 1 \in 1 .. 4 /\ 2 \in 1 .. 4 /\ 3 \in 1 .. 4 /\ 4 \in 1 .. 4
    OBVIOUS
  <2> QED
    BY <1>13, <2>1, IniRefusedText, Zenon
<1>15. /\ IniTemp(f)[1] = IF Has("DBAddr") THEN Str("DBAddr") ELSE ""
       /\ IniTemp(f)[2] = IF Has("DBUser") THEN Str("DBUser") ELSE IniTemp(f)[1]
       /\ IniTemp(f)[3] = IF Has("DBPassWd") THEN Str("DBPassWd") ELSE IniTemp(f)[2]
       /\ IniTemp(f)[4] = IF Has("DBName") THEN Str("DBName") ELSE IniTemp(f)[3]
  BY <1>13, IniTempEq, Zenon DEF IniNext
<1> HIDE DEF Has, Str
<1>16. ReadIniOk(f) <=> Has("DBAddr") /\ \A s \in SettingNames : Good(s)
  <2> HIDE DEF Good
  <2>1. CASE ~ Has("DBAddr")
    <3>1. IniTemp(f)[1] = ""
      BY <1>15, <2>1, Zenon
    <3> QED
      BY <1>5, <1>14, <2>1, <3>1, Zenon
  <2>2. CASE Has("DBAddr")
    <3>1. IniTemp(f)[1] = Str("DBAddr")
      BY <1>15, <2>2, Zenon
    <3>2. CASE Str("DBAddr") = ""
      BY <1>5, <1>9, <1>10, <1>14, <2>2, <3>1, <3>2, Zenon
    <3>3. CASE Str("DBAddr") # ""
      <4>1. ~ IniRefused(f, "DBAddr") /\ Good("DBAddr") /\ IniTemp(f)[1] # ""
        BY <1>10, <1>14, <3>1, <3>3, Zenon
      <4>2. ~ IniRefused(f, "DBUser") <=> Good("DBUser")
        BY <1>10, <1>14, <1>15, <4>1, Zenon
      <4>3. ~ IniRefused(f, "DBUser") => (~ IniRefused(f, "DBPassWd") <=> Good("DBPassWd"))
        BY <1>10, <1>14, <1>15, <4>1, Zenon
      <4>4. ~ IniRefused(f, "DBPassWd") => (~ IniRefused(f, "DBName") <=> Good("DBName"))
        BY <1>10, <1>14, <1>15, <4>1, Zenon
      <4> QED
        BY <1>5, <1>9, <1>11, <1>12, <2>2, <4>1, <4>2, <4>3, <4>4, Zenon
    <3> QED
      BY <3>2, <3>3, Zenon
  <2> QED
    BY <2>1, <2>2
<1> QED
  BY <1>16, Zenon DEF Has, Good

\* IniLookup for the file at hand.
LEMMA IniLookupFile ==
    ASSUME NEW f \in Seq(IniLine), SectionsOnce(f), sesFile = f
    PROVE  IniLookup
<1>1. ASSUME NEW s \in SettingNames
      PROVE  LET own == InSection(sesFile, SectionOf(s), s)
                 got == GetIniString(sesFile, SectionOf(s), s)
                 start == {i \in DOMAIN sesFile : sesFile[i] = IniSection(SectionOf(s))}
             IN  /\ own # {} => /\ IniFound(sesFile, SectionOf(s), s)
                                /\ \E j \in own : /\ got = sesFile[j].val
                                                  /\ \A k \in own : j <= k
                 /\ (own = {} /\ IniFound(sesFile, SectionOf(s), s))
                        => \E i \in start, j \in DOMAIN sesFile :
                               i < j /\ sesFile[j] = IniKey(s, got)
  <2> DEFINE sec == SectionOf(s)
             got == GetIniString(f, sec, s)
  <2> HIDE DEF sec
  <2>2. ASSUME InSection(f, sec, s) # {}
        PROVE  /\ IniFound(f, sec, s)
               /\ \E j \in InSection(f, sec, s) :
                     got = f[j].val /\ \A k \in InSection(f, sec, s) : j <= k
    BY <2>2, IniOwn
  <2>3. ASSUME IniFound(f, sec, s)
        PROVE  \E i \in {i \in DOMAIN f : f[i] = IniSection(sec)}, j \in DOMAIN f :
                   i < j /\ f[j] = IniKey(s, got)
    <3>1. PICK j \in IniHits(f, sec, s) : got = f[j].val
      BY <2>3, IniFirst
    <3>2. /\ j \in DOMAIN f /\ f[j] = IniKey(s, got)
          /\ \E i \in DOMAIN f : i \in Nat /\ i < j /\ f[i] = IniSection(sec)
      BY <3>1, IniHitFacts
    <3> HIDE DEF got
    <3> QED
      BY <3>2, Zenon
  <2> QED
    BY <2>2, <2>3, Zenon DEF sec
<1>2. ReadIniOk(sesFile) <=>
          /\ IniFound(sesFile, "MySQL", "DBAddr")
          /\ \A s \in SettingNames : IniFound(sesFile, SectionOf(s), s) =>
                LET v == GetIniString(sesFile, SectionOf(s), s)
                IN  IF s \in {Texts[k] : k \in DOMAIN Texts} THEN v # "" ELSE IniInt(v) >= 0
  BY ReadIniMeans, Zenon
<1> QED
  BY <1>1, <1>2, Zenon DEF IniLookup

\* No step of EChain_InitSDK writes the configuration file.
LEMMA SesFileFixed ==
    ASSUME sesFile \in SesFiles, [SesNext]_sesVars
    PROVE  (sesFile \in SesFiles)'
<1>1. sesFile' = sesFile
  BY DEF SesNext, EChain_InitSDK, InitLog, InitCertificate, InitDatabase, InitGenesis, sesVars
<1> QED
  BY <1>1

(***************************************************************************)
(* IniLookupCorrect: in files of any length that name each section once,   *)
(* GetIniString and ReadIni behave as IniLookup says.  Where a section is  *)
(* begun a second time, a key of another section that stands between is    *)
(* found before the section's own, because iKeyFound is not reset.         *)
(***************************************************************************)
THEOREM IniLookupCorrect ==
    (\A f \in SesFiles : SectionsOnce(f)) /\ SesSpec => []IniLookup
<1> SUFFICES ASSUME \A f \in SesFiles : SectionsOnce(f)
             PROVE  SesSpec => []IniLookup
  OBVIOUS
<1>1. SesInit => sesFile \in SesFiles
  BY Zenon DEF SesInit
<1>2. sesFile \in SesFiles /\ [SesNext]_sesVars => (sesFile \in SesFiles)'
  BY SesFileFixed
<1>3. sesFile \in SesFiles => IniLookup
  BY SesAssumption, IniLookupFile
<1> QED
  BY <1>1, <1>2, <1>3, PTL DEF SesSpec

(***************************************************************************)
(* SesTypeCorrect: the state of start-up keeps its types for every set of  *)
(* configuration files and every number of calls.                          *)
(***************************************************************************)
THEOREM SesTypeCorrect == SesSpec => []SesTypeOK
<1>1. SesInit => SesTypeOK
  <2> SUFFICES ASSUME SesInit PROVE SesTypeOK
    OBVIOUS
  <2>1. /\ sesFile \in SesFiles /\ sesPc = "idle" /\ sesRet = 0 /\ sesLog = "null"
        /\ sesDb = "raw" /\ sesNonce = 0 /\ sesCalls = 0
    BY Zenon DEF SesInit
  <2> QED
    BY <2>1, SesAssumption DEF SesTypeOK
<1>2. SesTypeOK /\ [SesNext]_sesVars => SesTypeOK'
  <2> SUFFICES ASSUME SesTypeOK, [SesNext]_sesVars PROVE SesTypeOK'
    OBVIOUS
  <2> USE SesAssumption DEF SesTypeOK, SesGo, SesReturn
  <2>1. CASE EChain_InitSDK
    BY <2>1 DEF EChain_InitSDK
  <2>2. CASE InitLog
    BY <2>2 DEF InitLog
  <2>3. CASE InitCertificate
    BY <2>3 DEF InitCertificate
  <2>4. CASE InitDatabase
    BY <2>4 DEF InitDatabase
  <2>5. CASE InitGenesis
    BY <2>5 DEF InitGenesis
  <2>6. CASE UNCHANGED sesVars
    BY <2>6 DEF sesVars
  <2> QED
    BY <2>1, <2>2, <2>3, <2>4, <2>5, <2>6 DEF SesNext
<1> QED
  BY <1>1, <1>2, PTL DEF SesSpec

-----------------------------------------------------------------------------
(***************************************************************************)
(* The paged queries.  Both functions answer with an interval of numbers,  *)
(* which ends where the page before it began; what is added in between     *)
(* moves the interval up, so that pages overlap but never leave a gap.     *)
(***************************************************************************)

(* The rows or blocks before page c. *)
PgOffset(c, p) == (c - 1) * p

(* The lowest number on the page that follows q rows or blocks. *)
PgLow(n, q, p) == IF n - q >= p THEN n - q - p + 1 ELSE 1

LEMMA OffsetFacts ==
    ASSUME NEW c \in Nat \ {0}, NEW p \in Nat \ {0}
    PROVE  /\ PgOffset(c, p) \in Nat
           /\ PgOffset(c + 1, p) = PgOffset(c, p) + p
           /\ c * p = PgOffset(c, p) + p
           /\ PgOffset(1, p) = 0
BY DEF PgOffset

(* The two functions show the same interval. *)
LEMMA RecordPageIs ==
    ASSUME NEW n \in Nat, NEW c \in Nat \ {0}, NEW p \in Nat \ {0}
    PROVE  RecordPage(n, c, p) = PgLow(n, PgOffset(c, p), p) .. (n - PgOffset(c, p))
<1> DEFINE q == PgOffset(c, p)
           low == PgLow(n, q, p)
           end == RecordEnd(n, c, p)
           C == RecordCopied(n, c, p)
<1>1. q \in Nat
  BY OffsetFacts
<1>2. end = IF n < q + p THEN n - 1 ELSE q + p - 1
  BY DEF RecordEnd, IsShort, PgOffset
<1>3. C = {s \in 0 .. (n - 1) : q <= s /\ s <= end}
  BY DEF RecordCopied, RecordStart, PgOffset
<1>4. low = IF n - q >= p THEN n - q - p + 1 ELSE 1
  BY DEF PgLow
<1> HIDE DEF q, low, end
<1>5. \A s \in C : n - s \in low .. (n - q)
  BY <1>1, <1>2, <1>3, <1>4
<1>6. ASSUME NEW x \in low .. (n - q) PROVE n - x \in C /\ x = n - (n - x)
  BY <1>1, <1>2, <1>3, <1>4
<1> HIDE DEF C
<1>7. {n - s : s \in C} = low .. (n - q)
  BY <1>5, <1>6
<1> QED
  BY <1>7 DEF RecordPage, C, low, q

LEMMA BlockPageIs ==
    ASSUME NEW h \in Nat, NEW c \in Nat \ {0}, NEW p \in Nat \ {0}
    PROVE  BlockPage(h, c, p) = PgLow(h, PgOffset(c, p), p) .. (h - PgOffset(c, p))
<1> DEFINE q == PgOffset(c, p)
<1>1. q \in Nat /\ c * p = q + p
  BY OffsetFacts
<1>2. BlockStart(h, c, p) = h - q
  BY DEF BlockStart, PgOffset
<1> HIDE DEF q
<1>3. BlockEnd(h, c, p) = PgLow(h, q, p)
  BY <1>1, <1>2 DEF BlockEnd, PgLow
<1> QED
  BY <1>2, <1>3 DEF BlockPage, q

(* Strictly descending numbers from an interval of the same length are     *)
(* the whole interval: the elements after position k fit below s[k], those *)
(* before it above.                                                        *)
LEMMA DescendingInterval ==
    ASSUME NEW a \in Int, NEW b \in Int, a <= b + 1, NEW s \in NewestFirst(a .. b)
    PROVE  /\ s \in Seq(Int) /\ Len(s) = b - a + 1
           /\ \A k \in 1 .. Len(s) : s[k] = b - k + 1
<1> DEFINE n == b - a + 1
<1>1. IsFiniteSet(a .. b) /\ Cardinality(a .. b) = n /\ n \in Nat
  BY FS_Interval
<1>2. /\ s \in [1 .. n -> a .. b]
      /\ \A i, j \in 1 .. n : i # j => s[i] # s[j]
  BY <1>1 DEF NewestFirst, SetToSeqs
<1>3. \A i, j \in 1 .. n : i < j => s[i] > s[j]
  BY <1>2 DEF NewestFirst
<1> HIDE DEF n
<1>4. s \in Seq(Int) /\ Len(s) = n
  <2>1. s \in [1 .. n -> Int]
    BY <1>2
  <2> QED
    BY <2>1, <1>1
<1>5. ASSUME NEW k \in 1 .. n PROVE s[k] = b - k + 1
  <2>1. s[k] \in Int /\ s[k] \in a .. b
    BY <1>2
  <2>2. n - k <= s[k] - a
    <3> DEFINE D == (k + 1) .. n
               R == a .. (s[k] - 1)
               f == [i \in D |-> s[i]]
    <3>1. f \in [D -> R]
      BY <1>1, <1>2, <1>3, <2>1
    <3>2. \A i, j \in D : f[i] = f[j] => i = j
      BY <1>1, <1>2
    <3>3. IsFiniteSet(R) /\ Cardinality(R) = s[k] - a
      BY <2>1, FS_Interval
    <3>4. Cardinality(D) = n - k
      BY <1>1, FS_Interval
    <3> HIDE DEF D, R, f
    <3>5. f \in Injection(D, R)
      BY <3>1, <3>2 DEF Injection, IsInjective
    <3>6. Cardinality(D) <= Cardinality(R)
      BY <3>5, <3>3, FS_Injection
    <3> QED
      BY <3>3, <3>4, <3>6
  <2>3. k - 1 <= b - s[k]
    <3> DEFINE D == 1 .. (k - 1)
               R == (s[k] + 1) .. b
               f == [i \in D |-> s[i]]
    <3>1. f \in [D -> R]
      BY <1>1, <1>2, <1>3, <2>1
    <3>2. \A i, j \in D : f[i] = f[j] => i = j
      BY <1>1, <1>2
    <3>3. IsFiniteSet(R) /\ Cardinality(R) = b - s[k]
      <4> DEFINE m == s[k] + 1
      <4>1. m \in Int /\ m <= b + 1 /\ b - m + 1 = b - s[k]
        BY <2>1
      <4> HIDE DEF m
      <4>2. IsFiniteSet(m .. b) /\ Cardinality(m .. b) = IF m > b THEN 0 ELSE b - m + 1
        BY <4>1, FS_Interval
      <4>3. Cardinality(m .. b) = b - s[k]
        BY <4>1, <4>2, <2>1
      <4> QED
        BY <4>2, <4>3 DEF m
    <3>4. Cardinality(D) = k - 1
      BY <1>1, FS_Interval
    <3> HIDE DEF D, R, f
    <3>5. f \in Injection(D, R)
      BY <3>1, <3>2 DEF Injection, IsInjective
    <3>6. Cardinality(D) <= Cardinality(R)
      BY <3>5, <3>3, FS_Injection
    <3> QED
      BY <3>3, <3>4, <3>6
  <2> QED
    BY <1>1, <2>1, <2>2, <2>3 DEF n
<1> QED
  BY <1>4, <1>5 DEF n

(* totalPage is the number of pages that n rows need. *)
LEMMA TotalPageIs ==
    ASSUME NEW n \in Nat, NEW p \in Nat \ {0}
    PROVE  /\ TotalPage(n, p) \in Nat
           /\ n <= TotalPage(n, p) * p
           /\ n > 0 => TotalPage(n, p) > 0 /\ (TotalPage(n, p) - 1) * p <= n - 1
           /\ n = 0 => TotalPage(n, p) = 0
<1>1. CASE n = 0
  BY <1>1 DEF TotalPage
<1>2. CASE n > 0
  <2> DEFINE d == (n - 1) \div p
             r == (n - 1) % p
  <2>1. d \in Nat /\ r \in 0 .. (p - 1) /\ n - 1 = p * d + r
    BY <1>2
  <2>2. TotalPage(n, p) = d + 1
    BY <1>2 DEF TotalPage
  <2> HIDE DEF d, r
  <2>3. d * p = p * d /\ (d + 1) * p = p * d + p /\ p * d \in Nat
    BY <2>1
  <2> QED
    BY <1>2, <2>1, <2>2, <2>3
<1> QED
  BY <1>1, <1>2

LEMMA TimesMonotone ==
    ASSUME NEW a \in Int, NEW b \in Int, NEW p \in Nat, a <= b
    PROVE  a * p <= b * p
OBVIOUS

(* The array of a page has room for its rows, and no more for a page that  *)
(* exists.                                                                 *)
LEMMA ArrayFits ==
    ASSUME NEW n \in Nat, NEW p \in Nat \ {0}, NEW c \in Int, c <= TotalPage(n, p)
    PROVE  /\ Cardinality(RecordCopied(n, c, p)) <= RecordNeed(n, c, p)
           /\ c >= 1 => Cardinality(RecordCopied(n, c, p)) = RecordNeed(n, c, p)
<1> DEFINE q == PgOffset(c, p)
           t == TotalPage(n, p)
           end == RecordEnd(n, c, p)
           need == RecordNeed(n, c, p)
           C == RecordCopied(n, c, p)
<1>1. q \in Int /\ q = (c - 1) * p
  BY DEF PgOffset
<1>2. t \in Nat /\ (n > 0 => (t - 1) * p <= n - 1) /\ (n = 0 => t = 0)
  BY TotalPageIs
<1>3. c >= 1 => 0 <= q /\ q <= n - 1
  <2> SUFFICES ASSUME c >= 1 PROVE 0 <= q /\ q <= n - 1
    OBVIOUS
  <2>1. 0 * p <= (c - 1) * p
    BY TimesMonotone
  <2>2. (c - 1) * p <= (t - 1) * p
    BY <1>2, TimesMonotone
  <2>3. n > 0
    BY <1>2
  <2> HIDE DEF t
  <2> QED
    BY <1>1, <1>2, <2>1, <2>2, <2>3
<1>4. c < 1 => q <= -p
  <2> SUFFICES ASSUME c < 1 PROVE q <= -p
    OBVIOUS
  <2>1. (c - 1) * p <= (-1) * p
    BY TimesMonotone
  <2> QED
    BY <1>1, <2>1
<1>5. end = IF n < q + p THEN n - 1 ELSE q + p - 1
  BY DEF RecordEnd, IsShort, PgOffset
<1>6. need = IF n < q + p THEN n - q ELSE p
  BY DEF RecordNeed, IsShort, PgOffset
<1>7. C = {s \in 0 .. (n - 1) : q <= s /\ s <= end}
  BY DEF RecordCopied, RecordStart, PgOffset
<1> HIDE DEF q, t, end, need, C
<1>8. CASE c >= 1
  <2>1. C = q .. end
    BY <1>1, <1>3, <1>5, <1>7, <1>8
  <2>0. end \in Int
    BY <1>1, <1>5
  <2>2. Cardinality(q .. end) = IF q > end THEN 0 ELSE end - q + 1
    BY <1>1, <2>0, FS_Interval
  <2> QED
    BY <1>1, <1>3, <1>5, <1>6, <1>8, <2>1, <2>2 DEF C, need
<1>9. CASE c < 1 /\ n < q + p
  <2>1. C = 0 .. (n - 1)
    BY <1>1, <1>4, <1>5, <1>7, <1>9
  <2>2. Cardinality(0 .. (n - 1)) = n
    BY FS_Interval
  <2> QED
    BY <1>1, <1>4, <1>6, <1>9, <2>1, <2>2 DEF C, need
<1>10. CASE c < 1 /\ ~ (n < q + p)
  <2>1. C = {}
    BY <1>1, <1>4, <1>5, <1>7, <1>10
  <2> QED
    BY <1>6, <1>10, <2>1, FS_EmptySet DEF C, need
<1> QED
  BY <1>8, <1>9, <1>10

(* What the reader has been shown reaches down to the offset of its next   *)
(* page, and as long as nothing was added it is that much, newest first.   *)
PgShown(x) == \E k \in 1 .. Len(pgSeen) : pgSeen[k] = x
PgBehind == PgOffset(pgPage, pgPer)

PgBounds ==
    /\ pgPer \in Nat \ {0} /\ pgNum \in Nat /\ pgFirst \in Nat
    /\ pgPage \in Nat \ {0} /\ pgTotal \in Nat
    /\ pgSeen \in Seq(Int)
    /\ pgFirst <= pgNum

PgReached ==
    /\ \A x \in 1 .. pgFirst : x > pgNum - PgBehind => PgShown(x)
    /\ PgDone => \A x \in 1 .. pgFirst : PgShown(x)

PgExact ==
    pgNum = pgFirst =>
        /\ Len(pgSeen) = IF pgNum < PgBehind THEN pgNum ELSE PgBehind
        /\ \A k \in 1 .. Len(pgSeen) : pgSeen[k] = pgNum - k + 1

PgInv ==
    /\ PgBounds /\ PgReached /\ PgExact
    /\ pgPage = 1 => pgFirst = 0 /\ pgSeen = <<>>

LEMMA PgInitInv == PgInit => PgInv
<1> SUFFICES ASSUME PgInit PROVE PgInv
  OBVIOUS
<1>1. /\ pgPer \in Nat \ {0} /\ pgNum \in {0, 1} /\ pgPage = 1 /\ pgTotal = 1
      /\ pgFirst = 0 /\ pgSeen = <<>>
  BY PgAssumption DEF PgInit
<1>2. PgBehind = 0
  BY <1>1, OffsetFacts DEF PgBehind
<1>3. Len(pgSeen) = 0 /\ pgSeen \in Seq(Int)
  BY <1>1
<1>4. PgBounds
  BY <1>1, <1>3 DEF PgBounds
<1>5. PgReached
  BY <1>1 DEF PgReached, PgDone
<1>6. PgExact
  BY <1>1, <1>2, <1>3 DEF PgExact
<1> QED
  BY <1>1, <1>4, <1>5, <1>6 DEF PgInv

(* A new row or block moves down what is still to be shown. *)
LEMMA PgAddInv == PgInv /\ PgAdd => PgInv'
<1> SUFFICES ASSUME PgInv, PgAdd PROVE PgInv'
  OBVIOUS
<1>1. /\ pgNum' = pgNum + 1 /\ pgPer' = pgPer /\ pgPage' = pgPage /\ pgTotal' = pgTotal
      /\ pgFirst' = pgFirst /\ pgSeen' = pgSeen
  BY DEF PgAdd
<1>2. PgBehind' = PgBehind /\ PgBehind \in Nat
  BY <1>1, OffsetFacts DEF PgBehind, PgInv, PgBounds
<1>3. PgBounds' /\ (pgNum' # pgFirst')
  BY <1>1 DEF PgInv, PgBounds
<1>4. \A x : PgShown(x)' <=> PgShown(x)
  BY <1>1 DEF PgShown
<1>5. PgDone' <=> PgDone
  BY <1>1 DEF PgDone
<1>6. PgReached'
  BY <1>1, <1>2, <1>4, <1>5 DEF PgReached, PgInv, PgBounds
<1>7. PgExact'
  BY <1>3 DEF PgExact
<1> QED
  BY <1>1, <1>3, <1>6, <1>7 DEF PgInv

(* The next page. *)
LEMMA PgShowInv ==
    ASSUME PgInv, PgShow(PgLow(pgNum, PgBehind, pgPer) .. (pgNum - PgBehind))
    PROVE  PgInv'
<1> DEFINE q == PgBehind
           n == pgNum
           p == pgPer
           low == PgLow(n, q, p)
           high == n - q
           total == TotalPage(n, p)
           first == IF pgPage = 1 THEN n ELSE pgFirst
<1>1. /\ p \in Nat \ {0} /\ n \in Nat /\ pgFirst \in Nat /\ pgPage \in Nat \ {0}
      /\ pgSeen \in Seq(Int) /\ pgFirst <= n
  BY DEF PgInv, PgBounds
<1>2. /\ pgNum' = n /\ pgPer' = p /\ pgPage' = pgPage + 1 /\ pgTotal' = total
      /\ pgFirst' = first
  BY DEF PgShow
<1>3. q \in Nat /\ PgBehind' = q + p /\ (pgPage + 1 - 1) * p = q + p
  <2>1. q \in Nat /\ PgOffset(pgPage + 1, p) = q + p /\ pgPage * p = q + p
    BY <1>1, OffsetFacts DEF PgBehind
  <2>2. pgPage + 1 - 1 = pgPage
    BY <1>1
  <2> QED
    BY <2>1, <2>2, <1>2 DEF PgBehind
<1>4. low = IF high >= p THEN high - p + 1 ELSE 1
  BY DEF PgLow
<1>5. PICK s \in NewestFirst(low .. high) : pgSeen' = pgSeen \o s
  BY DEF PgShow
<1>6. total \in Nat /\ n <= total * p
  BY <1>1, TotalPageIs
<1>7. first \in Nat /\ first <= n
  BY <1>1
<1>8. pgPage = 1 => q = 0 /\ pgSeen = <<>>
  BY <1>1, OffsetFacts DEF PgInv, PgBehind
<1>9. pgPage # 1 => first = pgFirst
  BY <1>1
<1>10. \A x \in 1 .. pgFirst : x > high => PgShown(x)
  BY DEF PgInv, PgReached
<1>11. n = pgFirst => /\ Len(pgSeen) = IF n < q THEN n ELSE q
                      /\ \A k \in 1 .. Len(pgSeen) : pgSeen[k] = n - k + 1
  BY DEF PgInv, PgExact
<1> HIDE DEF q, n, p, low, high, total, first
<1>12. high \in Int /\ high = n - q /\ low \in Int
  BY <1>1, <1>3, <1>4 DEF high
<1>13. /\ s \in Seq(Int) /\ Len(s) = IF high < low THEN 0 ELSE high - low + 1
       /\ \A k \in 1 .. Len(s) : s[k] = high - k + 1
  <2>1. CASE low <= high + 1
    BY <1>12, <1>5, <2>1, DescendingInterval
  <2>2. CASE ~ (low <= high + 1)
    <3>1. low .. high = {}
      BY <1>12, <2>2
    <3>2. s \in SetToSeqs({}) /\ Cardinality({}) = 0
      BY <1>5, <3>1, FS_EmptySet DEF NewestFirst
    <3>3. s \in [1 .. 0 -> {}]
      BY <3>2 DEF SetToSeqs
    <3>4. s \in Seq(Int) /\ Len(s) = 0
      BY <3>3
    <3> QED
      BY <1>12, <2>2, <3>4
  <2> QED
    BY <2>1, <2>2
<1>14. /\ pgSeen' \in Seq(Int) /\ Len(pgSeen') = Len(pgSeen) + Len(s)
       /\ Len(pgSeen) \in Nat /\ Len(s) \in Nat
       /\ \A k \in 1 .. Len(pgSeen) : pgSeen'[k] = pgSeen[k]
       /\ \A k \in 1 .. Len(s) : pgSeen'[Len(pgSeen) + k] = s[k]
  BY <1>1, <1>5, <1>13
<1>15. \A x : PgShown(x) => PgShown(x)'
  BY <1>14 DEF PgShown
<1>16. ASSUME NEW x \in low .. high PROVE PgShown(x)'
  <2> DEFINE k == high - x + 1
  <2>0. x \in Int /\ low <= x /\ x <= high /\ Len(s) = high - low + 1
    BY <1>12, <1>13
  <2>1. k \in 1 .. Len(s) /\ high - k + 1 = x
    BY <1>12, <2>0
  <2> HIDE DEF k
  <2>2. s[k] = x
    BY <1>13, <2>1
  <2>3. Len(pgSeen) + k \in 1 .. Len(pgSeen') /\ pgSeen'[Len(pgSeen) + k] = x
    BY <1>14, <2>1, <2>2
  <2> QED
    BY <2>3 DEF PgShown
<1>17. ASSUME NEW x \in 1 .. first, x > n - (q + p) PROVE PgShown(x)'
  <2>1. CASE x <= high
    <3>1. x \in low .. high
      BY <1>1, <1>3, <1>4, <1>7, <1>12, <1>17, <2>1
    <3> QED
      BY <3>1, <1>16
  <2>2. CASE x > high
    <3>1. pgPage # 1
      BY <1>1, <1>7, <1>8, <1>12, <2>2
    <3>2. PgShown(x)
      BY <3>1, <1>9, <1>10, <2>2
    <3> QED
      BY <3>2, <1>15
  <2> QED
    BY <1>7, <1>12, <2>1, <2>2
<1>18. PgReached'
  <2>1. PgDone' => n - (q + p) <= 0
    <3> SUFFICES ASSUME PgDone' PROVE n <= q + p
      BY <1>1, <1>3
    <3>1. total <= pgPage + 1 - 1
      BY <1>1, <1>2, <1>6 DEF PgDone
    <3>2. total * p <= (pgPage + 1 - 1) * p
      BY <1>1, <1>6, <3>1, TimesMonotone
    <3>3. total * p \in Int
      BY <1>1, <1>6
    <3> QED
      BY <1>1, <1>3, <1>6, <3>2, <3>3
  <2>2. ASSUME NEW x \in 1 .. first, PgDone' PROVE PgShown(x)'
    <3>1. x > n - (q + p)
      BY <1>1, <1>3, <1>7, <2>1, <2>2
    <3> QED
      BY <3>1, <1>17
  <2> QED
    BY <1>2, <1>3, <1>17, <2>2 DEF PgReached
<1>19. PgExact'
  <2> SUFFICES ASSUME n = first
               PROVE  /\ Len(pgSeen') = IF n < q + p THEN n ELSE q + p
                      /\ \A k \in 1 .. Len(pgSeen') : pgSeen'[k] = n - k + 1
    BY <1>2, <1>3 DEF PgExact
  <2>1. /\ Len(pgSeen) = IF n < q THEN n ELSE q
        /\ \A k \in 1 .. Len(pgSeen) : pgSeen[k] = n - k + 1
    <3>1. CASE pgPage = 1
      BY <3>1, <1>1, <1>8
    <3>2. CASE pgPage # 1
      BY <3>2, <1>9, <1>11
    <3> QED
      BY <3>1, <3>2
  <2>2. Len(pgSeen') = IF n < q + p THEN n ELSE q + p
    BY <1>1, <1>3, <1>4, <1>12, <1>13, <1>14, <2>1
  <2>3. ASSUME NEW k \in 1 .. Len(pgSeen') PROVE pgSeen'[k] = n - k + 1
    <3>1. CASE k <= Len(pgSeen)
      BY <1>14, <2>1, <3>1
    <3>2. CASE k > Len(pgSeen)
      <4> DEFINE j == k - Len(pgSeen)
      <4>1. j \in 1 .. Len(s) /\ k = Len(pgSeen) + j
        BY <1>14, <3>2
      <4>2. pgSeen'[k] = high - j + 1
        BY <4>1, <1>13, <1>14
      <4>3. Len(pgSeen) = q
        BY <4>1, <1>1, <1>3, <1>4, <1>12, <1>13, <1>14, <2>1
      <4> QED
        BY <4>1, <4>2, <4>3, <1>1, <1>3, <1>12
    <3> QED
      BY <1>14, <3>1, <3>2
  <2> QED
    BY <2>2, <2>3
<1>20. PgBounds'
  BY <1>1, <1>2, <1>6, <1>7, <1>14 DEF PgBounds
<1>21. pgPage' # 1
  BY <1>1, <1>2
<1> QED
  BY <1>18, <1>19, <1>20, <1>21 DEF PgInv

LEMMA PgInductive == PgInv /\ [PgNext]_pgVars => PgInv'
<1> SUFFICES ASSUME PgInv, [PgNext]_pgVars PROVE PgInv'
  OBVIOUS
<1>0. pgNum \in Nat /\ pgPage \in Nat \ {0} /\ pgPer \in Nat \ {0}
  BY DEF PgInv, PgBounds
<1>1. CASE PgAdd
  BY <1>1, PgAddInv
<1>2. CASE EChain_QueryAddressRecord
  <2>1. RecordPage(pgNum, pgPage, pgPer) = PgLow(pgNum, PgBehind, pgPer) .. (pgNum - PgBehind)
    BY <1>0, RecordPageIs DEF PgBehind
  <2> QED
    BY <1>2, <2>1, PgShowInv DEF EChain_QueryAddressRecord
<1>3. CASE EChain_QueryBlockBrowserInfo
  <2>1. BlockPage(pgNum, pgPage, pgPer) = PgLow(pgNum, PgBehind, pgPer) .. (pgNum - PgBehind)
    BY <1>0, BlockPageIs DEF PgBehind
  <2> QED
    BY <1>3, <2>1, PgShowInv DEF EChain_QueryBlockBrowserInfo
<1>4. CASE UNCHANGED pgVars
  BY <1>4 DEF pgVars, PgInv, PgBounds, PgReached, PgExact, PgShown, PgBehind, PgDone
<1> QED
  BY <1>1, <1>2, <1>3, <1>4 DEF PgNext

(***************************************************************************)
(* A reader of EChain_QueryAddressRecord or EChain_QueryBlockBrowserInfo   *)
(* that goes on to totalPage has been shown everything there was when it   *)
(* began, for every page size and whatever is added meanwhile; without     *)
(* additions the pages follow each other without gap or repetition; and    *)
(* the array of a page up to totalPage has the right length.               *)
(***************************************************************************)
THEOREM PagesAreComplete == PgSpec => []PgComplete
<1>1. PgInv => PgComplete
  <2> SUFFICES ASSUME PgInv PROVE PgComplete
    OBVIOUS
  <2>1. PgDone => 1 .. pgFirst \subseteq ToSet(pgSeen)
    <3>1. pgSeen \in Seq(Int)
      BY DEF PgInv, PgBounds
    <3> QED
      BY <3>1 DEF PgInv, PgReached, PgShown, ToSet
  <2>2. (pgNum = pgFirst) => pgSeen = [k \in 1 .. Len(pgSeen) |-> pgNum - k + 1]
    <3>1. pgSeen \in Seq(Int)
      BY DEF PgInv, PgBounds
    <3> QED
      BY <3>1 DEF PgInv, PgExact
  <2>3. ASSUME NEW c \in -1 .. TotalPage(pgNum, pgPer)
        PROVE  /\ Cardinality(RecordCopied(pgNum, c, pgPer)) <= RecordNeed(pgNum, c, pgPer)
               /\ c >= 1 => Cardinality(RecordCopied(pgNum, c, pgPer)) = RecordNeed(pgNum, c, pgPer)
    <3>1. pgNum \in Nat /\ pgPer \in Nat \ {0}
      BY DEF PgInv, PgBounds
    <3>2. c \in Int /\ c <= TotalPage(pgNum, pgPer)
      BY <3>1, TotalPageIs
    <3> QED
      BY <3>1, <3>2, ArrayFits
  <2> QED
    BY <2>1, <2>2, <2>3 DEF PgComplete
<1> QED
  BY <1>1, PgInitInv, PgInductive, PTL DEF PgSpec

(* What a page shows are numbers of rows or blocks that exist. *)
LEMMA PgShowType ==
    ASSUME PgInv, PgTypeOK, PgShow(PgLow(pgNum, PgBehind, pgPer) .. (pgNum - PgBehind))
    PROVE  PgTypeOK'
<1> DEFINE low == PgLow(pgNum, PgBehind, pgPer)
           high == pgNum - PgBehind
<1>1. /\ pgPer \in Nat \ {0} /\ pgNum \in Nat /\ pgPage \in Nat \ {0} /\ pgNum <= PgMax
      /\ pgSeen \in Seq(1 .. PgMax)
  BY PgAssumption DEF PgInv, PgBounds, PgTypeOK
<1>2. PgBehind \in Nat
  BY <1>1, OffsetFacts DEF PgBehind
<1>3. low \in Nat \ {0} /\ high \in Int /\ high <= PgMax
  BY <1>1, <1>2, PgAssumption DEF PgLow
<1>4. PICK s \in NewestFirst(low .. high) : pgSeen' = pgSeen \o s
  BY DEF PgShow
<1>5. /\ pgTotal' = TotalPage(pgNum, pgPer) /\ pgPage' = pgPage + 1
      /\ pgFirst' = (IF pgPage = 1 THEN pgNum ELSE pgFirst)
      /\ pgKind' = pgKind /\ pgPer' = pgPer /\ pgNum' = pgNum
  BY DEF PgShow
<1> HIDE DEF low, high
<1>6. s \in Seq(1 .. PgMax)
  <2>1. IsFiniteSet(low .. high) /\ Cardinality(low .. high) \in Nat
    BY <1>3, FS_Interval, FS_CardinalityType
  <2>2. s \in [1 .. Cardinality(low .. high) -> low .. high]
    BY DEF NewestFirst, SetToSeqs, IsInjective
  <2>3. low .. high \subseteq 1 .. PgMax
    BY <1>3, PgAssumption
  <2> DEFINE T == 1 .. PgMax
             n == Cardinality(low .. high)
  <2>4. n \in Nat /\ s \in [1 .. n -> T]
    BY <2>1, <2>2, <2>3
  <2> HIDE DEF T, n
  <2>5. s \in Seq(T)
    BY <2>4
  <2> QED
    BY <2>5 DEF T
<1>7. pgSeen' \in Seq(1 .. PgMax)
  BY <1>1, <1>4, <1>6
<1>8. TotalPage(pgNum, pgPer) \in Nat
  BY <1>1, TotalPageIs
<1> QED
  BY <1>1, <1>5, <1>7, <1>8 DEF PgTypeOK

(***************************************************************************)
(* A reader of the paged queries is shown numbers of existing rows or      *)
(* blocks only: never one before the first, although the start of a page   *)
(* that was moved by additions is computed by subtraction.                 *)
(***************************************************************************)
THEOREM PageTypes == PgSpec => []PgTypeOK
<1>1. PgInit => PgTypeOK
  <2> SUFFICES ASSUME PgInit PROVE PgTypeOK
    OBVIOUS
  <2>1. /\ pgKind \in {"record", "block"} /\ pgPer \in PgPer /\ pgPage = 1 /\ pgTotal = 1
        /\ pgFirst = 0 /\ pgSeen = <<>> /\ pgNum = (IF pgKind = "block" THEN 1 ELSE 0)
    BY DEF PgInit
  <2>2. pgNum \in 0 .. PgMax /\ pgFirst \in 0 .. PgMax /\ pgPage \in Nat /\ pgTotal \in Nat
    BY <2>1, PgAssumption
  <2>3. pgSeen \in Seq(1 .. PgMax)
    BY <2>1
  <2> QED
    BY <2>1, <2>2, <2>3 DEF PgTypeOK
<1>2. PgInv /\ PgTypeOK /\ [PgNext]_pgVars => PgTypeOK'
  <2> SUFFICES ASSUME PgInv, PgTypeOK, [PgNext]_pgVars PROVE PgTypeOK'
    OBVIOUS
  <2>0. pgNum \in Nat /\ pgPage \in Nat \ {0} /\ pgPer \in Nat \ {0}
    BY DEF PgInv, PgBounds
  <2>1. CASE PgAdd
    BY <2>1, PgAssumption DEF PgAdd, PgTypeOK
  <2>2. CASE EChain_QueryAddressRecord
    <3>1. RecordPage(pgNum, pgPage, pgPer) = PgLow(pgNum, PgBehind, pgPer) .. (pgNum - PgBehind)
      BY <2>0, RecordPageIs DEF PgBehind
    <3> QED
      BY <2>2, <3>1, PgShowType DEF EChain_QueryAddressRecord
  <2>3. CASE EChain_QueryBlockBrowserInfo
    <3>1. BlockPage(pgNum, pgPage, pgPer) = PgLow(pgNum, PgBehind, pgPer) .. (pgNum - PgBehind)
      BY <2>0, BlockPageIs DEF PgBehind
    <3> QED
      BY <2>3, <3>1, PgShowType DEF EChain_QueryBlockBrowserInfo
  <2>4. CASE UNCHANGED pgVars
    BY <2>4 DEF pgVars, PgTypeOK
  <2> QED
    BY <2>1, <2>2, <2>3, <2>4 DEF PgNext
<1> QED
  BY <1>1, <1>2, PgInitInv, PgInductive, PTL DEF PgSpec

=============================================================================

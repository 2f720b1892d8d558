------------------------------- MODULE SdkLog -------------------------------
(***************************************************************************)
(* The SDK's log file (src/test/api_echain_func.cpp): NBDLog prints under  *)
(* logmutex and then, without it, compares the globals g_curTime and       *)
(* g_cmpTime; every LgPeriod minutes some caller runs ChangeLogFile, which *)
(* replaces the global logfile under logmutex when the day in its name is  *)
(* over or the file is full.                                               *)
(*                                                                         *)
(* The clock counts minutes: a log file's name has the minute it was       *)
(* opened at, so a name is that time.  Time 0 is the empty logfile_name    *)
(* that goes with logfile = stderr.  A file's content is its number of     *)
(* lines; fopen with "w+" empties a file of that name.                     *)
(***************************************************************************)
EXTENDS Naturals

CONSTANTS LgThread,   \* the threads that log
          LgNobody,   \* the owner of a free logmutex
          LgNull,     \* logfile == NULL
          LgPeriod,   \* 180 s
          LgDay,      \* a day
          LgFull,     \* 20 MB, in lines
          LgRate,     \* the lines that can be printed in a minute
          LgStart,    \* the time of EChain_InitSDK
          LgMaxTime   \* bound: the clock

ASSUME LgAssumption ==
    /\ LgNobody \notin LgThread
    /\ LgNull \notin Nat
    /\ LgPeriod \in Nat \ {0} /\ LgDay \in Nat \ {0}
    /\ LgFull \in Nat /\ LgRate \in Nat /\ LgRate < LgFull
    /\ LgMaxTime \in Nat /\ LgStart \in Nat
    /\ LgStart >= LgDay /\ LgStart >= LgPeriod /\ LgStart <= LgMaxTime

VARIABLES lgNow,     \* time(NULL)
          lgMutex,   \* the owner of logmutex
          lgPc,      \* where each thread is
          lgFile,    \* logfile
          lgName,    \* logfile_name
          lgSize,    \* the lines of each file
          lgCur,     \* g_curTime
          lgCmp,     \* g_cmpTime
          lgMinute,  \* lines printed in the current minute
          lgFailed,  \* history: an fopen has failed
          lgBad,     \* history: fprintf or fclose was called with NULL
          lgLost     \* history: fopen has emptied a file with lines

lgVars == <<lgNow, lgMutex, lgPc, lgFile, lgName, lgSize, lgCur, lgCmp,
            lgMinute, lgFailed, lgBad, lgLost>>

LgTime == 0 .. LgMaxTime

LgTypeOK ==
    /\ lgNow \in LgTime /\ lgName \in LgTime /\ lgCur \in LgTime /\ lgCmp \in LgTime
    /\ lgMutex \in LgThread \cup {LgNobody}
    /\ lgPc \in [LgThread -> {"idle", "lock", "print", "time", "test", "set",
                              "change", "check", "open"}]
    /\ lgFile \in LgTime \cup {LgNull}
    /\ lgSize \in [LgTime -> Nat]
    /\ lgMinute \in 0 .. LgRate
    /\ lgFailed \in BOOLEAN /\ lgBad \in BOOLEAN /\ lgLost \in BOOLEAN

\* EChain_InitSDK has opened the file of the minute and set both times, or
\* it has set logfile = stderr and nothing else.
LgInit ==
    /\ lgNow = LgStart
    /\ lgMutex = LgNobody
    /\ lgPc = [t \in LgThread |-> "idle"]
    /\ lgFile \in {0, LgStart} /\ lgName = lgFile
    /\ lgSize = [n \in LgTime |-> 0]
    /\ lgCur = lgFile /\ lgCmp = lgFile
    /\ lgMinute = 0
    /\ lgFailed = FALSE /\ lgBad = FALSE /\ lgLost = FALSE

LgDayOf(n) == n \div LgDay

-----------------------------------------------------------------------------
LgTick ==
    /\ lgNow < LgMaxTime
    /\ lgNow' = lgNow + 1
    /\ lgMinute' = 0
    /\ UNCHANGED <<lgMutex, lgPc, lgFile, lgName, lgSize, lgCur, lgCmp,
                   lgFailed, lgBad, lgLost>>

LgGo(t, from, to) ==
    /\ lgPc[t] = from
    /\ lgPc' = [lgPc EXCEPT ![t] = to]

LgKeep == UNCHANGED <<lgNow, lgSize, lgMinute, lgFailed, lgBad, lgLost>>

-----------------------------------------------------------------------------
(* NBDLog *)

NBDLog(t) ==
    /\ lgMinute < LgRate
    /\ LgGo(t, "idle", "lock")
    /\ LgKeep /\ UNCHANGED <<lgMutex, lgFile, lgName, lgCur, lgCmp>>

NBDLogLock(t) ==
    /\ lgMutex = LgNobody
    /\ LgGo(t, "lock", "print")
    /\ lgMutex' = t
    /\ LgKeep /\ UNCHANGED <<lgFile, lgName, lgCur, lgCmp>>

\* fprintf, vfprintf, fflush and logmutex.Unlock().
NBDLogPrint(t) ==
    /\ LgGo(t, "print", "time")
    /\ lgMinute < LgRate
    /\ lgMinute' = lgMinute + 1
    /\ lgBad' = (lgBad \/ lgFile = LgNull)
    /\ lgSize' = IF lgFile = LgNull THEN lgSize
                 ELSE [lgSize EXCEPT ![lgFile] = @ + 1]
    /\ lgMutex' = LgNobody
    /\ UNCHANGED <<lgNow, lgFile, lgName, lgCur, lgCmp, lgFailed, lgLost>>

NBDLogTime(t) ==
    /\ LgGo(t, "time", "test")
    /\ lgCur' = lgNow
    /\ LgKeep /\ UNCHANGED <<lgMutex, lgFile, lgName, lgCmp>>

\* Mutant: g_cmpTime follows the clock on every call.
NBDLogTest_Always(t) ==
    /\ LgGo(t, "test", IF lgCur >= lgCmp + LgPeriod THEN "set" ELSE "idle")
    /\ lgCmp' = lgCur
    /\ LgKeep /\ UNCHANGED <<lgMutex, lgFile, lgName, lgCur>>

NBDLogTest(t) ==
    /\ LgGo(t, "test", IF lgCur >= lgCmp + LgPeriod THEN "set" ELSE "idle")
    /\ LgKeep /\ UNCHANGED <<lgMutex, lgFile, lgName, lgCur, lgCmp>>

\* g_curTime may be another thread's by now.
NBDLogSet(t) ==
    /\ LgGo(t, "set", "change")
    /\ lgCmp' = lgCur
    /\ LgKeep /\ UNCHANGED <<lgMutex, lgFile, lgName, lgCur>>

-----------------------------------------------------------------------------
(* ChangeLogFile *)

\* Mutant: ChangeLogFile does not take the lock.
ChangeLogFileLock_None(t) ==
    /\ LgGo(t, "change", "check")
    /\ LgKeep /\ UNCHANGED <<lgMutex, lgFile, lgName, lgCur, lgCmp>>

ChangeLogFileLock(t) ==
    /\ lgMutex = LgNobody
    /\ LgGo(t, "change", "check")
    /\ lgMutex' = t
    /\ LgKeep /\ UNCHANGED <<lgFile, lgName, lgCur, lgCmp>>

\* getFileLength(logfile_name) >= 20 MB
IsFull == lgSize[lgName] >= LgFull

NeedsChange == LgDayOf(lgName) # LgDayOf(lgNow) \/ IsFull

ChangeLogFileKeep(t) ==
    /\ ~ NeedsChange
    /\ LgGo(t, "check", "idle")
    /\ lgMutex' = LgNobody
    /\ LgKeep /\ UNCHANGED <<lgFile, lgName, lgCur, lgCmp>>

\* fclose, logfile = NULL and the new name.
ChangeLogFileClose(t) ==
    /\ NeedsChange
    /\ LgGo(t, "check", "open")
    /\ lgBad' = (lgBad \/ lgFile = LgNull)
    /\ lgFile' = LgNull
    /\ lgName' = lgNow
    /\ UNCHANGED <<lgNow, lgMutex, lgSize, lgCur, lgCmp, lgMinute, lgFailed, lgLost>>

\* fopen, which may fail, and logmutex.Unlock().
ChangeLogFileOpen(t) ==
    /\ LgGo(t, "open", "idle")
    /\ \/ /\ lgFile' = lgName
          /\ lgLost' = (lgLost \/ lgSize[lgName] > 0)
          /\ lgSize' = [lgSize EXCEPT ![lgName] = 0]
          /\ UNCHANGED lgFailed
       \/ /\ lgFailed' = TRUE
          /\ UNCHANGED <<lgFile, lgLost, lgSize>>
    /\ lgMutex' = LgNobody
    /\ UNCHANGED <<lgNow, lgName, lgCur, lgCmp, lgMinute, lgBad>>

ChangeLogFile(t) ==
    \/ ChangeLogFileLock(t)
    \/ ChangeLogFileKeep(t)
    \/ ChangeLogFileClose(t)
    \/ ChangeLogFileOpen(t)

-----------------------------------------------------------------------------
LgNext ==
    \/ LgTick
    \/ \E t \in LgThread :
          \/ NBDLog(t) \/ NBDLogLock(t) \/ NBDLogPrint(t)
          \/ NBDLogTime(t) \/ NBDLogTest(t) \/ NBDLogSet(t)
          \/ ChangeLogFile(t)

LgSpec == LgInit /\ [][LgNext]_lgVars

-----------------------------------------------------------------------------
(***************************************************************************)
(* LgFilesIntact: although the test of the time is not protected, several  *)
(* threads may find the log due at once, and a thread may come late to     *)
(* ChangeLogFile after others have changed the file, no thread prints to   *)
(* or closes a file that is not open, unless an fopen of ChangeLogFile has *)
(* failed (then the next NBDLog calls fprintf with NULL), and no file that *)
(* has lines is emptied: names have a resolution of a minute, within which *)
(* a file cannot fill up.                                                  *)
(***************************************************************************)
LgFilesIntact ==
    /\ lgBad => lgFailed
    /\ ~ lgLost

(***************************************************************************)
(* LgDayIsFollowed: no new day is missed through the race on g_curTime and *)
(* g_cmpTime: once no thread is on its way to ChangeLogFile, the log's day *)
(* is not before that of g_cmpTime, from which the next check is counted.  *)
(***************************************************************************)
LgDayIsFollowed ==
    (\A t \in LgThread : lgPc[t] \notin {"set", "change", "check", "open"})
        => LgDayOf(lgName) >= LgDayOf(lgCmp)

=============================================================================

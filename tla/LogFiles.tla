----------------------------- MODULE LogFiles -----------------------------
(***************************************************************************)
(* utils::Logger and one of its file writers (src/utils/logger.cpp): every *)
(* line is written under mutex_, the writer renames a full or old file to  *)
(* a backup named after its begin and end in seconds, and CheckExpiredLog, *)
(* which does not take mutex_, deletes what is older than expire_days_.    *)
(*                                                                         *)
(* One time unit is a second for names and an hour for the check.  A file  *)
(* is the set of the numbers of its lines; its first line may be the head  *)
(* that a rotation writes.  On the build's system create_time_ is the time *)
(* of the last change, as modify_time_ is.                                 *)
(***************************************************************************)
EXTENDS Integers, Sequences, FiniteSets

CONSTANTS LwTimeCap,   \* time_capacity_
          LwSizeCap,   \* size_capacity_, in lines
          LwExpire,    \* expire_days_
          LwMaxTime,   \* bound on the time
          LwMaxLines   \* bound on the lines

ASSUME LwAssumption ==
    /\ LwTimeCap \in Nat /\ LwSizeCap \in Nat /\ LwExpire \in Nat
    /\ LwMaxTime \in Nat /\ LwMaxLines \in Nat

VARIABLES lwNow,    \* the time
          lwFiles,  \* the files of the log directory
          lwPtr,    \* file_ptr_: "null", "open", "unlinked" (open, but without a name), "crashed"
          lwSize,   \* size_
          lwBegin,  \* begin_time_
          lwWhen,   \* lwWhen[i] is the time when line i was written
          lwLost,   \* lines given up by a truncation, an overwritten backup or a deleted log file
          lwSweep   \* CheckExpiredLog: files still to look at, file to delete, last check

lwVars == <<lwNow, lwFiles, lwPtr, lwSize, lwBegin, lwWhen, lwLost, lwSweep>>

-----------------------------------------------------------------------------
Live == <<-1, -1>>           \* the name of the log file; a backup's is <<from, to>>
Backup(from, to) == <<from, to>>
NoName == <<-2, -2>>

Empty(head) == [lines |-> {}, head |-> head, at |-> lwNow]
SizeOf(f) == Cardinality(f.lines) + f.head

Without(name) == [n \in DOMAIN lwFiles \ {name} |-> lwFiles[n]]
Put(files, name, f) == [n \in DOMAIN files \cup {name} |-> IF n = name THEN f ELSE files[n]]
LinesOf(name) == IF name \in DOMAIN lwFiles THEN lwFiles[name].lines ELSE {}

\* The directory is empty or has the log file of an earlier process.
LwInit ==
    /\ lwNow = 0
    /\ \E names \in SUBSET {Live} : lwFiles = [n \in names |-> Empty(1)]
    /\ lwPtr = "null" /\ lwSize = 0 /\ lwBegin = 0
    /\ lwWhen = <<>>
    /\ lwLost = {}
    /\ lwSweep = [todo |-> {}, name |-> NoName, last |-> 0, busy |-> FALSE]

LwTick ==
    /\ lwNow < LwMaxTime
    /\ lwNow' = lwNow + 1
    /\ UNCHANGED <<lwFiles, lwPtr, lwSize, lwBegin, lwWhen, lwLost, lwSweep>>

\* Initialize: the writer opens its file to append to it or to start anew.
Initialize(open_mode) ==
    LET old == open_mode /\ Live \in DOMAIN lwFiles
        f == IF old THEN lwFiles[Live] ELSE Empty(0)
    IN  /\ lwPtr = "null"
        /\ lwPtr' = "open"
        /\ lwFiles' = Put(lwFiles, Live, f)
        /\ lwBegin' = f.at
        /\ lwSize' = SizeOf(f)
        /\ lwLost' = IF open_mode THEN lwLost ELSE lwLost \cup LinesOf(Live)
        /\ UNCHANGED <<lwNow, lwWhen, lwSweep>>

\* Exit
LwExit ==
    /\ lwPtr \in {"open", "unlinked"}
    /\ lwPtr' = "null"
    /\ UNCHANGED <<lwNow, lwFiles, lwSize, lwBegin, lwWhen, lwLost, lwSweep>>

\* The test of Write: size is the length of the file that is open now.
MustRotate(size) == size > LwSizeCap \/ lwBegin + LwTimeCap <= lwNow

\* A file that was unlinked while it was open gets longer by the lines that
\* are lost in it.
OpenSize == IF lwPtr = "open" THEN SizeOf(lwFiles[Live]) ELSE lwSize + 1

NewLine == Len(lwWhen) + 1

\* Append the line to the file f of the directory files; the rest of Write.
Append1(files, f, size) ==
    /\ lwFiles' = Put(files, Live, [f EXCEPT !.lines = @ \cup {NewLine}, !.at = lwNow])
    /\ lwSize' = size
    /\ lwWhen' = Append(lwWhen, lwNow)

\* Write without a rotation.
Plain ==
    /\ lwPtr \in {"open", "unlinked"} /\ ~MustRotate(OpenSize)
    /\ IF lwPtr = "open"
       THEN Append1(lwFiles, lwFiles[Live], OpenSize) /\ UNCHANGED lwLost
       ELSE /\ lwSize' = OpenSize
            /\ lwWhen' = Append(lwWhen, lwNow)
            /\ lwLost' = lwLost \cup {NewLine}
            /\ UNCHANGED lwFiles
    /\ UNCHANGED <<lwPtr, lwBegin>>

\* How the backup goes: the rename succeeds, the copy that stands in for it
\* does, that one fails too, or it fails half way.
BackupWays == {"moved", "copied", "failed", "half"}

\* The directory after it: a backup of that name is replaced, also by a copy
\* that fails half way, of whose lines none is relied on.
BackedUp(how) ==
    IF how = "failed" \/ Live \notin DOMAIN lwFiles THEN lwFiles
    ELSE Put(IF how = "moved" THEN Without(Live) ELSE lwFiles,
             Backup(lwBegin, lwNow), IF how = "half" THEN Empty(0) ELSE lwFiles[Live])

\* Lines of the log file, and of a backup with the same name, that have no
\* file any more.
Dropped(how) ==
    (IF how \in {"failed", "half"} THEN LinesOf(Live) ELSE {})
        \cup (IF how # "failed" THEN LinesOf(Backup(lwBegin, lwNow)) ELSE {})

\* Write with a rotation: the file is opened with "wb", and when that fails
\* Write goes on with a null pointer.
Rotated(how) ==
    /\ lwPtr \in {"open", "unlinked"} /\ MustRotate(OpenSize)
    /\ \/ /\ Append1(BackedUp(how), Empty(1), 1)
          /\ lwPtr' = "open" /\ lwBegin' = lwNow
          /\ lwLost' = lwLost \cup Dropped(how)
       \/ /\ lwPtr' = "crashed"
          /\ lwFiles' = BackedUp(how)
          /\ UNCHANGED <<lwSize, lwBegin, lwWhen, lwLost>>

\* LogStub: the line is dropped when the writer has no file.
NotReady == lwPtr = "null" /\ UNCHANGED <<lwFiles, lwPtr, lwSize, lwBegin, lwWhen, lwLost>>

Write == /\ NewLine <= LwMaxLines
         /\ Plain \/ NotReady \/ \E how \in BackupWays : Rotated(how)

LogStub == Write /\ UNCHANGED <<lwNow, lwSweep>>

-----------------------------------------------------------------------------
(***************************************************************************)
(* CheckExpiredLog, at most once an hour: list the files, then for each    *)
(* one log a line and delete it if it has expired.                         *)
(***************************************************************************)
\* Mutant: a backup is as old as its first line.
TimeTo_From(name) == IF name = Live THEN lwFiles[Live].at ELSE name[1]

\* GetBackupNameTime, or the times of the file.
TimeTo(name) == IF name = Live THEN lwFiles[Live].at ELSE name[2]

CheckExpiredLog ==
    /\ lwPtr # "crashed" /\ ~lwSweep.busy
    /\ lwSweep.last + 1 <= lwNow
    /\ lwSweep' = [lwSweep EXCEPT !.busy = TRUE,
                                  !.todo = {[name |-> n, to |-> TimeTo(n)] : n \in DOMAIN lwFiles}]
    /\ UNCHANGED <<lwNow, lwFiles, lwPtr, lwSize, lwBegin, lwWhen, lwLost>>

\* The loop goes through the listing; an expired file is announced by LOG_INFO.
SweepItem ==
    /\ lwPtr # "crashed"
    /\ lwSweep.busy /\ lwSweep.name = NoName
    /\ \E e \in lwSweep.todo :
          IF e.to + LwExpire < lwNow
          THEN /\ Write
               /\ lwSweep' = [lwSweep EXCEPT !.todo = @ \ {e}, !.name = e.name]
          ELSE /\ lwSweep' = [lwSweep EXCEPT !.todo = @ \ {e}]
               /\ UNCHANGED <<lwFiles, lwPtr, lwSize, lwBegin, lwWhen, lwLost>>
    /\ UNCHANGED lwNow

\* File::Delete, which may fail.
SweepDelete ==
    /\ lwPtr # "crashed" /\ lwSweep.name # NoName
    /\ lwSweep' = [lwSweep EXCEPT !.name = NoName]
    /\ \/ UNCHANGED <<lwFiles, lwPtr, lwLost>>
       \/ /\ lwSweep.name \in DOMAIN lwFiles
          /\ lwFiles' = Without(lwSweep.name)
          /\ IF lwSweep.name = Live
             THEN /\ lwPtr' = IF lwPtr = "open" THEN "unlinked" ELSE lwPtr
                  /\ lwLost' = lwLost \cup LinesOf(Live)
             ELSE UNCHANGED <<lwPtr, lwLost>>
    /\ UNCHANGED <<lwNow, lwSize, lwBegin, lwWhen>>

SweepEnd ==
    /\ lwPtr # "crashed"
    /\ lwSweep.busy /\ lwSweep.todo = {} /\ lwSweep.name = NoName
    /\ lwSweep' = [lwSweep EXCEPT !.busy = FALSE, !.last = lwNow]
    /\ UNCHANGED <<lwNow, lwFiles, lwPtr, lwSize, lwBegin, lwWhen, lwLost>>

LwNext ==
    \/ LwTick
    \/ \E open_mode \in BOOLEAN : Initialize(open_mode)
    \/ LwExit \/ LogStub
    \/ CheckExpiredLog \/ SweepItem \/ SweepDelete \/ SweepEnd

LwSpec == LwInit /\ [][LwNext]_lwVars

-----------------------------------------------------------------------------
(***************************************************************************)
(* Properties.                                                             *)
(***************************************************************************)
\* LwTypeOK: every variable has its type.
LwTypeOK ==
    /\ lwNow \in 0 .. LwMaxTime
    /\ \A n \in DOMAIN lwFiles : lwFiles[n].lines \subseteq 1 .. LwMaxLines
    /\ lwPtr \in {"null", "open", "unlinked", "crashed"}
    /\ lwPtr = "open" => Live \in DOMAIN lwFiles
    /\ lwBegin \in 0 .. LwMaxTime
    /\ Len(lwWhen) <= LwMaxLines /\ lwLost \subseteq 1 .. LwMaxLines
    /\ lwSweep.busy \in BOOLEAN

(***************************************************************************)
(* LwKept: a line younger than expire_days_ is found in a file of the log  *)
(* directory, through rotations, restarts and sweeps, as long as no Write  *)
(* has crashed because it could not open the file again.  Left out are the *)
(* lines of a file that was truncated (by Initialize, or by a rotation     *)
(* whose backup failed), of a backup replaced by one of the same name, and *)
(* of the log file itself, open or closed, when a sweep deletes it: the    *)
(* sweep's listing may be older than the lines, as it is never for a       *)
(* backup.                                                                 *)
(***************************************************************************)
LwKept ==
    \A i \in DOMAIN lwWhen \ lwLost :
        lwPtr # "crashed" /\ lwWhen[i] + LwExpire >= lwNow =>
            \E n \in DOMAIN lwFiles : i \in lwFiles[n].lines

=============================================================================

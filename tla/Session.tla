------------------------------ MODULE Session ------------------------------
(***************************************************************************)
(* Start-up of the SDK: EChain_InitSDK (src/test/api_echain_func.cpp) and  *)
(* the configuration file it reads (src/config/ReadConfig.cpp).            *)
(*                                                                         *)
(* A configuration file is a sequence of lines: a section, or a key with   *)
(* its value (comments and lines without "=" are skipped by the code and   *)
(* left out).  Values are strings; IniInt is atoi.                         *)
(***************************************************************************)
EXTENDS Integers, Sequences, FiniteSets

CONSTANTS SesFiles,   \* the configuration files
          SesMaxCalls \* bound: calls of EChain_InitSDK

\* The lines of a file.
IniLine == [kind : {"section", "key"}, name : STRING, val : STRING]

ASSUME SesAssumption ==
    /\ SesFiles \subseteq Seq(IniLine)
    /\ SesMaxCalls \in Nat

VARIABLES sesFile,  \* EChainConf.ini
          sesCfg,   \* SConfigPara: the six settings
          sesPc,    \* the next stage of EChain_InitSDK, or "idle"
          sesRet,   \* what the last call returned; 0: none has
          sesLog,   \* logfile: "null", "file" or "stderr"
          sesDb,    \* g_mysql: "raw", "init" (mysql_init) or "open"
          sesNonce, \* g_genesisNonce
          sesCalls  \* calls made

sesVars == <<sesFile, sesCfg, sesPc, sesRet, sesLog, sesDb, sesNonce, sesCalls>>

IniSection(name) == [kind |-> "section", name |-> name, val |-> ""]
IniKey(name, val) == [kind |-> "key", name |-> name, val |-> val]

\* The settings in the order ReadIni reads them, and the string ones.
Settings == <<"DebugLog", "DBAddr", "DBPort", "DBUser", "DBPassWd", "DBName">>
Texts == <<"DBAddr", "DBUser", "DBPassWd", "DBName">>
SettingNames == {Settings[k] : k \in DOMAIN Settings}

SectionOf(s) == IF s = "DebugLog" THEN "Config" ELSE "MySQL"

-----------------------------------------------------------------------------
(* ReadConfig *)

\* Mutant: the last match wins.
IniHits_Last(file, sec, id) ==
    LET hits == {j \in DOMAIN file : /\ file[j].kind = "key" /\ file[j].name = id
                                     /\ \E i \in 1 .. j : file[i] = IniSection(sec)}
    IN  {j \in hits : \A k \in hits : k <= j}

\* The lines GetIniString stops at: iKeyFound stays 0 in later sections.
IniHits(file, sec, id) ==
    {j \in DOMAIN file : /\ file[j].kind = "key" /\ file[j].name = id
                         /\ \E i \in 1 .. j : file[i] = IniSection(sec)}

\* GetIniString finds a value.
IniFound(file, sec, id) == IniHits(file, sec, id) # {}

\* The value it copies to pResult.
GetIniString(file, sec, id) ==
    file[CHOOSE j \in IniHits(file, sec, id) :
            \A k \in IniHits(file, sec, id) : j <= k].val

\* atoi on the values of the model.
IniInt(v) == CASE v = "1" -> 1 [] v = "3306" -> 3306 [] v = "-1" -> -1 [] OTHER -> 0

GetIniInteger(file, sec, id) ==
    IF IniFound(file, sec, id) THEN IniInt(GetIniString(file, sec, id)) ELSE 0

\* temp after the k-th string setting was read: it keeps the text of the
\* setting before when there is none.
IniTemp(file) ==
    LET temp[k \in 0 .. Len(Texts)] ==
            IF k = 0 THEN ""
            ELSE IF IniFound(file, "MySQL", Texts[k])
                 THEN GetIniString(file, "MySQL", Texts[k])
                 ELSE temp[k - 1]
    IN  temp

\* What ReadIni assigns to setting s.
IniValue(file, s) ==
    IF s \in {"DebugLog", "DBPort"} THEN GetIniInteger(file, SectionOf(s), s)
    ELSE IniTemp(file)[CHOOSE k \in DOMAIN Texts : Texts[k] = s]

\* The check that follows the assignment.
IniRefused(file, s) ==
    IF s \in {"DebugLog", "DBPort"} THEN IniValue(file, s) < 0
    ELSE IniValue(file, s) = ""

\* ReadIni gets to the k-th setting.
IniReaches(file, k) == \A j \in 1 .. (k - 1) : ~ IniRefused(file, Settings[j])

ReadIniOk(file) == IniReaches(file, Len(Settings) + 1)

\* ReadIni: the settings up to the one it refuses are assigned.
ReadIni(file) ==
    sesCfg' = [s \in SettingNames |->
                  LET k == CHOOSE k \in DOMAIN Settings : Settings[k] = s
                  IN  IF IniReaches(file, k) THEN IniValue(file, s) ELSE sesCfg[s]]

-----------------------------------------------------------------------------
SesTypeOK ==
    /\ sesFile \in Seq(IniLine)
    /\ sesPc \in {"idle", "log", "certificate", "database", "genesis"}
    /\ sesRet \in {-3, -1, 0, 1}
    /\ sesLog \in {"null", "file", "stderr"}
    /\ sesDb \in {"raw", "init", "open"}
    /\ sesNonce \in Int
    /\ sesCalls \in 0 .. SesMaxCalls

SesInit ==
    /\ sesFile \in SesFiles
    /\ sesCfg = [s \in SettingNames |-> IF s \in {"DebugLog", "DBPort"} THEN 0 ELSE ""]
    /\ sesPc = "idle"
    /\ sesRet = 0
    /\ sesLog = "null"
    /\ sesDb = "raw"
    /\ sesNonce = 0
    /\ sesCalls = 0

\* The call returns r.
SesReturn(r) == sesPc' = "idle" /\ sesRet' = r
SesGo(pc) == sesPc' = pc /\ UNCHANGED sesRet

EChain_InitSDK ==
    /\ sesPc = "idle"
    /\ sesCalls < SesMaxCalls
    /\ sesCalls' = sesCalls + 1
    /\ ReadIni(sesFile)
    /\ IF ReadIniOk(sesFile) THEN SesGo("log") ELSE SesReturn(-1)
    /\ UNCHANGED <<sesFile, sesLog, sesDb, sesNonce>>

\* The log file, or stderr and nothing else.
InitLog ==
    /\ sesPc = "log"
    /\ \/ sesCfg["DebugLog"] = 1 /\ sesLog' = "file" /\ SesGo("certificate")
       \/ sesCfg["DebugLog"] = 1 /\ sesLog' = "null" /\ SesReturn(-1)
       \/ sesCfg["DebugLog"] # 1 /\ sesLog' = "stderr" /\ SesReturn(1)
    /\ UNCHANGED <<sesFile, sesCfg, sesDb, sesNonce, sesCalls>>

\* VerifyCertificate: the licence file is there and names a card, or not.
InitCertificate ==
    /\ sesPc = "certificate"
    /\ SesGo("database") \/ SesReturn(-3)
    /\ UNCHANGED <<sesFile, sesCfg, sesLog, sesDb, sesNonce, sesCalls>>

\* Mutant: any result of InitDataBasesConnection is good enough.
DbConnected_Any == {"init", "open"}

\* The states of g_mysql that InitDataBasesConnection reports with >= 0; a
\* character set that could not be chosen gives 0, which counts as success.
DbConnected == {"open"}

\* InitDataBasesConnection: mysql_init, then mysql_real_connect.
InitDatabase ==
    /\ sesPc = "database"
    /\ sesDb' \in {"init", "open"}
    /\ IF sesDb' \in DbConnected THEN SesGo("genesis") ELSE SesReturn(-1)
    /\ UNCHANGED <<sesFile, sesCfg, sesLog, sesNonce, sesCalls>>

\* EChain_GetGenesisInfo: -1, or the nonce of the answer plus one.  An answer
\* without a nonce gives what an uninitialized local holds, -1 for instance.
InitGenesis ==
    /\ sesPc = "genesis"
    /\ sesNonce' \in {-1, 0, 1}
    /\ IF sesNonce' < 0 THEN SesReturn(-1) ELSE SesReturn(1)
    /\ UNCHANGED <<sesFile, sesCfg, sesLog, sesDb, sesCalls>>

SesNext == EChain_InitSDK \/ InitLog \/ InitCertificate \/ InitDatabase \/ InitGenesis

SesSpec == SesInit /\ [][SesNext]_sesVars

-----------------------------------------------------------------------------
\* The keys id that stand in section sec: no other section begins between.
InSection(file, sec, id) ==
    {j \in DOMAIN file :
        /\ file[j].kind = "key" /\ file[j].name = id
        /\ \E i \in 1 .. j :
              /\ file[i] = IniSection(sec)
              /\ \A k \in (i + 1) .. j : file[k].kind = "key"}

\* No section is begun twice.
SectionsOnce(f) ==
    \A i, j \in DOMAIN f : f[i].kind = "section" /\ f[i] = f[j] => i = j

(***************************************************************************)
(* IniLookup: GetIniString returns the first value that the section gives  *)
(* the key, whatever other sections say; when the section does not have    *)
(* the key, it may return one that a later section has, and none that an   *)
(* earlier one has.  ReadIni refuses a missing address, an empty text and  *)
(* a negative number.  It accepts a missing DBUser, DBPassWd or DBName:    *)
(* the text read before takes its place, so the error the code has for it  *)
(* is never reported.                                                      *)
(***************************************************************************)
IniLookup ==
    /\ \A s \in SettingNames :
          LET own == InSection(sesFile, SectionOf(s), s)
              got == GetIniString(sesFile, SectionOf(s), s)
              start == {i \in DOMAIN sesFile : sesFile[i] = IniSection(SectionOf(s))}
          IN  /\ own # {} => /\ IniFound(sesFile, SectionOf(s), s)
                             /\ \E j \in own : /\ got = sesFile[j].val
                                               /\ \A k \in own : j <= k
              /\ (own = {} /\ IniFound(sesFile, SectionOf(s), s))
                     => \E i \in start, j \in DOMAIN sesFile :
                            i < j /\ sesFile[j] = IniKey(s, got)
    /\ ReadIniOk(sesFile) <=>
          /\ IniFound(sesFile, "MySQL", "DBAddr")
          /\ \A s \in SettingNames : IniFound(sesFile, SectionOf(s), s) =>
                LET v == GetIniString(sesFile, SectionOf(s), s)
                IN  IF s \in {Texts[k] : k \in DOMAIN Texts} THEN v # "" ELSE IniInt(v) >= 0

(***************************************************************************)
(* SesReady: a successful EChain_InitSDK leaves a session that is ready:   *)
(* the log is open, the database connected, the genesis nonce not an error *)
(* code, after any number of failed attempts before it, provided the debug *)
(* log is on.                                                              *)
(***************************************************************************)
SesReady ==
    (sesPc = "idle" /\ sesRet = 1 /\ sesCfg["DebugLog"] = 1)
        => sesLog = "file" /\ sesDb = "open" /\ sesNonce >= 0

(***************************************************************************)
(* SesInitialised: "returns > 0 on success", the function that "must be    *)
(* called once before use" (src/test/api_echain_func.h): after a call that *)
(* returned 1 the database is connected.                                   *)
(***************************************************************************)
SesInitialised == (sesPc = "idle" /\ sesRet = 1) => sesDb = "open"

=============================================================================

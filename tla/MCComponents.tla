--------------------------- MODULE MCComponents ---------------------------
(***************************************************************************)
(* The components that do not interact, in one state space: a behaviour    *)
(* uses the component named by part, and the variables of the others keep  *)
(* their initial values.                                                   *)
(***************************************************************************)
EXTENDS RWLock, Timer, SdkLog, Session, QueryPages, EntryCache,
        ExprParser, UInt128, LogFiles, IssueAssets, TLC

CONSTANTS Parts,     \* the components that the behaviours use
          r1, r2, r3

MCRwThread == {r1, r2, r3}
MCLgThread == {r1, r2}

\* The lines of EChainConf.ini, with a section after them that has two of the
\* keys as well.
MCLines(debug) ==
    <<IniSection("Config"), IniKey("DebugLog", debug), IniSection("MySQL"),
      IniKey("DBAddr", "addr"), IniKey("DBPort", "3306"), IniKey("DBUser", "user"),
      IniKey("DBPassWd", "word"), IniKey("DBName", "name"),
      IniSection("Other"), IniKey("DBUser", "other"), IniKey("DebugLog", "1")>>

\* That file without up to two of its lines, and with up to one empty value; an
\* empty file.
MCFiles ==
    LET Drop(f, S) ==
            LET keep == DOMAIN f \ S
            IN  [n \in 1 .. Cardinality(keep) |->
                    f[CHOOSE k \in keep : Cardinality({m \in keep : m <= k}) = n]]
        Blank(f, S) == [k \in DOMAIN f |-> IF k \in S THEN [f[k] EXCEPT !.val = ""] ELSE f[k]]
        few(n) == {S \in SUBSET (2 .. 11) : Cardinality(S) <= n}
    IN  {<<>>} \cup {Drop(Blank(MCLines(d), B), S) :
                        d \in {"1", "0", "-1"}, S \in few(2), B \in few(1)}

\* The files of the run are of the kind that IniLookupCorrect is about.
ASSUME MCSectionsOnce == \A f \in MCFiles : SectionsOnce(f)

\* Doubles in fresh memory: zero or not.
MCExGarbage == {<<0, 1>>, <<3, 1>>}

VARIABLE part

allVars == <<part, rwVars, tmVars, lgVars, sesVars, pgVars, ecVars, exVars, uVars, lwVars, iaVars>>

Init ==
    /\ part \in Parts
    /\ RwInit /\ TmInit
    /\ (part = "log" \/ lgFile = 0) /\ LgInit
    /\ (part = "session" \/ sesFile = <<>>) /\ SesInit
    /\ (part = "pages" \/ (pgKind = "block" /\ pgPer = 1)) /\ PgInit
    /\ (part = "cache" \/ ecStore = [k \in EcKey |-> EcAbsent]) /\ EcInit
    /\ (part = "expr" \/ (exTree = Node("user", <<Leaf(0)>>) /\ exGarbage = <<0, 1>>)) /\ ExInit
    /\ (part = "uint128" \/ (uL = Zero /\ uR = Zero)) /\ UInit
    /\ (part = "files" \/ lwFiles = <<>>) /\ LwInit
    /\ IaInit

\* The variables of the components other than p.
Others(p) ==
    /\ UNCHANGED part
    /\ p # "lock" => UNCHANGED rwVars
    /\ p # "timer" => UNCHANGED tmVars
    /\ p # "log" => UNCHANGED lgVars
    /\ p # "session" => UNCHANGED sesVars
    /\ p # "pages" => UNCHANGED pgVars
    /\ p # "cache" => UNCHANGED ecVars
    /\ p # "expr" => UNCHANGED exVars
    /\ p # "uint128" => UNCHANGED uVars
    /\ p # "files" => UNCHANGED lwVars
    /\ p # "issue" => UNCHANGED iaVars

Next ==
    \/ part = "lock" /\ RwNext /\ Others("lock")
    \/ part = "timer" /\ TmNext /\ Others("timer")
    \/ part = "log" /\ LgNext /\ Others("log")
    \/ part = "session" /\ SesNext /\ Others("session")
    \/ part = "pages" /\ PgNext /\ Others("pages")
    \/ part = "cache" /\ EcNext /\ Others("cache")
    \/ part = "expr" /\ ExNext /\ Others("expr")
    \/ part = "uint128" /\ UNext /\ Others("uint128")
    \/ part = "files" /\ LwNext /\ Others("files")
    \/ part = "issue" /\ IaNext /\ Others("issue")

(***************************************************************************)
(* Threads inside a lock call go on and guards go out of scope; the        *)
(* program's main loop calls OnTimer for ever and callbacks return; time   *)
(* passes.                                                                 *)
(***************************************************************************)
FairSpec ==
    /\ Init /\ [][Next]_allVars
    /\ \A t \in RwThread :
          /\ WF_rwVars(part = "lock" /\ RwInside(t))
          /\ WF_rwVars(part = "lock" /\ RwLeave(t))
    /\ WF_tmVars(part = "timer" /\ TmTick)
    /\ WF_tmVars(part = "timer" /\ TmCheck)
    /\ WF_tmVars(part = "timer" /\ TmRun)

\* TypeOK: every variable of the components keeps its type.
TypeOK == RwTypeOK /\ TmTypeOK /\ LgTypeOK /\ SesTypeOK /\ PgTypeOK /\ EcTypeOK
            /\ ExTypeOK /\ UTypeOK /\ LwTypeOK /\ IaTypeOK

=============================================================================

----------------------------- MODULE QueryPages -----------------------------
(***************************************************************************)
(* The paged queries of the SDK (src/test/api_echain_func.cpp):            *)
(* EChain_QueryAddressRecord, over the rows of business_data, and          *)
(* EChain_QueryBlockBrowserInfo, over the ledger's blocks, both newest     *)
(* first.  A reader asks for page after page, up to the totalPage of the   *)
(* last answer, while rows or blocks are added.                            *)
(*                                                                         *)
(* Rows and blocks are numbered as they are added, from 1: the row at      *)
(* position iRecordSeq of the result set is number n - iRecordSeq.  The    *)
(* query sorts by createtime, a time in seconds that the SDK reads before  *)
(* it takes g_dbmutex for the insert: the model has rows whose times       *)
(* differ and follow the order of the inserts.                             *)
(***************************************************************************)
EXTENDS Integers, Sequences, FiniteSets, SequencesExt

CONSTANTS PgPer,  \* the page sizes (numsPerPage) that are used
          PgMax   \* bound: rows or blocks

ASSUME PgAssumption == PgPer \subseteq Nat \ {0} /\ PgMax \in Nat \ {0}

VARIABLES pgKind,  \* "record" or "block": the function the reader calls
          pgPer,   \* numsPerPage
          pgNum,   \* the rows or blocks there are
          pgPage,  \* curPage of the reader's next call
          pgTotal, \* totalPage of its last answer
          pgFirst, \* how many there were at its first call
          pgSeen   \* history: what it has been shown, in order

pgVars == <<pgKind, pgPer, pgNum, pgPage, pgTotal, pgFirst, pgSeen>>

-----------------------------------------------------------------------------
(* EChain_QueryAddressRecord: n rows, page c, p rows per page *)

IsShort(n, c, p) == n < (c - 1) * p + p

RecordStart(c, p) == (c - 1) * p
RecordEnd(n, c, p) == IF IsShort(n, c, p) THEN n - 1 ELSE (c - 1) * p + p - 1

\* iNeedRecord, the length of the array.
RecordNeed(n, c, p) == IF IsShort(n, c, p) THEN n - (c - 1) * p ELSE p

\* The positions whose rows are copied into the array.
RecordCopied(n, c, p) ==
    {s \in 0 .. (n - 1) : RecordStart(c, p) <= s /\ s <= RecordEnd(n, c, p)}

RecordPage(n, c, p) == {n - s : s \in RecordCopied(n, c, p)}

(* EChain_QueryBlockBrowserInfo: height h *)

BlockStart(h, c, p) == h - ((c - 1) * p)

\* Mutant: the pages leave a block out.
BlockEnd_Gap(h, c, p) == IF BlockStart(h, c, p) >= p THEN h - (c * p) + 2 ELSE 1

BlockEnd(h, c, p) == IF BlockStart(h, c, p) >= p THEN h - (c * p) + 1 ELSE 1

BlockPage(h, c, p) == BlockEnd(h, c, p) .. BlockStart(h, c, p)

\* iTotalPage; a query without rows leaves it 0.
TotalPage(n, p) == IF n = 0 THEN 0 ELSE (n - 1) \div p + 1

-----------------------------------------------------------------------------
PgTypeOK ==
    /\ pgKind \in {"record", "block"}
    /\ pgPer \in PgPer
    /\ pgNum \in 0 .. PgMax /\ pgFirst \in 0 .. PgMax
    /\ pgPage \in Nat /\ pgTotal \in Nat
    /\ pgSeen \in Seq(1 .. PgMax)

\* The ledger has its genesis block; the table may be empty.
PgInit ==
    /\ pgKind \in {"record", "block"}
    /\ pgPer \in PgPer
    /\ pgNum = (IF pgKind = "block" THEN 1 ELSE 0)
    /\ pgPage = 1 /\ pgTotal = 1
    /\ pgFirst = 0
    /\ pgSeen = <<>>

PgAdd ==
    /\ pgNum < PgMax
    /\ pgNum' = pgNum + 1
    /\ UNCHANGED <<pgKind, pgPer, pgPage, pgTotal, pgFirst, pgSeen>>

\* The sequences of the elements of S, newest first.
NewestFirst(S) == {s \in SetToSeqs(S) : \A i, j \in DOMAIN s : i < j => s[i] > s[j]}

\* The reader's call for its next page, which answers with the set shown.
PgShow(shown) ==
    /\ pgPage <= pgTotal
    /\ \E s \in NewestFirst(shown) : pgSeen' = pgSeen \o s
    /\ pgTotal' = TotalPage(pgNum, pgPer)
    /\ pgFirst' = IF pgPage = 1 THEN pgNum ELSE pgFirst
    /\ pgPage' = pgPage + 1
    /\ UNCHANGED <<pgKind, pgPer, pgNum>>

EChain_QueryAddressRecord ==
    pgKind = "record" /\ PgShow(RecordPage(pgNum, pgPage, pgPer))

EChain_QueryBlockBrowserInfo ==
    pgKind = "block" /\ PgShow(BlockPage(pgNum, pgPage, pgPer))

PgNext == PgAdd \/ EChain_QueryAddressRecord \/ EChain_QueryBlockBrowserInfo

PgSpec == PgInit /\ [][PgNext]_pgVars

-----------------------------------------------------------------------------
\* The reader has asked for every page it was told of.
PgDone == pgPage > pgTotal

(***************************************************************************)
(* PgComplete: a reader that goes to the last page has seen everything     *)
(* there was when it began, whatever was added meanwhile: additions move   *)
(* what it has not seen yet to later pages, and totalPage grows with them. *)
(* As long as nothing is added the pages follow each other without gap or  *)
(* repetition, newest first.  The array of EChain_QueryAddressRecord is    *)
(* long enough for the rows copied into it for every curPage up to         *)
(* totalPage, 0 and negative ones too, and for a page from 1 to totalPage  *)
(* no element is left blank.                                               *)
(***************************************************************************)
PgComplete ==
    /\ PgDone => 1 .. pgFirst \subseteq ToSet(pgSeen)
    /\ (pgNum = pgFirst) => pgSeen = [k \in 1 .. Len(pgSeen) |-> pgNum - k + 1]
    /\ \A c \in -1 .. TotalPage(pgNum, pgPer) :
          LET copied == Cardinality(RecordCopied(pgNum, c, pgPer))
              need == RecordNeed(pgNum, c, pgPer)
          IN  /\ copied <= need
              /\ c >= 1 => copied = need

=============================================================================

------------------------------ MODULE Evidence ------------------------------
(***************************************************************************)
(* Putting evidence on the ledger:                                         *)
(*   EChain_UserCertification, EChain_BusinessDataStorage,                 *)
(*   EChain_BusinessDataUpdate, EChain_ContractAddressDelete               *)
(* of src/test/api_echain_func.cpp, called by any number of threads on     *)
(* accounts they may share.                                                *)
(*                                                                         *)
(* The first three run the same retry loop around submitTransaction.  A    *)
(* call of one of them is identified by <<thread, number>>, which stands   *)
(* for the content it sends: a transaction's hash is its source, its nonce *)
(* and its content.  EChain_ContractAddressDelete makes such a call, of    *)
(* type DELETE, for every row of business_data it found.                   *)
(***************************************************************************)
EXTENDS GenesisTx

CONSTANTS Owner,      \* the accounts evidence is signed with
          Keyless,    \* those of them the database has no private key for
          MaxCalls,   \* bound: evidence calls per thread
          InitBal,    \* tokens every owner starts with
          Treasury,   \* token payments the genesis account can still make
          Deleting,   \* FALSE: nobody calls EChain_ContractAddressDelete
          BadDesc,    \* TRUE: a caller may pass a descInfo that is not JSON
          MayCrash    \* TRUE: the process can die and restart at any point

ASSUME EvidenceAssumption ==
    /\ Owner = Account \ {Genesis}
    /\ Keyless \subseteq Owner
    /\ MaxCalls \in Nat /\ InitBal \in Nat /\ Treasury \in Nat
    /\ Deleting \in BOOLEAN /\ BadDesc \in BOOLEAN /\ MayCrash \in BOOLEAN

VARIABLES business_data,       \* rows [acct, type, hash]
          user_certification,  \* rows [acct, type, hash]
          op,                  \* the evidence function a thread is in
          type,                \* the type of the evidence it sends
          acct,                \* contractAddress or blockAddress
          pre,                 \* preTranxHash, or None
          ver,                 \* the version it will write
          nonce,               \* iNonceNum
          calls,               \* how many evidence calls it has begun
          returned,            \* what the calls returned: [call, code, hash]
          del,                 \* the account EChain_ContractAddressDelete clears
          todo,                \* the rows it still has to delete
          cleared              \* ended deletes: [code, rows]

tables == <<business_data, user_certification>>
frame == <<op, type, acct, pre, ver, nonce>>
delVars == <<del, todo, cleared>>
evVars == <<tables, frame, calls, returned, delVars>>
vars == <<nodeVars, g_genesisNonce, g_dbmutex, thread, evVars>>

Types == {"ADDNEW", "UPDATE", "DELETE", "CERTIFY"}
EvFunctions == {"EChain_UserCertification", "EChain_BusinessDataStorage",
                "EChain_BusinessDataUpdate"}
Call == Thread \X (1 .. MaxCalls)
CallOf(t) == <<t, calls[t]>>
HashOf(tx) == <<tx.src, tx.nonce, tx.body.call>>
MyHash(t) == <<acct[t], nonce[t], CallOf(t)>>

IsEvidence(tx) == tx.body.op = "evidence"
Records == {tx \in accepted : IsEvidence(tx)}

Init ==
    /\ NodeInit([a \in Account |-> IF a = Genesis THEN Treasury ELSE InitBal])
    /\ GtxInit
    /\ business_data = {} /\ user_certification = {}
    /\ op = [t \in Thread |-> None]
    /\ type = [t \in Thread |-> None]
    /\ acct = [t \in Thread |-> None]
    /\ pre = [t \in Thread |-> None]
    /\ ver = [t \in Thread |-> 0]
    /\ nonce = [t \in Thread |-> 0]
    /\ calls = [t \in Thread |-> 0]
    /\ returned = {}
    /\ del = [t \in Thread |-> None]
    /\ todo = [t \in Thread |-> {}]
    /\ cleared = {}

-----------------------------------------------------------------------------
(* Calls and returns.                                                       *)

Begin(t, f, ty, a, p, l) ==
    /\ calls[t] < MaxCalls
    /\ calls' = [calls EXCEPT ![t] = @ + 1]
    /\ op' = [op EXCEPT ![t] = f]
    /\ type' = [type EXCEPT ![t] = ty]
    /\ acct' = [acct EXCEPT ![t] = a]
    /\ pre' = [pre EXCEPT ![t] = p]
    /\ ver' = [ver EXCEPT ![t] = 1]
    /\ nonce' = [nonce EXCEPT ![t] = 0]
    /\ Goto(t, l)
    /\ UNCHANGED <<nodeVars, gtxVars, g_dbmutex, tables, returned>>

EChain_UserCertification(t, a) ==
    /\ pc[t] = "idle"
    /\ Begin(t, "EChain_UserCertification", "CERTIFY", a, None, "evKey")
    /\ UNCHANGED delVars

EChain_BusinessDataStorage(t, a) ==
    /\ pc[t] = "idle"
    /\ Begin(t, "EChain_BusinessDataStorage", "ADDNEW", a, None, "evKey")
    /\ UNCHANGED delVars

EChain_BusinessDataUpdate(t, a, p) ==
    /\ pc[t] = "idle"
    /\ Begin(t, "EChain_BusinessDataUpdate", "UPDATE", a, p, "meta")
    /\ UNCHANGED delVars

(* A slip: the delete loop goes on after a failed call. *)
AfterUpdate_GoOn(code) == "delNext"

(* What EChain_ContractAddressDelete does with the result of a call. *)
AfterUpdate(code) == IF code < 0 THEN "delFailed" ELSE "delNext"

(* The call returns code; a call made by EChain_ContractAddressDelete goes   *)
(* on there.                                                                 *)
Return(t, code) ==
    /\ returned' = returned \cup {[call |-> CallOf(t), code |-> code,
                                   hash |-> IF code = 1 THEN MyHash(t) ELSE None]}
    /\ op' = [op EXCEPT ![t] = None]
    /\ type' = [type EXCEPT ![t] = None]
    /\ acct' = [acct EXCEPT ![t] = None]
    /\ pre' = [pre EXCEPT ![t] = None]
    /\ ver' = [ver EXCEPT ![t] = 0]
    /\ nonce' = [nonce EXCEPT ![t] = 0]
    /\ Goto(t, IF del[t] = None THEN "idle" ELSE AfterUpdate(code))
    /\ UNCHANGED <<calls, delVars>>

-----------------------------------------------------------------------------
(* The body of the three evidence functions.                                *)

(* A slip: the version is not counted up. *)
NewVersion_Same(v) == v

(* blockJson["version"] = iVersion + 1 *)
NewVersion(v) == v + 1

(***************************************************************************)
(* EChain_BusinessDataUpdate first reads the record it supersedes          *)
(* (ParseMetaInfoFromTransactionHash): getTransactionHistory knows it once *)
(* its ledger has closed.                                                  *)
(***************************************************************************)
ReadMeta(t) ==
    /\ pc[t] = "meta"
    /\ \/ /\ \E tx \in Records :
               /\ HashOf(tx) = pre[t] /\ ~ Pending(tx)
               /\ ver' = [ver EXCEPT ![t] = NewVersion(tx.body.version)]
          /\ Goto(t, "evKey")
          /\ UNCHANGED <<op, type, acct, pre, nonce, returned, calls, delVars>>
       \/ /\ \/ \E tx \in Records : HashOf(tx) = pre[t] /\ Pending(tx)
             \/ NetOutcomes # {"ok"}
             \/ BadDesc
          /\ Return(t, -1)
    /\ UNCHANGED <<nodeVars, gtxVars, g_dbmutex, tables>>

(* getPrivateKeyFromUserRegisterDB / getPrivateKeyFromContractAccountDB *)
EvKey(t) ==
    /\ pc[t] = "evKey" /\ DbFree
    /\ \/ /\ acct[t] \notin Keyless
          /\ Goto(t, "evNonce")
          /\ UNCHANGED <<frame, returned, calls, delVars>>
       \/ /\ acct[t] \in Keyless \/ DbOutcomes # {"ok"}
          /\ Return(t, -1)
    /\ UNCHANGED <<nodeVars, gtxVars, g_dbmutex, tables>>

(* A slip: iNonceNum < 0 is not checked. *)
NoNonce_Unchecked(t) ==
    /\ nonce' = [nonce EXCEPT ![t] = -1]
    /\ Goto(t, "evBlob")
    /\ UNCHANGED <<op, type, acct, pre, ver, returned, calls, delVars>>

(* ParseNonceNumFromJson has no nonce. *)
NoNonce(t) == Return(t, -6)

(* ReStart: iNonceNum = the closed nonce that getAccount reports. *)
EvNonce(t) ==
    /\ pc[t] = "evNonce"
    /\ \/ /\ nonce' = [nonce EXCEPT ![t] = closed[acct[t]]]
          /\ Goto(t, "evBlob")
          /\ UNCHANGED <<op, type, acct, pre, ver, returned, calls, delVars>>
       \/ NetOutcomes # {"ok"} /\ NoNonce(t)
       \/ /\ BadDesc /\ op[t] = "EChain_BusinessDataStorage"
          /\ Return(t, -1)
    /\ UNCHANGED <<nodeVars, gtxVars, g_dbmutex, tables>>

(* Loop: the next nonce, and its blob from getTransactionBlob. *)
EvBlob(t) ==
    /\ pc[t] = "evBlob"
    /\ \/ /\ nonce' = [nonce EXCEPT ![t] = @ + 1]
          /\ Goto(t, "evSubmit")
          /\ UNCHANGED <<op, type, acct, pre, ver, returned, calls, delVars>>
       \/ /\ NetOutcomes # {"ok"}
          /\ Return(t, -6)
    /\ UNCHANGED <<nodeVars, gtxVars, g_dbmutex, tables>>

EvBody(t) == [op |-> "evidence", call |-> CallOf(t), type |-> type[t],
              pre |-> pre[t], version |-> ver[t]]
EvCost == 1

(* A slip: "nonce repeated" taken for "already recorded". *)
AfterCode_3Ok(code) ==
    CASE code = 0 -> "evInsert" [] code = 3 -> "evInsert" [] code = 99 -> "evNonce"

(* 3 (the nonce waits in the pool) tries the next nonce, 99 (out of         *)
(* sequence) reads the nonce again.                                         *)
AfterCode(code) ==
    CASE code = 0 -> "evInsert" [] code = 3 -> "evBlob" [] code = 99 -> "evNonce"

(* A slip: an answer that did not arrive reported as a refusal. *)
NoAnswer_Refused(t, o) == Return(t, -7) /\ UNCHANGED <<fn, dest>>

(* A slip: the next nonce tried when no answer arrived. *)
NoAnswer_Retry(t, o) ==
    /\ Goto(t, "evBlob")
    /\ UNCHANGED <<fn, dest, frame, returned, calls, delVars>>

(* -7 for an error_code without a branch of its own; -6 for an answer that  *)
(* does not parse, whether or not the node accepted.                        *)
NoAnswer(t, o) ==
    Return(t, IF o = "reject" THEN -7 ELSE -6) /\ UNCHANGED <<fn, dest>>

(***************************************************************************)
(* submitTransaction and what follows its error_code.  100 (no tokens      *)
(* left) gets tokens first.                                                *)
(***************************************************************************)
EvSubmit(t) ==
    /\ pc[t] = "evSubmit"
    /\ LET code == SubmitCode(acct[t], nonce[t], EvCost)
       IN \E o \in NetOutcomes :
            /\ IF o \in {"fail", "reject"}
               THEN UNCHANGED nodeVars
               ELSE Submit(acct[t], nonce[t], EvBody(t), EvCost)
            /\ \/ /\ o = "ok" /\ code # 100
                  /\ Goto(t, AfterCode(code))
                  /\ UNCHANGED <<fn, dest, frame, returned, calls, delVars>>
               \/ /\ o = "ok" /\ code = 100
                  /\ fn' = [fn EXCEPT ![t] = "EChain_ObtainAssetCode"]
                  /\ dest' = [dest EXCEPT ![t] = acct[t]]
                  /\ Goto(t, "key")
                  /\ UNCHANGED <<frame, returned, calls, delVars>>
               \/ o # "ok" /\ NoAnswer(t, o)
    /\ UNCHANGED <<g_genesisNonce, nn, resp, g_dbmutex, tables>>

(* A slip: the result of EChain_ObtainAssetCode is not looked at. *)
AfterGrant_Ignored(t) ==
    /\ pc[t] \in {"txErr", "txOk"}
    /\ Goto(t, "evNonce")
    /\ fn' = [fn EXCEPT ![t] = None]
    /\ dest' = [dest EXCEPT ![t] = None]
    /\ UNCHANGED <<nodeVars, g_genesisNonce, nn, resp, g_dbmutex, tables,
                   frame, returned, calls, delVars>>

(* EChain_ObtainAssetCode is back: -1 if it failed, else ReStart. *)
AfterGrant(t) ==
    /\ \/ /\ pc[t] = "txErr"
          /\ Return(t, -1)
       \/ /\ pc[t] = "txOk"
          /\ Goto(t, "evNonce")
          /\ UNCHANGED <<frame, returned, calls, delVars>>
    /\ fn' = [fn EXCEPT ![t] = None]
    /\ dest' = [dest EXCEPT ![t] = None]
    /\ UNCHANGED <<nodeVars, g_genesisNonce, nn, resp, g_dbmutex, tables>>

(***************************************************************************)
(* insertCertificationInfo2DB / insertBusinessDataInfo2DB, whose result    *)
(* the caller does not look at.                                            *)
(***************************************************************************)
EvInsert(t) ==
    /\ pc[t] = "evInsert" /\ DbFree
    /\ \E o \in DbOutcomes :
         LET rows == IF o = "fail" THEN {}
                     ELSE {[acct |-> acct[t], type |-> type[t], hash |-> MyHash(t)]}
         IN  IF op[t] = "EChain_UserCertification"
             THEN /\ user_certification' = user_certification \cup rows
                  /\ UNCHANGED business_data
             ELSE /\ business_data' = business_data \cup rows
                  /\ UNCHANGED user_certification
    /\ Return(t, 1)
    /\ UNCHANGED <<nodeVars, gtxVars, g_dbmutex>>

-----------------------------------------------------------------------------
(* EChain_ContractAddressDelete.                                            *)

RowsOf(a) == {r \in business_data : r.acct = a}

EndDelete(t, code, rows) ==
    /\ cleared' = cleared \cup {[code |-> code, rows |-> rows]}
    /\ del' = [del EXCEPT ![t] = None]
    /\ todo' = [todo EXCEPT ![t] = {}]
    /\ Goto(t, "idle")

(* The rows of the contract are read under the lock, which is then given up. *)
EChain_ContractAddressDelete(t, a) ==
    /\ Deleting
    /\ pc[t] = "idle" /\ DbFree
    /\ \/ /\ RowsOf(a) # {}
          /\ del' = [del EXCEPT ![t] = [acct |-> a, rows |-> RowsOf(a)]]
          /\ todo' = [todo EXCEPT ![t] = RowsOf(a)]
          /\ Goto(t, "delNext")
          /\ UNCHANGED cleared
       \/ RowsOf(a) = {} /\ EndDelete(t, -1, {})
       \/ DbOutcomes # {"ok"} /\ EndDelete(t, -8, {})
    /\ UNCHANGED <<nodeVars, gtxVars, g_dbmutex, tables, frame, calls, returned>>

(* A DELETE record for the next row, or the end. *)
DeleteNext(t) ==
    \/ /\ pc[t] = "delNext"
       /\ \E r \in todo[t] :
            /\ todo' = [todo EXCEPT ![t] = @ \ {r}]
            /\ Begin(t, "EChain_BusinessDataUpdate", "DELETE", del[t].acct, r.hash, "meta")
       /\ UNCHANGED <<del, cleared>>
    \/ /\ pc[t] = "delNext" /\ todo[t] = {} /\ EndDelete(t, 1, del[t].rows)
       /\ UNCHANGED <<nodeVars, gtxVars, g_dbmutex, tables, frame, calls, returned>>
    \/ /\ pc[t] = "delFailed" /\ EndDelete(t, -1, del[t].rows)
       /\ UNCHANGED <<nodeVars, gtxVars, g_dbmutex, tables, frame, calls, returned>>

-----------------------------------------------------------------------------

ObtainAssetCode(t) == GtxStep(t, "EChain_ObtainAssetCode") /\ UNCHANGED evVars

CallStep(t) ==
    \E a \in Owner :
        \/ EChain_UserCertification(t, a)
        \/ EChain_BusinessDataStorage(t, a)
        \/ \E r \in business_data : EChain_BusinessDataUpdate(t, a, r.hash)
        \/ EChain_ContractAddressDelete(t, a)

ThreadStep(t) ==
    \/ ReadMeta(t) \/ EvKey(t) \/ EvNonce(t) \/ EvBlob(t) \/ EvSubmit(t)
    \/ AfterGrant(t) \/ EvInsert(t) \/ DeleteNext(t)
    \/ ObtainAssetCode(t)

Close == CloseLedger /\ UNCHANGED <<g_genesisNonce, g_dbmutex, thread, evVars>>

(* The process dies and is started again; calls in progress never return. *)
Crash ==
    /\ MayCrash
    /\ \E t \in Thread : pc[t] # "idle"
    /\ GtxReset
    /\ op' = [t \in Thread |-> None]
    /\ type' = [t \in Thread |-> None]
    /\ acct' = [t \in Thread |-> None]
    /\ pre' = [t \in Thread |-> None]
    /\ ver' = [t \in Thread |-> 0]
    /\ nonce' = [t \in Thread |-> 0]
    /\ del' = [t \in Thread |-> None]
    /\ todo' = [t \in Thread |-> {}]
    /\ UNCHANGED <<nodeVars, tables, calls, returned, cleared>>

Next ==
    \/ \E t \in Thread : CallStep(t) \/ ThreadStep(t)
    \/ Close
    \/ Crash

Spec == Init /\ [][Next]_vars

(* Threads keep running and ledgers keep closing; nobody has to call. *)
FairSpec ==
    /\ Spec
    /\ \A t \in Thread : WF_vars(ThreadStep(t))
    /\ WF_vars(Close)

-----------------------------------------------------------------------------
(* Types.                                                                   *)

EvLabels == {"idle", "meta", "evKey", "evNonce", "evBlob", "evSubmit",
             "evInsert", "delNext", "delFailed"}
Hash == Owner \X Nat \X (Thread \X Nat)
Row == [acct : Owner, type : Types, hash : Hash]

(* None is told apart from a hash and from a delete in progress. *)
ASSUME NoneAssumption ==
    None \notin Hash /\ None \notin [acct : Owner, rows : SUBSET Row]

TypeOK ==
    /\ closed \in [Account -> Nat] /\ last \in [Account -> Nat]
    /\ bal \in [Account -> Nat]
    /\ g_genesisNonce \in Int
    /\ g_dbmutex \in Thread \cup {None}
    /\ pc \in [Thread -> GtxLabels \cup EvLabels]
    /\ fn \in [Thread -> {"EChain_ObtainAssetCode", None}]
    /\ dest \in [Thread -> Owner \cup {None}]
    /\ nn \in [Thread -> Int] /\ resp \in [Thread -> Int]
    /\ business_data \subseteq Row /\ user_certification \subseteq Row
    /\ op \in [Thread -> EvFunctions \cup {None}]
    /\ type \in [Thread -> Types \cup {None}]
    /\ acct \in [Thread -> Owner \cup {None}]
    /\ pre \in [Thread -> Hash \cup {None}]
    /\ ver \in [Thread -> Nat] /\ nonce \in [Thread -> Nat]
    /\ calls \in [Thread -> 0 .. MaxCalls]
    /\ \A r \in returned : r.call \in Call /\ r.code \in {1, -1, -6, -7}
    /\ del \in [Thread -> [acct : Owner, rows : SUBSET business_data] \cup {None}]
    /\ todo \in [Thread -> SUBSET business_data]

-----------------------------------------------------------------------------
(* Safety.                                                                  *)

(***************************************************************************)
(* AtMostOnce: no call puts its content on the ledger twice, however often *)
(* its loop goes back to Loop or ReStart and whoever shares the account.   *)
(***************************************************************************)
AtMostOnce == \A x, y \in Records : x.body.call = y.body.call => x = y

(***************************************************************************)
(* ResultIsTrue: a call that returned 1 handed out the hash of the record  *)
(* it made; a call that returned -1 or -7 made none.  Only -6 leaves open  *)
(* whether the evidence is on the ledger.                                  *)
(***************************************************************************)
ResultIsTrue ==
    \A r \in returned :
        /\ r.code = 1 => \E tx \in Records : HashOf(tx) = r.hash /\ tx.body.call = r.call
        /\ r.code \in {-1, -7} => \A tx \in Records : tx.body.call # r.call

(***************************************************************************)
(* RowsRecorded: every row of business_data and user_certification names a *)
(* record the ledger accepted from that account, of the row's type: what   *)
(* EChain_BusinessDataUpdate and EChain_ContractAddressDelete read back    *)
(* later is never the hash of a transaction that was refused.              *)
(***************************************************************************)
RowsRecorded ==
    \A r \in business_data \cup user_certification :
        \E tx \in Records :
            HashOf(tx) = r.hash /\ tx.src = r.acct /\ tx.body.type = r.type

(***************************************************************************)
(* VersionChain: the record an update names as its predecessor is in a     *)
(* closed ledger, and the update's version is one higher; new records      *)
(* start at version 1.                                                     *)
(***************************************************************************)
VersionChain ==
    \A tx \in Records :
        IF tx.body.pre = None
        THEN tx.body.version = 1
        ELSE \E p \in Records : /\ HashOf(p) = tx.body.pre /\ ~ Pending(p)
                                /\ tx.body.version = p.body.version + 1

(***************************************************************************)
(* DeleteCovers: when EChain_ContractAddressDelete returns 1, every row it *)
(* found has a DELETE record on the ledger that names it.                  *)
(***************************************************************************)
DeleteCovers ==
    \A c \in cleared : c.code = 1 =>
        \A r \in c.rows : \E tx \in Records : tx.body.type = "DELETE" /\ tx.body.pre = r.hash

(***************************************************************************)
(* What the comments of the code say and the code does not do.             *)
(***************************************************************************)

(* LatestPredecessor: "preTranxHash: the transaction hash of the latest     *)
(* on-chain data": EChain_ContractAddressDelete calls                       *)
(* EChain_BusinessDataUpdate with the newest record of the data, so no      *)
(* DELETE record has the same predecessor as another record.                *)
LatestPredecessor ==
    \A x, y \in Records :
        x.body.type = "DELETE" /\ x.body.pre = y.body.pre => x = y

(***************************************************************************)
(* Implements: the calls behave like those of EvidenceLog.                 *)
(***************************************************************************)
Returned(c, codes) == \E r \in returned : r.call = c /\ r.code \in codes
ResultOf(c) ==
    IF Returned(c, {1}) THEN "recorded"
    ELSE IF Returned(c, {-6}) THEN "unknown"
    ELSE IF Returned(c, {-1, -7}) THEN "failed"
    ELSE "none"

Log == INSTANCE EvidenceLog WITH
         Calls  <- Call,
         record <- [c \in Call |-> {tx \in Records : tx.body.call = c}],
         result <- [c \in Call |-> ResultOf(c)]

Implements == Log!LSpec

-----------------------------------------------------------------------------
(* Liveness.                                                                *)

(***************************************************************************)
(* CallsReturn: while network and database answer, every evidence call     *)
(* returns: the threads that share an account push each other's nonce on,  *)
(* but the loop 3 / 99 / 100 of each ends.                                 *)
(***************************************************************************)
CallsReturn == \A t \in Thread : (pc[t] # "idle") ~> (pc[t] = "idle")

=============================================================================

--------------------------- MODULE EvidenceProofs ---------------------------
(***************************************************************************)
(* Proofs about Evidence, for any number of threads, accounts and calls    *)
(* and any faults of network and database: a call records its content at   *)
(* most once, what it returns is true, and the calls implement             *)
(* EvidenceLog.  None of this depends on the nonces: it rests on where the *)
(* retry loop goes after each answer.                                      *)
(***************************************************************************)
EXTENDS Evidence, GenesisTxProofs

Idle == {"idle", "delNext", "delFailed"}
Running(t) == pc[t] \notin Idle

DelRecord == [acct : Owner, rows : SUBSET business_data]

(* Where a thread is and what its locals hold there. *)
Located(t) ==
    /\ Running(t) => /\ acct[t] \in Owner /\ type[t] \in Types /\ op[t] \in EvFunctions
                     /\ calls[t] \in 1 .. MaxCalls
    /\ pc[t] = "meta" => pre[t] \in Hash
    /\ pc[t] \in GtxLabels => dest[t] \in Owner
    /\ pc[t] \in {"delNext", "delFailed"} => del[t] \in DelRecord

TypeInv ==
    /\ TypeOK
    /\ IsFiniteSet(accepted)
    /\ \A tx \in Records : tx.body.version \in Nat
    /\ \A t \in Thread : Located(t)

LEMMA TypeIsGtxOK == TypeInv => GtxOK
BY DEF TypeInv, TypeOK, GtxOK, NodeOK

LEMMA InitType == Init => TypeInv
<1> SUFFICES ASSUME Init PROVE TypeInv
  OBVIOUS
<1>1. TypeOK
  BY EvidenceAssumption, OutcomeAssumption
     DEF Init, NodeInit, GtxInit, TypeOK, GtxLabels, EvLabels, Types, EvFunctions
<1>2. IsFiniteSet(accepted) /\ Records = {}
  BY FS_EmptySet DEF Init, NodeInit, Records
<1>3. \A t \in Thread : Located(t)
  BY DEF Init, GtxInit, Located, Running, Idle, GtxLabels
<1> QED
  BY <1>1, <1>2, <1>3 DEF TypeInv

(* Calls, whether from the application or from EChain_ContractAddressDelete. *)
LEMMA BeginType ==
    ASSUME TypeInv, NEW t \in Thread, NEW f \in EvFunctions, NEW ty \in Types,
           NEW a \in Owner, NEW p \in Hash \cup {None},
           NEW l \in {"meta", "evKey"}, l = "meta" => p \in Hash,
           Begin(t, f, ty, a, p, l), UNCHANGED <<del, cleared>>,
           todo' \in [Thread -> SUBSET business_data]
    PROVE  TypeInv'
<1> USE DEF Begin, Goto, nodeVars, gtxVars, tables
<1>1. calls' \in [Thread -> 0 .. MaxCalls] /\ calls'[t] \in 1 .. MaxCalls
  BY EvidenceAssumption DEF TypeInv, TypeOK
<1>2. TypeOK'
  BY <1>1 DEF TypeInv, TypeOK, EvLabels
<1>3. \A u \in Thread : Located(u)'
  BY <1>1 DEF TypeInv, TypeOK, Located, Running, Idle, GtxLabels, DelRecord
<1> QED
  BY <1>2, <1>3 DEF TypeInv, Records, IsEvidence

LEMMA CallType ==
    ASSUME TypeInv, NEW t \in Thread, CallStep(t)
    PROVE  TypeInv'
<1>1. ASSUME NEW a \in Owner, EChain_UserCertification(t, a) PROVE TypeInv'
  BY <1>1, BeginType
     DEF EChain_UserCertification, delVars, EvFunctions, Types, TypeInv, TypeOK
<1>2. ASSUME NEW a \in Owner, EChain_BusinessDataStorage(t, a) PROVE TypeInv'
  BY <1>2, BeginType
     DEF EChain_BusinessDataStorage, delVars, EvFunctions, Types, TypeInv, TypeOK
<1>3. ASSUME NEW a \in Owner, NEW r \in business_data,
             EChain_BusinessDataUpdate(t, a, r.hash) PROVE TypeInv'
  <2>1. r.hash \in Hash
    BY DEF TypeInv, TypeOK, Row
  <2> QED
    BY <1>3, <2>1, BeginType
       DEF EChain_BusinessDataUpdate, delVars, EvFunctions, Types, TypeInv, TypeOK
<1>4. ASSUME NEW a \in Owner, EChain_ContractAddressDelete(t, a) PROVE TypeInv'
  <2> USE DEF EChain_ContractAddressDelete, EndDelete, Goto, nodeVars, gtxVars, tables,
              frame, RowsOf
  <2>1. [acct |-> a, rows |-> RowsOf(a)] \in DelRecord
    BY DEF DelRecord
  <2>2. TypeOK'
    <3>1. UNCHANGED <<closed, last, bal, g_genesisNonce, g_dbmutex, fn, dest, nn, resp,
                      business_data, user_certification, op, type, acct, pre, ver, nonce,
                      calls, returned>>
      BY <1>4
    <3>2. pc' \in [Thread -> GtxLabels \cup EvLabels]
      BY <1>4 DEF TypeInv, TypeOK, EvLabels
    <3>3. del' \in [Thread -> DelRecord \cup {None}]
      BY <1>4, <2>1 DEF TypeInv, TypeOK, DelRecord
    <3>4. todo' \in [Thread -> SUBSET business_data]
      BY <1>4 DEF TypeInv, TypeOK
    <3> QED
      BY <3>1, <3>2, <3>3, <3>4 DEF TypeInv, TypeOK, DelRecord
  <2>3. del'[t] \in DelRecord' \/ pc'[t] = "idle"
    BY <1>4, <2>1 DEF TypeInv, TypeOK, DelRecord
  <2>4. \A u \in Thread : Located(u)'
    BY <1>4, <2>3 DEF TypeInv, TypeOK, Located, Running, Idle, GtxLabels, DelRecord
  <2> QED
    BY <1>4, <2>2, <2>4 DEF TypeInv, Records, IsEvidence
<1> QED
  BY <1>1, <1>2, <1>3, <1>4 DEF CallStep

(* Returns: whatever the action does to the node and the tables besides. *)
LEMMA ReturnType ==
    ASSUME TypeInv, NEW t \in Thread, Running(t), NEW code \in {1, -1, -6, -7},
           Return(t, code), NodeOK', \A tx \in Records' : tx.body.version \in Nat,
           business_data \subseteq business_data', business_data' \subseteq Row,
           user_certification' \subseteq Row,
           UNCHANGED <<g_genesisNonce, nn, resp, g_dbmutex>>,
           fn' \in [Thread -> {"EChain_ObtainAssetCode", None}],
           dest' \in [Thread -> Owner \cup {None}],
           \A u \in Thread \ {t} : dest'[u] = dest[u]
    PROVE  TypeInv'
<1>1. AfterUpdate(code) \in {"delNext", "delFailed"}
  BY DEF AfterUpdate
<1>2. PICK l \in Idle : pc' = [pc EXCEPT ![t] = l] /\ (l # "idle" => del[t] # None)
  BY <1>1 DEF Return, Goto, Idle
<1>3. \A r \in returned' : r.call \in Call /\ r.code \in {1, -1, -6, -7}
  <2>1. CallOf(t) \in Call
    BY DEF TypeInv, Located, CallOf, Call
  <2> QED
    BY <2>1 DEF Return, TypeInv, TypeOK
<1>4. /\ del' \in [Thread -> DelRecord' \cup {None}]
      /\ todo' \in [Thread -> SUBSET business_data']
  BY DEF Return, delVars, TypeInv, TypeOK, DelRecord
<1>5. TypeOK'
  BY <1>2, <1>3, <1>4 DEF Return, delVars, TypeInv, TypeOK, NodeOK, EvLabels, Idle, DelRecord
<1>6. \A u \in Thread : Located(u)'
  BY <1>2, <1>4, <1>5 DEF Return, delVars, TypeInv, TypeOK, Located, Running, Idle, GtxLabels, DelRecord
<1> QED
  BY <1>5, <1>6 DEF TypeInv, NodeOK

(* Steps inside the evidence functions that do not return. *)
LEMMA MoveType ==
    ASSUME TypeInv, NEW t \in Thread, Running(t),
           NEW l \in {"evKey", "evNonce", "evBlob", "evSubmit", "evInsert", "key"},
           Goto(t, l), NodeOK', \A tx \in Records' : tx.body.version \in Nat,
           UNCHANGED <<g_genesisNonce, nn, resp, g_dbmutex, tables, op, type, acct, pre,
                       calls, returned, delVars>>,
           ver' \in [Thread -> Nat], nonce' \in [Thread -> Nat],
           fn' \in [Thread -> {"EChain_ObtainAssetCode", None}],
           dest' \in [Thread -> Owner \cup {None}],
           l = "key" => dest'[t] \in Owner,
           \A u \in Thread \ {t} : dest'[u] = dest[u]
    PROVE  TypeInv'
<1>1. TypeOK'
  BY DEF Goto, tables, delVars, TypeInv, TypeOK, NodeOK, EvLabels, GtxLabels
<1>2. \A u \in Thread : Located(u)'
  BY DEF Goto, tables, delVars, TypeInv, TypeOK, Located, Running, Idle, GtxLabels, DelRecord
<1> QED
  BY <1>1, <1>2 DEF TypeInv, NodeOK

(* Nothing happens at the node. *)
LEMMA NodeStill ==
    ASSUME TypeInv, UNCHANGED nodeVars
    PROVE  /\ NodeOK' /\ Records' = Records
           /\ \A tx \in Records' : tx.body.version \in Nat
<1>1. NodeOK
  BY TypeIsGtxOK DEF GtxOK
<1> QED
  BY <1>1 DEF nodeVars, NodeOK, Records, TypeInv

(* What a submission adds to the records. *)
LEMMA SubmitRecords ==
    ASSUME NEW src, NEW n, NEW body, NEW cost, Submit(src, n, body, cost),
           body.op = "evidence"
    PROVE  IF SubmitCode(src, n, cost) = 0
           THEN Records' = Records \cup {[src |-> src, nonce |-> n, body |-> body]}
           ELSE Records' = Records
BY DEF Submit, Records, IsEvidence, nodeVars

LEMMA SubmitCodes ==
    ASSUME NEW src, NEW n, NEW cost
    PROVE  SubmitCode(src, n, cost) \in {0, 3, 99, 100}
BY ZenonT(60) DEF SubmitCode

(* EvSubmit, whose answer goes three ways. *)
LEMMA EvSubmitType ==
    ASSUME TypeInv, NEW t \in Thread, EvSubmit(t)
    PROVE  TypeInv'
<1> DEFINE code == SubmitCode(acct[t], nonce[t], EvCost)
<1>0. /\ Running(t) /\ acct[t] \in Owner /\ acct[t] \in Account
      /\ nonce[t] \in Int /\ EvCost \in Nat
  BY EvidenceAssumption DEF EvSubmit, TypeInv, TypeOK, Located, Running, Idle, EvCost
<1>1. PICK o \in NetOutcomes :
        /\ IF o \in {"fail", "reject"}
           THEN UNCHANGED nodeVars
           ELSE Submit(acct[t], nonce[t], EvBody(t), EvCost)
        /\ \/ /\ o = "ok" /\ code # 100
              /\ Goto(t, AfterCode(code))
              /\ UNCHANGED <<fn, dest, frame, returned, calls, delVars>>
           \/ /\ o = "ok" /\ code = 100
              /\ fn' = [fn EXCEPT ![t] = "EChain_ObtainAssetCode"]
              /\ dest' = [dest EXCEPT ![t] = acct[t]]
              /\ Goto(t, "key")
              /\ UNCHANGED <<frame, returned, calls, delVars>>
           \/ o # "ok" /\ NoAnswer(t, o)
  BY DEF EvSubmit
<1>2. NodeOK' /\ \A tx \in Records' : tx.body.version \in Nat
  <2>1. CASE UNCHANGED nodeVars
    BY <2>1, NodeStill
  <2>2. CASE Submit(acct[t], nonce[t], EvBody(t), EvCost)
    <3>1. NodeOK'
      BY <1>0, <2>2, SubmitType, TypeIsGtxOK DEF GtxOK
    <3>2. EvBody(t).op = "evidence" /\ EvBody(t).version \in Nat
      BY DEF EvBody, TypeInv, TypeOK
    <3>3. \A tx \in Records' : tx \in Records \/ tx.body = EvBody(t)
      BY <2>2, <3>2, SubmitRecords
    <3> QED
      BY <3>1, <3>2, <3>3 DEF TypeInv
  <2> QED
    BY <1>1, <2>1, <2>2
<1>3. UNCHANGED <<g_genesisNonce, nn, resp, g_dbmutex, tables>>
  BY DEF EvSubmit
<1>4. CASE o = "ok" /\ code # 100
  <2>1. code \in {0, 3, 99}
    BY <1>4, SubmitCodes
  <2>2. AfterCode(code) \in {"evInsert", "evBlob", "evNonce"}
    BY <2>1 DEF AfterCode
  <2> HIDE DEF code
  <2> QED
    BY <1>0, <1>1, <1>2, <1>3, <1>4, <2>2, MoveType DEF frame, TypeInv, TypeOK
<1>5. CASE o = "ok" /\ code = 100
  <2>1. /\ fn' = [fn EXCEPT ![t] = "EChain_ObtainAssetCode"]
        /\ dest' = [dest EXCEPT ![t] = acct[t]]
        /\ Goto(t, "key")
        /\ UNCHANGED <<frame, returned, calls, delVars>>
    BY <1>1, <1>5
  <2>2. /\ fn' \in [Thread -> {"EChain_ObtainAssetCode", None}]
        /\ dest' \in [Thread -> Owner \cup {None}] /\ dest'[t] \in Owner
        /\ \A u \in Thread \ {t} : dest'[u] = dest[u]
        /\ ver' \in [Thread -> Nat] /\ nonce' \in [Thread -> Nat]
    BY <1>0, <2>1 DEF frame, TypeInv, TypeOK
  <2> QED
    BY <1>0, <1>2, <1>3, <2>1, <2>2, MoveType DEF frame
<1>6. CASE o # "ok"
  <2>1. Return(t, IF o = "reject" THEN -7 ELSE -6) /\ UNCHANGED <<fn, dest>>
    BY <1>1, <1>6 DEF NoAnswer
  <2> QED
    BY <1>0, <1>2, <1>3, <2>1, ReturnType DEF tables, TypeInv, TypeOK
<1> QED
  BY <1>4, <1>5, <1>6

(* The other steps of the evidence functions. *)
LEMMA BodyType ==
    ASSUME TypeInv, NEW t \in Thread,
           ReadMeta(t) \/ EvKey(t) \/ EvNonce(t) \/ EvBlob(t) \/ AfterGrant(t) \/ EvInsert(t)
    PROVE  TypeInv'
<1> USE DEF gtxVars, tables
<1>0. /\ Running(t) /\ acct[t] \in Owner /\ acct[t] \in Account /\ closed[acct[t]] \in Nat
      /\ type[t] \in Types /\ nonce[t] \in Nat
  BY EvidenceAssumption
     DEF ReadMeta, EvKey, EvNonce, EvBlob, AfterGrant, EvInsert, TypeInv, TypeOK, Located,
         Running, Idle
<1>1. UNCHANGED nodeVars
  BY DEF ReadMeta, EvKey, EvNonce, EvBlob, AfterGrant, EvInsert
<1>2. NodeOK' /\ \A tx \in Records' : tx.body.version \in Nat
  BY <1>1, NodeStill
<1>3. /\ fn \in [Thread -> {"EChain_ObtainAssetCode", None}]
      /\ dest \in [Thread -> Owner \cup {None}]
      /\ ver \in [Thread -> Nat] /\ nonce \in [Thread -> Nat]
      /\ business_data \subseteq Row /\ user_certification \subseteq Row
  BY DEF TypeInv, TypeOK
<1>4. ASSUME NEW code \in {1, -1, -6, -7}, Return(t, code), UNCHANGED <<gtxVars, g_dbmutex, tables>>
      PROVE  TypeInv'
  BY <1>0, <1>2, <1>3, <1>4, ReturnType
<1>5. CASE ReadMeta(t)
  <2>1. ASSUME NEW tx \in Records, ver' = [ver EXCEPT ![t] = NewVersion(tx.body.version)]
        PROVE  ver' \in [Thread -> Nat]
    BY <1>3, <2>1 DEF NewVersion, TypeInv
  <2> QED
    BY <1>0, <1>2, <1>3, <1>4, <1>5, <2>1, MoveType DEF ReadMeta
<1>6. CASE EvKey(t)
  BY <1>0, <1>2, <1>3, <1>4, <1>6, MoveType DEF EvKey, frame
<1>7. CASE EvNonce(t)
  <2>1. nonce' = [nonce EXCEPT ![t] = closed[acct[t]]] => nonce' \in [Thread -> Nat]
    BY <1>0, <1>3
  <2> QED
    BY <1>0, <1>2, <1>3, <1>4, <1>7, <2>1, MoveType DEF EvNonce, NoNonce
<1>8. CASE EvBlob(t)
  <2>1. nonce' = [nonce EXCEPT ![t] = @ + 1] => nonce' \in [Thread -> Nat]
    BY <1>0, <1>3
  <2> QED
    BY <1>0, <1>2, <1>3, <1>4, <1>8, <2>1, MoveType DEF EvBlob
<1>9. CASE AfterGrant(t)
  <2>1. /\ fn' \in [Thread -> {"EChain_ObtainAssetCode", None}]
        /\ dest' \in [Thread -> Owner \cup {None}]
        /\ \A u \in Thread \ {t} : dest'[u] = dest[u]
    BY <1>3, <1>9 DEF AfterGrant
  <2>2. CASE Return(t, -1)
    BY <1>0, <1>2, <1>3, <1>9, <2>1, <2>2, ReturnType DEF AfterGrant
  <2>3. CASE Goto(t, "evNonce") /\ UNCHANGED <<frame, returned, calls, delVars>>
    BY <1>0, <1>2, <1>3, <1>9, <2>1, <2>3, MoveType DEF AfterGrant, frame
  <2> QED
    BY <1>9, <2>2, <2>3 DEF AfterGrant
<1>10. CASE EvInsert(t)
  <2> DEFINE row == [acct |-> acct[t], type |-> type[t], hash |-> MyHash(t)]
  <2>1. row \in Row
    BY <1>0 DEF Row, MyHash, Hash, CallOf, TypeInv, TypeOK
  <2>2. /\ business_data' = business_data \/ business_data' = business_data \cup {row}
        /\ user_certification' = user_certification
             \/ user_certification' = user_certification \cup {row}
    BY <1>10 DEF EvInsert
  <2>3. Return(t, 1) /\ UNCHANGED <<gtxVars, g_dbmutex>>
    BY <1>10 DEF EvInsert
  <2> HIDE DEF row
  <2> QED
    BY <1>0, <1>2, <1>3, <2>1, <2>2, <2>3, ReturnType
<1> QED
  BY <1>5, <1>6, <1>7, <1>8, <1>9, <1>10

(* EChain_ContractAddressDelete after its select. *)
LEMMA DeleteType ==
    ASSUME TypeInv, NEW t \in Thread, DeleteNext(t)
    PROVE  TypeInv'
<1>1. ASSUME pc[t] = "delNext", NEW r \in todo[t],
             todo' = [todo EXCEPT ![t] = @ \ {r}], UNCHANGED <<del, cleared>>,
             Begin(t, "EChain_BusinessDataUpdate", "DELETE", del[t].acct, r.hash, "meta")
      PROVE  TypeInv'
  <2>1. r \in business_data /\ r.hash \in Hash /\ del[t].acct \in Owner
    BY <1>1 DEF TypeInv, TypeOK, Located, DelRecord, Row
  <2>2. todo' \in [Thread -> SUBSET business_data]
    BY <1>1 DEF TypeInv, TypeOK
  <2> QED
    BY <1>1, <2>1, <2>2, BeginType DEF EvFunctions, Types
<1>2. ASSUME NEW code, NEW rows, EndDelete(t, code, rows),
             UNCHANGED <<nodeVars, gtxVars, g_dbmutex, tables, frame, calls, returned>>
      PROVE  TypeInv'
  <2>1. TypeOK'
    BY <1>2 DEF EndDelete, Goto, nodeVars, gtxVars, tables, frame, TypeInv, TypeOK, EvLabels
  <2>2. \A u \in Thread : Located(u)'
    BY <1>2 DEF EndDelete, Goto, nodeVars, gtxVars, tables, frame, TypeInv, TypeOK, Located,
                Running, Idle, GtxLabels, DelRecord
  <2> QED
    BY <1>2, <2>1, <2>2 DEF TypeInv, nodeVars, Records
<1> QED
  BY <1>1, <1>2 DEF DeleteNext

LEMMA TypeInductive == TypeInv /\ [Next]_vars => TypeInv'
<1> SUFFICES ASSUME TypeInv, [Next]_vars PROVE TypeInv'
  OBVIOUS
<1>1. ASSUME NEW t \in Thread, CallStep(t) PROVE TypeInv'
  BY <1>1, CallType
<1>2. ASSUME NEW t \in Thread, ThreadStep(t) PROVE TypeInv'
  <2>1. CASE ObtainAssetCode(t)
    <3>1. /\ GtxOK' /\ pc[t] \in GtxLabels
          /\ \E l \in GtxLabels : pc' = [pc EXCEPT ![t] = l]
          /\ UNCHANGED <<fn, dest, g_dbmutex>>
          /\ accepted \subseteq accepted'
          /\ \A tx \in accepted' \ accepted : tx.body.op \in {"pay", "create"}
      BY <2>1, TypeIsGtxOK, GtxFrame DEF ObtainAssetCode
    <3>2. Records' = Records
      BY <3>1 DEF Records, IsEvidence
    <3>3. UNCHANGED evVars
      BY <2>1 DEF ObtainAssetCode
    <3>4. TypeOK'
      BY <3>1, <3>3 DEF TypeInv, TypeOK, GtxOK, NodeOK, evVars, tables, frame, delVars
    <3>5. \A u \in Thread : Located(u)'
      BY <3>1, <3>3 DEF TypeInv, TypeOK, Located, Running, Idle, GtxLabels, DelRecord,
                        evVars, tables, frame, delVars
    <3> QED
      BY <3>1, <3>2, <3>4, <3>5 DEF TypeInv, GtxOK, NodeOK
  <2> QED
    BY <1>2, <2>1, BodyType, EvSubmitType, DeleteType DEF ThreadStep
<1>3. CASE Close
  <2>1. NodeOK' /\ Records' = Records
    BY <1>3, TypeIsGtxOK, CloseType DEF Close, CloseLedger, GtxOK, Records
  <2> QED
    BY <1>3, <2>1 DEF Close, NodeOK, thread, evVars, tables, frame, delVars, TypeInv, TypeOK,
                      Located, Running, DelRecord
<1>4. CASE Crash
  <2>1. NodeOK' /\ Records' = Records
    BY <1>4, NodeStill DEF Crash
  <2> QED
    BY <1>4, <2>1, NodeAssumption
       DEF Crash, GtxReset, nodeVars, tables, TypeInv, TypeOK, NodeOK, Located, Running, Idle,
           GtxLabels, EvLabels, DelRecord
<1>5. CASE UNCHANGED vars
  BY <1>5 DEF vars, nodeVars, thread, evVars, tables, frame, delVars, TypeInv, TypeOK,
              Located, Running, DelRecord, Records
<1> QED
  BY <1>1, <1>2, <1>3, <1>4, <1>5 DEF Next

(* Every variable keeps its type, the tables their row types. *)
THEOREM EvidenceTypes == Spec => []TypeOK
<1>1. Spec => []TypeInv
  BY InitType, TypeInductive, PTL DEF Spec
<1>2. TypeInv => TypeOK
  BY DEF TypeInv
<1> QED
  BY <1>1, <1>2, PTL

-----------------------------------------------------------------------------
(***************************************************************************)
(* Records and results.  A call leaves its loop the moment the node        *)
(* accepts it: every other answer leads back into the loop or out of the   *)
(* function with nothing recorded.                                         *)
(***************************************************************************)

(* The calls that have begun so far. *)
Begun(c) == c \in Call /\ c[2] <= calls[c[1]]
OnlyBegun ==
    /\ \A tx \in Records : Begun(tx.body.call)
    /\ \A r \in returned : Begun(r.call)

(* What a thread knows of its current call. *)
Progress(t) ==
    /\ Running(t) => \A r \in returned : r.call # CallOf(t)
    /\ Running(t) /\ pc[t] # "evInsert" => \A tx \in Records : tx.body.call # CallOf(t)
    /\ pc[t] = "evInsert" =>
          \E tx \in Records : /\ HashOf(tx) = MyHash(t) /\ tx.src = acct[t]
                              /\ tx.body.type = type[t] /\ tx.body.call = CallOf(t)

RecordInv ==
    /\ TypeInv
    /\ OnlyBegun
    /\ \A t \in Thread : Progress(t)
    /\ AtMostOnce /\ ResultIsTrue /\ RowsRecorded

LEMMA InitRecord == Init => RecordInv
<1> SUFFICES ASSUME Init PROVE RecordInv
  OBVIOUS
<1>1. Records = {}
  BY DEF Init, NodeInit, Records
<1>2. \A t \in Thread : Progress(t)
  BY DEF Init, GtxInit, Progress, Running, Idle
<1> QED
  BY <1>1, <1>2, InitType
     DEF RecordInv, OnlyBegun, AtMostOnce, ResultIsTrue, RowsRecorded, Init

(* The threads that do not move keep what they know. *)
LEMMA OthersProgress ==
    ASSUME RecordInv, NEW u \in Thread, Records \subseteq Records',
           \A tx \in Records' \ Records : tx.body.call # CallOf(u),
           \A r \in returned' \ returned : r.call # CallOf(u),
           pc'[u] = pc[u], calls'[u] = calls[u], acct'[u] = acct[u],
           nonce'[u] = nonce[u], type'[u] = type[u]
    PROVE  Progress(u)'
<1>1. Progress(u) /\ CallOf(u)' = CallOf(u) /\ MyHash(u)' = MyHash(u)
  BY DEF RecordInv, CallOf, MyHash
<1> QED
  BY <1>1 DEF Progress, Running, HashOf

(* A step that neither records nor returns. *)
LEMMA Quiet ==
    ASSUME RecordInv, TypeInv', NEW t \in Thread,
           Records' = Records, UNCHANGED <<returned, calls, business_data, user_certification>>,
           \A u \in Thread \ {t} : /\ pc'[u] = pc[u] /\ acct'[u] = acct[u]
                                   /\ nonce'[u] = nonce[u] /\ type'[u] = type[u],
           Running(t)' => Running(t) /\ pc[t] # "evInsert" /\ pc'[t] # "evInsert"
    PROVE  RecordInv'
<1>1. Progress(t)'
  <2>1. CallOf(t)' = CallOf(t) /\ Progress(t)
    BY DEF CallOf, RecordInv
  <2>2. pc'[t] = "evInsert" => Running(t)'
    BY DEF Running, Idle
  <2> QED
    BY <2>1, <2>2 DEF Progress
<1>2. \A u \in Thread \ {t} : Progress(u)'
  BY OthersProgress
<1>3. OnlyBegun' /\ AtMostOnce' /\ ResultIsTrue' /\ RowsRecorded'
  BY DEF RecordInv, OnlyBegun, Begun, AtMostOnce, ResultIsTrue, RowsRecorded, HashOf
<1> QED
  BY <1>1, <1>2, <1>3 DEF RecordInv

(* A call begins. *)
LEMMA BeginRecord ==
    ASSUME RecordInv, TypeInv', NEW t \in Thread, ~ Running(t),
           NEW f, NEW ty, NEW a, NEW p, NEW l \in {"meta", "evKey"},
           Begin(t, f, ty, a, p, l)
    PROVE  RecordInv'
<1>1. /\ Records' = Records /\ UNCHANGED <<returned, tables>>
      /\ calls'[t] = calls[t] + 1 /\ calls[t] \in Nat /\ pc'[t] = l
      /\ \A u \in Thread \ {t} : /\ pc'[u] = pc[u] /\ calls'[u] = calls[u]
                                 /\ acct'[u] = acct[u] /\ nonce'[u] = nonce[u]
                                 /\ type'[u] = type[u]
  BY DEF Begin, Goto, nodeVars, Records, RecordInv, TypeInv, TypeOK
<1>2. ~ Begun(<<t, calls[t] + 1>>)
  BY <1>1 DEF Begun, RecordInv, TypeInv, TypeOK, Call
<1>3. Progress(t)'
  BY <1>1, <1>2 DEF Progress, CallOf, RecordInv, OnlyBegun
<1>4. \A u \in Thread \ {t} : Progress(u)'
  BY <1>1, OthersProgress
<1>5. \A c : Begun(c) => Begun(c)'
  BY <1>1 DEF Begun, Call, RecordInv, TypeInv, TypeOK
<1>6. OnlyBegun' /\ AtMostOnce' /\ ResultIsTrue' /\ RowsRecorded'
  BY <1>1, <1>5
     DEF RecordInv, OnlyBegun, AtMostOnce, ResultIsTrue, RowsRecorded, HashOf, tables
<1> QED
  BY <1>3, <1>4, <1>6 DEF RecordInv

(* A step of a running call: it may record its content, or return, or both. *)
LEMMA StepRecord ==
    ASSUME RecordInv, TypeInv', NEW t \in Thread, Running(t),
           Records \subseteq Records', returned \subseteq returned', UNCHANGED calls,
           \A x \in Records' \ Records : x.body.call = CallOf(t),
           \A x, y \in Records' \ Records : x = y,
           Records' # Records => pc[t] # "evInsert",
           \A r \in returned' \ returned :
              /\ r.call = CallOf(t)
              /\ r.code = 1 => \E tx \in Records' : HashOf(tx) = r.hash /\ tx.body.call = r.call
              /\ r.code \in {-1, -7} => \A tx \in Records' : tx.body.call # r.call,
           RowsRecorded', Progress(t)',
           \A u \in Thread \ {t} : /\ pc'[u] = pc[u] /\ acct'[u] = acct[u]
                                   /\ nonce'[u] = nonce[u] /\ type'[u] = type[u]
    PROVE  RecordInv'
<1>1. CallOf(t) \in Call /\ Begun(CallOf(t))
  BY DEF RecordInv, TypeInv, TypeOK, Located, Begun, CallOf, Call
<1>2. OnlyBegun'
  <2>1. \A c : Begun(c) <=> Begun(c)'
    BY DEF Begun
  <2> QED
    BY <1>1, <2>1 DEF OnlyBegun, RecordInv
<1>3. \A u \in Thread \ {t} : Progress(u)'
  <2>1. \A u \in Thread \ {t} : CallOf(u) # CallOf(t)
    BY DEF CallOf
  <2> QED
    BY <2>1, OthersProgress
<1>4. AtMostOnce'
  <2>1. Records' # Records => \A tx \in Records : tx.body.call # CallOf(t)
    BY DEF RecordInv, Progress
  <2> QED
    BY <2>1 DEF AtMostOnce, RecordInv
<1>5. ResultIsTrue'
  <2>1. \A r \in returned : r.call # CallOf(t)
    BY DEF RecordInv, Progress
  <2> QED
    BY <2>1 DEF ResultIsTrue, RecordInv, HashOf
<1> QED
  BY <1>2, <1>3, <1>4, <1>5 DEF RecordInv

(* What a return leaves behind. *)
LEMMA ReturnFrame ==
    ASSUME RecordInv, NEW t \in Thread, NEW code, Return(t, code)
    PROVE  /\ returned' = returned \cup {[call |-> CallOf(t), code |-> code,
                                          hash |-> IF code = 1 THEN MyHash(t) ELSE None]}
           /\ UNCHANGED calls
           /\ pc'[t] \in Idle
           /\ \A u \in Thread \ {t} : /\ pc'[u] = pc[u] /\ acct'[u] = acct[u]
                                      /\ nonce'[u] = nonce[u] /\ type'[u] = type[u]
           /\ Progress(t)'
<1>1. AfterUpdate(code) \in {"delNext", "delFailed"}
  BY DEF AfterUpdate
<1>2. pc'[t] \in Idle
  BY <1>1 DEF Return, Goto, Idle, RecordInv, TypeInv, TypeOK
<1>3. Progress(t)'
  BY <1>2 DEF Progress, Running, Idle
<1> QED
  BY <1>2, <1>3 DEF Return, Goto, RecordInv, TypeInv, TypeOK

(* A failed call: nothing is on the ledger, or -6 says that it may be. *)
LEMMA FailRecord ==
    ASSUME RecordInv, TypeInv', NEW t \in Thread, Running(t), pc[t] # "evInsert",
           NEW code \in {-1, -6, -7}, Return(t, code), UNCHANGED tables,
           \/ Records' = Records
           \/ /\ code = -6
              /\ \E x : x.body.call = CallOf(t) /\ Records' = Records \cup {x}
    PROVE  RecordInv'
<1>1. \A tx \in Records : tx.body.call # CallOf(t)
  BY DEF RecordInv, Progress
<1>2. RowsRecorded'
  BY DEF RowsRecorded, RecordInv, HashOf, tables
<1>3. /\ Records \subseteq Records' /\ \A x \in Records' \ Records : x.body.call = CallOf(t)
      /\ \A x, y \in Records' \ Records : x = y
  OBVIOUS
<1>4. /\ returned \subseteq returned'
      /\ \A r \in returned' \ returned : r.call = CallOf(t) /\ r.code = code
  BY ReturnFrame
<1>5. \A r \in returned' \ returned :
         /\ r.call = CallOf(t)
         /\ r.code = 1 => \E tx \in Records' : HashOf(tx) = r.hash /\ tx.body.call = r.call
         /\ r.code \in {-1, -7} => \A tx \in Records' : tx.body.call # r.call
  BY <1>1, <1>4
<1> QED
  BY <1>2, <1>3, <1>4, <1>5, ReturnFrame, StepRecord

(* A call that succeeded: its record is there, its row may be. *)
LEMMA InsertRecord ==
    ASSUME RecordInv, TypeInv', NEW t \in Thread, EvInsert(t)
    PROVE  RecordInv'
<1> DEFINE row == [acct |-> acct[t], type |-> type[t], hash |-> MyHash(t)]
<1>1. /\ pc[t] = "evInsert" /\ Return(t, 1) /\ Records' = Records
      /\ business_data' = business_data \/ business_data' = business_data \cup {row}
      /\ user_certification' = user_certification
           \/ user_certification' = user_certification \cup {row}
  BY DEF EvInsert, nodeVars, Records
<1>2. Running(t)
  BY <1>1 DEF Running, Idle
<1>3. PICK tx \in Records : /\ HashOf(tx) = MyHash(t) /\ tx.src = acct[t]
                            /\ tx.body.type = type[t] /\ tx.body.call = CallOf(t)
  BY <1>1 DEF RecordInv, Progress
<1>4. RowsRecorded'
  <2>1. \A r \in business_data' \cup user_certification' :
           r \in business_data \cup user_certification \/ r = row
    BY <1>1
  <2>2. row.hash = MyHash(t) /\ row.acct = acct[t] /\ row.type = type[t]
    OBVIOUS
  <2> HIDE DEF row
  <2>3. \A x : HashOf(x)' = HashOf(x)
    BY DEF HashOf
  <2> QED
    BY <1>1, <1>3, <2>1, <2>2, <2>3 DEF RowsRecorded, RecordInv
<1>5. /\ returned \subseteq returned'
      /\ \A r \in returned' \ returned : r.call = CallOf(t) /\ r.code = 1 /\ r.hash = MyHash(t)
  BY <1>1, ReturnFrame
<1> QED
  BY <1>1, <1>2, <1>3, <1>4, <1>5, ReturnFrame, StepRecord

(* submitTransaction and what follows: an accepted call goes to evInsert,    *)
(* or returns -6 when the answer is lost.                                    *)
NewRecord(t) == [src |-> acct[t], nonce |-> nonce[t], body |-> EvBody(t)]

LEMMA SubmitEffect ==
    ASSUME NEW t \in Thread, EvSubmit(t)
    PROVE  \/ /\ Records' = Records \cup {NewRecord(t)} /\ Goto(t, "evInsert")
              /\ UNCHANGED <<frame, returned, calls>>
           \/ /\ Records' = Records /\ UNCHANGED <<frame, returned, calls>>
              /\ \E l \in {"evBlob", "evNonce", "key"} : Goto(t, l)
           \/ /\ Return(t, -7) /\ Records' = Records
           \/ /\ Return(t, -6)
              /\ Records' = Records \/ Records' = Records \cup {NewRecord(t)}
<1> DEFINE code == SubmitCode(acct[t], nonce[t], EvCost)
<1>1. PICK o \in NetOutcomes :
        /\ IF o \in {"fail", "reject"}
           THEN UNCHANGED nodeVars
           ELSE Submit(acct[t], nonce[t], EvBody(t), EvCost)
        /\ \/ /\ o = "ok" /\ code # 100
              /\ Goto(t, AfterCode(code))
              /\ UNCHANGED <<fn, dest, frame, returned, calls, delVars>>
           \/ /\ o = "ok" /\ code = 100
              /\ fn' = [fn EXCEPT ![t] = "EChain_ObtainAssetCode"]
              /\ dest' = [dest EXCEPT ![t] = acct[t]]
              /\ Goto(t, "key")
              /\ UNCHANGED <<frame, returned, calls, delVars>>
           \/ o # "ok" /\ NoAnswer(t, o)
  BY DEF EvSubmit
<1>2. o \in {"fail", "reject"} => Records' = Records
  BY <1>1 DEF nodeVars, Records
<1>3. o \notin {"fail", "reject"} =>
         IF code = 0 THEN Records' = Records \cup {NewRecord(t)} ELSE Records' = Records
  BY <1>1, SubmitRecords DEF EvBody, NewRecord
<1>4. code \in {0, 3, 99, 100}
  BY SubmitCodes
<1> HIDE DEF code
<1>5. CASE o = "ok" /\ code = 0
  <2>1. Records' = Records \cup {NewRecord(t)}
    BY <1>3, <1>5
  <2>2. Goto(t, "evInsert") /\ UNCHANGED <<frame, returned, calls>>
    BY <1>1, <1>5 DEF AfterCode
  <2> QED
    BY <2>1, <2>2
<1>6. CASE o = "ok" /\ code # 0
  <2>1. \E l \in {"evBlob", "evNonce", "key"} : Goto(t, l)
    BY <1>1, <1>4, <1>6 DEF AfterCode
  <2>2. Records' = Records /\ UNCHANGED <<frame, returned, calls>>
    BY <1>1, <1>3, <1>6
  <2> QED
    BY <2>1, <2>2
<1>7. CASE o # "ok"
  <2>1. Return(t, IF o = "reject" THEN -7 ELSE -6)
    BY <1>1, <1>7 DEF NoAnswer
  <2>2. CASE o = "reject"
    <3>1. Return(t, -7)
      BY <2>1, <2>2
    <3> QED
      BY <1>2, <2>2, <3>1
  <2>3. CASE o # "reject"
    <3>1. Return(t, -6)
      BY <2>1, <2>3
    <3> QED
      BY <1>2, <1>3, <3>1
  <2> QED
    BY <2>2, <2>3
<1> QED
  BY <1>5, <1>6, <1>7

LEMMA SubmitRecord ==
    ASSUME RecordInv, TypeInv', NEW t \in Thread, EvSubmit(t)
    PROVE  RecordInv'
<1> DEFINE new == NewRecord(t)
<1>1. pc[t] = "evSubmit" /\ Running(t) /\ UNCHANGED tables
  BY DEF EvSubmit, Running, Idle
<1>2. /\ new.body.call = CallOf(t) /\ HashOf(new) = MyHash(t) /\ new.src = acct[t]
      /\ new.body.type = type[t]
  BY DEF NewRecord, EvBody, HashOf, MyHash
<1> HIDE DEF new
<1>3. CASE /\ Records' = Records \cup {new} /\ Goto(t, "evInsert")
           /\ UNCHANGED <<frame, returned, calls>>
  <2>1. pc'[t] = "evInsert" /\ \A u \in Thread \ {t} : pc'[u] = pc[u]
    BY <1>3 DEF Goto, RecordInv, TypeInv, TypeOK
  <2>2. CallOf(t)' = CallOf(t) /\ MyHash(t)' = MyHash(t)
    BY <1>3 DEF CallOf, MyHash, frame
  <2>3. Progress(t)'
    <3>1. \A r \in returned' : r.call # CallOf(t)'
      BY <1>1, <1>3, <2>2 DEF RecordInv, Progress
    <3>2. PICK x \in Records' : x = new
      BY <1>3
    <3>3. HashOf(x)' = HashOf(x) /\ UNCHANGED <<acct, type>>
      BY <1>3 DEF HashOf, frame
    <3> QED
      BY <1>2, <2>1, <2>2, <3>1, <3>2, <3>3 DEF Progress
  <2>4. \A x \in Records' \ Records : x = new
    BY <1>3
  <2>5. RowsRecorded'
    BY <1>1, <1>3 DEF RowsRecorded, RecordInv, HashOf, tables
  <2> QED
    BY <1>1, <1>2, <1>3, <2>1, <2>3, <2>4, <2>5, StepRecord DEF frame
<1>4. ASSUME NEW l \in {"evBlob", "evNonce", "key"}, Goto(t, l), Records' = Records,
             UNCHANGED <<frame, returned, calls>>
      PROVE  RecordInv'
  BY <1>1, <1>4, Quiet DEF frame, tables, Goto, RecordInv, TypeInv, TypeOK
<1>5. CASE Return(t, -7) /\ Records' = Records
  BY <1>1, <1>5, FailRecord
<1>6. CASE Return(t, -6) /\ (Records' = Records \/ Records' = Records \cup {new})
  BY <1>1, <1>2, <1>6, FailRecord
<1> QED
  BY <1>3, <1>4, <1>5, <1>6, SubmitEffect DEF new

(* The steps before and after the submission. *)
LEMMA BodyRecord ==
    ASSUME RecordInv, TypeInv', NEW t \in Thread,
           ReadMeta(t) \/ EvKey(t) \/ EvNonce(t) \/ EvBlob(t) \/ AfterGrant(t)
    PROVE  RecordInv'
<1>1. /\ Running(t) /\ pc[t] # "evInsert" /\ UNCHANGED tables /\ Records' = Records
  BY DEF ReadMeta, EvKey, EvNonce, EvBlob, AfterGrant, Running, Idle, nodeVars, Records
<1>2. ASSUME NEW code \in {-1, -6}, Return(t, code) PROVE RecordInv'
  BY <1>1, <1>2, FailRecord
<1>3. ASSUME NEW l \in {"evKey", "evNonce", "evBlob", "evSubmit"}, Goto(t, l),
             UNCHANGED <<acct, type, returned, calls>>,
             \A u \in Thread \ {t} : nonce'[u] = nonce[u]
      PROVE  RecordInv'
  BY <1>1, <1>3, Quiet DEF Goto, tables, RecordInv, TypeInv, TypeOK
<1>4. CASE ReadMeta(t)
  BY <1>2, <1>3, <1>4 DEF ReadMeta
<1>5. CASE EvKey(t)
  BY <1>2, <1>3, <1>5 DEF EvKey, frame
<1>6. CASE EvNonce(t)
  BY <1>2, <1>3, <1>6 DEF EvNonce, NoNonce, RecordInv, TypeInv, TypeOK
<1>7. CASE EvBlob(t)
  BY <1>2, <1>3, <1>7 DEF EvBlob, RecordInv, TypeInv, TypeOK
<1>8. CASE AfterGrant(t)
  BY <1>2, <1>3, <1>8 DEF AfterGrant, frame
<1> QED
  BY <1>4, <1>5, <1>6, <1>7, <1>8

LEMMA CallRecord ==
    ASSUME RecordInv, TypeInv', NEW t \in Thread, CallStep(t) \/ DeleteNext(t)
    PROVE  RecordInv'
<1>1. ~ Running(t)
  BY DEF CallStep, EChain_UserCertification, EChain_BusinessDataStorage,
         EChain_BusinessDataUpdate, EChain_ContractAddressDelete, DeleteNext, Running, Idle
<1>2. ASSUME NEW f, NEW ty, NEW a, NEW p, NEW l \in {"meta", "evKey"},
             Begin(t, f, ty, a, p, l)
      PROVE  RecordInv'
  BY <1>1, <1>2, BeginRecord
<1>3. ASSUME NEW l \in Idle, Goto(t, l),
             UNCHANGED <<nodeVars, tables, frame, calls, returned>>
      PROVE  RecordInv'
  <2>1. Records' = Records
    BY <1>3 DEF nodeVars, Records
  <2>2. ~ Running(t)' /\ \A u \in Thread \ {t} : pc'[u] = pc[u]
    BY <1>3 DEF Goto, Running, RecordInv, TypeInv, TypeOK
  <2> QED
    BY <1>3, <2>1, <2>2, Quiet DEF frame, tables
<1>4. CASE DeleteNext(t)
  BY <1>2, <1>3, <1>4 DEF DeleteNext, EndDelete, Idle
<1>5. CASE CallStep(t)
  BY <1>2, <1>3, <1>5
     DEF CallStep, EChain_UserCertification, EChain_BusinessDataStorage,
         EChain_BusinessDataUpdate, EChain_ContractAddressDelete, EndDelete, Idle
<1> QED
  BY <1>4, <1>5

LEMMA RecordInductive == RecordInv /\ [Next]_vars => RecordInv'
<1> SUFFICES ASSUME RecordInv, [Next]_vars PROVE RecordInv'
  OBVIOUS
<1>0. TypeInv'
  BY TypeInductive DEF RecordInv
<1>1. ASSUME NEW t \in Thread, CallStep(t) PROVE RecordInv'
  BY <1>0, <1>1, CallRecord
<1>2. ASSUME NEW t \in Thread, ThreadStep(t) PROVE RecordInv'
  <2>1. CASE ObtainAssetCode(t)
    <3>1. /\ pc[t] \in GtxLabels
          /\ \E l \in GtxLabels : pc' = [pc EXCEPT ![t] = l]
          /\ accepted \subseteq accepted'
          /\ \A tx \in accepted' \ accepted : tx.body.op \in {"pay", "create"}
      BY <2>1, TypeIsGtxOK, GtxFrame DEF ObtainAssetCode, RecordInv
    <3>2. Records' = Records
      BY <3>1 DEF Records, IsEvidence
    <3>3. UNCHANGED evVars
      BY <2>1 DEF ObtainAssetCode
    <3>4. /\ Running(t) /\ pc[t] # "evInsert" /\ pc'[t] # "evInsert"
          /\ \A u \in Thread \ {t} : pc'[u] = pc[u]
      BY <3>1 DEF GtxLabels, Running, Idle, RecordInv, TypeInv, TypeOK
    <3> QED
      BY <1>0, <3>2, <3>3, <3>4, Quiet DEF evVars, tables, frame
  <2> QED
    BY <1>0, <1>2, <2>1, BodyRecord, SubmitRecord, InsertRecord, CallRecord DEF ThreadStep
<1>3. CASE Close
  <2>1. Records' = Records /\ UNCHANGED <<thread, evVars>>
    BY <1>3 DEF Close, CloseLedger, Records
  <2>2. \A u \in Thread : Progress(u)'
    BY <2>1, OthersProgress DEF thread, evVars, frame
  <2> QED
    BY <1>0, <2>1, <2>2 DEF RecordInv, OnlyBegun, Begun, AtMostOnce, ResultIsTrue,
                            RowsRecorded, HashOf, evVars, tables
<1>4. CASE Crash
  <2>1. Records' = Records /\ UNCHANGED <<tables, calls, returned>>
    BY <1>4 DEF Crash, nodeVars, Records
  <2>2. \A u \in Thread : Progress(u)'
    BY <1>4 DEF Crash, GtxReset, Progress, Running, Idle
  <2> QED
    BY <1>0, <2>1, <2>2 DEF RecordInv, OnlyBegun, Begun, AtMostOnce, ResultIsTrue,
                            RowsRecorded, HashOf, tables
<1>5. CASE UNCHANGED vars
  <2>1. Records' = Records /\ UNCHANGED <<thread, evVars>>
    BY <1>5 DEF vars, nodeVars, Records
  <2>2. \A u \in Thread : Progress(u)'
    BY <2>1, OthersProgress DEF thread, evVars, frame
  <2> QED
    BY <1>0, <2>1, <2>2 DEF RecordInv, OnlyBegun, Begun, AtMostOnce, ResultIsTrue,
                            RowsRecorded, HashOf, evVars, tables
<1> QED
  BY <1>1, <1>2, <1>3, <1>4, <1>5 DEF Next

(***************************************************************************)
(* A call of an evidence function of src/test/api_echain_func.cpp records  *)
(* its content at most once, what it returns is true, and every row of     *)
(* business_data and user_certification names a record on the ledger,      *)
(* whatever the network, the database, the other threads and restarts do.  *)
(***************************************************************************)
THEOREM EvidenceSafe == Spec => [](AtMostOnce /\ ResultIsTrue /\ RowsRecorded)
<1>1. Spec => []RecordInv
  BY InitRecord, RecordInductive, PTL DEF Spec
<1>2. RecordInv => AtMostOnce /\ ResultIsTrue /\ RowsRecorded
  BY DEF RecordInv
<1> QED
  BY <1>1, <1>2, PTL

-----------------------------------------------------------------------------
(***************************************************************************)
(* The evidence functions implement EvidenceLog.                           *)
(***************************************************************************)

(* What a step does to the records and the results. *)
LEMMA Effect ==
    ASSUME RecordInv, [Next]_vars
    PROVE  \/ Records' = Records /\ returned' = returned
           \/ \E t \in Thread :
                /\ pc[t] = "evSubmit" /\ Records' = Records \cup {NewRecord(t)}
                /\ returned' = returned \/ Return(t, -6)
           \/ \E t \in Thread, code \in {1, -1, -6, -7} :
                /\ Running(t) /\ Records' = Records /\ Return(t, code)
                /\ code = 1 <=> pc[t] = "evInsert"
<1>1. ASSUME NEW t \in Thread, EvSubmit(t)
      PROVE  \/ Records' = Records /\ returned' = returned
             \/ /\ pc[t] = "evSubmit" /\ Records' = Records \cup {NewRecord(t)}
                /\ returned' = returned \/ Return(t, -6)
             \/ \E code \in {1, -1, -6, -7} :
                  /\ Running(t) /\ Records' = Records /\ Return(t, code)
                  /\ code = 1 <=> pc[t] = "evInsert"
  <2>1. pc[t] = "evSubmit" /\ Running(t)
    BY <1>1 DEF EvSubmit, Running, Idle
  <2> QED
    BY <1>1, <2>1, SubmitEffect
<1>2. ASSUME NEW t \in Thread,
             ReadMeta(t) \/ EvKey(t) \/ EvNonce(t) \/ EvBlob(t) \/ AfterGrant(t) \/ EvInsert(t)
      PROVE  \/ Records' = Records /\ returned' = returned
             \/ \E code \in {1, -1, -6, -7} :
                  /\ Running(t) /\ Records' = Records /\ Return(t, code)
                  /\ code = 1 <=> pc[t] = "evInsert"
  <2>1. Running(t) /\ Records' = Records
    BY <1>2 DEF ReadMeta, EvKey, EvNonce, EvBlob, AfterGrant, EvInsert, Running, Idle,
                nodeVars, Records
  <2>2. CASE EvInsert(t)
    BY <2>1, <2>2 DEF EvInsert
  <2>3. ASSUME ReadMeta(t) \/ EvKey(t) \/ EvNonce(t) \/ EvBlob(t) \/ AfterGrant(t)
        PROVE  pc[t] # "evInsert" /\ (returned' = returned \/ Return(t, -1) \/ Return(t, -6))
    BY <2>3 DEF ReadMeta, EvKey, EvNonce, EvBlob, AfterGrant, NoNonce
  <2> QED
    BY <1>2, <2>1, <2>2, <2>3
<1>3. ASSUME NEW t \in Thread, CallStep(t) \/ DeleteNext(t)
      PROVE  Records' = Records /\ returned' = returned
  BY <1>3 DEF CallStep, EChain_UserCertification, EChain_BusinessDataStorage,
              EChain_BusinessDataUpdate, EChain_ContractAddressDelete, DeleteNext, Begin,
              nodeVars, Records
<1>4. ASSUME NEW t \in Thread, ObtainAssetCode(t)
      PROVE  Records' = Records /\ returned' = returned
  <2>1. /\ accepted \subseteq accepted'
        /\ \A tx \in accepted' \ accepted : tx.body.op \in {"pay", "create"}
    BY <1>4, TypeIsGtxOK, GtxFrame DEF ObtainAssetCode, RecordInv
  <2> QED
    BY <1>4, <2>1 DEF Records, IsEvidence, ObtainAssetCode, evVars
<1>5. CASE Close \/ Crash \/ UNCHANGED vars
  BY <1>5 DEF Close, CloseLedger, Crash, vars, nodeVars, evVars, Records
<1> QED
  BY <1>1, <1>2, <1>3, <1>4, <1>5 DEF Next, ThreadStep

(* What the abstract state shows of a call. *)
RecordsOf(c) == {tx \in Records : tx.body.call = c}
TheRecords == [c \in Call |-> RecordsOf(c)]
TheResults == [c \in Call |-> ResultOf(c)]

LEMMA RunningCall ==
    ASSUME RecordInv, NEW t \in Thread, Running(t)
    PROVE  /\ CallOf(t) \in Call
           /\ ResultOf(CallOf(t)) = "none"
           /\ pc[t] # "evInsert" => RecordsOf(CallOf(t)) = {}
           /\ pc[t] = "evInsert" => RecordsOf(CallOf(t)) # {}
<1>1. CallOf(t) \in Call /\ Progress(t)
  BY DEF RecordInv, TypeInv, TypeOK, Located, CallOf, Call
<1>2. ResultOf(CallOf(t)) = "none"
  BY <1>1 DEF Progress, ResultOf, Returned
<1> QED
  BY <1>1, <1>2 DEF Progress, RecordsOf

(* A return changes the result of its own call only. *)
LEMMA ReturnResult ==
    ASSUME RecordInv, NEW t \in Thread, Running(t), NEW code \in {1, -1, -6, -7},
           Return(t, code)
    PROVE  TheResults' = [TheResults EXCEPT ![CallOf(t)] =
                            IF code = 1 THEN "recorded"
                            ELSE IF code = -6 THEN "unknown" ELSE "failed"]
<1> DEFINE me == CallOf(t)
           v == IF code = 1 THEN "recorded" ELSE IF code = -6 THEN "unknown" ELSE "failed"
           row == [call |-> me, code |-> code,
                   hash |-> IF code = 1 THEN MyHash(t) ELSE None]
<1>1. row.call = me /\ row.code = code /\ returned' = returned \cup {row}
  BY DEF Return
<1> HIDE DEF row
<1>2. \A r \in returned : r.call # me
  BY DEF RecordInv, Progress
<1>3. \A c, codes : Returned(c, codes)' <=> Returned(c, codes) \/ (c = me /\ code \in codes)
  BY <1>1 DEF Returned
<1>4. \A codes : ~ Returned(me, codes)
  BY <1>2 DEF Returned
<1> HIDE DEF me
<1>5. \A c : c # me => ResultOf(c)' = ResultOf(c)
  BY <1>3 DEF ResultOf
<1>6. \A c : c = me => ResultOf(c)' = v
  BY <1>3, <1>4 DEF ResultOf
<1> HIDE DEF v
<1>7. TheResults' = [TheResults EXCEPT ![me] = v]
  BY <1>5, <1>6 DEF TheResults, Call
<1> QED
  BY <1>7 DEF me, v

(* The record of a call is the only one that appears. *)
LEMMA NewRecords ==
    ASSUME NEW t \in Thread, RecordsOf(CallOf(t)) = {}, CallOf(t) \in Call,
           Records' = Records \cup {NewRecord(t)}
    PROVE  /\ TheRecords' = [TheRecords EXCEPT ![CallOf(t)] = {NewRecord(t)}]
           /\ TheRecords'[CallOf(t)] = {NewRecord(t)}
<1> DEFINE new == NewRecord(t)
           me == CallOf(t)
<1>1. new.body.call = me
  BY DEF NewRecord, EvBody
<1>2. RecordsOf(me) = {} /\ Records' = Records \cup {new} /\ me \in Call
  OBVIOUS
<1> HIDE DEF new, me
<1>3. \A c : RecordsOf(c)' = {tx \in Records' : tx.body.call = c}
  BY DEF RecordsOf
<1>4. \A c : RecordsOf(c)' = IF c = me THEN {new} ELSE RecordsOf(c)
  BY <1>1, <1>2, <1>3 DEF RecordsOf
<1>5. /\ TheRecords' = [TheRecords EXCEPT ![me] = {new}]
      /\ TheRecords'[me] = {new}
  BY <1>2, <1>4 DEF TheRecords, Call
<1> QED
  BY <1>5 DEF new, me

(***************************************************************************)
(* The evidence functions of src/test/api_echain_func.cpp, with their      *)
(* nonces, retries, token purchases, tables, threads and restarts,         *)
(* implement EvidenceLog: a call records its content at most once, before  *)
(* it returns, and returns "recorded" or "failed" only when that is so.    *)
(***************************************************************************)
THEOREM EvidenceImplementsLog == Spec => Implements
<1>1. Init => Log!LInit
  <2> SUFFICES ASSUME Init PROVE Log!LInit
    OBVIOUS
  <2>1. Records = {} /\ returned = {}
    BY DEF Init, NodeInit, Records
  <2> QED
    BY <2>1 DEF Log!LInit, ResultOf, Returned
<1>2. RecordInv /\ [Next]_vars => [Log!LNext]_(Log!lvars)
  <2> SUFFICES ASSUME RecordInv, [Next]_vars PROVE [Log!LNext]_(Log!lvars)
    OBVIOUS
  <2>1. CASE Records' = Records /\ returned' = returned
    BY <2>1 DEF Log!lvars, ResultOf, Returned, Call
  <2>2. ASSUME NEW t \in Thread, pc[t] = "evSubmit", Records' = Records \cup {NewRecord(t)},
               returned' = returned \/ Return(t, -6)
        PROVE  Log!LNext
    <3>0. Running(t)
      BY <2>2 DEF Running, Idle
    <3>1. /\ CallOf(t) \in Call /\ TheResults[CallOf(t)] = "none"
          /\ TheRecords[CallOf(t)] = {} /\ RecordsOf(CallOf(t)) = {}
      BY <2>2, <3>0, RunningCall DEF TheResults, TheRecords
    <3>2. /\ TheRecords' = [TheRecords EXCEPT ![CallOf(t)] = {NewRecord(t)}]
          /\ TheRecords'[CallOf(t)] = {NewRecord(t)}
      BY <2>2, <3>1, NewRecords
    <3>3. CASE returned' = returned
      <4>1. TheResults' = TheResults
        BY <3>3 DEF TheResults, ResultOf, Returned, Call
      <4> QED
        BY <3>1, <3>2, <4>1 DEF Log!LNext, Log!LRecord, TheRecords, TheResults, RecordsOf
    <3>4. CASE Return(t, -6)
      <4>1. TheResults' = [TheResults EXCEPT ![CallOf(t)] = "unknown"]
        BY <3>0, <3>4, ReturnResult
      <4> QED
        BY <3>1, <3>2, <4>1
           DEF Log!LNext, Log!LRecordUnknown, TheRecords, TheResults, RecordsOf
    <3> QED
      BY <2>2, <3>3, <3>4
  <2>3. ASSUME NEW t \in Thread, NEW code \in {1, -1, -6, -7}, Running(t),
               Records' = Records, Return(t, code), code = 1 <=> pc[t] = "evInsert"
        PROVE  Log!LNext
    <3>1. /\ CallOf(t) \in Call /\ TheResults[CallOf(t)] = "none"
          /\ TheRecords[CallOf(t)] = {} <=> code # 1
      BY <2>3, RunningCall DEF TheResults, TheRecords
    <3>2. TheResults' = [TheResults EXCEPT ![CallOf(t)] =
                           IF code = 1 THEN "recorded"
                           ELSE IF code = -6 THEN "unknown" ELSE "failed"]
      BY <2>3, ReturnResult
    <3>3. TheRecords' = TheRecords
      BY <2>3 DEF TheRecords, RecordsOf, Call
    <3> QED
      BY <3>1, <3>2, <3>3 DEF Log!LNext, Log!LReturn, TheRecords, TheResults, RecordsOf
  <2> QED
    BY <2>1, <2>2, <2>3, Effect
<1>3. Spec => []RecordInv
  BY InitRecord, RecordInductive, PTL DEF Spec
<1> QED
  BY <1>1, <1>2, <1>3, PTL DEF Spec, Implements, Log!LSpec

-----------------------------------------------------------------------------
(***************************************************************************)
(* Versions and deletes.  An update counts up from the record it has read, *)
(* which stays closed because a ledger never reopens; the delete loop      *)
(* leaves a row only for a call that records it.                           *)
(***************************************************************************)

(* No ledger closes what has not been accepted. *)
NonceOrder ==
    /\ ClosedFirst
    /\ \A tx \in Records : tx.src \in Owner /\ tx.nonce \in Nat

(* The version a thread is about to write, once it has read the old one. *)
Follows(p, h, v) == HashOf(p) = h /\ ~ Pending(p) /\ v = p.body.version + 1
Chained(t) ==
    Running(t) /\ pc[t] # "meta" =>
        IF pre[t] = None THEN ver[t] = 1 ELSE \E p \in Records : Follows(p, pre[t], ver[t])

(* What EChain_ContractAddressDelete has done with the rows it found. *)
Covered(r) == \E tx \in Records : tx.body.type = "DELETE" /\ tx.body.pre = r.hash
Covers(t) ==
    /\ pc[t] = "idle" => del[t] = None
    /\ pc[t] = "evInsert" => \E tx \in Records : tx.body.type = type[t] /\ tx.body.pre = pre[t]
    /\ del[t] # None =>
          \A r \in del[t].rows :
              \/ r \in todo[t] \/ Covered(r) \/ pc[t] = "delFailed"
              \/ Running(t) /\ type[t] = "DELETE" /\ pre[t] = r.hash

ChainInv ==
    /\ RecordInv /\ NonceOrder
    /\ VersionChain /\ DeleteCovers
    /\ \A t \in Thread : Chained(t) /\ Covers(t)

LEMMA InitChain == Init => ChainInv
<1> SUFFICES ASSUME Init PROVE ChainInv
  OBVIOUS
<1>1. Records = {} /\ cleared = {}
  BY DEF Init, NodeInit, Records
<1>2. ClosedFirst
  BY DEF Init, NodeInit, ClosedFirst
<1>3. \A t \in Thread : Chained(t) /\ Covers(t)
  BY DEF Init, GtxInit, Chained, Covers, Running, Idle
<1> QED
  BY <1>1, <1>2, <1>3, InitRecord DEF ChainInv, NonceOrder, VersionChain, DeleteCovers

(* What a step of thread t leaves alone of the other threads. *)
OthersStay(t) ==
    \A u \in Thread \ {t} :
        /\ pc'[u] = pc[u] /\ pre'[u] = pre[u] /\ ver'[u] = ver[u] /\ type'[u] = type[u]
        /\ del'[u] = del[u] /\ todo'[u] = todo[u]

LEMMA StepOthers ==
    ASSUME TypeInv, NEW t \in Thread, CallStep(t) \/ ThreadStep(t)
    PROVE  OthersStay(t)
<1> USE DEF TypeInv, TypeOK, OthersStay, Goto
<1>1. ASSUME NEW code, Return(t, code) PROVE OthersStay(t)
  BY <1>1 DEF Return, delVars
<1>2. ASSUME NEW f, NEW ty, NEW a, NEW p, NEW l, Begin(t, f, ty, a, p, l), del' = del,
             todo' = todo \/ todo' = [todo EXCEPT ![t] = todo'[t]]
      PROVE  OthersStay(t)
  BY <1>2 DEF Begin
<1>3. ASSUME NEW code, NEW rows, EndDelete(t, code, rows), UNCHANGED frame PROVE OthersStay(t)
  BY <1>3 DEF EndDelete, frame
<1>4. ASSUME NEW l, pc' = [pc EXCEPT ![t] = l], UNCHANGED <<pre, type, delVars>>,
             ver' = ver \/ ver' = [ver EXCEPT ![t] = ver'[t]]
      PROVE  OthersStay(t)
  BY <1>4 DEF delVars
<1> HIDE DEF TypeInv, TypeOK, OthersStay
<1>5. CASE CallStep(t)
  <2>1. ASSUME NEW a \in Owner, EChain_ContractAddressDelete(t, a) PROVE OthersStay(t)
    BY <1>3, <2>1 DEF EChain_ContractAddressDelete, frame, TypeInv, TypeOK, OthersStay
  <2> QED
    BY <1>2, <1>5, <2>1
       DEF CallStep, EChain_UserCertification, EChain_BusinessDataStorage,
           EChain_BusinessDataUpdate, delVars
<1>6. CASE ReadMeta(t)
  BY <1>1, <1>4, <1>6 DEF ReadMeta, TypeInv, TypeOK
<1>7. CASE EvKey(t) \/ EvNonce(t) \/ EvBlob(t) \/ AfterGrant(t) \/ EvInsert(t)
  BY <1>1, <1>4, <1>7 DEF EvKey, EvNonce, EvBlob, AfterGrant, EvInsert, NoNonce, frame
<1>8. CASE EvSubmit(t)
  BY <1>1, <1>4, <1>8 DEF EvSubmit, NoAnswer, frame
<1>9. CASE DeleteNext(t)
  BY <1>2, <1>3, <1>9 DEF DeleteNext, TypeInv, TypeOK
<1>10. CASE ObtainAssetCode(t)
  <2>1. \E l \in GtxLabels : pc' = [pc EXCEPT ![t] = l]
    BY <1>10, TypeIsGtxOK, GtxFrame DEF ObtainAssetCode
  <2> QED
    BY <1>4, <1>10, <2>1 DEF ObtainAssetCode, evVars, frame, delVars
<1> QED
  BY <1>5, <1>6, <1>7, <1>8, <1>9, <1>10 DEF ThreadStep

(* The ledger only grows and closes. *)
LEMMA StepOrder ==
    ASSUME ChainInv, [Next]_vars
    PROVE  NonceOrder' /\ ClosedGrows /\ Records \subseteq Records'
<1>1. NodeOK /\ GtxOK /\ ClosedFirst
  BY TypeIsGtxOK DEF ChainInv, RecordInv, GtxOK, NonceOrder
<1>2. ClosedFirst' /\ ClosedGrows
  <2>1. CASE UNCHANGED nodeVars
    BY <1>1, <2>1, StillOrder
  <2>2. ASSUME NEW t \in Thread, EvSubmit(t) PROVE ClosedFirst' /\ ClosedGrows
    <3>1. acct[t] \in Account /\ nonce[t] \in Int /\ EvCost \in Nat
      BY <2>2, EvidenceAssumption
         DEF EvSubmit, ChainInv, RecordInv, TypeInv, TypeOK, Located, Running, Idle, EvCost
    <3>2. UNCHANGED nodeVars \/ Submit(acct[t], nonce[t], EvBody(t), EvCost)
      BY <2>2 DEF EvSubmit
    <3> QED
      BY <1>1, <2>1, <3>1, <3>2, SubmitOrder
  <2>3. ASSUME NEW t \in Thread, ObtainAssetCode(t) PROVE ClosedFirst' /\ ClosedGrows
    BY <1>1, <2>3, GtxOrder DEF ObtainAssetCode
  <2>4. CASE Close
    BY <1>1, <2>4, CloseOrder DEF Close
  <2>5. ASSUME NEW t \in Thread, CallStep(t) PROVE UNCHANGED nodeVars
    BY <2>5 DEF CallStep, EChain_UserCertification, EChain_BusinessDataStorage,
                EChain_BusinessDataUpdate, EChain_ContractAddressDelete, Begin
  <2>6. ASSUME NEW t \in Thread, ThreadStep(t), ~ EvSubmit(t), ~ ObtainAssetCode(t)
        PROVE  UNCHANGED nodeVars
    BY <2>6 DEF ThreadStep, ReadMeta, EvKey, EvNonce, EvBlob, AfterGrant, EvInsert, DeleteNext,
                Begin
  <2>7. CASE Crash \/ UNCHANGED vars
    BY <2>1, <2>7 DEF Crash, vars
  <2> QED
    BY <2>1, <2>2, <2>3, <2>4, <2>5, <2>6, <2>7 DEF Next
<1>3. /\ Records \subseteq Records'
      /\ \A tx \in Records' \ Records : \E t \in Thread : pc[t] = "evSubmit" /\ tx = NewRecord(t)
  BY Effect DEF ChainInv
<1>4. ASSUME NEW t \in Thread, pc[t] = "evSubmit"
      PROVE  NewRecord(t).src \in Owner /\ NewRecord(t).nonce \in Nat
  BY <1>4 DEF NewRecord, ChainInv, RecordInv, TypeInv, TypeOK, Located, Running, Idle
<1>5. \A tx \in Records' : tx.src \in Owner /\ tx.nonce \in Nat
  BY <1>3, <1>4 DEF ChainInv, NonceOrder
<1> QED
  BY <1>2, <1>3, <1>5 DEF NonceOrder

(* A record in a closed ledger stays there. *)
LEMMA StaysClosed ==
    ASSUME ChainInv, [Next]_vars, NEW p \in Records, ~ Pending(p)
    PROVE  ~ Pending(p)'
<1>1. /\ closed \in [Account -> Nat] /\ closed' \in [Account -> Nat]
      /\ p.src \in Account /\ p.nonce \in Nat
  BY TypeInductive, EvidenceAssumption DEF ChainInv, RecordInv, NonceOrder, TypeInv, TypeOK
<1>2. closed[p.src] <= closed'[p.src]
  BY <1>1, StepOrder DEF ClosedGrows
<1> QED
  BY <1>1, <1>2 DEF Pending

LEMMA StepVersion ==
    ASSUME ChainInv, [Next]_vars
    PROVE  VersionChain'
<1>1. /\ Records \subseteq Records'
      /\ \A tx \in Records' \ Records : \E t \in Thread : pc[t] = "evSubmit" /\ tx = NewRecord(t)
  BY Effect DEF ChainInv
<1>2. ASSUME NEW tx \in Records'
      PROVE  IF tx.body.pre = None
             THEN tx.body.version = 1
             ELSE \E p \in Records : Follows(p, tx.body.pre, tx.body.version)
  <2>1. CASE tx \in Records
    BY <2>1 DEF ChainInv, VersionChain, Follows
  <2>2. CASE tx \notin Records
    <3>1. PICK t \in Thread : pc[t] = "evSubmit" /\ tx = NewRecord(t)
      BY <1>1, <2>2
    <3>2. tx.body.pre = pre[t] /\ tx.body.version = ver[t]
      BY <3>1 DEF NewRecord, EvBody
    <3>3. Chained(t) /\ Running(t)
      BY <3>1 DEF ChainInv, Running, Idle
    <3> QED
      BY <3>1, <3>2, <3>3 DEF Chained
  <2> QED
    BY <2>1, <2>2
<1>3. \A p \in Records : ~ Pending(p) => ~ Pending(p)'
  BY StaysClosed
<1>4. \A p : HashOf(p)' = HashOf(p)
  BY DEF HashOf
<1> QED
  BY <1>1, <1>2, <1>3, <1>4 DEF VersionChain, Follows

(* A thread that keeps its place and its call keeps its predecessor. *)
LEMMA ChainedStays ==
    ASSUME ChainInv, [Next]_vars, NEW u \in Thread, pre'[u] = pre[u], ver'[u] = ver[u],
           Running(u)' /\ pc'[u] # "meta" => Running(u) /\ pc[u] # "meta"
    PROVE  Chained(u)'
<1>1. /\ Records \subseteq Records'
      /\ \A p \in Records : ~ Pending(p) => ~ Pending(p)'
      /\ \A p : HashOf(p)' = HashOf(p)
  BY StepOrder, StaysClosed DEF HashOf
<1>2. Chained(u)
  BY DEF ChainInv
<1> QED
  BY <1>1, <1>2 DEF Chained, Follows

LEMMA StepChained ==
    ASSUME ChainInv, [Next]_vars, NEW t \in Thread, CallStep(t) \/ ThreadStep(t)
    PROVE  Chained(t)'
<1> USE DEF Goto
<1>0. TypeInv /\ pc \in [Thread -> GtxLabels \cup EvLabels]
  BY DEF ChainInv, RecordInv, TypeInv, TypeOK
<1>1. ASSUME NEW code, Return(t, code) PROVE Chained(t)'
  BY <1>0, <1>1 DEF Return, AfterUpdate, Chained, Running, Idle
<1>2. ASSUME NEW f, NEW ty, NEW a, NEW p, NEW l, Begin(t, f, ty, a, p, l),
             l = "meta" \/ p = None
      PROVE  Chained(t)'
  BY <1>0, <1>2 DEF Begin, Chained, TypeInv, TypeOK
<1>3. ASSUME NEW l, Goto(t, l), UNCHANGED <<pre, ver>>,
             (pc[t] # "meta" /\ Running(t)) \/ l \in Idle
      PROVE  Chained(t)'
  BY <1>0, <1>3, ChainedStays DEF Running
<1>4. CASE CallStep(t)
  <2>1. ASSUME NEW a \in Owner, EChain_ContractAddressDelete(t, a) PROVE Chained(t)'
    BY <1>3, <2>1 DEF EChain_ContractAddressDelete, EndDelete, frame, Idle
  <2> QED
    BY <1>2, <1>4, <2>1
       DEF CallStep, EChain_UserCertification, EChain_BusinessDataStorage,
           EChain_BusinessDataUpdate
<1>5. CASE ReadMeta(t)
  <2>1. ASSUME NEW tx \in Records, HashOf(tx) = pre[t], ~ Pending(tx),
               ver' = [ver EXCEPT ![t] = NewVersion(tx.body.version)], Goto(t, "evKey"),
               UNCHANGED pre, pc[t] = "meta"
        PROVE  Chained(t)'
    <3>1. pre[t] # None
      BY <1>0, <2>1, NoneAssumption DEF TypeInv, Located
    <3>2. tx \in Records' /\ ~ Pending(tx)' /\ HashOf(tx)' = HashOf(tx)
      BY <2>1, StepOrder, StaysClosed DEF HashOf
    <3>3. ver'[t] = tx.body.version + 1
      BY <1>0, <2>1 DEF NewVersion, TypeInv, TypeOK
    <3> QED
      BY <2>1, <3>1, <3>2, <3>3 DEF Chained, Follows
  <2> QED
    BY <1>1, <1>5, <2>1 DEF ReadMeta
<1>6. CASE EvKey(t) \/ EvNonce(t) \/ EvBlob(t) \/ AfterGrant(t) \/ EvInsert(t)
  <2>1. pc[t] # "meta" /\ Running(t)
    BY <1>6 DEF EvKey, EvNonce, EvBlob, AfterGrant, EvInsert, Running, Idle
  <2> QED
    BY <1>1, <1>3, <1>6, <2>1 DEF EvKey, EvNonce, EvBlob, AfterGrant, EvInsert, NoNonce, frame
<1>7. CASE EvSubmit(t)
  BY <1>1, <1>3, <1>7 DEF EvSubmit, NoAnswer, frame, Running, Idle
<1>8. CASE DeleteNext(t)
  BY <1>2, <1>3, <1>8 DEF DeleteNext, EndDelete, frame, Idle
<1>9. CASE ObtainAssetCode(t)
  <2>1. pc[t] \in GtxLabels /\ \E l \in GtxLabels : pc' = [pc EXCEPT ![t] = l]
    BY <1>0, <1>9, TypeIsGtxOK, GtxFrame DEF ObtainAssetCode
  <2> QED
    BY <1>3, <1>9, <2>1 DEF ObtainAssetCode, evVars, frame, GtxLabels, Running, Idle
<1> QED
  BY <1>4, <1>5, <1>6, <1>7, <1>8, <1>9 DEF ThreadStep

(* A thread that keeps its place and its call keeps what it has covered. *)
LEMMA CoversStays ==
    ASSUME ChainInv, [Next]_vars, NEW u \in Thread, type'[u] = type[u], pre'[u] = pre[u],
           del'[u] = del[u], todo'[u] = todo[u],
           pc'[u] = pc[u] \/ (Running(u) /\ Running(u)' /\ pc'[u] # "evInsert")
    PROVE  Covers(u)'
<1>1. Covers(u) /\ Records \subseteq Records'
  BY StepOrder DEF ChainInv
<1>2. \A r : Covered(r) => Covered(r)'
  BY <1>1 DEF Covered
<1> QED
  BY <1>1, <1>2 DEF Covers, Running, Idle

(* The return of a call: a failed one ends the delete, a successful one has  *)
(* recorded its row.                                                         *)
LEMMA ReturnCovers ==
    ASSUME ChainInv, [Next]_vars, NEW t \in Thread, NEW code \in {1, -1, -6, -7},
           Running(t), Return(t, code), code = 1 => pc[t] = "evInsert"
    PROVE  Covers(t)'
<1>1. Covers(t) /\ Records \subseteq Records' /\ TypeInv
  BY StepOrder DEF ChainInv, RecordInv
<1>2. \A r : Covered(r) => Covered(r)'
  BY <1>1 DEF Covered
<1>3. del' = del /\ todo' = todo
  BY DEF Return, delVars
<1>4. CASE del[t] = None
  BY <1>1, <1>3, <1>4 DEF Return, Goto, Covers, TypeInv, TypeOK
<1>5. CASE del[t] # None /\ code # 1
  <2>1. pc'[t] = "delFailed"
    BY <1>1, <1>5 DEF Return, Goto, AfterUpdate, TypeInv, TypeOK
  <2> QED
    BY <2>1 DEF Covers
<1>6. CASE del[t] # None /\ code = 1
  <2>1. pc'[t] = "delNext"
    BY <1>1, <1>6 DEF Return, Goto, AfterUpdate, TypeInv, TypeOK
  <2>2. ASSUME type[t] = "DELETE", NEW r, pre[t] = r.hash PROVE Covered(r)
    BY <1>1, <1>6, <2>2 DEF Covers, Covered
  <2>3. pc[t] # "delFailed"
    BY DEF Running, Idle
  <2> QED
    BY <1>1, <1>2, <1>3, <1>6, <2>1, <2>2, <2>3 DEF Covers
<1> QED
  BY <1>4, <1>5, <1>6

LEMMA StepCovers ==
    ASSUME ChainInv, [Next]_vars, NEW t \in Thread, CallStep(t) \/ ThreadStep(t)
    PROVE  Covers(t)'
<1>0. /\ TypeInv /\ Covers(t) /\ Records \subseteq Records'
      /\ pc \in [Thread -> GtxLabels \cup EvLabels]
  BY StepOrder DEF ChainInv, RecordInv, TypeInv, TypeOK
<1>1. ASSUME NEW code \in {-1, -6, -7}, Running(t), Return(t, code) PROVE Covers(t)'
  BY <1>1, ReturnCovers
<1>2. ASSUME NEW code, NEW rows, EndDelete(t, code, rows) PROVE Covers(t)'
  BY <1>0, <1>2 DEF EndDelete, Goto, Covers, TypeInv, TypeOK
<1>3. ASSUME NEW l, Goto(t, l), UNCHANGED <<type, pre, delVars>>, Running(t),
             l \notin Idle \cup {"evInsert"}
      PROVE  Covers(t)'
  <2>1. pc'[t] = l /\ Running(t)'
    BY <1>0, <1>3 DEF Goto, Running
  <2> QED
    BY <1>3, <2>1, CoversStays DEF delVars
<1>4. CASE CallStep(t)
  <2>1. ASSUME NEW f, NEW ty, NEW a, NEW p, NEW l \in {"meta", "evKey"},
               Begin(t, f, ty, a, p, l), pc[t] = "idle", UNCHANGED delVars
        PROVE  Covers(t)'
    BY <1>0, <2>1 DEF Begin, Goto, Covers, delVars
  <2>2. ASSUME NEW a \in Owner, EChain_ContractAddressDelete(t, a) PROVE Covers(t)'
    <3>1. CASE /\ del' = [del EXCEPT ![t] = [acct |-> a, rows |-> RowsOf(a)]]
               /\ todo' = [todo EXCEPT ![t] = RowsOf(a)] /\ Goto(t, "delNext")
      BY <1>0, <3>1 DEF Goto, Covers, TypeInv, TypeOK
    <3> QED
      BY <1>2, <2>2, <3>1 DEF EChain_ContractAddressDelete
  <2> QED
    BY <1>4, <2>1, <2>2
       DEF CallStep, EChain_UserCertification, EChain_BusinessDataStorage,
           EChain_BusinessDataUpdate
<1>5. CASE ReadMeta(t) \/ EvKey(t) \/ EvNonce(t) \/ EvBlob(t) \/ AfterGrant(t)
  <2>1. Running(t)
    BY <1>5 DEF ReadMeta, EvKey, EvNonce, EvBlob, AfterGrant, Running, Idle
  <2> QED
    BY <1>1, <1>3, <1>5, <2>1 DEF ReadMeta, EvKey, EvNonce, EvBlob, AfterGrant, NoNonce, frame, Idle
<1>6. CASE EvInsert(t)
  <2>1. Running(t) /\ pc[t] = "evInsert" /\ Return(t, 1)
    BY <1>6 DEF EvInsert, Running, Idle
  <2> QED
    BY <2>1, ReturnCovers
<1>7. CASE EvSubmit(t)
  <2>1. Running(t) /\ pc[t] = "evSubmit"
    BY <1>7 DEF EvSubmit, Running, Idle
  <2>2. CASE /\ Records' = Records \cup {NewRecord(t)} /\ Goto(t, "evInsert")
             /\ UNCHANGED <<frame, returned, calls>>
    <3>1. NewRecord(t).body.type = type[t] /\ NewRecord(t).body.pre = pre[t]
      BY DEF NewRecord, EvBody
    <3>2. \E tx \in Records' : tx.body.type = type'[t] /\ tx.body.pre = pre'[t]
      BY <2>2, <3>1 DEF frame
    <3>3. pc'[t] = "evInsert" /\ Running(t)' /\ UNCHANGED <<type, pre>>
      BY <1>0, <2>2 DEF Goto, Running, Idle, frame
    <3>4. UNCHANGED delVars
      BY <1>7 DEF EvSubmit, NoAnswer, Return
    <3>5. \A r : Covered(r) => Covered(r)'
      BY <1>0 DEF Covered
    <3> QED
      BY <1>0, <2>1, <3>2, <3>3, <3>4, <3>5 DEF Covers, delVars
  <2>3. ASSUME NEW l \in {"evBlob", "evNonce", "key"}, Goto(t, l), UNCHANGED frame
        PROVE  Covers(t)'
    <3>1. UNCHANGED delVars
      BY <1>7 DEF EvSubmit, NoAnswer, Return
    <3> QED
      BY <1>3, <2>1, <2>3, <3>1 DEF frame, Idle
  <2> QED
    BY <1>1, <1>7, <2>1, <2>2, <2>3, SubmitEffect
<1>8. CASE DeleteNext(t)
  <2>1. ASSUME pc[t] = "delNext", NEW r \in todo[t],
               todo' = [todo EXCEPT ![t] = @ \ {r}], del' = del,
               Begin(t, "EChain_BusinessDataUpdate", "DELETE", del[t].acct, r.hash, "meta")
        PROVE  Covers(t)'
    <3>1. /\ pc'[t] = "meta" /\ type'[t] = "DELETE" /\ pre'[t] = r.hash /\ Running(t)'
          /\ todo'[t] = todo[t] \ {r}
      BY <1>0, <2>1 DEF Begin, Goto, TypeInv, TypeOK, Running, Idle
    <3>2. \A x : Covered(x) => Covered(x)'
      BY <1>0 DEF Covered
    <3>3. ~ Running(t)
      BY <2>1 DEF Running, Idle
    <3> QED
      BY <1>0, <2>1, <3>1, <3>2, <3>3 DEF Covers
  <2> QED
    BY <1>2, <1>8, <2>1 DEF DeleteNext
<1>9. CASE ObtainAssetCode(t)
  <2>1. pc[t] \in GtxLabels /\ \E l \in GtxLabels : pc' = [pc EXCEPT ![t] = l]
    BY <1>0, <1>9, TypeIsGtxOK, GtxFrame DEF ObtainAssetCode
  <2>2. Running(t) /\ \A l \in GtxLabels : l \notin Idle \cup {"evInsert"}
    BY <2>1 DEF Running, Idle, GtxLabels
  <2> QED
    BY <1>3, <1>9, <2>1, <2>2 DEF ObtainAssetCode, evVars, frame, Goto
<1> QED
  BY <1>4, <1>5, <1>6, <1>7, <1>8, <1>9 DEF ThreadStep

(* The deletes that have ended. *)
LEMMA StepCleared ==
    ASSUME ChainInv, [Next]_vars
    PROVE  DeleteCovers'
<1>1. Records \subseteq Records' /\ \A r : Covered(r) => Covered(r)'
  BY StepOrder DEF Covered
<1>2. \A c \in cleared : c.code = 1 => \A r \in c.rows : Covered(r)
  BY DEF ChainInv, DeleteCovers, Covered
<1>3. ASSUME NEW c \in cleared', c \notin cleared, c.code = 1, NEW r \in c.rows
      PROVE  Covered(r)
  <2>1. PICK t \in Thread : CallStep(t) \/ DeleteNext(t)
    BY <1>3
       DEF Next, ThreadStep, ReadMeta, EvKey, EvNonce, EvBlob, EvSubmit, AfterGrant, EvInsert,
           ObtainAssetCode, NoNonce, NoAnswer, Return, Close, Crash, vars, evVars, delVars
  <2>2. ~ CallStep(t)
    BY <1>3
       DEF CallStep, EChain_UserCertification, EChain_BusinessDataStorage,
           EChain_BusinessDataUpdate, EChain_ContractAddressDelete, EndDelete, delVars
  <2>3. /\ pc[t] = "delNext" /\ todo[t] = {} /\ c.rows = del[t].rows
    BY <1>3, <2>1, <2>2 DEF DeleteNext, EndDelete
  <2>4. Located(t) /\ Covers(t) /\ business_data \subseteq Row /\ ~ Running(t)
    BY <2>3 DEF ChainInv, RecordInv, TypeInv, TypeOK, Running, Idle
  <2>5. del[t] # None
    BY <2>3, <2>4, NoneAssumption DEF Located, DelRecord
  <2> QED
    BY <1>3, <2>3, <2>4, <2>5 DEF Covers
<1> QED
  BY <1>1, <1>2, <1>3 DEF DeleteCovers, Covered

LEMMA ChainInductive == ChainInv /\ [Next]_vars => ChainInv'
<1> SUFFICES ASSUME ChainInv, [Next]_vars PROVE ChainInv'
  OBVIOUS
<1>1. RecordInv' /\ NonceOrder' /\ VersionChain' /\ DeleteCovers'
  BY RecordInductive, StepOrder, StepVersion, StepCleared DEF ChainInv
<1>2. ASSUME NEW t \in Thread, CallStep(t) \/ ThreadStep(t), NEW u \in Thread
      PROVE  Chained(u)' /\ Covers(u)'
  <2>1. CASE u = t
    BY <1>2, <2>1, StepChained, StepCovers
  <2>2. CASE u # t
    <3>1. OthersStay(t)
      BY <1>2, StepOthers DEF ChainInv, RecordInv
    <3>2. /\ pc'[u] = pc[u] /\ pre'[u] = pre[u] /\ ver'[u] = ver[u] /\ type'[u] = type[u]
          /\ del'[u] = del[u] /\ todo'[u] = todo[u]
      BY <2>2, <3>1 DEF OthersStay
    <3> QED
      BY <3>2, ChainedStays, CoversStays DEF Running
  <2> QED
    BY <2>1, <2>2
<1>3. ASSUME Close \/ UNCHANGED vars, NEW u \in Thread
      PROVE  Chained(u)' /\ Covers(u)'
  <2>1. UNCHANGED <<pc, pre, ver, type, del, todo>>
    BY <1>3 DEF Close, vars, thread, evVars, frame, delVars
  <2> QED
    BY <2>1, ChainedStays, CoversStays DEF Running
<1>4. ASSUME Crash, NEW u \in Thread
      PROVE  Chained(u)' /\ Covers(u)'
  BY <1>4 DEF Crash, GtxReset, Chained, Covers, Running, Idle
<1>5. \A u \in Thread : Chained(u)' /\ Covers(u)'
  BY <1>2, <1>3, <1>4 DEF Next
<1> QED
  BY <1>1, <1>5 DEF ChainInv

LEMMA ChainAlways == Spec => []ChainInv
BY InitChain, ChainInductive, PTL DEF Spec

(***************************************************************************)
(* A call of EChain_UserCertification, EChain_BusinessDataStorage or       *)
(* EChain_BusinessDataUpdate puts its content on the ledger at most once.  *)
(***************************************************************************)
THEOREM RecordedAtMostOnce == Spec => []AtMostOnce
BY EvidenceSafe, PTL

(***************************************************************************)
(* Every row of business_data and user_certification names a record of its *)
(* account and its type that the ledger accepted.                          *)
(***************************************************************************)
THEOREM RowsNameRecords == Spec => []RowsRecorded
BY EvidenceSafe, PTL

(***************************************************************************)
(* Every record that EChain_BusinessDataUpdate makes follows a record in a *)
(* closed ledger with the version one lower; every other starts at 1.      *)
(***************************************************************************)
THEOREM VersionsFollow == Spec => []VersionChain
<1>1. ChainInv => VersionChain
  BY DEF ChainInv
<1> QED
  BY <1>1, ChainAlways, PTL

(***************************************************************************)
(* When EChain_ContractAddressDelete returns 1, every row it found has a   *)
(* DELETE record, whatever failed or crashed before.                       *)
(***************************************************************************)
THEOREM DeletesCover == Spec => []DeleteCovers
<1>1. ChainInv => DeleteCovers
  BY DEF ChainInv
<1> QED
  BY <1>1, ChainAlways, PTL

=============================================================================

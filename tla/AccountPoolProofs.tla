------------------------- MODULE AccountPoolProofs -------------------------
(***************************************************************************)
(* Proofs about AccountPool, for any number of threads, users, contracts   *)
(* and addresses, any Target and any faults of network and database.       *)
(***************************************************************************)
EXTENDS AccountPool, GenesisTxProofs

(***************************************************************************)
(* Types.  TypeOK alone is not inductive: that a row gets an address and a *)
(* key depends on where the inserting thread comes from.                   *)
(***************************************************************************)

RegLabels == {"regLock", "regSelect", "regSelectPre", "regDelete", "regInsert"}
InsLabels == {"insLock", "insSelect", "insInsert"}

(* Where a thread is and what its locals hold there. *)
Located(t) ==
    /\ pc[t] \in GtxLabels \cup InsLabels => dest[t] \in Address
    /\ pc[t] \in {"regDelete", "regInsert"} => dest[t] \in Address
    /\ pc[t] \in RegLabels => key[t] \in Key /\ op[t] \in RegFunctions
    /\ pc[t] \in {"count", "prepare"} => op[t] = "EChain_AccountPrepare"

FiniteTables == IsFiniteSet(preaccount_info) /\ IsFiniteSet(accepted)

TypeInv == TypeOK /\ FiniteTables /\ \A t \in Thread : Located(t)

(* Every set of prepared addresses makes a finite stock. *)
LEMMA PreparedFinite == IsFiniteSet({[id |-> 0, addr |-> a] : a \in Prepared})
<1> DEFINE S == {[id |-> 0, addr |-> a] : a \in Prepared}
           f == [r \in S |-> r.addr]
<1>1. f \in [S -> Account]
  BY PoolAssumption
<1>2. \A r, s \in S : f[r] = f[s] => r = s
  OBVIOUS
<1>3. f \in Injection(S, Account)
  BY <1>1, <1>2 DEF Injection, IsInjective
<1> QED
  BY <1>3, FS_Injection, PoolAssumption

LEMMA TypeIsGtxOK == TypeInv => GtxOK
BY DEF TypeInv, TypeOK, FiniteTables, GtxOK, NodeOK

LEMMA InitType == Init => TypeInv
<1> SUFFICES ASSUME Init PROVE TypeInv
  OBVIOUS
<1>1. FiniteTables
  BY PreparedFinite, FS_EmptySet DEF Init, NodeInit, FiniteTables
<1>2. bal \in [Account -> Nat]
  BY FS_CardinalityType, PoolAssumption DEF Init, NodeInit
<1>3. TypeOK
  BY <1>2, PoolAssumption, OutcomeAssumption
     DEF Init, NodeInit, GtxInit, TypeOK, StockRow, OwnerRow, GtxLabels,
         PoolLabels, GtxFunctions, PoolFunctions, RegFunctions
<1>4. \A t \in Thread : Located(t)
  BY DEF Init, GtxInit, Located, GtxLabels, InsLabels, RegLabels
<1> QED
  BY <1>1, <1>3, <1>4 DEF TypeInv

(* The genesis transaction. *)
LEMMA GtxType ==
    ASSUME TypeInv, NEW t \in Thread, NEW f, GtxStep(t, f), UNCHANGED poolVars
    PROVE  TypeInv'
<1>1. GtxOK
  BY TypeIsGtxOK
<1>2. /\ GtxOK' /\ pc[t] \in GtxLabels
      /\ \E l \in GtxLabels : pc' = [pc EXCEPT ![t] = l]
      /\ UNCHANGED <<fn, dest, g_dbmutex>>
  BY <1>1, GtxFrame
<1>3. TypeOK' /\ FiniteTables'
  BY <1>2 DEF TypeInv, TypeOK, FiniteTables, GtxOK, NodeOK, poolVars
<1>4. \A u \in Thread : Located(u)'
  BY <1>2 DEF TypeInv, TypeOK, Located, poolVars, GtxLabels, RegLabels, InsLabels
<1> QED
  BY <1>3, <1>4 DEF TypeInv

(* Calls. *)
LEMMA CallType ==
    ASSUME TypeInv, NEW t \in Thread, CallStep(t)
    PROVE  TypeInv'
<1> USE DEF TypeInv, TypeOK, FiniteTables, Located, GtxLabels, InsLabels,
            RegLabels, RegFunctions, PoolLabels, PoolFunctions
<1>1. ASSUME NEW f \in PoolFunctions, NEW k \in Key \cup {None}, NEW l \in PoolLabels,
             Call(t, f, k, l),
             \/ f \in RegFunctions /\ k \in Key /\ l = "regLock"
             \/ f = "EChain_AccountPrepare" /\ l = "count"
             \/ l = "again"
      PROVE  TypeInv'
  BY <1>1 DEF Call, Goto, nodeVars, tables
<1>2. ASSUME NEW u \in User, EChain_UserRegister(t, u) PROVE TypeInv'
  BY <1>1, <1>2 DEF EChain_UserRegister, Key
<1>3. ASSUME NEW c \in Contract, EChain_ContractAddressCreate(t, c) PROVE TypeInv'
  BY <1>1, <1>3 DEF EChain_ContractAddressCreate, Key
<1>4. CASE EChain_AccountPrepare(t)
  BY <1>1, <1>4 DEF EChain_AccountPrepare
<1>5. CASE EChain_CreateAccount(t)
  BY <1>1, <1>5 DEF EChain_CreateAccount
<1> QED
  BY <1>2, <1>3, <1>4, <1>5 DEF CallStep

(* processUserRegisterInfo and processContractAccountInfo. *)
LEMMA RegType ==
    ASSUME TypeInv, NEW t \in Thread, RegStep(t)
    PROVE  TypeInv'
<1> USE DEF TypeInv, TypeOK, FiniteTables, Located, GtxLabels, InsLabels,
            RegLabels, RegFunctions, PoolLabels, StockRow, OwnerRow,
            Goto, Return, Unlock, nodeVars, gtxVars, tables, poolVars
<1>1. CASE RegLock(t)
  BY <1>1 DEF RegLock
<1>2. CASE RegSelect(t)
  BY <1>2 DEF RegSelect
<1>3. CASE RegSelectPre(t)
  BY <1>3 DEF RegSelectPre
<1>4. CASE RegDelete(t)
  <2>1. preaccount_info' \in SUBSET preaccount_info
    BY <1>4 DEF RegDelete
  <2>2. IsFiniteSet(preaccount_info')
    BY <2>1, FS_Subset
  <2> QED
    BY <1>4, <2>1, <2>2 DEF RegDelete
<1>5. CASE RegInsert(t)
  BY <1>5 DEF RegInsert, InsertResult
<1> QED
  BY <1>1, <1>2, <1>3, <1>4, <1>5 DEF RegStep

(* insertAccountInfo2DB and insertPreAccountInfo2DB with what their caller  *)
(* does next.                                                               *)
LEMMA InsType ==
    ASSUME TypeInv, NEW t \in Thread, InsStep(t),
           op[t] \in {"EChain_CreateAccount", "EChain_AccountPrepare"}
    PROVE  TypeInv'
<1> USE DEF TypeInv, TypeOK, FiniteTables, Located, GtxLabels, InsLabels,
            RegLabels, RegFunctions, PoolLabels, StockRow, OwnerRow,
            Goto, Return, Unlock, nodeVars, gtxVars, tables, poolVars
<1>1. CASE InsLock(t)
  BY <1>1 DEF InsLock
<1>2. CASE InsSelect(t)
  BY <1>2 DEF InsSelect, AfterInsert
<1>3. CASE InsInsert(t)
  <2>1. PICK o \in DbOutcomes :
          /\ IF o = "fail"
             THEN UNCHANGED tables
             ELSE LET rows == StockRows(t) \cup {[id |-> nextId, addr |-> dest[t]]}
                  IN  /\ IF op[t] = "EChain_CreateAccount"
                         THEN account_info' = rows /\ UNCHANGED preaccount_info
                         ELSE preaccount_info' = rows /\ UNCHANGED account_info
                      /\ nextId' = nextId + 1
                      /\ UNCHANGED assigned
          /\ AfterInsert(t, InsertResult(o)) /\ Unlock
    BY <1>3 DEF InsInsert
  <2>2. \/ preaccount_info' = preaccount_info
        \/ preaccount_info' = preaccount_info \cup {[id |-> nextId, addr |-> dest[t]]}
    BY <2>1 DEF StockRows
  <2>3. IsFiniteSet(preaccount_info')
    <3>1. IsFiniteSet(preaccount_info)
      OBVIOUS
    <3> HIDE DEF TypeInv
    <3> QED
      BY <2>2, <3>1, FS_AddElement
  <2>4. [id |-> nextId, addr |-> dest[t]] \in StockRow
    BY <1>3 DEF InsInsert
  <2>5. /\ preaccount_info' \subseteq StockRow /\ account_info' \subseteq StockRow
        /\ assigned' \subseteq OwnerRow /\ nextId' \in Nat
    <3> HIDE DEF StockRow, OwnerRow
    <3> QED
      BY <2>1, <2>4 DEF StockRows
  <2>6. /\ pc' \in [Thread -> GtxLabels \cup PoolLabels]
        /\ cnt' \in [Thread -> Nat] /\ ret' \in [Thread -> {-1, 0, 1}]
        /\ g_dbmutex' \in Thread \cup {None}
        /\ \E l \in {"again", "idle", "prepare"} :
             pc' = [pc EXCEPT ![t] = l] /\ (l = "prepare" => op[t] = "EChain_AccountPrepare")
    BY <1>3, <2>1 DEF AfterInsert
  <2> QED
    BY <1>3, <2>3, <2>5, <2>6 DEF InsInsert
<1> QED
  BY <1>1, <1>2, <1>3 DEF InsStep

(* The rest of EChain_AccountPrepare and of the account functions. *)
LEMMA PrepareType ==
    ASSUME TypeInv, NEW t \in Thread,
           PrepareCount(t) \/ PrepareLoop(t) \/ NewKeyPair(t) \/ AfterTx(t)
    PROVE  TypeInv'
<1> USE DEF TypeInv, TypeOK, FiniteTables, Located, GtxLabels, InsLabels,
            RegLabels, RegFunctions, PoolLabels, GtxFunctions,
            Goto, Return, nodeVars, gtxVars, tables
<1>1. CASE PrepareCount(t)
  <2>1. Cardinality(preaccount_info) \in Nat
    BY FS_CardinalityType
  <2> QED
    BY <1>1, <2>1 DEF PrepareCount
<1>2. CASE PrepareLoop(t)
  BY <1>2 DEF PrepareLoop
<1>3. CASE NewKeyPair(t)
  BY <1>3 DEF NewKeyPair, NoKeyPair, KeyPairs, CreateFn
<1>4. CASE AfterTx(t)
  BY <1>4 DEF AfterTx
<1> QED
  BY <1>1, <1>2, <1>3, <1>4

LEMMA TypeInductive == TypeInv /\ [Next]_vars => TypeInv'
<1> SUFFICES ASSUME TypeInv, [Next]_vars PROVE TypeInv'
  OBVIOUS
<1>1. ASSUME NEW t \in Thread, CallStep(t) PROVE TypeInv'
  BY <1>1, CallType
<1>2. ASSUME NEW t \in Thread, ThreadStep(t) PROVE TypeInv'
  <2>1. CASE ProcessUserRegisterInfo(t) \/ ProcessContractAccountInfo(t)
    BY <2>1, RegType DEF ProcessUserRegisterInfo, ProcessContractAccountInfo
  <2>2. CASE InsertAccountInfo2DB(t) \/ InsertPreAccountInfo2DB(t)
    BY <2>2, InsType DEF InsertAccountInfo2DB, InsertPreAccountInfo2DB
  <2>3. CASE CreateAccountTx(t) \/ CreateAccountXTx(t) \/ ObtainAssetCode(t)
    BY <2>3, GtxType DEF CreateAccountTx, CreateAccountXTx, ObtainAssetCode, GtxFunctions
  <2>4. CASE PrepareCount(t) \/ PrepareLoop(t) \/ NewKeyPair(t) \/ AfterTx(t)
    BY <2>4, PrepareType
  <2> QED
    BY <1>2, <2>1, <2>2, <2>3, <2>4 DEF ThreadStep
<1>3. CASE Close
  <2>1. NodeOK'
    BY <1>3, TypeIsGtxOK, CloseType DEF Close, GtxOK
  <2> QED
    BY <1>3, <2>1 DEF Close, NodeOK, thread, poolVars, TypeInv, TypeOK, FiniteTables, Located
<1>4. CASE Crash
  BY <1>4, NodeAssumption
     DEF Crash, GtxReset, nodeVars, tables, TypeInv, TypeOK, FiniteTables, Located,
         GtxLabels, PoolLabels, InsLabels, RegLabels
<1>5. CASE UNCHANGED vars
  BY <1>5 DEF vars, nodeVars, thread, poolVars, TypeInv, TypeOK, FiniteTables, Located
<1> QED
  BY <1>1, <1>2, <1>3, <1>4, <1>5 DEF Next

(***************************************************************************)
(* Every variable keeps its type, and a thread that inserts a row has an   *)
(* address and a key to insert, whatever fails and wherever the process    *)
(* dies.                                                                   *)
(***************************************************************************)
THEOREM TypeCorrect == Spec => []TypeOK
<1>1. Spec => []TypeInv
  BY InitType, TypeInductive, PTL DEF Spec
<1>2. TypeInv => TypeOK
  BY DEF TypeInv
<1> QED
  BY <1>1, <1>2, PTL

-----------------------------------------------------------------------------
(***************************************************************************)
(* What g_dbmutex protects.  A thread inside one of the four database      *)
(* functions holds the mutex, so what a select has shown stays true until  *)
(* the insert or delete that relies on it.                                 *)
(***************************************************************************)

(* Mutual exclusion. *)
Owns(t) == pc[t] \in Critical => g_dbmutex = t

(* The select of the owner's row found none. *)
NoRowYet(t) ==
    pc[t] \in {"regSelectPre", "regDelete", "regInsert"} =>
        \A r \in assigned : r.key # key[t]

(* The select before the insert of an account found none. *)
NotStocked(t) ==
    pc[t] = "insInsert" => ~ InRows(StockRows(t), dest[t])

MutexInv ==
    /\ TypeInv
    /\ \A t \in Thread : Owns(t) /\ NoRowYet(t) /\ NotStocked(t)
    /\ OneAddressPerKey /\ StockUnique /\ AnswerIsRow

LEMMA InitMutex == Init => MutexInv
<1> SUFFICES ASSUME Init PROVE MutexInv
  OBVIOUS
<1>1. \A t \in Thread : pc[t] = "idle" /\ op[t] = None
  BY DEF Init, GtxInit
<1>2. \A t \in Thread : Owns(t) /\ NoRowYet(t) /\ NotStocked(t)
  BY <1>1 DEF Owns, NoRowYet, NotStocked, Critical
<1>3. OneAddressPerKey /\ StockUnique
  BY DEF Init, OneAddressPerKey, StockUnique
<1>4. AnswerIsRow
  <2>1. None \notin RegFunctions
    BY PoolAssumption DEF PoolFunctions
  <2> QED
    BY <1>1, <2>1 DEF AnswerIsRow, RegFunctions
<1> QED
  BY <1>2, <1>3, <1>4, InitType DEF MutexInv

(* A step of t that keeps out of the tables, the mutex and the critical     *)
(* labels, and does not return from a registration.                         *)
LEMMA OutsideMutex ==
    ASSUME MutexInv, TypeInv', NEW t \in Thread,
           UNCHANGED <<preaccount_info, account_info, assigned, g_dbmutex>>,
           \E l : pc' = [pc EXCEPT ![t] = l] /\ l \notin Critical,
           \A u \in Thread \ {t} : dest'[u] = dest[u] /\ key'[u] = key[u]
                                   /\ op'[u] = op[u] /\ ret'[u] = ret[u],
           \/ pc'[t] # "idle" \/ ret'[t] = -1 \/ op'[t] \notin RegFunctions
    PROVE  MutexInv'
<1>1. pc'[t] \notin Critical /\ \A u \in Thread \ {t} : pc'[u] = pc[u]
  BY DEF MutexInv, TypeInv, TypeOK
<1>2. \A u \in Thread : (Owns(u) /\ NoRowYet(u) /\ NotStocked(u))'
  BY <1>1 DEF MutexInv, Owns, NoRowYet, NotStocked, Critical, StockRows, InRows
<1>3. AnswerIsRow'
  BY <1>1 DEF MutexInv, AnswerIsRow, RegFunctions
<1> QED
  BY <1>2, <1>3 DEF MutexInv, OneAddressPerKey, StockUnique

(* A step of t that takes the mutex. *)
LEMMA TakesMutex ==
    ASSUME MutexInv, TypeInv', NEW t \in Thread, DbFree, g_dbmutex' = t,
           \/ pc' = [pc EXCEPT ![t] = "regSelect"]
           \/ pc' = [pc EXCEPT ![t] = "insSelect"],
           UNCHANGED <<gtxVars, poolVars>>
    PROVE  MutexInv'
<1>1. /\ pc'[t] \in {"regSelect", "insSelect"}
      /\ \A u \in Thread \ {t} : pc'[u] = pc[u] /\ pc[u] \notin Critical
  BY OutcomeAssumption DEF MutexInv, TypeInv, TypeOK, Owns, DbFree
<1>2. \A u \in Thread : (Owns(u) /\ NoRowYet(u) /\ NotStocked(u))'
  BY <1>1 DEF Owns, NoRowYet, NotStocked, Critical
<1>3. (OneAddressPerKey /\ StockUnique /\ AnswerIsRow)'
  BY <1>1 DEF MutexInv, OneAddressPerKey, StockUnique, AnswerIsRow, gtxVars, poolVars
<1> QED
  BY <1>2, <1>3 DEF MutexInv

(* The owner of the mutex is alone in the critical labels, so nobody else's *)
(* assertion speaks of the tables it changes.                               *)
LEMMA Alone ==
    ASSUME MutexInv, NEW t \in Thread, pc[t] \in Critical, NEW l,
           pc' = [pc EXCEPT ![t] = l]
    PROVE  /\ pc'[t] = l
           /\ \A u \in Thread \ {t} : pc'[u] = pc[u] /\ pc'[u] \notin Critical
BY DEF MutexInv, TypeInv, TypeOK, Owns

(* processUserRegisterInfo and processContractAccountInfo. *)
LEMMA RegMutex ==
    ASSUME MutexInv, TypeInv', NEW t \in Thread, RegStep(t)
    PROVE  MutexInv'
<1> USE DEF Goto, Return, Unlock, gtxVars, tables, poolVars
<1>1. CASE RegLock(t)
  BY <1>1, TakesMutex DEF RegLock
<1>2. CASE RegSelect(t)
  <2>1. PICK l \in {"idle", "regSelectPre"} : pc' = [pc EXCEPT ![t] = l]
    BY <1>2 DEF RegSelect
  <2>2. /\ pc'[t] = l
        /\ \A u \in Thread \ {t} : pc'[u] = pc[u] /\ pc'[u] \notin Critical
    BY <1>2, <2>1, Alone DEF RegSelect, Critical
  <2>3. \A u \in Thread : (Owns(u) /\ NoRowYet(u) /\ NotStocked(u))'
    BY <1>2, <2>2 DEF RegSelect, MutexInv, TypeInv, TypeOK, Owns, NoRowYet,
           NotStocked, Critical
  <2>4. AnswerIsRow'
    BY <1>2, <2>2 DEF RegSelect, MutexInv, TypeInv, TypeOK, AnswerIsRow
  <2> QED
    BY <1>2, <2>3, <2>4 DEF RegSelect, MutexInv, OneAddressPerKey, StockUnique
<1>3. CASE RegSelectPre(t)
  <2>1. PICK l \in {"idle", "regDelete"} : pc' = [pc EXCEPT ![t] = l]
    BY <1>3 DEF RegSelectPre
  <2>2. /\ pc'[t] = l
        /\ \A u \in Thread \ {t} : pc'[u] = pc[u] /\ pc'[u] \notin Critical
    BY <1>3, <2>1, Alone DEF RegSelectPre, Critical
  <2>3. \A u \in Thread : (Owns(u) /\ NoRowYet(u) /\ NotStocked(u))'
    BY <1>3, <2>2 DEF RegSelectPre, MutexInv, TypeInv, TypeOK, Owns, NoRowYet,
           NotStocked, Critical
  <2>4. AnswerIsRow'
    BY <1>3, <2>2 DEF RegSelectPre, MutexInv, TypeInv, TypeOK, AnswerIsRow
  <2> QED
    BY <1>3, <2>3, <2>4 DEF RegSelectPre, MutexInv, OneAddressPerKey, StockUnique
<1>4. CASE RegDelete(t)
  <2>1. PICK l \in {"idle", "regInsert"} : pc' = [pc EXCEPT ![t] = l]
    BY <1>4 DEF RegDelete
  <2>2. /\ pc'[t] = l
        /\ \A u \in Thread \ {t} : pc'[u] = pc[u] /\ pc'[u] \notin Critical
    BY <1>4, <2>1, Alone DEF RegDelete, Critical
  <2>3. \A u \in Thread : (Owns(u) /\ NoRowYet(u) /\ NotStocked(u))'
    BY <1>4, <2>2 DEF RegDelete, MutexInv, TypeInv, TypeOK, Owns, NoRowYet,
           NotStocked, Critical
  <2>4. AnswerIsRow'
    BY <1>4, <2>2 DEF RegDelete, MutexInv, TypeInv, TypeOK, AnswerIsRow
  <2>5. StockUnique'
    BY <1>4 DEF RegDelete, MutexInv, StockUnique
  <2> QED
    BY <1>4, <2>3, <2>4, <2>5 DEF RegDelete, MutexInv, OneAddressPerKey
<1>5. CASE RegInsert(t)
  <2> DEFINE row == [id |-> nextId, key |-> key[t], addr |-> dest[t]]
  <2>1. /\ pc'[t] = "idle"
        /\ \A u \in Thread \ {t} : pc'[u] = pc[u] /\ pc'[u] \notin Critical
    BY <1>5, Alone DEF RegInsert, Critical
  <2>2. \A u \in Thread : (Owns(u) /\ NoRowYet(u) /\ NotStocked(u))'
    BY <1>5, <2>1 DEF RegInsert, Owns, NoRowYet, NotStocked, Critical
  <2>3. \/ assigned' = assigned /\ ret'[t] = -1
        \/ assigned' = assigned \cup {row} /\ ret'[t] \in {-1, 1}
    BY <1>5, OutcomeAssumption DEF RegInsert, InsertResult, MutexInv, TypeInv, TypeOK, Outcomes
  <2>4. OneAddressPerKey'
    BY <1>5, <2>3 DEF RegInsert, MutexInv, OneAddressPerKey, NoRowYet
  <2>5. AnswerIsRow'
    <3>1. row.key = key'[t] /\ row.addr = dest'[t]
      BY <1>5 DEF RegInsert
    <3>2. \A u \in Thread \ {t} : op'[u] = op[u] /\ ret'[u] = ret[u]
                                 /\ key'[u] = key[u] /\ dest'[u] = dest[u]
      BY <1>5 DEF RegInsert, MutexInv, TypeInv, TypeOK
    <3> HIDE DEF row
    <3> QED
      BY <2>1, <2>3, <3>1, <3>2 DEF MutexInv, AnswerIsRow
  <2> QED
    BY <1>5, <2>2, <2>4, <2>5 DEF RegInsert, MutexInv, StockUnique
<1> QED
  BY <1>1, <1>2, <1>3, <1>4, <1>5 DEF RegStep

(* insertAccountInfo2DB and insertPreAccountInfo2DB. *)
LEMMA InsMutex ==
    ASSUME MutexInv, TypeInv', NEW t \in Thread, InsStep(t),
           op[t] \in {"EChain_CreateAccount", "EChain_AccountPrepare"}
    PROVE  MutexInv'
<1> USE DEF Goto, Return, Unlock, gtxVars, tables, poolVars
<1>1. CASE InsLock(t)
  BY <1>1, TakesMutex DEF InsLock
<1>2. CASE InsSelect(t)
  <2>1. PICK l \in {"idle", "again", "prepare", "insInsert"} : pc' = [pc EXCEPT ![t] = l]
    BY <1>2 DEF InsSelect, AfterInsert
  <2>2. /\ pc'[t] = l
        /\ \A u \in Thread \ {t} : pc'[u] = pc[u] /\ pc'[u] \notin Critical
    BY <1>2, <2>1, Alone DEF InsSelect, Critical
  <2>3. l = "insInsert" => ~ InRows(StockRows(t), dest[t]) /\ UNCHANGED g_dbmutex
    BY <1>2, <2>2 DEF InsSelect, AfterInsert, MutexInv, TypeInv, TypeOK
  <2>4. \A u \in Thread : (Owns(u) /\ NoRowYet(u) /\ NotStocked(u))'
    BY <1>2, <2>2, <2>3
       DEF InsSelect, MutexInv, Owns, NoRowYet, NotStocked, Critical, StockRows, InRows
  <2>5. \A u \in Thread \ {t} : ret'[u] = ret[u]
    BY <1>2 DEF InsSelect, AfterInsert, MutexInv, TypeInv, TypeOK
  <2>6. AnswerIsRow'
    BY <1>2, <2>2, <2>5 DEF InsSelect, MutexInv, AnswerIsRow, RegFunctions
  <2> QED
    BY <1>2, <2>4, <2>6 DEF InsSelect, MutexInv, OneAddressPerKey, StockUnique
<1>3. CASE InsInsert(t)
  <2> DEFINE row == [id |-> nextId, addr |-> dest[t]]
  <2>1. PICK l \in {"idle", "again", "prepare"} : pc' = [pc EXCEPT ![t] = l]
    BY <1>3 DEF InsInsert, AfterInsert
  <2>2. /\ pc'[t] = l
        /\ \A u \in Thread \ {t} : pc'[u] = pc[u] /\ pc'[u] \notin Critical
    BY <1>3, <2>1, Alone DEF InsInsert, Critical
  <2>3. \A u \in Thread : (Owns(u) /\ NoRowYet(u) /\ NotStocked(u))'
    BY <2>2 DEF Owns, NoRowYet, NotStocked, Critical
  <2>4. /\ assigned' = assigned
        /\ \/ preaccount_info' = preaccount_info /\ account_info' = account_info
           \/ /\ StockRows(t) = account_info /\ account_info' = account_info \cup {row}
              /\ preaccount_info' = preaccount_info
           \/ /\ StockRows(t) = preaccount_info /\ account_info' = account_info
              /\ preaccount_info' = preaccount_info \cup {row}
    BY <1>3 DEF InsInsert, StockRows
  <2>5. \A r \in StockRows(t) : r.addr # row.addr
    BY <1>3 DEF InsInsert, MutexInv, NotStocked, InRows
  <2>6. StockUnique'
    <3> HIDE DEF row
    <3> QED
      BY <2>4, <2>5 DEF MutexInv, StockUnique
  <2>7. \A u \in Thread \ {t} : ret'[u] = ret[u]
    BY <1>3 DEF InsInsert, AfterInsert, MutexInv, TypeInv, TypeOK
  <2>8. AnswerIsRow'
    BY <1>3, <2>2, <2>4, <2>7 DEF InsInsert, MutexInv, AnswerIsRow, RegFunctions
  <2> QED
    BY <2>3, <2>4, <2>6, <2>8 DEF MutexInv, OneAddressPerKey
<1> QED
  BY <1>1, <1>2, <1>3 DEF InsStep

LEMMA MutexInductive == MutexInv /\ [Next]_vars => MutexInv'
<1> SUFFICES ASSUME MutexInv, [Next]_vars PROVE MutexInv'
  OBVIOUS
<1>0. TypeInv /\ TypeInv'
  BY TypeInductive DEF MutexInv
<1>1. ASSUME NEW t \in Thread, CallStep(t) PROVE MutexInv'
  <2>1. PICK l \in {"regLock", "count", "again"} : \E f, k : Call(t, f, k, l)
    BY <1>1 DEF CallStep, EChain_UserRegister, EChain_ContractAddressCreate,
                EChain_AccountPrepare, EChain_CreateAccount
  <2> QED
    BY <1>0, <2>1, OutsideMutex
       DEF Call, Goto, tables, Critical, MutexInv, TypeInv, TypeOK
<1>2. ASSUME NEW t \in Thread, ThreadStep(t) PROVE MutexInv'
  <2>1. CASE ProcessUserRegisterInfo(t) \/ ProcessContractAccountInfo(t)
    BY <1>0, <2>1, RegMutex DEF ProcessUserRegisterInfo, ProcessContractAccountInfo
  <2>2. CASE InsertAccountInfo2DB(t) \/ InsertPreAccountInfo2DB(t)
    BY <1>0, <2>2, InsMutex DEF InsertAccountInfo2DB, InsertPreAccountInfo2DB
  <2>3. ASSUME NEW f, GtxStep(t, f), UNCHANGED poolVars PROVE MutexInv'
    <3>1. PICK l \in GtxLabels : pc' = [pc EXCEPT ![t] = l]
      BY <1>0, <2>3, TypeIsGtxOK, GtxFrame
    <3>2. UNCHANGED <<dest, g_dbmutex>>
      BY <1>0, <2>3, TypeIsGtxOK, GtxFrame
    <3>3. l \notin Critical /\ pc'[t] # "idle"
      BY <1>0, <3>1 DEF GtxLabels, Critical, TypeInv, TypeOK
    <3> QED
      BY <1>0, <2>3, <3>1, <3>2, <3>3, OutsideMutex DEF poolVars
  <2>4. CASE PrepareCount(t)
    BY <1>0, <2>4, OutsideMutex
       DEF PrepareCount, Goto, Return, gtxVars, tables, Critical, Located, RegFunctions,
           TypeInv, TypeOK
  <2>5. CASE PrepareLoop(t)
    BY <1>0, <2>5, OutsideMutex
       DEF PrepareLoop, Goto, Return, gtxVars, tables, Critical, Located, RegFunctions,
           TypeInv, TypeOK
  <2>6. CASE NewKeyPair(t)
    BY <1>0, <2>6, OutsideMutex
       DEF NewKeyPair, NoKeyPair, Goto, Return, tables, Critical, TypeInv, TypeOK
  <2>7. CASE AfterTx(t)
    BY <1>0, <2>7, OutsideMutex
       DEF AfterTx, Goto, Return, tables, Critical, TypeInv, TypeOK
  <2> QED
    BY <1>2, <2>1, <2>2, <2>3, <2>4, <2>5, <2>6, <2>7
       DEF ThreadStep, CreateAccountTx, CreateAccountXTx, ObtainAssetCode
<1>3. CASE Close \/ UNCHANGED vars
  BY <1>0, <1>3
     DEF Close, vars, thread, poolVars, MutexInv, Owns, NoRowYet, NotStocked, StockRows,
         InRows, OneAddressPerKey, StockUnique, AnswerIsRow
<1>4. CASE Crash
  <2>1. \A t \in Thread : pc'[t] = "idle" /\ op'[t] \notin RegFunctions
    BY <1>4, PoolAssumption DEF Crash, GtxReset, PoolFunctions
  <2> QED
    BY <1>0, <1>4, <2>1
       DEF Crash, tables, MutexInv, Owns, NoRowYet, NotStocked, Critical,
           OneAddressPerKey, StockUnique, AnswerIsRow
<1> QED
  BY <1>1, <1>2, <1>3, <1>4 DEF Next

(***************************************************************************)
(* A userid or (userid, classid) never gets a second address; the stock    *)
(* tables hold an address once; a registration's answer is in the          *)
(* database.  For every number of threads and all faults.                  *)
(***************************************************************************)
THEOREM RegistrationSafe == Spec => [](OneAddressPerKey /\ StockUnique /\ AnswerIsRow)
<1>1. Spec => []MutexInv
  BY InitMutex, MutexInductive, PTL DEF Spec
<1>2. MutexInv => OneAddressPerKey /\ StockUnique /\ AnswerIsRow
  BY DEF MutexInv
<1> QED
  BY <1>1, <1>2, PTL

(***************************************************************************)
(* The owner of g_dbmutex is inside a database function.  MutexInv alone   *)
(* lets a mutex be held by a thread that has left; the converse needs each *)
(* return path to have its Unlock.                                         *)
(***************************************************************************)
HeldInside == g_dbmutex # None => pc[g_dbmutex] \in Critical

(* A step of t outside the critical labels cannot be the owner's. *)
LEMMA OutsideHeld ==
    ASSUME TypeInv, HeldInside, NEW t \in Thread, NEW l,
           pc' = [pc EXCEPT ![t] = l], UNCHANGED g_dbmutex,
           pc[t] \notin Critical
    PROVE  HeldInside'
BY DEF TypeInv, TypeOK, HeldInside

LEMMA HeldInductive == MutexInv /\ HeldInside /\ [Next]_vars => HeldInside'
<1> SUFFICES ASSUME MutexInv, HeldInside, [Next]_vars PROVE HeldInside'
  OBVIOUS
<1>0. TypeInv /\ \A t \in Thread : pc[t] \in Critical => g_dbmutex = t
  BY DEF MutexInv, Owns
<1>1. ASSUME NEW t \in Thread, CallStep(t) PROVE HeldInside'
  <2>1. PICK l : \E f, k : Call(t, f, k, l)
    BY <1>1 DEF CallStep, EChain_UserRegister, EChain_ContractAddressCreate,
                EChain_AccountPrepare, EChain_CreateAccount
  <2> QED
    BY <1>0, <2>1, OutsideHeld DEF Call, Goto, Critical
<1>2. ASSUME NEW t \in Thread, RegStep(t) PROVE HeldInside'
  <2>1. CASE RegLock(t)
    BY <1>0, <2>1 DEF RegLock, Goto, HeldInside, Critical, TypeInv, TypeOK
  <2>2. CASE RegSelect(t)
    BY <1>0, <2>2 DEF RegSelect, Goto, Return, Unlock, HeldInside, Critical, TypeInv, TypeOK
  <2>3. CASE RegSelectPre(t)
    BY <1>0, <2>3 DEF RegSelectPre, Goto, Return, Unlock, HeldInside, Critical, TypeInv, TypeOK
  <2>4. CASE RegDelete(t)
    BY <1>0, <2>4 DEF RegDelete, Goto, Return, Unlock, HeldInside, Critical, TypeInv, TypeOK
  <2>5. CASE RegInsert(t)
    BY <2>5 DEF RegInsert, Unlock, HeldInside
  <2> QED
    BY <1>2, <2>1, <2>2, <2>3, <2>4, <2>5 DEF RegStep
<1>3. ASSUME NEW t \in Thread, InsStep(t) PROVE HeldInside'
  <2>1. CASE InsLock(t)
    BY <1>0, <2>1 DEF InsLock, Goto, HeldInside, Critical, TypeInv, TypeOK
  <2>2. CASE InsSelect(t)
    BY <1>0, <2>2 DEF InsSelect, Goto, Unlock, HeldInside, Critical, TypeInv, TypeOK
  <2>3. CASE InsInsert(t)
    BY <2>3 DEF InsInsert, Unlock, HeldInside
  <2> QED
    BY <1>3, <2>1, <2>2, <2>3 DEF InsStep
<1>4. ASSUME NEW t \in Thread, ThreadStep(t) PROVE HeldInside'
  <2>1. CASE PrepareCount(t) \/ PrepareLoop(t)
    BY <1>0, <2>1, OutsideHeld DEF PrepareCount, PrepareLoop, Goto, Return, Critical
  <2>2. CASE NewKeyPair(t) \/ AfterTx(t)
    BY <1>0, <2>2, OutsideHeld DEF NewKeyPair, NoKeyPair, AfterTx, Goto, Return, Critical
  <2>3. ASSUME NEW f, GtxStep(t, f) PROVE HeldInside'
    <3>1. /\ UNCHANGED g_dbmutex /\ pc[t] \in GtxLabels
          /\ \E l \in GtxLabels : pc' = [pc EXCEPT ![t] = l]
      BY <1>0, <2>3, TypeIsGtxOK, GtxFrame
    <3> QED
      BY <1>0, <3>1, OutsideHeld DEF GtxLabels, Critical
  <2> QED
    BY <1>2, <1>3, <1>4, <2>1, <2>2, <2>3
       DEF ThreadStep, ProcessUserRegisterInfo, ProcessContractAccountInfo,
           InsertAccountInfo2DB, InsertPreAccountInfo2DB, CreateAccountTx,
           CreateAccountXTx, ObtainAssetCode
<1>5. CASE Close \/ UNCHANGED vars
  BY <1>5 DEF Close, vars, thread, HeldInside
<1>6. CASE Crash
  BY <1>6 DEF Crash, GtxReset, HeldInside
<1> QED
  BY <1>1, <1>4, <1>5, <1>6 DEF Next

(***************************************************************************)
(* g_dbmutex is held exactly by the thread that is at a statement of       *)
(* processUserRegisterInfo, processContractAccountInfo, insertAccountInfo- *)
(* 2DB or insertPreAccountInfo2DB: whatever statement fails, none of them  *)
(* returns with the mutex.                                                 *)
(***************************************************************************)
THEOREM MutexIsReleased == Spec => []MutexInside
<1>1. Init => HeldInside
  BY DEF Init, GtxInit, HeldInside
<1>2. MutexInv /\ HeldInside => MutexInside
  BY DEF MutexInv, Owns, HeldInside, MutexInside
<1> QED
  BY <1>1, <1>2, InitMutex, HeldInductive, MutexInductive, PTL DEF Spec

(***************************************************************************)
(* A registration that answers 1 or 0 has handed out the address of the    *)
(* row the database holds for its key, whichever of its competitors fail   *)
(* or die half-way.                                                        *)
(***************************************************************************)
THEOREM AnswerHandsOutRow == Spec => []AnswerIsRow
<1>1. OneAddressPerKey /\ StockUnique /\ AnswerIsRow => AnswerIsRow
  OBVIOUS
<1> QED
  BY <1>1, RegistrationSafe, PTL

-----------------------------------------------------------------------------
(***************************************************************************)
(* One owner per address, when the node never generates an address twice   *)
(* (RepeatUntil = 0).  An address is at every moment in one place: in the  *)
(* stock, with an owner, or in the hands of one thread, which has created  *)
(* it and not stored it yet or has taken it from the stock and not stored  *)
(* its owner yet.                                                          *)
(***************************************************************************)

HoldLabels == GtxLabels \cup InsLabels \cup {"regInsert"}
Holds(t) == pc[t] \in HoldLabels

(* In no table that hands addresses out. *)
Loose(a) ==
    /\ a \in issued
    /\ \A r \in preaccount_info \cup assigned : r.addr # a

HeldLoose == \A t \in Thread : Holds(t) => Loose(dest[t])
HeldApart == \A t, u \in Thread : Holds(t) /\ Holds(u) /\ dest[t] = dest[u] => t = u
RowsIssued == \A r \in preaccount_info \cup assigned : r.addr \in issued
PickedRow == \A t \in Thread : pc[t] = "regDelete" => InRows(preaccount_info, dest[t])

OwnerInv ==
    /\ RepeatUntil = 0
    /\ MutexInv
    /\ HeldLoose /\ HeldApart /\ RowsIssued /\ PickedRow
    /\ OneOwner

LEMMA InitOwner == RepeatUntil = 0 /\ Init => OwnerInv
<1> SUFFICES ASSUME RepeatUntil = 0, Init PROVE OwnerInv
  OBVIOUS
<1>1. \A t \in Thread : pc[t] = "idle"
  BY DEF Init, GtxInit
<1>2. HeldLoose /\ HeldApart /\ PickedRow
  BY <1>1 DEF HeldLoose, HeldApart, PickedRow, Holds, HoldLabels, GtxLabels, InsLabels
<1>3. RowsIssued /\ OneOwner
  BY DEF Init, RowsIssued, OneOwner
<1> QED
  BY <1>2, <1>3, InitMutex DEF OwnerInv

(* A step of t that leaves the tables alone and gives t no new address. *)
LEMMA TakesNoAddress ==
    ASSUME OwnerInv, MutexInv', NEW t \in Thread, NEW l,
           UNCHANGED <<preaccount_info, assigned, issued>>,
           pc' = [pc EXCEPT ![t] = l],
           \A u \in Thread \ {t} : dest'[u] = dest[u],
           \/ l \notin HoldLabels \cup {"regDelete"}
           \/ dest'[t] = dest[t] /\ Holds(t) /\ l \in HoldLabels
    PROVE  OwnerInv'
<1>1. pc'[t] = l /\ \A u \in Thread \ {t} : pc'[u] = pc[u]
  BY DEF OwnerInv, MutexInv, TypeInv, TypeOK
<1>2. HeldLoose' /\ HeldApart'
  BY <1>1 DEF OwnerInv, HeldLoose, HeldApart, Holds, Loose
<1>3. PickedRow'
  <2>1. "regDelete" \notin HoldLabels
    BY DEF HoldLabels, GtxLabels, InsLabels
  <2> QED
    BY <1>1, <2>1 DEF OwnerInv, PickedRow, InRows
<1> QED
  BY <1>2, <1>3 DEF OwnerInv, RowsIssued, OneOwner, InRows

(* processUserRegisterInfo and processContractAccountInfo. *)
LEMMA RegOwner ==
    ASSUME OwnerInv, MutexInv', NEW t \in Thread, RegStep(t)
    PROVE  OwnerInv'
<1> USE DEF Goto, Return, Unlock, gtxVars, tables, poolVars
<1>0. \A l : pc' = [pc EXCEPT ![t] = l] =>
         pc'[t] = l /\ \A u \in Thread \ {t} : pc'[u] = pc[u]
  BY DEF OwnerInv, MutexInv, TypeInv, TypeOK
<1>1. CASE RegLock(t)
  BY <1>1, TakesNoAddress DEF RegLock, HoldLabels, GtxLabels, InsLabels
<1>2. CASE RegSelect(t)
  <2>1. \A u \in Thread \ {t} : dest'[u] = dest[u]
    BY <1>2 DEF RegSelect, OwnerInv, MutexInv, TypeInv, TypeOK
  <2>2. \E l \in {"idle", "regSelectPre"} : pc' = [pc EXCEPT ![t] = l]
    BY <1>2 DEF RegSelect
  <2> QED
    BY <1>2, <2>1, <2>2, TakesNoAddress DEF RegSelect, HoldLabels, GtxLabels, InsLabels
<1>3. CASE RegSelectPre(t)
  <2>1. \A u \in Thread \ {t} : dest'[u] = dest[u]
    BY <1>3 DEF RegSelectPre, OwnerInv, MutexInv, TypeInv, TypeOK
  <2>2. CASE pc' = [pc EXCEPT ![t] = "idle"]
    BY <1>3, <2>1, <2>2, TakesNoAddress DEF RegSelectPre, HoldLabels, GtxLabels, InsLabels
  <2>3. CASE pc' = [pc EXCEPT ![t] = "regDelete"]
    <3>1. /\ pc'[t] = "regDelete" /\ \A u \in Thread \ {t} : pc'[u] = pc[u]
          /\ "regDelete" \notin HoldLabels
      BY <1>0, <2>3 DEF HoldLabels, GtxLabels, InsLabels
    <3>2. InRows(preaccount_info, dest'[t])
      BY <1>3, <3>1, <1>0 DEF RegSelectPre, InRows, OwnerInv, MutexInv, TypeInv, TypeOK
    <3>3. HeldLoose' /\ HeldApart' /\ PickedRow'
      BY <1>3, <2>1, <3>1, <3>2
         DEF RegSelectPre, OwnerInv, HeldLoose, HeldApart, Holds, Loose, PickedRow, InRows
    <3> QED
      BY <1>3, <3>3 DEF RegSelectPre, OwnerInv, RowsIssued, OneOwner, InRows
  <2> QED
    BY <1>3, <2>2, <2>3 DEF RegSelectPre
<1>4. CASE RegDelete(t)
  <2>1. /\ preaccount_info' \subseteq preaccount_info
        /\ UNCHANGED <<dest, assigned, issued>>
    BY <1>4 DEF RegDelete
  <2>2. PICK l \in {"idle", "regInsert"} :
          /\ pc' = [pc EXCEPT ![t] = l]
          /\ l = "regInsert" => \A r \in preaccount_info' : r.addr # dest[t]
    BY <1>4 DEF RegDelete
  <2>3. pc'[t] = l /\ \A u \in Thread \ {t} : pc'[u] = pc[u] /\ pc'[u] # "regDelete"
    BY <1>0, <1>4, <2>2 DEF RegDelete, OwnerInv, MutexInv, Owns, Critical
  <2>4. InRows(preaccount_info, dest[t])
    BY <1>4 DEF RegDelete, OwnerInv, PickedRow
  <2>5. "idle" \notin HoldLabels
    BY DEF HoldLabels, GtxLabels, InsLabels
  <2>6. HeldLoose'
    BY <2>1, <2>2, <2>3, <2>4, <2>5
       DEF OwnerInv, HeldLoose, Holds, Loose, RowsIssued, OneOwner, InRows
  <2>7. HeldApart'
    BY <2>1, <2>3, <2>4, <2>5 DEF OwnerInv, HeldLoose, HeldApart, Holds, Loose, InRows
  <2>8. PickedRow'
    BY <2>3, <2>2 DEF PickedRow
  <2> QED
    BY <2>1, <2>6, <2>7, <2>8 DEF OwnerInv, RowsIssued, OneOwner, InRows
<1>5. CASE RegInsert(t)
  <2> DEFINE row == [id |-> nextId, key |-> key[t], addr |-> dest[t]]
  <2>1. /\ assigned' = assigned \/ assigned' = assigned \cup {row}
        /\ UNCHANGED <<dest, preaccount_info, issued>>
        /\ Holds(t)
    BY <1>5 DEF RegInsert, Holds, HoldLabels
  <2>2. pc'[t] = "idle" /\ \A u \in Thread \ {t} : pc'[u] = pc[u] /\ pc'[u] # "regDelete"
    BY <1>0, <1>5 DEF RegInsert, OwnerInv, MutexInv, Owns, Critical
  <2>3. "idle" \notin HoldLabels /\ row.addr = dest[t]
    BY DEF HoldLabels, GtxLabels, InsLabels
  <2> HIDE DEF row
  <2>4. HeldLoose'
    BY <2>1, <2>2, <2>3 DEF OwnerInv, HeldLoose, HeldApart, Holds, Loose
  <2>5. HeldApart' /\ PickedRow'
    BY <2>1, <2>2, <2>3 DEF OwnerInv, HeldApart, Holds, PickedRow
  <2>6. RowsIssued' /\ OneOwner'
    BY <2>1, <2>3 DEF OwnerInv, HeldLoose, Loose, RowsIssued, OneOwner, InRows
  <2> QED
    BY <2>4, <2>5, <2>6 DEF OwnerInv
<1> QED
  BY <1>1, <1>2, <1>3, <1>4, <1>5 DEF RegStep

(* insertAccountInfo2DB and insertPreAccountInfo2DB: the row stored is the  *)
(* one t holds, and t lets go of it.                                        *)
LEMMA InsOwner ==
    ASSUME OwnerInv, MutexInv', NEW t \in Thread, InsStep(t)
    PROVE  OwnerInv'
<1> USE DEF Goto, Return, Unlock, gtxVars, tables, poolVars
<1>1. CASE InsLock(t)
  BY <1>1, TakesNoAddress DEF InsLock, Holds, HoldLabels, InsLabels
<1>2. CASE InsSelect(t)
  <2>1. \E l \in {"idle", "again", "prepare", "insInsert"} : pc' = [pc EXCEPT ![t] = l]
    BY <1>2 DEF InsSelect, AfterInsert
  <2> QED
    BY <1>2, <2>1, TakesNoAddress
       DEF InsSelect, Holds, HoldLabels, GtxLabels, InsLabels
<1>3. CASE InsInsert(t)
  <2> DEFINE row == [id |-> nextId, addr |-> dest[t]]
  <2>1. /\ \/ preaccount_info' = preaccount_info
           \/ preaccount_info' = preaccount_info \cup {row}
        /\ UNCHANGED <<dest, assigned, issued>>
        /\ Holds(t)
    BY <1>3 DEF InsInsert, StockRows, Holds, HoldLabels, InsLabels
  <2>2. PICK l \in {"idle", "again", "prepare"} : pc' = [pc EXCEPT ![t] = l]
    BY <1>3 DEF InsInsert, AfterInsert
  <2>3. pc'[t] = l /\ \A u \in Thread \ {t} : pc'[u] = pc[u] /\ pc'[u] # "regDelete"
    BY <1>3, <2>2, Alone DEF InsInsert, OwnerInv, Critical
  <2>4. l \notin HoldLabels \cup {"regDelete"} /\ row.addr = dest[t]
    BY DEF HoldLabels, GtxLabels, InsLabels
  <2> HIDE DEF row
  <2>5. HeldLoose'
    BY <2>1, <2>3, <2>4 DEF OwnerInv, HeldLoose, HeldApart, Holds, Loose
  <2>6. HeldApart' /\ PickedRow'
    BY <2>1, <2>3, <2>4 DEF OwnerInv, HeldApart, Holds, PickedRow
  <2>7. RowsIssued' /\ OneOwner'
    BY <2>1, <2>4 DEF OwnerInv, HeldLoose, Loose, RowsIssued, OneOwner, InRows
  <2> QED
    BY <2>5, <2>6, <2>7 DEF OwnerInv
<1> QED
  BY <1>1, <1>2, <1>3 DEF InsStep

(* A new address is in nobody's hands and in no table. *)
LEMMA KeyPairOwner ==
    ASSUME OwnerInv, MutexInv', NEW t \in Thread, NewKeyPair(t)
    PROVE  OwnerInv'
<1>1. CASE NoKeyPair(t)
  BY <1>1, TakesNoAddress
     DEF NewKeyPair, NoKeyPair, Goto, Return, tables, HoldLabels, GtxLabels, InsLabels
<1>2. ASSUME NEW a \in KeyPairs, dest' = [dest EXCEPT ![t] = a],
             issued' = issued \cup {a}, Goto(t, "key")
      PROVE  OwnerInv'
  <2>1. a \notin issued
    BY <1>2, NodeAssumption DEF KeyPairs, OwnerInv, MutexInv, TypeInv, TypeOK
  <2>2. /\ pc'[t] = "key" /\ dest'[t] = a
        /\ \A u \in Thread \ {t} : pc'[u] = pc[u] /\ dest'[u] = dest[u]
    BY <1>2 DEF Goto, OwnerInv, MutexInv, TypeInv, TypeOK
  <2>3. UNCHANGED <<preaccount_info, assigned>>
    BY DEF NewKeyPair, tables
  <2>4. HeldLoose' /\ HeldApart'
    BY <1>2, <2>1, <2>2, <2>3 DEF OwnerInv, HeldLoose, HeldApart, Holds, Loose, RowsIssued
  <2>5. PickedRow' /\ RowsIssued' /\ OneOwner'
    BY <1>2, <2>2, <2>3 DEF OwnerInv, PickedRow, RowsIssued, OneOwner, InRows
  <2> QED
    BY <2>4, <2>5 DEF OwnerInv
<1> QED
  BY <1>1, <1>2 DEF NewKeyPair

LEMMA OwnerInductive == OwnerInv /\ [Next]_vars => OwnerInv'
<1> SUFFICES ASSUME OwnerInv, [Next]_vars PROVE OwnerInv'
  OBVIOUS
<1>0. MutexInv /\ MutexInv'
  BY MutexInductive DEF OwnerInv
<1> USE DEF HoldLabels, GtxLabels, InsLabels
<1>1. ASSUME NEW t \in Thread, CallStep(t) PROVE OwnerInv'
  <2>1. PICK l \in {"regLock", "count", "again"} : \E f, k : Call(t, f, k, l)
    BY <1>1 DEF CallStep, EChain_UserRegister, EChain_ContractAddressCreate,
                EChain_AccountPrepare, EChain_CreateAccount
  <2>2. /\ pc' = [pc EXCEPT ![t] = l]
        /\ \A u \in Thread \ {t} : dest'[u] = dest[u]
        /\ UNCHANGED <<preaccount_info, assigned, issued>>
    BY <1>0, <2>1 DEF Call, Goto, tables, MutexInv, TypeInv, TypeOK
  <2> QED
    BY <1>0, <2>2, TakesNoAddress
<1>2. ASSUME NEW t \in Thread, ThreadStep(t) PROVE OwnerInv'
  <2>1. CASE ProcessUserRegisterInfo(t) \/ ProcessContractAccountInfo(t)
    BY <1>0, <2>1, RegOwner DEF ProcessUserRegisterInfo, ProcessContractAccountInfo
  <2>2. CASE InsertAccountInfo2DB(t) \/ InsertPreAccountInfo2DB(t)
    BY <1>0, <2>2, InsOwner DEF InsertAccountInfo2DB, InsertPreAccountInfo2DB
  <2>3. ASSUME NEW f, GtxStep(t, f), UNCHANGED poolVars PROVE OwnerInv'
    <3>0. GtxOK
      BY <1>0, TypeIsGtxOK DEF MutexInv
    <3>1. PICK l \in GtxLabels : pc' = [pc EXCEPT ![t] = l]
      BY <2>3, <3>0, GtxFrame
    <3>2. UNCHANGED dest /\ Holds(t)
      BY <2>3, <3>0, GtxFrame DEF Holds
    <3> QED
      BY <1>0, <2>3, <3>1, <3>2, TakesNoAddress DEF poolVars
  <2>4. CASE PrepareCount(t)
    BY <1>0, <2>4, TakesNoAddress DEF PrepareCount, Goto, Return, gtxVars, tables
  <2>5. CASE PrepareLoop(t)
    BY <1>0, <2>5, TakesNoAddress DEF PrepareLoop, Goto, Return, gtxVars, tables
  <2>6. CASE NewKeyPair(t)
    BY <1>0, <2>6, KeyPairOwner
  <2>7. CASE AfterTx(t)
    BY <1>0, <2>7, TakesNoAddress DEF AfterTx, Goto, Return, tables, Holds
  <2> QED
    BY <1>2, <2>1, <2>2, <2>3, <2>4, <2>5, <2>6, <2>7
       DEF ThreadStep, CreateAccountTx, CreateAccountXTx, ObtainAssetCode
<1>3. CASE Close \/ UNCHANGED vars
  BY <1>0, <1>3
     DEF Close, vars, thread, poolVars, OwnerInv, HeldLoose, HeldApart, RowsIssued,
         PickedRow, Holds, Loose, OneOwner, InRows
<1>4. CASE Crash
  <2>1. \A t \in Thread : pc'[t] = "idle"
    BY <1>4 DEF Crash, GtxReset
  <2> QED
    BY <1>0, <1>4, <2>1
       DEF Crash, tables, OwnerInv, HeldLoose, HeldApart, RowsIssued, PickedRow, Holds,
           OneOwner, InRows
<1> QED
  BY <1>1, <1>2, <1>3, <1>4 DEF Next

(***************************************************************************)
(* No address gets two owners, and none that has an owner is still in the  *)
(* stock: processUserRegisterInfo and processContractAccountInfo are safe  *)
(* at every statement that fails and at every point the process dies.      *)
(***************************************************************************)
THEOREM AddressHasOneOwner == RepeatUntil = 0 /\ Spec => []OneOwner
<1>1. RepeatUntil = 0 /\ Spec => []OwnerInv
  BY InitOwner, OwnerInductive, PTL DEF Spec
<1>2. OwnerInv => OneOwner
  BY DEF OwnerInv
<1> QED
  BY <1>1, <1>2, PTL

-----------------------------------------------------------------------------
(***************************************************************************)
(* What is in the stock is on the ledger.  Nothing here depends on the     *)
(* mutex or on g_genesisNonce: a thread gets to the insert only through    *)
(* two submissions that the node answered with 0.                          *)
(***************************************************************************)

Usable(a) == a \in Prepared \/ (a \in Done("create") /\ a \in Done("pay"))

(* How far t is with the account it is creating. *)
OnLedger(t) ==
    /\ pc[t] \in {"regDelete", "regInsert"} => Usable(dest[t])
    /\ pc[t] \in GtxLabels => fn[t] \in GtxFunctions
    /\ pc[t] \in GtxLabels /\ fn[t] = "EChain_CreateAccount"
          => op[t] = "EChain_CreateAccount"
    /\ op[t] # "EChain_CreateAccount" =>
          /\ pc[t] \in GtxLabels /\ fn[t] = "EChain_ObtainAssetCode"
                => dest[t] \in Done("create")
          /\ pc[t] = "txOk" /\ fn[t] = "EChain_CreateAccountX" => dest[t] \in Done("create")
          /\ pc[t] = "txOk" /\ fn[t] = "EChain_ObtainAssetCode" => dest[t] \in Done("pay")
          /\ pc[t] \in InsLabels => Usable(dest[t])

RowsUsable == \A r \in preaccount_info \cup assigned : Usable(r.addr)

LedgerInv == TypeInv /\ RowsUsable /\ \A t \in Thread : OnLedger(t)

LEMMA InitLedger == Init => LedgerInv
<1> SUFFICES ASSUME Init PROVE LedgerInv
  OBVIOUS
<1>1. RowsUsable
  BY DEF Init, RowsUsable, Usable
<1>2. \A t \in Thread : OnLedger(t)
  BY DEF Init, GtxInit, OnLedger, GtxLabels, InsLabels
<1> QED
  BY <1>1, <1>2, InitType DEF LedgerInv

(* The ledger forgets nothing. *)
LEMMA DoneGrows ==
    ASSUME accepted \subseteq accepted'
    PROVE  /\ \A o : Done(o) \subseteq Done(o)'
           /\ \A a : Usable(a) => Usable(a)'
BY DEF Done, Usable

(* The threads that do not move. *)
LEMMA OthersOnLedger ==
    ASSUME LedgerInv, accepted \subseteq accepted', NEW u \in Thread,
           pc'[u] = pc[u], dest'[u] = dest[u], fn'[u] = fn[u], op'[u] = op[u]
    PROVE  OnLedger(u)'
<1>1. OnLedger(u)
  BY DEF LedgerInv
<1> QED
  BY <1>1, DoneGrows DEF OnLedger

(* A step of t that adds no row and brings t nothing it has to account for. *)
LEMMA OwesNothing ==
    ASSUME LedgerInv, TypeInv', NEW t \in Thread,
           accepted \subseteq accepted',
           preaccount_info' \subseteq preaccount_info, assigned' \subseteq assigned,
           \A u \in Thread \ {t} : /\ pc'[u] = pc[u] /\ dest'[u] = dest[u]
                                   /\ fn'[u] = fn[u] /\ op'[u] = op[u],
           OnLedger(t)'
    PROVE  LedgerInv'
<1>1. \A u \in Thread : OnLedger(u)'
  BY OthersOnLedger
<1>2. RowsUsable'
  BY DoneGrows DEF LedgerInv, RowsUsable
<1> QED
  BY <1>1, <1>2 DEF LedgerInv

(* A submission the function takes for a success is on the ledger. *)
LEMMA SubmitDone ==
    ASSUME TypeInv, NEW t \in Thread, SubmitTx(t)
    PROVE  /\ accepted \subseteq accepted'
           /\ pc'[t] = "txOk" =>
                 dest[t] \in (Done(IF fn[t] = "EChain_ObtainAssetCode"
                                THEN "pay" ELSE "create"))'
<1> DEFINE code == SubmitCode(Genesis, nn[t], TxCost(t))
<1>1. PICK o \in NetOutcomes :
        /\ IF o \in {"fail", "reject"}
           THEN UNCHANGED nodeVars
           ELSE Submit(Genesis, nn[t], TxBody(t), TxCost(t))
        /\ Goto(t, AfterSubmit(fn[t], o, code))
  BY DEF SubmitTx
<1>2. pc'[t] = AfterSubmit(fn[t], o, code)
  BY <1>1 DEF Goto, TypeInv, TypeOK
<1>3. AfterSubmit(fn[t], o, code) = "txOk" => o = "ok" /\ code = 0
  BY Zenon DEF AfterSubmit
<1>4. accepted \subseteq accepted'
  BY <1>1 DEF Submit, nodeVars
<1>5. ASSUME pc'[t] = "txOk"
      PROVE  [src |-> Genesis, nonce |-> nn[t], body |-> TxBody(t)] \in accepted'
  BY <1>1, <1>2, <1>3, <1>5 DEF Submit
<1>6. ASSUME pc'[t] = "txOk" PROVE dest[t] \in (Done(TxBody(t).op))'
  <2>1. TxBody(t).dest = dest[t] /\ TxBody(t)' = TxBody(t)
    BY DEF TxBody, SubmitTx
  <2> QED
    BY <1>5, <1>6, <2>1 DEF Done
<1> QED
  BY <1>4, <1>6 DEF TxBody, SubmitTx

(* The genesis transaction. *)
LEMMA GtxLedger ==
    ASSUME LedgerInv, TypeInv', NEW t \in Thread, NEW f, GtxStep(t, f), UNCHANGED poolVars
    PROVE  LedgerInv'
<1>0. GtxOK
  BY TypeIsGtxOK DEF LedgerInv
<1>1. PICK l \in GtxLabels : pc' = [pc EXCEPT ![t] = l]
  BY <1>0, GtxFrame
<1>2. pc'[t] = l /\ \A u \in Thread \ {t} : pc'[u] = pc[u]
  BY <1>1 DEF LedgerInv, TypeInv, TypeOK
<1>3. UNCHANGED <<dest, fn>> /\ pc[t] \in GtxLabels
  BY <1>0, GtxFrame
<1>4. /\ accepted \subseteq accepted'
      /\ l = "txOk" =>
            dest[t] \in (Done(IF fn[t] = "EChain_ObtainAssetCode"
                                THEN "pay" ELSE "create"))'
  <2>1. CASE SubmitTx(t)
    BY <1>2, <2>1, SubmitDone DEF LedgerInv
  <2>2. CASE ~ SubmitTx(t)
    <3>1. UNCHANGED accepted /\ l # "txOk"
      BY <1>2, <2>2 DEF GtxStep, GetKey, Fetch, Store, Recheck, Blob, Incr, IncrWrite, nodeVars,
                        Goto, LedgerInv, TypeInv, TypeOK
    <3> QED
      BY <3>1
  <2> QED
    BY <2>1, <2>2
<1>5. l \notin InsLabels \cup {"regDelete", "regInsert"}
  BY DEF GtxLabels, InsLabels
<1>6. OnLedger(t)'
  BY <1>2, <1>3, <1>4, <1>5, DoneGrows DEF LedgerInv, OnLedger, poolVars
<1> QED
  BY <1>2, <1>3, <1>4, <1>6, OwesNothing DEF poolVars

(* processUserRegisterInfo and processContractAccountInfo move a usable     *)
(* address from the stock to its owner.                                     *)
LEMMA RegLedger ==
    ASSUME LedgerInv, TypeInv', NEW t \in Thread, RegStep(t)
    PROVE  LedgerInv'
<1> USE DEF Goto, Return, Unlock, nodeVars, gtxVars, tables, poolVars
<1>0. /\ UNCHANGED <<accepted, fn, op>>
      /\ \A u \in Thread \ {t} : pc'[u] = pc[u] /\ dest'[u] = dest[u]
  BY DEF RegStep, RegLock, RegSelect, RegSelectPre, RegDelete, RegInsert,
         LedgerInv, TypeInv, TypeOK
<1>1. CASE RegLock(t) \/ RegSelect(t)
  <2>1. pc'[t] \in {"regSelect", "regSelectPre", "idle"}
    BY <1>1 DEF RegLock, RegSelect, LedgerInv, TypeInv, TypeOK
  <2>2. OnLedger(t)'
    BY <2>1 DEF OnLedger, GtxLabels, InsLabels
  <2> QED
    BY <1>0, <1>1, <2>2, OwesNothing DEF RegLock, RegSelect
<1>2. CASE RegSelectPre(t)
  <2>1. \/ pc'[t] = "idle"
        \/ pc'[t] = "regDelete" /\ \E r \in preaccount_info : dest'[t] = r.addr
    BY <1>2 DEF RegSelectPre, LedgerInv, TypeInv, TypeOK
  <2>2. pc'[t] = "regDelete" => (Usable(dest[t]))'
    BY <1>0, <2>1 DEF LedgerInv, RowsUsable, Usable, Done
  <2>3. OnLedger(t)'
    BY <2>1, <2>2 DEF OnLedger, GtxLabels, InsLabels
  <2> QED
    BY <1>0, <1>2, <2>3, OwesNothing DEF RegSelectPre
<1>3. CASE RegDelete(t)
  <2>1. pc[t] = "regDelete" /\ pc'[t] \in {"idle", "regInsert"} /\ dest'[t] = dest[t]
    BY <1>3 DEF RegDelete, LedgerInv, TypeInv, TypeOK
  <2>2. Usable(dest[t])'
    BY <1>0, <2>1, DoneGrows DEF LedgerInv, OnLedger
  <2>3. OnLedger(t)'
    BY <2>1, <2>2 DEF OnLedger, GtxLabels, InsLabels
  <2> QED
    BY <1>0, <1>3, <2>3, OwesNothing DEF RegDelete
<1>4. CASE RegInsert(t)
  <2>1. pc[t] = "regInsert" /\ pc'[t] = "idle" /\ UNCHANGED <<dest, preaccount_info>>
    BY <1>4 DEF RegInsert, LedgerInv, TypeInv, TypeOK
  <2>2. Usable(dest[t])
    BY <2>1 DEF LedgerInv, OnLedger
  <2>3. \A r \in assigned' : r \in assigned \/ r.addr = dest[t]
    BY <1>4 DEF RegInsert
  <2>4. RowsUsable'
    BY <1>0, <2>1, <2>2, <2>3, DoneGrows DEF LedgerInv, RowsUsable
  <2>5. OnLedger(t)'
    BY <2>1 DEF OnLedger, GtxLabels, InsLabels
  <2> QED
    BY <1>0, <2>1, <2>4, <2>5, OthersOnLedger DEF LedgerInv
<1> QED
  BY <1>1, <1>2, <1>3, <1>4 DEF RegStep

(* insertAccountInfo2DB and insertPreAccountInfo2DB. *)
LEMMA InsLedger ==
    ASSUME LedgerInv, TypeInv', NEW t \in Thread, InsStep(t)
    PROVE  LedgerInv'
<1> USE DEF Goto, Return, Unlock, nodeVars, gtxVars, tables, poolVars
<1>1. /\ UNCHANGED <<accepted, fn, op, dest, assigned>>
      /\ \A u \in Thread \ {t} : pc'[u] = pc[u]
      /\ pc[t] \in InsLabels /\ pc'[t] \in {"insSelect", "insInsert", "idle", "again", "prepare"}
  BY DEF InsStep, InsLock, InsSelect, InsInsert, AfterInsert, InsLabels,
         LedgerInv, TypeInv, TypeOK
<1>2. op[t] # "EChain_CreateAccount" => Usable(dest[t])
  BY <1>1 DEF LedgerInv, OnLedger
<1>3. OnLedger(t)'
  BY <1>1, <1>2, DoneGrows DEF OnLedger, GtxLabels
<1>4. \A r \in preaccount_info' :
        r \in preaccount_info \/ (r.addr = dest[t] /\ op[t] # "EChain_CreateAccount")
  BY DEF InsStep, InsLock, InsSelect, InsInsert, StockRows
<1>5. RowsUsable'
  BY <1>1, <1>2, <1>4, DoneGrows DEF LedgerInv, RowsUsable
<1> QED
  BY <1>1, <1>3, <1>5, OthersOnLedger DEF LedgerInv

LEMMA LedgerInductive == LedgerInv /\ [Next]_vars => LedgerInv'
<1> SUFFICES ASSUME LedgerInv, [Next]_vars PROVE LedgerInv'
  OBVIOUS
<1>0. TypeInv /\ TypeInv'
  BY TypeInductive DEF LedgerInv
<1>1. ASSUME NEW t \in Thread, CallStep(t) PROVE LedgerInv'
  <2>1. PICK l \in {"regLock", "count", "again"} : \E f, k : Call(t, f, k, l)
    BY <1>1 DEF CallStep, EChain_UserRegister, EChain_ContractAddressCreate,
                EChain_AccountPrepare, EChain_CreateAccount
  <2>2. /\ pc'[t] = l /\ UNCHANGED <<accepted, preaccount_info, assigned, fn>>
        /\ \A u \in Thread \ {t} : pc'[u] = pc[u] /\ dest'[u] = dest[u] /\ op'[u] = op[u]
    BY <1>0, <2>1 DEF Call, Goto, nodeVars, tables, TypeInv, TypeOK
  <2>3. OnLedger(t)'
    BY <2>2 DEF OnLedger, GtxLabels, InsLabels
  <2> QED
    BY <1>0, <2>2, <2>3, OwesNothing
<1>2. ASSUME NEW t \in Thread, ThreadStep(t) PROVE LedgerInv'
  <2>1. CASE ProcessUserRegisterInfo(t) \/ ProcessContractAccountInfo(t)
    BY <1>0, <2>1, RegLedger DEF ProcessUserRegisterInfo, ProcessContractAccountInfo
  <2>2. CASE InsertAccountInfo2DB(t) \/ InsertPreAccountInfo2DB(t)
    BY <1>0, <2>2, InsLedger DEF InsertAccountInfo2DB, InsertPreAccountInfo2DB
  <2>3. CASE CreateAccountTx(t) \/ CreateAccountXTx(t) \/ ObtainAssetCode(t)
    BY <1>0, <2>3, GtxLedger DEF CreateAccountTx, CreateAccountXTx, ObtainAssetCode
  <2>4. CASE PrepareCount(t) \/ PrepareLoop(t)
    <3>1. /\ pc'[t] \in {"prepare", "again", "idle"}
          /\ UNCHANGED <<accepted, preaccount_info, assigned, fn, dest, op>>
          /\ \A u \in Thread \ {t} : pc'[u] = pc[u]
      BY <1>0, <2>4 DEF PrepareCount, PrepareLoop, Goto, Return, nodeVars, gtxVars, tables,
                        TypeInv, TypeOK
    <3>2. OnLedger(t)'
      BY <3>1 DEF OnLedger, GtxLabels, InsLabels
    <3> QED
      BY <1>0, <3>1, <3>2, OwesNothing
  <2>5. CASE NewKeyPair(t)
    <3>1. /\ \/ pc'[t] = "idle"
             \/ pc'[t] = "key" /\ fn'[t] = CreateFn(t)
          /\ UNCHANGED <<accepted, preaccount_info, assigned, op>>
          /\ \A u \in Thread \ {t} : pc'[u] = pc[u] /\ dest'[u] = dest[u] /\ fn'[u] = fn[u]
      BY <1>0, <2>5 DEF NewKeyPair, NoKeyPair, Goto, Return, nodeVars, tables, TypeInv, TypeOK
    <3>2. OnLedger(t)'
      BY <3>1 DEF OnLedger, CreateFn, GtxLabels, InsLabels, GtxFunctions
    <3> QED
      BY <1>0, <3>1, <3>2, OwesNothing
  <2>6. CASE AfterTx(t)
    <3>1. /\ UNCHANGED <<accepted, preaccount_info, assigned, dest, op>>
          /\ \A u \in Thread \ {t} : pc'[u] = pc[u] /\ fn'[u] = fn[u]
      BY <1>0, <2>6 DEF AfterTx, Goto, Return, nodeVars, tables, TypeInv, TypeOK
    <3>2. \/ pc'[t] = "idle"
          \/ /\ pc[t] = "txOk" /\ fn[t] = "EChain_CreateAccountX"
             /\ pc'[t] = "key" /\ fn'[t] = "EChain_ObtainAssetCode"
          \/ /\ pc[t] = "txOk" /\ fn[t] # "EChain_CreateAccountX"
             /\ pc'[t] = "insLock" /\ fn'[t] = fn[t]
      BY <1>0, <2>6 DEF AfterTx, Goto, Return, TypeInv, TypeOK
    <3>3. OnLedger(t)
      BY DEF LedgerInv
    <3>4. OnLedger(t)'
      BY <3>1, <3>2, <3>3, DoneGrows DEF OnLedger, GtxLabels, InsLabels, Usable, GtxFunctions
    <3> QED
      BY <1>0, <3>1, <3>4, OwesNothing
  <2> QED
    BY <1>2, <2>1, <2>2, <2>3, <2>4, <2>5, <2>6 DEF ThreadStep
<1>3. CASE Close \/ UNCHANGED vars
  BY <1>0, <1>3
     DEF Close, CloseLedger, vars, nodeVars, thread, poolVars, LedgerInv, RowsUsable,
         OnLedger, Usable, Done
<1>4. CASE Crash
  <2>1. \A t \in Thread : pc'[t] = "idle"
    BY <1>4 DEF Crash, GtxReset
  <2> QED
    BY <1>0, <1>4, <2>1
       DEF Crash, nodeVars, tables, LedgerInv, RowsUsable, OnLedger, Usable, Done,
           GtxLabels, InsLabels
<1> QED
  BY <1>1, <1>2, <1>3, <1>4 DEF Next

(***************************************************************************)
(* Every address of the stock, and every address that has an owner, was    *)
(* created on the ledger and got its tokens, however the threads overwrite *)
(* each other's g_genesisNonce.                                            *)
(***************************************************************************)
THEOREM StockIsUsable == Spec => []StockUsable
<1>1. Spec => []LedgerInv
  BY InitLedger, LedgerInductive, PTL DEF Spec
<1>2. LedgerInv => StockUsable
  BY DEF LedgerInv, RowsUsable, Usable, StockUsable
<1> QED
  BY <1>1, <1>2, PTL

-----------------------------------------------------------------------------
(***************************************************************************)
(* Accounts made by EChain_CreateAccount, when every SQL statement answers *)
(* (DbOutcomes = {"ok"}).  The mutex invariant does the work: what the     *)
(* select of insertAccountInfo2DB did not find is still not there when the *)
(* insert comes, so the address is in no row another caller was given.     *)
(***************************************************************************)

Created(t) == pc[t] = "idle" /\ ret[t] = 1 /\ op[t] = "EChain_CreateAccount"

(* CreatedIsOwn, thread by thread. *)
OwnAddress(t) ==
    /\ InRows(account_info, dest[t])
    /\ \A u \in Thread : Created(u) /\ dest[u] = dest[t] => u = t

CreatedInv ==
    /\ DbOutcomes = {"ok"}
    /\ MutexInv
    /\ \A t \in Thread : Created(t) => OwnAddress(t)

LEMMA CreatedApart == CreatedInv => CreatedIsOwn
BY DEF CreatedInv, CreatedIsOwn, Created, OwnAddress

(* A step that drops no account and lets no call return a new one. *)
LEMMA NoneCreated ==
    ASSUME CreatedInv, MutexInv', account_info \subseteq account_info',
           \A u \in Thread : Created(u)' => Created(u) /\ dest'[u] = dest[u]
    PROVE  CreatedInv'
BY DEF CreatedInv, OwnAddress, InRows

LEMMA InsCreated ==
    ASSUME CreatedInv, MutexInv', NEW t \in Thread, InsStep(t)
    PROVE  CreatedInv'
<1> USE DEF Goto, Return, Unlock, gtxVars, tables, poolVars
<1>0. UNCHANGED <<dest, op>> /\ \A u \in Thread \ {t} : pc'[u] = pc[u] /\ ret'[u] = ret[u]
  BY DEF InsStep, InsLock, InsSelect, InsInsert, AfterInsert, CreatedInv, MutexInv,
         TypeInv, TypeOK
<1>1. CASE InsLock(t)
  BY <1>0, <1>1, NoneCreated DEF InsLock, Created, CreatedInv, MutexInv, TypeInv, TypeOK
<1>2. CASE InsSelect(t)
  <2>1. op[t] = "EChain_CreateAccount" => pc'[t] # "idle"
    BY <1>2 DEF InsSelect, AfterInsert, CreatedInv, MutexInv, TypeInv, TypeOK
  <2> QED
    BY <1>0, <1>2, <2>1, NoneCreated DEF InsSelect, Created
<1>3. CASE InsInsert(t) /\ op[t] # "EChain_CreateAccount"
  <2>1. account_info' = account_info
    BY <1>3 DEF InsInsert
  <2> QED
    BY <1>0, <1>3, <2>1, NoneCreated DEF Created
<1>4. CASE InsInsert(t) /\ op[t] = "EChain_CreateAccount"
  <2> DEFINE row == [id |-> nextId, addr |-> dest[t]]
  <2>1. account_info' = account_info \cup {row}
    BY <1>4 DEF InsInsert, StockRows, CreatedInv
  <2>2. ~ InRows(account_info, dest[t])
    BY <1>4 DEF InsInsert, CreatedInv, MutexInv, NotStocked, StockRows
  <2>3. \A u \in Thread \ {t} : Created(u)' => Created(u) /\ dest'[u] = dest[u]
    BY <1>0 DEF Created
  <2>4. \A u \in Thread : Created(u) => OwnAddress(u)
    BY DEF CreatedInv
  <2>5. InRows(account_info', dest'[t])
    <3>1. row \in account_info' /\ row.addr = dest'[t]
      BY <1>0, <2>1
    <3> QED
      BY <3>1 DEF InRows
  <2> HIDE DEF row
  <2>6. \A u \in Thread \ {t} : Created(u)' => dest'[u] # dest'[t]
    BY <1>0, <2>2, <2>3, <2>4 DEF InRows, OwnAddress
  <2>7. \A u \in Thread \ {t} : Created(u)' => InRows(account_info', dest'[u])
    BY <2>1, <2>3, <2>4 DEF InRows, OwnAddress
  <2>8. \A u \in Thread : Created(u)' => OwnAddress(u)'
    BY <1>0, <2>3, <2>4, <2>5, <2>6, <2>7 DEF OwnAddress
  <2> QED
    BY <2>8 DEF CreatedInv
<1> QED
  BY <1>1, <1>2, <1>3, <1>4 DEF InsStep

LEMMA CreatedInductive == CreatedInv /\ [Next]_vars => CreatedInv'
<1> SUFFICES ASSUME CreatedInv, [Next]_vars PROVE CreatedInv'
  OBVIOUS
<1>0. MutexInv /\ MutexInv' /\ TypeInv
  BY MutexInductive DEF CreatedInv, MutexInv
<1>1. ASSUME NEW t \in Thread, CallStep(t) PROVE CreatedInv'
  <2>1. PICK l \in {"regLock", "count", "again"} : \E f, k : Call(t, f, k, l)
    BY <1>1 DEF CallStep, EChain_UserRegister, EChain_ContractAddressCreate,
                EChain_AccountPrepare, EChain_CreateAccount
  <2>2. /\ pc'[t] # "idle" /\ account_info' = account_info
        /\ \A u \in Thread \ {t} : /\ pc'[u] = pc[u] /\ dest'[u] = dest[u]
                                   /\ op'[u] = op[u] /\ ret'[u] = ret[u]
    BY <1>0, <2>1 DEF Call, Goto, tables, TypeInv, TypeOK
  <2> QED
    BY <1>0, <2>2, NoneCreated DEF Created
<1>2. ASSUME NEW t \in Thread, ThreadStep(t) PROVE CreatedInv'
  <2>0. ASSUME account_info' = account_info, op' = op,
               \A u \in Thread \ {t} : pc'[u] = pc[u] /\ dest'[u] = dest[u] /\ ret'[u] = ret[u],
               \/ pc'[t] # "idle" \/ ret'[t] = -1 \/ op[t] # "EChain_CreateAccount"
        PROVE  CreatedInv'
    BY <1>0, <2>0, NoneCreated DEF Created
  <2>1. CASE ProcessUserRegisterInfo(t) \/ ProcessContractAccountInfo(t)
    <3>1. RegStep(t) /\ op[t] # "EChain_CreateAccount"
      BY <2>1 DEF ProcessUserRegisterInfo, ProcessContractAccountInfo
    <3> QED
      BY <1>0, <2>0, <3>1
         DEF RegStep, RegLock, RegSelect, RegSelectPre, RegDelete, RegInsert, Goto, Return,
             gtxVars, tables, poolVars, TypeInv, TypeOK
  <2>2. CASE InsertAccountInfo2DB(t) \/ InsertPreAccountInfo2DB(t)
    BY <1>0, <2>2, InsCreated DEF InsertAccountInfo2DB, InsertPreAccountInfo2DB
  <2>3. ASSUME NEW f, GtxStep(t, f), UNCHANGED poolVars PROVE CreatedInv'
    <3>1. PICK l \in GtxLabels : pc' = [pc EXCEPT ![t] = l]
      BY <1>0, <2>3, TypeIsGtxOK, GtxFrame
    <3>2. UNCHANGED dest
      BY <1>0, <2>3, TypeIsGtxOK, GtxFrame
    <3>3. pc'[t] # "idle"
      BY <1>0, <3>1 DEF GtxLabels, TypeInv, TypeOK
    <3> QED
      BY <1>0, <2>0, <2>3, <3>1, <3>2, <3>3 DEF poolVars
  <2>4. CASE PrepareCount(t) \/ PrepareLoop(t)
    <3>1. op[t] = "EChain_AccountPrepare"
      BY <1>0, <2>4 DEF PrepareCount, PrepareLoop, TypeInv, Located
    <3> QED
      BY <1>0, <2>0, <2>4, <3>1
         DEF PrepareCount, PrepareLoop, Goto, Return, gtxVars, tables, TypeInv, TypeOK
  <2>5. CASE NewKeyPair(t)
    BY <1>0, <2>0, <2>5 DEF NewKeyPair, NoKeyPair, Goto, Return, tables, TypeInv, TypeOK
  <2>6. CASE AfterTx(t)
    BY <1>0, <2>0, <2>6 DEF AfterTx, Goto, Return, tables, TypeInv, TypeOK
  <2> QED
    BY <1>2, <2>1, <2>2, <2>3, <2>4, <2>5, <2>6
       DEF ThreadStep, CreateAccountTx, CreateAccountXTx, ObtainAssetCode
<1>3. CASE Close \/ UNCHANGED vars
  BY <1>0, <1>3, NoneCreated DEF Close, vars, thread, poolVars, Created
<1>4. CASE Crash
  <2>1. \A t \in Thread : op'[t] # "EChain_CreateAccount"
    BY <1>4, PoolAssumption DEF Crash, PoolFunctions
  <2> QED
    BY <1>0, <1>4, <2>1, NoneCreated DEF Crash, tables, Created
<1> QED
  BY <1>1, <1>2, <1>3, <1>4 DEF Next

(***************************************************************************)
(* With a database that answers, every address EChain_CreateAccount has    *)
(* returned is in account_info and no two calls were given the same one,   *)
(* also when the node generates a key pair again.                          *)
(***************************************************************************)
THEOREM CreatedAddressIsOwn == DbOutcomes = {"ok"} /\ Spec => []CreatedIsOwn
<1>1. ASSUME Init, NEW t \in Thread PROVE ~ Created(t)
  BY <1>1, PoolAssumption DEF Init, PoolFunctions, Created
<1>2. DbOutcomes = {"ok"} /\ Init => CreatedInv
  BY <1>1, InitMutex DEF CreatedInv
<1>3. DbOutcomes = {"ok"} /\ Spec => []CreatedInv
  BY <1>2, CreatedInductive, PTL DEF Spec
<1> QED
  BY <1>3, CreatedApart, PTL

-----------------------------------------------------------------------------
(***************************************************************************)
(* Nothing is created or paid twice, when the node never generates an      *)
(* address twice (RepeatUntil = 0).  An address being created is in the    *)
(* hands of one thread (HeldApart), and that thread leaves the nonce loop  *)
(* with the first submission that the ledger accepts, whatever becomes of  *)
(* the answer.                                                             *)
(***************************************************************************)

Sending == GtxLabels \ {"txOk", "txErr"}

(* The transaction t is trying to submit is not on the ledger. *)
Unsent(t) == pc[t] \in Sending => \A x \in accepted : x.body # TxBody(t)

(* An account still to be paid has not been paid. *)
Unpaid(t) ==
    pc[t] \in Sending \cup {"txOk"} /\ fn[t] # "EChain_ObtainAssetCode" =>
        \A x \in accepted : x.body.dest = dest[t] => x.body.op # "pay"

(* Every transaction is about an address the node has generated. *)
SentIssued == \A x \in accepted : x.body.dest \in issued

OnceInv ==
    /\ OwnerInv
    /\ SentIssued
    /\ \A t \in Thread : Unsent(t) /\ Unpaid(t)
    /\ CreatedOnce

(* A step that sends nothing and lets no thread start. *)
LEMMA SendsNothing ==
    ASSUME OnceInv, OwnerInv', UNCHANGED accepted, issued \subseteq issued',
           \A u \in Thread :
               \/ pc'[u] \notin Sending \cup {"txOk"}
               \/ /\ pc'[u] \in Sending => pc[u] \in Sending
                  /\ pc'[u] = "txOk" => pc[u] \in Sending \cup {"txOk"}
                  /\ dest'[u] = dest[u] /\ fn'[u] = fn[u]
    PROVE  OnceInv'
<1>1. \A u \in Thread : Unsent(u)' /\ Unpaid(u)'
  BY DEF OnceInv, Unsent, Unpaid, TxBody
<1> QED
  BY <1>1 DEF OnceInv, SentIssued, CreatedOnce

(* submitTransaction: a transaction that gets onto the ledger ends the      *)
(* loop.                                                                    *)
LEMMA SendsOnce ==
    ASSUME TypeInv, NEW t \in Thread, SubmitTx(t)
    PROVE  \/ UNCHANGED accepted
           \/ /\ accepted' = accepted \cup
                     {[src |-> Genesis, nonce |-> nn[t], body |-> TxBody(t)]}
              /\ pc'[t] \in {"txOk", "txErr"}
<1> DEFINE code == SubmitCode(Genesis, nn[t], TxCost(t))
<1>1. PICK o \in NetOutcomes :
        /\ IF o \in {"fail", "reject"}
           THEN UNCHANGED nodeVars
           ELSE Submit(Genesis, nn[t], TxBody(t), TxCost(t))
        /\ Goto(t, AfterSubmit(fn[t], o, code))
  BY DEF SubmitTx
<1>2. pc'[t] = AfterSubmit(fn[t], o, code)
  BY <1>1 DEF Goto, TypeInv, TypeOK
<1>3. code = 0 => AfterSubmit(fn[t], o, code) \in {"txOk", "txErr"}
  BY DEF AfterSubmit
<1>4. code # 0 => UNCHANGED accepted
  BY <1>1 DEF Submit, nodeVars
<1>5. code = 0 => \/ UNCHANGED accepted
                  \/ accepted' = accepted \cup
                       {[src |-> Genesis, nonce |-> nn[t], body |-> TxBody(t)]}
  BY <1>1 DEF Submit, nodeVars
<1> HIDE DEF code
<1> QED
  BY <1>2, <1>3, <1>4, <1>5

LEMMA SubmitOnce ==
    ASSUME OnceInv, OwnerInv', NEW t \in Thread, SubmitTx(t), UNCHANGED poolVars
    PROVE  OnceInv'
<1> DEFINE tx == [src |-> Genesis, nonce |-> nn[t], body |-> TxBody(t)]
<1>0. TypeInv
  BY DEF OnceInv, OwnerInv, MutexInv
<1>1. /\ UNCHANGED <<dest, fn, issued>>
      /\ \A u \in Thread \ {t} : pc'[u] = pc[u]
      /\ pc[t] \in Sending
  BY <1>0 DEF SubmitTx, Goto, poolVars, Sending, GtxLabels, TypeInv, TypeOK
<1>2. CASE UNCHANGED accepted
  BY <1>1, <1>2, SendsNothing
<1>3. CASE accepted' = accepted \cup {tx} /\ pc'[t] \in {"txOk", "txErr"}
  <2>1. /\ tx.body = TxBody(t) /\ TxBody(t).dest = dest[t]
        /\ TxBody(t).op = "pay" => fn[t] = "EChain_ObtainAssetCode"
        /\ \A u \in Thread : TxBody(u)' = TxBody(u) /\ TxBody(u).dest = dest[u]
    BY <1>1 DEF TxBody
  <2>2. \A u \in Thread \ {t} : pc[u] \in Sending \cup {"txOk"} => dest[u] # dest[t]
    BY <1>1 DEF OnceInv, OwnerInv, HeldApart, Holds, HoldLabels, Sending, GtxLabels
  <2>3. dest[t] \in issued
    BY <1>1 DEF OnceInv, OwnerInv, HeldLoose, Loose, Holds, HoldLabels, Sending
  <2> HIDE DEF tx
  <2>4. SentIssued'
    BY <1>1, <1>3, <2>1, <2>3 DEF OnceInv, SentIssued
  <2>5. CreatedOnce'
    BY <1>1, <1>3, <2>1 DEF OnceInv, CreatedOnce, Unsent
  <2>6. pc'[t] \notin Sending
    BY <1>3 DEF Sending
  <2>7. \A u \in Thread : Unsent(u)'
    BY <1>1, <1>3, <2>1, <2>2, <2>6 DEF OnceInv, Unsent
  <2>8. \A u \in Thread : Unpaid(u)'
    BY <1>1, <1>3, <2>1, <2>2 DEF OnceInv, Unpaid
  <2> QED
    BY <2>4, <2>5, <2>7, <2>8 DEF OnceInv
<1> QED
  BY <1>0, <1>2, <1>3, SendsOnce

LEMMA OnceInductive == OnceInv /\ [Next]_vars => OnceInv'
<1> SUFFICES ASSUME OnceInv, [Next]_vars PROVE OnceInv'
  OBVIOUS
<1>0. OwnerInv /\ OwnerInv' /\ TypeInv
  BY OwnerInductive DEF OnceInv, OwnerInv, MutexInv
<1> USE DEF Sending, GtxLabels
<1>1. ASSUME NEW t \in Thread, CallStep(t) PROVE OnceInv'
  <2>1. PICK l \in {"regLock", "count", "again"} : \E f, k : Call(t, f, k, l)
    BY <1>1 DEF CallStep, EChain_UserRegister, EChain_ContractAddressCreate,
                EChain_AccountPrepare, EChain_CreateAccount
  <2>2. /\ pc'[t] = l /\ UNCHANGED <<accepted, issued, fn>>
        /\ \A u \in Thread \ {t} : pc'[u] = pc[u] /\ dest'[u] = dest[u]
    BY <1>0, <2>1 DEF Call, Goto, nodeVars, TypeInv, TypeOK
  <2> QED
    BY <1>0, <2>2, SendsNothing
<1>2. ASSUME NEW t \in Thread, ThreadStep(t) PROVE OnceInv'
  <2>0. ASSUME UNCHANGED <<accepted, issued>>, pc'[t] \notin Sending \cup {"txOk"},
               \A u \in Thread \ {t} :
                   pc'[u] = pc[u] /\ dest'[u] = dest[u] /\ fn'[u] = fn[u]
        PROVE  OnceInv'
    BY <1>0, <2>0, SendsNothing
  <2>1. CASE ProcessUserRegisterInfo(t) \/ ProcessContractAccountInfo(t)
    <3>1. RegStep(t)
      BY <2>1 DEF ProcessUserRegisterInfo, ProcessContractAccountInfo
    <3> QED
      BY <1>0, <2>0, <3>1
         DEF RegStep, RegLock, RegSelect, RegSelectPre, RegDelete, RegInsert, Goto, Return,
             nodeVars, gtxVars, tables, poolVars, TypeInv, TypeOK
  <2>2. CASE InsertAccountInfo2DB(t) \/ InsertPreAccountInfo2DB(t)
    <3>1. InsStep(t)
      BY <2>2 DEF InsertAccountInfo2DB, InsertPreAccountInfo2DB
    <3> QED
      BY <1>0, <2>0, <3>1
         DEF InsStep, InsLock, InsSelect, InsInsert, AfterInsert, Goto, Return,
             nodeVars, gtxVars, tables, poolVars, TypeInv, TypeOK
  <2>3. ASSUME NEW f, GtxStep(t, f), UNCHANGED poolVars PROVE OnceInv'
    <3>1. CASE SubmitTx(t)
      BY <1>0, <2>3, <3>1, SubmitOnce
    <3>2. CASE ~ SubmitTx(t)
      <4>1. /\ UNCHANGED accepted /\ pc[t] \in Sending /\ pc'[t] # "txOk"
            /\ \A u \in Thread \ {t} : pc'[u] = pc[u]
        BY <1>0, <2>3, <3>2
           DEF GtxStep, GetKey, Fetch, Store, Recheck, Blob, Incr, IncrWrite, nodeVars, Goto,
               TypeInv, TypeOK
      <4>2. UNCHANGED <<dest, fn>>
        BY <1>0, <2>3, TypeIsGtxOK, GtxFrame
      <4> QED
        BY <1>0, <2>3, <4>1, <4>2, SendsNothing DEF poolVars
    <3> QED
      BY <3>1, <3>2
  <2>4. CASE PrepareCount(t) \/ PrepareLoop(t)
    BY <1>0, <2>0, <2>4
       DEF PrepareCount, PrepareLoop, Goto, Return, nodeVars, gtxVars, tables, TypeInv, TypeOK
  <2>5. CASE NewKeyPair(t) /\ NoKeyPair(t)
    BY <1>0, <2>0, <2>5 DEF NewKeyPair, NoKeyPair, Goto, Return, nodeVars, TypeInv, TypeOK
  <2>6. CASE NewKeyPair(t) /\ ~ NoKeyPair(t)
    <3>1. PICK a \in KeyPairs : dest' = [dest EXCEPT ![t] = a] /\ issued' = issued \cup {a}
                                /\ fn' = [fn EXCEPT ![t] = CreateFn(t)] /\ Goto(t, "key")
      BY <2>6 DEF NewKeyPair
    <3>2. a \notin issued
      BY <1>0, <3>1, NodeAssumption DEF KeyPairs, OwnerInv, TypeInv, TypeOK
    <3>3. /\ pc'[t] = "key" /\ dest'[t] = a /\ UNCHANGED accepted
          /\ \A u \in Thread \ {t} : pc'[u] = pc[u] /\ dest'[u] = dest[u] /\ fn'[u] = fn[u]
      BY <1>0, <2>6, <3>1 DEF NewKeyPair, nodeVars, Goto, TypeInv, TypeOK
    <3>4. \A x \in accepted : x.body.dest # a
      BY <3>2 DEF OnceInv, SentIssued
    <3>5. \A u \in Thread : Unsent(u)' /\ Unpaid(u)'
      <4>1. Unsent(t)' /\ Unpaid(t)'
        BY <3>3, <3>4 DEF Unsent, Unpaid, TxBody
      <4>2. \A u \in Thread \ {t} : Unsent(u)' /\ Unpaid(u)'
        BY <3>3 DEF OnceInv, Unsent, Unpaid, TxBody
      <4> QED
        BY <4>1, <4>2
    <3> QED
      BY <1>0, <3>1, <3>3, <3>5 DEF OnceInv, SentIssued, CreatedOnce
  <2>7. CASE AfterTx(t)
    <3>1. /\ UNCHANGED <<accepted, dest, issued>>
          /\ \A u \in Thread \ {t} : pc'[u] = pc[u] /\ fn'[u] = fn[u]
      BY <1>0, <2>7 DEF AfterTx, Goto, Return, nodeVars, TypeInv, TypeOK
    <3>2. \/ pc'[t] \in {"idle", "insLock"}
          \/ /\ pc[t] = "txOk" /\ fn[t] = "EChain_CreateAccountX"
             /\ pc'[t] = "key" /\ fn'[t] = "EChain_ObtainAssetCode"
      BY <1>0, <2>7 DEF AfterTx, Goto, Return, TypeInv, TypeOK
    <3>3. CASE pc'[t] \in {"idle", "insLock"}
      BY <2>0, <3>1, <3>3
    <3>4. CASE /\ pc[t] = "txOk" /\ fn[t] = "EChain_CreateAccountX"
               /\ pc'[t] = "key" /\ fn'[t] = "EChain_ObtainAssetCode"
      <4>1. Unsent(t)' /\ Unpaid(t)'
        <5>1. \A x \in accepted : x.body.dest = dest[t] => x.body.op # "pay"
          BY <3>4 DEF OnceInv, Unpaid
        <5>2. (TxBody(t).op = "pay" /\ TxBody(t).dest = dest[t])'
          BY <3>4 DEF TxBody
        <5> QED
          BY <3>1, <3>4, <5>1, <5>2 DEF Unsent, Unpaid
      <4>2. \A u \in Thread \ {t} : Unsent(u)' /\ Unpaid(u)'
        BY <3>1 DEF OnceInv, Unsent, Unpaid, TxBody
      <4> QED
        BY <1>0, <3>1, <4>1, <4>2 DEF OnceInv, SentIssued, CreatedOnce
    <3> QED
      BY <3>2, <3>3, <3>4
  <2> QED
    BY <1>2, <2>1, <2>2, <2>3, <2>4, <2>5, <2>6, <2>7
       DEF ThreadStep, CreateAccountTx, CreateAccountXTx, ObtainAssetCode
<1>3. CASE Close \/ UNCHANGED vars
  BY <1>0, <1>3, SendsNothing
     DEF Close, CloseLedger, vars, nodeVars, thread, poolVars
<1>4. CASE Crash
  <2>1. UNCHANGED <<accepted, issued>> /\ \A t \in Thread : pc'[t] = "idle"
    BY <1>4 DEF Crash, GtxReset, nodeVars
  <2> QED
    BY <1>0, <2>1, SendsNothing
<1> QED
  BY <1>1, <1>2, <1>3, <1>4 DEF Next

(***************************************************************************)
(* No address is created or paid a second time by the nonce loops of       *)
(* EChain_CreateAccount, EChain_CreateAccountX and EChain_ObtainAssetCode, *)
(* although answers get lost and threads overwrite each other's            *)
(* g_genesisNonce.                                                         *)
(***************************************************************************)
THEOREM CreatedAndPaidOnce == RepeatUntil = 0 /\ Spec => []CreatedOnce
<1>1. ASSUME Init PROVE SentIssued /\ CreatedOnce /\ \A t \in Thread : Unsent(t) /\ Unpaid(t)
  BY <1>1 DEF Init, NodeInit, SentIssued, CreatedOnce, Unsent, Unpaid
<1>2. RepeatUntil = 0 /\ Init => OnceInv
  BY <1>1, InitOwner DEF OnceInv
<1>3. RepeatUntil = 0 /\ Spec => []OnceInv
  BY <1>2, OnceInductive, PTL DEF Spec
<1>4. OnceInv => CreatedOnce
  BY DEF OnceInv
<1> QED
  BY <1>3, <1>4, PTL

-----------------------------------------------------------------------------
(***************************************************************************)
(* How far the stock can overshoot Target, when no SQL statement is        *)
(* executed without an answer ("lost" is not an outcome; "fail" may be).   *)
(* A thread that has counted the rows may still insert one row for each    *)
(* value of i from cnt[t] to Target - 1; Tickets is the set of inserts     *)
(* that all threads still have a right to.  An insert uses a ticket up,    *)
(* and a count hands out no more than Target - iCount.                     *)
(***************************************************************************)

Counted(t) == op[t] = "EChain_AccountPrepare" /\ pc[t] \notin {"idle", "count"}
Slots == Thread \X (1 .. Target)
Tickets == {s \in Slots : Counted(s[1]) /\ s[2] > cnt[s[1]]}

(* Inside the loop there is a ticket left. *)
InLoop(t) == Counted(t) /\ pc[t] # "prepare" => cnt[t] < Target

(* The rows there are, and those that may still come. *)
Claims == Cardinality(preaccount_info) + Cardinality(Tickets)

BoundInv ==
    /\ IsFiniteSet(Thread) /\ "lost" \notin DbOutcomes
    /\ TypeInv
    /\ \A t \in Thread : InLoop(t)
    /\ Claims <= Cardinality(Prepared) \/ Claims <= Target * Cardinality(Thread)

LEMMA SlotsFinite ==
    ASSUME IsFiniteSet(Thread)
    PROVE  /\ IsFiniteSet(Slots) /\ Cardinality(Slots) = Target * Cardinality(Thread)
           /\ Cardinality(Thread) \in Nat
           /\ \A S \in SUBSET Slots : /\ IsFiniteSet(S) /\ Cardinality(S) \in Nat
                                      /\ Cardinality(S) <= Cardinality(Slots)
<1>1. IsFiniteSet(1 .. Target) /\ Cardinality(1 .. Target) = Target
  BY FS_Interval, PoolAssumption
<1>2. Cardinality(Thread) \in Nat
  BY FS_CardinalityType
<1>3. IsFiniteSet(Slots) /\ Cardinality(Slots) = Cardinality(Thread) * Cardinality(1 .. Target)
  BY <1>1, FS_Product DEF Slots
<1>4. Cardinality(Slots) = Target * Cardinality(Thread)
  BY <1>1, <1>2, <1>3, PoolAssumption
<1> QED
  BY <1>2, <1>3, <1>4, FS_Subset, FS_CardinalityType

LEMMA BoundTypes ==
    ASSUME IsFiniteSet(Thread), TypeInv
    PROVE  /\ Cardinality(preaccount_info) \in Nat
           /\ IsFiniteSet(Tickets) /\ Cardinality(Tickets) \in Nat
<1>1. Tickets \in SUBSET Slots
  BY DEF Tickets
<1> QED
  BY <1>1, SlotsFinite, FS_CardinalityType DEF TypeInv, FiniteTables

LEMMA PreparedCount ==
    /\ Cardinality(Prepared) \in Nat
    /\ Cardinality({[id |-> 0, addr |-> a] : a \in Prepared}) <= Cardinality(Prepared)
<1> DEFINE S == {[id |-> 0, addr |-> a] : a \in Prepared}
           f == [r \in S |-> r.addr]
<1>1. f \in [S -> Prepared]
  OBVIOUS
<1>2. \A r, s \in S : f[r] = f[s] => r = s
  OBVIOUS
<1>3. f \in Injection(S, Prepared)
  BY <1>1, <1>2 DEF Injection, IsInjective
<1>4. IsFiniteSet(Prepared)
  BY FS_Subset, PoolAssumption
<1> QED
  BY <1>3, <1>4, FS_Injection, FS_CardinalityType

(* A step that adds no row and no ticket. *)
LEMMA ClaimsNothing ==
    ASSUME BoundInv, TypeInv', preaccount_info' \subseteq preaccount_info,
           \A u \in Thread : Counted(u)' => Counted(u) /\ cnt'[u] = cnt[u],
           \A u \in Thread : InLoop(u)'
    PROVE  BoundInv'
<1>1. Tickets' \in SUBSET Tickets
  BY DEF Tickets, Slots
<1>2. /\ IsFiniteSet(Thread) /\ TypeInv
      /\ IsFiniteSet(Tickets) /\ IsFiniteSet(preaccount_info)
  BY BoundTypes DEF BoundInv, TypeInv, FiniteTables
<1>3. Cardinality(Tickets') <= Cardinality(Tickets)
  BY <1>1, <1>2, FS_Subset
<1>4. Cardinality(preaccount_info') <= Cardinality(preaccount_info)
  BY <1>2, FS_Subset
<1>5. /\ Cardinality(Tickets) \in Nat /\ Cardinality(Tickets') \in Nat
      /\ Cardinality(preaccount_info) \in Nat /\ Cardinality(preaccount_info') \in Nat
      /\ Cardinality(Prepared) \in Nat /\ Target * Cardinality(Thread) \in Nat
  <2>1. Cardinality(Tickets) \in Nat /\ Cardinality(preaccount_info) \in Nat
    BY <1>2, BoundTypes
  <2>2. Cardinality(Tickets') \in Nat /\ Cardinality(preaccount_info') \in Nat
    BY <1>1, <1>2, FS_Subset, FS_CardinalityType
  <2>3. Target * Cardinality(Thread) \in Nat
    BY <1>2, SlotsFinite, PoolAssumption
  <2> QED
    BY <2>1, <2>2, <2>3, PreparedCount
<1>6. Claims' <= Claims
  BY <1>3, <1>4, <1>5 DEF Claims
<1>7. Claims \in Nat /\ Claims' \in Nat
  BY <1>5 DEF Claims
<1> QED
  BY <1>5, <1>6, <1>7 DEF BoundInv

(* The count: with what t may add it promises at most Target rows. *)
LEMMA CountClaims ==
    ASSUME BoundInv, TypeInv', NEW t \in Thread, PrepareCount(t),
           pc' = [pc EXCEPT ![t] = "prepare"],
           cnt' = [cnt EXCEPT ![t] = Cardinality(preaccount_info)]
    PROVE  BoundInv'
<1> DEFINE p == Cardinality(preaccount_info)
           S == {s \in Slots : s[1] = t /\ s[2] <= p}
           N == Target * Cardinality(Thread)
<1>0. TypeInv /\ IsFiniteSet(Thread)
  BY DEF BoundInv
<1>1. /\ pc'[t] = "prepare" /\ cnt'[t] = p
      /\ \A u \in Thread \ {t} : pc'[u] = pc[u] /\ cnt'[u] = cnt[u]
      /\ UNCHANGED <<preaccount_info, op>> /\ pc[t] = "count"
  BY <1>0 DEF PrepareCount, tables, TypeInv, TypeOK
<1>2. \A u \in Thread : InLoop(u)'
  BY <1>1 DEF BoundInv, InLoop, Counted
<1>3. /\ p \in Nat /\ N \in Nat /\ Cardinality(Prepared) \in Nat
      /\ Cardinality(Tickets) \in Nat /\ Cardinality(Tickets') \in Nat
  <2>1. Tickets \in SUBSET Slots /\ Tickets' \in SUBSET Slots
    BY DEF Tickets, Slots
  <2> QED
    BY <1>0, <2>1, BoundTypes, SlotsFinite, PoolAssumption, PreparedCount
<1>4. CASE p < Target
  <2>1. S \in SUBSET Slots /\ Tickets' \in SUBSET Slots
    BY DEF Tickets, Slots
  <2>2. S \cap Tickets' = {}
    <3>1. ASSUME NEW s \in S, s \in Tickets' PROVE FALSE
      <4>1. s[1] = t /\ s[2] <= p /\ s[2] > cnt'[t] /\ s[2] \in Nat
        BY <3>1, PoolAssumption DEF Tickets, Slots
      <4> HIDE DEF p
      <4> QED
        BY <1>1, <1>3, <4>1
    <3> QED
      BY <3>1
  <2>3. Cardinality(S) = p
    <3>1. S = {t} \X (1 .. p)
      BY <1>3, <1>4, PoolAssumption DEF Slots
    <3>2. IsFiniteSet({t}) /\ Cardinality({t}) = 1
      BY FS_Singleton
    <3>3. IsFiniteSet(1 .. p) /\ Cardinality(1 .. p) = p
      BY <1>3, FS_Interval
    <3>4. Cardinality(S) = Cardinality({t}) * Cardinality(1 .. p)
      BY <3>1, <3>2, <3>3, FS_Product
    <3> HIDE DEF p, S
    <3> QED
      BY <1>3, <3>2, <3>3, <3>4
  <2>4. Cardinality(S \cup Tickets') = Cardinality(S) + Cardinality(Tickets')
    <3>1. IsFiniteSet(S) /\ IsFiniteSet(Tickets')
      BY <1>0, <2>1, SlotsFinite
    <3>2. Cardinality(S \cap Tickets') = 0
      BY <2>2, FS_EmptySet
    <3>3. Cardinality(S) \in Nat /\ Cardinality(S \cup Tickets') \in Nat
      BY <3>1, FS_Union, FS_CardinalityType
    <3>4. Cardinality(S \cup Tickets')
            = Cardinality(S) + Cardinality(Tickets') - Cardinality(S \cap Tickets')
      BY <3>1, FS_Union
    <3> HIDE DEF S
    <3> QED
      BY <1>3, <3>2, <3>3, <3>4
  <2>5. Cardinality(S \cup Tickets') <= N
    <3>1. S \cup Tickets' \in SUBSET Slots
      BY <2>1
    <3> HIDE DEF S
    <3> QED
      BY <1>0, <3>1, SlotsFinite
  <2>6. Claims' <= N
    <3> HIDE DEF S, N
    <3> QED
      BY <1>1, <1>3, <2>3, <2>4, <2>5 DEF Claims
  <2> QED
    BY <1>2, <2>6 DEF BoundInv
<1>5. CASE ~ (p < Target)
  <2>1. Tickets' = Tickets
    <3>1. \A s \in Slots : s[2] <= Target /\ s[2] \in Nat /\ s[1] \in Thread
      BY PoolAssumption DEF Slots
    <3>2. \A s \in Slots : (Counted(s[1]) /\ s[2] > cnt[s[1]])' <=> (Counted(s[1]) /\ s[2] > cnt[s[1]])
      BY <1>1, <1>3, <1>5, <3>1, PoolAssumption DEF Counted
    <3> QED
      BY <3>2 DEF Tickets, Slots
  <2>2. Claims' = Claims
    BY <1>1, <2>1 DEF Claims
  <2> QED
    BY <1>2, <2>2 DEF BoundInv
<1> QED
  BY <1>4, <1>5

(* The insert that prepares one more account uses up a ticket. *)
LEMMA InsertClaims ==
    ASSUME BoundInv, TypeInv', NEW t \in Thread, op[t] = "EChain_AccountPrepare",
           UNCHANGED op,
           pc[t] = "insInsert", pc' = [pc EXCEPT ![t] = "prepare"],
           cnt' = [cnt EXCEPT ![t] = @ + 1],
           NEW row, preaccount_info' = preaccount_info \cup {row}
    PROVE  BoundInv'
<1> DEFINE s0 == <<t, cnt[t] + 1>>
<1>0. TypeInv /\ IsFiniteSet(Thread)
  BY DEF BoundInv
<1>1. /\ pc'[t] = "prepare" /\ cnt'[t] = cnt[t] + 1 /\ cnt[t] \in Nat
      /\ \A u \in Thread \ {t} : pc'[u] = pc[u] /\ cnt'[u] = cnt[u] /\ cnt[u] \in Nat
  BY <1>0 DEF TypeInv, TypeOK
<1>2. \A u \in Thread : InLoop(u)'
  BY <1>1 DEF BoundInv, InLoop, Counted
<1>3. Counted(t) /\ Counted(t)' /\ cnt[t] < Target
  BY <1>1 DEF BoundInv, InLoop, Counted
<1>4. s0 \in Tickets
  BY <1>1, <1>3, PoolAssumption DEF Tickets, Slots
<1>5. Tickets' \subseteq Tickets \ {s0}
  <2>1. ASSUME NEW s \in Tickets' PROVE s \in Tickets /\ s # s0
    <3>1. /\ s \in Slots /\ s[1] \in Thread /\ s[2] \in Nat
          /\ Counted(s[1])' /\ s[2] > cnt'[s[1]]
      BY <2>1, PoolAssumption DEF Tickets, Slots
    <3>2. CASE s[1] = t
      BY <1>1, <1>3, <3>1, <3>2 DEF Tickets
    <3>3. CASE s[1] # t
      BY <1>1, <3>1, <3>3 DEF Tickets, Counted
    <3> QED
      BY <3>2, <3>3
  <2> QED
    BY <2>1
<1>6. IsFiniteSet(Tickets) /\ Cardinality(Tickets) \in Nat
  BY <1>0, BoundTypes
<1>7. /\ IsFiniteSet(Tickets \ {s0})
      /\ Cardinality(Tickets \ {s0}) = Cardinality(Tickets) - 1
  BY <1>4, <1>6, FS_RemoveElement
<1>8. Cardinality(Tickets') \in Nat /\ Cardinality(Tickets') <= Cardinality(Tickets \ {s0})
  <2> HIDE DEF s0
  <2> QED
    BY <1>5, <1>7, FS_Subset, FS_CardinalityType
<1>9. /\ Cardinality(preaccount_info) \in Nat /\ Cardinality(preaccount_info') \in Nat
      /\ Cardinality(preaccount_info') <= Cardinality(preaccount_info) + 1
  <2>1. IsFiniteSet(preaccount_info)
    BY <1>0 DEF TypeInv, FiniteTables
  <2>2. Cardinality(preaccount_info) \in Nat
    BY <2>1, FS_CardinalityType
  <2>3. \/ Cardinality(preaccount_info') = Cardinality(preaccount_info)
        \/ Cardinality(preaccount_info') = Cardinality(preaccount_info) + 1
    BY <2>1, FS_AddElement
  <2> QED
    BY <2>2, <2>3
<1>10. Claims' <= Claims /\ Claims \in Nat /\ Claims' \in Nat
  <2> HIDE DEF s0
  <2> QED
    BY <1>6, <1>7, <1>8, <1>9 DEF Claims
<1>11. Cardinality(Prepared) \in Nat /\ Target * Cardinality(Thread) \in Nat
  BY <1>0, SlotsFinite, PreparedCount, PoolAssumption
<1> QED
  BY <1>2, <1>10, <1>11 DEF BoundInv

LEMMA BoundInductive == BoundInv /\ [Next]_vars => BoundInv'
<1> SUFFICES ASSUME BoundInv, [Next]_vars PROVE BoundInv'
  OBVIOUS
<1>0. TypeInv /\ TypeInv'
  BY TypeInductive DEF BoundInv
<1>1. ASSUME NEW t \in Thread, CallStep(t) PROVE BoundInv'
  <2>1. PICK f, k, l : /\ Call(t, f, k, l)
                       /\ f = "EChain_AccountPrepare" => l = "count"
    BY <1>1 DEF CallStep, EChain_UserRegister, EChain_ContractAddressCreate,
                EChain_AccountPrepare, EChain_CreateAccount
  <2>2. /\ op'[t] = f /\ pc'[t] = l /\ UNCHANGED preaccount_info
        /\ \A u \in Thread \ {t} : pc'[u] = pc[u] /\ op'[u] = op[u] /\ cnt'[u] = cnt[u]
    BY <1>0, <2>1 DEF Call, Goto, tables, TypeInv, TypeOK
  <2>3. \A u \in Thread : Counted(u)' => Counted(u) /\ cnt'[u] = cnt[u]
    BY <2>1, <2>2 DEF Counted
  <2>4. \A u \in Thread : InLoop(u)'
    BY <2>1, <2>2 DEF Counted, InLoop, BoundInv
  <2> QED
    BY <1>0, <2>2, <2>3, <2>4, ClaimsNothing
<1>2. ASSUME NEW t \in Thread, ThreadStep(t) PROVE BoundInv'
  <2>0. ASSUME preaccount_info' \subseteq preaccount_info, op' = op, cnt' = cnt,
               \A u \in Thread \ {t} : pc'[u] = pc[u], pc[t] \notin {"idle", "count"},
               \/ pc'[t] \in {"idle", "count", "prepare"} \/ pc[t] # "prepare"
               \/ cnt[t] < Target
        PROVE  BoundInv'
    <3>1. \A u \in Thread : Counted(u)' => Counted(u) /\ cnt'[u] = cnt[u]
      BY <2>0 DEF Counted
    <3>2. \A u \in Thread : InLoop(u)'
      BY <2>0 DEF Counted, InLoop, BoundInv
    <3> QED
      BY <1>0, <2>0, <3>1, <3>2, ClaimsNothing
  <2>1. CASE ProcessUserRegisterInfo(t) \/ ProcessContractAccountInfo(t)
    <3>1. RegStep(t)
      BY <2>1 DEF ProcessUserRegisterInfo, ProcessContractAccountInfo
    <3> QED
      BY <1>0, <2>0, <3>1
         DEF RegStep, RegLock, RegSelect, RegSelectPre, RegDelete, RegInsert, Goto, Return,
             gtxVars, tables, poolVars, TypeInv, TypeOK
  <2>2. CASE InsertAccountInfo2DB(t) \/ InsertPreAccountInfo2DB(t)
    <3> USE DEF Goto, Return, gtxVars, tables, poolVars
    <3>1. InsStep(t) /\ op[t] \in {"EChain_CreateAccount", "EChain_AccountPrepare"}
      BY <2>2 DEF InsertAccountInfo2DB, InsertPreAccountInfo2DB
    <3>2. CASE InsLock(t)
      BY <1>0, <2>0, <3>2 DEF InsLock, TypeInv, TypeOK
    <3>3. CASE InsSelect(t)
      BY <1>0, <2>0, <3>3 DEF InsSelect, AfterInsert, TypeInv, TypeOK
    <3>4. CASE InsInsert(t)
      <4>1. PICK o \in DbOutcomes :
              /\ IF o = "fail"
                 THEN UNCHANGED tables
                 ELSE LET rows == StockRows(t) \cup {[id |-> nextId, addr |-> dest[t]]}
                      IN  /\ IF op[t] = "EChain_CreateAccount"
                             THEN account_info' = rows /\ UNCHANGED preaccount_info
                             ELSE preaccount_info' = rows /\ UNCHANGED account_info
                          /\ nextId' = nextId + 1
                          /\ UNCHANGED assigned
              /\ AfterInsert(t, InsertResult(o)) /\ Unlock
        BY <3>4 DEF InsInsert
      <4>2. o \in {"ok", "fail"}
        BY OutcomeAssumption DEF BoundInv, Outcomes
      <4>3. UNCHANGED op /\ pc[t] = "insInsert"
        BY <3>4 DEF InsInsert
      <4>4. CASE op[t] = "EChain_CreateAccount" \/ o = "fail"
        <5>1. preaccount_info' = preaccount_info
          BY <4>1, <4>4
        <5>2. cnt' = cnt /\ \A u \in Thread \ {t} : pc'[u] = pc[u]
          BY <1>0, <3>1, <4>1, <4>4 DEF AfterInsert, InsertResult, TypeInv, TypeOK
        <5> QED
          BY <2>0, <4>3, <5>1, <5>2
      <4>5. CASE op[t] = "EChain_AccountPrepare" /\ o = "ok"
        <5>1. preaccount_info' = preaccount_info \cup {[id |-> nextId, addr |-> dest[t]]}
          BY <4>1, <4>5 DEF StockRows
        <5>2. cnt' = [cnt EXCEPT ![t] = @ + 1] /\ pc' = [pc EXCEPT ![t] = "prepare"]
          BY <4>1, <4>5 DEF AfterInsert, InsertResult
        <5> QED
          BY <1>0, <4>3, <4>5, <5>1, <5>2, InsertClaims
      <4> QED
        BY <3>1, <4>2, <4>4, <4>5
    <3> QED
      BY <3>1, <3>2, <3>3, <3>4 DEF InsStep
  <2>3. ASSUME NEW f, GtxStep(t, f), UNCHANGED poolVars PROVE BoundInv'
    <3>1. PICK l \in GtxLabels : pc' = [pc EXCEPT ![t] = l]
      BY <1>0, <2>3, TypeIsGtxOK, GtxFrame
    <3>2. pc[t] \in GtxLabels
      BY <1>0, <2>3, TypeIsGtxOK, GtxFrame
    <3>3. \A u \in Thread \ {t} : pc'[u] = pc[u]
      BY <1>0, <3>1 DEF TypeInv, TypeOK
    <3> QED
      BY <2>0, <2>3, <3>2, <3>3 DEF poolVars, GtxLabels
  <2>4. CASE PrepareCount(t)
    <3>1. CASE pc' = [pc EXCEPT ![t] = "prepare"]
               /\ cnt' = [cnt EXCEPT ![t] = Cardinality(preaccount_info)]
      BY <1>0, <2>4, <3>1, CountClaims
    <3>2. CASE Return(t, -1) /\ UNCHANGED cnt
      <4>1. /\ UNCHANGED <<preaccount_info, op>> /\ pc'[t] = "idle"
            /\ \A u \in Thread \ {t} : pc'[u] = pc[u]
        BY <1>0, <2>4, <3>2 DEF PrepareCount, Goto, Return, tables, TypeInv, TypeOK
      <4>2. \A u \in Thread : (Counted(u)' => Counted(u) /\ cnt'[u] = cnt[u]) /\ InLoop(u)'
        BY <3>2, <4>1 DEF Counted, InLoop, BoundInv
      <4> QED
        BY <1>0, <4>1, <4>2, ClaimsNothing
    <3> QED
      BY <2>4, <3>1, <3>2 DEF PrepareCount, Goto
  <2>5. CASE PrepareLoop(t)
    BY <1>0, <2>0, <2>5
       DEF PrepareLoop, MoreToPrepare, Goto, Return, gtxVars, tables, TypeInv, TypeOK
  <2>6. CASE NewKeyPair(t)
    BY <1>0, <2>0, <2>6 DEF NewKeyPair, NoKeyPair, Goto, Return, tables, TypeInv, TypeOK
  <2>7. CASE AfterTx(t)
    BY <1>0, <2>0, <2>7 DEF AfterTx, Goto, Return, tables, TypeInv, TypeOK
  <2> QED
    BY <1>2, <2>1, <2>2, <2>3, <2>4, <2>5, <2>6, <2>7
       DEF ThreadStep, CreateAccountTx, CreateAccountXTx, ObtainAssetCode
<1>3. CASE Close \/ UNCHANGED vars
  <2>1. UNCHANGED <<preaccount_info, op, pc, cnt>>
    BY <1>3 DEF Close, vars, thread, poolVars
  <2>2. \A u \in Thread : (Counted(u)' => Counted(u) /\ cnt'[u] = cnt[u]) /\ InLoop(u)'
    BY <2>1 DEF Counted, InLoop, BoundInv
  <2> QED
    BY <1>0, <2>1, <2>2, ClaimsNothing
<1>4. CASE Crash
  <2>1. UNCHANGED preaccount_info /\ \A u \in Thread : pc'[u] = "idle"
    BY <1>4 DEF Crash, GtxReset, tables
  <2>2. \A u \in Thread : (Counted(u)' => Counted(u) /\ cnt'[u] = cnt[u]) /\ InLoop(u)'
    BY <2>1 DEF Counted, InLoop
  <2> QED
    BY <1>0, <2>1, <2>2, ClaimsNothing
<1> QED
  BY <1>1, <1>2, <1>3, <1>4 DEF Next

LEMMA InitBound == IsFiniteSet(Thread) /\ "lost" \notin DbOutcomes /\ Init => BoundInv
<1> SUFFICES ASSUME IsFiniteSet(Thread), "lost" \notin DbOutcomes, Init PROVE BoundInv
  OBVIOUS
<1>1. TypeInv
  BY InitType
<1>2. \A t \in Thread : ~ Counted(t)
  BY DEF Init, GtxInit, Counted
<1>3. Tickets = {}
  BY <1>2 DEF Tickets, Slots
<1>4. Claims <= Cardinality(Prepared)
  <2>1. Cardinality(Tickets) = 0
    BY <1>3, FS_EmptySet
  <2>2. /\ Cardinality(preaccount_info) <= Cardinality(Prepared)
        /\ Cardinality(preaccount_info) \in Nat /\ Cardinality(Prepared) \in Nat
    BY <1>1, PreparedCount, BoundTypes DEF Init
  <2> QED
    BY <2>1, <2>2 DEF Claims
<1> QED
  BY <1>1, <1>2, <1>4 DEF BoundInv, InLoop

(***************************************************************************)
(* However many threads run EChain_AccountPrepare at the same time, the    *)
(* stock never grows past Target rows for each of them (or what it had at  *)
(* the start), as long as no insert is executed whose answer is lost.      *)
(***************************************************************************)
THEOREM StockIsBounded ==
    IsFiniteSet(Thread) /\ "lost" \notin DbOutcomes /\ Spec => []StockBound
<1>1. IsFiniteSet(Thread) /\ "lost" \notin DbOutcomes /\ Spec => []BoundInv
  BY InitBound, BoundInductive, PTL DEF Spec
<1>2. BoundInv => StockBound
  <2> SUFFICES ASSUME BoundInv PROVE StockBound
    OBVIOUS
  <2>1. /\ Cardinality(preaccount_info) \in Nat /\ Cardinality(Tickets) \in Nat
        /\ Cardinality(Prepared) \in Nat /\ Target * Cardinality(Thread) \in Nat
    BY BoundTypes, PreparedCount, SlotsFinite, PoolAssumption DEF BoundInv
  <2> QED
    BY <2>1 DEF BoundInv, Claims, StockBound
<1> QED
  BY <1>1, <1>2, PTL

=============================================================================

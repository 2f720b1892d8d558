---------------------------- MODULE AccountPool ----------------------------
(***************************************************************************)
(* The stock of prepared accounts and how it is filled and handed out:     *)
(*   EChain_AccountPrepare, EChain_CreateAccountX   fill preaccount_info   *)
(*   EChain_UserRegister, EChain_ContractAddressCreate   take a row of it  *)
(*   EChain_CreateAccount                           writes account_info    *)
(* of src/test/api_echain_func.cpp, called by any number of threads.       *)
(*                                                                         *)
(* Every SQL statement is a step; the statements of one function run under *)
(* g_dbmutex but in no database transaction, so a failing statement or a   *)
(* crash leaves the earlier ones in place.  Rows carry the auto-increment  *)
(* id of their table, so that a row inserted twice is two rows.            *)
(***************************************************************************)
EXTENDS GenesisTx

CONSTANTS User,       \* userid's
          Contract,   \* (userid, classid) pairs
          Address,    \* the addresses the node's createAccount can generate
          Target,     \* how many prepared accounts EChain_AccountPrepare keeps
          Prepared,   \* addresses in preaccount_info when the program starts
          RepeatUntil, \* bound: the genesis nonce up to which createAccount
                      \* may generate an address again (0: it never does)
          MayCrash    \* TRUE: the process can die and restart at any point

Key == User \cup Contract
RegFunctions == {"EChain_UserRegister", "EChain_ContractAddressCreate"}
PoolFunctions == RegFunctions \cup {"EChain_AccountPrepare", "EChain_CreateAccount"}

ASSUME PoolAssumption ==
    /\ Address = Account \ {Genesis}
    /\ Target \in Nat
    /\ User \cap Contract = {} /\ None \notin Key
    /\ None \notin PoolFunctions
    /\ Prepared \subseteq Address
    /\ IsFiniteSet(Account)
    /\ RepeatUntil \in Nat /\ MayCrash \in BOOLEAN

VARIABLES preaccount_info,  \* rows [id, addr]
          account_info,     \* rows [id, addr]
          assigned,         \* rows [id, key, addr] of user_register (key a
                            \* userid) and contract_account (key a pair)
          nextId,           \* the next auto-increment id
          issued,           \* what createAccount has generated so far
          op,               \* the API function each thread is in
          key,              \* the userid or (userid, classid) it was given
          cnt,              \* i of EChain_AccountPrepare
          ret               \* what the last call returned

tables == <<preaccount_info, account_info, assigned, nextId>>
locals == <<op, key, cnt, ret>>
poolVars == <<preaccount_info, account_info, assigned, nextId, issued,
              op, key, cnt, ret>>
vars == <<nodeVars, g_genesisNonce, g_dbmutex, thread, poolVars>>

InRows(rows, a) == \E r \in rows : r.addr = a

(* The table the account functions select from and insert into. *)
StockRows(t) == IF op[t] = "EChain_CreateAccount" THEN account_info ELSE preaccount_info

Init ==
    /\ NodeInit([a \in Account |-> IF a = Genesis THEN Cardinality(Account) ELSE 0])
    /\ GtxInit
    /\ preaccount_info = {[id |-> 0, addr |-> a] : a \in Prepared}
    /\ account_info = {} /\ assigned = {}
    /\ nextId = 1
    /\ issued = Prepared
    /\ op = [t \in Thread |-> None]
    /\ key = [t \in Thread |-> None]
    /\ cnt = [t \in Thread |-> 0]
    /\ ret = [t \in Thread |-> 0]

-----------------------------------------------------------------------------
(* Calls and returns.                                                       *)

Call(t, f, k, l) ==
    /\ pc[t] = "idle"
    /\ op' = [op EXCEPT ![t] = f]
    /\ key' = [key EXCEPT ![t] = k]
    /\ dest' = [dest EXCEPT ![t] = None]
    /\ Goto(t, l)
    /\ cnt' = [cnt EXCEPT ![t] = 0]
    /\ ret' = [ret EXCEPT ![t] = 0]
    /\ UNCHANGED <<nodeVars, g_genesisNonce, g_dbmutex, fn, nn, resp, tables,
                   issued>>

EChain_UserRegister(t, u) == Call(t, "EChain_UserRegister", u, "regLock")
EChain_ContractAddressCreate(t, c) ==
    Call(t, "EChain_ContractAddressCreate", c, "regLock")
EChain_AccountPrepare(t) == Call(t, "EChain_AccountPrepare", None, "count")
EChain_CreateAccount(t) == Call(t, "EChain_CreateAccount", None, "again")

(* The call returns v to the application; it can look at ret[t] and dest[t] *)
(* until its next call.                                                     *)
Return(t, v) ==
    /\ Goto(t, "idle")
    /\ ret' = [ret EXCEPT ![t] = v]

-----------------------------------------------------------------------------
(* processUserRegisterInfo and processContractAccountInfo: the same code on *)
(* two tables.                                                              *)

RegLock(t) ==
    /\ pc[t] = "regLock" /\ DbFree
    /\ g_dbmutex' = t
    /\ Goto(t, "regSelect")
    /\ UNCHANGED <<nodeVars, gtxVars, poolVars>>

(* select ... where userid = ...: a row found is the answer, with result 0. *)
RegSelect(t) ==
    /\ pc[t] = "regSelect"
    /\ \/ /\ \E r \in assigned : r.key = key[t] /\ dest' = [dest EXCEPT ![t] = r.addr]
          /\ Return(t, 0) /\ Unlock
       \/ /\ ~ \E r \in assigned : r.key = key[t]
          /\ Goto(t, "regSelectPre")
          /\ UNCHANGED <<dest, ret, g_dbmutex>>
       \/ /\ DbOutcomes # {"ok"}
          /\ Return(t, -1) /\ Unlock
          /\ UNCHANGED dest
    /\ UNCHANGED <<nodeVars, g_genesisNonce, fn, nn, resp, tables, issued, op, key, cnt>>

(* A slip: nothing in the stock, and the function returns with the lock. *)
RegSelectPre_KeepsLock(t) ==
    /\ pc[t] = "regSelectPre"
    /\ \/ /\ \E r \in preaccount_info : dest' = [dest EXCEPT ![t] = r.addr]
          /\ Goto(t, "regDelete")
          /\ UNCHANGED <<ret, g_dbmutex>>
       \/ /\ preaccount_info = {} \/ DbOutcomes # {"ok"}
          /\ Return(t, -1)
          /\ UNCHANGED <<dest, g_dbmutex>>
    /\ UNCHANGED <<nodeVars, g_genesisNonce, fn, nn, resp, tables, issued, op, key, cnt>>

(* select ... from preaccount_info limit 1, which names no order. *)
RegSelectPre(t) ==
    /\ pc[t] = "regSelectPre"
    /\ \/ /\ \E r \in preaccount_info : dest' = [dest EXCEPT ![t] = r.addr]
          /\ Goto(t, "regDelete")
          /\ UNCHANGED <<ret, g_dbmutex>>
       \/ /\ preaccount_info = {} \/ DbOutcomes # {"ok"}
          /\ Return(t, -1) /\ Unlock
          /\ UNCHANGED dest
    /\ UNCHANGED <<nodeVars, g_genesisNonce, fn, nn, resp, tables, issued, op, key, cnt>>

(* delete from preaccount_info where blockaddress = ... *)
RegDelete(t) ==
    /\ pc[t] = "regDelete"
    /\ \E o \in DbOutcomes :
         /\ preaccount_info' = IF o = "fail" THEN preaccount_info
                               ELSE {r \in preaccount_info : r.addr # dest[t]}
         /\ \/ o = "ok" /\ Goto(t, "regInsert") /\ UNCHANGED <<ret, g_dbmutex>>
            \/ o # "ok" /\ Return(t, -1) /\ Unlock
    /\ UNCHANGED <<nodeVars, gtxVars, account_info, assigned, nextId, issued,
                   op, key, cnt>>

(* A slip: the result of the insert is not looked at. *)
InsertResult_Ignored(o) == 1

(* What the functions make of the outcome of their insert. *)
InsertResult(o) == IF o = "ok" THEN 1 ELSE -1

(* insert into user_register / contract_account *)
RegInsert(t) ==
    /\ pc[t] = "regInsert"
    /\ \E o \in DbOutcomes :
         /\ IF o = "fail"
            THEN UNCHANGED <<assigned, nextId>>
            ELSE /\ assigned' = assigned \cup
                       {[id |-> nextId, key |-> key[t], addr |-> dest[t]]}
                 /\ nextId' = nextId + 1
         /\ Return(t, InsertResult(o)) /\ Unlock
    /\ UNCHANGED <<nodeVars, gtxVars, preaccount_info, account_info, issued,
                   op, key, cnt>>

-----------------------------------------------------------------------------
(* EChain_AccountPrepare.                                                   *)

(* The rows are counted under the lock, and only once. *)
PrepareCount(t) ==
    /\ pc[t] = "count" /\ DbFree
    /\ \/ /\ cnt' = [cnt EXCEPT ![t] = Cardinality(preaccount_info)]
          /\ Goto(t, "prepare")
          /\ UNCHANGED ret
       \/ /\ DbOutcomes # {"ok"}
          /\ Return(t, -1)
          /\ UNCHANGED cnt
    /\ UNCHANGED <<nodeVars, gtxVars, g_dbmutex, tables, issued, op, key>>

(* A slip: i <= 200. *)
MoreToPrepare_OneMore(t) == cnt[t] <= Target

(* i < 200 *)
MoreToPrepare(t) == cnt[t] < Target

(* for (i = iCount; i < 200; i++) *)
PrepareLoop(t) ==
    /\ pc[t] = "prepare"
    /\ \/ MoreToPrepare(t) /\ Goto(t, "again") /\ UNCHANGED ret
       \/ ~ MoreToPrepare(t) /\ Return(t, 1)
    /\ UNCHANGED <<nodeVars, gtxVars, g_dbmutex, tables, issued, op, key, cnt>>

-----------------------------------------------------------------------------
(* EChain_CreateAccountX and EChain_CreateAccount around their genesis      *)
(* transaction.  A call of EChain_CreateAccountX that fails fails the       *)
(* EChain_AccountPrepare it serves.                                         *)

CreateFn(t) == IF op[t] = "EChain_CreateAccount" THEN "EChain_CreateAccount"
               ELSE "EChain_CreateAccountX"

(* Again: a new key pair from the node's createAccount. *)
KeyPairs == (Address \ issued) \cup {a \in issued : last[Genesis] < RepeatUntil}

(* A slip: the answer of createAccount is used without looking at it. *)
NoKeyPair_Unchecked(t) ==
    /\ fn' = [fn EXCEPT ![t] = CreateFn(t)]
    /\ Goto(t, "key")
    /\ UNCHANGED <<dest, issued, ret>>

(* ParseAccountInfoFromJson finds no account in the answer. *)
NoKeyPair(t) ==
    /\ Return(t, -1)
    /\ UNCHANGED <<dest, issued, fn>>

NewKeyPair(t) ==
    /\ pc[t] = "again"
    /\ \/ \E a \in KeyPairs :
            /\ dest' = [dest EXCEPT ![t] = a]
            /\ issued' = issued \cup {a}
            /\ fn' = [fn EXCEPT ![t] = CreateFn(t)]
            /\ Goto(t, "key")
            /\ UNCHANGED ret
       \/ (NetOutcomes # {"ok"} \/ KeyPairs = {}) /\ NoKeyPair(t)
    /\ UNCHANGED <<nodeVars, g_genesisNonce, g_dbmutex, nn, resp, tables,
                   op, key, cnt>>

(* The transaction is through: an account created for the stock first gets  *)
(* its tokens from EChain_ObtainAssetCode, and then goes to the database.   *)
AfterTx(t) ==
    /\ \/ /\ pc[t] = "txErr"
          /\ Return(t, -1)
          /\ UNCHANGED fn
       \/ /\ pc[t] = "txOk" /\ fn[t] = "EChain_CreateAccountX"
          /\ fn' = [fn EXCEPT ![t] = "EChain_ObtainAssetCode"]
          /\ Goto(t, "key")
          /\ UNCHANGED ret
       \/ /\ pc[t] = "txOk" /\ fn[t] # "EChain_CreateAccountX"
          /\ Goto(t, "insLock")
          /\ UNCHANGED <<fn, ret>>
    /\ UNCHANGED <<nodeVars, g_genesisNonce, g_dbmutex, dest, nn, resp, tables,
                   issued, op, key, cnt>>

InsLock(t) ==
    /\ pc[t] = "insLock" /\ DbFree
    /\ g_dbmutex' = t
    /\ Goto(t, "insSelect")
    /\ UNCHANGED <<nodeVars, gtxVars, poolVars>>

(* Mutant: EChain_CreateAccount keeps an address that is taken. *)
AfterInsert_TakenOk(t, v) ==
    IF op[t] = "EChain_CreateAccount"
    THEN Return(t, 1) /\ UNCHANGED cnt
    ELSE IF v <= 0 THEN Goto(t, "again") /\ UNCHANGED <<cnt, ret>>
                   ELSE /\ cnt' = [cnt EXCEPT ![t] = @ + 1]
                        /\ Goto(t, "prepare")
                        /\ UNCHANGED ret

(***************************************************************************)
(* What EChain_CreateAccount and EChain_CreateAccountX do with the result  *)
(* v of insertAccountInfo2DB and insertPreAccountInfo2DB: CreateAccount    *)
(* starts again on 0 (address taken) and ignores -1, CreateAccountX starts *)
(* again on both.                                                          *)
(***************************************************************************)
AfterInsert(t, v) ==
    IF op[t] = "EChain_CreateAccount"
    THEN IF v = 0 THEN Goto(t, "again") /\ UNCHANGED <<cnt, ret>>
                  ELSE Return(t, 1) /\ UNCHANGED cnt
    ELSE IF v <= 0 THEN Goto(t, "again") /\ UNCHANGED <<cnt, ret>>
                   ELSE /\ cnt' = [cnt EXCEPT ![t] = @ + 1]
                        /\ Goto(t, "prepare")
                        /\ UNCHANGED ret

(* The select of insertAccountInfo2DB / insertPreAccountInfo2DB. *)
InsSelect(t) ==
    /\ pc[t] = "insSelect"
    /\ \/ /\ InRows(StockRows(t), dest[t])
          /\ AfterInsert(t, 0) /\ Unlock
       \/ /\ ~ InRows(StockRows(t), dest[t])
          /\ Goto(t, "insInsert")
          /\ UNCHANGED <<cnt, ret, g_dbmutex>>
       \/ /\ DbOutcomes # {"ok"}
          /\ AfterInsert(t, -1) /\ Unlock
    /\ UNCHANGED <<nodeVars, gtxVars, tables, issued, op, key>>

(* Their insert. *)
InsInsert(t) ==
    /\ pc[t] = "insInsert"
    /\ \E o \in DbOutcomes :
         /\ IF o = "fail"
            THEN UNCHANGED tables
            ELSE LET rows == StockRows(t) \cup {[id |-> nextId, addr |-> dest[t]]}
                 IN  /\ IF op[t] = "EChain_CreateAccount"
                        THEN account_info' = rows /\ UNCHANGED preaccount_info
                        ELSE preaccount_info' = rows /\ UNCHANGED account_info
                     /\ nextId' = nextId + 1
                     /\ UNCHANGED assigned
         /\ AfterInsert(t, InsertResult(o)) /\ Unlock
    /\ UNCHANGED <<nodeVars, gtxVars, issued, op, key>>

-----------------------------------------------------------------------------
(* The process dies and is started again: the database and the ledger keep  *)
(* what they have, everything else starts over (EChain_InitSDK reads the    *)
(* genesis nonce anew).                                                     *)
Crash ==
    /\ MayCrash
    /\ \E t \in Thread : pc[t] # "idle"
    /\ GtxReset
    /\ op' = [t \in Thread |-> None]
    /\ key' = [t \in Thread |-> None]
    /\ cnt' = [t \in Thread |-> 0]
    /\ ret' = [t \in Thread |-> 0]
    /\ UNCHANGED <<nodeVars, tables, issued>>

CallStep(t) ==
    \/ \E u \in User : EChain_UserRegister(t, u)
    \/ \E c \in Contract : EChain_ContractAddressCreate(t, c)
    \/ EChain_AccountPrepare(t)
    \/ EChain_CreateAccount(t)

(* The functions a thread can be inside, one step of each. *)
RegStep(t) ==
    RegLock(t) \/ RegSelect(t) \/ RegSelectPre(t) \/ RegDelete(t) \/ RegInsert(t)
InsStep(t) == InsLock(t) \/ InsSelect(t) \/ InsInsert(t)

ProcessUserRegisterInfo(t) == op[t] = "EChain_UserRegister" /\ RegStep(t)
ProcessContractAccountInfo(t) == op[t] = "EChain_ContractAddressCreate" /\ RegStep(t)
InsertAccountInfo2DB(t) == op[t] = "EChain_CreateAccount" /\ InsStep(t)
InsertPreAccountInfo2DB(t) == op[t] = "EChain_AccountPrepare" /\ InsStep(t)
CreateAccountTx(t) == GtxStep(t, "EChain_CreateAccount") /\ UNCHANGED poolVars
CreateAccountXTx(t) == GtxStep(t, "EChain_CreateAccountX") /\ UNCHANGED poolVars
ObtainAssetCode(t) == GtxStep(t, "EChain_ObtainAssetCode") /\ UNCHANGED poolVars

ThreadStep(t) ==
    \/ ProcessUserRegisterInfo(t) \/ ProcessContractAccountInfo(t)
    \/ PrepareCount(t) \/ PrepareLoop(t)
    \/ NewKeyPair(t) \/ AfterTx(t)
    \/ CreateAccountTx(t) \/ CreateAccountXTx(t) \/ ObtainAssetCode(t)
    \/ InsertAccountInfo2DB(t) \/ InsertPreAccountInfo2DB(t)

Close == CloseLedger /\ UNCHANGED <<g_genesisNonce, g_dbmutex, thread, poolVars>>

Next ==
    \/ \E t \in Thread : CallStep(t) \/ ThreadStep(t)
    \/ Close
    \/ Crash

Spec == Init /\ [][Next]_vars

(* Threads keep running and ledgers keep closing; nobody has to call. *)
FairSpec ==
    /\ Spec
    /\ \A t \in Thread : WF_vars(ThreadStep(t))
    /\ WF_vars(Close)

-----------------------------------------------------------------------------
(* Types.                                                                   *)

PoolLabels == {"idle", "regLock", "regSelect", "regSelectPre", "regDelete",
               "regInsert", "count", "prepare", "again", "insLock",
               "insSelect", "insInsert"}
StockRow == [id : Nat, addr : Address]
OwnerRow == [id : Nat, key : Key, addr : Address]

TypeOK ==
    /\ closed \in [Account -> Nat] /\ last \in [Account -> Nat]
    /\ bal \in [Account -> Nat]
    /\ g_genesisNonce \in Int
    /\ g_dbmutex \in Thread \cup {None}
    /\ pc \in [Thread -> GtxLabels \cup PoolLabels]
    /\ fn \in [Thread -> GtxFunctions \cup {None}]
    /\ dest \in [Thread -> Address \cup {None}]
    /\ nn \in [Thread -> Int] /\ resp \in [Thread -> Int]
    /\ preaccount_info \subseteq StockRow /\ account_info \subseteq StockRow
    /\ assigned \subseteq OwnerRow
    /\ nextId \in Nat
    /\ issued \subseteq Address
    /\ op \in [Thread -> PoolFunctions \cup {None}]
    /\ key \in [Thread -> Key \cup {None}]
    /\ cnt \in [Thread -> Nat] /\ ret \in [Thread -> {-1, 0, 1}]

-----------------------------------------------------------------------------
(* Safety.                                                                  *)

(* Between Lock and Unlock of the four database functions. *)
Critical == {"regSelect", "regSelectPre", "regDelete", "regInsert",
             "insSelect", "insInsert"}

(***************************************************************************)
(* MutexInside: g_dbmutex belongs to the thread that is at a statement of  *)
(* a database function, and to nobody when there is none: each return path *)
(* of processUserRegisterInfo, processContractAccountInfo and the inserts  *)
(* has its Unlock, those after a failing statement too, so that nobody     *)
(* waits for a mutex whose owner has left.                                 *)
(***************************************************************************)
MutexInside ==
    /\ g_dbmutex # None => pc[g_dbmutex] \in Critical
    /\ \A t \in Thread : pc[t] \in Critical => g_dbmutex = t

(***************************************************************************)
(* OneOwner: an address belongs to one userid or one (userid, classid),    *)
(* and an address that has an owner is not in the stock any more, whatever *)
(* statements fail, whatever answers are lost and wherever the process     *)
(* dies: processUserRegisterInfo deletes the prepared row before it        *)
(* inserts the owner's.                                                    *)
(***************************************************************************)
OneOwner ==
    /\ \A r, s \in assigned : r.addr = s.addr => r = s
    /\ \A r \in assigned : ~ InRows(preaccount_info, r.addr)

(***************************************************************************)
(* OneAddressPerKey: a userid, or a (userid, classid), never gets a second *)
(* address, however many threads register it at the same time.             *)
(***************************************************************************)
OneAddressPerKey == \A r, s \in assigned : r.key = s.key => r = s

(***************************************************************************)
(* StockUnique: preaccount_info and account_info hold an address once; the *)
(* select before the insert of insertPreAccountInfo2DB and                 *)
(* insertAccountInfo2DB sees the rows of every other thread.               *)
(***************************************************************************)
StockUnique ==
    /\ \A r, s \in preaccount_info : r.addr = s.addr => r = s
    /\ \A r, s \in account_info : r.addr = s.addr => r = s

(* Accounts the ledger has accepted as created, and as given their tokens. *)
Done(o) == {tx.body.dest : tx \in {x \in accepted : x.src = Genesis /\ x.body.op = o}}

(***************************************************************************)
(* StockUsable: every address in the stock, and every address handed to an *)
(* owner, has an accepted creation and an accepted token payment: a row is *)
(* only written after both transactions succeeded, although the two share  *)
(* one unprotected nonce with every other thread.                          *)
(***************************************************************************)
StockUsable ==
    \A r \in preaccount_info \cup assigned :
        r.addr \in Prepared \/ (r.addr \in Done("create") /\ r.addr \in Done("pay"))

(***************************************************************************)
(* CreatedOnce: no retry of the nonce loop creates or pays an address a    *)
(* second time.                                                            *)
(***************************************************************************)
CreatedOnce == \A x, y \in accepted : x.body = y.body => x = y

(***************************************************************************)
(* AnswerIsRow: a registration that answers 1 or 0 hands out the address   *)
(* that the owner's row holds in the database, also after a crash of the   *)
(* caller's competitors or of a lost answer to an earlier attempt.         *)
(***************************************************************************)
AnswerIsRow ==
    \A t \in Thread :
        /\ pc[t] = "idle" /\ ret[t] \in {0, 1}
        /\ op[t] \in RegFunctions
        => \E r \in assigned : r.key = key[t] /\ r.addr = dest[t]

(***************************************************************************)
(* StockBound: n threads in EChain_AccountPrepare can leave n times Target *)
(* rows, and never more: each counts the rows once, before the others have *)
(* filled the stock.                                                       *)
(***************************************************************************)
StockBound ==
    \/ Cardinality(preaccount_info) <= Cardinality(Prepared)
    \/ Cardinality(preaccount_info) <= Target * Cardinality(Thread)

(***************************************************************************)
(* CreatedIsOwn: with a database that answers, an address returned by      *)
(* EChain_CreateAccount is stored with its keys, and no two calls return   *)
(* the same one, even when the node gives both the same key pair: the one  *)
(* that finds the address taken starts again.                              *)
(***************************************************************************)
CreatedIsOwn ==
    LET created == {t \in Thread : /\ pc[t] = "idle" /\ ret[t] = 1
                                   /\ op[t] = "EChain_CreateAccount"}
    IN  \A t \in created :
            /\ InRows(account_info, dest[t])
            /\ \A u \in created \ {t} : dest[u] # dest[t]

-----------------------------------------------------------------------------
(* Liveness.                                                                *)

(***************************************************************************)
(* CallsReturn: while the database and the network answer, every call      *)
(* returns: g_dbmutex is released on every path, and the nonce loops end   *)
(* although the threads overwrite each other's g_genesisNonce.  The mutex  *)
(* is not fair, so this is stated of applications that stop calling.       *)
(***************************************************************************)
CallsReturn ==
    (\A t \in Thread : <>[][~ CallStep(t)]_vars)
        => \A t \in Thread : (pc[t] # "idle") ~> (pc[t] = "idle")

=============================================================================

----------------------------- MODULE GenesisTx -----------------------------
(***************************************************************************)
(* How an SDK thread gets one transaction of the genesis account onto the  *)
(* ledger.  EChain_CreateAccount, EChain_CreateAccountX and                *)
(* EChain_ObtainAssetCode share this body: read the genesis private key    *)
(* from user_register, read the genesis nonce into the GLOBAL              *)
(* g_genesisNonce, then build, sign and submit with whatever the global    *)
(* holds at that moment.  No lock protects g_genesisNonce, so every read   *)
(* and every write of it is a step of its own, the read and the write of   *)
(* g_genesisNonce++ included.                                              *)
(*                                                                         *)
(* A caller enters at pc = "key" with fn[t] and dest[t] set and finds pc = *)
(* "txOk" or "txErr" when the function is through.  nn and resp go back to *)
(* 0 once they have been used, as locals that are dead.                    *)
(***************************************************************************)
EXTENDS EChainNode

CONSTANTS Thread,       \* the application threads that call the SDK
          NetOutcomes,  \* what can happen to an HTTP request
          DbOutcomes,   \* what can happen to an SQL statement
          Garbage,      \* values an uninitialized int32_t can hold
          None          \* no owner, no address, no request

(***************************************************************************)
(* "ok": answered.  "fail": no effect and no answer (http_request returns  *)
(* an empty context, mysql_query a non-zero value).  "lost": executed, but *)
(* the answer never arrives, which the caller cannot tell from "fail".     *)
(* "reject": submitTransaction answers an error_code the SDK does not      *)
(* know, and has no effect.                                                *)
(***************************************************************************)
Outcomes == {"ok", "fail", "lost"}

ASSUME OutcomeAssumption ==
    /\ "ok" \in NetOutcomes /\ NetOutcomes \subseteq Outcomes \cup {"reject"}
    /\ "ok" \in DbOutcomes /\ DbOutcomes \subseteq Outcomes
    /\ None \notin Thread /\ None \notin Account
    /\ Garbage \subseteq Int

VARIABLES g_genesisNonce,  \* the global, shared without a lock
          g_dbmutex,       \* the owner of g_dbmutex, or None
          pc,              \* where each thread is
          fn,              \* the genesis-transaction function it is in
          dest,            \* its destAddress
          nn,              \* the nonce in the transaction it has built
          resp             \* a value it has read and not used yet

gtxVars == <<g_genesisNonce, fn, dest, nn, resp>>
thread == <<pc, fn, dest, nn, resp>>

GtxFunctions == {"EChain_CreateAccount", "EChain_CreateAccountX",
                 "EChain_ObtainAssetCode"}
GtxLabels == {"key", "fetch", "store", "blob", "submit", "incr", "incrWrite",
              "refetch", "restore", "recheck", "txOk", "txErr"}

GtxInit ==
    /\ g_genesisNonce = 1
    /\ g_dbmutex = None
    /\ pc = [t \in Thread |-> "idle"]
    /\ fn = [t \in Thread |-> None]
    /\ dest = [t \in Thread |-> None]
    /\ nn = [t \in Thread |-> 0]
    /\ resp = [t \in Thread |-> 0]

(* Where a restart leaves the threads and what EChain_InitSDK reads. *)
GtxReset ==
    /\ g_genesisNonce' = closed[Genesis] + 1
    /\ g_dbmutex' = None
    /\ pc' = [t \in Thread |-> "idle"]
    /\ fn' = [t \in Thread |-> None]
    /\ dest' = [t \in Thread |-> None]
    /\ nn' = [t \in Thread |-> 0]
    /\ resp' = [t \in Thread |-> 0]

Goto(t, l) == pc' = [pc EXCEPT ![t] = l]

(* A slip: g_dbmutex.Lock() left out. *)
DbFree_NoLock == TRUE

(* What g_dbmutex.Lock() waits for. *)
DbFree == g_dbmutex = None

(* g_dbmutex.Unlock() *)
Unlock == g_dbmutex' = None

(* What EChain_GetGenesisInfo can return: the closed nonce plus one; -1 when *)
(* there is no answer; and, because ParseGenesInfoFromJson overwrites the    *)
(* default 0 with a local it never set, anything when the node leaves the    *)
(* "nonce" member out of the answer for an account that has none yet.        *)
GenesisInfo ==
    {closed[Genesis] + 1}
    \cup {-1 : o \in NetOutcomes \ {"ok"}}
    \cup {g + 1 : g \in {x \in Garbage : closed[Genesis] = 0}}

(* GetCreateAccountJson or GetPaymentJson, and what it costs the source. *)
TxBody(t) == [op   |-> IF fn[t] = "EChain_ObtainAssetCode" THEN "pay" ELSE "create",
              dest |-> dest[t]]
TxCost(t) == IF fn[t] = "EChain_ObtainAssetCode" THEN 1 ELSE 0

(* A slip: submit again when the answer did not arrive. *)
AfterSubmit_Resend(f, o, code) ==
    CASE o = "lost" -> "incr"
      [] o = "ok" /\ code = 0 -> "txOk"
      [] o = "ok" /\ code = 3 -> "incr"
      [] OTHER -> "txErr"

(* A slip: error 99 taken for success. *)
AfterSubmit_99Ok(f, o, code) ==
    CASE o = "ok" /\ code \in {0, 99} -> "txOk"
      [] o = "ok" /\ code = 3 -> "incr"
      [] OTHER -> "txErr"

(* A slip: the same transaction again after error 99. *)
AfterSubmit_99Again(f, o, code) ==
    CASE o = "ok" /\ code = 0 -> "txOk"
      [] o = "ok" /\ code = 3 -> "incr"
      [] o = "ok" /\ code = 99 /\ f = "EChain_CreateAccountX" -> "blob"
      [] OTHER -> "txErr"

(* What function f does with the answer to submitTransaction: only          *)
(* EChain_CreateAccountX has a branch for 99, and an answer that does not   *)
(* parse ends every one of them.                                            *)
AfterSubmit(f, o, code) ==
    CASE o = "ok" /\ code = 0 -> "txOk"
      [] o = "ok" /\ code = 3 -> "incr"
      [] o = "ok" /\ code = 99 /\ f = "EChain_CreateAccountX" -> "refetch"
      [] OTHER -> "txErr"

-----------------------------------------------------------------------------

(* getPrivateKeyFromUserRegisterDB(g_genesisAddress): one statement, under  *)
(* g_dbmutex from start to end.                                             *)
GetKey(t) ==
    /\ pc[t] = "key"
    /\ DbFree
    /\ \E o \in DbOutcomes : Goto(t, IF o = "ok" THEN "fetch" ELSE "txErr")
    /\ UNCHANGED <<nodeVars, gtxVars, g_dbmutex>>

(* The request inside EChain_GetGenesisInfo. *)
Fetch(t) ==
    /\ pc[t] \in {"fetch", "refetch"}
    /\ \E n \in GenesisInfo : resp' = [resp EXCEPT ![t] = n]
    /\ Goto(t, IF pc[t] = "fetch" THEN "store" ELSE "restore")
    /\ UNCHANGED <<nodeVars, g_genesisNonce, fn, dest, nn, g_dbmutex>>

(* g_genesisNonce = EChain_GetGenesisInfo(...).  A first fetch that failed  *)
(* is not noticed ...                                                       *)
Store(t) ==
    /\ pc[t] \in {"store", "restore"}
    /\ g_genesisNonce' = resp[t]
    /\ resp' = [resp EXCEPT ![t] = 0]
    /\ Goto(t, IF pc[t] = "store" THEN "blob" ELSE "recheck")
    /\ UNCHANGED <<nodeVars, fn, dest, nn, g_dbmutex>>

(* ... a repeated one ends the function, unless another thread has stored   *)
(* its own answer in between: the check reads the global again.             *)
Recheck(t) ==
    /\ pc[t] = "recheck"
    /\ Goto(t, IF g_genesisNonce < 0 THEN "txErr" ELSE "blob")
    /\ UNCHANGED <<nodeVars, gtxVars, g_dbmutex>>

(* getTransactionBlob with the nonce the global holds now. *)
Blob(t) ==
    /\ pc[t] = "blob"
    /\ \/ Goto(t, "submit") /\ nn' = [nn EXCEPT ![t] = g_genesisNonce]
       \/ NetOutcomes # {"ok"} /\ Goto(t, "txErr") /\ UNCHANGED nn
    /\ UNCHANGED <<nodeVars, g_genesisNonce, fn, dest, resp, g_dbmutex>>

(* submitTransaction: the node may have accepted a transaction whose answer *)
(* is lost.                                                                 *)
SubmitTx(t) ==
    /\ pc[t] = "submit"
    /\ \E o \in NetOutcomes :
         /\ IF o \in {"fail", "reject"}
            THEN UNCHANGED nodeVars
            ELSE Submit(Genesis, nn[t], TxBody(t), TxCost(t))
         /\ Goto(t, AfterSubmit(fn[t], o, SubmitCode(Genesis, nn[t], TxCost(t))))
    /\ nn' = [nn EXCEPT ![t] = 0]
    /\ UNCHANGED <<g_genesisNonce, fn, dest, resp, g_dbmutex>>

(* g_genesisNonce++ is a read ... *)
Incr(t) ==
    /\ pc[t] = "incr"
    /\ resp' = [resp EXCEPT ![t] = g_genesisNonce]
    /\ Goto(t, "incrWrite")
    /\ UNCHANGED <<nodeVars, g_genesisNonce, fn, dest, nn, g_dbmutex>>

(* ... and a write: the increment of another thread in between is lost. *)
IncrWrite(t) ==
    /\ pc[t] = "incrWrite"
    /\ g_genesisNonce' = resp[t] + 1
    /\ resp' = [resp EXCEPT ![t] = 0]
    /\ Goto(t, "blob")
    /\ UNCHANGED <<nodeVars, fn, dest, nn, g_dbmutex>>

(* One step of the function f that t is in. *)
GtxStep(t, f) ==
    /\ fn[t] = f
    /\ \/ GetKey(t) \/ Fetch(t) \/ Store(t) \/ Recheck(t) \/ Blob(t)
       \/ SubmitTx(t) \/ Incr(t) \/ IncrWrite(t)

=============================================================================

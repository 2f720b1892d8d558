-------------------------- MODULE GenesisTxProofs --------------------------
(***************************************************************************)
(* Facts about the ledger node and the genesis transaction that the proofs *)
(* about AccountPool and Evidence share.                                   *)
(***************************************************************************)
EXTENDS GenesisTx, FiniteSetTheorems, TLAPS

(* The types of the node's state and of the numbers the transaction uses. *)
NodeOK ==
    /\ closed \in [Account -> Nat] /\ last \in [Account -> Nat]
    /\ bal \in [Account -> Nat]
    /\ IsFiniteSet(accepted)

GtxOK ==
    /\ NodeOK
    /\ g_genesisNonce \in Int
    /\ nn \in [Thread -> Int] /\ resp \in [Thread -> Int]

(* submitTransaction keeps the node's types: only a positive nonce that the *)
(* source can pay for is accepted.                                          *)
LEMMA SubmitType ==
    ASSUME NodeOK, NEW src \in Account, NEW n \in Int, NEW body, NEW cost \in Nat,
           Submit(src, n, body, cost)
    PROVE  NodeOK' /\ accepted \subseteq accepted'
<1>1. CASE SubmitCode(src, n, cost) = 0
  <2>1. n > closed[src] /\ bal[src] >= cost
    BY <1>1 DEF SubmitCode, NodeOK
  <2>2. n \in Nat /\ bal[src] - cost \in Nat
    BY <2>1 DEF NodeOK
  <2>3. accepted' = accepted \cup {[src |-> src, nonce |-> n, body |-> body]}
    BY <1>1 DEF Submit
  <2>4. IsFiniteSet(accepted')
    BY <2>3, FS_AddElement DEF NodeOK
  <2> QED
    BY <1>1, <2>2, <2>3, <2>4 DEF Submit, NodeOK
<1>2. CASE SubmitCode(src, n, cost) # 0
  BY <1>2 DEF Submit, nodeVars, NodeOK
<1> QED
  BY <1>1, <1>2

(* So does a ledger that closes. *)
LEMMA CloseType ==
    ASSUME NodeOK, CloseLedger
    PROVE  NodeOK'
<1>1. ASSUME NEW a \in Account PROVE bal[a] + Grant * Cardinality(Payments(a)) \in Nat
  <2>1. Payments(a) \in SUBSET accepted
    BY DEF Payments
  <2>2. Cardinality(Payments(a)) \in Nat
    BY <2>1, FS_Subset, FS_CardinalityType DEF NodeOK
  <2> HIDE DEF Payments
  <2> QED
    BY <2>2, NodeAssumption DEF NodeOK
<1> QED
  BY <1>1 DEF CloseLedger, NodeOK

(* Where an answer to submitTransaction leads. *)
LEMMA AfterSubmitType ==
    ASSUME NEW f, NEW o, NEW code
    PROVE  AfterSubmit(f, o, code) \in {"txOk", "incr", "refetch", "txErr"}
BY Zenon DEF AfterSubmit

(***************************************************************************)
(* What a step of the genesis transaction does to the rest of the system:  *)
(* t moves from one label of the transaction to another, and what the      *)
(* ledger accepts on the way is no evidence.                               *)
(***************************************************************************)
LEMMA GtxFrame ==
    ASSUME GtxOK, NEW t \in Thread, NEW f, GtxStep(t, f)
    PROVE  /\ GtxOK'
           /\ pc[t] \in GtxLabels \ {"txOk", "txErr"}
           /\ \E l \in GtxLabels : pc' = [pc EXCEPT ![t] = l]
           /\ UNCHANGED <<fn, dest, g_dbmutex>>
           /\ accepted \subseteq accepted'
           /\ \A tx \in accepted' \ accepted : tx.body.op \in {"pay", "create"}
<1> USE DEF GtxOK, NodeOK, Goto, gtxVars, nodeVars, GtxLabels
<1>1. CASE GetKey(t)
  BY <1>1 DEF GetKey
<1>2. CASE Fetch(t)
  <2>1. GenesisInfo \subseteq Int
    BY NodeAssumption, OutcomeAssumption DEF GenesisInfo
  <2> HIDE DEF GenesisInfo
  <2> QED
    BY <1>2, <2>1 DEF Fetch
<1>3. CASE Store(t)
  <2>1. \E l \in GtxLabels : pc' = [pc EXCEPT ![t] = l]
    <3>1. \/ pc' = [pc EXCEPT ![t] = "blob"]
          \/ pc' = [pc EXCEPT ![t] = "recheck"]
      BY <1>3 DEF Store
    <3> QED
      BY <3>1
  <2>2. /\ GtxOK' /\ pc[t] \in GtxLabels \ {"txOk", "txErr"}
        /\ UNCHANGED <<fn, dest, g_dbmutex, accepted>>
    BY <1>3 DEF Store
  <2> HIDE DEF GtxOK, GtxLabels
  <2> QED
    BY <2>1, <2>2, Zenon
<1>4. CASE Recheck(t)
  BY <1>4 DEF Recheck
<1>5. CASE Blob(t)
  BY <1>5 DEF Blob
<1>6. CASE SubmitTx(t)
  <2>1. TxCost(t) \in Nat /\ nn[t] \in Int
    BY DEF TxCost
  <2>2. PICK o \in NetOutcomes :
          /\ IF o \in {"fail", "reject"}
             THEN UNCHANGED nodeVars
             ELSE Submit(Genesis, nn[t], TxBody(t), TxCost(t))
          /\ Goto(t, AfterSubmit(fn[t], o, SubmitCode(Genesis, nn[t], TxCost(t))))
    BY <1>6 DEF SubmitTx
  <2>3. NodeOK' /\ accepted \subseteq accepted'
    <3> HIDE DEF NodeOK
    <3>1. CASE UNCHANGED nodeVars
      BY <3>1 DEF NodeOK
    <3>2. CASE Submit(Genesis, nn[t], TxBody(t), TxCost(t))
      BY <2>1, <3>2, SubmitType, NodeAssumption
    <3> QED
      BY <2>2, <3>1, <3>2
  <2>4. \A tx \in accepted' \ accepted : tx.body = TxBody(t)
    BY <2>2 DEF Submit
  <2>5. TxBody(t).op \in {"pay", "create"}
    BY DEF TxBody
  <2>6. \E l \in GtxLabels : pc' = [pc EXCEPT ![t] = l]
    BY <2>2, AfterSubmitType
  <2>7. /\ pc[t] \in GtxLabels \ {"txOk", "txErr"} /\ nn' = [nn EXCEPT ![t] = 0]
        /\ UNCHANGED <<g_genesisNonce, fn, dest, resp, g_dbmutex>>
    BY <1>6 DEF SubmitTx
  <2> HIDE DEF NodeOK, GtxLabels
  <2>8. GtxOK'
    BY <2>3, <2>7
  <2>9. \A tx \in accepted' \ accepted : tx.body.op \in {"pay", "create"}
    BY <2>4, <2>5
  <2> HIDE DEF GtxOK
  <2> QED
    BY <2>3, <2>6, <2>7, <2>8, <2>9, Zenon
<1>7. CASE Incr(t)
  BY <1>7 DEF Incr
<1>8. CASE IncrWrite(t)
  BY <1>8 DEF IncrWrite
<1> QED
  BY <1>1, <1>2, <1>3, <1>4, <1>5, <1>6, <1>7, <1>8 DEF GtxStep

(***************************************************************************)
(* The closed nonces never run ahead of the accepted ones and never fall.  *)
(***************************************************************************)
ClosedFirst == \A a \in Account : closed[a] <= last[a]
ClosedGrows == \A a \in Account : closed[a] <= closed'[a]

LEMMA SubmitOrder ==
    ASSUME NodeOK, ClosedFirst, NEW src \in Account, NEW n \in Int, NEW body, NEW cost \in Nat,
           Submit(src, n, body, cost)
    PROVE  ClosedFirst' /\ ClosedGrows
<1>1. CASE SubmitCode(src, n, cost) = 0
  <2>1. n > closed[src]
    BY <1>1 DEF SubmitCode, NodeOK
  <2> QED
    BY <1>1, <2>1 DEF Submit, NodeOK, ClosedFirst, ClosedGrows
<1>2. CASE SubmitCode(src, n, cost) # 0
  BY <1>2 DEF Submit, nodeVars, NodeOK, ClosedFirst, ClosedGrows
<1> QED
  BY <1>1, <1>2

LEMMA StillOrder ==
    ASSUME NodeOK, ClosedFirst, UNCHANGED nodeVars
    PROVE  ClosedFirst' /\ ClosedGrows
BY DEF nodeVars, NodeOK, ClosedFirst, ClosedGrows

LEMMA CloseOrder ==
    ASSUME NodeOK, ClosedFirst, CloseLedger
    PROVE  ClosedFirst' /\ ClosedGrows
BY DEF CloseLedger, NodeOK, ClosedFirst, ClosedGrows

LEMMA GtxOrder ==
    ASSUME GtxOK, ClosedFirst, NEW t \in Thread, NEW f, GtxStep(t, f)
    PROVE  ClosedFirst' /\ ClosedGrows
<1>1. NodeOK /\ nn[t] \in Int /\ TxCost(t) \in Nat
  BY DEF GtxOK, TxCost
<1>2. UNCHANGED nodeVars \/ Submit(Genesis, nn[t], TxBody(t), TxCost(t))
  BY DEF GtxStep, GetKey, Fetch, Store, Recheck, Blob, SubmitTx, Incr, IncrWrite
<1> QED
  BY <1>1, <1>2, StillOrder, SubmitOrder, NodeAssumption

=============================================================================

----------------------------- MODULE EChainNode -----------------------------
(***************************************************************************)
(* The ledger node behind http://127.0.0.1:25000, as the SDK of            *)
(* src/test/api_echain_func.cpp sees it.  The node is not part of the      *)
(* repository: what is modelled is what the SDK's calls and its handling   *)
(* of the answers rely on.                                                 *)
(*                                                                         *)
(* An account's transactions carry the nonces 1, 2, 3, ...  The node       *)
(* accepts a transaction whose nonce is the next one of its source,        *)
(* answers 3 ("nonce repeated") when that nonce waits in the transaction   *)
(* pool, 99 ("nonce out of sequence") when it is already closed or leaves  *)
(* a gap, and 100 ("balance too low") when the source cannot pay.  What    *)
(* is accepted waits in the pool until the next ledger closes; getAccount  *)
(* and getGenesisAccount report the closed nonce, which is why the SDK     *)
(* meets 3 and 99 at all.                                                  *)
(***************************************************************************)
EXTENDS Integers, FiniteSets

CONSTANTS Account,     \* every ledger account that can appear
          Genesis,     \* the genesis account (g_genesisAddress)
          Grant        \* tokens one EChain_ObtainAssetCode payment brings

ASSUME NodeAssumption ==
    /\ Genesis \in Account
    /\ Grant \in Nat \ {0}

VARIABLES closed,      \* closed[a]: the nonce of a in the last closed ledger
          last,        \* last[a]: the highest nonce accepted from a
          accepted,    \* the accepted transactions [src, nonce, body]
          bal          \* bal[a]: what a can still spend

nodeVars == <<closed, last, accepted, bal>>

NodeInit(balance) ==
    /\ closed = [a \in Account |-> 0]
    /\ last = [a \in Account |-> 0]
    /\ accepted = {}
    /\ bal = balance

Pending(tx) == tx.nonce > closed[tx.src]

(***************************************************************************)
(* The answer to submitTransaction for nonce n of src: the error_code that *)
(* the SDK reads from results[0].                                          *)
(***************************************************************************)
SubmitCode(src, n, cost) ==
    CASE n <= closed[src] \/ n > last[src] + 1 -> 99
      [] closed[src] < n /\ n <= last[src]     -> 3
      [] n = last[src] + 1 /\ bal[src] < cost  -> 100
      [] OTHER                                 -> 0

(* What submitTransaction does at the node. *)
Submit(src, n, body, cost) ==
    IF SubmitCode(src, n, cost) = 0
    THEN /\ last' = [last EXCEPT ![src] = n]
         /\ accepted' = accepted \cup {[src |-> src, nonce |-> n, body |-> body]}
         /\ bal' = [bal EXCEPT ![src] = @ - cost]
         /\ UNCHANGED closed
    ELSE UNCHANGED nodeVars

Payments(a) ==
    {tx \in accepted : Pending(tx) /\ tx.body.op = "pay" /\ tx.body.dest = a}

(* A ledger closes: the pool is applied and payments are credited. *)
CloseLedger ==
    /\ closed # last
    /\ closed' = last
    /\ bal' = [a \in Account |-> bal[a] + Grant * Cardinality(Payments(a))]
    /\ UNCHANGED <<last, accepted>>

=============================================================================

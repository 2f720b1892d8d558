---------------------------- MODULE EvidenceLog ----------------------------
(***************************************************************************)
(* What the evidence functions of src/test/api_echain_func.cpp promise to  *)
(* their callers, without nonces, retries, tokens, tables or threads: a    *)
(* call puts its content on the ledger at most once, and what it returns   *)
(* tells whether it did, except for one answer, -6, that leaves it open.   *)
(***************************************************************************)
EXTENDS Integers

CONSTANT Calls     \* the calls

VARIABLES record,  \* record[c]: what call c has put on the ledger
          result   \* result[c]: "none" until it returns, then what it tells

lvars == <<record, result>>

Results == {"none", "recorded", "failed", "unknown"}

LInit ==
    /\ record = [c \in Calls |-> {}]
    /\ result = [c \in Calls |-> "none"]

(* The ledger accepts the content of c: once, and while c is running. *)
LRecord(c) ==
    /\ record[c] = {} /\ result[c] = "none"
    /\ \E x \in record'[c] : record' = [record EXCEPT ![c] = {x}]
    /\ UNCHANGED result

(* The answer to submitTransaction is lost on its way back. *)
LRecordUnknown(c) ==
    /\ record[c] = {} /\ result[c] = "none"
    /\ \E x \in record'[c] : record' = [record EXCEPT ![c] = {x}]
    /\ result' = [result EXCEPT ![c] = "unknown"]

LReturn(c) ==
    /\ result[c] = "none"
    /\ \/ record[c] # {} /\ result' = [result EXCEPT ![c] = "recorded"]
       \/ record[c] = {} /\ \E v \in {"failed", "unknown"} :
                              result' = [result EXCEPT ![c] = v]
    /\ UNCHANGED record

LNext == \E c \in Calls : LRecord(c) \/ LRecordUnknown(c) \/ LReturn(c)

LSpec == LInit /\ [][LNext]_lvars

=============================================================================

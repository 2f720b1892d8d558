---------------------------- MODULE IssueAssets ----------------------------
(***************************************************************************)
(* EChain_IssueAssets (src/test/api_echain_func.cpp): threads issue assets *)
(* with the same issuer account.  Unlike the other functions that submit a *)
(* transaction, it returns on any error_code, so that the treatment of 3   *)
(* and 99 behind that return is never reached.                             *)
(***************************************************************************)
EXTENDS EChainNode

CONSTANTS IaThread,   \* the threads of the application
          IaIssuer,   \* the issuer account
          IaFee,      \* what a transaction costs
          IaMaxCalls  \* bound on the calls of a thread

ASSUME IaAssumption == IaIssuer \in Account /\ IaMaxCalls \in Nat

VARIABLES iaPc,      \* where each thread is
          iaCalls,   \* number of the thread's call
          iaNonce,   \* iNonceNum
          iaRet,     \* what the call returned
          iaSilent   \* the call's submitTransaction got no answer

iaVars == <<nodeVars, iaPc, iaCalls, iaNonce, iaRet, iaSilent>>

IaInit ==
    /\ NodeInit([a \in Account |-> IaFee * 2])
    /\ iaPc = [t \in IaThread |-> "idle"]
    /\ iaCalls = [t \in IaThread |-> 0]
    /\ iaNonce = [t \in IaThread |-> 0]
    /\ iaRet = [t \in IaThread |-> 0]
    /\ iaSilent = [t \in IaThread |-> FALSE]

IaGoto(t, pc) == iaPc' = [iaPc EXCEPT ![t] = pc] /\ UNCHANGED iaRet
IaReturn(t, r) == iaPc' = [iaPc EXCEPT ![t] = "idle"] /\ iaRet' = [iaRet EXCEPT ![t] = r]

\* The call, and the private key of the issuer, which the database may refuse.
EChain_IssueAssets(t) ==
    /\ iaPc[t] = "idle" /\ iaCalls[t] < IaMaxCalls
    /\ iaCalls' = [iaCalls EXCEPT ![t] = @ + 1]
    /\ iaSilent' = [iaSilent EXCEPT ![t] = FALSE]
    /\ IaGoto(t, "nonce") \/ IaReturn(t, -1)
    /\ UNCHANGED <<nodeVars, iaNonce>>

\* ReStart: getAccount, with an answer or without a usable one.
IaGetNonce(t) ==
    /\ iaPc[t] = "nonce"
    /\ \/ IaGoto(t, "blob") /\ iaNonce' = [iaNonce EXCEPT ![t] = closed[IaIssuer]]
       \/ IaReturn(t, -6) /\ UNCHANGED iaNonce
    /\ UNCHANGED <<nodeVars, iaCalls, iaSilent>>

\* Loop: the next nonce, and getTransactionBlob.
IaBlob(t) ==
    /\ iaPc[t] = "blob"
    /\ iaNonce' = [iaNonce EXCEPT ![t] = @ + 1]
    /\ IaGoto(t, "submit") \/ IaReturn(t, -6)
    /\ UNCHANGED <<nodeVars, iaCalls, iaSilent>>

\* The answer's error_code: the first test leaves nothing for the second one.
AfterIssue(t, code) == IF code # 0 THEN IaReturn(t, -6) ELSE IaReturn(t, 1)

\* Mutant: a missing answer counts as success.
IaNoAnswer_Ok(t) == IaReturn(t, 1)

\* No answer: the text does not parse.
IaNoAnswer(t) == IaReturn(t, -6)

IaSubmit(t) ==
    LET n == iaNonce[t]
        do == Submit(IaIssuer, n, [op |-> "issue", dest |-> <<t, iaCalls[t]>>], IaFee)
    IN  /\ iaPc[t] = "submit"
        /\ \/ do /\ AfterIssue(t, SubmitCode(IaIssuer, n, IaFee)) /\ UNCHANGED iaSilent
           \/ /\ do \/ UNCHANGED nodeVars
              /\ IaNoAnswer(t)
              /\ iaSilent' = [iaSilent EXCEPT ![t] = TRUE]
        /\ UNCHANGED <<iaCalls, iaNonce>>

IaClose == CloseLedger /\ UNCHANGED <<iaPc, iaCalls, iaNonce, iaRet, iaSilent>>

IaNext ==
    \/ \E t \in IaThread :
          EChain_IssueAssets(t) \/ IaGetNonce(t) \/ IaBlob(t) \/ IaSubmit(t)
    \/ IaClose

IaSpec == IaInit /\ [][IaNext]_iaVars

-----------------------------------------------------------------------------
(***************************************************************************)
(* Properties.                                                             *)
(***************************************************************************)
\* IaTypeOK: every variable has its type.
IaTypeOK ==
    /\ iaPc \in [IaThread -> {"idle", "nonce", "blob", "submit"}]
    /\ iaCalls \in [IaThread -> 0 .. IaMaxCalls]
    /\ iaNonce \in [IaThread -> Nat]
    /\ iaRet \in [IaThread -> {0, 1, -1, -6}]
    /\ iaSilent \in [IaThread -> BOOLEAN]

IaRecorded(t) == {x \in accepted : x.body.dest = <<t, iaCalls[t]>>}

\* IaResult: what EChain_IssueAssets answers is true: 1 with one issue on the
\* ledger, an error with none, unless the answer of the node was lost.
IaResult ==
    \A t \in IaThread :
        iaPc[t] = "idle" /\ iaCalls[t] > 0 =>
            IF iaRet[t] = 1 THEN Cardinality(IaRecorded(t)) = 1
                            ELSE iaSilent[t] \/ IaRecorded(t) = {}

=============================================================================

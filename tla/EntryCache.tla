----------------------------- MODULE EntryCache -----------------------------
(***************************************************************************)
(* utils::EntryCache (src/utils/entry_cache.h): a cache of changed entries *)
(* over a store (LoadValue), the "root", and a "branch" above it that is   *)
(* merged into the root (MergeFromBranch) when its changes are accepted.   *)
(* While a branch is open only the branch is used.                         *)
(*                                                                         *)
(* GetRecord leaves Record::action_ uninitialized when the value comes     *)
(* from the store: EcGarbage holds what such a field may contain.          *)
(***************************************************************************)
EXTENDS Naturals, FiniteSets

CONSTANTS EcKey,     \* the keys: numbers, as the map is ordered
          EcVal,     \* the values
          EcAbsent,  \* no value, no record
          EcGarbage  \* the contents of an uninitialized action_

ASSUME EcAssumption ==
    /\ EcKey \subseteq Nat
    /\ EcAbsent \notin EcVal
    /\ EcAbsent \notin [val : EcVal, action : {"ADD", "MOD", "DEL"}]
    /\ EcGarbage \subseteq {"KEEP", "ADD", "MOD", "DEL"} /\ EcGarbage # {}

VARIABLES ecStore, \* the store: what LoadValue finds
          ecEnt,   \* entries_ of each level
          ecOpen,  \* a branch is open
          ecRef,   \* history: the contents that the calls so far should give
          ecUndef, \* history: an uninitialized action_ was DEL
          ecWrong  \* history: a call answered other than ecRef says

ecVars == <<ecStore, ecEnt, ecOpen, ecRef, ecUndef, ecWrong>>

EcLevel == {"root", "branch"}
EcRecord == [val : EcVal, action : {"ADD", "MOD", "DEL"}]
Rec(v, a) == [val |-> v, action |-> a]

EcTypeOK ==
    /\ ecStore \in [EcKey -> EcVal \cup {EcAbsent}]
    /\ ecEnt \in [EcLevel -> [EcKey -> EcRecord \cup {EcAbsent}]]
    /\ ecRef \in [EcLevel -> [EcKey -> EcVal \cup {EcAbsent}]]
    /\ ecOpen \in BOOLEAN /\ ecUndef \in BOOLEAN
    /\ ecWrong \in BOOLEAN

EcInit ==
    /\ ecStore \in [EcKey -> EcVal \cup {EcAbsent}]
    /\ ecEnt = [l \in EcLevel |-> [k \in EcKey |-> EcAbsent]]
    /\ ecRef = [l \in EcLevel |-> ecStore]
    /\ ecOpen = FALSE /\ ecUndef = FALSE /\ ecWrong = FALSE

-----------------------------------------------------------------------------
\* LoadValue with a Record whose action_ was never set.
Loaded(k) ==
    IF ecStore[k] = EcAbsent THEN {} ELSE {Rec(ecStore[k], a) : a \in EcGarbage}

\* GetRecord of level l: the records it may answer with; none: not found.
GetRecord(l, k) ==
    IF ecEnt[l][k] # EcAbsent THEN {ecEnt[l][k]}
    ELSE IF l = "branch" /\ ecEnt["root"][k] # EcAbsent THEN {ecEnt["root"][k]}
    ELSE Loaded(k)

\* What a level finds below it.  The root asks LoadValue itself.
Below(l, k) ==
    IF l = "branch" THEN GetRecord("root", k)
    ELSE IF ecStore[k] = EcAbsent THEN {} ELSE {Rec(ecStore[k], "KEEP")}

\* The entry that level l has for k, EcAbsent when it is deleted or nowhere.
View(l, k) ==
    LET own == ecEnt[l][k]
        root == ecEnt["root"][k]
        r == IF own # EcAbsent THEN own ELSE IF l = "branch" THEN root ELSE EcAbsent
    IN  IF r = EcAbsent THEN ecStore[k]
        ELSE IF r.action = "DEL" THEN EcAbsent ELSE r.val

\* Level l's record of k becomes r, and the contents of l should have v.
EcPut(l, k, r, v) ==
    /\ ecEnt' = [ecEnt EXCEPT ![l][k] = r]
    /\ ecRef' = [ecRef EXCEPT ![l][k] = v]

EcSame == UNCHANGED <<ecEnt, ecRef>>

\* Whether r has an action_ that was never set and happens to be DEL.
BadLoad(l, k, r) ==
    /\ ecEnt[l][k] = EcAbsent
    /\ l = "branch" => ecEnt["root"][k] = EcAbsent
    /\ r.action = "DEL"

\* The call answered ok where the contents say expect.
EcAnswer(ok, expect) ==
    /\ ecWrong' = (ecWrong \/ (ok # expect /\ ~ ecUndef'))
    /\ UNCHANGED <<ecStore, ecOpen>>

\* The level the application works on.
EcTop == IF ecOpen THEN "branch" ELSE "root"

-----------------------------------------------------------------------------
\* Mutant: an entry that was copied from below counts as added here.
Copied_Add(v) == Rec(v, "ADD")

\* The record of an entry that was copied from below.
Copied(v) == Rec(v, "MOD")

\* GetEntry, and the caller's change of the value it was given to v.
GetEntry(k, v) ==
    LET l == EcTop
        own == ecEnt[l][k]
        has == ecRef[l][k] # EcAbsent
    IN  \/ /\ own # EcAbsent
           /\ UNCHANGED ecUndef
           /\ IF own.action # "DEL"
              THEN EcPut(l, k, [own EXCEPT !.val = v], v) /\ EcAnswer(TRUE, has)
              ELSE EcSame /\ EcAnswer(FALSE, has)
        \/ /\ own = EcAbsent
           /\ Below(l, k) = {}
           /\ EcSame /\ UNCHANGED ecUndef /\ EcAnswer(FALSE, has)
        \/ /\ own = EcAbsent
           /\ \E r \in Below(l, k) :
                 /\ ecUndef' = (ecUndef \/ BadLoad("root", k, r))
                 /\ IF r.action # "DEL"
                    THEN EcPut(l, k, Copied(v), v) /\ EcAnswer(TRUE, has)
                    ELSE EcSame /\ EcAnswer(FALSE, has)

\* The record of an entry that was marked as deleted and is added again: MOD,
\* where the table in the header says "add".
AddOver(own, v) == Rec(v, "MOD")

AddEntry(k, v) ==
    LET l == EcTop
        own == ecEnt[l][k]
        free == ecRef[l][k] = EcAbsent
    IN  \/ /\ own # EcAbsent
           /\ UNCHANGED ecUndef
           /\ IF own.action = "DEL"
              THEN EcPut(l, k, AddOver(own, v), v) /\ EcAnswer(TRUE, free)
              ELSE EcSame /\ EcAnswer(FALSE, free)
        \/ /\ own = EcAbsent
           /\ Below(l, k) = {}
           /\ UNCHANGED ecUndef
           /\ EcPut(l, k, Rec(v, "ADD"), v) /\ EcAnswer(TRUE, free)
        \/ /\ own = EcAbsent
           /\ \E r \in Below(l, k) :
                 /\ ecUndef' = (ecUndef \/ BadLoad("root", k, r))
                 /\ IF r.action # "DEL"
                    THEN EcSame /\ EcAnswer(FALSE, free)
                    ELSE EcPut(l, k, Rec(v, "ADD"), v) /\ EcAnswer(TRUE, free)

\* A record of the level itself is marked, and the call returns false all
\* the same: the answer of DeleteEntry is compared in the other case only.
DeleteEntry(k) ==
    LET l == EcTop
        own == ecEnt[l][k]
        has == ecRef[l][k] # EcAbsent
    IN  \/ /\ own # EcAbsent
           /\ EcPut(l, k, [own EXCEPT !.action = "DEL"], EcAbsent)
           /\ UNCHANGED ecUndef /\ EcAnswer(FALSE, FALSE)
        \/ /\ own = EcAbsent
           /\ GetRecord(l, k) = {}
           /\ EcSame /\ UNCHANGED ecUndef /\ EcAnswer(FALSE, has)
        \/ /\ own = EcAbsent
           /\ \E r \in GetRecord(l, k) :
                 /\ ecUndef' = (ecUndef \/ BadLoad(l, k, r))
                 /\ IF r.action # "DEL"
                    THEN EcPut(l, k, Rec(r.val, "DEL"), EcAbsent) /\ EcAnswer(TRUE, has)
                    ELSE EcSame /\ EcAnswer(FALSE, has)

-----------------------------------------------------------------------------
\* A new branch on the root.
EcBranch ==
    /\ ~ ecOpen
    /\ ecOpen' = TRUE
    /\ ecRef' = [ecRef EXCEPT !["branch"] = ecRef["root"]]
    /\ UNCHANGED <<ecStore, ecEnt, ecUndef, ecWrong>>

\* The branch goes; the root has the records ent and the contents ref.
EcClose(ent, ref) ==
    /\ ecOpen
    /\ ecOpen' = FALSE
    /\ ecEnt' = [root |-> ent, branch |-> [k \in EcKey |-> EcAbsent]]
    /\ ecRef' = [root |-> ref, branch |-> ref]
    /\ UNCHANGED <<ecStore, ecUndef, ecWrong>>

\* MergeFromBranch returns false at the branch's record b over the root's r.
Conflict(b, r) ==
    /\ b # EcAbsent /\ r # EcAbsent
    /\ \/ b.action = "ADD" /\ r.action # "DEL"
       \/ b.action = "DEL" /\ r.action = "DEL"

\* Mutant: a deleted entry is forgotten instead of marked.
Merge_Erase(b, r) ==
    CASE b = EcAbsent -> r
      [] b # EcAbsent /\ b.action = "DEL" -> EcAbsent
      [] OTHER -> b

\* The root's record after b was merged over r.  The table in the header has
\* "add" for ADD over DEL and for MOD over ADD, and "false" for MOD over DEL;
\* the code makes a MOD of all three.
Merge(b, r) ==
    CASE b = EcAbsent -> r
      [] b # EcAbsent /\ r = EcAbsent -> b
      [] b # EcAbsent /\ r # EcAbsent /\ b.action = "ADD" -> Rec(b.val, "MOD")
      [] b # EcAbsent /\ r # EcAbsent /\ b.action = "MOD" -> b
      [] b # EcAbsent /\ r # EcAbsent /\ b.action = "DEL" ->
            IF r.action = "ADD" THEN EcAbsent ELSE Rec(r.val, "DEL")

\* The keys are merged in order up to the first conflict.
MergeFromBranch ==
    LET root == ecEnt["root"]
        branch == ecEnt["branch"]
        bad == {k \in EcKey : Conflict(branch[k], root[k])}
        done == {k \in EcKey : \A c \in bad : k < c}
    IN  EcClose([k \in EcKey |-> IF k \in done THEN Merge(branch[k], root[k]) ELSE root[k]],
                [k \in EcKey |-> ecRef[IF k \in done THEN "branch" ELSE "root"][k]])

\* The branch is dropped.
EcDrop == EcClose(ecEnt["root"], ecRef["root"])

EcNext ==
    \/ \E k \in EcKey, v \in EcVal : GetEntry(k, v) \/ AddEntry(k, v)
    \/ \E k \in EcKey : DeleteEntry(k)
    \/ EcBranch \/ MergeFromBranch \/ EcDrop

EcSpec == EcInit /\ [][EcNext]_ecVars

-----------------------------------------------------------------------------
(***************************************************************************)
(* EcContents: root and open branch have the contents that the calls of    *)
(* GetEntry, AddEntry, DeleteEntry and MergeFromBranch should have given   *)
(* them: a merge moves the branch's contents to the root, whatever actions *)
(* meet, as long as no uninitialized action_ happens to be DEL.  On the    *)
(* same condition GetEntry finds exactly the entries there are, AddEntry   *)
(* adds exactly those that are not there, and DeleteEntry of an entry that *)
(* is not cached at its level succeeds exactly when it is there.           *)
(***************************************************************************)
EcContents ==
    /\ ~ ecUndef => \A l \in EcLevel, k \in EcKey :
          (l = "root" \/ ecOpen) => View(l, k) = ecRef[l][k]
    /\ ~ ecWrong

(***************************************************************************)
(* EcMergeFails: on a root that nobody else changes, MergeFromBranch       *)
(* refuses only entries over which there is nothing to decide: those that  *)
(* neither the root nor the branch has any more, deleted in the root,      *)
(* added in the branch and deleted again there.  In particular the branch  *)
(* has a record ADD only for an entry that the root does not have, through *)
(* any sequence of GetEntry, AddEntry and DeleteEntry, so that the refusal *)
(* of ADD over ADD or MOD is never met.  The merge stops there half way    *)
(* all the same.  This is the code's rule, not that of the table in the    *)
(* header: the table refuses MOD over DEL, and the code merges it.         *)
(***************************************************************************)
EcMergeFails ==
    (~ ecUndef /\ ecOpen) =>
        \A k \in EcKey :
            LET b == ecEnt["branch"][k]
            IN  /\ (b # EcAbsent /\ b.action = "ADD") => ecRef["root"][k] = EcAbsent
                /\ Conflict(b, ecEnt["root"][k]) =>
                      ecRef["root"][k] = EcAbsent /\ ecRef["branch"][k] = EcAbsent

=============================================================================

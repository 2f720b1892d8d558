---------------------------- MODULE UtilsProofs ----------------------------
(***************************************************************************)
(* Proofs about three parts of src/utils: the cache of entries with its    *)
(* branches, the log files with their rotation and expiry, and the timer.  *)
(***************************************************************************)
EXTENDS EntryCache, LogFiles, Timer, FiniteSetTheorems, FunctionTheorems, SequenceTheorems, TLAPS

-----------------------------------------------------------------------------
(***************************************************************************)
(* The entry cache.  A record ADD stands for an entry that is not found    *)
(* below its level: only for this reason MergeFromBranch may forget the    *)
(* root's ADD record when the branch has deleted the entry, and never      *)
(* meets a branch's ADD over a live record of the root.                    *)
(***************************************************************************)

EcOver(b, r, st) ==
    /\ r # EcAbsent /\ r.action = "ADD" => st = EcAbsent
    /\ b # EcAbsent /\ b.action = "ADD" =>
          \/ r = EcAbsent /\ st = EcAbsent
          \/ r # EcAbsent /\ r.action = "DEL"

EcMarks(k) == EcOver(ecEnt["branch"][k], ecEnt["root"][k], ecStore[k])

\* What a level has whose record is x, over a store that has st.
EcHas(x, st) == IF x = EcAbsent THEN st ELSE IF x.action = "DEL" THEN EcAbsent ELSE x.val

EcAgrees(k) ==
    /\ View("root", k) = ecRef["root"][k]
    /\ ecOpen => View("branch", k) = ecRef["branch"][k]

\* Between two branches there are no branch records.
EcShut == ~ ecOpen => \A k \in EcKey : ecEnt["branch"][k] = EcAbsent

EcInv ==
    /\ EcTypeOK /\ EcShut /\ ~ ecWrong
    /\ ~ ecUndef => \A k \in EcKey : EcMarks(k) /\ EcAgrees(k)

LEMMA EcInitInv == EcInit => EcInv
<1> SUFFICES ASSUME EcInit PROVE EcInv
  OBVIOUS
<1>1. EcTypeOK
  BY DEF EcInit, EcTypeOK, EcLevel
<1>2. EcShut
  BY DEF EcInit, EcShut, EcLevel
<1>3. ASSUME NEW k \in EcKey PROVE EcMarks(k) /\ EcAgrees(k)
  BY DEF EcInit, EcMarks, EcOver, EcAgrees, View, EcLevel
<1>4. ecWrong = FALSE
  BY Zenon DEF EcInit
<1> QED
  BY <1>1, <1>2, <1>3, <1>4 DEF EcInv

(* What the level in use should have for a key is what it has. *)
LEMMA EcTopAgrees ==
    ASSUME EcInv, NEW k \in EcKey, ~ ecUndef
    PROVE  ecRef[EcTop][k] = View(EcTop, k) /\ EcMarks(k)
BY DEF EcInv, EcAgrees, EcTop

(* The record found below a level that has none. *)
LEMMA EcFound ==
    ASSUME EcTypeOK, NEW k \in EcKey, NEW l \in EcLevel, ecEnt[l][k] = EcAbsent
    PROVE  /\ Below(l, k) = {} => /\ View(l, k) = EcAbsent /\ ecStore[k] = EcAbsent
                                  /\ ecEnt["root"][k] = EcAbsent
           /\ \A r \in Below(l, k) :
                 /\ r.action # "DEL" => View(l, k) # EcAbsent
                 /\ r.action = "DEL" /\ ~ BadLoad("root", k, r) =>
                       /\ l = "branch" /\ View(l, k) = EcAbsent
                       /\ ecEnt["root"][k] # EcAbsent /\ ecEnt["root"][k].action = "DEL"
           /\ GetRecord(l, k) = {} => View(l, k) = EcAbsent
           /\ \A r \in GetRecord(l, k) :
                 /\ r.val \in EcVal
                 /\ r.action # "DEL" => View(l, k) # EcAbsent
                 /\ r.action = "DEL" /\ ~ BadLoad(l, k, r) => View(l, k) = EcAbsent
<1> DEFINE st == ecStore[k]
           root == ecEnt["root"][k]
<1>1. st \in EcVal \cup {EcAbsent} /\ root \in EcRecord \cup {EcAbsent}
  BY DEF EcTypeOK, EcLevel
<1>2. EcAbsent \notin EcVal /\ EcAbsent \notin EcRecord /\ \E a : a \in EcGarbage
  BY EcAssumption DEF EcRecord
<1>3. \A v, a : Rec(v, a).val = v /\ Rec(v, a).action = a
  BY DEF Rec
<1>4. /\ root # EcAbsent => root.val \in EcVal /\ root.val # EcAbsent
      /\ st # EcAbsent => st \in EcVal
  BY <1>1, <1>2 DEF EcRecord
<1>5. View(l, k) = IF l = "root" \/ root = EcAbsent THEN st
                   ELSE IF root.action = "DEL" THEN EcAbsent ELSE root.val
  BY DEF View, EcLevel
<1>6. l = "root" => root = EcAbsent
  OBVIOUS
<1>7. Loaded(k) = IF st = EcAbsent THEN {} ELSE {Rec(st, a) : a \in EcGarbage}
  BY DEF Loaded
<1>8. GetRecord(l, k) = IF root # EcAbsent THEN {root} ELSE Loaded(k)
  BY DEF GetRecord, EcLevel
<1>9. Below(l, k) = IF l = "branch" THEN GetRecord("root", k)
                    ELSE IF st = EcAbsent THEN {} ELSE {Rec(st, "KEEP")}
  BY DEF Below
<1>10. GetRecord("root", k) = IF root # EcAbsent THEN {root} ELSE Loaded(k)
  BY DEF GetRecord
<1>11. \A r : /\ BadLoad("root", k, r) <=> root = EcAbsent /\ r.action = "DEL"
              /\ BadLoad(l, k, r) <=> root = EcAbsent /\ r.action = "DEL"
  BY DEF BadLoad, EcLevel
<1>12. l \in {"root", "branch"}
  BY DEF EcLevel
<1> HIDE DEF st, root
<1>13. Loaded(k) = {} <=> st = EcAbsent
  BY <1>2, <1>7
<1>14. \A r \in Loaded(k) : st # EcAbsent /\ r.val = st
  BY <1>3, <1>7
<1>15. /\ Below(l, k) = {} => /\ View(l, k) = EcAbsent /\ st = EcAbsent /\ root = EcAbsent
       /\ GetRecord(l, k) = {} => View(l, k) = EcAbsent
  BY <1>5, <1>6, <1>8, <1>9, <1>10, <1>12, <1>13
<1>16. ASSUME NEW r \in GetRecord(l, k)
       PROVE  /\ r.val \in EcVal
              /\ r.action # "DEL" => View(l, k) # EcAbsent
              /\ r.action = "DEL" /\ ~ BadLoad(l, k, r) => View(l, k) = EcAbsent
  BY <1>4, <1>5, <1>6, <1>8, <1>11, <1>12, <1>14
<1>17. ASSUME NEW r \in Below(l, k)
       PROVE  /\ r.action # "DEL" => View(l, k) # EcAbsent
              /\ r.action = "DEL" /\ ~ BadLoad("root", k, r) =>
                    /\ l = "branch" /\ View(l, k) = EcAbsent
                    /\ root # EcAbsent /\ root.action = "DEL"
  <2>1. CASE l = "branch"
    BY <1>4, <1>5, <1>9, <1>10, <1>11, <1>14, <2>1
  <2>2. CASE l = "root"
    <3>1. st # EcAbsent /\ r = Rec(st, "KEEP")
      BY <1>9, <2>2
    <3> QED
      BY <1>3, <1>5, <2>2, <3>1
  <2> QED
    BY <1>12, <2>1, <2>2
<1> QED
  BY <1>15, <1>16, <1>17 DEF st, root

(* The level in use gets a record that has the right mark, and the call    *)
(* answers as it should.                                                   *)
LEMMA EcPuts ==
    ASSUME EcInv, NEW k \in EcKey, NEW l, l = EcTop, NEW r \in EcRecord, NEW v, NEW ok, NEW expect,
           v = IF r.action = "DEL" THEN EcAbsent ELSE r.val,
           EcPut(l, k, r, v), EcAnswer(ok, expect), ecUndef' \in BOOLEAN, ecUndef => ecUndef',
           ~ ecUndef' => ok = expect,
           ~ ecUndef' /\ r.action = "ADD" =>
              \/ ecEnt["root"][k] = EcAbsent /\ ecStore[k] = EcAbsent
              \/ ecEnt["root"][k] # EcAbsent /\ ecEnt["root"][k].action = "DEL" /\ l = "branch"
              \/ l = "root" /\ ecStore[k] = EcAbsent
    PROVE  EcInv'
<1>1. /\ ecEnt' = [ecEnt EXCEPT ![l] = [ecEnt[l] EXCEPT ![k] = r]]
      /\ ecRef' = [ecRef EXCEPT ![l] = [ecRef[l] EXCEPT ![k] = v]]
      /\ UNCHANGED <<ecStore, ecOpen>>
  BY DEF EcPut, EcAnswer
<1>2. l \in {"root", "branch"} /\ (l = "branch" <=> ecOpen)
  BY DEF EcTop, EcInv, EcTypeOK
<1>3. r # EcAbsent /\ v \in EcVal \cup {EcAbsent}
  BY EcAssumption DEF EcRecord
<1>4. ecWrong' = FALSE
  BY DEF EcInv, EcAnswer
<1>5. /\ ecEnt'[l] = [ecEnt[l] EXCEPT ![k] = r]
      /\ ecRef'[l] = [ecRef[l] EXCEPT ![k] = v]
      /\ \A m \in EcLevel \ {l} : ecEnt'[m] = ecEnt[m] /\ ecRef'[m] = ecRef[m]
  BY <1>1, <1>2 DEF EcInv, EcTypeOK, EcLevel
<1>6. EcTypeOK'
  <2>1. ecEnt'[l] \in [EcKey -> EcRecord \cup {EcAbsent}]
    BY <1>2, <1>5 DEF EcInv, EcTypeOK, EcLevel
  <2>2. ecRef'[l] \in [EcKey -> EcVal \cup {EcAbsent}]
    BY <1>2, <1>3, <1>5 DEF EcInv, EcTypeOK, EcLevel
  <2> QED
    BY <1>1, <1>2, <1>4, <2>1, <2>2 DEF EcInv, EcTypeOK, EcLevel
<1>7. /\ ecEnt'[l][k] = r /\ ecRef'[l][k] = v
      /\ \A j \in EcKey \ {k} : ecEnt'[l][j] = ecEnt[l][j] /\ ecRef'[l][j] = ecRef[l][j]
      /\ \A j \in EcKey, m \in EcLevel \ {l} : ecEnt'[m][j] = ecEnt[m][j] /\ ecRef'[m][j] = ecRef[m][j]
  BY <1>2, <1>5 DEF EcInv, EcTypeOK, EcLevel
<1>8. EcShut'
  BY <1>1, <1>2, <1>7 DEF EcInv, EcShut, EcLevel
<1>9. ASSUME NEW j \in EcKey, ~ ecUndef'
      PROVE  EcMarks(j)' /\ EcAgrees(j)'
  <2>1. EcMarks(j) /\ EcAgrees(j)
    BY <1>9 DEF EcInv
  <2>2. CASE j # k
    <3>1. \A m \in EcLevel : ecEnt'[m][j] = ecEnt[m][j] /\ ecRef'[m][j] = ecRef[m][j]
      BY <1>7, <2>2
    <3> QED
      BY <1>1, <2>1, <3>1 DEF EcMarks, EcOver, EcAgrees, View, EcLevel
  <2>3. CASE j = k /\ l = "root"
    <3>1. ecEnt["branch"][k] = EcAbsent /\ ecEnt'["branch"][k] = EcAbsent
      BY <1>2, <1>7, <2>3 DEF EcInv, EcShut, EcLevel
    <3>2. EcMarks(k)'
      BY <1>1, <1>7, <1>9, <2>1, <2>3, <3>1 DEF EcMarks, EcOver
    <3>3. EcAgrees(k)'
      BY <1>1, <1>2, <1>3, <1>7, <2>3 DEF EcAgrees, View
    <3> QED
      BY <2>3, <3>2, <3>3
  <2>4. CASE j = k /\ l = "branch"
    <3>1. ecEnt'["root"][k] = ecEnt["root"][k] /\ ecRef'["root"][k] = ecRef["root"][k]
      BY <1>7, <2>4 DEF EcLevel
    <3>2. EcMarks(k)'
      <4>1. /\ ecEnt'["branch"][k] = r /\ UNCHANGED ecStore
            /\ EcOver(ecEnt["branch"][k], ecEnt["root"][k], ecStore[k])
        BY <1>1, <1>7, <2>1, <2>4 DEF EcMarks
      <4>2. r.action = "ADD" => \/ ecEnt["root"][k] = EcAbsent /\ ecStore[k] = EcAbsent
                                \/ ecEnt["root"][k] # EcAbsent /\ ecEnt["root"][k].action = "DEL"
        BY <1>9, <2>4
      <4>3. EcOver(r, ecEnt["root"][k], ecStore[k])
        BY <4>1, <4>2 DEF EcOver
      <4> QED
        BY <3>1, <4>1, <4>3 DEF EcMarks
    <3>3. EcAgrees(k)'
      BY <1>1, <1>2, <1>3, <1>7, <2>1, <2>4, <3>1 DEF EcAgrees, View
    <3> QED
      BY <2>4, <3>2, <3>3
  <2> QED
    BY <1>2, <2>2, <2>3, <2>4
<1> QED
  BY <1>4, <1>6, <1>8, <1>9 DEF EcInv

(* The call changes nothing and answers as it should. *)
LEMMA EcKeeps ==
    ASSUME EcInv, NEW ok, NEW expect, EcSame, EcAnswer(ok, expect),
           ecUndef' \in BOOLEAN, ecUndef => ecUndef', ~ ecUndef' => ok = expect
    PROVE  EcInv'
<1>1. ecWrong' = FALSE
  BY DEF EcInv, EcAnswer
<1>2. UNCHANGED <<ecStore, ecOpen, ecEnt, ecRef>>
  BY DEF EcSame, EcAnswer
<1> QED
  BY <1>1, <1>2 DEF EcInv, EcTypeOK, EcShut, EcMarks, EcOver, EcAgrees, View

(* The record that the level in use has itself. *)
LEMMA EcOwn ==
    ASSUME EcInv, NEW k \in EcKey, NEW l, l = EcTop, ecEnt[l][k] # EcAbsent
    PROVE  /\ ecEnt[l][k] \in EcRecord
           /\ ~ ecUndef => ((ecRef[l][k] # EcAbsent) = (ecEnt[l][k].action # "DEL"))
           /\ ~ ecUndef /\ ecEnt[l][k].action = "ADD" =>
                \/ ecEnt["root"][k] = EcAbsent /\ ecStore[k] = EcAbsent
                \/ ecEnt["root"][k] # EcAbsent /\ ecEnt["root"][k].action = "DEL" /\ l = "branch"
                \/ l = "root" /\ ecStore[k] = EcAbsent
<1>1. l \in {"root", "branch"}
  BY DEF EcTop
<1>2. ecEnt[l][k] \in EcRecord
  BY <1>1 DEF EcInv, EcTypeOK, EcLevel
<1>3. ecEnt[l][k].val \in EcVal /\ ecEnt[l][k].val # EcAbsent
  BY <1>2, EcAssumption DEF EcRecord
<1>4. ~ ecUndef => ecRef[l][k] = View(l, k) /\ EcMarks(k)
  BY EcTopAgrees
<1>5. View(l, k) = IF ecEnt[l][k].action = "DEL" THEN EcAbsent ELSE ecEnt[l][k].val
  BY DEF View
<1>6. (ecEnt[l][k].action # "DEL") = (View(l, k) # EcAbsent)
  BY <1>3, <1>5
<1>7. ~ ecUndef => ((ecRef[l][k] # EcAbsent) = (ecEnt[l][k].action # "DEL"))
  BY <1>4, <1>6
<1>8. ~ ecUndef /\ ecEnt[l][k].action = "ADD" =>
         \/ ecEnt["root"][k] = EcAbsent /\ ecStore[k] = EcAbsent
         \/ ecEnt["root"][k] # EcAbsent /\ ecEnt["root"][k].action = "DEL" /\ l = "branch"
         \/ l = "root" /\ ecStore[k] = EcAbsent
  BY <1>1, <1>4 DEF EcMarks, EcOver
<1> QED
  BY <1>2, <1>7, <1>8

(* Records made and changed. *)
LEMMA EcMade ==
    ASSUME NEW v \in EcVal, NEW a \in {"ADD", "MOD", "DEL"}
    PROVE  \E q \in EcRecord : q = Rec(v, a) /\ q.val = v /\ q.action = a
<1>1. Rec(v, a) \in EcRecord /\ Rec(v, a).val = v /\ Rec(v, a).action = a
  BY DEF Rec, EcRecord
<1> QED
  BY <1>1

LEMMA EcChanged ==
    ASSUME NEW r \in EcRecord
    PROVE  /\ \A v \in EcVal : \E q \in EcRecord : /\ q = [r EXCEPT !.val = v] /\ q.val = v
                                                   /\ q.action = r.action
           /\ \E q \in EcRecord : q = [r EXCEPT !.action = "DEL"] /\ q.action = "DEL"
<1>1. ASSUME NEW v \in EcVal
      PROVE  /\ [r EXCEPT !.val = v] \in EcRecord /\ [r EXCEPT !.val = v].val = v
             /\ [r EXCEPT !.val = v].action = r.action
  BY DEF EcRecord
<1>2. [r EXCEPT !.action = "DEL"] \in EcRecord /\ [r EXCEPT !.action = "DEL"].action = "DEL"
  BY DEF EcRecord
<1> QED
  BY <1>1, <1>2

LEMMA EcGet ==
    ASSUME EcInv, NEW k \in EcKey, NEW v \in EcVal, GetEntry(k, v)
    PROVE  EcInv'
<1> DEFINE l == EcTop
           own == ecEnt[l][k]
           has == ecRef[l][k] # EcAbsent
<1>1. EcTypeOK /\ l \in EcLevel /\ ecUndef \in BOOLEAN
  BY DEF EcInv, EcTypeOK, EcTop, EcLevel
<1>2. ~ ecUndef => ecRef[l][k] = View(l, k)
  BY EcTopAgrees
<1>3. CASE own # EcAbsent /\ UNCHANGED ecUndef /\ own.action # "DEL"
  <2>1. EcPut(l, k, [own EXCEPT !.val = v], v) /\ EcAnswer(TRUE, has)
    BY <1>3 DEF GetEntry
  <2>2. own \in EcRecord /\ (~ ecUndef => has = TRUE)
    BY <1>3, EcOwn
  <2>3. ~ ecUndef /\ own.action = "ADD" =>
           \/ ecEnt["root"][k] = EcAbsent /\ ecStore[k] = EcAbsent
           \/ ecEnt["root"][k] # EcAbsent /\ ecEnt["root"][k].action = "DEL" /\ l = "branch"
           \/ l = "root" /\ ecStore[k] = EcAbsent
    BY <1>3, EcOwn
  <2> HIDE DEF l, own, has
  <2>4. PICK r \in EcRecord : r = [own EXCEPT !.val = v] /\ r.val = v /\ r.action = own.action
    BY <2>2, EcChanged
  <2>5. EcPut(l, k, r, v)
    BY <2>1, <2>4
  <2> QED
    BY <1>1, <1>3, <2>1, <2>2, <2>3, <2>4, <2>5, EcPuts DEF l
<1>4. CASE own # EcAbsent /\ UNCHANGED ecUndef /\ own.action = "DEL"
  <2>1. EcSame /\ EcAnswer(FALSE, has)
    BY <1>4 DEF GetEntry, Copied
  <2>2. ~ ecUndef => has = FALSE
    BY <1>4, EcOwn
  <2> HIDE DEF l, own, has
  <2> QED
    BY <1>1, <1>4, <2>1, <2>2, EcKeeps
<1>5. CASE own = EcAbsent /\ Below(l, k) = {} /\ EcSame /\ UNCHANGED ecUndef /\ EcAnswer(FALSE, has)
  <2>1. ~ ecUndef => has = FALSE
    BY <1>1, <1>2, <1>5, EcFound
  <2> HIDE DEF l, own, has
  <2> QED
    BY <1>1, <1>5, <2>1, EcKeeps
<1>6. ASSUME own = EcAbsent, NEW r \in Below(l, k),
             ecUndef' = (ecUndef \/ BadLoad("root", k, r)),
             IF r.action # "DEL"
             THEN EcPut(l, k, Rec(v, "MOD"), v) /\ EcAnswer(TRUE, has)
             ELSE EcSame /\ EcAnswer(FALSE, has)
      PROVE  EcInv'
  <2>1. ~ ecUndef' => ~ ecUndef /\ (has = (r.action # "DEL"))
    BY <1>1, <1>2, <1>6, EcFound
  <2>2. ecUndef' \in BOOLEAN /\ (ecUndef => ecUndef')
    BY <1>1, <1>6
  <2> HIDE DEF l, own, has
  <2>3. CASE r.action # "DEL"
    <3>1. PICK q \in EcRecord : q = Rec(v, "MOD") /\ q.val = v /\ q.action = "MOD"
      BY EcMade
    <3>2. EcPut(l, k, q, v) /\ EcAnswer(TRUE, has) /\ (~ ecUndef' => has = TRUE)
      BY <1>6, <2>1, <2>3, <3>1
    <3> QED
      BY <2>2, <3>1, <3>2, EcPuts DEF l
  <2>4. CASE r.action = "DEL"
    <3>1. EcSame /\ EcAnswer(FALSE, has) /\ (~ ecUndef' => has = FALSE)
      BY <1>6, <2>1, <2>4
    <3> QED
      BY <2>2, <3>1, EcKeeps
  <2> QED
    BY <2>3, <2>4
<1> QED
  <2>1. \/ own # EcAbsent /\ UNCHANGED ecUndef
        \/ own = EcAbsent /\ Below(l, k) = {} /\ EcSame /\ UNCHANGED ecUndef /\ EcAnswer(FALSE, has)
        \/ /\ own = EcAbsent
           /\ \E r \in Below(l, k) :
                 /\ ecUndef' = (ecUndef \/ BadLoad("root", k, r))
                 /\ IF r.action # "DEL"
                    THEN EcPut(l, k, Rec(v, "MOD"), v) /\ EcAnswer(TRUE, has)
                    ELSE EcSame /\ EcAnswer(FALSE, has)
    BY DEF GetEntry, Copied
  <2> QED
    BY <1>3, <1>4, <1>5, <1>6, <2>1

LEMMA EcAdd ==
    ASSUME EcInv, NEW k \in EcKey, NEW v \in EcVal, AddEntry(k, v)
    PROVE  EcInv'
<1> DEFINE l == EcTop
           own == ecEnt[l][k]
           free == ecRef[l][k] = EcAbsent
<1>1. EcTypeOK /\ l \in EcLevel /\ ecUndef \in BOOLEAN
  BY DEF EcInv, EcTypeOK, EcTop, EcLevel
<1>2. ~ ecUndef => ecRef[l][k] = View(l, k)
  BY EcTopAgrees
<1>3. CASE own # EcAbsent /\ UNCHANGED ecUndef /\ own.action = "DEL"
  <2>1. EcPut(l, k, Rec(v, "MOD"), v) /\ EcAnswer(TRUE, free)
    BY <1>3 DEF AddEntry, AddOver
  <2>2. ~ ecUndef => free = TRUE
    BY <1>3, EcOwn
  <2> HIDE DEF l, own, free
  <2>3. PICK q \in EcRecord : q = Rec(v, "MOD") /\ q.val = v /\ q.action = "MOD"
    BY EcMade
  <2>4. EcPut(l, k, q, v)
    BY <2>1, <2>3
  <2> QED
    BY <1>1, <1>3, <2>1, <2>2, <2>3, <2>4, EcPuts DEF l
<1>4. CASE own # EcAbsent /\ UNCHANGED ecUndef /\ own.action # "DEL"
  <2>1. EcSame /\ EcAnswer(FALSE, free)
    BY <1>4 DEF AddEntry
  <2>2. ~ ecUndef => free = FALSE
    BY <1>4, EcOwn
  <2> HIDE DEF l, own, free
  <2> QED
    BY <1>1, <1>4, <2>1, <2>2, EcKeeps
<1>5. PICK q \in EcRecord : q = Rec(v, "ADD") /\ q.val = v /\ q.action = "ADD"
  BY EcMade
<1>6. CASE /\ own = EcAbsent /\ Below(l, k) = {} /\ UNCHANGED ecUndef
           /\ EcPut(l, k, Rec(v, "ADD"), v) /\ EcAnswer(TRUE, free)
  <2>1. /\ ~ ecUndef => free = TRUE
        /\ ecEnt["root"][k] = EcAbsent /\ ecStore[k] = EcAbsent
    BY <1>1, <1>2, <1>6, EcFound
  <2> HIDE DEF l, own, free
  <2>2. EcPut(l, k, q, v)
    BY <1>5, <1>6
  <2> QED
    BY <1>1, <1>5, <1>6, <2>1, <2>2, EcPuts DEF l
<1>7. ASSUME own = EcAbsent, NEW r \in Below(l, k),
             ecUndef' = (ecUndef \/ BadLoad("root", k, r)),
             IF r.action # "DEL"
             THEN EcSame /\ EcAnswer(FALSE, free)
             ELSE EcPut(l, k, Rec(v, "ADD"), v) /\ EcAnswer(TRUE, free)
      PROVE  EcInv'
  <2>1. ~ ecUndef' => /\ ~ ecUndef /\ (free = (r.action = "DEL"))
                      /\ r.action = "DEL" => /\ l = "branch" /\ ecEnt["root"][k] # EcAbsent
                                             /\ ecEnt["root"][k].action = "DEL"
    BY <1>1, <1>2, <1>7, EcFound
  <2>2. ecUndef' \in BOOLEAN /\ (ecUndef => ecUndef')
    BY <1>1, <1>7
  <2> HIDE DEF l, own, free
  <2>3. CASE r.action = "DEL"
    <3>1. /\ EcPut(l, k, q, v) /\ EcAnswer(TRUE, free) /\ (~ ecUndef' => free = TRUE)
          /\ ~ ecUndef' => /\ l = "branch" /\ ecEnt["root"][k] # EcAbsent
                           /\ ecEnt["root"][k].action = "DEL"
      BY <1>5, <1>7, <2>1, <2>3
    <3> QED
      BY <1>5, <2>2, <3>1, EcPuts DEF l
  <2>4. CASE r.action # "DEL"
    <3>1. EcSame /\ EcAnswer(FALSE, free) /\ (~ ecUndef' => free = FALSE)
      BY <1>7, <2>1, <2>4
    <3> QED
      BY <2>2, <3>1, EcKeeps
  <2> QED
    BY <2>3, <2>4
<1> QED
  <2>1. \/ own # EcAbsent /\ UNCHANGED ecUndef
        \/ /\ own = EcAbsent /\ Below(l, k) = {} /\ UNCHANGED ecUndef
           /\ EcPut(l, k, Rec(v, "ADD"), v) /\ EcAnswer(TRUE, free)
        \/ /\ own = EcAbsent
           /\ \E r \in Below(l, k) :
                 /\ ecUndef' = (ecUndef \/ BadLoad("root", k, r))
                 /\ IF r.action # "DEL"
                    THEN EcSame /\ EcAnswer(FALSE, free)
                    ELSE EcPut(l, k, Rec(v, "ADD"), v) /\ EcAnswer(TRUE, free)
    BY DEF AddEntry
  <2> QED
    BY <1>3, <1>4, <1>6, <1>7, <2>1

LEMMA EcDelete ==
    ASSUME EcInv, NEW k \in EcKey, DeleteEntry(k)
    PROVE  EcInv'
<1> DEFINE l == EcTop
           own == ecEnt[l][k]
           has == ecRef[l][k] # EcAbsent
<1>1. EcTypeOK /\ l \in EcLevel /\ ecUndef \in BOOLEAN
  BY DEF EcInv, EcTypeOK, EcTop, EcLevel
<1>2. ~ ecUndef => ecRef[l][k] = View(l, k)
  BY EcTopAgrees
<1>3. CASE /\ own # EcAbsent /\ UNCHANGED ecUndef /\ EcAnswer(FALSE, FALSE)
           /\ EcPut(l, k, [own EXCEPT !.action = "DEL"], EcAbsent)
  <2>1. own \in EcRecord
    BY <1>3, EcOwn
  <2> HIDE DEF l, own, has
  <2>2. PICK q \in EcRecord : q = [own EXCEPT !.action = "DEL"] /\ q.action = "DEL"
    BY <2>1, EcChanged
  <2>3. EcPut(l, k, q, EcAbsent)
    BY <1>3, <2>2
  <2> QED
    BY <1>1, <1>3, <2>2, <2>3, EcPuts DEF l
<1>4. CASE own = EcAbsent /\ GetRecord(l, k) = {} /\ EcSame /\ UNCHANGED ecUndef /\ EcAnswer(FALSE, has)
  <2>1. ~ ecUndef => has = FALSE
    BY <1>1, <1>2, <1>4, EcFound
  <2> HIDE DEF l, own, has
  <2> QED
    BY <1>1, <1>4, <2>1, EcKeeps
<1>5. ASSUME own = EcAbsent, NEW r \in GetRecord(l, k),
             ecUndef' = (ecUndef \/ BadLoad(l, k, r)),
             IF r.action # "DEL"
             THEN EcPut(l, k, Rec(r.val, "DEL"), EcAbsent) /\ EcAnswer(TRUE, has)
             ELSE EcSame /\ EcAnswer(FALSE, has)
      PROVE  EcInv'
  <2>1. ~ ecUndef' => ~ ecUndef /\ (has = (r.action # "DEL"))
    BY <1>1, <1>2, <1>5, EcFound
  <2>2. ecUndef' \in BOOLEAN /\ (ecUndef => ecUndef') /\ r.val \in EcVal
    BY <1>1, <1>5, EcFound
  <2> HIDE DEF l, own, has
  <2>3. CASE r.action # "DEL"
    <3>1. PICK q \in EcRecord : q = Rec(r.val, "DEL") /\ q.action = "DEL"
      BY <2>2, EcMade
    <3>2. EcPut(l, k, q, EcAbsent) /\ EcAnswer(TRUE, has) /\ (~ ecUndef' => has = TRUE)
      BY <1>5, <2>1, <2>3, <3>1
    <3> QED
      BY <2>2, <3>1, <3>2, EcPuts DEF l
  <2>4. CASE r.action = "DEL"
    <3>1. EcSame /\ EcAnswer(FALSE, has) /\ (~ ecUndef' => has = FALSE)
      BY <1>5, <2>1, <2>4
    <3> QED
      BY <2>2, <3>1, EcKeeps
  <2> QED
    BY <2>3, <2>4
<1> QED
  <2>1. \/ /\ own # EcAbsent /\ UNCHANGED ecUndef /\ EcAnswer(FALSE, FALSE)
           /\ EcPut(l, k, [own EXCEPT !.action = "DEL"], EcAbsent)
        \/ own = EcAbsent /\ GetRecord(l, k) = {} /\ EcSame /\ UNCHANGED ecUndef /\ EcAnswer(FALSE, has)
        \/ /\ own = EcAbsent
           /\ \E r \in GetRecord(l, k) :
                 /\ ecUndef' = (ecUndef \/ BadLoad(l, k, r))
                 /\ IF r.action # "DEL"
                    THEN EcPut(l, k, Rec(r.val, "DEL"), EcAbsent) /\ EcAnswer(TRUE, has)
                    ELSE EcSame /\ EcAnswer(FALSE, has)
    BY DEF DeleteEntry
  <2> QED
    BY <1>3, <1>4, <1>5, <2>1

(* The branch goes and leaves a root whose contents are the right ones. *)
LEMMA EcCloses ==
    ASSUME EcInv, NEW ent \in [EcKey -> EcRecord \cup {EcAbsent}],
           NEW ref \in [EcKey -> EcVal \cup {EcAbsent}], EcClose(ent, ref),
           ~ ecUndef => \A k \in EcKey :
              /\ EcOver(EcAbsent, ent[k], ecStore[k])
              /\ ref[k] = EcHas(ent[k], ecStore[k])
    PROVE  EcInv'
<1>1. /\ ecEnt'["root"] = ent /\ ecEnt'["branch"] = [k \in EcKey |-> EcAbsent]
      /\ ecRef'["root"] = ref /\ ecOpen' = FALSE /\ UNCHANGED <<ecStore, ecUndef, ecWrong>>
  BY DEF EcClose
<1>2. EcTypeOK'
  <2>1. ecEnt' \in [EcLevel -> [EcKey -> EcRecord \cup {EcAbsent}]]
    BY DEF EcClose, EcLevel
  <2>2. ecRef' \in [EcLevel -> [EcKey -> EcVal \cup {EcAbsent}]]
    BY DEF EcClose, EcLevel
  <2> QED
    BY <1>1, <2>1, <2>2 DEF EcInv, EcTypeOK
<1>3. EcShut' /\ ~ ecWrong'
  BY <1>1 DEF EcInv, EcShut
<1>4. ASSUME NEW k \in EcKey, ~ ecUndef'
      PROVE  EcMarks(k)' /\ EcAgrees(k)'
  <2>1. ecEnt'["root"][k] = ent[k] /\ ecEnt'["branch"][k] = EcAbsent /\ ecRef'["root"][k] = ref[k]
    BY <1>1
  <2>2. ~ ecUndef
    BY <1>1, <1>4
  <2>3. EcMarks(k)'
    BY <1>1, <2>1, <2>2 DEF EcMarks, EcOver
  <2>4. EcAgrees(k)'
    BY <1>1, <2>1, <2>2 DEF EcAgrees, View, EcHas
  <2> QED
    BY <2>3, <2>4
<1> QED
  BY <1>2, <1>3, <1>4 DEF EcInv

(* A branch record merged over a root record without a conflict. *)
LEMMA EcMergeOne ==
    ASSUME NEW b \in EcRecord \cup {EcAbsent}, NEW r \in EcRecord \cup {EcAbsent},
           NEW st \in EcVal \cup {EcAbsent}, ~ Conflict(b, r),
           EcOver(b, r, st)
    PROVE  /\ EcOver(EcAbsent, Merge(b, r), st)
           /\ EcHas(IF b # EcAbsent THEN b ELSE r, st) = EcHas(Merge(b, r), st)
<1> USE DEF EcHas, EcOver
<1>1. EcAbsent \notin EcRecord
  BY EcAssumption DEF EcRecord
<1>2. CASE b = EcAbsent
  <2>1. Merge(b, r) = r
    BY <1>2 DEF Merge
  <2> QED
    BY <1>2, <2>1
<1>3. CASE b # EcAbsent /\ r = EcAbsent
  <2>1. Merge(b, r) = b
    BY <1>3 DEF Merge
  <2> QED
    BY <1>3, <2>1
<1>4. ASSUME b # EcAbsent, r # EcAbsent
      PROVE  b \in EcRecord /\ r \in EcRecord /\ b.action \in {"ADD", "MOD", "DEL"}
  BY <1>4 DEF EcRecord
<1>5. CASE b # EcAbsent /\ r # EcAbsent /\ b.action = "ADD"
  <2>1. Merge(b, r) = Rec(b.val, "MOD")
    BY <1>5 DEF Merge
  <2>2. Rec(b.val, "MOD") # EcAbsent /\ Rec(b.val, "MOD").action = "MOD" /\ Rec(b.val, "MOD").val = b.val
    BY <1>1, <1>4, <1>5 DEF Rec, EcRecord
  <2> QED
    BY <1>5, <2>1, <2>2
<1>6. CASE b # EcAbsent /\ r # EcAbsent /\ b.action = "MOD"
  <2>1. Merge(b, r) = b
    BY <1>6 DEF Merge
  <2> QED
    BY <1>6, <2>1
<1>7. CASE b # EcAbsent /\ r # EcAbsent /\ b.action = "DEL"
  <2>1. Merge(b, r) = IF r.action = "ADD" THEN EcAbsent ELSE Rec(r.val, "DEL")
    BY <1>7 DEF Merge
  <2>2. Rec(r.val, "DEL") # EcAbsent /\ Rec(r.val, "DEL").action = "DEL"
    BY <1>1, <1>4, <1>7 DEF Rec, EcRecord
  <2> QED
    BY <1>7, <2>1, <2>2
<1> QED
  BY <1>2, <1>3, <1>4, <1>5, <1>6, <1>7

(* Merge makes records. *)
LEMMA EcMergeType ==
    ASSUME NEW b \in EcRecord \cup {EcAbsent}, NEW r \in EcRecord \cup {EcAbsent}
    PROVE  Merge(b, r) \in EcRecord \cup {EcAbsent}
<1>1. CASE b = EcAbsent \/ r = EcAbsent
  BY <1>1 DEF Merge
<1>2. CASE b # EcAbsent /\ r # EcAbsent
  <2>1. /\ b \in EcRecord /\ r \in EcRecord /\ b.action \in {"ADD", "MOD", "DEL"}
        /\ Rec(b.val, "MOD") \in EcRecord /\ Rec(r.val, "DEL") \in EcRecord
    BY <1>2 DEF EcRecord, Rec
  <2>2. CASE b.action = "ADD"
    BY <1>2, <2>1, <2>2 DEF Merge
  <2>3. CASE b.action = "MOD"
    BY <1>2, <2>1, <2>3 DEF Merge
  <2>4. CASE b.action = "DEL"
    BY <1>2, <2>1, <2>4 DEF Merge
  <2> QED
    BY <2>1, <2>2, <2>3, <2>4
<1> QED
  BY <1>1, <1>2

LEMMA EcMerges ==
    ASSUME EcInv, MergeFromBranch
    PROVE  EcInv'
<1> DEFINE root == ecEnt["root"]
           branch == ecEnt["branch"]
           bad == {k \in EcKey : Conflict(branch[k], root[k])}
           done == {k \in EcKey : \A c \in bad : k < c}
           ent == [k \in EcKey |-> IF k \in done THEN Merge(branch[k], root[k]) ELSE root[k]]
           ref == [k \in EcKey |-> ecRef[IF k \in done THEN "branch" ELSE "root"][k]]
<1>1. EcClose(ent, ref) /\ ecOpen
  BY DEF MergeFromBranch, EcClose
<1>2. \A k \in EcKey : k \in done => ~ Conflict(branch[k], root[k])
  <2> SUFFICES ASSUME NEW k \in EcKey, k \in done, k \in bad PROVE FALSE
    OBVIOUS
  <2>1. k < k /\ k \in Nat
    BY EcAssumption
  <2> QED
    BY <2>1
<1>3. /\ root \in [EcKey -> EcRecord \cup {EcAbsent}]
      /\ branch \in [EcKey -> EcRecord \cup {EcAbsent}]
      /\ ecStore \in [EcKey -> EcVal \cup {EcAbsent}]
      /\ ecRef["root"] \in [EcKey -> EcVal \cup {EcAbsent}]
      /\ ecRef["branch"] \in [EcKey -> EcVal \cup {EcAbsent}]
  BY DEF EcInv, EcTypeOK, EcLevel
<1>4. ~ ecUndef => \A k \in EcKey : EcOver(branch[k], root[k], ecStore[k])
  BY DEF EcInv, EcMarks
<1>5. ~ ecUndef => \A k \in EcKey :
         /\ ecRef["root"][k] = EcHas(root[k], ecStore[k])
         /\ ecRef["branch"][k] = EcHas(IF branch[k] # EcAbsent THEN branch[k] ELSE root[k], ecStore[k])
  BY <1>1 DEF EcInv, EcAgrees, View, EcHas
<1> HIDE DEF root, branch, done
<1>6. ent \in [EcKey -> EcRecord \cup {EcAbsent}]
  BY <1>3, EcMergeType
<1>7. ref \in [EcKey -> EcVal \cup {EcAbsent}]
  BY <1>3
<1>8. ASSUME ~ ecUndef, NEW k \in EcKey
      PROVE  /\ EcOver(EcAbsent, ent[k], ecStore[k])
             /\ ref[k] = EcHas(ent[k], ecStore[k])
  <2>1. CASE k \in done
    <3>1. ent[k] = Merge(branch[k], root[k]) /\ ref[k] = ecRef["branch"][k]
      BY <2>1
    <3>2. /\ branch[k] \in EcRecord \cup {EcAbsent} /\ root[k] \in EcRecord \cup {EcAbsent}
          /\ ecStore[k] \in EcVal \cup {EcAbsent} /\ ~ Conflict(branch[k], root[k])
      BY <1>2, <1>3, <2>1
    <3> DEFINE b == branch[k]
               r == root[k]
               st == ecStore[k]
    <3>3. EcOver(b, r, st)
      BY <1>4, <1>8
    <3>4. ref[k] = EcHas(IF b # EcAbsent THEN b ELSE r, st)
      BY <1>5, <1>8, <3>1
    <3>5. ent[k] = Merge(b, r)
      BY <3>1
    <3>6. /\ b \in EcRecord \cup {EcAbsent} /\ r \in EcRecord \cup {EcAbsent}
          /\ st \in EcVal \cup {EcAbsent} /\ ~ Conflict(b, r)
      BY <3>2
    <3> HIDE DEF ent, ref, b, r, st
    <3>7. /\ EcOver(EcAbsent, Merge(b, r), st)
          /\ EcHas(IF b # EcAbsent THEN b ELSE r, st) = EcHas(Merge(b, r), st)
      BY <3>3, <3>6, EcMergeOne
    <3> QED
      BY <3>4, <3>5, <3>7 DEF st
  <2>2. CASE k \notin done
    BY <1>4, <1>5, <1>8, <2>2 DEF EcOver
  <2> QED
    BY <2>1, <2>2
<1> HIDE DEF ent, ref
<1> QED
  BY <1>1, <1>6, <1>7, <1>8, EcCloses

LEMMA EcInductive == EcInv /\ [EcNext]_ecVars => EcInv'
<1> SUFFICES ASSUME EcInv, [EcNext]_ecVars PROVE EcInv'
  OBVIOUS
<1>1. ASSUME NEW k \in EcKey, NEW v \in EcVal, GetEntry(k, v) PROVE EcInv'
  BY <1>1, EcGet
<1>2. ASSUME NEW k \in EcKey, NEW v \in EcVal, AddEntry(k, v) PROVE EcInv'
  BY <1>2, EcAdd
<1>3. ASSUME NEW k \in EcKey, DeleteEntry(k) PROVE EcInv'
  BY <1>3, EcDelete
<1>4. CASE EcBranch
  <2>1. EcTypeOK'
    BY <1>4 DEF EcBranch, EcInv, EcTypeOK, EcLevel
  <2>2. /\ UNCHANGED <<ecStore, ecEnt, ecUndef, ecWrong>> /\ ecOpen' = TRUE /\ ~ ecOpen
        /\ ecRef'["root"] = ecRef["root"] /\ ecRef'["branch"] = ecRef["root"]
    BY <1>4 DEF EcBranch, EcInv, EcTypeOK, EcLevel
  <2>3. ASSUME NEW k \in EcKey, ~ ecUndef' PROVE EcMarks(k)' /\ EcAgrees(k)'
    <3>1. EcMarks(k) /\ EcAgrees(k) /\ ecEnt["branch"][k] = EcAbsent
      BY <2>2, <2>3 DEF EcInv, EcShut
    <3> QED
      BY <2>2, <3>1 DEF EcMarks, EcOver, EcAgrees, View
  <2> QED
    BY <2>1, <2>2, <2>3 DEF EcInv, EcShut
<1>5. CASE MergeFromBranch
  BY <1>5, EcMerges
<1>6. CASE EcDrop
  <2> DEFINE ent == ecEnt["root"]
             ref == ecRef["root"]
  <2>1. EcClose(ent, ref)
    BY <1>6 DEF EcDrop
  <2>2. /\ ent \in [EcKey -> EcRecord \cup {EcAbsent}]
        /\ ref \in [EcKey -> EcVal \cup {EcAbsent}]
    BY DEF EcInv, EcTypeOK, EcLevel
  <2>3. ~ ecUndef => \A k \in EcKey :
              /\ EcOver(EcAbsent, ent[k], ecStore[k])
              /\ ref[k] = EcHas(ent[k], ecStore[k])
    BY DEF EcInv, EcMarks, EcOver, EcAgrees, View, EcHas
  <2> HIDE DEF ent, ref
  <2> QED
    BY <2>1, <2>2, <2>3, EcCloses
<1>7. CASE UNCHANGED ecVars
  BY <1>7 DEF ecVars, EcInv, EcTypeOK, EcShut, EcMarks, EcOver, EcAgrees, View
<1> QED
  BY <1>1, <1>2, <1>3, <1>4, <1>5, <1>6, <1>7 DEF EcNext

(***************************************************************************)
(* Through any sequence of GetEntry, AddEntry, DeleteEntry, branches,      *)
(* merges and dropped branches, over any keys and values, root and branch  *)
(* have the contents that the calls should have given them, and GetEntry,  *)
(* AddEntry and DeleteEntry answer accordingly, as long as no              *)
(* uninitialized action_ happens to be DEL.                                *)
(***************************************************************************)
THEOREM CacheHasContents == EcSpec => []EcContents
<1>1. EcInv => EcContents
  BY DEF EcInv, EcContents, EcAgrees, EcLevel
<1> QED
  BY <1>1, EcInitInv, EcInductive, PTL DEF EcSpec

(***************************************************************************)
(* MergeFromBranch stops half way at an entry that neither root nor branch *)
(* has any more, and nowhere else: a branch has a record ADD only of an    *)
(* entry that the root does not have.                                      *)
(***************************************************************************)
THEOREM MergeFailsOnce == EcSpec => []EcMergeFails
<1>1. ASSUME EcInv, ~ ecUndef, ecOpen, NEW k \in EcKey, ecEnt["branch"][k] # EcAbsent
      PROVE  LET b == ecEnt["branch"][k]
             IN  /\ b.action = "ADD" => ecRef["root"][k] = EcAbsent
                 /\ Conflict(b, ecEnt["root"][k]) =>
                       ecRef["root"][k] = EcAbsent /\ ecRef["branch"][k] = EcAbsent
  <2> DEFINE b == ecEnt["branch"][k]
             r == ecEnt["root"][k]
  <2>1. EcOver(b, r, ecStore[k]) /\ EcAgrees(k)
    BY <1>1 DEF EcInv, EcMarks
  <2>2. /\ ecRef["root"][k] = IF r = EcAbsent THEN ecStore[k]
                              ELSE IF r.action = "DEL" THEN EcAbsent ELSE r.val
        /\ b.action = "DEL" => ecRef["branch"][k] = EcAbsent
    BY <1>1, <2>1 DEF EcAgrees, View
  <2> HIDE DEF b, r
  <2>3. b.action = "ADD" => ecRef["root"][k] = EcAbsent /\ ~ Conflict(b, r)
    BY <2>1, <2>2, <1>1 DEF EcOver, Conflict, b
  <2>4. Conflict(b, r) => b.action = "DEL" /\ r # EcAbsent /\ r.action = "DEL"
    BY <2>3 DEF Conflict
  <2> QED
    BY <2>2, <2>3, <2>4 DEF b, r
<1>2. EcInv => EcMergeFails
  BY <1>1 DEF EcMergeFails, Conflict
<1> QED
  BY <1>2, EcInitInv, EcInductive, PTL DEF EcSpec

(***************************************************************************)
(* The records of the cache keep their type through every GetEntry,        *)
(* AddEntry, DeleteEntry and merge, the uninitialized action_ included,    *)
(* which is one of the values of its enumeration by then.                  *)
(***************************************************************************)
THEOREM CacheTypes == EcSpec => []EcTypeOK
<1>1. EcInv => EcTypeOK
  BY DEF EcInv
<1> QED
  BY <1>1, EcInitInv, EcInductive, PTL DEF EcSpec

-----------------------------------------------------------------------------
(***************************************************************************)
(* The log files.  A backup's name has the time of its last line at the    *)
(* latest, so that CheckExpiredLog, which goes by the names it listed some *)
(* time ago and takes no lock, deletes expired lines only.                 *)
(***************************************************************************)

LwFile == [lines : SUBSET Nat, head : {0, 1}, at : Nat]

LwWritten ==
    /\ lwNow \in Nat /\ lwWhen \in Seq(Nat)
    /\ \A i \in DOMAIN lwWhen : lwWhen[i] <= lwNow

LwFiled ==
    \A n \in DOMAIN lwFiles :
        /\ lwFiles[n] \in LwFile /\ lwFiles[n].lines \subseteq DOMAIN lwWhen
        /\ n # Live => n[2] \in Nat /\ \A i \in lwFiles[n].lines : lwWhen[i] <= n[2]

LwFound ==
    \A i \in DOMAIN lwWhen \ lwLost :
        lwWhen[i] + LwExpire >= lwNow => \E n \in DOMAIN lwFiles : i \in lwFiles[n].lines

\* What the sweep has listed and what it is about to delete.
LwSwept ==
    /\ \A e \in lwSweep.todo : e.name # Live => e.name[2] \in Nat /\ e.to = e.name[2]
    /\ lwSweep.name \notin {NoName, Live} =>
          lwSweep.name[2] \in Nat /\ lwSweep.name[2] + LwExpire < lwNow

LwSweepType ==
    /\ lwSweep = [todo |-> lwSweep.todo, name |-> lwSweep.name,
                  last |-> lwSweep.last, busy |-> lwSweep.busy]

LwStored == LwFiled /\ LwFound /\ (lwPtr = "open" => Live \in DOMAIN lwFiles)

LwInv ==
    /\ LwWritten /\ LwSwept /\ LwSweepType
    /\ lwPtr # "crashed" => LwStored

LEMMA LwInitInv == LwInit => LwInv
<1> SUFFICES ASSUME LwInit PROVE LwInv
  OBVIOUS
<1>1. lwNow = 0 /\ lwWhen = <<>> /\ lwPtr = "null"
  BY Zenon DEF LwInit
<1>2. lwSweep = [todo |-> {}, name |-> NoName, last |-> 0, busy |-> FALSE]
  BY DEF LwInit
<1>3. LwWritten
  BY <1>1 DEF LwWritten
<1>4. LwSwept /\ LwSweepType
  BY <1>2 DEF LwSwept, LwSweepType
<1>5. LwFiled
  <2>1. PICK names \in SUBSET {Live} : lwFiles = [n \in names |-> Empty(1)]
    BY DEF LwInit
  <2>2. Empty(1) \in LwFile /\ Empty(1).lines = {}
    BY <1>1 DEF Empty, LwFile
  <2> QED
    BY <2>1, <2>2 DEF LwFiled
<1>6. LwFound
  BY <1>1 DEF LwFound
<1> QED
  BY <1>1, <1>3, <1>4, <1>5, <1>6 DEF LwInv, LwStored

(* The line's time joins the others. *)
LEMMA LwLine ==
    ASSUME LwWritten, lwWhen' = Append(lwWhen, lwNow), UNCHANGED lwNow
    PROVE  /\ LwWritten' /\ NewLine \in Nat
           /\ DOMAIN lwWhen' = DOMAIN lwWhen \cup {NewLine} /\ lwWhen'[NewLine] = lwNow
           /\ \A i \in DOMAIN lwWhen : lwWhen'[i] = lwWhen[i]
<1>1. lwNow \in Nat /\ lwWhen \in Seq(Nat) /\ \A i \in DOMAIN lwWhen : lwWhen[i] <= lwNow
  BY DEF LwWritten
<1>2. /\ NewLine \in Nat /\ lwWhen' \in Seq(Nat) /\ Len(lwWhen') = NewLine
      /\ DOMAIN lwWhen' = DOMAIN lwWhen \cup {NewLine}
  BY <1>1 DEF NewLine
<1>3. lwWhen'[NewLine] = lwNow /\ \A i \in DOMAIN lwWhen : lwWhen'[i] = lwWhen[i]
  BY <1>1 DEF NewLine
<1> QED
  BY <1>1, <1>2, <1>3 DEF LwWritten

(* The line goes to the log file, whose lines so far are f's; the other    *)
(* files are those of the given directory.                                 *)
LEMMA LwAppends ==
    ASSUME LwWritten, UNCHANGED lwNow, NEW files, NEW f \in LwFile, NEW size,
           Append1(files, f, size), f.lines \subseteq DOMAIN lwWhen,
           \A n \in DOMAIN files \ {Live} :
              /\ files[n] \in LwFile /\ files[n].lines \subseteq DOMAIN lwWhen
              /\ n[2] \in Nat /\ \A i \in files[n].lines : lwWhen[i] <= n[2],
           \A i \in DOMAIN lwWhen \ lwLost' : lwWhen[i] + LwExpire >= lwNow =>
              i \in f.lines \/ \E n \in DOMAIN files \ {Live} : i \in files[n].lines
    PROVE  LwWritten' /\ LwStored'
<1> DEFINE g == [f EXCEPT !.lines = @ \cup {NewLine}, !.at = lwNow]
<1>1. lwFiles' = Put(files, Live, g) /\ lwWhen' = Append(lwWhen, lwNow)
  BY DEF Append1
<1>2. /\ LwWritten' /\ NewLine \in Nat
      /\ DOMAIN lwWhen' = DOMAIN lwWhen \cup {NewLine} /\ lwWhen'[NewLine] = lwNow
      /\ \A i \in DOMAIN lwWhen : lwWhen'[i] = lwWhen[i]
  BY <1>1, LwLine
<1>3. g \in LwFile /\ g.lines = f.lines \cup {NewLine}
  BY <1>2 DEF LwFile, LwWritten
<1> HIDE DEF g
<1>4. /\ DOMAIN lwFiles' = DOMAIN files \cup {Live} /\ lwFiles'[Live] = g
      /\ \A n \in DOMAIN files \ {Live} : lwFiles'[n] = files[n]
  BY <1>1 DEF Put
<1>5. LwFiled'
  <2> SUFFICES ASSUME NEW n \in DOMAIN lwFiles'
               PROVE  /\ lwFiles'[n] \in LwFile /\ lwFiles'[n].lines \subseteq DOMAIN lwWhen'
                      /\ n # Live => n[2] \in Nat /\ \A i \in lwFiles'[n].lines : lwWhen'[i] <= n[2]
    BY DEF LwFiled
  <2>1. CASE n = Live
    BY <1>2, <1>3, <1>4, <2>1
  <2>2. CASE n # Live
    BY <1>2, <1>4, <2>2
  <2> QED
    BY <2>1, <2>2
<1>6. LwFound'
  <2> SUFFICES ASSUME NEW i \in DOMAIN lwWhen' \ lwLost', lwWhen'[i] + LwExpire >= lwNow
               PROVE  \E n \in DOMAIN lwFiles' : i \in lwFiles'[n].lines
    BY DEF LwFound
  <2>1. CASE i = NewLine
    BY <1>3, <1>4, <2>1
  <2>2. CASE i \in DOMAIN lwWhen
    <3>1. i \in f.lines \/ \E n \in DOMAIN files \ {Live} : i \in files[n].lines
      BY <1>2, <2>2
    <3> QED
      BY <1>3, <1>4, <3>1
  <2> QED
    BY <1>2, <2>1, <2>2
<1> QED
  BY <1>2, <1>4, <1>5, <1>6 DEF LwStored

(* The directory of a rotation: the lines of the log file are in a backup  *)
(* named after now, or given up.                                           *)
LEMMA LwBacksUp ==
    ASSUME LwWritten, LwStored, NEW how \in BackupWays,
           lwLost' = lwLost \cup Dropped(how)
    PROVE  /\ \A n \in DOMAIN BackedUp(how) \ {Live} :
                 /\ BackedUp(how)[n] \in LwFile /\ BackedUp(how)[n].lines \subseteq DOMAIN lwWhen
                 /\ n[2] \in Nat /\ \A i \in BackedUp(how)[n].lines : lwWhen[i] <= n[2]
           /\ \A i \in DOMAIN lwWhen \ lwLost' : lwWhen[i] + LwExpire >= lwNow =>
                 \E n \in DOMAIN BackedUp(how) \ {Live} : i \in BackedUp(how)[n].lines
<1> DEFINE b == Backup(lwBegin, lwNow)
           rest == IF how = "moved" THEN Without(Live) ELSE lwFiles
           copy == IF how = "half" THEN Empty(0) ELSE lwFiles[Live]
<1>1. b # Live /\ b[2] = lwNow /\ lwNow \in Nat
  BY DEF Backup, Live, LwWritten
<1>2. CASE how = "failed"
  <2>1. BackedUp(how) = lwFiles /\ Dropped(how) = LinesOf(Live)
    BY <1>2 DEF BackedUp, Dropped
  <2> QED
    BY <2>1 DEF LwStored, LwFiled, LwFound, LinesOf
<1>3. CASE Live \notin DOMAIN lwFiles
  <2>1. BackedUp(how) = lwFiles
    BY <1>3 DEF BackedUp
  <2> QED
    BY <1>3, <2>1 DEF LwStored, LwFiled, LwFound
<1>4. CASE how # "failed" /\ Live \in DOMAIN lwFiles
  <2>1. /\ BackedUp(how) = Put(rest, b, copy) /\ LinesOf(b) \subseteq Dropped(how)
        /\ how = "half" => LinesOf(Live) \subseteq Dropped(how)
    BY <1>4 DEF BackedUp, Dropped
  <2>2. /\ DOMAIN rest \cup {Live} = DOMAIN lwFiles
        /\ \A n \in DOMAIN rest : rest[n] = lwFiles[n]
    BY <1>4 DEF Without
  <2>3. copy \in LwFile /\ copy.lines \subseteq DOMAIN lwWhen
    BY <1>1, <1>4 DEF LwStored, LwFiled, LwFile, Empty
  <2>4. how # "half" => copy = lwFiles[Live]
    OBVIOUS
  <2> HIDE DEF rest, b, copy
  <2>5. /\ DOMAIN BackedUp(how) = DOMAIN rest \cup {b}
        /\ BackedUp(how)[b] = copy
        /\ \A n \in DOMAIN rest \ {b} : BackedUp(how)[n] = rest[n]
    BY <2>1 DEF Put
  <2>6. \A i \in copy.lines : lwWhen[i] <= b[2]
    BY <1>1, <2>3 DEF LwWritten
  <2>7. ASSUME NEW n \in DOMAIN BackedUp(how) \ {Live}
        PROVE  /\ BackedUp(how)[n] \in LwFile /\ BackedUp(how)[n].lines \subseteq DOMAIN lwWhen
               /\ n[2] \in Nat /\ \A i \in BackedUp(how)[n].lines : lwWhen[i] <= n[2]
    <3>1. CASE n = b
      BY <1>1, <2>5, <2>6, <2>3, <3>1
    <3>2. CASE n # b
      <4>1. n \in DOMAIN lwFiles /\ n # Live /\ BackedUp(how)[n] = lwFiles[n]
        BY <2>2, <2>5, <3>2
      <4> QED
        BY <4>1 DEF LwStored, LwFiled
    <3> QED
      BY <3>1, <3>2
  <2>8. ASSUME NEW i \in DOMAIN lwWhen \ lwLost', lwWhen[i] + LwExpire >= lwNow
        PROVE  \E n \in DOMAIN BackedUp(how) \ {Live} : i \in BackedUp(how)[n].lines
    <3>1. i \notin lwLost /\ i \notin LinesOf(b)
      BY <2>1, <2>8
    <3>2. PICK n \in DOMAIN lwFiles : i \in lwFiles[n].lines
      BY <2>8, <3>1 DEF LwStored, LwFound
    <3>3. n # b
      BY <3>1, <3>2 DEF LinesOf
    <3>4. CASE n = Live
      <4>1. how # "half"
        BY <2>1, <2>8, <3>2, <3>4 DEF LinesOf
      <4> QED
        BY <1>1, <2>5, <2>4, <3>2, <3>4, <4>1
    <3>5. CASE n # Live
      BY <2>2, <2>5, <3>2, <3>3, <3>5
    <3> QED
      BY <3>4, <3>5
  <2> QED
    BY <2>7, <2>8
<1> QED
  BY <1>2, <1>3, <1>4

(* Write: the line goes to the log file, and a rotation takes the lines    *)
(* before it to a backup.                                                  *)
LEMMA LwWrites ==
    ASSUME LwInv, Write, UNCHANGED lwNow
    PROVE  LwWritten' /\ (lwPtr' # "crashed" => LwStored')
<1>1. LwWritten
  BY DEF LwInv
<1>2. CASE Plain /\ lwPtr = "open"
  <2>1. /\ LwStored /\ Append1(lwFiles, lwFiles[Live], OpenSize) /\ lwLost' = lwLost
        /\ Live \in DOMAIN lwFiles
    BY <1>2 DEF Plain, LwInv, LwStored
  <2>2. lwFiles[Live] \in LwFile /\ lwFiles[Live].lines \subseteq DOMAIN lwWhen
    BY <2>1 DEF LwStored, LwFiled
  <2>3. \A n \in DOMAIN lwFiles \ {Live} :
           /\ lwFiles[n] \in LwFile /\ lwFiles[n].lines \subseteq DOMAIN lwWhen
           /\ n[2] \in Nat /\ \A i \in lwFiles[n].lines : lwWhen[i] <= n[2]
    BY <2>1 DEF LwStored, LwFiled
  <2>4. \A i \in DOMAIN lwWhen \ lwLost' : lwWhen[i] + LwExpire >= lwNow =>
           i \in lwFiles[Live].lines \/ \E n \in DOMAIN lwFiles \ {Live} : i \in lwFiles[n].lines
    BY <2>1 DEF LwStored, LwFound
  <2> QED
    BY <1>1, <2>1, <2>2, <2>3, <2>4, LwAppends
<1>3. CASE Plain /\ lwPtr = "unlinked"
  <2>1. /\ LwStored /\ lwWhen' = Append(lwWhen, lwNow) /\ lwLost' = lwLost \cup {NewLine}
        /\ UNCHANGED <<lwFiles, lwPtr>>
    BY <1>3 DEF Plain, LwInv
  <2>2. /\ LwWritten' /\ DOMAIN lwWhen' = DOMAIN lwWhen \cup {NewLine}
        /\ \A i \in DOMAIN lwWhen : lwWhen'[i] = lwWhen[i]
    BY <1>1, <2>1, LwLine
  <2>3. LwFiled'
    BY <2>1, <2>2 DEF LwStored, LwFiled
  <2>4. LwFound'
    BY <2>1, <2>2 DEF LwStored, LwFound
  <2> QED
    BY <1>3, <2>1, <2>2, <2>3, <2>4 DEF LwStored
<1>4. ASSUME NEW how \in BackupWays, Rotated(how), lwPtr' # "crashed"
      PROVE  LwWritten' /\ LwStored'
  <2>1. /\ lwPtr # "crashed" /\ Append1(BackedUp(how), Empty(1), 1)
        /\ lwLost' = lwLost \cup Dropped(how)
    BY <1>4 DEF Rotated
  <2>2. LwStored
    BY <2>1 DEF LwInv
  <2>3. Empty(1) \in LwFile /\ Empty(1).lines \subseteq DOMAIN lwWhen
    BY <1>1 DEF Empty, LwFile, LwWritten
  <2> DEFINE files == BackedUp(how)
             f == Empty(1)
  <2>4. \A n \in DOMAIN files \ {Live} :
           /\ files[n] \in LwFile /\ files[n].lines \subseteq DOMAIN lwWhen
           /\ n[2] \in Nat /\ \A i \in files[n].lines : lwWhen[i] <= n[2]
    BY <1>1, <2>1, <2>2, LwBacksUp
  <2>5. \A i \in DOMAIN lwWhen \ lwLost' : lwWhen[i] + LwExpire >= lwNow =>
           i \in f.lines \/ \E n \in DOMAIN files \ {Live} : i \in files[n].lines
    BY <1>1, <2>1, <2>2, LwBacksUp
  <2>6. f \in LwFile /\ f.lines \subseteq DOMAIN lwWhen /\ Append1(files, f, 1)
    BY <2>1, <2>3
  <2> HIDE DEF files, f
  <2> QED
    BY <1>1, <2>4, <2>5, <2>6, LwAppends
<1>5. ASSUME NEW how \in BackupWays, Rotated(how), lwPtr' = "crashed"
      PROVE  LwWritten'
  <2>1. UNCHANGED lwWhen
    BY <1>5 DEF Rotated
  <2> QED
    BY <1>1, <2>1 DEF LwWritten
<1>6. CASE NotReady
  BY <1>1, <1>6 DEF NotReady, LwInv, LwWritten, LwStored, LwFiled, LwFound
<1> QED
  BY <1>2, <1>3, <1>4, <1>5, <1>6 DEF Write, Plain

(* Initialize: the log file goes on, or starts anew and gives its lines up. *)
LEMMA LwOpens ==
    ASSUME LwInv, NEW open_mode \in BOOLEAN, Initialize(open_mode)
    PROVE  LwStored'
<1> DEFINE old == open_mode /\ Live \in DOMAIN lwFiles
           f == IF old THEN lwFiles[Live] ELSE Empty(0)
<1>1. /\ LwStored /\ lwFiles' = Put(lwFiles, Live, f) /\ UNCHANGED <<lwNow, lwWhen>>
      /\ lwLost' = IF open_mode THEN lwLost ELSE lwLost \cup LinesOf(Live)
  BY DEF Initialize, LwInv
<1>2. /\ DOMAIN lwFiles' = DOMAIN lwFiles \cup {Live} /\ lwFiles'[Live] = f
      /\ \A n \in DOMAIN lwFiles \ {Live} : lwFiles'[n] = lwFiles[n]
  BY <1>1 DEF Put
<1>3. Empty(0) \in LwFile /\ Empty(0).lines = {}
  BY DEF Empty, LwFile, LwInv, LwWritten
<1>4. /\ f \in LwFile /\ f.lines \subseteq DOMAIN lwWhen
      /\ open_mode /\ Live \in DOMAIN lwFiles => f.lines = lwFiles[Live].lines
  BY <1>1, <1>3 DEF LwStored, LwFiled
<1> HIDE DEF f
<1>5. LwFiled'
  BY <1>1, <1>2, <1>4 DEF LwStored, LwFiled
<1>6. LwFound'
  <2> SUFFICES ASSUME NEW i \in DOMAIN lwWhen \ lwLost', lwWhen[i] + LwExpire >= lwNow
               PROVE  \E n \in DOMAIN lwFiles' : i \in lwFiles'[n].lines
    BY <1>1 DEF LwFound
  <2>1. i \notin lwLost
    BY <1>1
  <2>2. PICK n \in DOMAIN lwFiles : i \in lwFiles[n].lines
    BY <1>1, <2>1 DEF LwStored, LwFound
  <2>3. CASE n = Live
    <3>1. open_mode
      BY <1>1, <2>2, <2>3 DEF LinesOf
    <3> QED
      BY <1>2, <1>4, <2>2, <2>3, <3>1
  <2>4. CASE n # Live
    BY <1>2, <2>2, <2>4
  <2> QED
    BY <2>3, <2>4
<1> QED
  BY <1>2, <1>5, <1>6 DEF LwStored

(* File::Delete: an expired backup, or the log file with its lines. *)
LEMMA LwDeletes ==
    ASSUME LwInv, SweepDelete
    PROVE  LwStored'
<1>1. /\ LwStored /\ LwWritten /\ LwSwept /\ UNCHANGED <<lwNow, lwWhen>> /\ lwSweep.name # NoName
  BY DEF SweepDelete, LwInv
<1>2. CASE UNCHANGED <<lwFiles, lwPtr, lwLost>>
  BY <1>1, <1>2 DEF LwStored, LwFiled, LwFound
<1>3. CASE ~ UNCHANGED <<lwFiles, lwPtr, lwLost>>
  <2> DEFINE name == lwSweep.name
  <2>1. /\ name \in DOMAIN lwFiles /\ lwFiles' = Without(name)
        /\ name = Live => /\ lwPtr' = IF lwPtr = "open" THEN "unlinked" ELSE lwPtr
                          /\ lwLost' = lwLost \cup LinesOf(Live)
        /\ name # Live => UNCHANGED <<lwPtr, lwLost>>
    BY <1>3 DEF SweepDelete
  <2>2. /\ DOMAIN lwFiles' = DOMAIN lwFiles \ {name}
        /\ \A n \in DOMAIN lwFiles \ {name} : lwFiles'[n] = lwFiles[n]
    BY <2>1 DEF Without
  <2>3. name # Live => name[2] \in Nat /\ name[2] + LwExpire < lwNow
    BY <1>1 DEF LwSwept
  <2> HIDE DEF name
  <2>4. LwFiled'
    BY <1>1, <2>2 DEF LwStored, LwFiled
  <2>5. LwFound'
    <3> SUFFICES ASSUME NEW i \in DOMAIN lwWhen \ lwLost', lwWhen[i] + LwExpire >= lwNow
                 PROVE  \E n \in DOMAIN lwFiles' : i \in lwFiles'[n].lines
      BY <1>1 DEF LwFound
    <3>1. i \notin lwLost
      BY <2>1
    <3>2. PICK n \in DOMAIN lwFiles : i \in lwFiles[n].lines
      BY <1>1, <3>1 DEF LwStored, LwFound
    <3>3. n # name
      <4> SUFFICES ASSUME n = name PROVE FALSE
        OBVIOUS
      <4>1. name # Live
        BY <2>1, <3>2 DEF LinesOf
      <4>2. lwWhen[i] <= name[2] /\ lwWhen[i] \in Nat /\ lwNow \in Nat
        BY <1>1, <3>2, <4>1 DEF LwStored, LwFiled, LwWritten
      <4> QED
        BY <2>3, <4>1, <4>2, LwAssumption
    <3> QED
      BY <2>2, <3>2, <3>3
  <2>6. lwPtr' = "open" => Live \in DOMAIN lwFiles'
    BY <1>1, <2>1, <2>2 DEF LwStored
  <2> QED
    BY <2>4, <2>5, <2>6 DEF LwStored
<1> QED
  BY <1>2, <1>3

LEMMA LwInductive == LwInv /\ [LwNext]_lwVars => LwInv'
<1> SUFFICES ASSUME LwInv, [LwNext]_lwVars PROVE LwInv'
  OBVIOUS
<1>1. CASE LwTick
  <2>1. /\ lwNow \in Nat /\ lwNow' = lwNow + 1
        /\ UNCHANGED <<lwFiles, lwPtr, lwWhen, lwLost, lwSweep>>
    BY <1>1 DEF LwTick, LwInv, LwWritten
  <2>2. LwWritten'
    BY <2>1 DEF LwInv, LwWritten
  <2>3. LwSwept'
    BY <2>1, LwAssumption DEF LwInv, LwSwept
  <2>4. LwSweepType' /\ (LwFiled => LwFiled')
    BY <2>1 DEF LwInv, LwSweepType, LwFiled
  <2>5. LwFound => LwFound'
    <3> SUFFICES ASSUME LwFound, NEW i \in DOMAIN lwWhen \ lwLost, lwWhen[i] + LwExpire >= lwNow + 1
                 PROVE  \E n \in DOMAIN lwFiles : i \in lwFiles[n].lines
      BY <2>1 DEF LwFound
    <3>1. lwWhen[i] \in Nat
      BY DEF LwInv, LwWritten
    <3>2. lwWhen[i] + LwExpire >= lwNow
      BY <2>1, <3>1, LwAssumption
    <3> QED
      BY <3>2 DEF LwFound
  <2> QED
    BY <2>1, <2>2, <2>3, <2>4, <2>5 DEF LwInv, LwStored
<1>2. ASSUME NEW open_mode \in BOOLEAN, Initialize(open_mode) PROVE LwInv'
  <2>1. UNCHANGED <<lwNow, lwWhen, lwSweep>>
    BY <1>2 DEF Initialize
  <2>2. LwStored'
    BY <1>2, LwOpens
  <2> QED
    BY <2>1, <2>2 DEF LwInv, LwWritten, LwSwept, LwSweepType
<1>3. CASE LwExit
  <2>1. UNCHANGED <<lwNow, lwFiles, lwWhen, lwLost, lwSweep>> /\ lwPtr' = "null" /\ lwPtr # "crashed"
    BY <1>3 DEF LwExit
  <2> QED
    BY <2>1 DEF LwInv, LwWritten, LwSwept, LwSweepType, LwStored, LwFiled, LwFound
<1>4. CASE LogStub
  <2>1. Write /\ UNCHANGED <<lwNow, lwSweep>>
    BY <1>4 DEF LogStub
  <2>2. LwWritten' /\ (lwPtr' # "crashed" => LwStored')
    BY <2>1, LwWrites
  <2> QED
    BY <2>1, <2>2 DEF LwInv, LwSwept, LwSweepType
<1>5. CASE CheckExpiredLog
  <2>1. UNCHANGED <<lwNow, lwFiles, lwPtr, lwWhen, lwLost>> /\ lwPtr # "crashed"
    BY <1>5 DEF CheckExpiredLog
  <2>2. LwWritten' /\ LwStored' /\ LwFiled
    BY <2>1 DEF LwInv, LwWritten, LwStored, LwFiled, LwFound
  <2>3. /\ lwSweep'.todo = {[name |-> n, to |-> TimeTo(n)] : n \in DOMAIN lwFiles}
        /\ lwSweep'.name = lwSweep.name /\ LwSweepType'
    BY <1>5 DEF CheckExpiredLog, LwInv, LwSweepType
  <2>4. ASSUME NEW e \in lwSweep'.todo, e.name # Live
        PROVE  e.name[2] \in Nat /\ e.to = e.name[2]
    <3>1. PICK n \in DOMAIN lwFiles : e = [name |-> n, to |-> TimeTo(n)]
      BY <2>3
    <3>2. e.name = n /\ e.to = TimeTo(n)
      BY <3>1
    <3> QED
      BY <2>2, <2>4, <3>2 DEF LwFiled, TimeTo
  <2>5. LwSwept'
    BY <2>1, <2>3, <2>4 DEF LwInv, LwSwept
  <2> QED
    BY <2>1, <2>2, <2>3, <2>5 DEF LwInv
<1>6. CASE SweepItem
  <2>1. UNCHANGED lwNow /\ lwPtr # "crashed"
    BY <1>6 DEF SweepItem
  <2>2. PICK e \in lwSweep.todo :
           IF e.to + LwExpire < lwNow
           THEN /\ Write
                /\ lwSweep' = [lwSweep EXCEPT !.todo = @ \ {e}, !.name = e.name]
           ELSE /\ lwSweep' = [lwSweep EXCEPT !.todo = @ \ {e}]
                /\ UNCHANGED <<lwFiles, lwPtr, lwSize, lwBegin, lwWhen, lwLost>>
    BY <1>6, Zenon DEF SweepItem
  <2>3. CASE /\ e.to + LwExpire < lwNow /\ Write
             /\ lwSweep' = [lwSweep EXCEPT !.todo = @ \ {e}, !.name = e.name]
    <3>1. LwWritten' /\ (lwPtr' # "crashed" => LwStored')
      BY <2>1, <2>3, LwWrites
    <3>2. lwSweep'.todo = lwSweep.todo \ {e} /\ lwSweep'.name = e.name /\ LwSweepType'
      BY <2>3 DEF LwInv, LwSweepType
    <3>3. LwSwept'
      BY <2>1, <2>3, <3>2 DEF LwInv, LwSwept
    <3> QED
      BY <3>1, <3>2, <3>3 DEF LwInv
  <2>4. CASE /\ lwSweep' = [lwSweep EXCEPT !.todo = @ \ {e}]
             /\ UNCHANGED <<lwFiles, lwPtr, lwSize, lwBegin, lwWhen, lwLost>>
    <3>1. LwWritten' /\ LwStored'
      BY <2>1, <2>4 DEF LwInv, LwWritten, LwStored, LwFiled, LwFound
    <3>2. lwSweep'.todo = lwSweep.todo \ {e} /\ lwSweep'.name = lwSweep.name /\ LwSweepType'
      BY <2>4 DEF LwInv, LwSweepType
    <3>3. LwSwept'
      BY <2>1, <3>2 DEF LwInv, LwSwept
    <3> QED
      BY <3>1, <3>2, <3>3 DEF LwInv
  <2> QED
    BY <2>2, <2>3, <2>4
<1>7. CASE SweepDelete
  <2>1. LwStored' /\ UNCHANGED <<lwNow, lwWhen>>
    BY <1>7, LwDeletes DEF SweepDelete
  <2>2. lwSweep'.todo = lwSweep.todo /\ lwSweep'.name = NoName /\ LwSweepType'
    BY <1>7 DEF SweepDelete, LwInv, LwSweepType
  <2>3. LwSwept'
    BY <2>1, <2>2 DEF LwInv, LwSwept
  <2> QED
    BY <2>1, <2>2, <2>3 DEF LwInv, LwWritten
<1>8. CASE SweepEnd
  <2>1. UNCHANGED <<lwNow, lwFiles, lwPtr, lwWhen, lwLost>>
    BY <1>8 DEF SweepEnd
  <2>2. lwSweep'.todo = lwSweep.todo /\ lwSweep'.name = lwSweep.name /\ LwSweepType'
    BY <1>8 DEF SweepEnd, LwInv, LwSweepType
  <2>3. LwSwept'
    BY <2>1, <2>2 DEF LwInv, LwSwept
  <2> QED
    BY <2>1, <2>2, <2>3 DEF LwInv, LwWritten, LwStored, LwFiled, LwFound
<1>9. CASE UNCHANGED lwVars
  BY <1>9 DEF lwVars, LwInv, LwWritten, LwSwept, LwSweepType, LwStored, LwFiled, LwFound
<1> QED
  BY <1>1, <1>2, <1>3, <1>4, <1>5, <1>6, <1>7, <1>8, <1>9 DEF LwNext

(***************************************************************************)
(* A line younger than expire_days_ is in a file of the log directory      *)
(* through any sequence of rotations, restarts and sweeps, for every       *)
(* capacity and expiry, unless its file was truncated, replaced by a       *)
(* backup of the same name or deleted while it was the open one: a sweep   *)
(* that works on an old listing never deletes a young backup.              *)
(***************************************************************************)
THEOREM LogLinesAreKept == LwSpec => []LwKept
<1>1. LwInv => LwKept
  BY DEF LwInv, LwStored, LwFound, LwKept
<1> QED
  BY <1>1, LwInitInv, LwInductive, PTL DEF LwSpec

(* Files, times and lines stay within the bounds; a file that a rotation   *)
(* leaves behind when its fopen failed as well.                            *)
LwFit(f, when) == f \in LwFile /\ f.lines \subseteq DOMAIN when /\ f.at <= LwMaxTime

LwBounded ==
    /\ lwNow \in 0 .. LwMaxTime /\ lwBegin \in 0 .. LwMaxTime
    /\ Len(lwWhen) <= LwMaxLines /\ lwLost \subseteq DOMAIN lwWhen
    /\ \A n \in DOMAIN lwFiles : LwFit(lwFiles[n], lwWhen)
    /\ lwPtr \in {"null", "open", "unlinked", "crashed"}
    /\ lwPtr = "open" => Live \in DOMAIN lwFiles
    /\ lwSweep.busy \in BOOLEAN

LEMMA LwInitBounded == LwInit => LwBounded
<1> SUFFICES ASSUME LwInit PROVE LwBounded
  OBVIOUS
<1>1. /\ lwNow = 0 /\ lwBegin = 0 /\ lwWhen = <<>> /\ lwLost = {} /\ lwPtr = "null"
      /\ lwSweep.busy = FALSE
  BY DEF LwInit
<1>2. PICK names \in SUBSET {Live} : lwFiles = [n \in names |-> Empty(1)]
  BY DEF LwInit
<1>3. LwFit(Empty(1), lwWhen)
  BY <1>1, LwAssumption DEF Empty, LwFit, LwFile
<1>4. \A n \in DOMAIN lwFiles : LwFit(lwFiles[n], lwWhen)
  BY <1>2, <1>3
<1>5. lwNow \in 0 .. LwMaxTime /\ lwBegin \in 0 .. LwMaxTime /\ Len(lwWhen) <= LwMaxLines
  BY <1>1, LwAssumption
<1>6. lwSweep.busy \in BOOLEAN
  BY <1>1, Zenon
<1> QED
  BY <1>1, <1>4, <1>5, <1>6 DEF LwBounded

(* The directory of a rotation has files of the directory before it. *)
LEMMA LwBackupFits ==
    ASSUME LwBounded, NEW how \in BackupWays
    PROVE  /\ \A n \in DOMAIN BackedUp(how) : LwFit(BackedUp(how)[n], lwWhen)
           /\ Dropped(how) \subseteq DOMAIN lwWhen
<1>1. \A n \in DOMAIN lwFiles : LwFit(lwFiles[n], lwWhen)
  BY DEF LwBounded
<1>2. \A n : LinesOf(n) \subseteq DOMAIN lwWhen
  BY <1>1 DEF LinesOf, LwFit
<1>3. CASE how = "failed" \/ Live \notin DOMAIN lwFiles
  BY <1>1, <1>2, <1>3 DEF BackedUp, Dropped
<1>4. CASE ~ (how = "failed" \/ Live \notin DOMAIN lwFiles)
  <2> DEFINE rest == IF how = "moved" THEN Without(Live) ELSE lwFiles
             b == Backup(lwBegin, lwNow)
             copy == IF how = "half" THEN Empty(0) ELSE lwFiles[Live]
  <2>1. BackedUp(how) = Put(rest, b, copy)
    BY <1>4 DEF BackedUp
  <2>2. \A n \in DOMAIN rest : LwFit(rest[n], lwWhen)
    BY <1>1 DEF Without
  <2>3. LwFit(copy, lwWhen)
    BY <1>1, <1>4 DEF LwBounded, LwFit, LwFile, Empty
  <2> HIDE DEF rest, b, copy
  <2>4. \A n \in DOMAIN BackedUp(how) : LwFit(BackedUp(how)[n], lwWhen)
    BY <2>1, <2>2, <2>3 DEF Put
  <2> QED
    BY <1>2, <2>4 DEF Dropped
<1> QED
  BY <1>3, <1>4

(* A line that is written: the files fit the longer lwWhen. *)
LEMMA LwAppendFits ==
    ASSUME LwWritten, LwBounded, UNCHANGED lwNow, NewLine <= LwMaxLines,
           NEW files, NEW f, NEW size, Append1(files, f, size), LwFit(f, lwWhen),
           \A n \in DOMAIN files : LwFit(files[n], lwWhen)
    PROVE  /\ Live \in DOMAIN lwFiles' /\ \A n \in DOMAIN lwFiles' : LwFit(lwFiles'[n], lwWhen')
           /\ Len(lwWhen') <= LwMaxLines /\ DOMAIN lwWhen \subseteq DOMAIN lwWhen'
<1> DEFINE g == [f EXCEPT !.lines = @ \cup {NewLine}, !.at = lwNow]
<1>1. lwFiles' = Put(files, Live, g) /\ lwWhen' = Append(lwWhen, lwNow)
  BY DEF Append1
<1>2. NewLine \in Nat /\ DOMAIN lwWhen' = DOMAIN lwWhen \cup {NewLine}
  BY <1>1, LwLine
<1>3. Len(lwWhen') <= LwMaxLines
  BY <1>1 DEF LwWritten, NewLine
<1>4. lwNow \in Nat /\ lwNow <= LwMaxTime
  BY LwAssumption DEF LwBounded
<1>5. g \in LwFile /\ g.lines = f.lines \cup {NewLine} /\ g.at = lwNow
  BY <1>2, <1>4 DEF LwFile, LwFit
<1> HIDE DEF g
<1>6. /\ DOMAIN lwFiles' = DOMAIN files \cup {Live} /\ lwFiles'[Live] = g
      /\ \A n \in DOMAIN files \ {Live} : lwFiles'[n] = files[n]
  BY <1>1 DEF Put
<1>7. ASSUME NEW n \in DOMAIN lwFiles' PROVE LwFit(lwFiles'[n], lwWhen')
  <2>1. CASE n = Live
    <3>1. g.lines \subseteq DOMAIN lwWhen' /\ g.at <= LwMaxTime
      BY <1>2, <1>4, <1>5 DEF LwFit
    <3> QED
      BY <1>5, <1>6, <2>1, <3>1 DEF LwFit
  <2>2. CASE n # Live
    <3>1. n \in DOMAIN files /\ lwFiles'[n] = files[n]
      BY <1>6, <2>2
    <3> QED
      BY <1>2, <3>1 DEF LwFit
  <2> QED
    BY <2>1, <2>2
<1> QED
  BY <1>2, <1>3, <1>6, <1>7

LEMMA LwWriteBounded ==
    ASSUME LwInv, LwBounded, Write, UNCHANGED lwNow, lwSweep'.busy \in BOOLEAN
    PROVE  LwBounded'
<1>1. /\ LwWritten /\ NewLine <= LwMaxLines /\ lwNow \in 0 .. LwMaxTime
      /\ \A n \in DOMAIN lwFiles : LwFit(lwFiles[n], lwWhen)
  BY DEF LwInv, LwBounded, Write
<1>2. CASE Plain /\ lwPtr = "open"
  <2>1. /\ Append1(lwFiles, lwFiles[Live], OpenSize) /\ UNCHANGED <<lwLost, lwPtr, lwBegin>>
        /\ Live \in DOMAIN lwFiles
    BY <1>2 DEF Plain, LwBounded
  <2>2. /\ Live \in DOMAIN lwFiles' /\ \A n \in DOMAIN lwFiles' : LwFit(lwFiles'[n], lwWhen')
        /\ Len(lwWhen') <= LwMaxLines /\ DOMAIN lwWhen \subseteq DOMAIN lwWhen'
    BY <1>1, <2>1, LwAppendFits
  <2> QED
    BY <2>1, <2>2 DEF LwBounded
<1>3. CASE Plain /\ lwPtr = "unlinked"
  <2>1. /\ lwWhen' = Append(lwWhen, lwNow) /\ lwLost' = lwLost \cup {NewLine}
        /\ UNCHANGED <<lwFiles, lwPtr, lwBegin>>
    BY <1>3 DEF Plain
  <2>2. DOMAIN lwWhen' = DOMAIN lwWhen \cup {NewLine}
    BY <1>1, <2>1, LwLine
  <2>3. Len(lwWhen') <= LwMaxLines
    BY <1>1, <2>1 DEF LwWritten, NewLine
  <2>4. \A n \in DOMAIN lwFiles' : LwFit(lwFiles'[n], lwWhen')
    BY <1>1, <2>1, <2>2 DEF LwFit
  <2> QED
    BY <1>3, <2>1, <2>2, <2>3, <2>4 DEF LwBounded
<1>4. ASSUME NEW how \in BackupWays, Rotated(how) PROVE LwBounded'
  <2>1. /\ \A n \in DOMAIN BackedUp(how) : LwFit(BackedUp(how)[n], lwWhen)
        /\ Dropped(how) \subseteq DOMAIN lwWhen
    BY LwBackupFits
  <2>2. CASE /\ Append1(BackedUp(how), Empty(1), 1) /\ lwPtr' = "open" /\ lwBegin' = lwNow
             /\ lwLost' = lwLost \cup Dropped(how)
    <3>1. LwFit(Empty(1), lwWhen)
      BY <1>1, LwAssumption DEF Empty, LwFit, LwFile
    <3>2. /\ Live \in DOMAIN lwFiles' /\ \A n \in DOMAIN lwFiles' : LwFit(lwFiles'[n], lwWhen')
          /\ Len(lwWhen') <= LwMaxLines /\ DOMAIN lwWhen \subseteq DOMAIN lwWhen'
      BY <1>1, <2>1, <2>2, <3>1, LwAppendFits
    <3> QED
      BY <1>1, <2>1, <2>2, <3>2 DEF LwBounded
  <2>3. CASE /\ lwPtr' = "crashed" /\ lwFiles' = BackedUp(how)
             /\ UNCHANGED <<lwSize, lwBegin, lwWhen, lwLost>>
    <3>1. \A n \in DOMAIN lwFiles' : LwFit(lwFiles'[n], lwWhen')
      BY <2>1, <2>3 DEF LwFit
    <3> QED
      BY <2>3, <3>1 DEF LwBounded
  <2> QED
    BY <1>4, <2>2, <2>3 DEF Rotated
<1>5. CASE NotReady
  BY <1>5 DEF NotReady, LwBounded, LwFit
<1> QED
  BY <1>2, <1>3, <1>4, <1>5 DEF Write, Plain

LEMMA LwStaysBounded == LwInv /\ LwBounded /\ [LwNext]_lwVars => LwBounded'
<1> SUFFICES ASSUME LwInv, LwBounded, [LwNext]_lwVars PROVE LwBounded'
  OBVIOUS
<1>1. /\ lwNow \in 0 .. LwMaxTime /\ lwSweep.busy \in BOOLEAN
      /\ \A n \in DOMAIN lwFiles : LwFit(lwFiles[n], lwWhen)
  BY DEF LwBounded
<1>2. CASE LwTick
  BY <1>2, LwAssumption DEF LwTick, LwBounded, LwFit
<1>3. ASSUME NEW open_mode \in BOOLEAN, Initialize(open_mode) PROVE LwBounded'
  <2> DEFINE f == IF open_mode /\ Live \in DOMAIN lwFiles THEN lwFiles[Live] ELSE Empty(0)
  <2>1. /\ lwPtr' = "open" /\ lwFiles' = Put(lwFiles, Live, f) /\ lwBegin' = f.at
        /\ lwLost' = IF open_mode THEN lwLost ELSE lwLost \cup LinesOf(Live)
        /\ UNCHANGED <<lwNow, lwWhen, lwSweep>>
    BY <1>3 DEF Initialize
  <2>2. LwFit(Empty(0), lwWhen)
    BY <1>1, LwAssumption DEF Empty, LwFit, LwFile
  <2>3. LwFit(f, lwWhen)
    BY <1>1, <2>2
  <2>4. f.at \in 0 .. LwMaxTime
    BY <2>3, LwAssumption DEF LwFit, LwFile
  <2>5. LinesOf(Live) \subseteq DOMAIN lwWhen
    BY <1>1 DEF LinesOf, LwFit
  <2> HIDE DEF f
  <2>6. /\ Live \in DOMAIN lwFiles' /\ \A n \in DOMAIN lwFiles' : LwFit(lwFiles'[n], lwWhen)
    BY <1>1, <2>1, <2>3 DEF Put
  <2>7. \A n \in DOMAIN lwFiles' : LwFit(lwFiles'[n], lwWhen')
    BY <2>1, <2>6 DEF LwFit
  <2> QED
    BY <2>1, <2>4, <2>5, <2>6, <2>7 DEF LwBounded
<1>4. CASE LwExit
  BY <1>4 DEF LwExit, LwBounded, LwFit
<1>5. CASE LogStub
  BY <1>1, <1>5, LwWriteBounded DEF LogStub
<1>6. CASE CheckExpiredLog
  <2>1. lwSweep'.busy \in BOOLEAN
    BY <1>6 DEF CheckExpiredLog, LwInv, LwSweepType
  <2> QED
    BY <1>6, <2>1 DEF CheckExpiredLog, LwBounded, LwFit
<1>7. CASE SweepItem
  <2>1. PICK e \in lwSweep.todo :
           \/ Write /\ lwSweep' = [lwSweep EXCEPT !.todo = @ \ {e}, !.name = e.name]
           \/ /\ lwSweep' = [lwSweep EXCEPT !.todo = @ \ {e}]
              /\ UNCHANGED <<lwFiles, lwPtr, lwSize, lwBegin, lwWhen, lwLost>>
    BY <1>7 DEF SweepItem
  <2>2. lwSweep'.busy \in BOOLEAN /\ UNCHANGED lwNow
    BY <1>1, <1>7, <2>1 DEF SweepItem, LwInv, LwSweepType
  <2>3. CASE Write
    BY <2>2, <2>3, LwWriteBounded
  <2>4. CASE UNCHANGED <<lwFiles, lwPtr, lwSize, lwBegin, lwWhen, lwLost>>
    BY <2>2, <2>4 DEF LwBounded, LwFit
  <2> QED
    BY <2>1, <2>3, <2>4
<1>8. CASE SweepDelete
  <2>1. lwSweep'.busy \in BOOLEAN /\ UNCHANGED <<lwNow, lwBegin, lwWhen>>
    BY <1>1, <1>8 DEF SweepDelete, LwInv, LwSweepType
  <2>2. CASE UNCHANGED <<lwFiles, lwPtr, lwLost>>
    BY <2>1, <2>2 DEF LwBounded, LwFit
  <2>3. CASE ~ UNCHANGED <<lwFiles, lwPtr, lwLost>>
    <3>1. /\ lwFiles' = Without(lwSweep.name)
          /\ \/ /\ lwSweep.name = Live
                /\ lwPtr' = IF lwPtr = "open" THEN "unlinked" ELSE lwPtr
                /\ lwLost' = lwLost \cup LinesOf(Live)
             \/ lwSweep.name # Live /\ UNCHANGED <<lwPtr, lwLost>>
      BY <1>8, <2>3 DEF SweepDelete
    <3>2. /\ DOMAIN lwFiles' = DOMAIN lwFiles \ {lwSweep.name}
          /\ \A n \in DOMAIN lwFiles' : lwFiles'[n] = lwFiles[n]
      BY <3>1 DEF Without
    <3>3. \A n \in DOMAIN lwFiles' : LwFit(lwFiles'[n], lwWhen')
      BY <1>1, <2>1, <3>2 DEF LwFit
    <3>4. LinesOf(Live) \subseteq DOMAIN lwWhen
      BY <1>1 DEF LinesOf, LwFit
    <3>5. /\ lwPtr' \in {"null", "open", "unlinked", "crashed"}
          /\ lwPtr' = "open" => Live \in DOMAIN lwFiles'
      BY <3>1, <3>2 DEF LwBounded
    <3>6. lwLost' \subseteq DOMAIN lwWhen'
      BY <2>1, <3>1, <3>4 DEF LwBounded
    <3> QED
      BY <2>1, <3>3, <3>5, <3>6 DEF LwBounded
  <2> QED
    BY <2>2, <2>3
<1>9. CASE SweepEnd
  <2>1. lwSweep'.busy \in BOOLEAN
    BY <1>9 DEF SweepEnd, LwInv, LwSweepType
  <2> QED
    BY <1>9, <2>1 DEF SweepEnd, LwBounded, LwFit
<1>10. CASE UNCHANGED lwVars
  BY <1>10 DEF lwVars, LwBounded, LwFit
<1> QED
  BY <1>2, <1>3, <1>4, <1>5, <1>6, <1>7, <1>8, <1>9, <1>10 DEF LwNext

(***************************************************************************)
(* The log directory has only lines that were written, and as long as      *)
(* file_ptr_ is a file with a name the log file is there, whatever a sweep *)
(* deletes beside LogWriter::Write.                                        *)
(***************************************************************************)
THEOREM LogFileTypes == LwSpec => []LwTypeOK
<1>1. LwInv /\ LwBounded => LwTypeOK
  <2> SUFFICES ASSUME LwInv, LwBounded PROVE LwTypeOK
    OBVIOUS
  <2>1. DOMAIN lwWhen \subseteq 1 .. LwMaxLines
    BY LwAssumption DEF LwInv, LwWritten, LwBounded
  <2> QED
    BY <2>1 DEF LwBounded, LwFit, LwTypeOK
<1> QED
  BY <1>1, LwInitInv, LwInductive, LwInitBounded, LwStaysBounded, PTL DEF LwSpec

-----------------------------------------------------------------------------
(***************************************************************************)
(* The timer.  The elements executed and those still to be executed form   *)
(* one sequence, TmOut: Excute does not change it, OnTimer appends to it.  *)
(* All that is said of it holds because every pending element comes after  *)
(* it in the order of the multimap, those that callbacks add as well.      *)
(***************************************************************************)

TmOut == tmFired \o TmToRun

\* Pending and deleted elements have numbers of their own.
TmApart(ele, del) ==
    /\ \A e \in ele, f \in del : e.id # f.id
    /\ \A e, f \in ele : e.id = f.id => e = f

\* The sequence has neither a pending nor a deleted element, nor one twice.
TmDistinct(out, ele, del) ==
    /\ \A i, j \in DOMAIN out : i # j => out[i].id # out[j].id
    /\ \A i \in DOMAIN out, e \in ele : out[i].id # e.id
    /\ \A i \in DOMAIN out, e \in del : out[i].id # e.id

\* It is in order, none of it before its time, and what is pending follows it.
TmOrdered(out, ele, now) ==
    /\ \A i, j \in DOMAIN out : i < j => TmBefore(out[i], out[j])
    /\ \A i \in DOMAIN out : out[i].expire <= now
    /\ \A i \in DOMAIN out, e \in ele : TmBefore(out[i], e)

\* The numbers given out so far are those of the elements.
TmNumbered(out, ele, del, next) ==
    /\ \A e \in ele \cup del : e.id < next
    /\ \A i \in DOMAIN out : out[i].id < next
    /\ \A n \in 1 .. (next - 1) :
          (\E e \in ele \cup del : e.id = n) \/ (\E i \in DOMAIN out : out[i].id = n)

TmHistory(out, ele, del, next, now) ==
    /\ out \in Seq(TmElement)
    /\ TmApart(ele, del) /\ TmDistinct(out, ele, del)
    /\ TmOrdered(out, ele, now) /\ TmNumbered(out, ele, del, next)

TmInv ==
    /\ TmTypeOK /\ IsFiniteSet(tmEle)
    /\ tmPc = "idle" => tmList = <<>> /\ tmIter = 1
    /\ TmHistory(TmOut, tmEle, tmDeleted, tmNextId, tmNow)

LEMMA TmInitInv == TmInit => TmInv
<1> SUFFICES ASSUME TmInit PROVE TmInv
  OBVIOUS
<1>1. /\ tmNow = 0 /\ tmLast = 0 /\ tmCur = 0 /\ tmEle = {} /\ tmDeleted = {} /\ tmList = <<>>
      /\ tmFired = <<>> /\ tmIter = 1 /\ tmNextId = 1 /\ tmPc = "idle"
  BY Zenon DEF TmInit
<1>2. TmTypeOK
  BY <1>1, TmAssumption DEF TmTypeOK
<1>3. TmOut = <<>>
  BY <1>1 DEF TmOut, TmToRun
<1>4. TmHistory(<<>>, {}, {}, 1, 0)
  BY DEF TmHistory, TmApart, TmDistinct, TmOrdered, TmNumbered
<1> QED
  BY <1>1, <1>2, <1>3, <1>4, FS_EmptySet DEF TmInv

(* Excute takes the next element from one part to the other. *)
LEMMA TmMoves ==
    ASSUME TmTypeOK, Excute
    PROVE  TmOut' = TmOut /\ tmIter <= Len(tmList) /\ tmFired' \in Seq(TmElement)
<1> DEFINE n == Len(tmList)
           x == tmList[tmIter]
           rest == SubSeq(tmList, tmIter + 1, n)
<1>1. /\ tmFired' = Append(tmFired, x) /\ tmIter' = tmIter + 1 /\ tmList' = tmList
      /\ tmIter \in 1 .. n /\ n \in Nat /\ tmList \in Seq(TmElement) /\ tmFired \in Seq(TmElement)
  BY DEF Excute, TmTypeOK
<1>2. x \in TmElement
  BY <1>1
<1>3. SubSeq(tmList, tmIter, n) = <<x>> \o rest
  BY <1>1, SubSeqRecursiveFirst
<1>4. rest \in Seq(TmElement)
  BY <1>1
<1>5. Append(tmFired, x) = tmFired \o <<x>>
  BY <1>1, <1>2
<1>6. TmOut = tmFired \o (<<x>> \o rest) /\ TmOut' = (tmFired \o <<x>>) \o rest
  BY <1>1, <1>3, <1>5 DEF TmOut, TmToRun
<1> HIDE DEF x, rest
<1>7. <<x>> \in Seq(TmElement) /\ tmFired \in Seq(TmElement)
  BY <1>1, <1>2
<1>8. (tmFired \o <<x>>) \o rest = tmFired \o (<<x>> \o rest)
  <2> DEFINE one == <<x>>
  <2> HIDE DEF one
  <2>1. one \in Seq(TmElement)
    BY <1>7 DEF one
  <2>2. (tmFired \o one) \o rest = tmFired \o (one \o rest)
    BY <1>4, <1>7, <2>1, ConcatAssociative
  <2> QED
    BY <2>2 DEF one
<1>9. tmFired' \in Seq(TmElement)
  BY <1>1, <1>2
<1>10. tmIter <= Len(tmList)
  BY <1>1
<1> QED
  BY <1>6, <1>8, <1>9, <1>10

(* A sorted sequence of a finite set has all of its elements, each once. *)
LEMMA TmSortedAll ==
    ASSUME NEW S, S \subseteq TmElement, IsFiniteSet(S), NEW s \in SetToSeqs(S),
           \A i, j \in DOMAIN s : i < j => TmBefore(s[i], s[j])
    PROVE  /\ s \in Seq(TmElement) /\ \A e \in S : \E i \in DOMAIN s : s[i] = e
           /\ \A i \in DOMAIN s : s[i] \in S
           /\ \A i, j \in DOMAIN s : /\ i # j => s[i] # s[j]
                                     /\ i < j => TmBefore(s[i], s[j])
<1> DEFINE n == Cardinality(S)
<1>1. n \in Nat
  BY FS_CardinalityType
<1> HIDE DEF n
<1>2. /\ s \in [1 .. n -> S] /\ \A i, j \in 1 .. n : i # j => s[i] # s[j]
  BY DEF SetToSeqs, n
<1>3. s \in Injection(1 .. n, S)
  BY <1>2, Fun_IsInj
<1>4. Cardinality(1 .. n) = n
  <2>1. 1 \in Int /\ n \in Int
    BY <1>1
  <2>2. Cardinality(1 .. n) = IF 1 > n THEN 0 ELSE n - 1 + 1
    BY <2>1, FS_Interval
  <2> QED
    BY <1>1, <2>2
<1>5. s \in Surjection(1 .. n, S)
  BY <1>3, <1>4, FS_Injection DEF n
<1>6. \A e \in S : \E i \in 1 .. n : s[i] = e
  BY <1>5 DEF Surjection
<1>7. DOMAIN s = 1 .. n /\ s \in Seq(TmElement)
  BY <1>1, <1>2
<1> QED
  BY <1>2, <1>6, <1>7

(* What OnTimer appends. *)
LEMMA TmExtends ==
    ASSUME NEW out, NEW ele, NEW del, NEW next \in Nat, NEW now \in Nat, NEW c \in Nat, c <= now,
           ele \subseteq TmElement, del \subseteq TmElement, IsFiniteSet(ele),
           TmHistory(out, ele, del, next, now), NEW S, S = {e \in ele : e.expire <= c},
           NEW s \in SetToSeqs(S), \A i, j \in DOMAIN s : i < j => TmBefore(s[i], s[j])
    PROVE  TmHistory(out \o s, ele \ S, del, next, now)
<1>1. /\ s \in Seq(TmElement) /\ \A e \in S : \E i \in DOMAIN s : s[i] = e
      /\ \A i \in DOMAIN s : s[i] \in S
      /\ \A i, j \in DOMAIN s : /\ i # j => s[i] # s[j]
                                /\ i < j => TmBefore(s[i], s[j])
  <2>1. S \subseteq TmElement /\ IsFiniteSet(S)
    <3>1. S \in SUBSET ele
      OBVIOUS
    <3> QED
      BY <3>1, FS_Subset
  <2> QED
    BY <2>1, TmSortedAll
<1> DEFINE m == Len(out)
           all == out \o s
<1>2. /\ out \in Seq(TmElement) /\ m \in Nat /\ Len(s) \in Nat
      /\ DOMAIN out = 1 .. m /\ DOMAIN s = 1 .. Len(s)
  BY <1>1 DEF TmHistory
<1>3. /\ all \in Seq(TmElement) /\ DOMAIN all = 1 .. (m + Len(s))
      /\ \A i \in 1 .. m : all[i] = out[i]
      /\ \A i \in DOMAIN all \ (1 .. m) : i - m \in DOMAIN s /\ all[i] = s[i - m]
      /\ \A i \in DOMAIN s : m + i \in DOMAIN all /\ all[m + i] = s[i]
  <2>1. all \in Seq(TmElement) /\ Len(all) = m + Len(s)
    BY <1>1, <1>2
  <2>2. DOMAIN all = 1 .. (m + Len(s))
    BY <1>2, <2>1
  <2>3. \A i \in 1 .. (m + Len(s)) : all[i] = IF i <= m THEN out[i] ELSE s[i - m]
    BY <1>1, <1>2, ConcatProperties
  <2> HIDE DEF all, m
  <2>4. \A i \in 1 .. m : all[i] = out[i]
    BY <1>2, <2>3
  <2>5. \A i \in DOMAIN all \ (1 .. m) : i - m \in DOMAIN s /\ all[i] = s[i - m]
    BY <1>2, <2>2, <2>3
  <2>6. ASSUME NEW i \in DOMAIN s PROVE m + i \in DOMAIN all /\ all[m + i] = s[i]
    <3>1. m + i \in 1 .. (m + Len(s)) /\ ~ (m + i <= m) /\ (m + i) - m = i
      BY <1>2
    <3> QED
      BY <2>2, <2>3, <3>1
  <2> QED
    BY <2>1, <2>2, <2>4, <2>5, <2>6
<1> HIDE DEF all, m
<1>4. \A e \in S : e \in ele /\ e.expire <= c /\ e.expire \in Nat /\ e.id \in Nat
  BY DEF TmElement
<1>5. TmApart(ele \ S, del)
  BY DEF TmHistory, TmApart
<1>6. TmDistinct(all, ele \ S, del)
  <2>1. ASSUME NEW i \in DOMAIN all, NEW j \in DOMAIN all, i # j PROVE all[i].id # all[j].id
    <3>1. CASE i \in 1 .. m /\ j \in 1 .. m
      BY <1>2, <1>3, <2>1, <3>1 DEF TmHistory, TmDistinct
    <3>2. CASE i \in 1 .. m /\ j \notin 1 .. m
      BY <1>1, <1>2, <1>3, <1>4, <2>1, <3>2 DEF TmHistory, TmDistinct
    <3>3. CASE i \notin 1 .. m /\ j \in 1 .. m
      BY <1>1, <1>2, <1>3, <1>4, <2>1, <3>3 DEF TmHistory, TmDistinct
    <3>4. CASE i \notin 1 .. m /\ j \notin 1 .. m
      <4>1. i - m \in DOMAIN s /\ j - m \in DOMAIN s /\ i - m # j - m
        BY <1>2, <1>3, <2>1, <3>4
      <4>2. s[i - m] \in ele /\ s[j - m] \in ele /\ s[i - m] # s[j - m]
        BY <1>1, <1>4, <4>1
      <4> QED
        BY <1>3, <3>4, <4>2 DEF TmHistory, TmApart
    <3> QED
      BY <3>1, <3>2, <3>3, <3>4
  <2>2. ASSUME NEW i \in DOMAIN all, NEW e \in ele \ S PROVE all[i].id # e.id
    <3>1. CASE i \in 1 .. m
      BY <1>2, <1>3, <3>1 DEF TmHistory, TmDistinct
    <3>2. CASE i \notin 1 .. m
      <4>1. all[i] \in S
        BY <1>1, <1>3, <3>2
      <4> QED
        BY <1>4, <4>1 DEF TmHistory, TmApart
    <3> QED
      BY <3>1, <3>2
  <2>3. ASSUME NEW i \in DOMAIN all, NEW e \in del PROVE all[i].id # e.id
    <3>1. CASE i \in 1 .. m
      BY <1>2, <1>3, <3>1 DEF TmHistory, TmDistinct
    <3>2. CASE i \notin 1 .. m
      <4>1. all[i] \in S
        BY <1>1, <1>3, <3>2
      <4> QED
        BY <1>4, <4>1 DEF TmHistory, TmApart
    <3> QED
      BY <3>1, <3>2
  <2> QED
    BY <2>1, <2>2, <2>3 DEF TmDistinct
<1>7. TmOrdered(all, ele \ S, now)
  <2>1. ASSUME NEW i \in DOMAIN all, NEW j \in DOMAIN all, i < j PROVE TmBefore(all[i], all[j])
    <3>1. CASE j \in 1 .. m
      <4>1. i \in 1 .. m
        BY <1>2, <1>3, <2>1, <3>1
      <4> QED
        BY <1>2, <1>3, <2>1, <3>1, <4>1 DEF TmHistory, TmOrdered
    <3>2. CASE i \in 1 .. m /\ j \notin 1 .. m
      <4>1. all[j] \in ele
        BY <1>1, <1>3, <1>4, <3>2
      <4> QED
        BY <1>2, <1>3, <3>2, <4>1 DEF TmHistory, TmOrdered
    <3>3. CASE i \notin 1 .. m /\ j \notin 1 .. m
      <4>1. i - m \in DOMAIN s /\ j - m \in DOMAIN s /\ i - m < j - m
        BY <1>2, <1>3, <2>1, <3>3
      <4> QED
        BY <1>1, <1>3, <3>3, <4>1
    <3> QED
      BY <1>2, <1>3, <2>1, <3>1, <3>2, <3>3
  <2>2. ASSUME NEW i \in DOMAIN all PROVE all[i].expire <= now
    <3>1. CASE i \in 1 .. m
      BY <1>2, <1>3, <3>1 DEF TmHistory, TmOrdered
    <3>2. CASE i \notin 1 .. m
      <4>1. all[i] \in S
        BY <1>1, <1>3, <3>2
      <4> QED
        BY <1>4, <4>1
    <3> QED
      BY <3>1, <3>2
  <2>3. ASSUME NEW i \in DOMAIN all, NEW e \in ele \ S PROVE TmBefore(all[i], e)
    <3>1. CASE i \in 1 .. m
      BY <1>2, <1>3, <3>1 DEF TmHistory, TmOrdered
    <3>2. CASE i \notin 1 .. m
      <4>1. all[i] \in S /\ e.expire \in Nat /\ ~ (e.expire <= c)
        BY <1>1, <1>3, <3>2 DEF TmElement
      <4>2. all[i].expire < e.expire
        BY <1>4, <4>1
      <4> QED
        BY <4>2 DEF TmBefore
    <3> QED
      BY <3>1, <3>2
  <2> QED
    BY <2>1, <2>2, <2>3 DEF TmOrdered
<1>8. TmNumbered(all, ele \ S, del, next)
  <2>1. \A e \in (ele \ S) \cup del : e.id < next
    BY DEF TmHistory, TmNumbered
  <2>2. ASSUME NEW i \in DOMAIN all PROVE all[i].id < next
    <3>1. CASE i \in 1 .. m
      BY <1>2, <1>3, <3>1 DEF TmHistory, TmNumbered
    <3>2. CASE i \notin 1 .. m
      <4>1. all[i] \in ele
        BY <1>1, <1>3, <1>4, <3>2
      <4> QED
        BY <4>1 DEF TmHistory, TmNumbered
    <3> QED
      BY <3>1, <3>2
  <2>3. ASSUME NEW n \in 1 .. (next - 1)
        PROVE  (\E e \in (ele \ S) \cup del : e.id = n) \/ (\E i \in DOMAIN all : all[i].id = n)
    <3>1. CASE \E i \in DOMAIN out : out[i].id = n
      BY <1>2, <1>3, <3>1
    <3>2. CASE \E e \in ele \cup del : e.id = n
      <4>1. PICK e \in ele \cup del : e.id = n
        BY <3>2
      <4>2. CASE e \in S
        BY <1>1, <1>3, <4>1, <4>2
      <4>3. CASE e \notin S
        BY <4>1, <4>3
      <4> QED
        BY <4>2, <4>3
    <3> QED
      BY <3>1, <3>2 DEF TmHistory, TmNumbered
  <2> QED
    BY <2>1, <2>2, <2>3 DEF TmNumbered
<1> QED
  BY <1>3, <1>5, <1>6, <1>7, <1>8 DEF TmHistory, all

(* A timer is added after everything that was taken out before. *)
LEMMA TmAdds ==
    ASSUME NEW out, NEW ele, NEW del, NEW next \in Nat \ {0}, NEW now \in Nat, NEW d \in Nat,
           ele \subseteq TmElement, del \subseteq TmElement, TmHistory(out, ele, del, next, now),
           NEW x, x = [id |-> next, expire |-> now + d]
    PROVE  TmHistory(out, ele \cup {x}, del, next + 1, now)
<1>1. x.id = next /\ x.expire = now + d
  OBVIOUS
<1>2. out \in Seq(TmElement) /\ \A i \in DOMAIN out : out[i].expire \in Nat /\ out[i].id \in Nat
  <2>1. out \in Seq(TmElement)
    BY DEF TmHistory
  <2>2. \A i \in DOMAIN out : out[i] \in TmElement
    BY <2>1
  <2> QED
    BY <2>1, <2>2 DEF TmElement
<1>3. \A e \in ele \cup del : e.id \in Nat /\ e.id < next
  BY DEF TmHistory, TmNumbered, TmElement
<1>4. \A i \in DOMAIN out : out[i].id < next /\ out[i].expire <= now
  BY DEF TmHistory, TmNumbered, TmOrdered
<1> HIDE DEF TmElement
<1>5. TmApart(ele \cup {x}, del)
  BY <1>1, <1>3 DEF TmHistory, TmApart
<1>6. TmDistinct(out, ele \cup {x}, del)
  BY <1>1, <1>2, <1>4 DEF TmHistory, TmDistinct
<1>7. TmOrdered(out, ele \cup {x}, now)
  <2>1. ASSUME NEW i \in DOMAIN out PROVE TmBefore(out[i], x)
    <3>1. out[i].id < x.id /\ out[i].expire <= x.expire
      BY <1>1, <1>2, <1>4
    <3>2. x.expire \in Nat /\ out[i].expire \in Nat
      BY <1>1, <1>2
    <3>3. out[i].expire < x.expire \/ (out[i].expire = x.expire /\ out[i].id < x.id)
      BY <3>1, <3>2
    <3> QED
      BY <3>3 DEF TmBefore
  <2> QED
    BY <2>1 DEF TmHistory, TmOrdered
<1>8. TmNumbered(out, ele \cup {x}, del, next + 1)
  <2>1. \A e \in ele \cup {x} \cup del : e.id < next + 1
    BY <1>1, <1>3
  <2>2. \A i \in DOMAIN out : out[i].id < next + 1
    BY <1>2, <1>4
  <2>3. ASSUME NEW n \in 1 .. ((next + 1) - 1)
        PROVE  (\E e \in ele \cup {x} \cup del : e.id = n) \/ (\E i \in DOMAIN out : out[i].id = n)
    <3>1. CASE n = next
      BY <1>1, <3>1
    <3>2. CASE n # next
      <4>1. n \in 1 .. (next - 1)
        BY <3>2
      <4> QED
        BY <4>1 DEF TmHistory, TmNumbered
    <3> QED
      BY <3>1, <3>2
  <2> QED
    BY <2>1, <2>2, <2>3 DEF TmNumbered
<1> QED
  BY <1>2, <1>5, <1>6, <1>7, <1>8 DEF TmHistory

LEMMA TmDeletes ==
    ASSUME NEW out, NEW ele, NEW del, NEW next, NEW now,
           TmHistory(out, ele, del, next, now), NEW x \in ele
    PROVE  TmHistory(out, ele \ {x}, del \cup {x}, next, now)
<1>1. TmApart(ele \ {x}, del \cup {x})
  BY DEF TmHistory, TmApart
<1>2. TmDistinct(out, ele \ {x}, del \cup {x})
  BY DEF TmHistory, TmDistinct
<1>3. TmOrdered(out, ele \ {x}, now)
  BY DEF TmHistory, TmOrdered
<1>4. TmNumbered(out, ele \ {x}, del \cup {x}, next)
  <2>1. (ele \ {x}) \cup (del \cup {x}) = ele \cup del
    OBVIOUS
  <2> QED
    BY <2>1 DEF TmHistory, TmNumbered
<1> QED
  BY <1>1, <1>2, <1>3, <1>4 DEF TmHistory

LEMMA TmInductive == TmInv /\ [TmNext]_tmVars => TmInv'
<1> SUFFICES ASSUME TmInv, [TmNext]_tmVars PROVE TmInv'
  OBVIOUS
<1>1. /\ TmTypeOK /\ IsFiniteSet(tmEle) /\ TmHistory(TmOut, tmEle, tmDeleted, tmNextId, tmNow)
      /\ tmPc = "idle" => tmList = <<>> /\ tmIter = 1
  BY DEF TmInv
<1>2. /\ tmNow \in Nat /\ tmLast \in Nat /\ tmNextId \in Nat \ {0} /\ tmNextId \in 1 .. (TmMaxTimers + 1)
      /\ tmEle \subseteq TmElement /\ tmDeleted \subseteq TmElement
      /\ tmFired \in Seq(TmElement) /\ tmList \in Seq(TmElement)
  BY <1>1, TmAssumption DEF TmTypeOK
<1>3. CASE TmTick
  <2>1. /\ tmNow' = tmNow + 1
        /\ UNCHANGED <<tmEle, tmList, tmIter, tmNextId, tmLast, tmCur, tmPc, tmFired, tmDeleted>>
    BY <1>3 DEF TmTick
  <2>2. TmTypeOK'
    BY <1>1, <1>2, <2>1 DEF TmTypeOK
  <2>3. TmOut' = TmOut
    BY <2>1 DEF TmOut, TmToRun
  <2>4. TmHistory(TmOut, tmEle, tmDeleted, tmNextId, tmNow + 1)
    <3>1. \A i \in DOMAIN TmOut : TmOut[i].expire \in Nat
      <4>1. TmOut \in Seq(TmElement)
        BY <1>1 DEF TmHistory
      <4>2. \A i \in DOMAIN TmOut : TmOut[i] \in TmElement
        BY <4>1
      <4> QED
        BY <4>2 DEF TmElement
    <3>2. TmOrdered(TmOut, tmEle, tmNow + 1)
      BY <1>1, <1>2, <3>1 DEF TmHistory, TmOrdered
    <3> QED
      BY <1>1, <3>2 DEF TmHistory
  <2> QED
    BY <1>1, <2>1, <2>2, <2>3, <2>4 DEF TmInv
<1>4. ASSUME NEW d \in TmDelay, AddTimer(d) PROVE TmInv'
  <2> DEFINE x == [id |-> tmNextId, expire |-> tmNow + d]
  <2>1. /\ tmEle' = tmEle \cup {x} /\ tmNextId' = tmNextId + 1 /\ tmNextId <= TmMaxTimers
        /\ UNCHANGED <<tmNow, tmList, tmIter, tmLast, tmCur, tmPc, tmFired, tmDeleted>>
    BY <1>4 DEF AddTimer
  <2>2. d \in Nat
    BY TmAssumption
  <2>3. x \in TmElement
    BY <1>2, <2>2 DEF TmElement
  <2>4. TmHistory(TmOut, tmEle \cup {x}, tmDeleted, tmNextId + 1, tmNow)
    BY <1>1, <1>2, <2>2, TmAdds
  <2> HIDE DEF x
  <2>5. TmTypeOK'
    BY <1>1, <1>2, <2>1, <2>3, TmAssumption DEF TmTypeOK
  <2>6. TmOut' = TmOut
    BY <2>1 DEF TmOut, TmToRun
  <2>7. IsFiniteSet(tmEle')
    BY <1>1, <2>1, FS_AddElement
  <2> QED
    BY <1>1, <2>1, <2>4, <2>5, <2>6, <2>7 DEF TmInv
<1>5. ASSUME NEW e \in tmEle, DelTimer(e) PROVE TmInv'
  <2>1. /\ tmEle' = tmEle \ {e} /\ tmDeleted' = tmDeleted \cup {e}
        /\ UNCHANGED <<tmNow, tmList, tmIter, tmNextId, tmLast, tmCur, tmPc, tmFired>>
    BY <1>5 DEF DelTimer
  <2>2. TmTypeOK'
    BY <1>1, <1>2, <2>1 DEF TmTypeOK
  <2>3. TmOut' = TmOut
    BY <2>1 DEF TmOut, TmToRun
  <2>4. TmHistory(TmOut, tmEle \ {e}, tmDeleted \cup {e}, tmNextId, tmNow)
    BY <1>1, TmDeletes
  <2>5. IsFiniteSet(tmEle')
    BY <1>1, <2>1, FS_RemoveElement
  <2> QED
    BY <1>1, <2>1, <2>2, <2>3, <2>4, <2>5 DEF TmInv
<1>6. ASSUME NEW c \in tmLast .. tmNow, OnTimer(c) PROVE TmInv'
  <2> DEFINE S == {e \in tmEle : e.expire <= c}
  <2>1. /\ tmPc = "idle" /\ tmEle' = tmEle \ S /\ tmIter' = 1 /\ tmCur' = c /\ tmPc' = "run"
        /\ UNCHANGED <<tmNow, tmNextId, tmLast, tmFired, tmDeleted>>
    BY <1>6 DEF OnTimer, CheckExpire, Expired
  <2>2. PICK s \in SetToSeqs(S) : /\ \A i, j \in DOMAIN s : i < j => TmBefore(s[i], s[j])
                                  /\ tmList' = tmList \o s
    BY <1>6 DEF OnTimer, CheckExpire, Expired, TmSorted
  <2>3. c \in Nat /\ c <= tmNow
    BY <1>2
  <2>4. S \subseteq TmElement /\ IsFiniteSet(S)
    <3>1. S \in SUBSET tmEle
      OBVIOUS
    <3> QED
      BY <1>1, <1>2, <3>1, FS_Subset
  <2>5. TmHistory(TmOut \o s, tmEle \ S, tmDeleted, tmNextId, tmNow)
    BY <1>1, <1>2, <2>2, <2>3, TmExtends
  <2>6. IsFiniteSet(tmEle \ S)
    BY <1>1, FS_Difference
  <2> HIDE DEF S
  <2>7. s \in Seq(TmElement)
    BY <2>2, <2>4, TmSortedAll
  <2>8. tmList' = s
    BY <1>1, <2>1, <2>2, <2>7
  <2>9. TmOut = tmFired
    BY <1>1, <1>2, <2>1 DEF TmOut, TmToRun
  <2>10. TmOut' = TmOut \o s
    <3>1. SubSeq(s, 1, Len(s)) = s
      BY <2>7, SubSeqFull
    <3> QED
      BY <2>1, <2>8, <2>9, <3>1 DEF TmOut, TmToRun
  <2>11. TmTypeOK'
    <3>1. Len(s) \in Nat
      BY <2>7
    <3> QED
      BY <1>1, <1>2, <2>1, <2>3, <2>7, <2>8, <3>1 DEF TmTypeOK
  <2> QED
    BY <2>1, <2>5, <2>6, <2>10, <2>11 DEF TmInv
<1>7. CASE Excute
  <2>1. TmOut' = TmOut /\ tmIter <= Len(tmList) /\ tmFired' \in Seq(TmElement)
    BY <1>1, <1>7, TmMoves
  <2>2. /\ tmIter' = tmIter + 1 /\ tmPc = "run"
        /\ UNCHANGED <<tmNow, tmEle, tmList, tmNextId, tmLast, tmCur, tmPc, tmDeleted>>
    BY <1>7 DEF Excute
  <2>3. TmTypeOK'
    BY <1>1, <1>2, <2>1, <2>2 DEF TmTypeOK
  <2> QED
    BY <1>1, <2>1, <2>2, <2>3 DEF TmInv
<1>8. CASE OnTimerEnd
  <2>1. /\ tmIter > Len(tmList) /\ tmList' = <<>> /\ tmIter' = 1 /\ tmPc' = "idle" /\ tmLast' = tmCur
        /\ UNCHANGED <<tmNow, tmEle, tmNextId, tmCur, tmFired, tmDeleted>>
    BY <1>8 DEF OnTimerEnd, Clear
  <2>2. tmIter \in Int /\ Len(tmList) \in Int
    BY <1>1, <1>2 DEF TmTypeOK
  <2>3. SubSeq(tmList, tmIter, Len(tmList)) = <<>>
    BY <2>1, <2>2, SubSeqEmpty
  <2>4. TmOut = tmFired /\ TmOut' = tmFired
    BY <1>2, <2>1, <2>3 DEF TmOut, TmToRun
  <2>5. TmTypeOK'
    BY <1>1, <1>2, <2>1 DEF TmTypeOK
  <2> QED
    BY <1>1, <2>1, <2>4, <2>5 DEF TmInv
<1>9. CASE UNCHANGED tmVars
  BY <1>9 DEF tmVars, TmInv, TmTypeOK, TmOut, TmToRun
<1> QED
  BY <1>3, <1>4, <1>5, <1>6, <1>7, <1>8, <1>9 DEF TmNext, TmCheck, TmRun

(***************************************************************************)
(* Pending, executed and deleted timers are timers that AddTimer was given *)
(* an id for, and the identifiers and the clock stay in range, whatever    *)
(* callbacks add and delete while OnTimer executes a list.                 *)
(***************************************************************************)
THEOREM TimerTypes == TmSpec => []TmTypeOK
<1>1. TmInv => TmTypeOK
  BY DEF TmInv
<1> QED
  BY <1>1, TmInitInv, TmInductive, PTL DEF TmSpec

(***************************************************************************)
(* A timer that was added is pending, to be executed, executed or deleted, *)
(* and only one of these, for any number of timers and whatever callbacks  *)
(* and other threads add and delete while a list is executed.              *)
(***************************************************************************)
THEOREM TimerRunsOnce == TmSpec => []TmOnce
<1>1. TmInv => TmOnce
  <2> SUFFICES ASSUME TmInv PROVE TmOnce
    OBVIOUS
  <2> DEFINE out == tmFired \o TmToRun
             ids(T) == {e.id : e \in T}
  <2>1. /\ TmHistory(out, tmEle, tmDeleted, tmNextId, tmNow) /\ tmNextId \in Nat
        /\ tmEle \cup tmDeleted \subseteq TmElement
    BY TmAssumption DEF TmInv, TmTypeOK, TmOut
  <2> HIDE DEF out
  <2>2. out \in Seq(TmElement)
    BY <2>1 DEF TmHistory
  <2>3. \A e \in tmEle \cup tmDeleted \cup ToSet(out) : e.id \in Nat \ {0} /\ e.id < tmNextId
    <3>1. \A i \in DOMAIN out : out[i] \in TmElement
      BY <2>2
    <3>2. \A i \in DOMAIN out : out[i].id \in Nat \ {0} /\ out[i].id < tmNextId
      BY <2>1, <3>1 DEF TmHistory, TmNumbered, TmElement
    <3>3. \A e \in tmEle \cup tmDeleted : e.id \in Nat \ {0} /\ e.id < tmNextId
      BY <2>1 DEF TmHistory, TmNumbered, TmElement
    <3> QED
      BY <3>2, <3>3 DEF ToSet
  <2>4. ids(tmEle \cup tmDeleted \cup ToSet(out)) \subseteq 1 .. (tmNextId - 1)
    BY <2>1, <2>3
  <2>5. 1 .. (tmNextId - 1) \subseteq ids(tmEle \cup tmDeleted \cup ToSet(out))
    <3> SUFFICES ASSUME NEW n \in 1 .. (tmNextId - 1)
                 PROVE  \E e \in tmEle \cup tmDeleted \cup ToSet(out) : e.id = n
      OBVIOUS
    <3> QED
      BY <2>1 DEF TmHistory, TmNumbered, ToSet
  <2>6. ids(tmEle \cup tmDeleted) \cap ids(ToSet(out)) = {}
    BY <2>1 DEF TmHistory, TmDistinct, ToSet
  <2>7. /\ \A i, j \in DOMAIN out : i # j => out[i].id # out[j].id
        /\ \A e \in tmEle, f \in tmDeleted : e.id # f.id
    BY <2>1 DEF TmHistory, TmDistinct, TmApart
  <2>8. 1 .. (tmNextId - 1) = ids(tmEle \cup tmDeleted \cup ToSet(out))
    BY <2>4, <2>5
  <2> QED
    BY <2>6, <2>7, <2>8 DEF TmOnce, out
<1> QED
  BY <1>1, TmInitInv, TmInductive, PTL DEF TmSpec

(***************************************************************************)
(* Timers are executed in the order of their times, those with the same    *)
(* time as they were added, across any number of OnTimer, and none before  *)
(* its time, even when OnTimer gets an old reading of the clock.           *)
(***************************************************************************)
THEOREM TimerRunsInOrder == TmSpec => []TmInOrder
<1>1. TmInv => TmInOrder
  <2> SUFFICES ASSUME TmInv PROVE TmInOrder
    OBVIOUS
  <2>1. TmHistory(TmOut, tmEle, tmDeleted, tmNextId, tmNow) /\ TmTypeOK
    BY DEF TmInv
  <2>2. tmFired \in Seq(TmElement) /\ TmToRun \in Seq(TmElement)
    BY <2>1 DEF TmTypeOK, TmToRun
  <2>3. \A i \in DOMAIN tmFired : i \in DOMAIN TmOut /\ TmOut[i] = tmFired[i]
    BY <2>2 DEF TmOut
  <2> QED
    BY <2>1, <2>3 DEF TmHistory, TmOrdered, TmInOrder
<1> QED
  BY <1>1, TmInitInv, TmInductive, PTL DEF TmSpec

=============================================================================

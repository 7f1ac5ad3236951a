--------------------------- MODULE ServiceProofs ---------------------------
(***************************************************************************)
(* Proofs about the whole service, for any number of operators, sessions,  *)
(* tokens, audits, requests and accounts, and any budget of events: the    *)
(* invariants of its parts, which are shown to survive the steps of the    *)
(* others and the stops and starts of the process.                         *)
(***************************************************************************)
EXTENDS Service, RequestsProofs, ScoringProofs, BloodHoundProofs

-----------------------------------------------------------------------------
(* Settings.  What the last answer allows is what the file has and what a   *)
(* running server uses at every moment, not only between edits: an edit     *)
(* that has had an effect allows anything until it is answered.             *)

Edits == {NoEdit} \cup [at : {"apply", "snapshot", "save"}, key : Keys, value : Setting]

SettingsTyped ==
    /\ live \in [Keys -> Setting] /\ saved \in [Keys -> Setting]
    /\ owed \in [Keys -> SUBSET Setting]
    /\ edit \in [Editors -> Edits]

\* A setting has one editor.
Sole ==
    \A e, f \in Editors :
        edit[e] # NoEdit /\ edit[f] # NoEdit /\ edit[e].key = edit[f].key => e = f

\* What an edit is about to make one is so on its other side.
HalfDone ==
    \A e \in Editors : edit[e] # NoEdit =>
        IF edit[e].key = "bloodhound"
        THEN edit[e].at = "apply" => saved["bloodhound"] = edit[e].value
        ELSE edit[e].at \in {"snapshot", "save"} => live[edit[e].key] = edit[e].value

Allowed == \A k \in Keys : saved[k] \in owed[k] /\ (up => live[k] \in owed[k])

SettingsInv == SettingsTyped /\ Sole /\ HalfDone /\ Allowed

LEMMA EditIn ==
    ASSUME SettingsTyped, NEW e \in Editors, edit[e].at # "none"
    PROVE  edit[e] # NoEdit /\ edit[e] \in [at : {"apply", "snapshot", "save"}, key : Keys, value : Setting]
BY DEF SettingsTyped, Edits, NoEdit

LEMMA EditsIn ==
    ASSUME NEW at \in {"apply", "snapshot", "save"}, NEW k \in Keys, NEW v \in Setting
    PROVE  [at |-> at, key |-> k, value |-> v] \in Edits /\ [at |-> at, key |-> k, value |-> v] # NoEdit
BY DEF Edits, NoEdit

\* The edit of e becomes x.
EditBecomes(e, x) == edit' = [f \in Editors |-> IF f = e THEN x ELSE edit[f]]

LEMMA EditBegun ==
    ASSUME SettingsTyped, NEW e \in Editors, NEW s, NEW k \in Keys, NEW v \in Values,
           NEW token \in Values \cup {Blank}, EditBegin(e, s, k, v, token)
    PROVE  /\ UNCHANGED <<live, saved, owed, up>> /\ edit[e] = NoEdit
           /\ Editing(k) = {} \/ "two_editors" \in Unguarded
           /\ \E u \in Setting :
                EditBecomes(e, [at |-> IF k = "bloodhound" THEN "save" ELSE "apply", key |-> k, value |-> u])
<1> DEFINE kept == IF k = "bloodhound" /\ token = Blank THEN saved[k][2] ELSE token
           at == IF k = "bloodhound" THEN "save" ELSE "apply"
           x == [at |-> at, key |-> k, value |-> <<v, kept>>]
<1>1. saved[k] \in Setting
  BY DEF SettingsTyped
<1>2. kept \in Values \cup {Blank}
  BY <1>1 DEF Setting
<1>3. <<v, kept>> \in Setting
  BY <1>2 DEF Setting
<1>4. edit' = [edit EXCEPT ![e] = x]
  BY DEF EditBegin
<1> HIDE DEF kept
<1>5. EditBecomes(e, x)
  BY <1>4 DEF EditBecomes, SettingsTyped
<1> QED
  BY <1>3, <1>5 DEF EditBegin, Takes

\* An editor takes one more step.
EditMoves(e, k, v) ==
    /\ edit[e].key = k /\ edit[e].value = v /\ edit[e] # NoEdit /\ UNCHANGED up
    /\ \/ /\ edit[e].at = "apply" /\ k = "bloodhound" /\ UNCHANGED saved
          /\ live' = [live EXCEPT ![k] = v] /\ owed' = [owed EXCEPT ![k] = {v}]
          /\ EditBecomes(e, NoEdit)
       \/ /\ edit[e].at = "apply" /\ k # "bloodhound" /\ UNCHANGED saved
          /\ live' = [live EXCEPT ![k] = v] /\ owed' = [owed EXCEPT ![k] = Setting]
          /\ EditBecomes(e, [at |-> "snapshot", key |-> k, value |-> v])
       \/ /\ edit[e].at = "snapshot" /\ UNCHANGED <<live, saved, owed>>
          /\ EditBecomes(e, [at |-> "save", key |-> k,
                         value |-> IF k = "policies" THEN live["policies"] ELSE v])
       \/ /\ edit[e].at = "save" /\ k = "bloodhound" /\ UNCHANGED live
          /\ saved' = [saved EXCEPT ![k] = v] /\ owed' = [owed EXCEPT ![k] = Setting]
          /\ EditBecomes(e, [at |-> "apply", key |-> k, value |-> v])
       \/ /\ edit[e].at = "save" /\ k # "bloodhound" /\ UNCHANGED live
          /\ saved' = [saved EXCEPT ![k] = v] /\ owed' = [owed EXCEPT ![k] = {v}]
          /\ EditBecomes(e, NoEdit)
       \/ /\ edit[e].at = "save" /\ UNCHANGED <<live, saved, owed>>
          /\ EditBecomes(e, NoEdit)

LEMMA EditMoved ==
    ASSUME SettingsTyped, NEW e \in Editors,
           Apply(e) \/ Snapshot(e) \/ Save(e) \/ SaveFails(e)
    PROVE  \E k \in Keys, v \in Setting : EditMoves(e, k, v)
<1> DEFINE k == edit[e].key
           v == edit[e].value
<1>1. /\ edit[e] # NoEdit
      /\ edit[e] \in [at : {"apply", "snapshot", "save"}, key : Keys, value : Setting]
  BY EditIn DEF Apply, Snapshot, Save, SaveFails
<1>2. k \in Keys /\ v \in Setting /\ UNCHANGED up
  BY <1>1 DEF Apply, Snapshot, Save, SaveFails, Serves, Takes, process
<1>3. \A x : edit' = [edit EXCEPT ![e] = x] => EditBecomes(e, x)
  BY DEF SettingsTyped, EditBecomes
<1>4. ASSUME Apply(e), k = "bloodhound"
      PROVE  /\ edit[e].at = "apply" /\ k = "bloodhound" /\ UNCHANGED saved
             /\ live' = [live EXCEPT ![k] = v] /\ owed' = [owed EXCEPT ![k] = {v}]
             /\ EditBecomes(e, NoEdit)
  BY <1>3, <1>4 DEF Apply
<1>5. ASSUME NEW at \in {"snapshot", "save", "apply"}, edit' = [edit EXCEPT ![e].at = at]
      PROVE  EditBecomes(e, [at |-> at, key |-> k, value |-> v])
  <2>1. [edit[e] EXCEPT !.at = at] = [at |-> at, key |-> k, value |-> v]
    BY <1>1
  <2>2. edit' = [edit EXCEPT ![e] = [edit[e] EXCEPT !.at = at]]
    BY <1>5, Zenon
  <2> QED
    BY <1>3, <2>1, <2>2
<1>6. ASSUME Apply(e), k # "bloodhound"
      PROVE  /\ edit[e].at = "apply" /\ k # "bloodhound" /\ UNCHANGED saved
             /\ live' = [live EXCEPT ![k] = v] /\ owed' = [owed EXCEPT ![k] = Setting]
             /\ EditBecomes(e, [at |-> "snapshot", key |-> k, value |-> v])
  <2>1. edit' = [edit EXCEPT ![e].at = "snapshot"]
    BY <1>6, Zenon DEF Apply
  <2> QED
    BY <1>5, <1>6, <2>1 DEF Apply
<1>7. ASSUME Snapshot(e)
      PROVE  /\ edit[e].at = "snapshot" /\ UNCHANGED <<live, saved, owed>>
             /\ EditBecomes(e, [at |-> "save", key |-> k,
                            value |-> IF k = "policies" THEN live["policies"] ELSE v])
  <2> DEFINE u == IF k = "policies" THEN live["policies"] ELSE v
  <2>1. edit' = [edit EXCEPT ![e].at = "save", ![e].value = IF k = "policies" THEN live["policies"] ELSE @]
    BY <1>7 DEF Snapshot
  <2>2. edit'[e] = [edit[e] EXCEPT !.at = "save", !.value = u] /\ edit' \in [Editors -> {edit'[f] : f \in Editors}]
        /\ \A f \in Editors : f # e => edit'[f] = edit[f]
    BY <2>1 DEF SettingsTyped
  <2>3. [edit[e] EXCEPT !.at = "save", !.value = u] = [at |-> "save", key |-> k, value |-> u]
    <3> DEFINE q == [at |-> "save", key |-> k, value |-> v]
    <3>1. [edit[e] EXCEPT !.at = "save"] = q
      BY <1>1
    <3>2. [q EXCEPT !.value = u] = [at |-> "save", key |-> k, value |-> u]
      OBVIOUS
    <3>3. [edit[e] EXCEPT !.at = "save", !.value = u] = [[edit[e] EXCEPT !.at = "save"] EXCEPT !.value = u]
      OBVIOUS
    <3> HIDE DEF q
    <3> QED
      BY <3>1, <3>2, <3>3, Zenon
  <2>4. edit' = [f \in Editors |-> IF f = e THEN [at |-> "save", key |-> k, value |-> u] ELSE edit[f]]
    BY <2>2, <2>3
  <2> QED
    BY <1>7, <2>4 DEF Snapshot, EditBecomes
<1>8. ASSUME Save(e), k = "bloodhound"
      PROVE  /\ edit[e].at = "save" /\ k = "bloodhound" /\ UNCHANGED live
             /\ saved' = [saved EXCEPT ![k] = v] /\ owed' = [owed EXCEPT ![k] = Setting]
             /\ EditBecomes(e, [at |-> "apply", key |-> k, value |-> v])
  <2>1. edit' = [edit EXCEPT ![e].at = "apply"]
    BY <1>8, Zenon DEF Save
  <2> QED
    BY <1>5, <1>8, <2>1 DEF Save
<1>9. ASSUME Save(e), k # "bloodhound"
      PROVE  /\ edit[e].at = "save" /\ k # "bloodhound" /\ UNCHANGED live
             /\ saved' = [saved EXCEPT ![k] = v] /\ owed' = [owed EXCEPT ![k] = {v}]
             /\ EditBecomes(e, NoEdit)
  BY <1>3, <1>9 DEF Save
<1>10. ASSUME SaveFails(e)
       PROVE  /\ edit[e].at = "save" /\ UNCHANGED <<live, saved, owed>>
              /\ EditBecomes(e, NoEdit)
  BY <1>3, <1>10 DEF SaveFails
<1> HIDE DEF k, v
<1>11. edit[e].key = k /\ edit[e].value = v
  BY DEF k, v
<1> QED
  BY <1>1, <1>2, <1>4, <1>6, <1>7, <1>8, <1>9, <1>10, <1>11 DEF EditMoves

LEMMA SettingsTypedSteps == ASSUME SettingsTyped, SettingsNext PROVE SettingsTyped' /\ UNCHANGED up
<1>1. ASSUME NEW e, NEW x \in Edits, EditBecomes(e, x) PROVE edit' \in [Editors -> Edits]
  BY <1>1 DEF EditBecomes, SettingsTyped
<1>2. NoEdit \in Edits
  BY DEF Edits
<1>3. ASSUME NEW e \in Editors, NEW s, NEW k \in Keys, NEW v \in Values,
             NEW token \in Values \cup {Blank}, EditBegin(e, s, k, v, token)
      PROVE  SettingsTyped' /\ UNCHANGED up
  <2>1. PICK u \in Setting :
            EditBecomes(e, [at |-> IF k = "bloodhound" THEN "save" ELSE "apply", key |-> k, value |-> u])
    BY <1>3, EditBegun
  <2>2. [at |-> IF k = "bloodhound" THEN "save" ELSE "apply", key |-> k, value |-> u] \in Edits
    BY DEF Edits
  <2>3. edit' \in [Editors -> Edits]
    BY <1>1, <2>1, <2>2, Zenon
  <2> QED
    BY <1>3, <2>3, EditBegun DEF SettingsTyped
<1>4. ASSUME NEW e \in Editors, Apply(e) \/ Snapshot(e) \/ Save(e) \/ SaveFails(e)
      PROVE  SettingsTyped' /\ UNCHANGED up
  <2>1. PICK k \in Keys, v \in Setting : EditMoves(e, k, v)
    BY <1>4, EditMoved
  <2>2. \A at \in {"apply", "snapshot", "save"}, u \in Setting :
            [at |-> at, key |-> k, value |-> u] \in Edits
    BY EditsIn
  <2>3. (IF k = "policies" THEN live["policies"] ELSE v) \in Setting
    BY DEF SettingsTyped, Keys
  <2>4. \E x \in Edits : EditBecomes(e, x)
    BY <1>2, <2>1, <2>2, <2>3 DEF EditMoves
  <2>5. edit' \in [Editors -> Edits]
    BY <1>1, <2>4
  <2>6. live' \in [Keys -> Setting] /\ saved' \in [Keys -> Setting]
    BY <2>1 DEF EditMoves, SettingsTyped
  <2>7. owed' \in [Keys -> SUBSET Setting]
    BY <2>1 DEF EditMoves, SettingsTyped
  <2> QED
    BY <2>1, <2>5, <2>6, <2>7 DEF SettingsTyped, EditMoves
<1> QED
  BY <1>3, <1>4 DEF SettingsNext

LEMMA SettingsInvSteps ==
    ASSUME "two_editors" \notin Unguarded, SettingsInv, SettingsNext
    PROVE  SettingsInv'
<1>0. SettingsTyped /\ SettingsTyped' /\ UNCHANGED up
  BY SettingsTypedSteps DEF SettingsInv
<1>1. ASSUME NEW e \in Editors, NEW s, NEW k \in Keys, NEW v \in Values,
             NEW token \in Values \cup {Blank}, EditBegin(e, s, k, v, token)
      PROVE  SettingsInv'
  <2> DEFINE at == IF k = "bloodhound" THEN "save" ELSE "apply"
  <2>1. PICK u \in Setting : EditBecomes(e, [at |-> at, key |-> k, value |-> u])
    BY <1>0, <1>1, EditBegun
  <2>2. UNCHANGED <<live, saved, owed>> /\ Editing(k) = {}
    BY <1>0, <1>1, EditBegun
  <2> DEFINE x == [at |-> at, key |-> k, value |-> u]
  <2>3. x.at = at /\ x.key = k /\ x # NoEdit
    BY EditsIn
  <2> HIDE DEF x
  <2>4. \A f \in Editors : edit'[f] = IF f = e THEN x ELSE edit[f]
    BY <2>1 DEF EditBecomes, x
  <2>5. Sole'
    BY <2>2, <2>3, <2>4 DEF SettingsInv, Sole, Editing
  <2>6. HalfDone'
    BY <2>2, <2>3, <2>4 DEF SettingsInv, HalfDone
  <2> QED
    BY <1>0, <2>2, <2>5, <2>6 DEF SettingsInv, Allowed
<1>2. ASSUME NEW e \in Editors, NEW k \in Keys, NEW v \in Setting, EditMoves(e, k, v)
      PROVE  SettingsInv'
  <2>1. PICK x : EditBecomes(e, x) /\ (x = NoEdit \/ (x # NoEdit /\ x.key = k))
    BY <1>2, EditsIn DEF EditMoves
  <2>2. \A f \in Editors : edit'[f] = IF f = e THEN x ELSE edit[f]
    BY <2>1 DEF EditBecomes
  <2>3. edit[e].key = k /\ edit[e].value = v /\ edit[e] # NoEdit
    BY <1>2 DEF EditMoves
  <2>4. Sole'
    BY <2>1, <2>2, <2>3 DEF SettingsInv, Sole
  <2>5. \A f \in Editors : f # e /\ edit[f] # NoEdit => edit[f].key # k
    BY <2>3 DEF SettingsInv, Sole
  <2>6. /\ \A j \in Keys : j # k => live'[j] = live[j] /\ saved'[j] = saved[j] /\ owed'[j] = owed[j]
        /\ \A f \in Editors : f # e /\ edit[f] # NoEdit => edit[f].key \in Keys
    BY <1>0, <1>2 DEF EditMoves, SettingsTyped, Edits
  <2>7. ASSUME NEW f \in Editors, f # e, edit[f] # NoEdit
        PROVE  IF edit[f].key = "bloodhound"
               THEN edit[f].at = "apply" => saved'["bloodhound"] = edit[f].value
               ELSE edit[f].at \in {"snapshot", "save"} => live'[edit[f].key] = edit[f].value
    BY <2>5, <2>6, <2>7 DEF SettingsInv, HalfDone
  <2>8. edit'[e] # NoEdit =>
            IF edit'[e].key = "bloodhound"
            THEN edit'[e].at = "apply" => saved'["bloodhound"] = edit'[e].value
            ELSE edit'[e].at \in {"snapshot", "save"} => live'[edit'[e].key] = edit'[e].value
    <3>1. edit[e].at = "snapshot" /\ k # "bloodhound" => live[k] = v
      BY <2>3 DEF SettingsInv, HalfDone
    <3>2. \A y : EditBecomes(e, y) => edit'[e] = y
      BY DEF EditBecomes
    <3>3. live \in [Keys -> Setting] /\ saved \in [Keys -> Setting]
      BY <1>0 DEF SettingsTyped
    <3> QED
      BY <1>2, <3>1, <3>2, <3>3 DEF EditMoves
  <2>9. HalfDone'
    BY <2>2, <2>7, <2>8 DEF HalfDone
  <2>10. Allowed'
    <3>1. live[k] \in Setting /\ saved[k] \in Setting /\ saved[k] \in owed[k] /\ (up => live[k] \in owed[k])
      BY <1>0 DEF SettingsInv, SettingsTyped, Allowed
    <3>2. edit[e].at = "apply" /\ k = "bloodhound" => saved[k] = v
      BY <2>3 DEF SettingsInv, HalfDone
    <3>3. edit[e].at = "save" /\ k # "bloodhound" => live[k] = v
      BY <2>3 DEF SettingsInv, HalfDone
    <3>4. live \in [Keys -> Setting] /\ saved \in [Keys -> Setting] /\ owed \in [Keys -> SUBSET Setting]
      BY <1>0 DEF SettingsTyped
    <3>5. saved'[k] \in owed'[k] /\ (up => live'[k] \in owed'[k])
      BY <1>2, <3>1, <3>2, <3>3, <3>4 DEF EditMoves
    <3>6. \A j \in Keys : j # k => saved'[j] \in owed'[j] /\ (up => live'[j] \in owed'[j])
      BY <2>6 DEF SettingsInv, Allowed
    <3> QED
      BY <1>0, <3>5, <3>6 DEF Allowed
  <2> QED
    BY <1>0, <2>4, <2>9, <2>10 DEF SettingsInv
<1> QED
  BY <1>0, <1>1, <1>2, EditMoved DEF SettingsNext

LEMMA SettingsInitially == ProcessInit /\ SettingsInit => SettingsInv
<1> SUFFICES ASSUME ProcessInit, NEW v \in Values, live = [k \in Keys |-> <<v, Blank>>],
                    saved = live, edit = [e \in Editors |-> NoEdit], owed = [k \in Keys |-> {saved[k]}]
             PROVE  SettingsInv
  BY DEF SettingsInit
<1>1. <<v, Blank>> \in Setting
  BY DEF Setting
<1>2. SettingsTyped
  BY <1>1 DEF SettingsTyped, Edits
<1>3. Sole /\ HalfDone /\ Allowed
  BY DEF Sole, HalfDone, Allowed
<1> QED
  BY <1>2, <1>3 DEF SettingsInv

LEMMA SettingsReopened ==
    ASSUME SettingsBoot
    PROVE  (SettingsTyped => SettingsTyped') /\ (SettingsInv => SettingsInv')
<1>1. edit' = [e \in Editors |-> NoEdit] /\ live' = saved /\ UNCHANGED <<saved, owed>>
  BY DEF SettingsBoot
<1>2. SettingsTyped => SettingsTyped'
  BY <1>1 DEF SettingsTyped, Edits
<1>3. SettingsInv => Sole' /\ HalfDone' /\ Allowed'
  BY <1>1 DEF SettingsInv, Sole, HalfDone, Allowed
<1> QED
  BY <1>2, <1>3 DEF SettingsInv

\* Steps elsewhere, and a stop.
LEMMA SettingsStay ==
    ASSUME UNCHANGED settingVars, up' => up
    PROVE  (SettingsTyped => SettingsTyped') /\ (SettingsInv => SettingsInv')
BY DEF settingVars, SettingsTyped, SettingsInv, Sole, HalfDone, Allowed

-----------------------------------------------------------------------------
(* The breach corpus.  What is on disk at each step of the swap: what the   *)
(* job has staged; the old pair, as long as it is owned; and that whatever  *)
(* is put together of old files is a pair.                                  *)

Whole == {"data", "idx"}

CorpusTyped ==
    /\ version \in Nat /\ disk \in [Files -> 0..version]
    /\ phase \in {"idle", "downloading", "indexing", "done", "failed", "cancelled"}
    /\ had \subseteq Whole
    /\ searchers \in Seq([data : Nat, idx : Nat, open : BOOLEAN])
    /\ reader \in 0..Len(searchers) /\ scoring \in -1..Len(searchers)
    /\ owned \in BOOLEAN /\ breached \in BOOLEAN /\ known \in BOOLEAN

\* The new pair on its way.
Staged ==
    /\ step # "none" => Busy
    /\ step = "index" => disk["new"] # 0
    /\ step \in {"release", "stash data", "stash idx", "move data"} =>
          disk["new"] # 0 /\ disk["newIdx"] = disk["new"]
    /\ step = "move idx" => disk["data"] # 0 /\ disk["newIdx"] = disk["data"]
    /\ step = "drop" => disk["data"] # 0 /\ disk["idx"] = disk["data"]
    /\ step = "reindex" => disk["data"] # 0

\* The whole corpus that is owned is live, or is where the swap will find it.
Owning == owned =>
    /\ ~Swapping \/ step = "stash data" => disk["data"] # 0 /\ disk["idx"] = disk["data"]
    /\ step = "stash idx" => "data" \in had /\ disk["dataPrev"] # 0 /\ disk["idx"] = disk["dataPrev"]
    /\ step \in {"move data", "move idx", "undo", "restore data"} =>
          had = Whole /\ disk["dataPrev"] # 0 /\ disk["idxPrev"] = disk["dataPrev"]
    /\ step = "restore idx" => "idx" \in had /\ disk["data"] # 0 /\ disk["idxPrev"] = disk["data"]

DiskInv == CorpusTyped /\ Staged /\ Owning

\* A process that stopped in a swap has cost what was owned.
CorpusInv == DiskInv /\ (~up /\ owned => ~Swapping)

\* No write fails, or at most two do and the process does not stop, or the
\* corpus is left alone.
FewFailures ==
    \A b \in Budgets :
        \/ b["fault"] = 0
        \/ b["restart"] = 0 /\ b["fault"] <= 2
        \/ b["corpus"] = 0

\* The process will not stop, and n of two failures have been.
Failures(n) == up /\ budget["restart"] = 0 /\ budget["fault"] + n <= 2
Spent == budget["fault"] = 0
Budgeted == Spent \/ Failures(0) \/ (budget["corpus"] = 0 /\ step = "none")

\* Files that may be live together.
Fits(d, i)    == d = 0 \/ i = 0 \/ d = i
Fitting(d, i) == Fits(d, i) /\ (d = 0 /\ i # 0 => Spent)

\* The files from before the swap.
OldData == IF "data" \in had THEN disk["dataPrev"] ELSE disk["data"]
OldIdx  == IF "idx" \in had THEN disk["idxPrev"] ELSE disk["idx"]

\* The index that was set aside is away.
Away == "idx" \in had => disk["idx"] = 0

\* There is data to put back.
PutBack == "data" \in had /\ disk["dataPrev"] # 0 /\ Fits(disk["dataPrev"], OldIdx)

Matching ==
    /\ step \notin {"stash idx", "move data", "move idx", "undo", "restore data", "restore idx"} =>
          Fitting(disk["data"], disk["idx"])
    /\ step = "stash idx" =>
          /\ Fitting(OldData, disk["idx"]) /\ "idx" \notin had
          /\ "data" \in had => disk["data"] = 0 /\ disk["dataPrev"] # 0
          /\ disk["data"] # 0 => Failures(1)
    /\ step = "move data" =>
          /\ Fitting(OldData, OldIdx) /\ Away
          /\ "data" \in had => disk["data"] = 0 /\ disk["dataPrev"] # 0
          /\ disk["data"] # 0 \/ disk["idx"] # 0 => Failures(1)
          /\ disk["data"] # 0 /\ disk["idx"] # 0 => Failures(2)
    /\ step = "move idx" =>
          /\ Away
          /\ PutBack \/ ("data" \notin had /\ (OldIdx # 0 => budget["fault"] <= 1))
          /\ disk["idx"] # 0 => Failures(1)
    /\ step = "undo" =>
          /\ Failures(1) /\ Away
          /\ PutBack \/ ("data" \notin had /\ (OldIdx # 0 => Spent))
          /\ disk["idx"] # 0 => Spent
    /\ step = "restore data" =>
          /\ Failures(1) /\ Away
          /\ \/ PutBack /\ (disk["data"] # 0 => Spent)
             \/ "data" \notin had /\ Fitting(disk["data"], OldIdx)
    /\ step = "restore idx" =>
          /\ Failures(1) /\ Away
          /\ Fitting(disk["data"], OldIdx)

PairInv == Budgeted /\ Matching /\ PairMatches /\ BreachKept

-----------------------------------------------------------------------------
(* Steps, by what they leave of the budget and do to the files.            *)

Budget == budget \in [Kinds -> Nat]

\* Events are spent, and those of the corpus at most.
Wanes == budget' \in [Kinds -> Nat] /\ \A k \in Kinds : budget'[k] <= budget[k]

\* A failure is spent.
Fails == budget["fault"] > 0 /\ budget'["fault"] = budget["fault"] - 1

LEMMA Spending == ASSUME Budget, NEW kinds, Spend(kinds)
                  PROVE  Wanes /\ ("fault" \in kinds => Fails) /\ \A k \in kinds : budget[k] > 0
<1>1. \A k \in Kinds : budget'[k] = IF k \in kinds THEN budget[k] - 1 ELSE budget[k]
  BY DEF Spend
<1>2. \A k \in Kinds : budget'[k] \in Nat /\ budget'[k] <= budget[k]
  BY <1>1 DEF Spend, Budget
<1>3. budget' \in [Kinds -> Nat]
  BY <1>2 DEF Spend
<1>4. "fault" \in Kinds
  BY DEF Kinds
<1> QED
  BY <1>1, <1>2, <1>3, <1>4 DEF Wanes, Fails, Spend

LEMMA Taking == ASSUME Budget, NEW kinds, Takes(kinds)
                PROVE  /\ up /\ UNCHANGED up /\ Wanes
                       /\ "fault" \in kinds => Fails
                       /\ \A k \in kinds : budget[k] > 0
BY Spending DEF Takes

LEMMA Served == ASSUME Budget, Serves PROVE up /\ UNCHANGED up /\ Wanes
BY DEF Budget, Serves, process, Wanes

\* What is counted on stays so when there is less to spend.
LEMMA Waning ==
    ASSUME Budget, Wanes, UNCHANGED up
    PROVE  /\ (Failures(0) => Failures(0)') /\ (Failures(1) => Failures(1)') /\ (Failures(2) => Failures(2)')
           /\ Spent => Spent'
           /\ budget["fault"] <= 1 => budget'["fault"] <= 1
           /\ budget["corpus"] = 0 => budget'["corpus"] = 0
<1>1. \A k \in {"fault", "restart", "corpus"} :
          budget[k] \in Nat /\ budget'[k] \in Nat /\ budget'[k] <= budget[k]
  BY DEF Budget, Wanes, Kinds
<1> QED
  BY <1>1 DEF Failures, Spent

LEMMA Few == ASSUME Wanes PROVE (Spent \/ Failures(1))' => budget'["fault"] <= 1
<1>1. \A k \in {"fault", "restart"} : budget'[k] \in Nat
  BY DEF Wanes, Kinds
<1> QED
  BY <1>1 DEF Failures, Spent

\* A rename that is made, and one that is not.
Renames(from, to) ==
    /\ disk[from] # 0 /\ disk'[to] = disk[from] /\ disk'[from] = 0
    /\ \A f \in Files \ {from, to} : disk'[f] = disk[f]
Stays(from) == disk' = disk /\ (disk[from] = 0 \/ Fails)

LEMMA Renaming ==
    ASSUME CorpusTyped, Budget, NEW s, NEW from \in Files, NEW to \in Files, from # to, NEW s1, NEW s2,
           Rename(s, from, to, s1, s2)
    PROVE  /\ step = s /\ up /\ UNCHANGED up /\ Wanes
           /\ disk' \in [Files -> 0..version]
           /\ \/ Renames(from, to) /\ step' = s1 /\ disk' # disk
              \/ Stays(from) /\ step' = s2 /\ disk' = disk
<1>1. step = s
  BY DEF Rename
<1>2. ASSUME disk[from] # 0, disk' = Moved(from, to)
      PROVE  disk' \in [Files -> 0..version] /\ Renames(from, to) /\ disk' # disk
  <2>1. 0 \in 0..version
    BY DEF CorpusTyped
  <2>2. disk' = [f \in Files |-> IF f = from THEN 0 ELSE IF f = to THEN disk[from] ELSE disk[f]]
    BY <1>2 DEF Moved, CorpusTyped
  <2> QED
    BY <1>2, <2>1, <2>2 DEF CorpusTyped, Renames
<1>3. ASSUME Takes({}) PROVE up /\ UNCHANGED up /\ Wanes
  BY <1>3, Taking
<1>4. ASSUME Takes(IF disk[from] = 0 THEN {} ELSE {"fault"})
      PROVE  up /\ UNCHANGED up /\ Wanes /\ (disk[from] = 0 \/ Fails)
  <2>1. CASE disk[from] = 0
    BY <1>3, <1>4, <2>1
  <2>2. CASE disk[from] # 0
    <3>1. Takes({"fault"})
      BY <1>4, <2>2
    <3> QED
      BY <3>1, Taking
  <2> QED
    BY <2>1, <2>2
<1>5. UNCHANGED disk => disk' \in [Files -> 0..version]
  BY DEF CorpusTyped
<1> QED
  BY <1>1, <1>2, <1>3, <1>4, <1>5 DEF Rename, Stays

-----------------------------------------------------------------------------
(* The renames of the swap.                                                *)


LEMMA Underway ==
    ASSUME Budget, Wanes, UNCHANGED up, Budgeted, step # "none"
    PROVE  Budgeted' /\ (Spent \/ Failures(0))
BY Waning DEF Budgeted

\* Once a rename or a download has failed, the process does not stop, and one of
\* two failures has been.
LEMMA Failing ==
    ASSUME Budget, Wanes, UNCHANGED up, Budgeted, step # "none", Fails
    PROVE  /\ Failures(1)' /\ ~Spent
           /\ Failures(1) => Failures(2)'
           /\ budget["fault"] <= 1 => Spent'
           /\ Failures(1) => Spent'
           /\ ~Failures(2)
<1>1. Failures(0)
  BY DEF Fails, Spent, Budgeted
<1>2. \A k \in {"fault", "restart"} :
          budget[k] \in Nat /\ budget'[k] \in Nat /\ budget'[k] <= budget[k]
  BY DEF Budget, Wanes, Kinds
<1> QED
  BY <1>1, <1>2 DEF Failures, Spent, Fails

\* What the steps of the swap leave alone.
Aloof == UNCHANGED <<version, phase, searchers, reader, scoring, breached, known>>

LEMMA AloofTyped ==
    ASSUME CorpusTyped, Aloof, disk' \in [Files -> 0..version], had' \subseteq Whole, owned' \in BOOLEAN
    PROVE  CorpusTyped'
BY DEF CorpusTyped, Aloof

LEMMA AloofPairs ==
    ASSUME PairMatches, BreachKept, Aloof
    PROVE  PairMatches' /\ BreachKept'
BY DEF PairMatches, BreachKept, Aloof

LEMMA StashData ==
    ASSUME DiskInv, Budget, Rename("stash data", "data", "dataPrev", "stash idx", "stash idx"),
           had' = (IF disk' # disk THEN {"data"} ELSE {}), Kept, Aloof
    PROVE  DiskInv' /\ (PairInv => PairInv')
<1>1. /\ step = "stash data" /\ step' = "stash idx" /\ UNCHANGED up /\ Wanes
      /\ disk' \in [Files -> 0..version]
      /\ (Renames("data", "dataPrev") /\ disk' # disk) \/ Stays("data")
  BY Renaming DEF DiskInv, Files
<1>2. CorpusTyped'
  BY <1>1, AloofTyped DEF DiskInv, CorpusTyped, Whole, Kept
<1>3. Staged'
  BY <1>1 DEF DiskInv, Staged, Busy, Aloof, Renames, Stays, Files
<1>4. Owning'
  BY <1>1 DEF DiskInv, Owning, Kept, Swapping, Renames, Stays, Files
<1>5. ASSUME PairInv PROVE PairInv'
  <2>1. Budgeted'
    BY <1>1, <1>5, Underway DEF PairInv
  <2>2. Fitting(disk["data"], disk["idx"])
    BY <1>1, <1>5 DEF PairInv, Matching
  <2>3. Spent => Spent'
    BY <1>1, Waning
  <2>4. Matching'
    <3>1. CASE Renames("data", "dataPrev") /\ disk' # disk
      BY <1>1, <2>2, <2>3, <3>1 DEF Matching, Renames, Files, Fitting, Fits, OldData
    <3>2. CASE Stays("data") /\ disk["data"] = 0
      BY <1>1, <2>2, <2>3, <3>2 DEF Matching, Stays, Fitting, Fits, OldData
    <3>3. CASE Stays("data") /\ Fails
      <4>1. Failures(1)'
        BY <1>1, <1>5, <3>3, Failing DEF PairInv
      <4> QED
        BY <1>1, <2>2, <2>3, <3>3, <4>1 DEF Matching, Stays, Fitting, Fits, OldData
    <3> QED
      BY <1>1, <3>1, <3>2, <3>3 DEF Stays
  <2> QED
    BY <1>5, <2>1, <2>4, AloofPairs DEF PairInv
<1> QED
  BY <1>2, <1>3, <1>4, <1>5 DEF DiskInv

LEMMA StashIdx ==
    ASSUME DiskInv, Budget, Rename("stash idx", "idx", "idxPrev", "move data", "move data"),
           had' = (IF disk' # disk THEN had \cup {"idx"} ELSE had), Kept, Aloof
    PROVE  DiskInv' /\ (PairInv => PairInv')
<1>1. /\ step = "stash idx" /\ step' = "move data" /\ UNCHANGED up /\ Wanes
      /\ disk' \in [Files -> 0..version]
      /\ (Renames("idx", "idxPrev") /\ disk' # disk) \/ Stays("idx")
  BY Renaming DEF DiskInv, Files
<1>2. CorpusTyped'
  BY <1>1, AloofTyped DEF DiskInv, CorpusTyped, Whole, Kept
<1>3. Staged'
  BY <1>1 DEF DiskInv, Staged, Busy, Aloof, Renames, Stays, Files
<1>4. Owning'
  BY <1>1 DEF DiskInv, CorpusTyped, Owning, Kept, Swapping, Renames, Stays, Files, Whole
<1>5. ASSUME PairInv PROVE PairInv'
  <2>1. Budgeted'
    BY <1>1, <1>5, Underway DEF PairInv
  <2>2. /\ Fitting(OldData, disk["idx"]) /\ "idx" \notin had
        /\ "data" \in had => disk["data"] = 0 /\ disk["dataPrev"] # 0
        /\ disk["data"] # 0 => Failures(1)
    BY <1>1, <1>5 DEF PairInv, Matching
  <2>3. (Spent => Spent') /\ (Failures(1) => Failures(1)')
    BY <1>1, Waning
  <2>4. Matching'
    <3>1. CASE Renames("idx", "idxPrev") /\ disk' # disk
      BY <1>1, <2>2, <2>3, <3>1 DEF Matching, Renames, Files, Fitting, Fits, OldData, OldIdx, Away
    <3>2. CASE Stays("idx") /\ disk["idx"] = 0
      BY <1>1, <2>2, <2>3, <3>2 DEF Matching, Stays, Fitting, Fits, OldData, OldIdx, Away
    <3>3. CASE Stays("idx") /\ Fails
      <4>1. Failures(1)' /\ (Failures(1) => Failures(2)')
        BY <1>1, <1>5, <3>3, Failing DEF PairInv
      <4> QED
        BY <1>1, <2>2, <2>3, <3>3, <4>1 DEF Matching, Stays, Fitting, Fits, OldData, OldIdx, Away
    <3> QED
      BY <1>1, <3>1, <3>2, <3>3 DEF Stays
  <2> QED
    BY <1>5, <2>1, <2>4, AloofPairs DEF PairInv
<1> QED
  BY <1>2, <1>3, <1>4, <1>5 DEF DiskInv

LEMMA MoveData ==
    ASSUME DiskInv, Budget, Rename("move data", "new", "data", "move idx", "restore data"),
           UNCHANGED <<had, owned>>, Aloof
    PROVE  DiskInv' /\ (PairInv => PairInv')
<1>1. /\ step = "move data" /\ step' \in {"move idx", "restore data"} /\ UNCHANGED up /\ Wanes
      /\ disk' \in [Files -> 0..version]
      /\ \/ Renames("new", "data") /\ step' = "move idx"
         \/ Stays("new") /\ step' = "restore data" /\ Fails
  BY Renaming DEF DiskInv, Staged, Stays, Files
<1>2. CorpusTyped'
  BY <1>1, AloofTyped DEF DiskInv, CorpusTyped
<1>3. Staged'
  BY <1>1 DEF DiskInv, Staged, Busy, Aloof, Renames, Stays, Files
<1>4. Owning'
  BY <1>1 DEF DiskInv, Owning, Swapping, Renames, Stays, Files
<1>5. ASSUME PairInv PROVE PairInv'
  <2>1. Budgeted'
    BY <1>1, <1>5, Underway DEF PairInv
  <2>2. /\ Fitting(OldData, OldIdx) /\ Away
        /\ "data" \in had => disk["data"] = 0 /\ disk["dataPrev"] # 0
        /\ disk["data"] # 0 \/ disk["idx"] # 0 => Failures(1)
        /\ disk["data"] # 0 /\ disk["idx"] # 0 => Failures(2)
    BY <1>1, <1>5 DEF PairInv, Matching
  <2>3. (Spent => Spent') /\ (Failures(1) => Failures(1)')
    BY <1>1, Waning
  <2>4. Matching'
    <3>1. CASE Renames("new", "data") /\ step' = "move idx"
      <4>1. Away' /\ OldIdx' = OldIdx
        BY <2>2, <3>1 DEF Renames, Files, OldIdx, Away
      <4>2. "data" \in had => PutBack'
        BY <2>2, <3>1, <4>1 DEF Renames, Files, Fitting, Fits, OldData, PutBack
      <4>3. "data" \notin had /\ OldIdx # 0 => budget'["fault"] <= 1
        <5>1. Spent' \/ Failures(1)' => budget'["fault"] <= 1
          BY <1>1, Few
        <5>2. "data" \notin had /\ OldIdx # 0 => Spent \/ disk["data"] # 0
          BY <2>2 DEF Fitting, OldData
        <5> QED
          BY <2>2, <2>3, <5>1, <5>2
      <4>4. disk'["idx"] # 0 => Failures(1)'
        BY <2>2, <2>3, <3>1 DEF Renames, Files
      <4> QED
        BY <3>1, <4>1, <4>2, <4>3, <4>4 DEF Matching
    <3>2. CASE Stays("new") /\ step' = "restore data" /\ Fails
      <4>1. Failures(1)'
        BY <1>1, <1>5, <3>2, Failing DEF PairInv
      <4> QED
        BY <1>1, <2>2, <2>3, <3>2, <4>1
           DEF Matching, Stays, Fitting, Fits, OldData, OldIdx, Away, PutBack
    <3> QED
      BY <1>1, <3>1, <3>2
  <2> QED
    BY <1>5, <2>1, <2>4, AloofPairs DEF PairInv
<1> QED
  BY <1>2, <1>3, <1>4, <1>5 DEF DiskInv

LEMMA MoveIdxs ==
    ASSUME DiskInv, Budget, MoveIdx, UNCHANGED <<had, owned>>, Aloof
    PROVE  DiskInv' /\ (PairInv => PairInv')
<1>1. /\ step = "move idx" /\ step' \in {"drop", "undo"} /\ UNCHANGED up /\ Wanes
      /\ disk' \in [Files -> 0..version]
      /\ \/ Renames("newIdx", "idx") /\ step' = "drop"
         \/ Stays("newIdx") /\ step' = "undo" /\ Fails
  BY Renaming DEF MoveIdx, DiskInv, Staged, Stays, Files
<1>2. CorpusTyped'
  BY <1>1, AloofTyped DEF DiskInv, CorpusTyped
<1>3. Staged'
  BY <1>1 DEF DiskInv, Staged, Busy, Aloof, Renames, Stays, Files
<1>4. Owning'
  BY <1>1 DEF DiskInv, Owning, Swapping, Renames, Stays, Files
<1>5. ASSUME PairInv PROVE PairInv'
  <2>1. Budgeted'
    BY <1>1, <1>5, Underway DEF PairInv
  <2>2. /\ Away
        /\ PutBack \/ ("data" \notin had /\ (OldIdx # 0 => budget["fault"] <= 1))
        /\ disk["idx"] # 0 => Failures(1)
    BY <1>1, <1>5 DEF PairInv, Matching
  <2>4. Matching'
    <3>1. CASE Renames("newIdx", "idx") /\ step' = "drop"
      BY <1>1, <3>1 DEF DiskInv, Staged, Matching, Renames, Files, Fitting, Fits
    <3>2. CASE Stays("newIdx") /\ step' = "undo" /\ Fails
      <4>1. Failures(1)' /\ (budget["fault"] <= 1 => Spent') /\ (Failures(1) => Spent')
        BY <1>1, <1>5, <3>2, Failing DEF PairInv
      <4> QED
        BY <1>1, <2>2, <3>2, <4>1 DEF Matching, Stays, Fits, OldIdx, Away, PutBack
    <3> QED
      BY <1>1, <3>1, <3>2
  <2> QED
    BY <1>5, <2>1, <2>4, AloofPairs DEF PairInv
<1> QED
  BY <1>2, <1>3, <1>4, <1>5 DEF DiskInv

LEMMA Undo ==
    ASSUME DiskInv, Budget, Rename("undo", "data", "new", "restore data", "restore data"),
           UNCHANGED <<had, owned>>, Aloof
    PROVE  DiskInv' /\ (PairInv => PairInv')
<1>1. /\ step = "undo" /\ step' = "restore data" /\ UNCHANGED up /\ Wanes
      /\ disk' \in [Files -> 0..version]
      /\ Renames("data", "new") \/ Stays("data")
  BY Renaming DEF DiskInv, Files
<1>2. CorpusTyped'
  BY <1>1, AloofTyped DEF DiskInv, CorpusTyped
<1>3. Staged'
  BY <1>1 DEF DiskInv, Staged, Busy, Aloof
<1>4. Owning'
  BY <1>1 DEF DiskInv, Owning, Swapping, Renames, Stays, Files
<1>5. ASSUME PairInv PROVE PairInv'
  <2>1. Budgeted'
    BY <1>1, <1>5, Underway DEF PairInv
  <2>2. /\ Failures(1) /\ Away
        /\ PutBack \/ ("data" \notin had /\ (OldIdx # 0 => Spent))
        /\ disk["idx"] # 0 => Spent
    BY <1>1, <1>5 DEF PairInv, Matching
  <2>3. (Spent => Spent') /\ (Failures(1) => Failures(1)')
    BY <1>1, Waning
  <2>4. Matching'
    <3>1. CASE Renames("data", "new")
      BY <1>1, <2>2, <2>3, <3>1 DEF Matching, Renames, Files, Fitting, Fits, OldIdx, Away, PutBack
    <3>2. CASE Stays("data") /\ disk["data"] = 0
      BY <1>1, <2>2, <2>3, <3>2 DEF Matching, Stays, Fitting, Fits, OldIdx, Away, PutBack
    <3>3. CASE Stays("data") /\ Fails
      <4>1. ~Spent /\ Spent'
        BY <1>1, <1>5, <2>2, <3>3, Failing DEF PairInv
      <4> QED
        BY <1>1, <2>2, <2>3, <3>3, <4>1 DEF Matching, Stays, Fitting, Fits, OldIdx, Away, PutBack
    <3> QED
      BY <1>1, <3>1, <3>2, <3>3 DEF Stays
  <2> QED
    BY <1>5, <2>1, <2>4, AloofPairs DEF PairInv
<1> QED
  BY <1>2, <1>3, <1>4, <1>5 DEF DiskInv

LEMMA RestoringData ==
    ASSUME DiskInv, Budget, Aloof, UNCHANGED had,
           \/ /\ "data" \in had /\ Rename("restore data", "dataPrev", "data", "restore idx", "restore idx")
              /\ Kept
           \/ /\ step = "restore data" /\ "data" \notin had /\ step' = "restore idx"
              /\ Takes({}) /\ UNCHANGED <<disk, owned>>
    PROVE  DiskInv' /\ (PairInv => PairInv')
<1>1. /\ step = "restore data" /\ step' = "restore idx" /\ UNCHANGED up /\ Wanes
      /\ disk' \in [Files -> 0..version]
      /\ \/ "data" \in had /\ Kept /\ (Renames("dataPrev", "data") \/ Stays("dataPrev"))
         \/ "data" \notin had /\ UNCHANGED <<disk, owned>>
  BY Renaming, Taking DEF DiskInv, CorpusTyped, Files
<1>2. CorpusTyped'
  BY <1>1, AloofTyped DEF DiskInv, CorpusTyped, Kept
<1>3. Staged'
  BY <1>1 DEF DiskInv, Staged, Busy, Aloof
<1>4. Owning'
  BY <1>1 DEF DiskInv, Owning, Swapping, Renames, Stays, Files, Kept, Whole
<1>5. ASSUME PairInv PROVE PairInv'
  <2>1. Budgeted'
    BY <1>1, <1>5, Underway DEF PairInv
  <2>2. /\ Failures(1) /\ Away
        /\ \/ PutBack /\ (disk["data"] # 0 => Spent)
           \/ "data" \notin had /\ Fitting(disk["data"], OldIdx)
    BY <1>1, <1>5 DEF PairInv, Matching
  <2>3. (Spent => Spent') /\ (Failures(1) => Failures(1)')
    BY <1>1, Waning
  <2>4. Matching'
    <3>1. CASE "data" \in had /\ Renames("dataPrev", "data")
      BY <1>1, <2>2, <2>3, <3>1 DEF Matching, Renames, Files, Fitting, Fits, OldIdx, Away, PutBack
    <3>2. CASE "data" \in had /\ Stays("dataPrev")
      <4>1. ~Spent /\ Spent'
        BY <1>1, <1>5, <2>2, <3>2, Failing DEF PairInv, Stays, PutBack
      <4> QED
        BY <1>1, <2>2, <2>3, <3>2, <4>1 DEF Matching, Stays, Fitting, Fits, OldIdx, Away, PutBack
    <3>3. CASE "data" \notin had /\ UNCHANGED <<disk, owned>>
      BY <1>1, <2>2, <2>3, <3>3 DEF Matching, Fitting, Fits, OldIdx, Away, PutBack
    <3> QED
      BY <1>1, <3>1, <3>2, <3>3
  <2> QED
    BY <1>5, <2>1, <2>4, AloofPairs DEF PairInv
<1> QED
  BY <1>2, <1>3, <1>4, <1>5 DEF DiskInv

LEMMA RestoringIdx ==
    ASSUME DiskInv, Budget, Aloof, UNCHANGED had,
           \/ /\ "idx" \in had /\ Rename("restore idx", "idxPrev", "idx", "reopen failed", "reopen failed")
              /\ Kept
           \/ /\ step = "restore idx" /\ "idx" \notin had /\ step' = "reopen failed"
              /\ Takes({}) /\ UNCHANGED <<disk, owned>>
    PROVE  DiskInv' /\ (PairInv => PairInv')
<1>1. /\ step = "restore idx" /\ step' = "reopen failed" /\ UNCHANGED up /\ Wanes
      /\ disk' \in [Files -> 0..version]
      /\ \/ "idx" \in had /\ Kept
            /\ (Renames("idxPrev", "idx") \/ (Stays("idxPrev") /\ disk' = disk))
         \/ "idx" \notin had /\ UNCHANGED <<disk, owned>>
  BY Renaming, Taking DEF DiskInv, CorpusTyped, Files
<1>2. CorpusTyped'
  BY <1>1, AloofTyped DEF DiskInv, CorpusTyped, Kept
<1>3. Staged'
  BY <1>1 DEF DiskInv, Staged, Busy, Aloof
<1>4. Owning'
  BY <1>1 DEF DiskInv, Owning, Swapping, Renames, Stays, Files, Kept, Whole
<1>5. ASSUME PairInv PROVE PairInv'
  <2>1. Budgeted'
    BY <1>1, <1>5, Underway DEF PairInv
  <2>2. Away /\ Fitting(disk["data"], OldIdx)
    BY <1>1, <1>5 DEF PairInv, Matching
  <2>3. Spent => Spent'
    BY <1>1, Waning
  <2>4. Matching'
    BY <1>1, <2>2, <2>3 DEF Matching, Renames, Stays, Files, Fitting, Fits, OldIdx, Away
  <2> QED
    BY <1>5, <2>1, <2>4, AloofPairs DEF PairInv
<1> QED
  BY <1>2, <1>3, <1>4, <1>5 DEF DiskInv

LEMMA SwapSteps ==
    ASSUME DiskInv, Budget, SwapStep \/ Restore
    PROVE  DiskInv' /\ (PairInv => PairInv') /\ UNCHANGED up /\ Wanes
<1>1. Aloof
  BY DEF SwapStep, Restore, Aloof, accountVars
<1>2. UNCHANGED up /\ Wanes
  BY Renaming, Taking DEF SwapStep, Restore, MoveIdx, DiskInv, Files
<1> QED
  BY <1>1, <1>2, StashData, StashIdx, MoveData, MoveIdxs, Undo, RestoringData, RestoringIdx
     DEF SwapStep, Restore

-----------------------------------------------------------------------------
(* The other steps.                                                        *)

Moving == {"stash idx", "move data", "move idx", "undo", "restore data", "restore idx"}

LEMMA Budgeting ==
    ASSUME Budget, Wanes, UNCHANGED up, Budgeted,
           step' = "none" \/ step # "none" \/ budget["corpus"] > 0
    PROVE  Budgeted'
<1>1. budget["corpus"] \in Nat
  BY DEF Budget, Kinds
<1> QED
  BY <1>1, Waning DEF Budgeted

\* Outside of the renames nothing counts but the live pair.
LEMMA OffSwap ==
    ASSUME PairInv, Budget, Wanes, UNCHANGED up, PairMatches', BreachKept',
           disk'["data"] = disk["data"], disk'["idx"] = disk["idx"],
           step \notin Moving, step' \notin Moving,
           step' = "none" \/ step # "none" \/ budget["corpus"] > 0
    PROVE  PairInv'
<1>1. Budgeted'
  BY Budgeting DEF PairInv
<1>2. Fitting(disk["data"], disk["idx"]) /\ (Spent => Spent')
  BY Waning DEF PairInv, Matching, Moving
<1>3. Matching'
  BY <1>2 DEF Matching, Moving, Fitting, Fits
<1> QED
  BY <1>1, <1>3 DEF PairInv

\* The job waits.
LEMMA Waiting ==
    ASSUME DiskInv, Budget, Wanes, UNCHANGED <<up, disk, version, had, owned, phase, step>>
    PROVE  Staged' /\ Owning' /\ (Budgeted /\ Matching => Budgeted' /\ Matching')
<1>1. Staged' /\ Owning'
  BY DEF DiskInv, Staged, Owning, Busy, Swapping
<1>2. ASSUME Budgeted, Matching PROVE Budgeted' /\ Matching'
  <2>1. /\ (Failures(1) => Failures(1)') /\ (Failures(2) => Failures(2)')
        /\ Spent => Spent'
        /\ budget["fault"] <= 1 => budget'["fault"] <= 1
    BY Waning
  <2>2. Budgeted'
    BY <1>2, Budgeting DEF Budgeted, Waning
  <2>3. /\ OldData' = OldData /\ OldIdx' = OldIdx /\ Away' = Away /\ PutBack' = PutBack
        /\ \A d, i : Fitting(d, i) => Fitting(d, i)'
    BY <2>1 DEF OldData, OldIdx, Away, PutBack, Fitting, Fits
  <2>4. Matching'
    BY <1>2, <2>1, <2>3 DEF Matching
  <2> QED
    BY <2>2, <2>4
<1> QED
  BY <1>1, <1>2

LEMMA Corpora ==
    ASSUME UNCHANGED <<searchers, breached, known>>
    PROVE  PairMatches /\ BreachKept => PairMatches' /\ BreachKept'
BY DEF PairMatches, BreachKept

\* The steps of a job around the swap.
LEMMA CorpusJobs ==
    ASSUME DiskInv, Budget,
           Start \/ StartIndexOnly \/ Downloaded \/ DownloadFails \/ Index
    PROVE  DiskInv' /\ (PairInv => PairInv') /\ UNCHANGED up /\ Wanes
<1>3. UNCHANGED up /\ Wanes
  BY Taking, Served DEF Start, StartIndexOnly, Downloaded, DownloadFails, Index
<1>4. UNCHANGED <<had, searchers, reader, scoring, breached, known>>
  BY DEF Start, StartIndexOnly, Downloaded, DownloadFails, Index, swapVars, accountVars
<1>5. CASE Start
  <2>1. step = "none" /\ budget["corpus"] > 0
    BY <1>5, Taking DEF Start, DiskInv, Staged
  <2>2. disk' \in [Files -> 0..version] /\ \A f \in Files \ {"new"} : disk'[f] = disk[f]
    <3>1. disk \in [Files -> 0..version] /\ 0 \in 0..version
      BY DEF DiskInv, CorpusTyped
    <3>2. disk' = [disk EXCEPT !["new"] = 0]
      BY <1>5 DEF Start
    <3> QED
      BY <3>1, <3>2
  <2>3. CorpusTyped'
    BY <1>4, <1>5, <2>2 DEF Start, DiskInv, CorpusTyped
  <2>4. Staged' /\ Owning'
    BY <1>4, <1>5, <2>1, <2>2 DEF Start, DiskInv, Staged, Owning, Busy, Swapping, Files
  <2>5. PairInv => PairInv'
    BY <1>3, <1>4, <1>5, <2>1, <2>2, OffSwap, Corpora DEF Start, Moving, PairInv, Files
  <2> QED
    BY <1>3, <2>3, <2>4, <2>5 DEF DiskInv
<1>6. CASE StartIndexOnly
  <2>1. step = "none" /\ budget["corpus"] > 0
    BY <1>6, Taking DEF StartIndexOnly, DiskInv, Staged
  <2>3. CorpusTyped'
    BY <1>4, <1>6 DEF StartIndexOnly, DiskInv, CorpusTyped, swapVars
  <2>4. Staged' /\ Owning'
    BY <1>4, <1>6, <2>1 DEF StartIndexOnly, DiskInv, Staged, Owning, Busy, Swapping, swapVars
  <2>5. PairInv => PairInv'
    BY <1>3, <1>4, <1>6, <2>1, OffSwap, Corpora DEF StartIndexOnly, Moving, PairInv, swapVars
  <2> QED
    BY <1>3, <2>3, <2>4, <2>5 DEF DiskInv
<1>7. CASE Downloaded
  <2>1. step = "download" /\ step' \in {"none", "index"} /\ UNCHANGED owned
    BY <1>7 DEF Downloaded, Finish
  <2>2. CASE step' = "none"
    <3>1. UNCHANGED <<disk, version>> /\ phase' = "cancelled"
      BY <1>7, <2>2 DEF Downloaded, Finish
    <3>2. CorpusTyped'
      BY <1>4, <2>1, <3>1 DEF DiskInv, CorpusTyped
    <3>3. Staged' /\ Owning'
      BY <1>4, <2>1, <2>2, <3>1 DEF DiskInv, Staged, Owning, Swapping
    <3>4. PairInv => PairInv'
      BY <1>3, <1>4, <2>1, <2>2, <3>1, OffSwap, Corpora DEF Moving, PairInv
    <3> QED
      BY <1>3, <3>2, <3>3, <3>4 DEF DiskInv
  <2>3. CASE step' = "index"
    <3>1. version' = version + 1 /\ disk' = [disk EXCEPT !["new"] = version + 1] /\ phase' = "indexing"
      BY <1>7, <2>3 DEF Downloaded, Finish
    <3>2. /\ version \in Nat /\ disk \in [Files -> 0..version]
          /\ version' \in Nat /\ 0..version \subseteq 0..version' /\ version + 1 \in 0..version'
      BY <3>1 DEF DiskInv, CorpusTyped
    <3>3. /\ disk' \in [Files -> 0..version'] /\ disk'["new"] # 0
          /\ \A f \in Files \ {"new"} : disk'[f] = disk[f]
      BY <3>1, <3>2 DEF Files
    <3>4. CorpusTyped'
      BY <1>4, <2>1, <3>1, <3>2, <3>3 DEF DiskInv, CorpusTyped
    <3>5. Staged' /\ Owning'
      BY <1>4, <2>1, <2>3, <3>1, <3>3 DEF DiskInv, Staged, Owning, Busy, Swapping, Files
    <3>6. PairInv => PairInv'
      BY <1>3, <1>4, <2>1, <2>3, <3>3, OffSwap, Corpora DEF Moving, PairInv, Files
    <3> QED
      BY <1>3, <3>4, <3>5, <3>6 DEF DiskInv
  <2> QED
    BY <2>1, <2>2, <2>3
<1>8. CASE DownloadFails
  <2>1. step = "download" /\ step' = "none" /\ phase' = "failed" /\ UNCHANGED <<disk, version, owned>>
    BY <1>8 DEF DownloadFails, Finish
  <2>2. CorpusTyped'
    BY <1>4, <2>1 DEF DiskInv, CorpusTyped
  <2>3. Staged' /\ Owning'
    BY <1>4, <2>1 DEF DiskInv, Staged, Owning, Swapping
  <2>4. PairInv => PairInv'
    BY <1>3, <1>4, <2>1, OffSwap, Corpora DEF Moving, PairInv
  <2> QED
    BY <1>3, <2>2, <2>3, <2>4 DEF DiskInv
<1>9. CASE Index
  <2>1. /\ step = "index" /\ step' \in {"release", "none"} /\ UNCHANGED <<version, owned>>
        /\ \/ step' = "release" /\ disk' = [disk EXCEPT !["newIdx"] = disk["new"]] /\ UNCHANGED phase
           \/ step' = "none" /\ phase' = "failed" /\ UNCHANGED disk
    BY <1>9 DEF Index, Finish
  <2>2. /\ disk' \in [Files -> 0..version]
        /\ \A f \in Files \ {"newIdx"} : disk'[f] = disk[f]
        /\ step' = "release" => disk'["newIdx"] = disk["new"]
    BY <2>1 DEF DiskInv, CorpusTyped, Files
  <2>3. CorpusTyped'
    BY <1>4, <2>1, <2>2 DEF DiskInv, CorpusTyped
  <2>4. Staged' /\ Owning'
    BY <1>4, <2>1, <2>2 DEF DiskInv, Staged, Owning, Busy, Swapping, Files
  <2>5. PairInv => PairInv'
    BY <1>3, <1>4, <2>1, <2>2, OffSwap, Corpora DEF Moving, PairInv, Files
  <2> QED
    BY <1>3, <2>3, <2>4, <2>5 DEF DiskInv
<1> QED
  BY <1>5, <1>6, <1>7, <1>8, <1>9

LEMMA Reindexing ==
    ASSUME DiskInv, Budget, Reindex
    PROVE  DiskInv' /\ (PairInv => PairInv') /\ UNCHANGED up /\ Wanes
<1>2. /\ UNCHANGED up /\ Wanes
      /\ UNCHANGED <<had, version, stop, searchers, reader, scoring, breached, known>>
  BY Taking DEF Reindex, accountVars
<1>3. /\ step = "reindex" /\ step' \in {"reopen", "none"}
      /\ \/ step' = "reopen" /\ disk' = [disk EXCEPT !["idx"] = disk["data"]] /\ owned' = TRUE /\ UNCHANGED phase
         \/ step' = "none" /\ phase' = "failed" /\ UNCHANGED <<disk, owned>>
  BY DEF Reindex, Finish
<1>4. /\ disk' \in [Files -> 0..version]
      /\ \A f \in Files \ {"idx"} : disk'[f] = disk[f]
      /\ step' = "reopen" => disk'["idx"] = disk["data"]
  BY <1>3 DEF DiskInv, CorpusTyped, Files
<1>5. CorpusTyped'
  BY <1>2, <1>3, <1>4 DEF DiskInv, CorpusTyped
<1>6. Staged' /\ Owning'
  <2>1. disk["data"] # 0 /\ Busy
    BY <1>3 DEF DiskInv, Staged
  <2>2. CASE step' = "reopen"
    BY <1>2, <1>3, <1>4, <2>1, <2>2 DEF Staged, Owning, Busy, Swapping, Files
  <2>3. CASE step' = "none"
    BY <1>2, <1>3, <2>3 DEF DiskInv, Staged, Owning, Swapping
  <2> QED
    BY <1>3, <2>2, <2>3
<1>7. ASSUME PairInv PROVE PairInv'
  <2>1. Budgeted' /\ (Spent => Spent')
    BY <1>2, <1>3, <1>7, Budgeting, Waning DEF PairInv
  <2>2. Fitting(disk["data"], disk["idx"]) /\ disk["data"] # 0
    BY <1>3, <1>7 DEF PairInv, Matching, DiskInv, Staged
  <2>3. Matching'
    BY <1>3, <1>4, <2>1, <2>2 DEF Matching, Fitting, Fits, Files
  <2> QED
    BY <1>2, <1>7, <2>1, <2>3, Corpora DEF PairInv
<1> QED
  BY <1>2, <1>5, <1>6, <1>7 DEF DiskInv

LEMMA Releasing ==
    ASSUME DiskInv, Budget, Release
    PROVE  DiskInv' /\ (PairInv => PairInv') /\ UNCHANGED up /\ Wanes
<1>1. /\ UNCHANGED up /\ Wanes
      /\ UNCHANGED <<disk, had, version, stop, owned, phase, scoring, breached, known>>
      /\ step = "release" /\ step' = "stash data" /\ reader' = 0
  BY Served DEF Release, swapVars, accountVars
<1>2. searchers' \in Seq([data : Nat, idx : Nat, open : BOOLEAN]) /\ Len(searchers') = Len(searchers)
  <2>1. CASE reader = 0
    BY <2>1 DEF Release, DiskInv, CorpusTyped
  <2>2. CASE reader # 0
    <3>1. searchers' = [searchers EXCEPT ![reader] = [searchers[reader] EXCEPT !.open = FALSE]]
      BY <2>2 DEF Release
    <3>2. searchers \in Seq([data : Nat, idx : Nat, open : BOOLEAN]) /\ reader \in 1..Len(searchers)
      BY <2>2 DEF DiskInv, CorpusTyped
    <3>3. searchers[reader] \in [data : Nat, idx : Nat, open : BOOLEAN]
      BY <3>2, ElementOfSeq
    <3>4. [searchers[reader] EXCEPT !.open = FALSE] \in [data : Nat, idx : Nat, open : BOOLEAN]
      BY <3>3
    <3> QED
      BY <3>1, <3>2, <3>4
  <2> QED
    BY <2>1, <2>2
<1>3. CorpusTyped'
  <2>1. 0 \in 0..Len(searchers') /\ scoring \in -1..Len(searchers')
    BY <1>2 DEF DiskInv, CorpusTyped
  <2> QED
    BY <1>1, <1>2, <2>1 DEF DiskInv, CorpusTyped
<1>4. Staged' /\ Owning'
  BY <1>1 DEF DiskInv, Staged, Owning, Busy, Swapping
<1>5. PairMatches => PairMatches'
  <2>1. CASE reader = 0
    BY <2>1 DEF Release, PairMatches
  <2>2. CASE reader # 0
    <3>1. searchers' = [searchers EXCEPT ![reader].open = FALSE]
      BY <2>2 DEF Release
    <3>2. /\ DOMAIN searchers' = DOMAIN searchers
          /\ \A i \in DOMAIN searchers : searchers[i] \in [data : Nat, idx : Nat, open : BOOLEAN]
      <4>1. searchers \in Seq([data : Nat, idx : Nat, open : BOOLEAN]) /\ DOMAIN searchers = 1..Len(searchers)
        BY DEF DiskInv, CorpusTyped
      <4> QED
        BY <3>1, <4>1, ElementOfSeq
    <3>3. \A i \in DOMAIN searchers :
             searchers'[i].data = searchers[i].data /\ searchers'[i].idx = searchers[i].idx
      BY <3>1, <3>2
    <3> QED
      BY <3>2, <3>3 DEF PairMatches
  <2> QED
    BY <2>1, <2>2
<1>6. PairInv => PairInv'
  BY <1>1, <1>5, OffSwap DEF Moving, PairInv, BreachKept
<1> QED
  BY <1>1, <1>3, <1>4, <1>6 DEF DiskInv

LEMMA Dropping ==
    ASSUME DiskInv, Budget, Drop
    PROVE  DiskInv' /\ (PairInv => PairInv') /\ UNCHANGED up /\ Wanes
<1>1. /\ UNCHANGED up /\ Wanes
      /\ UNCHANGED <<version, phase, had, stop, searchers, reader, scoring, breached, known>>
      /\ step = "drop" /\ step' = "reopen" /\ owned' = TRUE
  BY Served DEF Drop, accountVars
<1>2. /\ disk' \in [Files -> 0..version]
      /\ \A f \in Files \ {"dataPrev", "idxPrev"} : disk'[f] = disk[f]
  <2>1. disk \in [Files -> 0..version] /\ 0 \in 0..version
    BY DEF DiskInv, CorpusTyped
  <2>2. disk' = [f \in Files |-> IF f = "dataPrev" THEN IF "data" \in had THEN 0 ELSE disk[f]
                                 ELSE IF f = "idxPrev" THEN IF "idx" \in had THEN 0 ELSE disk[f]
                                 ELSE disk[f]]
    BY <2>1 DEF Drop, Files
  <2> QED
    BY <2>1, <2>2
<1>3. CorpusTyped'
  BY <1>1, <1>2 DEF DiskInv, CorpusTyped
<1>4. Staged' /\ Owning'
  BY <1>1, <1>2 DEF DiskInv, Staged, Owning, Busy, Swapping, Files
<1>5. PairInv => PairInv'
  BY <1>1, <1>2, OffSwap, Corpora DEF Moving, PairInv, Files
<1> QED
  BY <1>1, <1>3, <1>4, <1>5 DEF DiskInv

\* A searcher that is opened matches, when the live files do.
LEMMA Opening ==
    ASSUME CorpusTyped, UNCHANGED disk, Opens
    PROVE  /\ searchers' \in Seq([data : Nat, idx : Nat, open : BOOLEAN])
           /\ Len(searchers') = Len(searchers) + 1 /\ reader' \in 0..Len(searchers')
           /\ PairMatches /\ Fits(disk["data"], disk["idx"]) => PairMatches'
<1> DEFINE new == [data |-> disk["data"], idx |-> disk["idx"], open |-> TRUE]
<1>1. new \in [data : Nat, idx : Nat, open : BOOLEAN]
  BY DEF CorpusTyped, Files
<1>2. new.data = disk["data"] /\ new.idx = disk["idx"]
  OBVIOUS
<1>3. searchers' = Append(searchers, new) /\ disk["data"] # 0 /\ disk["idx"] # 0
  BY DEF Opens
<1> HIDE DEF new
<1>4. /\ searchers' \in Seq([data : Nat, idx : Nat, open : BOOLEAN])
      /\ Len(searchers') = Len(searchers) + 1
      /\ \A i \in 1..Len(searchers) : searchers'[i] = searchers[i]
      /\ searchers'[Len(searchers) + 1] = new
      /\ Len(searchers) \in Nat /\ DOMAIN searchers = 1..Len(searchers)
      /\ DOMAIN searchers' = 1..Len(searchers')
  BY <1>1, <1>3 DEF CorpusTyped
<1>5. reader' \in 0..Len(searchers')
  BY <1>4 DEF Opens
<1>6. ASSUME PairMatches, Fits(disk["data"], disk["idx"]) PROVE PairMatches'
  <2> SUFFICES ASSUME NEW i \in 1..(Len(searchers) + 1)
               PROVE  searchers'[i].data = searchers'[i].idx
    BY <1>4 DEF PairMatches
  <2>1. CASE i \in 1..Len(searchers)
    BY <1>4, <1>6, <2>1 DEF PairMatches
  <2>2. CASE i = Len(searchers) + 1
    BY <1>2, <1>3, <1>4, <1>6, <2>2 DEF Fits
  <2> QED
    BY <1>4, <2>1, <2>2
<1> QED
  BY <1>4, <1>5, <1>6

LEMMA Reopening ==
    ASSUME DiskInv, Budget, Reopen
    PROVE  DiskInv' /\ (PairInv => PairInv') /\ UNCHANGED up /\ Wanes
<1>1. /\ UNCHANGED <<disk, had, version, stop, owned, scoring, breached, known>>
      /\ step \in {"reopen", "reopen failed"} /\ step' = "none" /\ phase' \in {"done", "failed"}
      /\ Opens \/ UNCHANGED <<searchers, reader>>
  BY DEF Reopen, swapVars, accountVars, Finish
<1>2. UNCHANGED up /\ Wanes
  <2>1. Takes({"fault"}) \/ Takes({})
    BY DEF Reopen
  <2> QED
    BY <2>1, Taking
<1>3. CorpusTyped'
  <2>1. /\ searchers' \in Seq([data : Nat, idx : Nat, open : BOOLEAN]) /\ reader' \in 0..Len(searchers')
        /\ scoring \in -1..Len(searchers')
    <3>1. CASE Opens
      <4>1. Len(searchers) \in Nat /\ scoring \in -1..Len(searchers)
        BY DEF DiskInv, CorpusTyped
      <4>2. /\ searchers' \in Seq([data : Nat, idx : Nat, open : BOOLEAN]) /\ reader' \in 0..Len(searchers')
            /\ Len(searchers') = Len(searchers) + 1
        BY <1>1, <3>1, Opening DEF DiskInv
      <4> QED
        BY <4>1, <4>2
    <3>2. CASE UNCHANGED <<searchers, reader>>
      BY <3>2 DEF DiskInv, CorpusTyped
    <3> QED
      BY <1>1, <3>1, <3>2
  <2> QED
    BY <1>1, <2>1 DEF DiskInv, CorpusTyped
<1>4. Staged' /\ Owning'
  BY <1>1 DEF DiskInv, Staged, Owning, Swapping
<1>5. ASSUME PairInv PROVE PairInv'
  <2>1. Fits(disk["data"], disk["idx"])
    BY <1>1, <1>5 DEF PairInv, Matching, Fitting
  <2>2. PairMatches' /\ BreachKept'
    BY <1>1, <1>5, <2>1, Opening DEF PairInv, DiskInv, PairMatches, BreachKept
  <2> QED
    BY <1>1, <1>2, <1>5, <2>2, OffSwap DEF Moving
<1> QED
  BY <1>2, <1>3, <1>4, <1>5 DEF DiskInv

\* A cancellation, and the scoring of an account, while the job waits.
LEMMA Lookups ==
    ASSUME DiskInv, Budget, Cancel \/ ScoreBegin \/ ScoreEnd
    PROVE  DiskInv' /\ (PairInv => PairInv') /\ UNCHANGED up /\ Wanes
<1>2. UNCHANGED up /\ Wanes
  BY Taking, Served DEF Cancel, ScoreBegin, ScoreEnd
<1>3. UNCHANGED <<disk, version, had, owned, phase, step, searchers, reader>>
  BY DEF Cancel, ScoreBegin, ScoreEnd, swapVars
<1>4. /\ scoring \in -1..Len(searchers) /\ reader \in 0..Len(searchers) /\ Len(searchers) \in Nat
      /\ breached \in BOOLEAN /\ known \in BOOLEAN
  BY DEF DiskInv, CorpusTyped
<1>8. scoring' \in {scoring, reader, -1} /\ breached' \in BOOLEAN /\ known' \in BOOLEAN
  <2>1. CASE Cancel \/ ScoreBegin
    BY <1>4, <2>1 DEF Cancel, ScoreBegin, accountVars
  <2>2. CASE ScoreEnd
    BY <1>4, <2>2 DEF ScoreEnd
  <2> QED
    BY <2>1, <2>2
<1>9. scoring' \in -1..Len(searchers)
  BY <1>4, <1>8
<1>5. CorpusTyped'
  BY <1>3, <1>8, <1>9 DEF DiskInv, CorpusTyped
<1>6. Staged' /\ Owning' /\ (Budgeted /\ Matching => Budgeted' /\ Matching')
  BY <1>2, <1>3, Waiting
<1>7. ASSUME PairInv PROVE PairMatches' /\ BreachKept'
  <2>1. PairMatches'
    BY <1>3, <1>7 DEF PairInv, PairMatches
  <2>2. CASE UNCHANGED <<breached, known>>
    BY <1>7, <2>1, <2>2 DEF PairInv, BreachKept
  <2>3. CASE ~UNCHANGED <<breached, known>>
    <3>1. /\ scoring # -1 /\ scoring # 0
          /\ breached' \in IF searchers[scoring].data = searchers[scoring].idx THEN {TRUE} ELSE BOOLEAN
      BY <2>3 DEF Cancel, ScoreBegin, ScoreEnd, accountVars
    <3>2. scoring \in 1..Len(searchers)
      BY <1>4, <3>1
    <3>3. DOMAIN searchers = 1..Len(searchers)
      BY DEF DiskInv, CorpusTyped
    <3>4. breached' = TRUE
      BY <1>7, <3>1, <3>2, <3>3 DEF PairInv, PairMatches
    <3> QED
      BY <2>1, <3>4 DEF BreachKept
  <2> QED
    BY <2>2, <2>3
<1> QED
  BY <1>2, <1>5, <1>6, <1>7 DEF DiskInv, PairInv

LEMMA CorpusSteps ==
    ASSUME CorpusInv, Budget, CorpusNext
    PROVE  CorpusInv' /\ (PairInv => PairInv') /\ UNCHANGED up /\ Wanes
<1>1. DiskInv' /\ (PairInv => PairInv') /\ UNCHANGED up /\ Wanes
  BY CorpusJobs, Lookups, Reindexing, Releasing, SwapSteps, Dropping, Reopening DEF CorpusNext, CorpusInv
<1>2. up
  <2>1. CASE Start \/ StartIndexOnly \/ Cancel \/ Downloaded \/ DownloadFails \/ Index \/ Reindex
    BY <2>1 DEF Start, StartIndexOnly, Cancel, Downloaded, DownloadFails, Index, Reindex, Takes, Serves
  <2>2. CASE Release \/ SwapStep \/ Restore \/ Drop \/ Reopen \/ ScoreBegin \/ ScoreEnd
    BY <2>2 DEF Release, SwapStep, Restore, Drop, Reopen, ScoreBegin, ScoreEnd, Rename, MoveIdx, Takes, Serves
  <2> QED
    BY <2>1, <2>2 DEF CorpusNext
<1> QED
  BY <1>1, <1>2 DEF CorpusInv

\* Steps of other parts.
LEMMA CorpusStay ==
    ASSUME CorpusInv, Budget, Wanes, UNCHANGED up, UNCHANGED corpusVars
    PROVE  CorpusInv' /\ (PairInv => PairInv')
<1>1. UNCHANGED <<disk, version, phase, step, had, stop, searchers, reader, scoring, breached, known, owned>>
  BY DEF corpusVars
<1>2. CorpusTyped'
  BY <1>1 DEF CorpusInv, DiskInv, CorpusTyped
<1> QED
  BY <1>1, <1>2, Waiting, Corpora DEF CorpusInv, DiskInv, PairInv, Swapping

\* The process stops.
LEMMA CorpusHalts ==
    ASSUME CorpusInv, Budget, Halt, CorpusHalt
    PROVE  CorpusInv' /\ (PairInv => PairInv') /\ Wanes
<1>1. /\ up' = FALSE /\ owned' = (owned /\ ~Swapping)
      /\ UNCHANGED <<disk, version, phase, step, had, stop, searchers, reader, scoring, breached, known>>
  BY DEF Halt, CorpusHalt, accountVars
<1>2. Wanes /\ budget["restart"] > 0
  BY Spending DEF Halt
<1>3. CorpusTyped'
  BY <1>1 DEF CorpusInv, DiskInv, CorpusTyped
<1>4. Staged' /\ Owning'
  BY <1>1 DEF CorpusInv, DiskInv, Staged, Owning, Busy, Swapping
<1>5. ASSUME PairInv PROVE PairInv'
  <2>1. \A k \in {"fault", "restart", "corpus"} :
            budget[k] \in Nat /\ budget'[k] \in Nat /\ budget'[k] <= budget[k]
    BY <1>2 DEF Budget, Wanes, Kinds
  <2>2. ~Failures(0) /\ ~Failures(1) /\ ~Failures(2)
    BY <1>2, <2>1 DEF Failures
  <2>3. (Spent => Spent') /\ (budget["fault"] <= 1 => budget'["fault"] <= 1)
    BY <2>1 DEF Spent
  <2>4. Budgeted'
    BY <1>1, <1>5, <2>1, <2>2, <2>3 DEF PairInv, Budgeted
  <2>5. /\ OldData' = OldData /\ OldIdx' = OldIdx /\ Away' = Away /\ PutBack' = PutBack
        /\ \A d, i : Fitting(d, i) => Fitting(d, i)'
    BY <1>1, <2>3 DEF OldData, OldIdx, Away, PutBack, Fitting, Fits
  <2>6. Matching'
    BY <1>1, <1>5, <2>2, <2>3, <2>5 DEF PairInv, Matching
  <2> QED
    BY <1>1, <1>5, <2>4, <2>6, Corpora DEF PairInv
<1> QED
  BY <1>1, <1>2, <1>3, <1>4, <1>5 DEF CorpusInv, DiskInv, Swapping

\* It starts again.  Stopped in a swap, it finds files that fit, or not both.
LEMMA CorpusBoots ==
    ASSUME CorpusInv, Budget, Boot, CorpusBoot
    PROVE  CorpusInv' /\ (PairInv => PairInv')
<1>1. /\ ~up /\ up' = TRUE /\ UNCHANGED <<budget, disk, version, breached, known, owned>>
      /\ phase' = "idle" /\ step' = "none" /\ had' = {} /\ scoring' = -1
      /\ Opens \/ (reader' = 0 /\ UNCHANGED searchers)
  BY DEF Boot, CorpusBoot
<1>2. CorpusTyped'
  BY <1>1, Opening DEF CorpusInv, DiskInv, CorpusTyped
<1>3. Staged'
  BY <1>1 DEF Staged
<1>4. Owning'
  BY <1>1 DEF CorpusInv, DiskInv, Owning, Swapping
<1>5. ASSUME PairInv PROVE PairInv'
  <2>1. ~Failures(0) /\ ~Failures(1) /\ ~Failures(2)
    BY <1>1 DEF Failures
  <2>2. Fitting(disk["data"], disk["idx"])
    BY <1>5, <2>1 DEF PairInv, Matching, Budgeted, Fitting, Fits, Away
  <2>3. Budgeted'
    BY <1>1, <1>5, <2>1 DEF PairInv, Budgeted, Spent
  <2>4. Matching'
    BY <1>1, <2>2 DEF Matching, Fitting, Fits, Spent
  <2>5. PairMatches' /\ BreachKept'
    BY <1>1, <1>5, <2>2, Opening DEF PairInv, CorpusInv, DiskInv, PairMatches, BreachKept, Fitting
  <2> QED
    BY <2>3, <2>4, <2>5 DEF PairInv
<1> QED
  BY <1>1, <1>2, <1>3, <1>4, <1>5 DEF CorpusInv, DiskInv

LEMMA CorpusInitially ==
    ASSUME ProcessInit, CorpusInit
    PROVE  Budget /\ CorpusInv /\ (FewFailures => PairInv)
<1>1. Budget
  BY ProcessAssumption DEF ProcessInit, Budget
<1>2. PICK v \in {0, 1} :
         /\ disk = [f \in Files |-> IF f \in {"data", "idx"} THEN v ELSE 0]
         /\ version = v
         /\ owned = (v = 1)
         /\ searchers = IF v = 1 THEN <<[data |-> 1, idx |-> 1, open |-> TRUE]>> ELSE <<>>
         /\ reader = v
  BY DEF CorpusInit
<1>3. /\ phase = "idle" /\ step = "none" /\ had = {} /\ scoring = -1 /\ known = FALSE /\ up = TRUE
  BY DEF CorpusInit, ProcessInit
<1>4. disk \in [Files -> 0..version] /\ disk["data"] = v /\ disk["idx"] = v
  BY <1>2 DEF Files
<1>5. /\ searchers \in Seq([data : Nat, idx : Nat, open : BOOLEAN]) /\ Len(searchers) = v
      /\ PairMatches
  <2> DEFINE new == [data |-> 1, idx |-> 1, open |-> TRUE]
  <2>1. new \in [data : Nat, idx : Nat, open : BOOLEAN] /\ new.data = new.idx
    OBVIOUS
  <2>2. CASE v = 1
    <3>1. searchers = <<new>>
      BY <1>2, <2>2
    <3> HIDE DEF new
    <3> QED
      BY <2>1, <2>2, <3>1 DEF PairMatches
  <2>3. CASE v = 0
    <3>1. searchers = <<>>
      BY <1>2, <2>3
    <3> QED
      BY <2>3, <3>1 DEF PairMatches
  <2> QED
    BY <2>2, <2>3
<1>6. CorpusTyped
  <2>1. version \in Nat /\ reader \in 0..Len(searchers) /\ -1 \in -1..Len(searchers) /\ owned \in BOOLEAN
    BY <1>2, <1>5
  <2>2. breached \in BOOLEAN /\ known \in BOOLEAN
    BY DEF CorpusInit
  <2> QED
    BY <1>3, <1>4, <1>5, <2>1, <2>2 DEF CorpusTyped
<1>7. Staged /\ Owning
  <2>1. owned => disk["data"] # 0 /\ disk["idx"] = disk["data"]
    <3>1. owned => v = 1
      BY <1>2
    <3> QED
      BY <1>4, <3>1
  <2> QED
    BY <1>3, <2>1 DEF Staged, Owning, Swapping
<1>8. ASSUME FewFailures PROVE PairInv
  <2>1. Budgeted
    <3>1. budget \in Budgets /\ budget["fault"] \in Nat
      BY <1>1 DEF ProcessInit, Budget, Kinds
    <3>2. budget["fault"] = 0 \/ (budget["restart"] = 0 /\ budget["fault"] <= 2) \/ budget["corpus"] = 0
      BY <1>8, <3>1 DEF FewFailures
    <3> QED
      BY <1>3, <3>1, <3>2 DEF Budgeted, Spent, Failures
  <2>2. Matching
    BY <1>2, <1>3, <1>4 DEF Matching, Fitting, Fits
  <2> QED
    BY <1>3, <1>5, <2>1, <2>2 DEF PairInv, BreachKept
<1> QED
  BY <1>1, <1>3, <1>6, <1>7, <1>8 DEF CorpusInv, DiskInv

-----------------------------------------------------------------------------
(* What the steps of one part leave to the others.                         *)

\* The steps of the parts that do not administer operators.
Others ==
    \/ TokensNext /\ UNCHANGED <<requestVars, settingVars, corpusVars, scoringVars, bloodHoundVars>>
    \/ RequestsNext /\ UNCHANGED <<settingVars, corpusVars, scoringVars, bloodHoundVars>>
    \/ SettingsNext /\ UNCHANGED <<tokenVars, requestVars, corpusVars, scoringVars, bloodHoundVars>>
    \/ CorpusNext
       /\ UNCHANGED <<operators, tokenVars, requestVars, settingVars, scoringVars, bloodHoundVars>>
    \/ ScoringNext
       /\ UNCHANGED <<operators, tokenVars, requestVars, settingVars, corpusVars, bloodHoundVars>>
    \/ BloodHoundNext
       /\ UNCHANGED <<operators, tokenVars, requestVars, settingVars, corpusVars, scoringVars>>

\* A step that leaves the operators alone, though it may be a session's.
Aside ==
    /\ UNCHANGED <<now, up, users, usersFile, told, changed, login, update>>
    /\ SomeSessions

LEMMA SessionAside ==
    ASSUME Typed, NEW s, Authenticated(s), UNCHANGED <<now, up, accounts, login, update>>
    PROVE  Aside
BY Authenticating DEF Aside, accounts

LEMMA ServedAside ==
    ASSUME Typed, UNCHANGED <<now, up, operators>>
    PROVE  Aside
BY SameSessions DEF Aside, operators, accounts

LEMMA TokensAside == ASSUME Typed, TokensNext PROVE Aside
<1>1. ASSUME NEW s, NEW id, NEW role, NEW e, CreateToken(s, id, role, e) PROVE Aside
  BY <1>1, SessionAside DEF CreateToken, LeadSession, Takes
<1>2. ASSUME NEW s, NEW id, RevokeToken(s, id) PROVE Aside
  BY <1>2, SessionAside DEF RevokeToken, LeadSession, Takes
<1>3. ASSUME NEW id, ShellRevoke(id) \/ \E role, e : ShellCreate(id, role, e) PROVE Aside
  BY <1>3, ServedAside DEF ShellRevoke, ShellCreate, TokenShell, Shell
<1>4. ASSUME NEW c, Touch(c) \/ CallEnd(c) \/ \E id, a : CallBegin(c, id, a) PROVE Aside
  BY <1>4, ServedAside DEF Touch, CallEnd, CallBegin, Takes, Serves, process
<1> QED
  BY <1>1, <1>2, <1>3, <1>4 DEF TokensNext

LEMMA RequestsAside == ASSUME Typed, RequestsNext PROVE Aside
<1>1. ASSUME NEW s,
             \/ \E a, right : UnlockStore(s, a, right)
             \/ LockStore(s)
             \/ \E a : CreateAudit(s, a) \/ DeleteAudit(s, a) \/ OpenAudit(s, a)
             \/ \E q, e, a : Ask(q, s, e, a)
      PROVE  Aside
  BY <1>1, SessionAside
     DEF UnlockStore, LockStore, CreateAudit, DeleteAudit, OpenAudit, Ask, LeadSession, Gate, Takes,
         Outside
<1>2. ASSUME NEW q,
             \/ \E c, e, a : AskTool(q, c, e, a)
             \/ Deny(q) \/ Load(q) \/ Resolve(q) \/ NotFound(q)
             \/ Record(q) \/ RecordFails(q) \/ Answer(q)
      PROVE  Aside
  BY <1>2, ServedAside
     DEF AskTool, Deny, Load, Resolve, NotFound, Record, RecordFails, Answer, Elsewhere, Serves,
         Takes, process
<1> QED
  BY <1>1, <1>2 DEF RequestsNext

LEMMA SettingsAside == ASSUME Typed, SettingsNext PROVE Aside
<1>1. ASSUME NEW e, NEW s, NEW k, NEW v, NEW token, EditBegin(e, s, k, v, token) PROVE Aside
  BY <1>1, SessionAside DEF EditBegin, LeadSession, Takes, SettingsApart
<1>2. ASSUME NEW e, Apply(e) \/ Snapshot(e) \/ Save(e) \/ SaveFails(e) PROVE Aside
  BY <1>2, ServedAside DEF Apply, Snapshot, Save, SaveFails, Serves, Takes, process
<1> QED
  BY <1>1, <1>2 DEF SettingsNext

LEMMA CorpusServes == CorpusNext => UNCHANGED <<now, up>>
<1>1. \A s, from, to, s1, s2 : Rename(s, from, to, s1, s2) => UNCHANGED <<now, up>>
  BY DEF Rename, Takes
<1>2. SwapStep \/ Restore => UNCHANGED <<now, up>>
  BY <1>1 DEF SwapStep, MoveIdx, Restore, Takes
<1> QED
  BY <1>2
     DEF CorpusNext, Start, StartIndexOnly, Cancel, Downloaded, DownloadFails, Index, Reindex,
         Release, Drop, Reopen, ScoreBegin, ScoreEnd, Serves, Takes, process

LEMMA ScoringServes == ScoringNext => UNCHANGED <<now, up>>
BY DEF ScoringNext, Upload, DeleteDomain, ApplyCracks, Enrich, Rescore, UploadBHEUsers, Takes

LEMMA BloodHoundServes == BloodHoundNext => UNCHANGED <<now, up>>
<1>1. \A c, ok : GetDomains(c, ok) => UNCHANGED <<now, up>>
  BY DEF GetDomains, Replied, Takes, Serves, process
<1>2. StartEnrich \/ Reconfigure \/ Build \/ FinishEnrich => UNCHANGED <<now, up>>
  BY DEF StartEnrich, Reconfigure, Build, FinishEnrich, Takes, Serves, process
<1>3. ASSUME NEW ok, FetchAllUserProps(ok) \/ Fetch(ok) \/ ListDomains(ok)
      PROVE  UNCHANGED <<now, up>>
  BY <1>1, <1>3 DEF FetchAllUserProps, Fetch, ListDomains, Replied, Takes
<1>4. ASSUME NEW w, Inquire(w) PROVE UNCHANGED <<now, up>>
  BY <1>1, <1>4
     DEF Inquire, Take, Look, ResolveFromList, Give, Domains, Search, UserProps, ResolveSID, Path,
         Controllables, Replied, Takes, Serves, process
<1> QED
  BY <1>2, <1>3, <1>4 DEF BloodHoundNext

LEMMA OthersAside == ASSUME Typed, Others PROVE Aside
BY TokensAside, RequestsAside, SettingsAside, ServedAside, CorpusServes, ScoringServes,
   BloodHoundServes DEF Others

LEMMA AsideQuiet == OperatorsInv /\ Aside => Quiet
BY DEF OperatorsInv, Typed, Dated, LoginsDated, Aside, Quiet

\* The steps of the service, by what they mean for the operators.
LEMMA Steps ==
    ASSUME [Next]_service
    PROVE  \/ OperatorsNext
              /\ UNCHANGED <<tokenVars, req, recorded, given, settingVars, corpusVars, scoringVars,
                             bloodHoundVars>>
           \/ Others
           \/ Tick \/ Stop \/ Restart
           \/ UNCHANGED service
BY DEF Next, Others

\* No other part of the service counts refused logins.
LEMMA OthersLock == ASSUME Others PROVE UNCHANGED lockouts
<1>1. TokensNext => UNCHANGED lockouts
  BY DEF TokensNext, CreateToken, RevokeToken, ShellCreate, ShellRevoke, CallBegin, Touch, CallEnd, operators
<1>2. RequestsNext => UNCHANGED lockouts
  BY DEF RequestsNext, UnlockStore, LockStore, CreateAudit, DeleteAudit, OpenAudit, Ask, AskTool, Deny,
         Load, Resolve, NotFound, Record, RecordFails, Answer, Outside, Elsewhere, operators
<1>3. SettingsNext => UNCHANGED lockouts
  BY DEF SettingsNext, EditBegin, Apply, Snapshot, Save, SaveFails, SettingsApart, operators
<1> QED
  BY <1>1, <1>2, <1>3 DEF Others, operators

-----------------------------------------------------------------------------
(* The budget.                                                             *)

Spends == UNCHANGED budget \/ \E kinds : Spend(kinds)

LEMMA Spenders ==
    /\ Serves => Spends
    /\ \A kinds : Takes(kinds) \/ Shell(kinds) => Spends
BY DEF Spends, Serves, Takes, Shell, process

LEMMA OperatorsSpend == OperatorsNext => Spends
<1>1. \A s : Expire(s) \/ Visit(s) \/ Logout(s) => Spends
  BY Spenders DEF Expire, Visit, Logout
<1>2. \A l : LoginRefuse(l) \/ LoginAccept(l) => Spends
  BY Spenders DEF LoginRefuse, LoginAccept
<1>3. \A l, n, a : LoginBegin(l, n, a) => Spends
  BY Spenders DEF LoginBegin
<1>4. \A l, p : LoginAuthenticate(l, p) => Spends
  BY Spenders DEF LoginAuthenticate
<1>5. /\ \A kinds, U, n : Store(kinds, U, n) \/ Unsaved(kinds, U, n) => Spends
      /\ \A kinds, U, n, answer : Saved(kinds, U, n, answer) => Spends
  BY Spenders DEF Store, Saved, Unsaved
<1>6. \A s, n, p, r : CreateUser(s, n, p, r) => Spends
  BY <1>5 DEF CreateUser
<1>7. \A s, n : DeleteUser(s, n) \/ UnlockUser(s, n) => Spends
  BY <1>5, Spenders DEF DeleteUser, UnlockUser
<1>8. \A s, n, body : UpdateBegin(s, n, body) => Spends
  BY Spenders DEF UpdateBegin
<1>9. UpdateRefused \/ UpdateField => Spends
  BY <1>5, Spenders DEF UpdateRefused, UpdateField
<1>10. \A U, n : Edit(U, n) => Spends
  BY Spenders DEF Edit
<1>11. \A n, p : SetUserPassword(n, p) => Spends
  BY <1>10 DEF SetUserPassword
<1>12. \A n, p, r : AddUser(n, p, r) => Spends
  BY <1>10 DEF AddUser
<1> QED
  BY <1>1, <1>2, <1>3, <1>4, <1>6, <1>7, <1>8, <1>9, <1>11, <1>12 DEF OperatorsNext

LEMMA TokensSpend == TokensNext => Spends
BY Spenders
   DEF TokensNext, CreateToken, RevokeToken, ShellCreate, ShellRevoke, TokenShell, CallBegin, Touch, CallEnd

LEMMA RequestsSpend == RequestsNext => Spends
BY Spenders
   DEF RequestsNext, UnlockStore, LockStore, CreateAudit, DeleteAudit, OpenAudit, Ask, AskTool, Deny,
       Load, Resolve, NotFound, Record, RecordFails, Answer

LEMMA SettingsSpend == SettingsNext => Spends
BY Spenders DEF SettingsNext, EditBegin, Apply, Snapshot, Save, SaveFails

LEMMA ScoringSpend == ScoringNext => Spends
BY Spenders DEF ScoringNext, Upload, DeleteDomain, ApplyCracks, Enrich, Rescore, UploadBHEUsers

LEMMA BloodHoundSpend == BloodHoundNext => Spends
<1>1. \A c, ok : GetDomains(c, ok) \/ Replied(ok) => Spends
  BY Spenders DEF GetDomains, Replied
<1>2. StartEnrich \/ Reconfigure \/ Build \/ FinishEnrich => Spends
  BY Spenders DEF StartEnrich, Reconfigure, Build, FinishEnrich
<1>3. \A ok : FetchAllUserProps(ok) \/ Fetch(ok) \/ ListDomains(ok) => Spends
  BY <1>1, Spenders DEF FetchAllUserProps, Fetch, ListDomains
<1>4. \A w : Inquire(w) => Spends
  BY <1>1, Spenders
     DEF Inquire, Take, Look, ResolveFromList, Give, Domains, Search, UserProps, ResolveSID, Path,
         Controllables
<1> QED
  BY <1>2, <1>3, <1>4 DEF BloodHoundNext

LEMMA ServiceBudget ==
    ASSUME Budget, OperatorsInv, CorpusInv, [Next]_service
    PROVE  Wanes
<1>1. Spends => Wanes
  <2>1. UNCHANGED budget => Wanes
    BY DEF Budget, Wanes
  <2> QED
    BY <2>1, Spending DEF Spends
<1>2. CorpusNext => Wanes
  BY CorpusSteps
<1>3. Tick \/ Stop \/ Restart \/ UNCHANGED service => Spends
  BY DEF Tick, Stop, Restart, Pass, Halt, Boot, service, process, Spends
<1> QED
  BY <1>1, <1>2, <1>3, OperatorsSpend, TokensSpend, RequestsSpend, SettingsSpend, ScoringSpend,
     BloodHoundSpend DEF Next

-----------------------------------------------------------------------------
(* The invariants of the parts.                                            *)

LEMMA ServiceOperators == OperatorsInv /\ [Next]_service => OperatorsInv'
<1> SUFFICES ASSUME OperatorsInv, [Next]_service PROVE OperatorsInv'
  OBVIOUS
<1>0. Typed
  BY DEF OperatorsInv
<1>1. CASE OperatorsNext
  BY <1>1, OperatorsSteps
<1>2. CASE Others
  BY <1>0, <1>2, OthersAside, AsideQuiet, QuietKeeps
<1>3. CASE Tick \/ Stop \/ Restart
  BY <1>3, OperatorsProcess DEF Tick, Stop, Restart
<1>4. CASE UNCHANGED service
  <2>1. UNCHANGED <<now, up, operators>>
    BY <1>4 DEF service, process
  <2> QED
    BY <1>0, <2>1, ServedAside, AsideQuiet, QuietKeeps
<1> QED
  BY <1>1, <1>2, <1>3, <1>4, Steps

LEMMA ServiceAnswers ==
    ASSUME "force" \notin Unguarded
    PROVE  OperatorsInv /\ Answers /\ [Next]_service => Answers'
<1> SUFFICES ASSUME OperatorsInv, Answers, [Next]_service PROVE Answers'
  OBVIOUS
<1>0. Typed
  BY DEF OperatorsInv
<1>1. CASE OperatorsNext
  BY <1>1, AnswersSteps
<1>2. CASE Others
  <2>1. UNCHANGED <<users, usersFile, told, up>>
    BY <1>0, <1>2, OthersAside DEF Aside
  <2> QED
    BY <2>1, SilentAnswers
<1>3. CASE Tick \/ Stop
  <2>1. UNCHANGED <<users, usersFile, told>> /\ (up' => up)
    BY <1>3 DEF Tick, Stop, Pass, Halt, OperatorsPass, operators, accounts
  <2> QED
    BY <2>1, SilentAnswers
<1>4. CASE Restart
  BY <1>4, AnswersBoot DEF Restart
<1>5. CASE UNCHANGED service
  <2>1. UNCHANGED <<users, usersFile, told, up>>
    BY <1>5 DEF service, process, operators, accounts
  <2> QED
    BY <2>1, SilentAnswers
<1> QED
  BY <1>1, <1>2, <1>3, <1>4, <1>5, Steps

LEMMA ServiceTokens ==
    ASSUME "token_shell" \notin Unguarded
    PROVE  OperatorsInv /\ TokensInv /\ [Next]_service => TokensInv'
<1> SUFFICES ASSUME OperatorsInv, TokensInv, [Next]_service PROVE TokensInv'
  OBVIOUS
<1> DEFINE TokensSame == UNCHANGED <<tokens, tokensFile, minted, promised, revoked>>
           Ends == call' = call \/ \E c \in Calls : call' = [call EXCEPT ![c] = NoCall]
<1>1. CASE TokensNext
  BY <1>1, TokensSteps
<1>2. CASE Others /\ ~TokensNext
  <2>1. UNCHANGED up
    BY <1>2, OthersAside DEF OperatorsInv, Aside
  <2>2. CASE RequestsNext
    <3>1. TokensSame /\ Ends
      BY <2>2
         DEF RequestsNext, UnlockStore, LockStore, CreateAudit, DeleteAudit, OpenAudit, Ask, AskTool,
             Deny, Load, Resolve, NotFound, Record, RecordFails, Answer, Outside, Elsewhere,
             tokenVars, tokenStore, tokenGhost
    <3> QED
      BY <2>1, <3>1, TokensStay
  <2>3. CASE UNCHANGED tokenVars
    BY <2>1, <2>3, TokensStay DEF tokenVars, tokenStore, tokenGhost
  <2> QED
    BY <1>2, <2>2, <2>3 DEF Others
<1>3. CASE OperatorsNext /\ UNCHANGED tokenVars
  <2>1. UNCHANGED up
    BY <1>3, OperatorsUp
  <2> QED
    BY <1>3, <2>1, TokensStay DEF tokenVars, tokenStore, tokenGhost
<1>4. CASE Tick \/ Stop
  <2>1. UNCHANGED tokenVars /\ (up' => up)
    BY <1>4 DEF Tick, Stop, Pass, Halt
  <2> QED
    BY <2>1, TokensStay DEF tokenVars, tokenStore, tokenGhost
<1>5. CASE Restart
  BY <1>5, TokensReopened DEF Restart
<1>6. CASE UNCHANGED service
  <2>1. UNCHANGED <<tokenVars, up>>
    BY <1>6 DEF service, process
  <2> QED
    BY <2>1, TokensStay DEF tokenVars, tokenStore, tokenGhost
<1> QED
  BY <1>1, <1>2, <1>3, <1>4, <1>5, <1>6, Steps

LEMMA ServiceRequests == OperatorsInv /\ TokensInv /\ RequestsInv /\ [Next]_service => RequestsInv'
<1> SUFFICES ASSUME OperatorsInv, TokensInv, RequestsInv, [Next]_service PROVE RequestsInv'
  OBVIOUS
<1>1. CASE OperatorsNext /\ UNCHANGED <<req, recorded, given>>
  BY <1>1, TrustedSteps, RequestsStay DEF Trusting
<1>2. CASE RequestsNext
  BY <1>2, RequestsSteps
<1>3. CASE Others /\ ~RequestsNext
  <2>1. UNCHANGED <<users, now, changed>>
    BY <1>3, OthersAside DEF OperatorsInv, Aside
  <2>2. UNCHANGED <<req, recorded, given>>
    BY <1>3 DEF Others, requestVars
  <2> QED
    BY <2>1, <2>2, TrustStays, RequestsStay
<1>4. CASE Tick
  <2>1. /\ \A q \in Requests : req'[q] = NoRequest
        /\ UNCHANGED <<req, recorded, given>>
    BY <1>4 DEF Tick, requestVars
  <2>2. req' \in [Requests -> {NoRequest}]
    BY <2>1 DEF RequestsInv
  <2> QED
    BY <2>1, <2>2, Idle
<1>5. CASE Stop \/ UNCHANGED service
  <2>1. UNCHANGED <<users, now, changed, req, recorded, given>>
    BY <1>5 DEF Stop, Halt, service, process, operators, accounts, requestVars
  <2> QED
    BY <2>1, TrustStays, RequestsStay
<1>6. CASE Restart
  <2>1. req' = [q \in Requests |-> NoRequest] /\ UNCHANGED <<recorded, given>>
    BY <1>6 DEF Restart, RequestsBoot
  <2> QED
    BY <2>1, Idle
<1> QED
  BY <1>1, <1>2, <1>3, <1>4, <1>5, <1>6, Steps

LEMMA ServiceScoring == ScoringInv /\ [Next]_service => ScoringInv'
<1>1. [Next]_service => [ScoringNext]_scoringVars
  BY DEF Next, Tick, Stop, Restart, service
<1> QED
  BY <1>1, Scorings

LEMMA ServiceBloodHound == BloodHoundInv /\ [Next]_service => BloodHoundInv'
<1>1. [Next]_service => BloodHoundNext \/ BloodHoundBoot \/ UNCHANGED bloodHoundVars
  BY DEF Next, Tick, Stop, Restart, service
<1> QED
  BY <1>1, BloodHoundInvStep, BloodHoundInvBoot, BloodHoundInvStutters

LEMMA ServiceTrouble ==
    BloodHoundInv /\ TroubleInv /\ [Next]_service => (BloodHoundInv /\ TroubleInv)'
<1>1. [Next]_service => BloodHoundNext \/ BloodHoundBoot \/ UNCHANGED bloodHoundVars
  BY DEF Next, Tick, Stop, Restart, service
<1> QED
  BY <1>1, ServiceBloodHound, TroubleInvStep, TroubleInvBoot, TroubleInvStutters

LEMMA ServiceLock == OperatorsInv /\ LockInv /\ [Next]_service => LockInv'
<1> SUFFICES ASSUME OperatorsInv, LockInv, [Next]_service PROVE LockInv'
  OBVIOUS
<1>0. Typed /\ now \in Nat
  BY DEF OperatorsInv, Typed
<1>1. CASE OperatorsNext
  BY <1>1, LockSteps
<1>2. CASE Tick \/ Restart
  BY <1>0, <1>2, LockProcess DEF Tick, Restart
<1>3. CASE Others \/ Stop \/ UNCHANGED service
  <2>1. UNCHANGED now
    BY <1>0, <1>3, OthersAside DEF Aside, Stop, Halt, service, process
  <2>2. UNCHANGED lockouts
    BY <1>3, OthersLock DEF Stop, service, operators
  <2> QED
    BY <2>1, <2>2, LockStays DEF lockouts, LockInv, LockTyped
<1> QED
  BY <1>1, <1>2, <1>3, Steps

\* The process does not come up but by a restart.
LEMMA UpBoots == OperatorsInv /\ [Next]_service => Restart \/ (up' => up)
<1> SUFFICES ASSUME OperatorsInv, [Next]_service PROVE Restart \/ (up' => up)
  OBVIOUS
<1>1. OperatorsNext => UNCHANGED up
  BY OperatorsUp
<1>2. Others => UNCHANGED up
  BY OthersAside DEF OperatorsInv, Aside
<1> QED
  BY <1>1, <1>2, Steps DEF Tick, Stop, Pass, Halt, service, process

LEMMA ServiceSettings ==
    ASSUME "two_editors" \notin Unguarded
    PROVE  OperatorsInv /\ SettingsInv /\ [Next]_service => SettingsInv'
<1> SUFFICES ASSUME OperatorsInv, SettingsInv, [Next]_service PROVE SettingsInv'
  OBVIOUS
<1>1. CASE SettingsNext
  BY <1>1, SettingsInvSteps
<1>2. CASE Restart
  BY <1>2, SettingsReopened DEF Restart
<1>3. CASE ~SettingsNext /\ ~Restart
  <2>1. UNCHANGED settingVars
    BY <1>3 DEF Next, Tick, Stop, service
  <2> QED
    BY <1>3, <2>1, UpBoots, SettingsStay
<1> QED
  BY <1>1, <1>2, <1>3

\* The budget, the corpus, and its pair.
LEMMA ServiceCorpus ==
    ASSUME Budget, OperatorsInv, CorpusInv, [Next]_service
    PROVE  Budget' /\ CorpusInv' /\ (PairInv => PairInv')
<1>1. Wanes
  BY ServiceBudget
<1>2. Budget'
  BY <1>1 DEF Budget, Wanes
<1>3. CASE CorpusNext
  BY <1>2, <1>3, CorpusSteps
<1>4. CASE Stop
  BY <1>2, <1>4, CorpusHalts DEF Stop
<1>5. CASE Restart
  BY <1>2, <1>5, CorpusBoots DEF Restart
<1>6. CASE ~CorpusNext /\ ~Stop /\ ~Restart
  <2>1. UNCHANGED corpusVars
    BY <1>6 DEF Next, Tick, service
  <2>2. UNCHANGED up
    <3>1. OperatorsNext => UNCHANGED up
      BY OperatorsUp
    <3>2. Others => UNCHANGED up
      BY OthersAside DEF OperatorsInv, Aside
    <3> QED
      BY <1>6, <3>1, <3>2, Steps DEF Tick, Pass, service, process
  <2> QED
    BY <1>1, <1>2, <2>1, <2>2, CorpusStay
<1> QED
  BY <1>3, <1>4, <1>5, <1>6

-----------------------------------------------------------------------------
(* The types of all parts together.                                        *)

ServiceTyped ==
    /\ Budget /\ OperatorsInv /\ LockInv /\ ToldTyped
    /\ TokensTyped /\ RequestsTypeOK
    /\ SettingsTyped /\ CorpusInv /\ ScoringInv
    /\ BloodHoundInv /\ TroubleInv

\* Who has a session is decided by Operators alone.
LEMMA OthersSessions == ASSUME Others PROVE DOMAIN sessions' = DOMAIN sessions
<1>1. \A s : Authenticated(s) => DOMAIN sessions' = DOMAIN sessions
  BY AuthenticatedThere
<1>2. TokensNext => DOMAIN sessions' = DOMAIN sessions
  BY <1>1 DEF TokensNext, CreateToken, RevokeToken, ShellCreate, ShellRevoke, CallBegin, Touch, CallEnd,
         LeadSession, operators
<1>3. RequestsNext => DOMAIN sessions' = DOMAIN sessions
  BY <1>1 DEF RequestsNext, UnlockStore, LockStore, CreateAudit, DeleteAudit, OpenAudit, Ask, AskTool, Deny,
         Load, Resolve, NotFound, Record, RecordFails, Answer, LeadSession, Gate, Elsewhere, operators
<1>4. SettingsNext => DOMAIN sessions' = DOMAIN sessions
  BY <1>1 DEF SettingsNext, EditBegin, Apply, Snapshot, Save, SaveFails, LeadSession, operators
<1> QED
  BY <1>2, <1>3, <1>4 DEF Others, operators

LEMMA ServiceTold == OperatorsInv /\ ToldTyped /\ [Next]_service => ToldTyped'
<1> SUFFICES ASSUME OperatorsInv, ToldTyped, [Next]_service PROVE ToldTyped'
  OBVIOUS
<1>1. CASE OperatorsNext
  BY <1>1, ToldSteps
<1>2. CASE UNCHANGED told
  BY <1>2 DEF ToldTyped
<1>3. Others => UNCHANGED told
  BY OthersAside DEF OperatorsInv, Aside
<1>4. Tick \/ Stop \/ Restart \/ UNCHANGED service => UNCHANGED told
  BY DEF Tick, Stop, Restart, OperatorsPass, OperatorsBoot, service, operators, accounts
<1> QED
  BY <1>1, <1>2, <1>3, <1>4, Steps

LEMMA ServiceTokensTyped == now \in Nat /\ TokensTyped /\ [Next]_service => TokensTyped'
<1> SUFFICES ASSUME now \in Nat, TokensTyped, [Next]_service PROVE TokensTyped'
  OBVIOUS
<1>1. CASE TokensNext
  BY <1>1, TokensTypedSteps
<1>2. CASE UNCHANGED <<tokenStore, mcpThrottle, tokenGhost>>
  BY <1>2, TokensTypedStay
<1>3. CASE Restart
  BY <1>3, TokensTypedBoot DEF Restart
<1>4. RequestsNext => UNCHANGED <<tokenStore, mcpThrottle, tokenGhost>>
  BY DEF RequestsNext, UnlockStore, LockStore, CreateAudit, DeleteAudit, OpenAudit, Ask, AskTool,
         Deny, Load, Resolve, NotFound, Record, RecordFails, Answer, Outside, Elsewhere, tokenVars
<1>5. (OperatorsNext /\ UNCHANGED tokenVars) \/ Tick \/ Stop \/ UNCHANGED service
          => UNCHANGED <<tokenStore, mcpThrottle, tokenGhost>>
  BY DEF Tick, Stop, service, tokenVars
<1>6. Others => TokensNext \/ RequestsNext \/ UNCHANGED <<tokenStore, mcpThrottle, tokenGhost>>
  BY DEF Others, tokenVars
<1> QED
  BY <1>1, <1>2, <1>3, <1>4, <1>5, <1>6, Steps

LEMMA ServiceRequestsTyped == RequestsTypeOK /\ [Next]_service => RequestsTypeOK'
<1> SUFFICES ASSUME RequestsTypeOK, [Next]_service PROVE RequestsTypeOK'
  OBVIOUS
<1> DEFINE Untouched == UNCHANGED <<unlocked, audit, active, recorded, given>> /\ DOMAIN sessions' = DOMAIN sessions
<1>1. CASE RequestsNext
  BY <1>1, RequestsTypedSteps
<1>2. CASE Untouched
  BY <1>2, RequestsTypedStay
<1>3. CASE Restart
  BY <1>3, RequestsTypedBoot DEF Restart
<1>4. Others => RequestsNext \/ Untouched
  BY OthersSessions DEF Others, requestVars
<1>5. Tick \/ Stop \/ UNCHANGED service => Untouched
  BY DEF Tick, Stop, OperatorsPass, service, operators, requestVars
<1>6. Next => \/ OperatorsNext /\ ForgetActive /\ UNCHANGED <<unlocked, audit, recorded, given>>
              \/ Others \/ Tick \/ Stop \/ Restart
  BY DEF Next, Others
<1>7. OperatorsNext /\ ForgetActive /\ UNCHANGED <<unlocked, audit, recorded, given>> => RequestsTypeOK'
  BY RequestsTypedForget
<1> HIDE DEF Untouched
<1> QED
  BY <1>1, <1>2, <1>3, <1>4, <1>5, <1>6, <1>7

LEMMA ServiceSettingsTyped == OperatorsInv /\ SettingsTyped /\ [Next]_service => SettingsTyped'
<1> SUFFICES ASSUME OperatorsInv, SettingsTyped, [Next]_service PROVE SettingsTyped'
  OBVIOUS
<1>1. CASE SettingsNext
  BY <1>1, SettingsTypedSteps
<1>2. CASE UNCHANGED settingVars
  BY <1>2 DEF settingVars, SettingsTyped
<1>3. CASE Restart
  BY <1>3, SettingsReopened DEF Restart
<1>4. Others => SettingsNext \/ UNCHANGED settingVars
  BY DEF Others
<1>5. Tick \/ Stop \/ UNCHANGED service => UNCHANGED settingVars
  BY DEF Tick, Stop, service
<1> QED
  BY <1>1, <1>2, <1>3, <1>4, <1>5, Steps

-----------------------------------------------------------------------------
(* The theorems.                                                           *)

\* However two leads, an update that stops half way, failing writes, the command
\* line and restarts follow on each other, an enabled lead is left in memory and
\* in the file (isOnlyEnabledLeadLocked of auth.UserStore).
THEOREM LeadAlwaysRemains == Spec => []LeadRemains
<1>1. Init => OperatorsInv
  BY OperatorsInitially DEF Init
<1>2. OperatorsInv /\ [Next]_service => OperatorsInv'
  BY ServiceOperators
<1>3. OperatorsInv => LeadRemains
  BY DEF OperatorsInv
<1> QED
  BY <1>1, <1>2, <1>3, PTL DEF Spec

\* A session is worth more than its operator's account for less than the absolute
\* lifetime after that account changed (SessionStore.Get, handleLogin).
THEOREM StaleRolesEnd == Spec => []StaleRoleBounded
<1>1. Init => OperatorsInv
  BY OperatorsInitially DEF Init
<1>2. OperatorsInv /\ [Next]_service => OperatorsInv'
  BY ServiceOperators
<1>3. OperatorsInv => StaleRoleBounded
  BY StaleRole
<1> QED
  BY <1>1, <1>2, <1>3, PTL DEF Spec

\* What the last answer about an operator promised is what a restart will find
\* and what the running server goes by (auth.UserStore, handleUpdateUser), as
\* long as `patd user --force` is not used under a running server.
THEOREM AnswersAlwaysHold ==
    ASSUME "force" \notin Unguarded
    PROVE  Spec => []AnswersHold
<1>1. Init => OperatorsInv /\ Answers
  BY OperatorsInitially, AnswersInitially DEF Init
<1>2. OperatorsInv /\ Answers /\ [Next]_service => (OperatorsInv /\ Answers)'
  BY ServiceOperators, ServiceAnswers
<1>3. OperatorsInv /\ Answers => AnswersHold
  BY DEF Answers
<1> QED
  BY <1>1, <1>2, <1>3, PTL DEF Spec

\* The invariant of the operators, the tokens and the requests together.
Access == OperatorsInv /\ TokensInv /\ RequestsInv

LEMMA AccessKept ==
    ASSUME "token_shell" \notin Unguarded
    PROVE  (Init => Access) /\ (Access /\ [Next]_service => Access')
<1>1. Init => Access
  BY OperatorsInitially, TokensInitially, RequestsInitially DEF Init, Access
<1>2. Access /\ [Next]_service => Access'
  BY ServiceOperators, ServiceTokens, ServiceRequests DEF Access
<1> QED
  BY <1>1, <1>2

\* An MCP request that comes after its token was revoked gets no role, and none
\* gets another than its token was minted for (TokenStore.Verify, touchLastUsed,
\* Revoke), as long as `patd token` is not used under a running server.
THEOREM RevokedAlwaysOut ==
    ASSUME "token_shell" \notin Unguarded
    PROVE  Spec => []RevokedStaysOut
<1>1. Access => RevokedStaysOut
  BY RevokedOut DEF Access
<1>2. (Init => Access) /\ (Access /\ [Next]_service => Access')
  BY AccessKept
<1> QED
  BY <1>1, <1>2, PTL DEF Spec

\* A token that was handed out is known to the server and to the file until it is
\* revoked (TokenStore.Issue takes back one that it cannot save).
THEOREM TokensAlwaysSurvive ==
    ASSUME "token_shell" \notin Unguarded
    PROVE  Spec => []TokensSurvive
<1>1. Access => TokensSurvive
  BY DEF Access, TokensInv
<1>2. (Init => Access) /\ (Access /\ [Next]_service => Access')
  BY AccessKept
<1> QED
  BY <1>1, <1>2, PTL DEF Spec

\* No answer with cleartext goes without its own record in the audit log
\* (auditOrFail), for any number of requests of any number of operators.
THEOREM CleartextAlwaysLogged ==
    ASSUME "token_shell" \notin Unguarded
    PROVE  Spec => []CleartextLogged
<1>1. Access => CleartextLogged
  BY LoggedFirst DEF Access
<1>2. (Init => Access) /\ (Access /\ [Next]_service => Access')
  BY AccessKept
<1> QED
  BY <1>1, <1>2, PTL DEF Spec

\* Cleartext goes to an operator who is a lead when it is sent, or to a lead's token
\* that was not revoked before the request (requireLead, roleAtLeast and the role
\* checks of the handlers).  The exception is an operator whose account was changed
\* since the session was opened: the session keeps its role.
THEOREM CleartextOnlyToLeads ==
    ASSUME "token_shell" \notin Unguarded
    PROVE  Spec => []CleartextToLeads
<1>1. Access => CleartextToLeads
  BY LeadsOnly DEF Access
<1>2. (Init => Access) /\ (Access /\ [Next]_service => Access')
  BY AccessKept
<1> QED
  BY <1>1, <1>2, PTL DEF Spec

\* What was shown of the scores alone holds of them in the running service, stops
\* and starts of the process included: percentiles, reuse and the level of an
\* account agree as ComputePercentiles and the escalations leave them.
THEOREM ScoresAlwaysAgree ==
    Spec => [](PercentileAgrees /\ ReuseEscalates /\ EscalationsCurrent)
<1>1. Init => ScoringInv
  BY Initially DEF Init
<1>2. ScoringInv /\ [Next]_service => ScoringInv'
  BY ServiceScoring
<1>3. ScoringInv => PercentileAgrees /\ ReuseEscalates /\ EscalationsCurrent
  BY DEF ScoringInv
<1> QED
  BY <1>1, <1>2, <1>3, PTL DEF Spec

\* No enrichment of the running service says more of an account than BloodHound
\* knows, a restart in the middle of one included (enrichCandidate, GetUserData).
THEOREM NothingEverInflated == Spec => []NeverInflates
<1>1. Init => BloodHoundInv
  BY BloodHoundInvInit DEF Init
<1>2. BloodHoundInv /\ [Next]_service => BloodHoundInv'
  BY ServiceBloodHound
<1>3. BloodHoundInv => NeverInflates
  BY InflatesNothing
<1> QED
  BY <1>1, <1>2, <1>3, PTL DEF Spec

\* In the running service too, a job none of whose calls failed says of every
\* account all that BloodHound knows, restarts of the process before it and in the
\* middle of it included, unless its client holds a miss that an earlier failure
\* left (setAnchorSID, setDAGroup).
THEOREM NothingEverForgotten == Spec => []Untroubled
<1> DEFINE I == BloodHoundInv /\ TroubleInv
<1>1. Init => I
  BY BloodHoundInvInit, TroubleInvInit DEF Init
<1>2. I /\ [Next]_service => I'
  BY ServiceTrouble
<1>3. I => Untroubled
  BY NoTrouble
<1> QED
  BY <1>1, <1>2, <1>3, PTL DEF Spec

\* Every lockout goes back to as many refused logins of that operator within the
\* window as LockFor presumes (LoginTracker.RecordFailure), whatever logins, other
\* operators' failures that make it forget entries, and restarts come between.
THEOREM LockoutsHaveCause == Spec => []LockoutHasCause
<1>1. Init => OperatorsInv /\ LockInv
  BY OperatorsInitially, LockInitially DEF Init
<1>2. OperatorsInv /\ LockInv /\ [Next]_service => (OperatorsInv /\ LockInv)'
  BY ServiceOperators, ServiceLock
<1>3. OperatorsInv /\ LockInv => LockoutHasCause
  BY LockedForCause DEF OperatorsInv, Typed
<1> QED
  BY <1>1, <1>2, <1>3, PTL DEF Spec

\* Once no edit of a setting is under way, its file and the running server have
\* what the last answer said was saved (handleSavePolicies, handleSaveForbidden,
\* handleSaveBHE), a failing write and a restart half way included, as long as no
\* two leads edit the same setting at once.
THEOREM SettingsAlwaysSurvive ==
    ASSUME "two_editors" \notin Unguarded
    PROVE  Spec => []SettingsSurvive
<1>1. Init => OperatorsInv /\ SettingsInv
  BY OperatorsInitially, SettingsInitially DEF Init
<1>2. OperatorsInv /\ SettingsInv /\ [Next]_service => (OperatorsInv /\ SettingsInv)'
  BY ServiceOperators, ServiceSettings
<1>3. OperatorsInv /\ SettingsInv => SettingsSurvive
  BY DEF SettingsInv, Allowed, SettingsSurvive
<1> QED
  BY <1>1, <1>2, <1>3, PTL DEF Spec

\* A corpus that was whole is whole again after every job of the breach corpus,
\* whatever failures and restarts it met (swapIntoPlace, restore), but for those
\* that cost it: a stop within the swap, a file that could not be moved back.
THEOREM CorpusAlwaysKept == Spec => []CorpusKept
<1> DEFINE I == Budget /\ OperatorsInv /\ CorpusInv
<1>1. Init => I
  BY OperatorsInitially, CorpusInitially DEF Init
<1>2. I /\ [Next]_service => I'
  BY ServiceOperators, ServiceCorpus
<1>3. I => CorpusKept
  BY DEF CorpusInv, DiskInv, Owning, CorpusKept
<1> QED
  BY <1>1, <1>2, <1>3, PTL DEF Spec

LEMMA SearchInvariant ==
    ASSUME FewFailures
    PROVE  Spec => []PairInv
<1> DEFINE I == Budget /\ OperatorsInv /\ CorpusInv /\ PairInv
<1>1. Init => I
  BY OperatorsInitially, CorpusInitially DEF Init
<1>2. I /\ [Next]_service => I'
  BY ServiceOperators, ServiceCorpus
<1>3. I => PairInv
  OBVIOUS
<1> QED
  BY <1>1, <1>2, <1>3, PTL DEF Spec

\* The engine never searches a corpus with the index of another (swapIntoPlace),
\* for any number of jobs and lookups and for any two renames of the swap that
\* fail, or for any number of stops of the process when none does.
THEOREM PairsAlwaysMatch ==
    ASSUME FewFailures
    PROVE  Spec => []PairMatches
<1>1. PairInv => PairMatches
  BY DEF PairInv
<1> QED
  BY <1>1, SearchInvariant, PTL

\* An account once found breached stays so (freshHIBP), whichever scorings and
\* swaps of the corpus overlap, with the same failures.
THEOREM BreachesStayKnown ==
    ASSUME FewFailures
    PROVE  Spec => []BreachKept
<1>1. PairInv => BreachKept
  BY DEF PairInv
<1> QED
  BY <1>1, SearchInvariant, PTL

\* Every variable of the service keeps its type: no session is left with an audit
\* open after it has ended (ForgetActive), no saved use outlives its token, the
\* tracked operators stay within maxTrackedUsers, and what a job of BloodHound has
\* captured exists; whatever races the configuration allows.
THEOREM TypesKept == Spec => []TypeOK
<1>1. Init => ServiceTyped
  <2>1. Init => OperatorsInv /\ LockInv /\ ToldTyped /\ TokensTyped /\ RequestsTypeOK
    BY OperatorsInitially, LockInitially, ToldInitially, TokensTypedInit, RequestsTypedInit DEF Init
  <2>2. Init => SettingsTyped /\ Budget /\ CorpusInv /\ ScoringInv
    BY SettingsInitially, CorpusInitially, Initially DEF Init, SettingsInv
  <2>3. Init => BloodHoundInv /\ TroubleInv
    BY BloodHoundInvInit, TroubleInvInit DEF Init
  <2> QED
    BY <2>1, <2>2, <2>3 DEF ServiceTyped
<1>2. ServiceTyped /\ [Next]_service => ServiceTyped'
  <2> SUFFICES ASSUME ServiceTyped, [Next]_service PROVE ServiceTyped'
    OBVIOUS
  <2>1. OperatorsInv' /\ LockInv' /\ ToldTyped'
    BY ServiceOperators, ServiceLock, ServiceTold DEF ServiceTyped
  <2>2. TokensTyped' /\ RequestsTypeOK' /\ SettingsTyped'
    BY ServiceTokensTyped, ServiceRequestsTyped, ServiceSettingsTyped DEF ServiceTyped, OperatorsInv, Typed
  <2>3. Budget' /\ CorpusInv'
    BY ServiceCorpus DEF ServiceTyped
  <2>4. ScoringInv' /\ BloodHoundInv' /\ TroubleInv'
    BY ServiceScoring, ServiceTrouble DEF ServiceTyped
  <2> QED
    BY <2>1, <2>2, <2>3, <2>4 DEF ServiceTyped
<1>3. ServiceTyped => TypeOK
  <2> SUFFICES ASSUME ServiceTyped PROVE TypeOK
    OBVIOUS
  <2>1. ProcessTypeOK
    BY DEF ServiceTyped, Budget, OperatorsInv, Typed, ProcessTypeOK
  <2>2. OperatorsTypeOK
    BY DEF ServiceTyped, OperatorsInv, Typed, Book, Sessions, Updates, LockInv, LockTyped, Entries,
           ToldTyped, OperatorsTypeOK
  <2>3. TokensTypeOK /\ RequestsTypeOK
    BY TokensAreTyped DEF ServiceTyped
  <2>4. SettingsTypeOK
    BY DEF ServiceTyped, SettingsTyped, SettingsTypeOK
  <2>5. CorpusTypeOK
    BY DEF ServiceTyped, CorpusInv, DiskInv, CorpusTyped, Whole, CorpusTypeOK
  <2>6. ScoringTypeOK /\ BloodHoundTypeOK
    BY BloodHoundTyped DEF ServiceTyped, ScoringInv
  <2> QED
    BY <2>1, <2>2, <2>3, <2>4, <2>5, <2>6 DEF TypeOK
<1> QED
  BY <1>1, <1>2, <1>3, PTL DEF Spec

=============================================================================

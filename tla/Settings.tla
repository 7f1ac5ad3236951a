------------------------------ MODULE Settings ------------------------------
(***************************************************************************)
(* The settings a lead edits while the server runs: password policies,     *)
(* forbidden words and the BloodHound connection, each in memory and in a  *)
(* file.  The first two take effect and are then saved; the connection is  *)
(* saved and then takes effect.  A value is a pair: what was submitted and *)
(* the API token, which only the connection has and a form may leave blank *)
(* to keep the saved one.                                                  *)
(***************************************************************************)
EXTENDS Operators

CONSTANTS
    Editors,    \* requests that save a setting at the same time
    Values,
    Blank       \* no token

Keys    == {"policies", "words", "bloodhound"}
Setting == Values \X (Values \cup {Blank})

VARIABLES
    live,       \* live[k]: policy.Set, Lists.ForbiddenWords, Engine.Enricher
    saved,      \* saved[k]: its file
    edit,       \* edit[e]: the request being served
    owed        \* ghost: owed[k]: the values the last answer about k allows

settingVars == <<live, saved, edit, owed>>

NoEdit == [at |-> "none"]

SettingsInit ==
    /\ \E v \in Values : live = [k \in Keys |-> <<v, Blank>>]
    /\ saved = live
    /\ edit = [e \in Editors |-> NoEdit]
    /\ owed = [k \in Keys |-> {saved[k]}]

SettingsApart == UNCHANGED <<accounts, lockouts, login, update>>
Editing(k) == {e \in Editors : edit[e] # NoEdit /\ edit[e].key = k}

\* The handlers up to their first effect.  bheMerge reads the saved connection.
EditBegin(e, s, k, v, token) ==
    /\ edit[e] = NoEdit
    /\ Takes({"setting"})
    /\ LeadSession(s)
    /\ Editing(k) = {} \/ "two_editors" \in Unguarded
    /\ LET kept == IF k = "bloodhound" /\ token = Blank THEN saved[k][2] ELSE token
       IN  /\ k = "bloodhound" <=> kept # Blank
           /\ edit' = [edit EXCEPT ![e] =
                [at |-> IF k = "bloodhound" THEN "save" ELSE "apply", key |-> k, value |-> <<v, kept>>]]
    /\ UNCHANGED <<live, saved, owed>> /\ SettingsApart

\* Set.Replace, SwapForbiddenWords, SwapEnricher.
Apply(e) ==
    /\ Serves
    /\ edit[e].at = "apply"
    /\ LET k == edit[e].key
       IN  /\ live' = [live EXCEPT ![k] = edit[e].value]
           /\ IF k = "bloodhound"
              THEN edit' = [edit EXCEPT ![e] = NoEdit] /\ owed' = [owed EXCEPT ![k] = {edit[e].value}]
              ELSE edit' = [edit EXCEPT ![e].at = "snapshot"] /\ owed' = [owed EXCEPT ![k] = Setting]
    /\ UNCHANGED <<saved, operators>>

\* Set.Save takes a snapshot of the policies; the words are saved as submitted.
Snapshot(e) ==
    /\ Serves
    /\ edit[e].at = "snapshot"
    /\ edit' = [edit EXCEPT ![e].at = "save",
                            ![e].value = IF edit[e].key = "policies" THEN live["policies"] ELSE @]
    /\ UNCHANGED <<live, saved, owed, operators>>

\* Mutant: the answer is "ok" whether or not the file was written.
SaveBlindly(e) ==
    /\ edit[e].at = "save"
    /\ LET k == edit[e].key
           v == edit[e].value
       IN  /\ \/ Takes({}) /\ saved' = [saved EXCEPT ![k] = v]
              \/ Takes({"fault"}) /\ UNCHANGED saved
           /\ IF k = "bloodhound"
              THEN edit' = [edit EXCEPT ![e].at = "apply"] /\ owed' = [owed EXCEPT ![k] = Setting]
              ELSE edit' = [edit EXCEPT ![e] = NoEdit] /\ owed' = [owed EXCEPT ![k] = {v}]
    /\ UNCHANGED <<live, operators>>

\* The file is written.
Save(e) ==
    /\ Takes({})
    /\ edit[e].at = "save"
    /\ LET k == edit[e].key
           v == edit[e].value
       IN  /\ saved' = [saved EXCEPT ![k] = v]
           /\ IF k = "bloodhound"
              THEN edit' = [edit EXCEPT ![e].at = "apply"] /\ owed' = [owed EXCEPT ![k] = Setting]
              ELSE edit' = [edit EXCEPT ![e] = NoEdit] /\ owed' = [owed EXCEPT ![k] = {v}]
    /\ UNCHANGED <<live, operators>>

\* It is not: a policy or a word list is "saved in memory", a connection nowhere.
SaveFails(e) ==
    /\ Takes({"fault"})
    /\ edit[e].at = "save"
    /\ edit' = [edit EXCEPT ![e] = NoEdit]
    /\ UNCHANGED <<live, saved, owed, operators>>

\* buildEngine.
SettingsBoot ==
    /\ live' = saved
    /\ edit' = [e \in Editors |-> NoEdit]
    /\ UNCHANGED <<saved, owed>>

SettingsNext ==
    \E e \in Editors :
        \/ \E s \in SessionIds, k \in Keys, v \in Values, token \in Values \cup {Blank} :
            EditBegin(e, s, k, v, token)
        \/ Apply(e) \/ Snapshot(e) \/ Save(e) \/ SaveFails(e)

-----------------------------------------------------------------------------
(* Properties.                                                             *)

SettingsTypeOK ==
    /\ live \in [Keys -> Setting] /\ saved \in [Keys -> Setting]
    /\ owed \in [Keys -> SUBSET Setting]

\* Once no edit of a setting is under way, the file and the running server have
\* what the last answer said was saved; a connection that could not be saved has
\* not replaced the old one.  A restart finds the same.
SettingsSurvive ==
    \A k \in Keys : Editing(k) = {} =>
        saved[k] \in owed[k] /\ (up => live[k] \in owed[k])

=============================================================================

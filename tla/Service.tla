------------------------------ MODULE Service ------------------------------
(***************************************************************************)
(* The running service: operators, sessions, lockouts, tokens, requests,   *)
(* settings, the breach corpus, the scores of an audit and enrichment from *)
(* BloodHound, each a module, in one process that may stop between any two *)
(* of their steps and start again from its files.  (What the store's files *)
(* go through is the subject of Store and Vault.)                          *)
(***************************************************************************)
EXTENDS Requests, Settings, Corpus, Scoring, BloodHound

service == <<process, operators, tokenVars, requestVars, settingVars, corpusVars, scoringVars,
             bloodHoundVars>>

Init ==
    /\ ProcessInit
    /\ OperatorsInit /\ TokensInit /\ RequestsInit /\ SettingsInit /\ CorpusInit
    /\ ScoringInit /\ BloodHoundInit

\* The clock does not pass between what an operator or a token is authenticated
\* for and its use.
Tick ==
    /\ Pass
    /\ OperatorsPass
    /\ \A q \in Requests : req[q] = NoRequest
    /\ UNCHANGED <<tokenVars, requestVars, settingVars, corpusVars, scoringVars, bloodHoundVars>>

Stop ==
    /\ Halt
    /\ CorpusHalt
    /\ UNCHANGED <<operators, tokenVars, requestVars, settingVars, scoringVars, bloodHoundVars>>

Restart ==
    /\ Boot
    /\ OperatorsBoot /\ TokensBoot /\ RequestsBoot /\ SettingsBoot /\ CorpusBoot /\ BloodHoundBoot
    /\ UNCHANGED scoringVars

Next ==
    \/ /\ OperatorsNext
       /\ ForgetActive
       /\ UNCHANGED <<tokenVars, unlocked, audit, unlockThrottle, req, recorded, given,
                      settingVars, corpusVars, scoringVars, bloodHoundVars>>
    \/ /\ TokensNext
       /\ UNCHANGED <<requestVars, settingVars, corpusVars, scoringVars, bloodHoundVars>>
    \/ /\ RequestsNext
       /\ UNCHANGED <<settingVars, corpusVars, scoringVars, bloodHoundVars>>
    \/ /\ SettingsNext
       /\ UNCHANGED <<tokenVars, requestVars, corpusVars, scoringVars, bloodHoundVars>>
    \/ /\ CorpusNext
       /\ UNCHANGED <<operators, tokenVars, requestVars, settingVars, scoringVars, bloodHoundVars>>
    \/ /\ ScoringNext
       /\ UNCHANGED <<operators, tokenVars, requestVars, settingVars, corpusVars, bloodHoundVars>>
    \/ /\ BloodHoundNext
       /\ UNCHANGED <<operators, tokenVars, requestVars, settingVars, corpusVars, scoringVars>>
    \/ Tick
    \/ Stop
    \/ Restart

Spec == Init /\ [][Next]_service

TypeOK ==
    /\ ProcessTypeOK
    /\ OperatorsTypeOK /\ TokensTypeOK /\ RequestsTypeOK /\ SettingsTypeOK /\ CorpusTypeOK
    /\ ScoringTypeOK /\ BloodHoundTypeOK

=============================================================================

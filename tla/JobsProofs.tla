----------------------------- MODULE JobsProofs -----------------------------
(***************************************************************************)
(* Proofs about Jobs, for any number of jobs, accounts and workers.        *)
(***************************************************************************)
EXTENDS Jobs, FiniteSetTheorems, TLAPS

Places == {"unused", "spawned", "load", "choose", "feed", "send", "join", "verdict", "commit",
           "rewrite", "finish", "ended", "over"}

\* The goroutine of a run is past its start and before its deferred calls ...
Inside == {"load", "choose", "feed", "send", "join", "verdict", "commit", "rewrite",
           "finish"}
\* ... or is one of its manager's, as Manager.phase has it.
Underway == Inside \cup {"spawned"}

Reports == {"idle", "done", "failed", "cancelled"}

-----------------------------------------------------------------------------
(* The managers.                                                           *)

\* A manager's phase and current agree with its only run under way; a run has its
\* own channel from its first step on; the runs ever started are the first ones.
Managed ==
    /\ phase \in [Managers -> Phases]
    /\ current \in [Managers -> 0..MaxRuns]
    /\ started \in 0..MaxRuns
    /\ job \in [Runs -> Managers]
    /\ at \in [Runs -> Places]
    /\ outcome \in [Runs -> Reports]
    /\ myDone \in [Runs -> 0..MaxRuns]
    /\ \A r \in Runs : at[r] = "unused" <=> r > started
    /\ \A r \in Runs : at[r] \in Underway => phase[job[r]] = "running" /\ current[job[r]] = r
    /\ \A m \in Managers : phase[m] = "running" =>
        /\ current[m] \in Runs /\ at[current[m]] \in Underway /\ job[current[m]] = m
    /\ \A r \in Runs : at[r] \notin {"unused", "spawned"} => myDone[r] = r
    /\ closed = {r \in Runs : at[r] = "over"}

LEMMA ManagedProperties == Managed => OneRun /\ ClosesOwnChannel
<1> SUFFICES ASSUME Managed PROVE OneRun /\ ClosesOwnChannel
  OBVIOUS
<1>1. Active = {r \in Runs : at[r] \in Underway}
  BY DEF Managed, Active, Places, Underway, Inside
<1>2. ASSUME NEW m \in Managers
      PROVE  {r \in Active : job[r] = m} = IF phase[m] = "running" THEN {current[m]} ELSE {}
  BY <1>1 DEF Managed
<1> QED
  BY <1>2 DEF Managed, OneRun, ClosesOwnChannel

\* The steps of a run between its first one and its report.
Working(r) ==
    \/ Load(r) \/ LoadFails(r) \/ BulkPrefetch(r) \/ StartPool(r) \/ Feed(r) \/ Join(r)
    \/ \E w \in Workers : HandOver(r, w)
    \/ Verdict(r) \/ MutateBegin(r) \/ Commit(r) \/ CommitFails(r)

LEMMA WorkingStays ==
    ASSUME Managed, NEW r \in Runs, Working(r)
    PROVE  /\ at[r] \in Inside
           /\ \E x \in Inside : at' = [at EXCEPT ![r] = x]
           /\ outcome' = outcome \/ \E x \in Reports : outcome' = [outcome EXCEPT ![r] = x]
           /\ UNCHANGED <<manager, job, myDone, closed, inFlight, tick, request>>
<1>1. CASE Load(r) \/ LoadFails(r)
  BY <1>1 DEF Load, LoadFails, End, Inside, Reports, gate
<1>2. CASE BulkPrefetch(r) \/ StartPool(r) \/ Feed(r) \/ Join(r)
  BY <1>2 DEF BulkPrefetch, StartPool, Feed, Join, Inside, gate
<1>3. CASE \E w \in Workers : HandOver(r, w)
  BY <1>3 DEF HandOver, Inside, gate
<1>4. CASE Verdict(r)
  BY <1>4 DEF Verdict, End, Inside, Reports, gate
<1>5. CASE MutateBegin(r)
  BY <1>5 DEF MutateBegin, Inside, gate
<1>6. CASE Commit(r) \/ CommitFails(r)
  BY <1>6 DEF Commit, CommitFails, MutateEnd, End, Inside, Reports, gate
<1> QED
  BY <1>1, <1>2, <1>3, <1>4, <1>5, <1>6 DEF Working

LEMMA WorkingManaged ==
    ASSUME Managed, NEW r \in Runs, Working(r)
    PROVE  Managed'
<1>1. PICK x \in Inside : at' = [at EXCEPT ![r] = x]
  BY WorkingStays
<1>2. at[r] \in Inside /\ UNCHANGED <<phase, current, started, job, myDone, closed>>
  BY WorkingStays DEF manager
<1>3. outcome' \in [Runs -> Reports]
  BY WorkingStays DEF Managed
<1>4. at' \in [Runs -> Places]
  BY <1>1 DEF Managed, Inside, Places
<1>5. \A q \in Runs : q # r => at'[q] = at[q]
  BY <1>1 DEF Managed
<1>6. at'[r] = x
  BY <1>1 DEF Managed
<1>7. \A q \in Runs : /\ at'[q] \in Underway <=> at[q] \in Underway
                      /\ at'[q] = "unused" <=> at[q] = "unused"
                      /\ at'[q] = "over" <=> at[q] = "over"
                      /\ at'[q] \in {"unused", "spawned"} <=> at[q] \in {"unused", "spawned"}
  BY <1>2, <1>5, <1>6 DEF Underway, Inside
<1> QED
  BY <1>2, <1>3, <1>4, <1>7 DEF Managed

LEMMA LaunchManaged ==
    ASSUME Managed, size \in Sizes, NEW m \in Managers, phase[m] # "running", Launch(m),
           UNCHANGED <<outcome, myDone, closed>>
    PROVE  Managed'
<1> DEFINE r == started + 1
<1>1. /\ started < size.runs /\ started' = r
      /\ phase' = [phase EXCEPT ![m] = "running"] /\ current' = [current EXCEPT ![m] = r]
      /\ job' = [job EXCEPT ![r] = m] /\ at' = [at EXCEPT ![r] = "spawned"]
  BY DEF Launch
<1>2. size.runs \in 0..MaxRuns /\ MaxRuns \in Nat
  BY JobsAssumption
<1>3. r \in Runs /\ at[r] = "unused"
  BY <1>1, <1>2 DEF Managed, Runs
<1> HIDE DEF r
<1>4. /\ phase' \in [Managers -> Phases] /\ current' \in [Managers -> 0..MaxRuns]
      /\ started' \in 0..MaxRuns /\ job' \in [Runs -> Managers] /\ at' \in [Runs -> Places]
  BY <1>1, <1>3 DEF Managed, Runs, Phases, Places
<1>5. \A q \in Runs : at'[q] = "unused" <=> q > started'
  BY <1>1, <1>2, <1>3 DEF Managed, Runs, r
<1>6. ASSUME NEW q \in Runs, at'[q] \in Underway
      PROVE  phase'[job'[q]] = "running" /\ current'[job'[q]] = q
  <2>1. CASE q = r
    BY <1>1, <1>3, <2>1 DEF Managed
  <2>2. CASE q # r
    BY <1>1, <1>3, <1>6, <2>2 DEF Managed
  <2> QED
    BY <2>1, <2>2
<1>7. ASSUME NEW n \in Managers, phase'[n] = "running"
      PROVE  /\ current'[n] \in Runs /\ at'[current'[n]] \in Underway
             /\ job'[current'[n]] = n
  <2>1. CASE n = m
    BY <1>1, <1>3, <2>1 DEF Managed, Underway
  <2>2. CASE n # m
    <3>1. current'[n] = current[n] /\ phase[n] = "running" /\ at[current[n]] \in Underway
      BY <1>1, <1>7, <2>2 DEF Managed
    <3>2. current[n] # r
      BY <1>3, <3>1 DEF Underway, Inside
    <3> QED
      BY <1>1, <3>1, <3>2 DEF Managed
  <2> QED
    BY <2>1, <2>2
<1>8. \A q \in Runs : at'[q] \notin {"unused", "spawned"} => myDone'[q] = q
  BY <1>1, <1>3 DEF Managed
<1>9. closed' = {q \in Runs : at'[q] = "over"}
  BY <1>1, <1>3 DEF Managed
<1>10. outcome' \in [Runs -> Reports] /\ myDone' \in [Runs -> 0..MaxRuns]
  BY DEF Managed
<1> QED
  BY <1>4, <1>5, <1>6, <1>7, <1>8, <1>9, <1>10 DEF Managed

LEMMA BeginManaged ==
    ASSUME Managed, NEW r \in Runs, Begin(r)
    PROVE  Managed'
<1>1. /\ at[r] = "spawned" /\ at' = [at EXCEPT ![r] = "load"]
      /\ myDone' = [myDone EXCEPT ![r] = current[job[r]]]
      /\ UNCHANGED <<phase, current, started, job, outcome, closed>>
  BY DEF Begin, manager
<1>2. current[job[r]] = r
  BY <1>1 DEF Managed, Underway
<1>3. at' \in [Runs -> Places] /\ myDone' \in [Runs -> 0..MaxRuns]
  BY <1>1, <1>2 DEF Managed, Places, Runs
<1>4. \A q \in Runs : /\ at'[q] \in Underway <=> at[q] \in Underway
                      /\ at'[q] = "unused" <=> at[q] = "unused"
                      /\ at'[q] = "over" <=> at[q] = "over"
                      /\ at'[q] \notin {"unused", "spawned"} => myDone'[q] = q
  BY <1>1, <1>2 DEF Managed, Underway, Inside
<1> QED
  BY <1>1, <1>3, <1>4 DEF Managed

LEMMA FinishManaged ==
    ASSUME Managed, NEW r \in Runs, Finish(r)
    PROVE  Managed'
<1>1. /\ at[r] = "finish" /\ at' = [at EXCEPT ![r] = "ended"]
      /\ phase' = [phase EXCEPT ![job[r]] = outcome[r]]
      /\ UNCHANGED <<current, started, job, outcome, myDone, closed>>
  BY DEF Finish
<1>2. job[r] \in Managers /\ outcome[r] \in Reports /\ current[job[r]] = r
  BY <1>1 DEF Managed, Underway, Inside
<1>3. phase' \in [Managers -> Phases] /\ at' \in [Runs -> Places]
  BY <1>1, <1>2 DEF Managed, Places, Phases, Reports
<1>4. phase'[job[r]] # "running"
  BY <1>1, <1>2 DEF Managed, Reports
<1>5. ASSUME NEW q \in Runs, at'[q] \in Underway
      PROVE  phase'[job[q]] = "running" /\ current[job[q]] = q
  <2>1. q # r /\ at[q] \in Underway
    BY <1>1, <1>5 DEF Managed, Underway, Inside
  <2>2. job[q] # job[r]
    BY <1>2, <2>1 DEF Managed
  <2> QED
    BY <1>1, <2>1, <2>2 DEF Managed
<1>6. ASSUME NEW n \in Managers, phase'[n] = "running"
      PROVE  current[n] \in Runs /\ at'[current[n]] \in Underway /\ job[current[n]] = n
  <2>1. n # job[r] /\ phase[n] = "running"
    BY <1>1, <1>4, <1>6 DEF Managed
  <2>2. current[n] # r
    BY <2>1 DEF Managed
  <2> QED
    BY <1>1, <2>1, <2>2 DEF Managed
<1>7. \A q \in Runs : /\ at'[q] = "unused" <=> at[q] = "unused"
                      /\ at'[q] = "over" <=> at[q] = "over"
                      /\ at'[q] \in {"unused", "spawned"} <=> at[q] \in {"unused", "spawned"}
  BY <1>1 DEF Managed
<1> QED
  BY <1>1, <1>3, <1>5, <1>6, <1>7 DEF Managed

LEMMA LeaveManaged ==
    ASSUME Managed, NEW r \in Runs, Leave(r)
    PROVE  Managed'
<1>1. /\ at[r] = "ended" /\ at' = [at EXCEPT ![r] = "over"]
      /\ closed' = closed \cup {myDone[r]}
      /\ outcome' = [outcome EXCEPT ![r] = "idle"] /\ job' = [job EXCEPT ![r] = "enrich"]
      /\ UNCHANGED <<phase, current, started, myDone>>
  BY DEF Leave, manager
<1>2. myDone[r] = r
  BY <1>1 DEF Managed
<1>3. /\ at' \in [Runs -> Places] /\ outcome' \in [Runs -> Reports]
      /\ job' \in [Runs -> Managers]
  BY <1>1 DEF Managed, Places, Reports, Managers
<1>4. \A q \in Runs : /\ at'[q] \in Underway => q # r /\ at[q] \in Underway
                      /\ at'[q] = "unused" <=> at[q] = "unused"
                      /\ at'[q] \in {"unused", "spawned"} <=> at[q] \in {"unused", "spawned"}
                      /\ q # r => job'[q] = job[q] /\ at'[q] = at[q]
  BY <1>1 DEF Managed, Underway, Inside
<1>5. closed' = {q \in Runs : at'[q] = "over"}
  BY <1>1, <1>2 DEF Managed
<1>6. \A n \in Managers : phase[n] = "running" => current[n] # r
  BY <1>1 DEF Managed, Underway, Inside
<1>7. \A q \in Runs : at'[q] \in Underway => phase'[job'[q]] = "running" /\ current'[job'[q]] = q
  BY <1>1, <1>4 DEF Managed
<1>8. \A n \in Managers : phase'[n] = "running" =>
        /\ current'[n] \in Runs /\ at'[current'[n]] \in Underway /\ job'[current'[n]] = n
  BY <1>1, <1>4, <1>6 DEF Managed
<1> QED
  BY <1>1, <1>3, <1>4, <1>5, <1>7, <1>8 DEF Managed

LEMMA RespondsManaged ==
    ASSUME Managed, size \in Sizes, UploadDone
    PROVE  Managed'
<1>1. CASE phase["enrich"] # "running" /\ Launch("enrich")
  BY <1>1, LaunchManaged DEF UploadDone, Managers
<1>2. CASE UNCHANGED <<manager, job, at>>
  BY <1>2 DEF UploadDone, Managed, manager
<1> QED
  BY <1>1, <1>2 DEF UploadDone

\* The steps that no manager takes part in.
Elsewhere ==
    \/ \E m \in Managers : Cancel(m)
    \/ \E r \in Runs, w \in Workers : WorkerStep(r, w)
    \/ \E u \in size.users : UploadBegin(u) \/ CracksBegin(u) \/ DeleteDomain(u)
    \/ \E has_password \in BOOLEAN : UploadReplace(has_password)
    \/ CracksReplace \/ RequestFails
    \/ Lock \/ Unlock \/ AutoLockDecide \/ AutoLockFire

LEMMA ElsewhereStays ==
    Elsewhere => UNCHANGED <<phase, current, started, job, at, outcome, myDone, closed>>
<1>1. ASSUME NEW m \in Managers, Cancel(m)
      PROVE  UNCHANGED <<phase, current, started, job, at, outcome, myDone, closed>>
  BY <1>1 DEF Cancel, manager
<1>2. ASSUME NEW r \in Runs, NEW w \in Workers, WorkerStep(r, w)
      PROVE  UNCHANGED <<phase, current, started, job, at, outcome, myDone, closed>>
  BY <1>2 DEF WorkerStep, WorkerLooks, WorkerAnswers, WorkerReturns, manager, runs
<1>3. ASSUME NEW u \in size.users, UploadBegin(u) \/ CracksBegin(u) \/ DeleteDomain(u)
      PROVE  UNCHANGED <<phase, current, started, job, at, outcome, myDone, closed>>
  BY <1>3 DEF UploadBegin, CracksBegin, DeleteDomain, manager, runs
<1>4. ASSUME NEW has_password \in BOOLEAN, UploadReplace(has_password)
      PROVE  UNCHANGED <<phase, current, started, job, at, outcome, myDone, closed>>
  BY <1>4 DEF UploadReplace, manager, runs
<1>5. CracksReplace \/ RequestFails \/ Lock \/ Unlock \/ AutoLockDecide \/ AutoLockFire
      => UNCHANGED <<phase, current, started, job, at, outcome, myDone, closed>>
  BY DEF CracksReplace, RequestFails, Lock, Unlock, AutoLockDecide, AutoLockFire, manager, runs
<1> QED
  BY <1>1, <1>2, <1>3, <1>4, <1>5 DEF Elsewhere

\* Every step is one of these.
LEMMA Steps ==
    ASSUME [Next]_vars
    PROVE  \/ UNCHANGED vars
           \/ /\ UNCHANGED size
              /\ \/ \E m \in Managers : Start(m)
                 \/ \E r \in Runs : Begin(r) \/ Working(r) \/ Finish(r) \/ Leave(r)
                 \/ UploadDone
                 \/ Elsewhere
BY DEF Next, RunStep, RequestStep, Working, Elsewhere

LEMMA StepManaged ==
    ASSUME Managed, size \in Sizes, [Next]_vars
    PROVE  Managed'
<1>1. CASE UNCHANGED vars
  BY <1>1 DEF vars, manager, runs, Managed
<1>2. ASSUME NEW m \in Managers, Start(m) PROVE Managed'
  BY <1>2, LaunchManaged DEF Start
<1>3. CASE Elsewhere
  BY <1>3, ElsewhereStays DEF Managed
<1> QED
  BY <1>1, <1>2, <1>3, Steps, BeginManaged, WorkingManaged, FinishManaged, LeaveManaged,
     RespondsManaged

-----------------------------------------------------------------------------
(* The accounts.                                                           *)

All == size.users

Idle == [at : {"receive", "gone"}, user : {None}]
AtAccount == [at : {"received", "calling"}, user : All]
Asks == [at : {"upload", "uploaded", "cracks"}, user : All, first : BOOLEAN]

\* Whatever a run or a request holds is of this audit.
Shape ==
    /\ size \in Sizes
    /\ loaded \subseteq All /\ cracked \subseteq loaded /\ enriched \subseteq loaded
    /\ unlocked \in BOOLEAN /\ tick \in BOOLEAN
    /\ cancelled \in [Runs -> BOOLEAN]
    /\ users \in [Runs -> SUBSET All]
    /\ left \in [Runs -> SUBSET All]
    /\ result \in [Runs -> SUBSET All]
    /\ worker \in [Runs -> [Workers -> Idle \cup AtAccount]]
    /\ wrote \subseteq Runs
    /\ req \in {NoRequest} \cup Asks
    /\ snapshot.loaded \subseteq All /\ snapshot.cracked \subseteq snapshot.loaded
    /\ snapshot = [loaded |-> snapshot.loaded, cracked |-> snapshot.cracked]

\* The run that is inside Mutate's callback holds the audit's lock and has in hand
\* the audit as it still is.
Handed ==
    /\ mutate \in 0..MaxRuns
    /\ copy \in [Runs -> [loaded : SUBSET All, cracked : SUBSET All, enriched : SUBSET All]]
    /\ \A r \in Runs : at[r] = "rewrite" =>
           /\ mutate = r
           /\ copy[r].loaded = loaded /\ copy[r].cracked = cracked /\ copy[r].enriched = enriched

\* What a rewrite leaves alone.
LEMMA RewriteKeeps ==
    ASSUME Shape, Handed, NEW r \in Runs, at[r] = "rewrite", Rewrite(r)
    PROVE  /\ UNCHANGED <<loaded, cracked>>
           /\ job[r] = "rescore" => UNCHANGED enriched
           /\ enriched' \subseteq loaded'
           /\ wrote' = wrote \cup {r}
BY DEF Shape, Handed, Rewrite

LEMMA Resters == Receiving \in Idle /\ Gone \in Idle
BY DEF Receiving, Gone, Idle

LEMMA StartShape ==
    ASSUME Shape, NEW m \in Managers, Start(m) \/ Cancel(m), UNCHANGED size
    PROVE  Shape'
BY DEF Start, Launch, Cancel, Shape, All, Asks, AtAccount, audit, data, gate, pool, request, manager

LEMMA RunShape ==
    ASSUME Shape, Handed, NEW r \in Runs, UNCHANGED size,
           Begin(r) \/ Working(r) \/ Finish(r) \/ Leave(r)
    PROVE  Shape'
<1>1. CASE Begin(r) \/ Finish(r)
  BY <1>1 DEF Begin, Finish, Shape, All, Asks, AtAccount, audit, data, gate, pool, request, manager
<1>2. CASE Leave(r)
  BY <1>2 DEF Leave, Shape, All, Asks, AtAccount, audit, data, manager, request
<1>3. CASE Load(r)
  BY <1>3 DEF Load, Shape, All, Asks, AtAccount, audit, data, gate, pool, request
<1>4. CASE LoadFails(r) \/ Feed(r) \/ Join(r) \/ Verdict(r)
  BY <1>4
     DEF LoadFails, Feed, Join, Verdict, Shape, All, Asks, AtAccount, audit, data, gate, pool,
         request
<1>5. CASE BulkPrefetch(r)
  BY <1>5 DEF BulkPrefetch, Shape, All, Asks, AtAccount, audit, data, gate, request
<1>6. CASE StartPool(r)
  BY <1>6, Resters DEF StartPool, Shape, All, Asks, AtAccount, audit, data, gate, request
<1>7. ASSUME NEW w \in Workers, HandOver(r, w) PROVE Shape'
  <2>1. PICK u \in left[r] :
            /\ left' = [left EXCEPT ![r] = @ \ {u}]
            /\ worker' = [worker EXCEPT ![r][w] = [at |-> "received", user |-> u]]
    BY <1>7 DEF HandOver
  <2>2. [at |-> "received", user |-> u] \in AtAccount
    BY <2>1 DEF Shape, AtAccount
  <2>3. worker' \in [Runs -> [Workers -> Idle \cup AtAccount]]
    BY <2>1, <2>2 DEF Shape
  <2>4. left' \in [Runs -> SUBSET All]
    BY <2>1 DEF Shape
  <2> QED
    BY <1>7, <2>3, <2>4 DEF HandOver, Shape, All, Asks, AtAccount, audit, data, gate, request
<1>8. CASE MutateBegin(r)
  BY <1>8 DEF MutateBegin, Shape, All, Asks, AtAccount, data, gate, pool, request
<1>9. CASE Commit(r) \/ CommitFails(r)
  <2>1. /\ UNCHANGED <<loaded, cracked>> /\ enriched' \subseteq loaded'
        /\ wrote' \in {wrote, wrote \cup {r}}
    BY <1>9, RewriteKeeps DEF Commit, CommitFails, Shape, data
  <2> QED
    BY <1>9, <2>1
       DEF Commit, CommitFails, MutateEnd, Shape, All, Asks, AtAccount, gate, pool, request
<1> QED
  BY <1>1, <1>2, <1>3, <1>4, <1>5, <1>6, <1>7, <1>8, <1>9 DEF Working

LEMMA WorkerShape ==
    ASSUME Shape, NEW r \in Runs, NEW w \in Workers, WorkerStep(r, w), UNCHANGED size
    PROVE  Shape'
<1>1. worker[r][w] \in Idle \cup AtAccount
  BY DEF Shape
<1>2. CASE WorkerLooks(r, w)
  <2>1. worker[r][w] \in AtAccount
    BY <1>1, <1>2 DEF WorkerLooks, Idle
  <2>2. [worker[r][w] EXCEPT !.at = "calling"] \in AtAccount
    BY <2>1 DEF AtAccount
  <2>3. worker' \in [Runs -> [Workers -> Idle \cup AtAccount]]
    BY <1>2, <2>2, Resters DEF WorkerLooks, Shape
  <2> QED
    BY <1>2, <2>3 DEF WorkerLooks, Shape, All, Asks, AtAccount, audit, data, gate, runs, request
<1>3. CASE WorkerAnswers(r, w)
  <2>1. worker[r][w] \in AtAccount
    BY <1>1, <1>3 DEF WorkerAnswers, Idle
  <2>2. worker[r][w].user \in All
    BY <2>1 DEF AtAccount
  <2>3. /\ worker' \in [Runs -> [Workers -> Idle \cup AtAccount]]
        /\ result' \in [Runs -> SUBSET All]
    BY <1>3, <2>2, Resters DEF WorkerAnswers, Shape
  <2> QED
    BY <1>3, <2>3 DEF WorkerAnswers, Shape, All, Asks, AtAccount, audit, data, gate, runs, request
<1>4. CASE WorkerReturns(r, w)
  BY <1>4, Resters
     DEF WorkerReturns, Shape, All, Asks, AtAccount, audit, data, gate, runs, request
<1> QED
  BY <1>2, <1>3, <1>4 DEF WorkerStep

LEMMA RequestShape ==
    ASSUME Shape, UNCHANGED size,
           \/ \E u \in size.users : UploadBegin(u) \/ CracksBegin(u) \/ DeleteDomain(u)
           \/ RequestStep
    PROVE  Shape'
<1>1. ASSUME NEW u \in size.users, UploadBegin(u) PROVE Shape'
  <2>0. PICK first \in {loaded = {}, TRUE} : req' = [at |-> "upload", user |-> u, first |-> first]
    BY <1>1 DEF UploadBegin
  <2>1. req' \in Asks
    <3>1. first \in BOOLEAN
      BY <2>0
    <3> QED
      BY <2>0, <3>1 DEF Asks, All
  <2> QED
    BY <1>1, <2>1 DEF UploadBegin, Shape, All, Asks, AtAccount, audit, data, runs, pool
<1>2. ASSUME NEW u \in size.users, CracksBegin(u) PROVE Shape'
  <2>1. req' \in Asks
    BY <1>2 DEF CracksBegin, Asks, All
  <2>2. snapshot' = [loaded |-> loaded, cracked |-> cracked \cup {u}] /\ u \in loaded
    BY <1>2 DEF CracksBegin
  <2>3. /\ snapshot'.loaded \subseteq All /\ snapshot'.cracked \subseteq snapshot'.loaded
        /\ snapshot' = [loaded |-> snapshot'.loaded, cracked |-> snapshot'.cracked]
    BY <2>2 DEF Shape
  <2> QED
    BY <1>2, <2>1, <2>3 DEF CracksBegin, Shape, All, Asks, AtAccount, audit, data, runs, pool
<1>3. ASSUME NEW u \in size.users, DeleteDomain(u) PROVE Shape'
  BY <1>3 DEF DeleteDomain, Shape, All, Asks, AtAccount, gate, runs, pool, request
<1>4. ASSUME NEW has_password \in BOOLEAN, UploadReplace(has_password) PROVE Shape'
  <2>1. req \in Asks
    BY <1>4 DEF UploadReplace, Shape, NoRequest
  <2>2. req.user \in All /\ [req EXCEPT !.at = "uploaded"] \in Asks
    BY <2>1 DEF Asks
  <2> QED
    BY <1>4, <2>2 DEF UploadReplace, Shape, All, Asks, AtAccount, gate, runs, pool
<1>5. /\ NoData.loaded = {} /\ NoData.cracked = {}
      /\ NoData = [loaded |-> NoData.loaded, cracked |-> NoData.cracked]
  BY DEF NoData
<1>6. CASE UploadDone \/ RequestFails
  BY <1>5, <1>6
     DEF UploadDone, RequestFails, Respond, Shape, All, Asks, AtAccount, audit, data, runs, pool
<1>7. CASE CracksReplace
  BY <1>5, <1>7 DEF CracksReplace, Respond, Shape, All, Asks, AtAccount, runs, pool
<1> QED
  BY <1>1, <1>2, <1>3, <1>4, <1>6, <1>7 DEF RequestStep

LEMMA StepShape ==
    ASSUME Shape, Handed, [Next]_vars
    PROVE  Shape'
<1>1. CASE UNCHANGED vars
  BY <1>1 DEF vars, Shape, All, Asks, AtAccount, audit, data, gate, runs, pool, request
<1>2. ASSUME Lock \/ Unlock \/ AutoLockDecide \/ AutoLockFire, UNCHANGED size PROVE Shape'
  BY <1>2
     DEF Lock, Unlock, AutoLockDecide, AutoLockFire, Shape, All, Asks, AtAccount, audit, data, runs,
         pool, request
<1>3. CASE Next
  BY <1>2, <1>3, StartShape, RunShape, WorkerShape, RequestShape DEF Next, RunStep, Working
<1> QED
  BY <1>1, <1>3

LEMMA HandedFrame ==
    ASSUME Handed, UNCHANGED <<size, audit>>,
           \A r \in Runs : at'[r] = "rewrite" => at[r] = "rewrite"
    PROVE  Handed'
BY DEF Handed, All, audit, data, mutex

\* At most one run is in the callback, and nobody when the lock is free.
LEMMA InCallback ==
    ASSUME Handed
    PROVE  /\ \A r, q \in Runs : at[r] = "rewrite" /\ at[q] = "rewrite" => q = r
           /\ mutate = 0 => \A r \in Runs : at[r] # "rewrite"
BY JobsAssumption DEF Handed, Runs

LEMMA EndHanded ==
    ASSUME Managed, Shape, Handed, UNCHANGED size, NEW r \in Runs, Commit(r) \/ CommitFails(r)
    PROVE  Handed'
<1>1. /\ at' = [at EXCEPT ![r] = "finish"]
      /\ mutate' = IF mutate = r THEN 0 ELSE mutate
      /\ copy' = [copy EXCEPT ![r] = NoCopy]
  BY DEF Commit, CommitFails, MutateEnd, End
<1>2. at[r] = "rewrite" \/ mutate = 0
  BY DEF Commit, CommitFails
<1>3. \A q \in Runs : at'[q] # "rewrite"
  BY <1>1, <1>2, InCallback DEF Managed
<1>4. mutate' \in 0..MaxRuns
  BY <1>1, JobsAssumption DEF Handed
<1>5. NoCopy \in [loaded : SUBSET All, cracked : SUBSET All, enriched : SUBSET All]
  BY DEF NoCopy
<1>6. copy' \in [Runs -> [loaded : SUBSET All, cracked : SUBSET All, enriched : SUBSET All]]
  BY <1>1, <1>5 DEF Handed
<1> QED
  BY <1>3, <1>4, <1>6 DEF Handed, All

LEMMA BeginHanded ==
    ASSUME Managed, Shape, Handed, UNCHANGED size, NEW r \in Runs, MutateBegin(r)
    PROVE  Handed'
<1> DEFINE now == [loaded |-> loaded, cracked |-> cracked, enriched |-> enriched]
<1>1. /\ at' = [at EXCEPT ![r] = "rewrite"] /\ mutate = 0 /\ mutate' = r
      /\ copy' = [copy EXCEPT ![r] = now]
      /\ UNCHANGED <<loaded, cracked, enriched>>
  BY DEF MutateBegin, data
<1>2. now \in [loaded : SUBSET All, cracked : SUBSET All, enriched : SUBSET All]
  BY DEF Shape
<1>3. now.loaded = loaded /\ now.cracked = cracked /\ now.enriched = enriched
  OBVIOUS
<1> HIDE DEF now
<1>4. copy' \in [Runs -> [loaded : SUBSET All, cracked : SUBSET All, enriched : SUBSET All]]
  BY <1>1, <1>2 DEF Handed
<1>5. \A q \in Runs : at'[q] = "rewrite" => q = r
  BY <1>1, InCallback DEF Managed
<1>6. copy'[r] = now
  BY <1>1 DEF Handed
<1>7. mutate' \in 0..MaxRuns
  BY <1>1, JobsAssumption DEF Runs
<1> QED
  BY <1>1, <1>3, <1>4, <1>5, <1>6, <1>7 DEF Handed, All

LEMMA RunHanded ==
    ASSUME Managed, Shape, Handed, UNCHANGED size, NEW r \in Runs,
           Begin(r) \/ Working(r) \/ Finish(r) \/ Leave(r)
    PROVE  Handed'
<1>1. CASE Begin(r) \/ Finish(r) \/ Leave(r)
  BY <1>1, HandedFrame DEF Begin, Finish, Leave, Managed
<1>2. CASE Load(r) \/ LoadFails(r) \/ BulkPrefetch(r) \/ StartPool(r) \/ Feed(r) \/ Join(r)
  BY <1>2, HandedFrame
     DEF Load, LoadFails, BulkPrefetch, StartPool, Feed, Join, End, Managed
<1>3. CASE Verdict(r) \/ \E w \in Workers : HandOver(r, w)
  BY <1>3, HandedFrame DEF Verdict, HandOver, End, Managed
<1> QED
  BY <1>1, <1>2, <1>3, BeginHanded, EndHanded DEF Working

LEMMA LaunchHanded ==
    ASSUME Managed, Shape, Handed, UNCHANGED <<size, audit>>, NEW m \in Managers, Launch(m)
    PROVE  Handed'
<1>1. at' = [at EXCEPT ![started + 1] = "spawned"]
  BY DEF Launch
<1> QED
  BY <1>1, HandedFrame DEF Managed

LEMMA ElsewhereHanded ==
    ASSUME Shape, Handed, UNCHANGED size, Elsewhere
    PROVE  Handed'
<1>0. UNCHANGED at
  BY ElsewhereStays
<1>1. ASSUME UNCHANGED audit PROVE Handed'
  BY <1>0, <1>1, HandedFrame
<1>2. ASSUME mutate = 0, UNCHANGED mutex PROVE Handed'
  BY <1>0, <1>2, InCallback DEF Handed, All, mutex
<1>3. ASSUME NEW m \in Managers, Cancel(m) PROVE UNCHANGED audit
  BY <1>3 DEF Cancel
<1>4. ASSUME NEW r \in Runs, NEW w \in Workers, WorkerStep(r, w) PROVE UNCHANGED audit
  BY <1>4 DEF WorkerStep, WorkerLooks, WorkerAnswers, WorkerReturns
<1>5. ASSUME NEW u \in size.users, UploadBegin(u) \/ CracksBegin(u) PROVE UNCHANGED audit
  BY <1>5 DEF UploadBegin, CracksBegin
<1>6. ASSUME NEW u \in size.users, DeleteDomain(u) PROVE mutate = 0 /\ UNCHANGED mutex
  BY <1>6 DEF DeleteDomain
<1>7. ASSUME NEW has_password \in BOOLEAN, UploadReplace(has_password)
      PROVE  mutate = 0 /\ UNCHANGED mutex
  BY <1>7 DEF UploadReplace
<1>8. CracksReplace => mutate = 0 /\ UNCHANGED mutex
  BY DEF CracksReplace
<1>9. RequestFails \/ Lock \/ Unlock \/ AutoLockDecide \/ AutoLockFire => UNCHANGED audit
  BY DEF RequestFails, Lock, Unlock, AutoLockDecide, AutoLockFire
<1> QED
  BY <1>1, <1>2, <1>3, <1>4, <1>5, <1>6, <1>7, <1>8, <1>9 DEF Elsewhere

LEMMA StepHanded ==
    ASSUME Managed, Shape, Handed, [Next]_vars
    PROVE  Handed'
<1>1. CASE UNCHANGED vars
  BY <1>1, HandedFrame DEF vars, runs
<1>2. ASSUME NEW m \in Managers, Start(m), UNCHANGED size PROVE Handed'
  BY <1>2, LaunchHanded DEF Start
<1>3. ASSUME UploadDone, UNCHANGED size PROVE Handed'
  <2>1. CASE Launch("enrich")
    BY <1>3, <2>1, LaunchHanded DEF UploadDone, Managers
  <2>2. CASE UNCHANGED at
    BY <1>3, <2>2, HandedFrame DEF UploadDone
  <2> QED
    BY <1>3, <2>1, <2>2 DEF UploadDone
<1> QED
  BY <1>1, <1>2, <1>3, Steps, RunHanded, ElsewhereHanded

-----------------------------------------------------------------------------
(* The activity count.                                                     *)

Held == {r \in Runs : at[r] \in Inside \cup {"ended"}}
Asked == IF req = NoRequest THEN 0 ELSE 1

Counted == inFlight = Cardinality(Held) + Asked
Unheld  == tick => Held = {} /\ req = NoRequest

LEMMA HeldFinite == IsFiniteSet(Held) /\ Cardinality(Held) \in Nat
<1>1. IsFiniteSet(Runs)
  BY JobsAssumption, FS_Interval DEF Runs
<1>2. IsFiniteSet(Held)
  BY <1>1, FS_Subset DEF Held
<1> QED
  BY <1>2, FS_CardinalityType

LEMMA RequestFields ==
    ASSUME Shape
    PROVE  /\ req.at \in {"upload", "uploaded", "cracks"} => req # NoRequest
           /\ req # NoRequest => req \in Asks
           /\ req # NoRequest => [req EXCEPT !.at = "uploaded"] # NoRequest
<1>1. NoRequest.at = "none"
  BY DEF NoRequest
<1>2. ASSUME req \in Asks PROVE [req EXCEPT !.at = "uploaded"].at = "uploaded"
  BY <1>2 DEF Asks
<1> QED
  BY <1>1, <1>2 DEF Shape

\* A run that begins or leaves.
LEMMA HeldChanges ==
    ASSUME Managed, NEW r \in Runs
    PROVE  /\ Begin(r) => r \notin Held /\ Held' = Held \cup {r}
           /\ Leave(r) => r \in Held /\ Held' = Held \ {r}
           /\ Working(r) \/ Finish(r) => Held' = Held
<1>1. ASSUME Begin(r) PROVE r \notin Held /\ Held' = Held \cup {r}
  BY <1>1 DEF Begin, Managed, Held, Inside
<1>2. ASSUME Leave(r) PROVE r \in Held /\ Held' = Held \ {r}
  BY <1>2 DEF Leave, Managed, Held, Inside
<1>3. ASSUME Finish(r) PROVE Held' = Held
  BY <1>3 DEF Finish, Managed, Held, Inside
<1>4. ASSUME Working(r) PROVE Held' = Held
  BY <1>4, WorkingStays DEF Managed, Held
<1> QED
  BY <1>1, <1>2, <1>3, <1>4

LEMMA LaunchHeld ==
    ASSUME Managed, size \in Sizes, NEW m \in Managers, Launch(m)
    PROVE  Held' = Held
<1>1. at' = [at EXCEPT ![started + 1] = "spawned"]
  BY DEF Launch
<1>2. size.runs \in 0..MaxRuns /\ MaxRuns \in Nat /\ started < size.runs
  BY JobsAssumption DEF Launch
<1>3. started + 1 \in Runs /\ at[started + 1] = "unused"
  BY <1>2 DEF Managed, Runs
<1> QED
  BY <1>1, <1>3 DEF Managed, Held, Inside

\* What a step does to those who hold the auto-lock off, and to the count.
Steady == Held' = Held /\ inFlight' = inFlight /\ (req = NoRequest <=> req' = NoRequest)
Comes  == Held' = Held /\ inFlight' = inFlight + 1 /\ req = NoRequest /\ req' # NoRequest
Goes   == Held' = Held /\ inFlight' = inFlight - 1 /\ req # NoRequest /\ req' = NoRequest
Joins  == \E r \in Runs \ Held : Held' = Held \cup {r} /\ inFlight' = inFlight + 1 /\ req' = req
Quits  == \E r \in Held : Held' = Held \ {r} /\ inFlight' = inFlight - 1 /\ req' = req

LEMMA ElsewhereCounts ==
    ASSUME Shape, Elsewhere
    PROVE  \/ Steady /\ (tick' => tick \/ inFlight = 0)
           \/ Goes /\ tick' = tick
           \/ Comes /\ tick' = tick /\ (tick => "tick_race" \in Unguarded)
<1>0. Held' = Held
  BY ElsewhereStays DEF Held
<1>1. ASSUME NEW m \in Managers, Cancel(m) PROVE Steady /\ tick' = tick
  BY <1>0, <1>1 DEF Cancel, gate, request, Steady
<1>2. ASSUME NEW r \in Runs, NEW w \in Workers, WorkerStep(r, w) PROVE Steady /\ tick' = tick
  BY <1>0, <1>2
     DEF WorkerStep, WorkerLooks, WorkerAnswers, WorkerReturns, gate, request, Steady
<1>3. ASSUME NEW u \in size.users, UploadBegin(u) \/ CracksBegin(u)
      PROVE  Comes /\ tick' = tick /\ (tick => "tick_race" \in Unguarded)
  <2>1. req' # NoRequest
    BY <1>3 DEF UploadBegin, CracksBegin, NoRequest
  <2> QED
    BY <1>0, <1>3, <2>1 DEF UploadBegin, CracksBegin, Arrive, Comes
<1>4. ASSUME NEW u \in size.users, DeleteDomain(u) PROVE Steady /\ tick' = tick
  BY <1>0, <1>4 DEF DeleteDomain, gate, request, Steady
<1>5. ASSUME NEW has_password \in BOOLEAN, UploadReplace(has_password)
      PROVE  Steady /\ tick' = tick
  BY <1>0, <1>5, RequestFields DEF UploadReplace, gate, Steady
<1>6. CASE CracksReplace \/ RequestFails
  BY <1>0, <1>6, RequestFields DEF CracksReplace, RequestFails, Respond, Goes
<1>7. CASE Lock \/ Unlock \/ AutoLockDecide \/ AutoLockFire
  BY <1>0, <1>7 DEF Lock, Unlock, AutoLockDecide, AutoLockFire, request, Steady
<1> QED
  BY <1>1, <1>2, <1>3, <1>4, <1>5, <1>6, <1>7 DEF Elsewhere

LEMMA StepCounts ==
    ASSUME Managed, Shape, [Next]_vars
    PROVE  \/ Steady /\ (tick' => tick \/ inFlight = 0)
           \/ (Goes \/ Quits) /\ tick' = tick
           \/ (Comes \/ Joins) /\ tick' = tick /\ (tick => "tick_race" \in Unguarded)
<1>1. CASE UNCHANGED vars
  BY <1>1 DEF vars, gate, runs, request, Held, Steady
<1>2. ASSUME NEW m \in Managers, Start(m) PROVE Steady /\ tick' = tick
  BY <1>2, LaunchHeld DEF Start, gate, request, Shape, Steady
<1>3. ASSUME NEW r \in Runs, Begin(r)
      PROVE  Joins /\ tick' = tick /\ (tick => "tick_race" \in Unguarded)
  BY <1>3, HeldChanges DEF Begin, request, Joins
<1>4. ASSUME NEW r \in Runs, Working(r) PROVE Steady /\ tick' = tick
  BY <1>4, HeldChanges, WorkingStays DEF request, Steady
<1>5. ASSUME NEW r \in Runs, Finish(r) PROVE Steady /\ tick' = tick
  BY <1>5, HeldChanges DEF Finish, gate, request, Steady
<1>6. ASSUME NEW r \in Runs, Leave(r) PROVE Quits /\ tick' = tick
  BY <1>6, HeldChanges DEF Leave, request, Quits
<1>7. CASE UploadDone
  <2>1. Held' = Held
    <3>1. CASE Launch("enrich")
      BY <3>1, LaunchHeld DEF Managers, Shape
    <3>2. CASE UNCHANGED at
      BY <3>2 DEF Held
    <3> QED
      BY <1>7, <3>1, <3>2 DEF UploadDone
  <2> QED
    BY <1>7, <2>1, RequestFields DEF UploadDone, Respond, Goes
<1> QED
  BY <1>1, <1>2, <1>3, <1>4, <1>5, <1>6, <1>7, Steps, ElsewhereCounts

LEMMA StepCounted ==
    ASSUME Managed, Shape, Counted, [Next]_vars
    PROVE  Counted'
<1>1. IsFiniteSet(Held) /\ Cardinality(Held) \in Nat
  BY HeldFinite
<1>2. CASE Steady
  BY <1>1, <1>2 DEF Steady, Counted, Asked
<1>3. CASE Comes \/ Goes
  BY <1>1, <1>3 DEF Comes, Goes, Counted, Asked
<1>4. CASE Joins
  <2>1. PICK r \in Runs \ Held : Held' = Held \cup {r} /\ inFlight' = inFlight + 1 /\ req' = req
    BY <1>4 DEF Joins
  <2>2. Cardinality(Held \cup {r}) = Cardinality(Held) + 1
    BY <1>1, <2>1, FS_AddElement
  <2> QED
    BY <1>1, <2>1, <2>2 DEF Counted, Asked
<1>5. CASE Quits
  <2>1. PICK r \in Held : Held' = Held \ {r} /\ inFlight' = inFlight - 1 /\ req' = req
    BY <1>5 DEF Quits
  <2>2. Cardinality(Held \ {r}) = Cardinality(Held) - 1
    BY <1>1, <2>1, FS_RemoveElement
  <2> QED
    BY <1>1, <2>1, <2>2 DEF Counted, Asked
<1> QED
  BY <1>2, <1>3, <1>4, <1>5, StepCounts

LEMMA StepUnheld ==
    ASSUME "tick_race" \notin Unguarded, Managed, Shape, Counted, Unheld, [Next]_vars
    PROVE  Unheld'
<1>1. IsFiniteSet(Held) /\ Cardinality(Held) \in Nat
  BY HeldFinite
<1>2. inFlight = 0 => Held = {} /\ req = NoRequest
  BY <1>1, FS_EmptySet DEF Counted, Asked
<1> QED
  BY <1>2, StepCounts DEF Unheld, Steady, Comes, Goes, Joins, Quits

LEMMA UnheldWaits == Managed /\ Unheld => AutoLockWaits
BY DEF Managed, Unheld, AutoLockWaits, Held, Holding, Active, Places, Inside

-----------------------------------------------------------------------------
(* What a run writes.                                                      *)

InPool == {"feed", "send", "join"}

\* Every account that run r loaded is still to be handed out, is at a worker or
\* has its answer.
Accounted(r) ==
    \A u \in users[r] :
        \/ u \in left[r] \cup result[r]
        \/ \E w \in Workers : worker[r][w].at \in {"received", "calling"} /\ worker[r][w].user = u

Answered(r) == job[r] = "enrich" => users[r] \subseteq result[r]

\* Unless it is cancelled, a run loses no account; what it writes is complete, and
\* is not called cancelled.
Whole(r) ==
    /\ at[r] \in InPool => cancelled[r] \/ Accounted(r)
    /\ at[r] = "join" => cancelled[r] \/ left[r] = {}
    /\ at[r] = "verdict" => cancelled[r] \/ Answered(r)
    /\ at[r] \in {"commit", "rewrite"} => Answered(r)
    /\ r \in wrote => /\ at[r] \in {"finish", "ended"}
                      /\ Answered(r)
                      /\ outcome[r] \in {"done", "failed"}

\* A step that leaves a run alone, but for a cancellation.
LEMMA WholeFrame ==
    ASSUME NEW r, Whole(r), cancelled[r] => cancelled'[r],
           at'[r] = at[r], job'[r] = job[r], users'[r] = users[r], left'[r] = left[r],
           result'[r] = result[r], worker'[r] = worker[r], outcome'[r] = outcome[r],
           r \in wrote' <=> r \in wrote
    PROVE  Whole(r)'
BY DEF Whole, Accounted, Answered

\* A run that has written does not go on but to its report and its end.
LEMMA NotYet == \A r : Whole(r) /\ at[r] \notin {"finish", "ended"} => r \notin wrote
BY DEF Whole

LEMMA WorkingWhole ==
    ASSUME Managed, Shape, NEW r \in Runs, Whole(r), Working(r)
    PROVE  Whole(r)'
<1>1. CASE Load(r)
  BY <1>1 DEF Load, Managed, Shape, Whole, Answered, InPool, Managers, pool
<1>2. CASE LoadFails(r)
  BY <1>2 DEF LoadFails, End, Managed, Shape, Whole, InPool
<1>3. CASE BulkPrefetch(r)
  BY <1>3 DEF BulkPrefetch, Managed, Shape, All, Whole, Answered, InPool
<1>4. CASE StartPool(r)
  BY <1>4 DEF StartPool, Managed, Shape, Whole, Accounted, InPool
<1>5. CASE Feed(r)
  BY <1>5 DEF Feed, Managed, Shape, Whole, Accounted, InPool, pool
<1>6. ASSUME NEW w \in Workers, HandOver(r, w) PROVE Whole(r)'
  <2>1. PICK u \in left[r] :
            /\ left' = [left EXCEPT ![r] = @ \ {u}]
            /\ worker' = [worker EXCEPT ![r][w] = [at |-> "received", user |-> u]]
    BY <1>6 DEF HandOver
  <2>2. Accounted(r) => Accounted(r)'
    BY <1>6, <2>1 DEF HandOver, Shape, Accounted, Receiving
  <2> QED
    BY <1>6, <2>2 DEF HandOver, Managed, Shape, Whole, InPool
<1>7. CASE Join(r)
  <2>1. \A w \in Workers : worker[r][w].at = "gone"
    BY <1>7 DEF Join, Gone
  <2>2. cancelled[r] \/ users[r] \subseteq result[r]
    BY <1>7, <2>1 DEF Join, Whole, Accounted, InPool
  <2> QED
    BY <1>7, <2>2 DEF Join, Managed, Shape, Whole, Answered, InPool, pool
<1>8. CASE Verdict(r)
  BY <1>8 DEF Verdict, End, Managed, Shape, Whole, Answered, InPool, pool
<1>9. CASE MutateBegin(r)
  BY <1>9 DEF MutateBegin, Managed, Shape, Whole, Answered, InPool, pool
<1>10. CASE Commit(r)
  BY <1>10 DEF Commit, Rewrite, MutateEnd, End, Managed, Shape, Whole, Answered, InPool, pool
<1>11. CASE CommitFails(r)
  BY <1>11 DEF CommitFails, Rewrite, MutateEnd, End, Managed, Shape, Whole, Answered, InPool, pool
<1> QED
  BY <1>1, <1>2, <1>3, <1>4, <1>5, <1>6, <1>7, <1>8, <1>9, <1>10, <1>11 DEF Working

LEMMA RunWhole ==
    ASSUME Managed, Shape, NEW r \in Runs, Whole(r), Begin(r) \/ Finish(r) \/ Leave(r)
    PROVE  Whole(r)'
<1>1. CASE Begin(r)
  BY <1>1 DEF Begin, Managed, Shape, Whole, InPool
<1>2. CASE Finish(r)
  BY <1>2 DEF Finish, Managed, Shape, Whole, Answered, InPool, pool
<1>3. CASE Leave(r)
  BY <1>3 DEF Leave, Managed, Shape, Whole, InPool
<1> QED
  BY <1>1, <1>2, <1>3

LEMMA OtherRuns ==
    ASSUME Managed, Shape, NEW r \in Runs, Begin(r) \/ Working(r) \/ Finish(r) \/ Leave(r),
           NEW q \in Runs, q # r, Whole(q)
    PROVE  Whole(q)'
<1>1. /\ cancelled'[q] = cancelled[q] /\ at'[q] = at[q] /\ job'[q] = job[q]
      /\ users'[q] = users[q] /\ left'[q] = left[q] /\ result'[q] = result[q]
      /\ worker'[q] = worker[q] /\ outcome'[q] = outcome[q] /\ (q \in wrote' <=> q \in wrote)
  <2>1. CASE Begin(r) \/ Finish(r)
    BY <2>1 DEF Begin, Finish, Managed, Shape, pool
  <2>2. CASE Leave(r)
    BY <2>2 DEF Leave, Managed, Shape
  <2>3. CASE Load(r) \/ LoadFails(r) \/ BulkPrefetch(r) \/ StartPool(r) \/ Feed(r) \/ Join(r)
    BY <2>3
       DEF Load, LoadFails, BulkPrefetch, StartPool, Feed, Join, End, Managed, Shape, pool
  <2>4. CASE \E w \in Workers : HandOver(r, w)
    BY <2>4 DEF HandOver, Managed, Shape
  <2>5. CASE Verdict(r) \/ MutateBegin(r) \/ Commit(r) \/ CommitFails(r)
    BY <2>5
       DEF Verdict, MutateBegin, Commit, CommitFails, Rewrite, MutateEnd, End, Managed, Shape, pool
  <2> QED
    BY <2>1, <2>2, <2>3, <2>4, <2>5 DEF Working
<1> QED
  BY <1>1, WholeFrame

LEMMA WorkerWhole ==
    ASSUME Managed, Shape, NEW r \in Runs, NEW w \in Workers, WorkerStep(r, w),
           NEW q \in Runs, Whole(q)
    PROVE  Whole(q)'
<1>1. CASE q # r
  <2>1. /\ worker'[q] = worker[q] /\ left'[q] = left[q] /\ result'[q] = result[q]
        /\ UNCHANGED runs
    BY <1>1 DEF WorkerStep, WorkerLooks, WorkerAnswers, WorkerReturns, Shape
  <2> QED
    BY <2>1, WholeFrame DEF runs
<1>2. CASE q = r
  <2>1. /\ UNCHANGED runs /\ left'[r] = left[r] /\ result[r] \subseteq result'[r]
    BY DEF WorkerStep, WorkerLooks, WorkerAnswers, WorkerReturns, Shape
  <2>2. at[r] \in InPool /\ ~cancelled[r] /\ Accounted(r) => Accounted(r)'
    <3>1. CASE WorkerLooks(r, w)
      BY <3>1, <2>1 DEF WorkerLooks, Shape, Accounted, Idle, AtAccount, runs
    <3>2. CASE WorkerAnswers(r, w)
      BY <3>2, <2>1 DEF WorkerAnswers, Shape, Accounted, runs
    <3>3. CASE WorkerReturns(r, w)
      BY <3>3, <2>1 DEF WorkerReturns, Shape, Accounted, Receiving, runs
    <3> QED
      BY <3>1, <3>2, <3>3 DEF WorkerStep
  <2> QED
    BY <1>2, <2>1, <2>2 DEF Whole, Answered, runs
<1> QED
  BY <1>1, <1>2

LEMMA LaunchWhole ==
    ASSUME Managed, Shape, NEW m \in Managers, Launch(m),
           UNCHANGED <<pool, cancelled, outcome, users, wrote>>,
           NEW q \in Runs, Whole(q)
    PROVE  Whole(q)'
<1> DEFINE r == started + 1
<1>1. job' = [job EXCEPT ![r] = m] /\ at' = [at EXCEPT ![r] = "spawned"]
  BY DEF Launch
<1>2. size.runs \in 0..MaxRuns /\ MaxRuns \in Nat /\ started < size.runs
  BY JobsAssumption DEF Launch, Shape
<1>3. r \in Runs /\ at[r] = "unused"
  BY <1>2 DEF Managed, Runs
<1> HIDE DEF r
<1>4. CASE q = r
  <2>1. r \notin wrote'
    BY <1>3, <1>4, NotYet
  <2>2. at'[r] = "spawned"
    BY <1>1, <1>3 DEF Managed
  <2> QED
    BY <1>4, <2>1, <2>2 DEF Whole, InPool
<1>5. CASE q # r
  <2>1. at'[q] = at[q] /\ job'[q] = job[q]
    BY <1>1, <1>5 DEF Managed
  <2> QED
    BY <2>1, WholeFrame DEF pool
<1> QED
  BY <1>4, <1>5

LEMMA ElsewhereWhole ==
    ASSUME Managed, Shape, Elsewhere, NEW q \in Runs, Whole(q)
    PROVE  Whole(q)'
<1>1. ASSUME NEW m \in Managers, Cancel(m) PROVE Whole(q)'
  <2>1. cancelled[q] => cancelled'[q]
    BY <1>1 DEF Cancel, Shape
  <2> QED
    BY <1>1, <2>1, WholeFrame DEF Cancel, pool
<1>2. ASSUME NEW r \in Runs, NEW w \in Workers, WorkerStep(r, w) PROVE Whole(q)'
  BY <1>2, WorkerWhole
<1>3. ASSUME UNCHANGED <<runs, pool>> PROVE Whole(q)'
  BY <1>3, WholeFrame DEF runs, pool
<1>4. ASSUME NEW u \in size.users, UploadBegin(u) \/ CracksBegin(u) \/ DeleteDomain(u)
      PROVE  UNCHANGED <<runs, pool>>
  BY <1>4 DEF UploadBegin, CracksBegin, DeleteDomain
<1>5. ASSUME NEW has_password \in BOOLEAN, UploadReplace(has_password)
      PROVE  UNCHANGED <<runs, pool>>
  BY <1>5 DEF UploadReplace
<1>6. CracksReplace \/ RequestFails \/ Lock \/ Unlock \/ AutoLockDecide \/ AutoLockFire
      => UNCHANGED <<runs, pool>>
  BY DEF CracksReplace, RequestFails, Lock, Unlock, AutoLockDecide, AutoLockFire
<1> QED
  BY <1>1, <1>2, <1>3, <1>4, <1>5, <1>6 DEF Elsewhere

LEMMA StepWhole ==
    ASSUME Managed, Shape, [Next]_vars, NEW q \in Runs, Whole(q)
    PROVE  Whole(q)'
<1>1. CASE UNCHANGED vars
  BY <1>1, WholeFrame DEF vars, runs, pool
<1>2. ASSUME NEW m \in Managers, Start(m) PROVE Whole(q)'
  BY <1>2, LaunchWhole DEF Start
<1>3. ASSUME NEW r \in Runs, Begin(r) \/ Working(r) \/ Finish(r) \/ Leave(r)
      PROVE  Whole(q)'
  BY <1>3, RunWhole, WorkingWhole, OtherRuns
<1>4. CASE UploadDone
  <2>1. CASE Launch("enrich")
    BY <1>4, <2>1, LaunchWhole DEF UploadDone, Managers
  <2>2. CASE UNCHANGED <<manager, job, at>>
    BY <1>4, <2>2, WholeFrame DEF UploadDone, pool
  <2> QED
    BY <1>4, <2>1, <2>2 DEF UploadDone
<1> QED
  BY <1>1, <1>2, <1>3, <1>4, Steps, ElsewhereWhole

-----------------------------------------------------------------------------
(* The invariant and what follows from it.                                 *)

JobsInv == Managed /\ Shape /\ Handed /\ Counted /\ \A r \in Runs : Whole(r)

LEMMA InitInv == Init => JobsInv /\ Unheld
<1> SUFFICES ASSUME Init PROVE JobsInv /\ Unheld
  OBVIOUS
<1>1. MaxRuns \in Nat
  BY JobsAssumption
<1>2. Managed
  BY <1>1 DEF Init, Managed, Managers, Phases, Runs, Places, Underway, Inside, Reports
<1>3. /\ NoData.loaded = {} /\ NoData.cracked = {}
      /\ NoData = [loaded |-> NoData.loaded, cracked |-> NoData.cracked]
  BY DEF NoData
<1>4. Shape
  BY <1>3, Resters DEF Init, Shape
<1>5. Held = {}
  BY DEF Init, Held, Inside
<1>6. Counted
  BY <1>5, FS_EmptySet DEF Init, Counted, Asked
<1>7. \A r \in Runs : Whole(r)
  BY DEF Init, Whole, InPool
<1>8. Handed
  BY <1>1 DEF Init, NoCopy, Handed, All
<1> QED
  BY <1>2, <1>4, <1>5, <1>6, <1>7, <1>8 DEF Init, JobsInv, Unheld

LEMMA StepInv ==
    ASSUME JobsInv, [Next]_vars
    PROVE  JobsInv'
<1>1. Managed' /\ Shape' /\ Handed' /\ Counted'
  BY StepManaged, StepShape, StepHanded, StepCounted DEF JobsInv, Shape
<1>2. \A r \in Runs : Whole(r)'
  BY StepWhole DEF JobsInv
<1> QED
  BY <1>1, <1>2 DEF JobsInv

LEMMA Always == Spec => []JobsInv
<1>1. JobsInv /\ [Next]_vars => JobsInv'
  BY StepInv
<1> QED
  BY <1>1, InitInv, PTL DEF Spec

LEMMA InvTypes == JobsInv => TypeOK
<1> SUFFICES ASSUME JobsInv PROVE TypeOK
  OBVIOUS
<1>1. All \subseteq Users
  BY JobsAssumption DEF JobsInv, Shape, All
<1>2. inFlight \in Nat
  BY HeldFinite DEF JobsInv, Counted, Asked
<1>3. /\ phase \in [Managers -> Phases] /\ current \in [Managers -> 0..MaxRuns]
      /\ started \in 0..MaxRuns /\ job \in [Runs -> Managers] /\ at \in [Runs -> Places]
      /\ myDone \in [Runs -> 0..MaxRuns] /\ closed \subseteq Runs
  BY DEF JobsInv, Managed
<1>4. outcome \in [Runs -> Phases]
  BY DEF JobsInv, Managed, Reports, Phases
<1>5. /\ users \in [Runs -> SUBSET Users] /\ left \in [Runs -> SUBSET Users]
      /\ result \in [Runs -> SUBSET Users]
  BY <1>1 DEF JobsInv, Shape
<1>6. Idle \cup AtAccount \subseteq
        [at : {"receive", "received", "calling", "gone"}, user : Users \cup {None}]
  BY <1>1 DEF Idle, AtAccount
<1>7. worker \in [Runs -> [Workers ->
           [at : {"receive", "received", "calling", "gone"}, user : Users \cup {None}]]]
  BY <1>6 DEF JobsInv, Shape
<1>8. {NoRequest} \cup Asks \subseteq
        [at : {"none", "upload", "uploaded", "cracks"}, user : Users \cup {None}, first : BOOLEAN]
  <2>1. NoRequest \in [at : {"none", "upload", "uploaded", "cracks"}, user : Users \cup {None},
                       first : BOOLEAN]
    BY ZenonT(30) DEF NoRequest
  <2>2. Asks \subseteq [at : {"none", "upload", "uploaded", "cracks"}, user : Users \cup {None},
                        first : BOOLEAN]
    BY <1>1 DEF Asks
  <2> QED
    BY <2>1, <2>2
<1>9. snapshot \in [loaded : SUBSET Users, cracked : SUBSET Users]
  <2>1. snapshot = [loaded |-> snapshot.loaded, cracked |-> snapshot.cracked]
    BY DEF JobsInv, Shape
  <2>2. snapshot.loaded \in SUBSET Users /\ snapshot.cracked \in SUBSET Users
    BY <1>1 DEF JobsInv, Shape
  <2> HIDE DEF JobsInv
  <2> QED
    BY ONLY <2>1, <2>2
<1>10. /\ size \in Sizes /\ loaded \subseteq Users /\ cracked \subseteq loaded
       /\ enriched \subseteq loaded /\ unlocked \in BOOLEAN /\ tick \in BOOLEAN
       /\ cancelled \in [Runs -> BOOLEAN] /\ wrote \subseteq Runs
       /\ req \in {NoRequest} \cup Asks
  BY <1>1 DEF JobsInv, Shape
<1>11. copy \in [Runs -> [loaded : SUBSET Users, cracked : SUBSET Users, enriched : SUBSET Users]]
  BY <1>1 DEF JobsInv, Handed
<1>12. mutate \in 0..MaxRuns
  BY DEF JobsInv, Handed
<1> QED
  BY <1>2, <1>3, <1>4, <1>5, <1>7, <1>8, <1>9, <1>10, <1>11, <1>12 DEF TypeOK, Places

\* Everything the jobs and the requests hold is of its type; in particular the
\* activity count of httpapi.Server (IncInFlight, DecInFlight) is never negative.
THEOREM JobsTyped == Spec => []TypeOK
BY Always, InvTypes, PTL

\* enrich.Manager and rescore.Manager each have at most one run between Start and
\* its finish, and say "running" exactly while they have one, whatever goroutines
\* of earlier runs are still in their deferred calls.
THEOREM OneRunEach == Spec => []OneRun
<1>1. JobsInv => OneRun
  BY ManagedProperties DEF JobsInv
<1> QED
  BY <1>1, Always, PTL

\* A run of Manager.run closes the done channel that Start made for it, never that
\* of the run after it, and no channel is closed that has a run to come.
THEOREM ChannelsOwn == Spec => []ClosesOwnChannel
<1>1. JobsInv => ClosesOwnChannel
  BY ManagedProperties DEF JobsInv
<1> QED
  BY <1>1, Always, PTL

\* enrich.Manager.prefetch: however the producer, the workers and a cancellation
\* interleave, and however many workers there are, the rewrite of an enrichment has
\* an answer for every account the run loaded.
THEOREM EnrichmentsWhole == Spec => []WholeEnrichment
<1>1. JobsInv => WholeEnrichment
  BY DEF JobsInv, Shape, Whole, Answered, WholeEnrichment
<1> QED
  BY <1>1, Always, PTL

\* enrich.Manager.run and rescore.Manager.run: a job whose rewrite reached the audit
\* reports done or failed, never cancelled.
THEOREM CancelledNeverWrote == Spec => []CancelledWroteNothing
<1>1. JobsInv => CancelledWroteNothing
  BY DEF JobsInv, Shape, Whole, CancelledWroteNothing
<1> QED
  BY <1>1, Always, PTL

\* httpapi.Server.StartAutoLock: as long as nothing begins between its look at the
\* activity count and its Lock, the idle auto-lock never fires while a job or a data
\* request is under way: the count is exactly that of those who hold it off.
THEOREM AutoLockAlwaysWaits ==
    ASSUME "tick_race" \notin Unguarded
    PROVE  Spec => []AutoLockWaits
<1>1. JobsInv /\ Unheld /\ [Next]_vars => Unheld'
  BY StepUnheld DEF JobsInv
<1>2. JobsInv /\ Unheld => AutoLockWaits
  BY UnheldWaits DEF JobsInv
<1> QED
  BY <1>1, <1>2, InitInv, Always, PTL DEF Spec

-----------------------------------------------------------------------------
(* What a rewrite leaves alone.                                            *)

LEMMA OnlyCommits ==
    ASSUME JobsInv, [Next]_vars, ~(wrote' \subseteq wrote)
    PROVE  \E r \in Runs :
               /\ wrote' = wrote \cup {r}
               /\ UNCHANGED <<loaded, cracked>>
               /\ job[r] = "rescore" => UNCHANGED enriched
<1>1. ~UNCHANGED wrote
  OBVIOUS
<1>2. ASSUME UNCHANGED vars PROVE FALSE
  BY <1>1, <1>2 DEF vars, runs
<1>3. ASSUME NEW m \in Managers, Start(m) PROVE FALSE
  BY <1>1, <1>3 DEF Start
<1>4. ASSUME NEW r \in Runs, Begin(r) \/ Finish(r) \/ Leave(r) PROVE FALSE
  BY <1>4 DEF Begin, Finish, Leave
<1>5. ASSUME UploadDone PROVE FALSE
  BY <1>1, <1>5 DEF UploadDone
<1>6. ASSUME NEW m \in Managers, Cancel(m) PROVE FALSE
  BY <1>1, <1>6 DEF Cancel
<1>7. ASSUME NEW r \in Runs, NEW w \in Workers, WorkerStep(r, w) PROVE FALSE
  BY <1>1, <1>7 DEF WorkerStep, WorkerLooks, WorkerAnswers, WorkerReturns, runs
<1>8. ASSUME NEW u \in size.users, UploadBegin(u) \/ CracksBegin(u) \/ DeleteDomain(u)
      PROVE  FALSE
  BY <1>1, <1>8 DEF UploadBegin, CracksBegin, DeleteDomain, runs
<1>9. ASSUME NEW has_password \in BOOLEAN, UploadReplace(has_password) PROVE FALSE
  BY <1>1, <1>9 DEF UploadReplace, runs
<1>10. ASSUME CracksReplace \/ RequestFails \/ Lock \/ Unlock \/ AutoLockDecide \/ AutoLockFire
       PROVE  FALSE
  BY <1>1, <1>10
     DEF CracksReplace, RequestFails, Lock, Unlock, AutoLockDecide, AutoLockFire, runs
<1>11. ~Elsewhere
  BY <1>6, <1>7, <1>8, <1>9, <1>10 DEF Elsewhere
<1>12. PICK r \in Runs : Working(r)
  BY <1>2, <1>3, <1>4, <1>5, <1>11, Steps
<1>13. Commit(r) \/ CommitFails(r)
  BY <1>1, <1>12
     DEF Working, Load, LoadFails, BulkPrefetch, StartPool, Feed, Join, HandOver, Verdict,
         MutateBegin
<1>14. at[r] = "rewrite" /\ Rewrite(r)
  BY <1>1, <1>13 DEF Commit, CommitFails
<1> QED
  BY <1>14, RewriteKeeps DEF JobsInv

\* rescore.Manager.run and enrich.Manager.run re-score what Store.Mutate hands them,
\* and the audit's lock keeps it what the audit is until they have written it: no
\* job takes back an upload, an applied crack or a deletion made while it ran.
THEOREM UploadsKept == Spec => JobsKeepUploads
<1>1. JobsInv /\ [Next]_vars => [wrote' \subseteq wrote \/ UNCHANGED <<loaded, cracked>>]_vars
  BY OnlyCommits
<1> QED
  BY <1>1, Always, PTL DEF Spec, JobsKeepUploads

\* engine.NewStoredEnricher: a rescore keeps every BloodHound result there is by the
\* time it writes, those of an enrichment that ran beside it included.
THEOREM ImpactKept == Spec => RescoreKeepsImpact
<1>1. ASSUME JobsInv, [Next]_vars
      PROVE  \A r \in wrote' \ wrote : job[r] = "rescore" => UNCHANGED enriched
  BY <1>1, OnlyCommits
<1>2. JobsInv /\ [Next]_vars
      => [\A r \in wrote' \ wrote : job[r] = "rescore" => UNCHANGED enriched]_vars
  BY <1>1
<1> QED
  BY <1>2, Always, PTL DEF Spec, RescoreKeepsImpact

=============================================================================

-------------------------------- MODULE Jobs --------------------------------
(***************************************************************************)
(* The background jobs that rewrite an audit (internal/enrich, with its    *)
(* pool of workers, and internal/rescore), the upload requests they race   *)
(* with, and the activity count that keeps the idle auto-lock away.        *)
(*                                                                         *)
(* The audit is its accounts, and which of them carry a password and which *)
(* a BloodHound result; each account is a domain of its own.  What a       *)
(* request does under the audit's lock is one step.  A job's Mutate is two *)
(* (the audit is read, and what became of it is written), between which    *)
(* whoever does not need the lock goes on; Store models the rest.          *)
(* The handlers refuse to start one job while the other is running, but    *)
(* kickEnrich does not ask, so a job may start whenever its manager is     *)
(* free.                                                                   *)
(***************************************************************************)
EXTENDS Integers, FiniteSets

CONSTANTS
    Users,      \* accounts of the audit
    Workers,    \* goroutines of the prefetch pool (Manager.Concurrency)
    None,       \* no account
    Unguarded,  \* unexcluded interleavings this instance lets happen
    MaxRuns,    \* bound: jobs ever started
    Sizes       \* bound: how many jobs, and which accounts and workers, a
                \* behaviour may have

\* "tick_race": work that begins between the auto-lock's look at the activity
\* count and its Lock.
Races == {"tick_race"}

ASSUME JobsAssumption ==
    /\ None \notin Users
    /\ Unguarded \subseteq Races
    /\ MaxRuns \in Nat
    /\ Sizes \subseteq [runs : 0..MaxRuns, users : SUBSET Users, workers : SUBSET Workers]

Managers == {"enrich", "rescore"}
Phases   == {"idle", "running", "done", "failed", "cancelled"}
Runs     == 1..MaxRuns

VARIABLES
    size,       \* the bounds of this behaviour
    loaded,     \* accounts of the audit
    cracked,    \* those with a password
    enriched,   \* those with a BloodHound result
    mutate,     \* Store.mutate: the run that holds the audit's lock, 0 none
    copy,       \* copy[r]: the audit as Mutate handed it to the callback of r
    unlocked,   \* Store.Unlocked
    inFlight,   \* Server.inFlight
    tick,       \* the auto-lock has decided to lock and has not yet done so
    phase,      \* Manager.phase
    current,    \* the run Manager.cancel and Manager.done belong to, 0 none
    started,    \* runs started so far
    job,        \* job[r]: the manager r runs for
    at,         \* at[r]: where its goroutine stands
    cancelled,  \* cancelled[r]: its context is cancelled
    outcome,    \* outcome[r]: the phase it will report
    myDone,     \* myDone[r]: the run whose done channel it will close
    closed,     \* the closed done channels
    users,      \* users[r]: the accounts it loaded
    left,       \* left[r]: those not yet handed to a worker
    result,     \* result[r]: those whose enrichment is in hand
    worker,     \* worker[r][w]: where a worker stands, and with which account
    wrote,      \* the runs, not yet over, whose rewrite reached the audit
    req,        \* the upload request being served
    snapshot    \* the accounts and passwords apply-cracks has read

data    == <<loaded, cracked, enriched>>
mutex   == <<mutate, copy>>
audit   == <<data, mutex>>
gate    == <<unlocked, inFlight, tick>>
manager == <<phase, current, started>>
pool    == <<left, result, worker>>
runs    == <<job, at, cancelled, outcome, myDone, closed, users, wrote>>
request == <<req, snapshot>>
vars == <<size, audit, gate, manager, runs, pool, request>>

Receiving == [at |-> "receive", user |-> None]
Gone      == [at |-> "gone", user |-> None]
NoRequest == [at |-> "none", user |-> None, first |-> FALSE]
NoData    == [loaded |-> {}, cracked |-> {}]
NoCopy    == [loaded |-> {}, cracked |-> {}, enriched |-> {}]

Init ==
    /\ size \in Sizes
    /\ loaded = {} /\ cracked = {} /\ enriched = {}
    /\ mutate = 0
    /\ copy = [r \in Runs |-> NoCopy]
    /\ unlocked = TRUE
    /\ inFlight = 0
    /\ tick = FALSE
    /\ phase = [m \in Managers |-> "idle"]
    /\ current = [m \in Managers |-> 0]
    /\ started = 0
    /\ job = [r \in Runs |-> "enrich"]
    /\ at = [r \in Runs |-> "unused"]
    /\ cancelled = [r \in Runs |-> FALSE]
    /\ outcome = [r \in Runs |-> "idle"]
    /\ myDone = [r \in Runs |-> 0]
    /\ closed = {}
    /\ users = [r \in Runs |-> {}]
    /\ left = [r \in Runs |-> {}]
    /\ result = [r \in Runs |-> {}]
    /\ worker = [r \in Runs |-> [w \in Workers |-> Gone]]
    /\ wrote = {}
    /\ req = NoRequest
    /\ snapshot = NoData

\* Goroutines between the start of their run and its deferred calls.
Active == {r \in Runs : at[r] \notin {"unused", "ended", "over"}}
\* Those that hold the auto-lock off.
Holding == {r \in Active : at[r] # "spawned"}

-----------------------------------------------------------------------------
(* The managers.                                                           *)

\* Manager.Start, once it has seen that no job is running.
Launch(m) ==
    /\ started < size.runs
    /\ LET r == started + 1
       IN  /\ started' = r
           /\ phase' = [phase EXCEPT ![m] = "running"]
           /\ current' = [current EXCEPT ![m] = r]
           /\ job' = [job EXCEPT ![r] = m]
           /\ at' = [at EXCEPT ![r] = "spawned"]

\* Mutant: Start does not ask whether a job is running.
StartAnyway(m) ==
    /\ Launch(m)
    /\ UNCHANGED <<audit, gate, pool, request, cancelled, outcome, myDone, closed, users, wrote>>

Start(m) ==
    /\ phase[m] # "running"
    /\ Launch(m)
    /\ UNCHANGED <<audit, gate, pool, request, cancelled, outcome, myDone, closed, users, wrote>>

Cancel(m) ==
    /\ phase[m] = "running"
    /\ ~cancelled[current[m]]
    /\ cancelled' = [cancelled EXCEPT ![current[m]] = TRUE]
    /\ UNCHANGED <<audit, gate, manager, pool, request, job, at, outcome, myDone, closed, users, wrote>>

-----------------------------------------------------------------------------
(* Manager.run, up to the rewrite.                                         *)

\* Mutant: the auto-lock is not held off.
BeginUnheld(r) ==
    /\ at[r] = "spawned"
    /\ tick => "tick_race" \in Unguarded
    /\ myDone' = [myDone EXCEPT ![r] = current[job[r]]]
    /\ at' = [at EXCEPT ![r] = "load"]
    /\ UNCHANGED <<audit, gate, manager, pool, request, job, cancelled, outcome, closed, users, wrote>>

\* It fetches its done channel and holds the auto-lock off (ActivityHook).
Begin(r) ==
    /\ at[r] = "spawned"
    /\ tick => "tick_race" \in Unguarded
    /\ myDone' = [myDone EXCEPT ![r] = current[job[r]]]
    /\ inFlight' = inFlight + 1
    /\ at' = [at EXCEPT ![r] = "load"]
    /\ UNCHANGED <<audit, unlocked, tick, manager, pool, request, job, cancelled, outcome, closed, users, wrote>>

End(r, result_phase) ==
    /\ outcome' = [outcome EXCEPT ![r] = result_phase]
    /\ at' = [at EXCEPT ![r] = "finish"]

\* Store.Accounts.
Load(r) ==
    /\ at[r] = "load"
    /\ unlocked
    /\ users' = [users EXCEPT ![r] = loaded]
    /\ at' = [at EXCEPT ![r] = IF job[r] = "rescore" THEN "verdict" ELSE "choose"]
    /\ UNCHANGED <<audit, gate, manager, pool, request, job, cancelled, outcome, myDone, closed, wrote>>

\* No enricher is configured, the store is locked, or the audit cannot be read.
LoadFails(r) ==
    /\ at[r] = "load"
    /\ End(r, "failed")
    /\ UNCHANGED <<audit, gate, manager, pool, request, job, cancelled, myDone, closed, users, wrote>>

\* BuildBulkEnricher: three queries answer for every account.
BulkPrefetch(r) ==
    /\ at[r] = "choose"
    /\ result' = [result EXCEPT ![r] = size.users]
    /\ at' = [at EXCEPT ![r] = "commit"]
    /\ UNCHANGED <<audit, gate, manager, left, worker, request, job, cancelled, outcome, myDone, closed, users, wrote>>

\* Mutant: no default for a Concurrency that is not set.
StartNoWorkers(r) ==
    /\ at[r] = "choose"
    /\ left' = [left EXCEPT ![r] = users[r]]
    /\ at' = [at EXCEPT ![r] = "feed"]
    /\ UNCHANGED <<audit, gate, manager, result, worker, request, job, cancelled, outcome, myDone, closed, users, wrote>>

\* It returned nil: one request per account, by the pool.
StartPool(r) ==
    /\ at[r] = "choose"
    /\ left' = [left EXCEPT ![r] = users[r]]
    /\ worker' = [worker EXCEPT ![r] = [w \in Workers |-> IF w \in size.workers THEN Receiving ELSE Gone]]
    /\ at' = [at EXCEPT ![r] = "feed"]
    /\ UNCHANGED <<audit, gate, manager, result, request, job, cancelled, outcome, myDone, closed, users, wrote>>

\* The producer: a look at the context before every send; then close(jobs).
Feed(r) ==
    /\ at[r] = "feed"
    /\ at' = [at EXCEPT ![r] =
           IF cancelled[r] \/ left[r] = {} THEN "join" ELSE "send"]
    /\ UNCHANGED <<audit, gate, manager, pool, request, job, cancelled, outcome, myDone, closed, users, wrote>>

\* The channel has no buffer: the send needs a worker that is receiving.
HandOver(r, w) ==
    /\ at[r] = "send"
    /\ worker[r][w] = Receiving
    /\ \E u \in left[r] :
           /\ left' = [left EXCEPT ![r] = @ \ {u}]
           /\ worker' = [worker EXCEPT ![r][w] = [at |-> "received", user |-> u]]
    /\ at' = [at EXCEPT ![r] = "feed"]
    /\ UNCHANGED <<audit, gate, manager, result, request, job, cancelled, outcome, myDone, closed, users, wrote>>

\* A worker looks at the context, too, and returns if it is cancelled.
WorkerLooks(r, w) ==
    /\ worker[r][w].at = "received"
    /\ worker' = [worker EXCEPT ![r][w] =
           IF cancelled[r] THEN Gone ELSE [@ EXCEPT !.at = "calling"]]
    /\ UNCHANGED <<audit, gate, manager, left, result, runs, request>>

WorkerAnswers(r, w) ==
    /\ worker[r][w].at = "calling"
    /\ result' = [result EXCEPT ![r] = @ \cup {worker[r][w].user}]
    /\ worker' = [worker EXCEPT ![r][w] = Receiving]
    /\ UNCHANGED <<audit, gate, manager, left, runs, request>>

WorkerReturns(r, w) ==
    /\ at[r] = "join"
    /\ worker[r][w] = Receiving
    /\ worker' = [worker EXCEPT ![r][w] = Gone]
    /\ UNCHANGED <<audit, gate, manager, left, result, runs, request>>

\* wg.Wait
Join(r) ==
    /\ at[r] = "join"
    /\ \A w \in Workers : worker[r][w] = Gone
    /\ at' = [at EXCEPT ![r] = "verdict"]
    /\ UNCHANGED <<audit, gate, manager, pool, request, job, cancelled, outcome, myDone, closed, users, wrote>>

\* Mutant: the context is not looked at again before the rewrite.
VerdictUnasked(r) ==
    /\ at[r] = "verdict"
    /\ at' = [at EXCEPT ![r] = "commit"]
    /\ UNCHANGED <<audit, gate, manager, pool, request, job, cancelled, outcome, myDone, closed, users, wrote>>

\* The last look at the context.
Verdict(r) ==
    /\ at[r] = "verdict"
    /\ IF cancelled[r]
       THEN End(r, "cancelled")
       ELSE at' = [at EXCEPT ![r] = "commit"] /\ UNCHANGED outcome
    /\ UNCHANGED <<audit, gate, manager, pool, request, job, cancelled, myDone, closed, users, wrote>>

-----------------------------------------------------------------------------
(* Manager.run, from the rewrite on.                                       *)

\* Mutant: Mutate does not take the audit's lock.
MutateBeginUnlocked(r) ==
    /\ at[r] = "commit"
    /\ unlocked
    /\ mutate' = r
    /\ copy' = [copy EXCEPT ![r] = [loaded |-> loaded, cracked |-> cracked, enriched |-> enriched]]
    /\ at' = [at EXCEPT ![r] = "rewrite"]
    /\ UNCHANGED <<data, gate, manager, pool, request, job, cancelled, outcome, myDone, closed, users, wrote>>

\* Mutate takes the audit's lock and hands the callback the accounts and their
\* passwords as they are by now ...
MutateBegin(r) ==
    /\ at[r] = "commit"
    /\ unlocked
    /\ mutate = 0
    /\ mutate' = r
    /\ copy' = [copy EXCEPT ![r] = [loaded |-> loaded, cracked |-> cracked, enriched |-> enriched]]
    /\ at' = [at EXCEPT ![r] = "rewrite"]
    /\ UNCHANGED <<data, gate, manager, pool, request, job, cancelled, outcome, myDone, closed, users, wrote>>

\* ... and swap writes what RescoreWith makes of them.  mapEnricher and
\* BulkBloodhoundEnricher answer from the prefetch, NewStoredEnricher from the
\* stored results.
Rewrite(r) ==
    /\ loaded' = copy[r].loaded
    /\ cracked' = copy[r].cracked
    /\ enriched' = IF job[r] = "rescore" THEN copy[r].enriched
                                        ELSE result[r] \cap copy[r].loaded
    /\ wrote' = wrote \cup {r}

\* Mutate returns.
MutateEnd(r, result_phase) ==
    /\ mutate' = IF mutate = r THEN 0 ELSE mutate
    /\ copy' = [copy EXCEPT ![r] = NoCopy]
    /\ End(r, result_phase)
    /\ UNCHANGED <<gate, manager, pool, request, job, cancelled, myDone, closed, users>>

\* Mutant: a cancellation is reported after the rewrite.
CommitCancelled(r) ==
    /\ at[r] = "rewrite"
    /\ unlocked
    /\ Rewrite(r)
    /\ MutateEnd(r, IF cancelled[r] THEN "cancelled" ELSE "done")

Commit(r) ==
    /\ at[r] = "rewrite"
    /\ unlocked
    /\ Rewrite(r)
    /\ MutateEnd(r, "done")

\* Mutate fails, before or after the new accounts got into the store.
CommitFails(r) ==
    /\ \/ at[r] = "commit" /\ mutate = 0 /\ UNCHANGED <<data, wrote>>
       \/ at[r] = "rewrite" /\ UNCHANGED <<data, wrote>>
       \/ at[r] = "rewrite" /\ Rewrite(r)
    /\ MutateEnd(r, "failed")

\* From here on another job may start ...
Finish(r) ==
    /\ at[r] = "finish"
    /\ phase' = [phase EXCEPT ![job[r]] = outcome[r]]
    /\ at' = [at EXCEPT ![r] = "ended"]
    /\ UNCHANGED <<audit, gate, current, started, pool, request, job, cancelled, outcome, myDone, closed, users, wrote>>

\* Mutant: the auto-lock is released twice.
LeaveTwice(r) ==
    /\ at[r] = "ended"
    /\ inFlight' = inFlight - 2
    /\ closed' = closed \cup {myDone[r]}
    /\ at' = [at EXCEPT ![r] = "over"]
    /\ UNCHANGED <<audit, unlocked, tick, manager, pool, request, job, cancelled, outcome, myDone, users, wrote>>

\* Mutant: the channel is looked up when it is closed.
LeaveClosingCurrent(r) ==
    /\ at[r] = "ended"
    /\ inFlight' = inFlight - 1
    /\ closed' = closed \cup {current[job[r]]}
    /\ at' = [at EXCEPT ![r] = "over"]
    /\ cancelled' = [cancelled EXCEPT ![r] = FALSE]
    /\ outcome' = [outcome EXCEPT ![r] = "idle"]
    /\ users' = [users EXCEPT ![r] = {}]
    /\ left' = [left EXCEPT ![r] = {}]
    /\ result' = [result EXCEPT ![r] = {}]
    /\ wrote' = wrote \ {r}
    /\ job' = [job EXCEPT ![r] = "enrich"]
    /\ UNCHANGED <<audit, unlocked, tick, manager, worker, request, myDone>>

\* ... while the deferred calls release the auto-lock and close the channel; the
\* goroutine's locals go with it.
Leave(r) ==
    /\ at[r] = "ended"
    /\ inFlight' = inFlight - 1
    /\ closed' = closed \cup {myDone[r]}
    /\ at' = [at EXCEPT ![r] = "over"]
    /\ cancelled' = [cancelled EXCEPT ![r] = FALSE]
    /\ outcome' = [outcome EXCEPT ![r] = "idle"]
    /\ users' = [users EXCEPT ![r] = {}]
    /\ left' = [left EXCEPT ![r] = {}]
    /\ result' = [result EXCEPT ![r] = {}]
    /\ wrote' = wrote \ {r}
    /\ job' = [job EXCEPT ![r] = "enrich"]
    /\ UNCHANGED <<audit, unlocked, tick, manager, worker, request, myDone>>

-----------------------------------------------------------------------------
(* Requests (one is served at a time), behind requireUnlocked.             *)

Arrive ==
    /\ req = NoRequest
    /\ unlocked
    /\ tick => "tick_race" \in Unguarded
    /\ inFlight' = inFlight + 1

Respond ==
    /\ req' = NoRequest
    /\ snapshot' = NoData
    /\ inFlight' = inFlight - 1

\* handleAudit: is this the first data of the audit?  If it cannot be read, yes.
UploadBegin(u) ==
    /\ Arrive
    /\ \E first \in {loaded = {}, TRUE} :
           req' = [at |-> "upload", user |-> u, first |-> first]
    /\ UNCHANGED <<audit, unlocked, tick, manager, runs, pool, snapshot>>

\* Mutant: ReplaceDomain does not take the audit's lock.
UploadUnlocked(has_password) ==
    /\ req.at = "upload"
    /\ unlocked
    /\ loaded' = loaded \cup {req.user}
    /\ cracked' = IF has_password THEN cracked \cup {req.user} ELSE cracked \ {req.user}
    /\ enriched' = enriched \ {req.user}
    /\ req' = [req EXCEPT !.at = "uploaded"]
    /\ UNCHANGED <<mutex, gate, manager, runs, pool, snapshot>>

\* ReplaceDomain, scored without BloodHound.
UploadReplace(has_password) ==
    /\ req.at = "upload"
    /\ unlocked
    /\ mutate = 0
    /\ loaded' = loaded \cup {req.user}
    /\ cracked' = IF has_password THEN cracked \cup {req.user} ELSE cracked \ {req.user}
    /\ enriched' = enriched \ {req.user}
    /\ req' = [req EXCEPT !.at = "uploaded"]
    /\ UNCHANGED <<mutex, gate, manager, runs, pool, snapshot>>

\* kickEnrich: an error of Start is ignored.
UploadDone ==
    /\ req.at = "uploaded"
    /\ Respond
    /\ \/ req.first /\ phase["enrich"] # "running" /\ Launch("enrich")
       \/ UNCHANGED <<manager, job, at>>
    /\ UNCHANGED <<audit, unlocked, tick, pool, cancelled, outcome, myDone, closed, users, wrote>>

\* handleApplyCracks reads the accounts ...
CracksBegin(u) ==
    /\ Arrive
    /\ u \in loaded
    /\ snapshot' = [loaded |-> loaded, cracked |-> cracked \cup {u}]
    /\ req' = [at |-> "cracks", user |-> u, first |-> FALSE]
    /\ UNCHANGED <<audit, unlocked, tick, manager, runs, pool>>

\* ... and later replaces them all, scored without BloodHound.
CracksReplace ==
    /\ req.at = "cracks"
    /\ unlocked
    /\ mutate = 0
    /\ loaded' = snapshot.loaded
    /\ cracked' = snapshot.cracked
    /\ enriched' = {}
    /\ Respond
    /\ UNCHANGED <<mutex, unlocked, tick, manager, runs, pool>>

\* The store has been locked since.
RequestFails ==
    /\ req.at \in {"upload", "cracks"}
    /\ ~unlocked
    /\ mutate = 0
    /\ Respond
    /\ UNCHANGED <<audit, unlocked, tick, manager, runs, pool>>

DeleteDomain(u) ==
    /\ req = NoRequest
    /\ unlocked
    /\ mutate = 0
    /\ u \in loaded
    /\ loaded' = loaded \ {u}
    /\ cracked' = cracked \ {u}
    /\ enriched' = enriched \ {u}
    /\ UNCHANGED <<mutex, gate, manager, runs, pool, request>>

-----------------------------------------------------------------------------
(* Locking.                                                                *)

\* handleLock does not look at the activity count.
Lock ==
    /\ unlocked
    /\ unlocked' = FALSE
    /\ UNCHANGED <<audit, inFlight, tick, manager, runs, pool, request>>

Unlock ==
    /\ ~unlocked
    /\ unlocked' = TRUE
    /\ UNCHANGED <<audit, inFlight, tick, manager, runs, pool, request>>

\* shouldAutoLock is true (the idle time may have passed at any moment) ...
AutoLockDecide ==
    /\ unlocked
    /\ inFlight = 0
    /\ tick' = TRUE
    /\ UNCHANGED <<audit, unlocked, inFlight, manager, runs, pool, request>>

\* ... and the store is locked.
AutoLockFire ==
    /\ tick
    /\ tick' = FALSE
    /\ unlocked' = FALSE
    /\ UNCHANGED <<audit, inFlight, manager, runs, pool, request>>

-----------------------------------------------------------------------------
RunStep(r) ==
    \/ Begin(r) \/ Load(r) \/ LoadFails(r)
    \/ BulkPrefetch(r) \/ StartPool(r) \/ Feed(r) \/ Join(r)
    \/ \E w \in Workers : HandOver(r, w)
    \/ Verdict(r) \/ MutateBegin(r) \/ Commit(r) \/ CommitFails(r) \/ Finish(r) \/ Leave(r)

WorkerStep(r, w) == WorkerLooks(r, w) \/ WorkerAnswers(r, w) \/ WorkerReturns(r, w)

RequestStep ==
    \/ \E has_password \in BOOLEAN : UploadReplace(has_password)
    \/ UploadDone \/ CracksReplace \/ RequestFails

Next ==
    /\ \/ \E m \in Managers : Start(m) \/ Cancel(m)
       \/ \E r \in Runs : RunStep(r) \/ \E w \in Workers : WorkerStep(r, w)
       \/ \E u \in size.users : UploadBegin(u) \/ CracksBegin(u) \/ DeleteDomain(u)
       \/ RequestStep
       \/ Lock \/ Unlock \/ AutoLockDecide \/ AutoLockFire
    /\ UNCHANGED size

Spec == Init /\ [][Next]_vars

Sized(step) == step /\ UNCHANGED size

\* As long as some goroutine of a run can go on, one does; a call to BloodHound
\* returns (the client has a timeout); the auto-lock's goroutine locks when it has
\* decided to, and a run is not kept from beginning by one tick after the other.
FairSpec ==
    /\ Spec
    /\ \A r \in Runs :
           /\ WF_vars(Sized(RunStep(r) \/ \E w \in Workers : WorkerStep(r, w)))
           /\ SF_vars(Sized(Begin(r)))
    /\ WF_vars(Sized(RequestStep))
    /\ WF_vars(Sized(AutoLockFire))

-----------------------------------------------------------------------------
TypeOK ==
    /\ size \in Sizes
    /\ loaded \subseteq Users /\ cracked \subseteq loaded /\ enriched \subseteq loaded
    /\ mutate \in 0..MaxRuns
    /\ copy \in [Runs -> [loaded : SUBSET Users, cracked : SUBSET Users, enriched : SUBSET Users]]
    /\ unlocked \in BOOLEAN /\ inFlight \in Nat /\ tick \in BOOLEAN
    /\ phase \in [Managers -> Phases]
    /\ current \in [Managers -> 0..MaxRuns]
    /\ started \in 0..MaxRuns
    /\ job \in [Runs -> Managers]
    /\ at \in [Runs -> {"unused", "spawned", "load", "choose", "feed", "send", "join",
                        "verdict", "commit", "rewrite", "finish", "ended", "over"}]
    /\ cancelled \in [Runs -> BOOLEAN]
    /\ outcome \in [Runs -> Phases]
    /\ myDone \in [Runs -> 0..MaxRuns]
    /\ closed \subseteq Runs
    /\ users \in [Runs -> SUBSET Users]
    /\ left \in [Runs -> SUBSET Users]
    /\ result \in [Runs -> SUBSET Users]
    /\ worker \in [Runs -> [Workers ->
           [at : {"receive", "received", "calling", "gone"}, user : Users \cup {None}]]]
    /\ wrote \subseteq Runs
    /\ req \in [at : {"none", "upload", "uploaded", "cracks"},
                user : Users \cup {None}, first : BOOLEAN]
    /\ snapshot \in [loaded : SUBSET Users, cracked : SUBSET Users]

\* A manager has at most one run between its Start and its finish, and reports
\* "running" exactly while it has one, also when the goroutine of the run before
\* is still in its deferred calls.
OneRun ==
    \A m \in Managers : LET mine == {r \in Active : job[r] = m}
                        IN  mine = IF phase[m] = "running" THEN {current[m]} ELSE {}

\* The channel Wait blocks on is closed exactly when its run is over: a run never
\* closes that of the next one, which may have started before it gets to it (and
\* would panic when it closed its channel a second time).
ClosesOwnChannel == closed = {r \in Runs : at[r] = "over"}

\* An enrichment writes the answer for every account it set out to enrich or
\* nothing at all: workers that dropped an account on a cancellation never lead
\* to a partial result in the audit, which would blank the missing accounts.
WholeEnrichment == \A r \in wrote : job[r] = "enrich" => users[r] \subseteq result[r]

\* A job that is reported cancelled has not written.
CancelledWroteNothing == \A r \in wrote : outcome[r] # "cancelled"

\* No job undoes an upload, an applied crack or a deletion made while it ran, up
\* to the moment it writes: what Mutate read is still the audit when its callback
\* has come back.
JobsKeepUploads == [][wrote' \subseteq wrote \/ UNCHANGED <<loaded, cracked>>]_vars

\* A rescore leaves every BloodHound result in place, those that an enrichment
\* wrote while the rescore was running included: of two jobs that rewrite the audit
\* at once, neither writes over what the other has read.
RescoreKeepsImpact ==
    [][\A r \in wrote' \ wrote : job[r] = "rescore" => UNCHANGED enriched]_vars

\* The auto-lock does not fire while a job or a data request is under way.
AutoLockWaits == tick => Holding = {} /\ req = NoRequest

\* A job that is not cancelled comes to its end: time and again there is none under
\* way.
RunsEnd == []<>(\A r \in Runs : at[r] \in {"unused", "over"} \/ cancelled[r])

\* "Cancel cooperatively stops a running job."
CancelStops == \A r \in Runs : cancelled[r] ~> at[r] = "over"

=============================================================================

# Verification of PasswordAtTheDisco

PasswordAtTheDisco is a single Go process (`cmd/patd`) that serves a web
client. Operators upload credential dumps of Active Directory domains; the
server scores every account, enriches it from BloodHound in the background and
keeps all of it in an encrypted store on disk that a lead unlocks with a
passphrase. This directory holds TLA+ models of the parts of that process
whose correctness depends on order, failure and concurrency, and of the scoring
they serve; the TLC configurations that check them; and TLAPS proofs of the
properties that matter most.

## 1. The system

| part | state | operations | what makes it correct |
|---|---|---|---|
| `internal/vault` | on disk: keyfile (data key and, during a rotation, the previous one, wrapped under a passphrase), its backup, one blob per audit, an index; in memory: `dek`, `prevDEK` | Initialize, Unlock, Lock, ChangePassphrase, Rekey (resumable), SaveAudit, SaveIndex, LoadIndex, LoadOne, LoadAll (quarantines), DeleteAudit (overwrites, removes) | every audit on disk opens under a key the keyfile holds, at every instant and after any crash; a replaced passphrase opens nothing |
| `internal/store` | `index`, `cache` with `lru`, `s.mu`, a mutex per audit (`mutate`), `writeMu` | Unlock (loads, reconciles or rebuilds the index), Lock, CreateAudit, Mutate, ReplaceDomain, Replace, RecordIngest, Delete, Accounts, Summary, List, Rekey, ChangePassphrase | no reported update is lost, no deleted audit returns, every created audit is listed, cache and lru agree |
| `internal/enrich`, `internal/rescore` | a manager each: phase, cancel function, `done` channel; a goroutine per run, a pool of workers | Start, Cancel, Wait, run, finish | one run at a time; nothing partial is written; uploads made meanwhile survive; a run ends |
| `internal/bloodhound` | a client: the cached list of domains, the SIDs of groups and anchors | queries with retries, bulk prefetch, the sweep of candidates, the lookup of one user | a failure never makes an account look worse than it is; a job without failures says what BloodHound knows |
| `internal/auth` | operators (file), sessions, API tokens (file), limiters, lockouts | login, logout, administration of operators and tokens, `patd user`, `patd token` | somebody can always administer; an answer holds after a restart; what is revoked stays revoked; stale roles end |
| `internal/httpapi` | the activity count and `lastActivity`; the audit each session has open | about 90 handlers behind session, CSRF, role and store gates; the MCP endpoint behind a token; the idle auto-lock | the auto-lock waits for work in flight; cleartext goes to leads and is recorded first |
| `internal/engine`, `risk`, `model` | the searcher and the enricher, swappable; otherwise pure | scoring of one account and of a domain; the passes over a whole audit: reuse, escalation, percentiles | level, percentile and reuse agree after any sequence of writes |
| `internal/policy`, settings | policies, forbidden words, the BloodHound connection, each live and in a file | edit, save, load | what was answered survives a restart |
| `internal/pwned`, `internal/hibp` | the corpus file and its index on disk, a job manager, open searchers | download, index, swap with rollback; binary search | data and index always match; an account known to be breached stays so |
| `internal/audit` | an append-only file | Log, query | what must be recorded is, before the answer |
| `report`, `metrics`, `secretsdump`, `pwanalysis`, `webui`, `web/`, `tools/`, `deploy/` | none | rendering, parsing, user interface | (pure or I/O) |

How they interact: a handler authenticates a session or a token, passes
`requireUnlocked`, which counts it in `inFlight`, and calls the store; the store
calls the vault inside `writeMu`. Upload handlers start an enrichment
(`kickEnrich`); the jobs call `Store.Accounts` and, much later, `Store.Mutate`,
which runs the passes over the audit. The managers call back into the server
(`ActivityHook`) to hold the auto-lock off. The auto-lock goroutine and
`handleLock` call `Store.Lock`, which zeroes the keys and drops the cache
whatever else is running. The corpus job closes and reopens the searcher the
engine scores with; a new BloodHound configuration replaces the engine's client
under a running job.

The hard behaviours, each at its line, are the `hazards` of `PROJECT.json`:
crashes and errors between the file writes of a rotation, a deletion, a swap or
a save; copies read outside a lock and used after it; the order in which writes
land; jobs that run for minutes on an audit that is being edited; cancellation
of a pool; check and act of the auto-lock, of a revocation, of a login against
an administration; steps of one update that fail in the middle; windows and
thresholds; caches that remember a failure; escalations that outlive their
cause.

## 2. Modules

| module | models | role |
|---|---|---|
| `DurableAudits` | | what the vault promises: saving makes an audit recoverable, erasing ends that, nothing else changes either |
| `Vault` | `internal/vault`, the `writeMu` sections of `internal/store` around it, `fsutil.WriteFileAtomic` | one action per file write |
| `VaultProofs` | | theorems about `Vault` |
| `Store` | `internal/store` | one action per critical section of `s.mu` and per vault call |
| `Jobs` | `internal/enrich`, `internal/rescore`, and the gate, upload, crack, lock and auto-lock parts of `internal/httpapi` | one action per step between two points where another goroutine can be seen |
| `Process` | | the clock, whether the server runs, and the budget of events that bounds a behaviour |
| `Operators` | `auth/userstore.go`, `session.go`, `ratelimit.go`, `logintracker.go`, the login and operator handlers, `patd user` | one action per lock section or file write; a login and an update are several |
| `Tokens` | `auth/apitoken.go`, `requireMCPToken`, the token handlers, `patd token` | extends `Operators` |
| `Requests` | the gates, views, exports, reveals and MCP tools of `httpapi` with their audit records; lock, unlock, audit selection | extends `Tokens` |
| `Settings` | policies, forbidden words, the BloodHound connection | one action per effect and per write |
| `Corpus` | `internal/pwned`, `hibp.Open`, the searcher's replacement in the engine | one action per rename |
| `Risk` | `internal/risk` | operators |
| `Dataset` | the passes of `internal/model` over an audit | operators |
| `Scoring` | `internal/engine` and what uploads, cracks, enrichments and rescores make of an audit | one action per write |
| `BloodHound` | `internal/bloodhound` and the two enrichers of the engine | one action per call, which may fail |
| `Service` | all of `Process` .. `BloodHound` in one process that stops and starts | composition |
| `StoreProofs`, `JobsProofs`, `OperatorsProofs`, `RequestsProofs` (also of `Tokens`), `ScoringProofs`, `BloodHoundProofs`, `ServiceProofs` (also of `Settings` and `Corpus`) | | theorems |
| `MCVault`, `MCStore`, `MCJobs`, `MCScoring`, `MCBloodHound`, `MCService` | | instances for TLC: symmetry, budgets, data |

**Vault.** A key is a number, fresh keys count up; a file is the key its
content is sealed under, `NoFile` or `Junk`. `keyfile`/`bak` are
`keyfile.json(.bak)`, `files` the blobs, `index` the index file, `corrupt` the
quarantined ids, `dek`/`prevDek` the fields of the same name. Operations that
hold `writeMu` share one program counter `op`; `MuHeld` are the steps in which
`v.mu` is held exclusively. `SaveAuditBegin`/`SaveAuditWrite` are the capture of
the key and the write of `SaveAudit`; `RekeyVerify` .. `RekeyDone` are `Rekey` in
source order, `RekeyFresh` and `RekeyResume` its two branches; `LoadAll*` is
`LoadAll`, which runs outside `writeMu`. `WriterError` and `LoadAllError` are
errors of a file operation at any step, `Crash` the end of the process.

**Store.** A dataset is the set of updates it contains, so that a lost update is
a missing element. `blobs`/`dindex` are the disk, `index`, `cache`, `lru` the
memory. A client's `pc` walks `Mutate` and its siblings (`lock`, `load`,
`fetch`, `insert`, `swap`, `persist`, `index`), a deletion (`lock`, `persist`,
`blob`), a creation (`persist`, `index`, `rollback`) and the readers. `loader` is
`loadIndex`: read and reconcile, rebuild, install, save. `Lock` is two steps
(`LockVault`, `LockClear`), as in the code. A vault call is one step, unless Lock
comes in the middle of it: `LockInSave` zeroes the key that `SaveAudit` has
captured, so that what the client then writes at `seal` is `unreadable`, and
`LockInLoadAll` does the same to a rebuild, which quarantines what it can no
longer open. ReplaceDomain, Replace, Mutate and
RecordIngest have one shape (lock, ensureLoaded, copy, swap, persist) and are
the one operation `mutate`; what they put into the copy is an update.
`secureErase` and the removal are one step here; `Vault` splits them.

**Jobs.** The audit is three sets of accounts (loaded, cracked, enriched).
`at[r]` is where the goroutine of run `r` stands: `Begin` takes the done channel
and holds the auto-lock off; `Load`; then the bulk path (`BulkPrefetch`) or the
pool (`StartPool`, `Feed`, `HandOver`, the worker actions, `Join`); `Verdict` is
the last look at the context, `MutateBegin` and `Commit` the two ends of `Mutate`,
which holds the audit's lock (`mutate`) from the `copy` it hands the job to the
write of what the job makes of it; `Finish` and `Leave` are the report and the
deferred calls. A rescore shares all of it but the middle. The
channel of the pool is unbuffered: `HandOver` needs a receiving worker. Requests
are `UploadBegin`/`UploadReplace`/`UploadDone` (with `kickEnrich`), apply-cracks
(`CracksBegin`/`CracksReplace`, a snapshot and a later replacement) and
`DeleteDomain`; `AutoLockDecide`/`AutoLockFire` are the check and the act of the
auto-lock tick.

**Operators.** `users`/`usersFile` are `UserStore` and its file, `sessions` the
`SessionStore`, `throttle` the limiter per address, `tracked` the lockouts. A
login (`LoginBegin`, `LoginAuthenticate`, then `LoginRefuse` or `LoginAccept`)
looks at the lockout, verifies the password and makes a session at three
different moments; an update of an operator (`UpdateBegin`, `UpdateField` per
field, `UpdateRefused`) applies role, password and state one after the other,
each with its own write, which may fail after the change in memory.
`Saved`/`Unsaved` are the two outcomes of a write. `AddUser` and
`SetUserPassword` are `patd user`. The ghost `told` is what the last answer
promised of an operator, `changed` when its account last changed, `denials` the
failures that count towards a lockout.

**Tokens.** `CallBegin` and `Touch` are the two lock sections of `Verify`;
`RevokeToken` may come between them. `Touch` saves the last use now and then,
over the file. `TokensBoot` reads whatever the file holds.

**Requests.** An endpoint is a record of what its handler asks for: a role,
whether it writes a record, and whether that comes before the accounts are read
or must succeed. `Ask` and `AskTool` are the gates; `Load`, `Resolve`, `Record`,
`RecordFails`, `Answer` the steps of the handlers. `recorded` counts the log's
records, the ghost `given` the answers with cleartext.

**Settings.** `Apply`, `Snapshot`, `Save` in the order of each handler: policies
and words take effect and are then saved from a snapshot; the connection is
saved first. `owed` is what a restart may find.

**Corpus.** The swap is `SwapStep`, a rename at a time, with `Restore` as its
rollback; `Release`, `Drop`, `Reopen` what surrounds it; `ScoreBegin`/`ScoreEnd`
an account that is being scored with the searcher it has got hold of.

**Scoring.** The dataset is a function from accounts to records with the fields
the passes read. `Rewrite` is the engine's scoring of every account followed by
the passes of `Mutate` (`RecomputeSharing`, the three escalations,
`ComputePercentiles`). A password is its hash, its analysis a table.

**BloodHound.** `directory` is what the database knows, `clients` every client
built, with its caches; `job` the enrichment, `asking[w]` what a worker, or
number 0 the job itself, is about to ask of one account. Every call is a step
that may fail (`Replied`). `Search` .. `Path` are the calls in source order;
`Look` is a look into a cache, `ResolveSID` its filling. `After` lists the
Cypher queries of the baseline.

**Service** adds the clock (`Tick`), the stop and the start of the process and
which parts share what: administration and requests share sessions, a deletion
makes a session forget its audit, a restart empties everything that is not in a
file.

### Interleavings the code does not exclude

Some interleavings are excluded by no lock, only made unlikely by a human or a
timer. Every module names them in a constant `Unguarded`: an action's guard lets
one happen only if its name is in the set, so that the rest can be checked and
proved without them, and each can be switched on.

* Vault: `lock_in_flight` (Lock zeroes a key slice that a save has captured),
  `repass_in_rekey` (passphrase change over an interrupted rotation),
  `repass_locked` (passphrase change reaching a vault that was locked after the
  handler looked), `load_in_rekey` (the rebuild of an unlock overlapping a
  rotation).
* Store: `lock_in_flight` (Lock between two vault calls of a request or a load),
  `lock_in_call` (Lock in the middle of one), `unlock_in_lock` (an Unlock between the two halves of
  Lock), `create_in_load` (requests are let in as soon as the vault has its key,
  before the index is loaded), `early_use` (an id seen in the list before its
  CreateAudit has returned).
* Jobs: `tick_race` (work that begins between the auto-lock's look and its Lock).
* Operators, Tokens, Settings: `force` (`patd user --force` under a running
  server, which the command refuses without that flag), `token_shell` (`patd token` under a
  running server, which does not look), `two_editors` (two leads save one
  setting at the same time).

With all of them off, the passing runs and the theorems say that the design is
right for operators who do one of these things at a time; `store_writers` and
`store_live` switch `lock_in_flight` and `lock_in_call` on, `vault_repass`
`repass_in_rekey`.
`TypeCorrect` is proved with any of them on.

## 3. Runs

| run | instance | shows |
|---|---|---|
| `vault` | 2 audits, 2 passphrases, at most 3 keys and 2 faults | `TypeOK`, `Recoverable`, `RunningReads`, `OldPassphraseRetired`, the refinement `KeepsAudits`, and `RekeyConverges`: an interrupted rotation can always be completed |
| `vault_repass` | as `vault`, with `repass_in_rekey` | violates `Recoverable` (finding 1) |
| `store_writers` | 2 audits, 2 clients, cache of 1, 1 update, 1 fault, locks at any time, also in the middle of a vault call | `TypeOK`, `DeletedGone`, `CacheNotStale`, `LruMirrorsCache` |
| `store_readers` | 2 audits, 2 clients with readers, cache of 2, 2 updates, 1 fault | `NoLostUpdate`, `CreatedListed` |
| `store_live` | 1 audit, 2 clients, 2 updates, 1 fault, locks as in `store_writers` | `RequestsReturn` |
| `store_evict` | as `store_readers` with a cache of 1 | violates `NoLostUpdate` (finding 2) |
| `jobs` | 1 account, 1 worker, 2 runs; and 2 accounts, 2 workers, 1 run | `TypeOK`, `OneRun`, `ClosesOwnChannel`, `AutoLockWaits`, `WholeEnrichment`, `CancelledWroteNothing`, `JobsKeepUploads`, `RescoreKeepsImpact`, `RunsEnd` |
| `jobs_cancel` | 2 accounts, 1 worker, 1 run | violates `CancelStops` (finding 3) |
| `service` | one process with 2 founders, 2 sessions, 2 logins at once, 2 tokens, 1 MCP call and 2 requests at once, 1 audit, 3 settings, 1 corpus, 5 accounts of 2 domains to score, 2 accounts to enrich with 2 workers | see below |
| `stale_role` | operators and sessions of `service` alone | violates `CapabilityFollowsRole` (finding 6) |
| `roastable` | the accounts of `service` alone | violates `RoastableNotCritical` (finding 4) |
| `absent` | BloodHound of `service` alone | violates `AbsentNotDisabled` (finding 5) |

What `service` checks:

| property | says | could go wrong by |
|---|---|---|
| `LeadRemains` | an enabled lead is left, in memory and in the file | two leads who demote each other, an update that stops half way, a write that fails |
| `AnswersHold` | what the last answer about an operator promised is in the file and in memory | a failing write, and a write for somebody else that saves the unsaved |
| `StaleRoleBounded` | the bound on finding 6: a session outlives a change of its operator's role by less than its lifetime | a login that authenticated before the change and gets its session after it |
| `LockoutHasCause` | a lockout has enough failures in one window behind it | windows at their boundary, a success or an unlock between two failures, an evicted entry |
| `RevokedStaysOut` | a request after the revocation gets no role | a use of the token between its two lock sections |
| `TokensSurvive` | an issued token is in memory and in the file | a saved last use that overwrites, a restart, the command line |
| `CleartextLogged` | never more answers with cleartext than records | a log that cannot be written, two requests of one operator |
| `CleartextToLeads` | who gets cleartext is a lead at the moment of the answer, unless the account was changed since the session was opened (finding 6), or has a lead's token that was not revoked before the request | a login that overlaps a change of the role, a check that is missing or comes too late, a revocation between the two lock sections of `Verify` |
| `SettingsSurvive` | what was answered is live and in the file | the different orders of the three handlers, a failing write, a restart |
| `PairMatches` | no searcher has the data of one corpus and the index of another | a rename that fails, its rollback, a crash |
| `CorpusKept` | a corpus that was there stays | the same, with a cancelled or failing update |
| `BreachKept` | an account known to be breached is not forgotten | a scoring while the searcher is closed or replaced |
| `PercentileAgrees` | a percentile does not contradict a level | a pass that runs before an escalation |
| `ReuseEscalates` | whoever has cause is escalated, across domains | a write that touches one domain only |
| `EscalationsCurrent` | a write that scores all leaves no escalation without cause | scoring that builds on escalated scores |
| `NeverInflates` | no account is made out to be more than BloodHound knows | a failed call, a cached miss, a client replaced under the job |
| `Untroubled` | a job without failures says exactly what BloodHound knows | what earlier jobs left in the caches, workers that fill them together |

**Bounds.** `MaxKeys` = 3: the first key, the key of a rotation and that of the
next, so that a key can be two rotations old. `MaxFaults` = 2 in `Vault`: a
fault during the recovery from a fault; 1 in `Store`, whose recovery (the next
Unlock) the vault's runs cover. `MaxUpdates` = 2 lets one update overwrite
another. Two audits let the index list one and miss the other, and an audit
evict another. In `jobs`, two runs are the fewest for one run overtaking the
deferred calls of the one before and for an enrichment next to a rescore; two
accounts and two workers are the fewest for a partial result; `Sizes` says which
of the two instances a behaviour is of. The cache cap is 8 in the code; 1 makes
eviction happen, 2 keeps it from happening, and finding 2 is why both are used.
An upload, a crack and a deletion concern one account at a time, and each
account is a domain of its own.

`service` is bounded by budgets (`MCBudgets`): a behaviour picks how many events
of each kind it will see, so that each part is looked at closely, each pair of
parts that share state is looked at together, and nothing is multiplied by what
it does not touch; `stale_role` has one budget of its own
(`RoleBudgets`). A budget of 2 faults is one of a swap and one of its
rollback, or two calls of one enrichment; 3 ticks reach the end of a session
and of a window; 5 data writes are two uploads, cracks, an enrichment and a
rescore. Thresholds and windows are as small as they can be and still differ
(2 failures lock, 3 throttle, the idle time is below the absolute one). Of the
scores, every threshold of `Risk` is the code's; only the knobs of mass reuse are
scaled to an audit of five (4, 3, 75 %, 50 %, 2 for 100, 25, 25 %, 5 %, 5), and
`tier0SweepMin` to counts of at most 3 (2 for 100). Sessions, logins, requests
and setting values are symmetric.

**Fairness.** Weak fairness of a step says that a goroutine that can run does.
Where a step waits for a mutex it is strong: Go's mutexes hand themselves to a
waiter that starves. A worker's answer is fair because the BloodHound client has
a timeout (30 s unless configured, `bloodhound.go`). In `vault` the
operator takes part: unlocks a locked store, re-runs an interrupted rotation,
and relocks once when a blob or the index is unreadable so that the next unlock
rebuilds; nothing is assumed of when. The steps of the writer are one fair action
there (`WriterStep`), and so are those of a load (`LoaderStep`), since where it
stands decides which of them can be taken. In `store_live` the steps of a request, of a load
and of the second half of Lock are fair. In `jobs`, a run and its workers, a
request that has begun and the auto-lock that has decided are weakly fair, and
`Begin` is strongly fair: the auto-lock's ticks are a minute apart and cannot
keep a goroutine from its first step for ever. Faults, new requests, Lock and
Cancel are never fair. `service` checks safety only.

**Deadlock** is checked in every run but `service`, `stale_role`, `roastable` and `absent`,
where behaviours end when their budget is spent. That a pool cannot block itself,
but for finding 3, is checked in `jobs`.

## 4. Findings

1. `vault_repass`: `ChangePassphrase` over an interrupted rotation writes a
   keyfile without the previous key (`vault.go:305`), although blobs sealed under
   it remain; `docs/architecture.md:76` promises that the old key is dropped
   only once all blobs are re-sealed.
2. `store_evict`: `ensureLoaded` decrypts outside `s.mu`; if the audit is updated
   and evicted before it inserts what it read (`store.go:392`), the cache holds a
   copy older than the blob and the next `Mutate` overwrites the update. The
   comment on `Mutate` says it always re-reads the latest state.
3. `jobs_cancel`: the producer of the pool sends without looking at the context
   (`enrich/job.go:246`); when all workers have returned on the cancellation it
   never gets rid of its account, and the job never ends. The comment on
   `Cancel` says it stops a running job. The phase stays "running", so neither
   job can be started again, and the activity count keeps the auto-lock away.
4. `roastable`: the floor of an account without pre-authentication and the bumps
   for both ways of roasting add up to an exposure of 4.3, which is Medium; with
   Tier-0 impact the matrix makes that Critical (`risk.go:358`). The comment above
   it, and the decision it records, say that roastability never reaches Critical
   on its own.
5. `absent`: an enrichment with the Cypher baseline takes an account that
   BloodHound does not have for a disabled one (`engine.go:630`), because a lookup
   that finds nothing yields a record that says so. The comment on
   `enabledOrUnknown` says that only an explicit signal does.
6. `stale_role`: a session keeps the role its operator had at login
   (`session.go:61`), and a demotion, disabling or removal does not touch it, so
   that who was a lead goes on as one for up to the session's lifetime.
   `Operators.tsx:151` says that changes take effect immediately, the repository's
   README (375) that they have live effect, `ChapterSecurity.tsx:96` that capability
   follows the role and not the session. `StaleRoleBounded` says how far this goes;
   `CleartextToLeads` excepts such sessions and nobody else.

## 5. Proofs

All theorems hold for any sets, numbers and bounds that the modules' named
assumptions allow (`VaultAssumption`, `StoreAssumption`, `JobsAssumption`, `ProcessAssumption`,
`OperatorsAssumption`, `TokensAssumption`, `RequestsAssumption`,
`ScoringAssumption`, `BloodHoundAssumption`), and each rests on an inductive
invariant that is shown to hold initially and to survive each action.

**`VaultProofs`**: `TypeCorrect` (`Spec => []TypeOK`, whatever is in `Unguarded`);
under `Unguarded = {}`: `AuditsRecoverable`, `UnlockedProcessReads`,
`PassphraseRetired` and `VaultRefines`, that `Vault` implements `DurableAudits`.
The invariant is `IInv` (`VaultInvariant`). `Recoverable` alone is not inductive:
that a save lands under a key the keyfile holds needs the captured key to be one
of those it holds; that finalizing a rotation loses nothing needs every blob
outside `todo` to be under the new key, and the new key to be the keyfile's
primary; that `LoadAll` quarantines only blobs that are being deleted needs its
captured keys to open all others, and no rotation to overlap it; that a
passphrase does not come back needs the keyfile read by a rotation to be the
current one. Each of these is a named conjunct.

**`StoreProofs`** is about `Store`'s own `Spec`, with any number of audits, clients
and updates and a cache of any size.

* `StoreTyped` and `CacheMirrored` hold whatever is in `Unguarded`; the list and
  the cache are changed together in every step of `s.mu`. Neither says anything of
  the cap, which `swap` does not enforce.
* `DeletedStayDeleted` rests, as the next three do, on `Base` and `Lives`. An audit's
  blob and index entry may be ahead of or behind the cache only while some client
  holds that audit's mutex at a known step (`Excuse`), and only one does; a reader,
  which holds none, may put back into the cache what it has read, so that what it
  has in hand must not be older than the blob unless a writer is at work, and must
  be nothing once the deletion has passed it; a load in progress must find no
  writer. The hypothesis `Closed` lets a store be locked and reopened under its
  requests (`lock_in_flight`) if it has no readers: with readers, TLC finds a
  deletion that straddles Lock and Unlock while a reader puts the audit back into
  the new cache. The other interleavings are off, `lock_in_call` too.
* `UpdatesKept` needs `Whole` besides: no Lock has fallen into a vault call, though it
  may fall between any two. It is no wider because the code gives no more: a Lock
  inside a `SaveAudit` leaves an answered update under a zeroed key
  (`vault.go:464`), and one inside a `LoadAll` has it quarantine what it cannot
  open. With both, `store_writers` checks that `DeletedGone` and `CacheNotStale`
  survive; that is not proved.
* `CacheIsFresh` and `UpdatesKept` assume moreover that a store with readers has a
  cache that holds all audits (`Roomy`): without it finding 2 is a counterexample.
* `CreatedStayListed` is for `Unguarded = {}`: no creation overlaps an Unlock and
  no Lock a request.

**`OperatorsProofs`, `RequestsProofs`** prove the invariants of the operators, the
tokens and the requests for the parts' own steps, **`ServiceProofs`** those of the
settings and the corpus, and that all of them survive the steps of the other
parts, the clock and restarts. The theorems are about `Service`'s `Spec`:

* `LeadAlwaysRemains` and `StaleRolesEnd`, from `OperatorsInv`. Its conjunct
  `Typed` has the types that matter; `LeadRemains` is inductive beside it, since
  the check for the only lead and the change are one lock section; `Dated` says
  that neither a session nor a login under way is older than the clock and that a
  login that has authenticated has seen its account at this very time, which is
  why a session begun after a change still ends within its lifetime of it.
* `AnswersAlwaysHold`, from `OperatorsInv` and the agreement of file and memory
  for everybody of whom something sure was said; assumes `force` is not in
  `Unguarded`.
* `RevokedAlwaysOut`, `TokensAlwaysSurvive`, from `TokensInv`: whatever is
  promised is in both tables, whatever is revoked in neither until a restart
  brings it back; assume `token_shell` is not in `Unguarded`.
* `CleartextAlwaysLogged`, `CleartextOnlyToLeads`, from `RequestsInv`: `Booked`
  (each record is used by one answer: answers given and answers about to be given
  are together no more than the records), `Proper` (what a request may be at) and
  `Vetted` (who has got how far), under the same assumption.
* `LockoutsHaveCause`, from `LockInv`. That enough denials lie behind a lockout
  says nothing of an entry that counts towards the next one; `Covered` says of
  each entry that the denials since its window began are at least as many as it
  counts, and that those within a window of its lockout are as many as the
  threshold. Both survive the passing of a window, the reset by a success or an
  unlock (which forget the denials too), and the eviction of the entry.
* `SettingsAlwaysSurvive`, from `SettingsInv`: what the last answer allows is in
  the file and live at every moment, not only between edits (`Allowed`), since an
  edit that has had its first effect allows anything until its answer; what an
  edit is about to make one is so on its other side (`HalfDone`). Assumes that
  `two_editors` is not in `Unguarded`, which is what `Sole` needs.
* `CorpusAlwaysKept`, from `CorpusInv`: at each step of the swap, which files hold
  the old pair as long as it is owned (`Owning`) and which the new (`Staged`).
* `PairsAlwaysMatch` and `BreachesStayKnown`, from `PairInv`. `Matching`
  says at each step of the swap whether the live files, and those that a rollback
  would make live, fit, counting the failures that have been: at `move data`, for
  instance, old data that could not be stashed takes one failure, and an index
  beside it another, after which nothing fails any more. Its hypothesis
  `FewFailures` allows two failures and no stop of the process, or no failure and
  any number of stops, which `MCBudgets` satisfies; three failures, or one and a
  stop, do violate `PairMatches` (section 6).
* `ScoresAlwaysAgree`, `NothingEverInflated` and `NothingEverForgotten` lift those
  of the next two modules.
* `TypesKept`: the composed `TypeOK`, from the invariants above that say something
  of every value (`LockInv`, `CorpusInv`, `ScoringInv`, `BloodHoundInv`,
  `TroubleInv`) and typing invariants of what the others do not speak of
  (`ToldTyped`, `TokensTyped`, `SettingsTyped`). It has no hypothesis about
  `Unguarded`: the races that break `TokensSurvive` or `SettingsSurvive` break no
  type, so those two invariants are not used.

**`ScoringProofs`**: from `ScoringInv`, `ScoringTyped`, `PercentilesAgree`,
`ReuseAlwaysEscalates` and `EscalationsAreCurrent`. The lemmas are about the
passes: what each leaves of a record, that an escalation only raises, that the
three together leave nobody with a cause unescalated, and that percentiles
follow the levels.

**`BloodHoundProofs`**: `NothingInflated`, from `BloodHoundInv`: what an asker has
found of the account it is at is true of it (`HasFound`), nobody is at an account
outside the sweep and the pool (`Resting`, so that a new job with a new database
starts from nothing), and the database is coherent. Caches do not occur in it:
whatever they hold, a path counts only when the answer to the query says so.

`NothingForgotten` is the other half, from `TroubleInv`, where all depends on the
caches. `Resolving`: as long as no call of the job has failed nobody resolves a
target that is cached as missing, so that a miss met in the job is still cached at
its end; a job whose client holds none at its end (`Clean`) has met none. For such
a job `Tracked` says of each asker that what it has found and the targets that
remain together are all there is, `Sweeping` when the sweep may give up a target,
and `Settled` of each account that nobody is at that it has its answer. It needs
`Captured`, that the clients of a job exist however often the connection is
configured anew, and `Divided`, that the sweep and the pool do not work at once.

**`JobsProofs`** is about `Jobs`' own `Spec`, with any number of runs, accounts and
workers. The invariant is `JobsInv`:

* `Managed`: a manager's phase and current run agree with its only run under way,
  and each run has its own channel from its first step on. `OneRun` alone is not
  inductive, since the run before may still be in its deferred calls, and what it
  then closes is what it took at its start. Gives `OneRunEach` and `ChannelsOwn`.
* `Shape`: what a run, a worker or a request holds is of this audit. `JobsTyped`.
* `Counted`: the activity count is the number of runs between `Begin` and `Leave`
  plus the request in progress, so that it is 0 only when nothing is under way.
  With it, and if `tick_race` is not in `Unguarded`, `Unheld` survives each step;
  it gives `AutoLockAlwaysWaits`.
* `Whole`, for each run: unless it is cancelled, every account it loaded is still
  to be handed out, is at a worker or has its answer; the queue is empty when the
  workers are waited for. Gives `EnrichmentsWhole` and `CancelledNeverWrote`.

* `Handed`: a run between the two ends of `Mutate` holds the audit's lock, and the
  copy it has in hand is the audit as it is. Every other write of the audit takes
  the same lock. Gives `UploadsKept` and `ImpactKept`; without the lock on either
  side an upload, or an enrichment next to a rescore, comes between copy and write.

What is only model-checked is liveness (`RekeyConverges`, `RequestsReturn`,
`RunsEnd`), which is out of the prover's reach. Every invariant and every action
property that a passing run checks is a theorem, for `DeletedGone` and `CacheNotStale`
without `lock_in_call`.

## 6. What is abstracted

* Encryption: opening succeeds exactly under the sealing key; passphrases are
  compared, not derived. Nonces, AAD and the legacy format do not appear.
* Removal of the keyfile backup is assumed to succeed (its error is ignored by
  the code; the backup would then outlive the rotation). A rename that fails
  while quarantining leaves the blob for the next rebuild and is not modelled.
* `Lock` may come in the middle of `SaveAudit` and `LoadAll` in `Store` (where a save
  under a zeroed key counts as answered, and which of the remaining blobs a rebuild
  quarantines is open), in `Vault` only with `lock_in_flight`, which no run sets.
  Two unlocks at once are left out: `handleUnlock` looks at the lock only
  beforehand (`server.go:429`), so that two leads may both load the index.
* `reconcile` reads the index, lists the blobs and installs the result in one
  step. `rebuildIndex` reads all blobs in one step, and installs in another.
* In `Jobs`, `ReplaceDomain` and `Replace` are one step, ingest history and
  progress counters are left out, requests are served one at a time. A Lock
  between the two ends of `Mutate` makes its write fail.
* Operators: the clock stands still while a request is in progress and between a
  login's authentication and its session. A password verifies if it is the one
  that was set.
* Tokens: `Revoke` ignores an error of its write; a revocation that was not saved
  is lost at a restart, and `RevokedStaysOut` speaks of the process that answered
  it or of one that read it from the file.
* Requests: `handleGetForbiddenWords` gives a lead the forbidden words, which are
  fragments of cleartext, and records only refusals; it is a `Visit` here and not
  among the answers `CleartextLogged` counts. The exports with cleartext are
  modelled as they are, although `ChapterSecurity.tsx:78` says of a reveal "never a
  bulk export"; no property is about that.
* Settings: a domain called "default" and the fixed name of the temporary file of
  `SaveSet` are left out; `two_editors` is off.
* Corpus: files are versions, a download succeeds or not. `PairMatches` holds for
  up to two failing renames, or for a crash in a swap all of whose renames
  succeed. It does not hold for three failing renames, nor for a stash that fails
  and a crash after it: then the comment "never left mismatched"
  (`pwned/job.go:216`) does not hold. No run shows it; `FewFailures` leaves it out
  of the theorems. `CorpusKept` leaves out a crash inside the swap and a rollback
  that fails. `BreachKept` is about rescoring.
* Scoring: each write is one step; scores are in hundredths; the logistic of the
  length is a table; the analysis and the similarity of passwords are constants;
  the cap of 5000 accounts on similarity, the case of hashes, and which domains
  have a Domain Admin path (here whether there is one) are left out.
  `EscalationsCurrent` is about writes that score all accounts: deleting or
  re-uploading a domain leaves the others with escalations it was the cause of
  until the next rescore (`settled`). `ApplyCracks` drops BloodHound's data and
  starts no enrichment: they are back after the next one. `UploadBHEUsers` renews
  no score.
* BloodHound: a retry keeps nothing of what it repeats, so a reply is that of the
  last attempt. The search for a user finds the right one. The Tier-0 set of the
  Cypher query and of the controllables of one user agree. The four other groups
  of Tier-0 are one, and all exist: a miss comes from a failure. The database
  does not change during a job. A lookup that failed is cached for the client's
  life, which `Untroubled` therefore excepts. An account whose paths could not be
  asked for counts as covered. Calls in flight are not limited. Cancellation is
  in `Jobs`.

## 7. Not modelled

* `Reindex` and `patd audit`, commands on a stopped server, and the in-memory
  mode without a vault.
* `pwanalysis`, `secretsdump` and the parsers of exports: character-level code
  without state; a model would restate it.
* `metrics`, `report`, explanations, vector and report codes, posture and summary
  counts: pure functions of a snapshot, whose subject is layout and wording.
* The binary search of `hibp` and the format of its index; the ranges of a
  download and its resumption.
* The health, list and history handlers, which change nothing; JSON-RPC framing,
  CSRF tokens, cookies, TLS, signing of BloodHound requests.
* The web client, tools, scripts and deployment.

## 8. What could follow

1. A refinement of `Scoring`'s one-step writes by `Store`'s updates.
2. An abstract specification of the job that enriches, which `BloodHound`
   implements: accounts answered one by one, in any order.

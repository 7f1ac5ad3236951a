----------------------------- MODULE BloodHound -----------------------------
(***************************************************************************)
(* What an enrichment asks of a BloodHound server that may fail at any     *)
(* call (internal/bloodhound), and what it makes of the answers            *)
(* (engine.BloodhoundEnricher, engine.BulkBloodhoundEnricher).             *)
(*                                                                         *)
(* One Cypher baseline for everybody, corrected candidate by candidate;    *)
(* or, where the baseline fails, a pool of workers that ask for one        *)
(* account each.  All of them share what the client has cached.  What      *)
(* becomes of a job that is cancelled, and of its result in the store, is  *)
(* the subject of Jobs.                                                    *)
(***************************************************************************)
EXTENDS Process, Sequences, FiniteSets

CONSTANTS
    People,         \* the accounts of the audit
    Forest,         \* the domains that BloodHound has collected, as it lists them
    Pool,           \* the workers, numbers from 1
    Directories,    \* what BloodHound may know of the people
    SweepMin        \* tier0SweepMin

\* "da" is Domain Admins, "group" the other Tier-0 groups, "node" the domain itself.
Anchors == {"da", "group", "node"}
Collected == {Forest[i] : i \in DOMAIN Forest}
Targets == Collected \X Anchors

DATargets == [i \in DOMAIN Forest |-> <<Forest[i], "da">>]
ExtraTargets ==
    [i \in 1..2 * Len(Forest) |-> <<Forest[(i + 1) \div 2], IF i % 2 = 1 THEN "group" ELSE "node">>]
DADomains(targets) == {d \in Collected : <<d, "da">> \in targets}

\* found: BloodHound has the user; candidate: cracked, breached or roastable;
\* total: transitive controllables; direct: first-degree ones; control: a Tier-0
\* object is among them; members: the domains whose Domain Admins it is a member
\* of; reach: the anchors with a traversable path.
Person == [found : BOOLEAN, enabled : BOOLEAN, candidate : BOOLEAN, total : Nat, direct : Nat,
           control : BOOLEAN, members : SUBSET Collected, reach : SUBSET Targets]

Absent == [found |-> FALSE, enabled |-> FALSE, candidate |-> FALSE, total |-> 0, direct |-> 0,
           control |-> FALSE, members |-> {}, reach |-> {}]

ASSUME BloodHoundAssumption ==
    /\ Forest \in Seq(STRING)
    /\ Pool \subseteq Nat \ {0}
    /\ SweepMin \in Nat \ {0}
    /\ Directories \subseteq [People -> Person]
    /\ \A dir \in Directories : \A p \in People :
        /\ dir[p].direct <= dir[p].total
        /\ dir[p].members \subseteq DADomains(dir[p].reach)
        /\ dir[p].reach # {} => dir[p].total > 0
        /\ ~dir[p].found => \E b \in BOOLEAN : dir[p] = [Absent EXCEPT !.candidate = b]

VARIABLES
    directory,  \* what BloodHound knows
    clients,    \* every Client built: what it has cached
    enricher,   \* the client of Engine.Enricher
    job,        \* the enrichment under way, or the last one
    asking,     \* asking[w]: the account a worker is at, and where it stands
    answers     \* answers[p]: the enrichment in hand

bloodHoundVars == <<directory, clients, enricher, job, asking, answers>>

\* An SID cached for an anchor: none yet, found to be missing, or one.
Cached == {"unset", "miss", "sid"}
NewClient == [listed |-> FALSE,
              daGroups |-> [t \in Targets |-> "unset"], anchorSIDs |-> [t \in Targets |-> "unset"]]

\* The goroutine of the job itself is number 0.
Askers == Pool \cup {0}
AtRest == [at |-> "idle", of |-> {}, todo |-> <<>>, deep |-> FALSE,
           total |-> 0, da |-> {}, tier0 |-> FALSE]

\* engine.Enrichment; "unknown" is a nil pointer.
Enriched == [covered : BOOLEAN, enabled : {"yes", "no", "unknown"}, da : SUBSET Collected,
             controlled : Nat, tier0 : BOOLEAN]
NoData == [covered |-> FALSE, enabled |-> "unknown", da |-> {}, controlled |-> 0, tier0 |-> FALSE]

\* own, bulk: the clients captured; listed: collectedDomains; lost, a ghost: a call
\* failed that was not made good.
NoJob == [at |-> "idle", own |-> 0, bulk |-> 0, pooled |-> FALSE, listed |-> FALSE, left |-> {},
          lost |-> FALSE]

BloodHoundInit ==
    /\ directory = [p \in People |-> Absent]
    /\ clients = <<NewClient>> /\ enricher = 1
    /\ job = NoJob
    /\ asking = [w \in Askers |-> AtRest]
    /\ answers = [p \in People |-> NoData]

-----------------------------------------------------------------------------
(* Calls.  get repeats one that meets a transient status, up to two times, *)
(* and keeps nothing of it: a reply here is that of the last attempt.      *)

Replied(ok) == Takes(IF ok THEN {} ELSE {"fault"})

\* GetDomains: the list is cached, and asked for again when it has expired.
GetDomains(c, ok) ==
    \/ clients[c].listed /\ ok /\ Serves /\ UNCHANGED clients
    \/ Replied(ok) /\ clients' = [clients EXCEPT ![c].listed = @ \/ ok]

-----------------------------------------------------------------------------
(* The job (enrich.Manager.run) and its baseline.                          *)

StartEnrich ==
    /\ Takes({"bhe"})
    /\ job.at \in {"idle", "done"}
    /\ job' = [NoJob EXCEPT !.at = "build", !.own = enricher]
    /\ directory' \in Directories
    /\ answers' = [p \in People |-> NoData]
    /\ UNCHANGED <<clients, enricher, asking>>

\* handleBHEConfig: a job that runs keeps the clients it has captured.
Reconfigure ==
    /\ Takes({"bhe"})
    /\ clients' = Append(clients, NewClient)
    /\ enricher' = Len(clients')
    /\ UNCHANGED <<directory, job, asking, answers>>

\* BuildBulkEnricher up to Prefetch.
Build ==
    /\ Serves
    /\ job.at = "build"
    /\ job' = [job EXCEPT !.at = "props", !.bulk = enricher]
    /\ UNCHANGED <<directory, clients, enricher, asking, answers>>

\* BulkBloodhoundEnricher.Enrich: who is not found has the properties of nobody.
Baseline(p) ==
    [NoData EXCEPT !.covered = directory[p].found,
                    !.enabled = IF directory[p].enabled THEN "yes" ELSE "no"]

\* Prefetch: without the users there is no baseline.
FetchAllUserProps(ok) ==
    /\ job.at = "props"
    /\ Replied(ok)
    /\ IF ok THEN answers' = [p \in People |-> Baseline(p)] /\ job' = [job EXCEPT !.at = "da"]
             ELSE /\ job' = [job EXCEPT !.at = "pool", !.pooled = TRUE, !.left = People]
                  /\ UNCHANGED answers
    /\ UNCHANGED <<directory, clients, enricher, asking>>

After == [da |-> "counts", counts |-> "tier0", tier0 |-> "listing"]

Fetched(p) ==
    CASE job.at = "da"     -> [answers[p] EXCEPT !.da = directory[p].members]
      [] job.at = "counts" -> [answers[p] EXCEPT !.controlled = directory[p].direct]
      [] job.at = "tier0"  -> [answers[p] EXCEPT !.tier0 = directory[p].control]

\* FetchDAUsers, FetchControllableCounts, FetchTier0Controllers: without an
\* answer nobody has any.
Fetch(ok) ==
    /\ job.at \in DOMAIN After
    /\ Replied(ok)
    /\ answers' = [p \in People |-> IF ok THEN Fetched(p) ELSE answers[p]]
    /\ job' = [job EXCEPT !.at = After[job.at], !.lost = @ \/ ~ok]
    /\ UNCHANGED <<directory, clients, enricher, asking>>

\* collectedDomains, and the candidates of EnrichCandidates.
ListDomains(ok) ==
    /\ job.at = "listing"
    /\ GetDomains(job.bulk, ok)
    /\ job' = [job EXCEPT !.at = "sweep", !.listed = ok, !.lost = @ \/ ~ok,
                          !.left = {p \in People : directory[p].found /\ directory[p].candidate}]
    /\ UNCHANGED <<directory, enricher, asking, answers>>

-----------------------------------------------------------------------------
(* One account: enrichCandidate by the job, GetUserData by a worker.       *)

Client(w) == IF w = 0 THEN job.bulk ELSE job.own
Cache(w) == IF w = 0 THEN "anchorSIDs" ELSE "daGroups"
Who(w) == CHOOSE p \in asking[w].of : TRUE

Stands(w, a) == asking' = [asking EXCEPT ![w] = a]
Goes(w, at) == Stands(w, [asking[w] EXCEPT !.at = at])
Lost(ok) == job' = [job EXCEPT !.lost = @ \/ ~ok]

\* Accounts are handed out in one order, here an arbitrary one.
Take(w) ==
    /\ Serves
    /\ job.at = IF w = 0 THEN "sweep" ELSE "pool"
    /\ asking[w] = AtRest
    /\ job.left # {}
    /\ LET p == CHOOSE p \in job.left : TRUE
       IN  /\ job' = [job EXCEPT !.left = @ \ {p}]
           /\ Stands(w, [AtRest EXCEPT !.at = IF w = 0 THEN "controllables" ELSE "domains",
                                      !.of = {p}, !.deep = (w = 0)])
    /\ UNCHANGED <<directory, clients, enricher, answers>>

Domains(w, ok) ==
    /\ asking[w].at = "domains"
    /\ GetDomains(Client(w), ok)
    /\ Lost(ok)
    /\ IF ok THEN Goes(w, "search") ELSE Stands(w, AtRest)
    /\ UNCHANGED <<directory, enricher, answers>>

\* GetUser.
Search(w, ok) ==
    /\ asking[w].at = "search"
    /\ Replied(ok)
    /\ Lost(ok)
    /\ IF ok /\ directory[Who(w)].found THEN Goes(w, "controllables") ELSE Stands(w, AtRest)
    /\ UNCHANGED <<directory, clients, enricher, answers>>

\* GetUserControllables.  A status other than 200 is an empty answer: a worker
\* goes on with it, as the sweep does not.
Controllables(w, ok, refused) ==
    /\ asking[w].at = "controllables"
    /\ Replied(ok)
    /\ Lost(ok)
    /\ LET p == directory[Who(w)]
           total == IF ok THEN p.total ELSE 0
           counted == [asking[w] EXCEPT !.total = total]
       IN  IF w = 0
           THEN Stands(w, IF total = 0 THEN AtRest
                           ELSE [counted EXCEPT !.at = "look",
                                                !.todo = IF job.listed THEN DATargets ELSE <<>>])
           ELSE Stands(w, IF ~ok /\ ~refused THEN AtRest
                           ELSE [counted EXCEPT !.at = "props", !.tier0 = ok /\ p.control])
    /\ UNCHANGED <<directory, clients, enricher, answers>>

\* GetUserFull.
UserProps(w, ok) ==
    /\ asking[w].at = "props"
    /\ Replied(ok)
    /\ Lost(ok)
    /\ Stands(w, IF ok THEN [asking[w] EXCEPT !.at = "look", !.todo = DATargets] ELSE AtRest)
    /\ UNCHANGED <<directory, clients, enricher, answers>>

\* The other anchors are swept when Domain Admins are out of reach and the
\* account controls enough.
Onward(a) ==
    IF a.todo = <<>> /\ a.deep
    THEN [a EXCEPT !.deep = FALSE,
                   !.todo = IF job.listed /\ ~a.tier0 /\ a.total >= SweepMin
                            THEN ExtraTargets ELSE <<>>]
    ELSE a
Skip(a) == Onward([a EXCEPT !.at = "look", !.todo = Tail(a.todo)])

\* anchorSID, cachedDAGroup.
Look(w) ==
    /\ Serves
    /\ asking[w].at = "look"
    /\ asking[w].todo # <<>>
    /\ LET sid == clients[Client(w)][Cache(w)][Head(asking[w].todo)]
       IN  \/ sid = "unset" /\ Goes(w, "resolve")
           \/ sid = "sid" /\ Goes(w, "path")
           \/ sid = "miss" /\ Stands(w, Skip(asking[w]))
    /\ UNCHANGED <<directory, clients, enricher, job, answers>>

\* GetGroup, or GetDomains for the domain's own node; then setAnchorSID or
\* setDAGroup, over whatever another worker has cached since.
ResolveSID(w, ok) ==
    /\ asking[w].at = "resolve"
    /\ Replied(ok)
    /\ Lost(ok)
    /\ LET t == Head(asking[w].todo)
       IN  clients' = [clients EXCEPT ![Client(w)][Cache(w)][t] = IF ok THEN "sid" ELSE "miss",
                                      ![Client(w)].listed = @ \/ (ok /\ t[2] = "node")]
    /\ IF ok THEN Goes(w, "path") ELSE Stands(w, Skip(asking[w]))
    /\ UNCHANGED <<directory, enricher, answers>>

\* The list that names the node is still cached.
ResolveFromList(w) ==
    /\ asking[w].at = "resolve"
    /\ Serves
    /\ LET t == Head(asking[w].todo)
       IN  /\ t[2] = "node" /\ clients[Client(w)].listed
           /\ clients' = [clients EXCEPT ![Client(w)][Cache(w)][t] = "sid"]
    /\ Goes(w, "path")
    /\ UNCHANGED <<directory, enricher, job, answers>>

\* Mutant: the first path ends the account.
HitEnds(w) ==
    LET a == asking[w]
        t == Head(a.todo)
    IN  [a EXCEPT !.at = "look", !.todo = <<>>, !.deep = FALSE, !.tier0 = @ \/ w = 0,
                  !.da = IF t[2] = "da" THEN @ \cup {t[1]} ELSE @]

\* What a path to the target at hand means: the domain is one with a path to
\* Domain Admins; for the sweep the account controls Tier-0, and after another
\* anchor than Domain Admins it is over.
Hit(w) ==
    LET a == asking[w]
        t == Head(a.todo)
    IN  IF t[2] = "da"
        THEN Skip([a EXCEPT !.da = @ \cup {t[1]}, !.tier0 = @ \/ w = 0])
        ELSE [a EXCEPT !.at = "look", !.todo = <<>>, !.tier0 = TRUE]

\* Mutant: what is not known to be without a path has one.
PathUnknown(w, ok) ==
    /\ asking[w].at = "path"
    /\ Replied(ok)
    /\ Lost(ok)
    /\ Stands(w, IF ok /\ Head(asking[w].todo) \notin directory[Who(w)].reach THEN Skip(asking[w])
                  ELSE Hit(w))
    /\ UNCHANGED <<directory, clients, enricher, answers>>

\* GetShortestPath, which is not repeated; no answer is no path.
Path(w, ok) ==
    /\ asking[w].at = "path"
    /\ Replied(ok)
    /\ Lost(ok)
    /\ Stands(w, IF ok /\ Head(asking[w].todo) \in directory[Who(w)].reach THEN Hit(w)
                  ELSE Skip(asking[w]))
    /\ UNCHANGED <<directory, clients, enricher, answers>>

\* A worker answers for the account; the sweep corrects the baseline.
Give(w) ==
    /\ Serves
    /\ asking[w].at = "look"
    /\ asking[w].todo = <<>>
    /\ LET a == asking[w]
           e == answers[Who(w)]
       IN  answers' = [answers EXCEPT ![Who(w)] =
            IF w = 0
            THEN [e EXCEPT !.controlled = a.total, !.da = @ \cup a.da, !.tier0 = @ \/ a.tier0]
            ELSE [covered |-> TRUE, enabled |-> IF directory[Who(w)].enabled THEN "yes" ELSE "no",
                  da |-> a.da, controlled |-> a.total, tier0 |-> a.tier0]]
    /\ Stands(w, AtRest)
    /\ UNCHANGED <<directory, clients, enricher, job>>

FinishEnrich ==
    /\ Serves
    /\ job.at \in {"sweep", "pool"}
    /\ job.left = {}
    /\ \A w \in Askers : asking[w] = AtRest
    /\ job' = [job EXCEPT !.at = "done"]
    /\ UNCHANGED <<directory, clients, enricher, asking, answers>>

Inquire(w) ==
    \/ Take(w) \/ Look(w) \/ ResolveFromList(w) \/ Give(w)
    \/ \E ok \in BOOLEAN :
        Domains(w, ok) \/ Search(w, ok) \/ UserProps(w, ok) \/ ResolveSID(w, ok) \/ Path(w, ok)
    \/ \E ok, refused \in BOOLEAN : Controllables(w, ok, refused)

BloodHoundNext ==
    \/ StartEnrich \/ Reconfigure \/ Build \/ FinishEnrich
    \/ \E ok \in BOOLEAN : FetchAllUserProps(ok) \/ Fetch(ok) \/ ListDomains(ok)
    \/ \E w \in Askers : Inquire(w)

\* The process starts again, without a job and with a client of its own.
BloodHoundBoot ==
    /\ clients' = <<NewClient>> /\ enricher' = 1
    /\ job' = NoJob
    /\ asking' = [w \in Askers |-> AtRest]
    /\ answers' = [p \in People |-> NoData]
    /\ UNCHANGED directory

BloodHoundSpec == ProcessInit /\ BloodHoundInit /\ [][BloodHoundNext]_<<process, bloodHoundVars>>

-----------------------------------------------------------------------------
(* Properties.                                                             *)

BloodHoundTypeOK ==
    /\ directory \in [People -> Person]
    /\ enricher \in DOMAIN clients
    /\ \A c \in DOMAIN clients :
        /\ clients[c].listed \in BOOLEAN
        /\ {clients[c].daGroups, clients[c].anchorSIDs} \subseteq [Targets -> Cached]
    /\ {job.own, job.bulk} \subseteq DOMAIN clients \cup {0}
    /\ job.left \subseteq People
    /\ \A w \in Askers :
        /\ asking[w].todo \in Seq(Targets)
        /\ asking[w].of \subseteq People /\ (asking[w] # AtRest => Cardinality(asking[w].of) = 1)
    /\ answers \in [People -> Enriched]

\* Whatever fails, is cached as missing or is reconfigured in the middle of a
\* job, no account is made out to be more than it is: it is covered only if
\* BloodHound has it, and no path, no Tier-0 control and no number of controlled
\* objects is claimed that is not there (engine.go: a miss "lowers Impact, never
\* falsely inflates").
NeverInflates ==
    \A p \in People :
        LET e == answers[p]
            truth == directory[p]
        IN  /\ e.covered => truth.found
            /\ e.da \subseteq DADomains(truth.reach)
            /\ e.tier0 => truth.control \/ truth.reach # {}
            /\ e.controlled <= truth.total

\* What an enrichment should say of p, with a baseline or without.
Expected(p, pooled) ==
    LET truth == directory[p]
        swept == truth.candidate /\ truth.total > 0
    IN  IF pooled /\ ~truth.found THEN NoData
        ELSE [covered |-> truth.found,
              enabled |-> IF truth.enabled THEN "yes" ELSE "no",
              da |-> IF pooled \/ swept THEN DADomains(truth.reach) ELSE truth.members,
              controlled |-> IF pooled \/ swept THEN truth.total ELSE truth.direct,
              tier0 |-> \/ truth.control
                        \/ ~pooled /\ swept /\ DADomains(truth.reach) # {}
                        \/ ~pooled /\ swept /\ truth.reach # {} /\ truth.total >= SweepMin]

NoMissCached(c, cache) == \A t \in Targets : clients[c][cache][t] # "miss"

\* A job none of whose calls failed says of everybody what it should, whatever
\* failed in the jobs before it, whatever was reconfigured meanwhile and however
\* the workers met in the caches; unless the client it uses still holds a miss
\* that an earlier failure left (setAnchorSID, setDAGroup).
Untroubled ==
    /\ job.at = "done" /\ ~job.lost
    /\ IF job.pooled THEN NoMissCached(job.own, "daGroups") ELSE NoMissCached(job.bulk, "anchorSIDs")
    => \A p \in People : answers[p] = Expected(p, job.pooled)

\* "a 'disabled' flag fires only on an explicit disabled signal -- not on absent
\* data" (enabledOrUnknown).
AbsentNotDisabled ==
    job.at = "done" => \A p \in People : ~directory[p].found => answers[p].enabled # "no"

=============================================================================

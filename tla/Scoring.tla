------------------------------ MODULE Scoring ------------------------------
(***************************************************************************)
(* The accounts of an audit: what the engine makes of dumps, cracks and    *)
(* BloodHound's answers, and what the store's passes make of the whole.    *)
(* Each write is one step; their concurrency is the subject of Store and   *)
(* Jobs.                                                                   *)
(***************************************************************************)
EXTENDS Process, Dataset

CONSTANTS
    Accounts,           \* pairs <<user, domain>>
    Hashes,
    Secrets,            \* Secrets[h]: the analysis of the password that h is the hash of
    Alike,              \* Alike[<<g, h>>]: the similarity of two passwords, in percent
    Seen,               \* Seen[h]: the breaches that the corpus has h in
    RiskOf,             \* RiskOf[d]: DomainRiskLevel
    Dumps,              \* the accounts of a domain, each with its hash, and whether cracked
    CrackFiles,         \* sets of hashes
    Graphs,             \* what BloodHound may answer, for each account
    UserExports         \* what a BloodHound users export may say, for some accounts

Domain(a) == a[2]

Enrichment == [covered : BOOLEAN, da : BOOLEAN, tier0 : BOOLEAN, controlled : Nat,
               enabled : BOOLEAN, spn : BOOLEAN, preauth : BOOLEAN, age : Int]

ASSUME ScoringAssumption ==
    /\ IsFiniteSet(Accounts) /\ Accounts \subseteq STRING \X STRING
    /\ Secrets \in [Hashes -> Analysis]
    /\ Seen \in [Hashes -> Nat]
    /\ Alike \in [Hashes \X Hashes -> Nat]
    /\ RiskOf \in [{Domain(a) : a \in Accounts} -> Levels]
    /\ Graphs \subseteq [Accounts -> Enrichment]
    /\ CrackFiles \subseteq SUBSET (Hashes \ {EmptyHash})
    /\ \A d \in Dumps :
        /\ DOMAIN d \subseteq Accounts
        /\ \A a \in DOMAIN d : d[a].hash \in Hashes /\ d[a].cracked \in BOOLEAN
        /\ \A a \in DOMAIN d : d[a].cracked => d[a].hash # EmptyHash
    /\ \A x \in UserExports :
        /\ DOMAIN x \subseteq Accounts
        /\ x \in [DOMAIN x -> [enabled : SUBSET BOOLEAN, age : Int, controlled : Int,
                                spn : BOOLEAN, preauth : BOOLEAN]]

VARIABLES
    dataset,    \* the accounts, a function from a subset of Accounts
    settled     \* ghost: the last write scored every account

scoringVars == <<dataset, settled>>

ScoringInit == dataset = <<>> /\ settled = TRUE

-----------------------------------------------------------------------------
(* engine.processDomainWith, domain by domain.                             *)

\* The accounts of a's domain in s.
Fellows(s, a) == {b \in DOMAIN s : Domain(b) = Domain(a)}

\* The cracked are compared by password, the uncracked by hash.
SharedInDomain(s, a) ==
    Cardinality({b \in Fellows(s, a) : s[b].cracked = s[a].cracked /\ s[b].hash = s[a].hash}) - 1

\* Similar: the best score, over 70, of another password cracked in the domain.
SimilarMax(s, a) ==
    LET others == {Alike[<<s[a].hash, s[b].hash>>] :
                      b \in {b \in Fellows(s, a) : s[b].cracked /\ s[b].hash # s[a].hash}}
        close == {x \in others : x >= 70}
    IN  IF close = {} THEN 0 ELSE CHOOSE x \in close : \A y \in close : x >= y

ScoreCracked(s, a, bh, count) ==
    Score(TRUE, Secrets[s[a].hash], SimilarMax(s, a), count, SharedInDomain(s, a), bh,
          RiskOf[Domain(a)])

\* Nothing is known of the password.
NoAnalysis == [length |-> 0, complexity |-> 100, common |-> FALSE, dictionary |-> FALSE,
               banned |-> 0, keyboard |-> 0]

ScoreUncracked(s, a, bh, count) ==
    Score(FALSE, NoAnalysis, 0, count, SharedInDomain(s, a), bh, RiskOf[Domain(a)])

\* freshHIBP.  Unless the corpus answers, what is stored about the hash stays.
Breaches(x, answers) == IF answers THEN Seen[x.hash] ELSE x.breached

Scored(s, a, bh, answers) ==
    LET count == Breaches(s[a], answers)
        r == IF s[a].cracked THEN ScoreCracked(s, a, bh, count) ELSE ScoreUncracked(s, a, bh, count)
    IN  [hash |-> s[a].hash, cracked |-> s[a].cracked, breached |-> count, bh |-> bh,
         shared |-> SharedInDomain(s, a),
         exposure |-> r.exposure, impact |-> r.impact, score |-> r.score, level |-> r.level,
         sharedDA |-> FALSE, massReuse |-> FALSE, percentile |-> 0]

\* Without an enricher.
NotCovered == [covered |-> FALSE, da |-> FALSE, tier0 |-> FALSE, controlled |-> 0,
               enabled |-> TRUE, spn |-> FALSE, preauth |-> FALSE, age |-> -1]

RescoreWith(s, enricher, answers) == [a \in DOMAIN s |-> Scored(s, a, enricher[a], answers)]
Unenriched == [a \in Accounts |-> NotCovered]

-----------------------------------------------------------------------------
(* The writes.                                                             *)

KeptWithout(domain) == {a \in DOMAIN dataset : Domain(a) # domain}

\* handleUploadAudit: one domain's dump, processed without an enricher.
Parsed(d) == [a \in DOMAIN d |-> [hash |-> d[a].hash, cracked |-> d[a].cracked, breached |-> 0]]

\* Mutant: the passes see the uploaded domain only.
ReplaceDomainAlone(domain, new) ==
    LET kept == KeptWithout(domain)
        passed == Passes(new)
    IN  /\ dataset' = [a \in kept \cup DOMAIN new |->
                            IF a \in DOMAIN new THEN passed[a] ELSE dataset[a]]
        /\ settled' = (kept = {})

ReplaceDomain(domain, new) ==
    LET kept == KeptWithout(domain)
    IN  /\ dataset' = Passes([a \in kept \cup DOMAIN new |->
                                  IF a \in DOMAIN new THEN new[a] ELSE dataset[a]])
        /\ settled' = (kept = {})

Upload ==
    /\ Takes({"data"})
    /\ \E d \in Dumps, answers \in BOOLEAN, domain \in {Domain(a) : a \in Accounts} :
        /\ \A a \in DOMAIN d : Domain(a) = domain
        /\ ReplaceDomain(domain, RescoreWith(Parsed(d), Unenriched, answers))

DeleteDomain ==
    /\ Takes({"data"})
    /\ \E domain \in {Domain(a) : a \in DOMAIN dataset} : ReplaceDomain(domain, <<>>)

Rewrite(s, enricher) ==
    /\ \E answers \in BOOLEAN : dataset' = Passes(RescoreWith(s, enricher, answers))
    /\ settled' = TRUE

\* handleApplyCracks: by hash, in every domain; scored without an enricher, so
\* that what BloodHound has said is gone until the next enrichment.
ApplyCracks ==
    /\ Takes({"data"})
    /\ \E file \in CrackFiles :
        Rewrite([a \in DOMAIN dataset |->
                    [dataset[a] EXCEPT !.cracked = @ \/ dataset[a].hash \in file]], Unenriched)

Enrich ==
    /\ Takes({"data"})
    /\ \E graph \in Graphs : Rewrite(dataset, graph)

\* StoredEnricher.
Stored == [a \in DOMAIN dataset |-> dataset[a].bh]

\* Mutant: the scores are renewed in the accounts as they are.
RescoreInPlace ==
    /\ Takes({"data"})
    /\ \E answers \in BOOLEAN :
        LET new == RescoreWith(dataset, Stored, answers)
        IN  dataset' = Passes([a \in DOMAIN dataset |->
                [new[a] EXCEPT !.sharedDA = dataset[a].sharedDA, !.massReuse = dataset[a].massReuse]])
    /\ settled' = TRUE

Rescore == Takes({"data"}) /\ Rewrite(dataset, Stored)

\* handleUploadBHEUsers: properties that an export x gives; no score is renewed.
WithExport(e, x) ==
    [e EXCEPT !.enabled = IF x.enabled = {} THEN e.enabled ELSE TRUE \in x.enabled,
              !.age = IF x.age > 0 THEN x.age ELSE e.age,
              !.controlled = IF x.controlled > 0 THEN x.controlled ELSE e.controlled,
              !.spn = x.spn,
              !.preauth = x.preauth]

UploadBHEUsers ==
    /\ Takes({"data"})
    /\ \E x \in UserExports :
        dataset' = Passes([a \in DOMAIN dataset |->
            IF a \in DOMAIN x THEN [dataset[a] EXCEPT !.bh = WithExport(dataset[a].bh, x[a])]
            ELSE dataset[a]])
    /\ settled' = FALSE

ScoringNext ==
    \/ Upload \/ DeleteDomain \/ ApplyCracks \/ Enrich \/ Rescore \/ UploadBHEUsers

ScoringSpec == ProcessInit /\ ScoringInit /\ [][ScoringNext]_<<process, scoringVars>>

-----------------------------------------------------------------------------
(* Properties.                                                             *)

Scores == 0..Full
Impacts == NoImpact..Full
Rated == [hash : Hashes, cracked : BOOLEAN, breached : Nat, bh : Enrichment, shared : Int,
          exposure : Scores, impact : Impacts, score : Scores, level : Levels,
          sharedDA : BOOLEAN, massReuse : BOOLEAN, percentile : Nat]

ScoringTypeOK ==
    /\ DOMAIN dataset \subseteq Accounts
    /\ dataset \in [DOMAIN dataset -> Rated]
    /\ settled \in BOOLEAN

\* The percentile never contradicts the level: who ranks higher by level, and
\* within a level by exposure and impact, has the higher percentile, whatever the
\* passes did to the levels of whole clusters before.
PercentileAgrees ==
    \A a, b \in DOMAIN dataset :
        dataset[a].percentile < dataset[b].percentile <=> TriageLess(dataset[a], dataset[b])

\* Reuse of a password escalates across domains and in whatever order dumps,
\* cracks and BloodHound's answers come and domains go: whoever has the password
\* of an account with a path to Domain Admin is Critical with full impact, a
\* cracked account with a path is Critical, and the members of a large cracked
\* cluster are at the cluster's level.
ReuseEscalates ==
    \A a \in DOMAIN dataset :
        /\ PeerCounts(dataset, a).da > 0 /\ ~dataset[a].bh.da
               => dataset[a].level = "Critical" /\ dataset[a].impact = Full /\ dataset[a].sharedDA
        /\ dataset[a].cracked /\ dataset[a].bh.da => dataset[a].level = "Critical"
        /\ LevelRank(dataset[a].level) >= LevelRank(MassTarget(dataset, a))

\* A write that scores every account leaves no escalation that the audit as it
\* then is gives no cause for, whatever was escalated before: the level is the
\* worst of the account's own, of what its peers with a path to Domain Admin and
\* of what a large cluster make of it.  (After a domain is replaced or deleted
\* the accounts kept may still be escalated for one that is gone.)
EscalationsCurrent ==
    settled => \A a \in DOMAIN dataset :
        LET x == dataset[a]
            own == ImpactScore(x.bh, RiskOf[Domain(a)])
            level == LevelFromAxes(x.exposure, IF own = NoImpact THEN own ELSE Round1(own),
                                   x.cracked /\ x.bh.da)
        IN  /\ x.sharedDA <=> ~x.bh.da /\ PeerCounts(dataset, a).da > 0
            /\ x.massReuse <=> MassTarget(dataset, a) # "Low"
            /\ x.level = IF x.sharedDA THEN "Critical"
                         ELSE MoreSevereLevel(level, MassTarget(dataset, a))

\* Kerberos exposure alone, of an account that is not cracked, breached, shared
\* or old, makes no account Critical.
RoastableNotCritical ==
    settled => \A a \in DOMAIN dataset :
        LET x == dataset[a]
        IN  ~x.cracked /\ x.breached = 0 /\ x.shared = 0 /\ x.bh.age < 365 => x.level # "Critical"

=============================================================================

------------------------------ MODULE Dataset ------------------------------
(***************************************************************************)
(* The passes over a whole audit (internal/model) that the store applies   *)
(* on every write, and what is reported of its accounts.                   *)
(*                                                                         *)
(* s is an audit: a function from its accounts to their records.  A hash   *)
(* stands for the password it is the unsalted hash of.                     *)
(***************************************************************************)
EXTENDS Risk, FiniteSets

CONSTANTS
    EmptyHash,          \* the hash of the empty password
    MassHighN,          \* massReuseHighN ... : the sizes and, in percent of
    MassMediumN,        \* the audit, the shares that make a cluster large
    MassHighPct,
    MassMediumPct,
    MassMinCluster

\* reuseKey: no key for an empty password.
Keyed(x) == x.hash # EmptyHash
SameKey(x, y) == Keyed(x) /\ x.hash = y.hash

Cluster(s, x) == {b \in DOMAIN s : SameKey(x, s[b])}

RecomputeSharing(s) ==
    [a \in DOMAIN s |->
        [s[a] EXCEPT !.shared = IF Keyed(s[a]) THEN Cardinality(Cluster(s, s[a])) - 1 ELSE 0]]

-----------------------------------------------------------------------------
(* Escalations.                                                            *)

LevelRank(l) == CASE l = "Critical" -> 4 [] l = "High" -> 3 [] l = "Medium" -> 2 [] OTHER -> 1
MoreSevereLevel(l, m) == IF LevelRank(m) > LevelRank(l) THEN m ELSE l
LevelFloorScore(l) == CASE l = "High" -> 600 [] l = "Medium" -> 400 [] OTHER -> 0

\* An account without a path of its own to Domain Admin has the password of one with.
SharesWithDA(s, a) == ~s[a].bh.da /\ \E b \in Cluster(s, s[a]) : s[b].bh.da

EscalateSharedWithDA(s) ==
    [a \in DOMAIN s |->
        IF SharesWithDA(s, a)
        THEN [s[a] EXCEPT !.level = "Critical", !.score = Greatest(s[a].score, 900),
                          !.impact = Full, !.sharedDA = TRUE]
        ELSE s[a]]

\* massReuseTarget; "Low" is none.
MassReuseTarget(n, total) ==
    IF n >= MassHighN \/ (n >= MassMinCluster /\ 100 * n >= MassHighPct * total) THEN "High"
    ELSE IF n >= MassMediumN \/ (n >= MassMinCluster /\ 100 * n >= MassMediumPct * total) THEN "Medium"
    ELSE "Low"

MassTarget(s, a) ==
    IF s[a].cracked /\ Keyed(s[a])
    THEN MassReuseTarget(Cardinality({b \in Cluster(s, s[a]) : s[b].cracked}), Cardinality(DOMAIN s))
    ELSE "Low"

EscalateLargeCrackedReuse(s) ==
    [a \in DOMAIN s |->
        IF MassTarget(s, a) # "Low"
        THEN [s[a] EXCEPT !.level = MoreSevereLevel(s[a].level, MassTarget(s, a)),
                          !.score = Greatest(s[a].score, LevelFloorScore(MassTarget(s, a))),
                          !.massReuse = TRUE]
        ELSE s[a]]

-----------------------------------------------------------------------------
(* The triage rank.                                                        *)

TriageScalar(x) == IF x.impact = NoImpact THEN 10 * x.exposure ELSE 4 * x.exposure + 6 * x.impact

TriageLess(x, y) ==
    \/ LevelRank(x.level) < LevelRank(y.level)
    \/ LevelRank(x.level) = LevelRank(y.level) /\ TriageScalar(x) < TriageScalar(y)

\* The percentile, times the number of the other accounts.
ComputePercentiles(s) ==
    [a \in DOMAIN s |->
        [s[a] EXCEPT !.percentile = Cardinality({b \in DOMAIN s : TriageLess(s[b], s[a])})]]

\* Mutant: the rank is taken before the escalations.
PassesRankFirst(s) ==
    EscalateLargeCrackedReuse(EscalateSharedWithDA(ComputePercentiles(RecomputeSharing(s))))

\* What ReplaceDomain, Replace and Mutate do with the accounts they are given.
Passes(s) == ComputePercentiles(EscalateLargeCrackedReuse(EscalateSharedWithDA(RecomputeSharing(s))))

-----------------------------------------------------------------------------
(* What is shown.                                                          *)

\* ReuseGroupPeers: the other accounts with the password of a, DA paths first,
\* here only how many there are of each sort.
Peers(s, a) == IF Keyed(s[a]) THEN Cluster(s, s[a]) \ {a} ELSE {}
PeerCounts(s, a) == [total   |-> Cardinality(Peers(s, a)),
                     cracked |-> Cardinality({b \in Peers(s, a) : s[b].cracked}),
                     da      |-> Cardinality({b \in Peers(s, a) : s[b].bh.da})]

=============================================================================

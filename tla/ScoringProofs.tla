--------------------------- MODULE ScoringProofs ---------------------------
(***************************************************************************)
(* Proofs about Scoring, for every set of accounts, hashes, dumps, crack   *)
(* files and answers of BloodHound, and whatever sizes make a cluster      *)
(* large: types and bounds of the scores, and that after every write the   *)
(* percentiles agree with the levels, reuse has escalated, and no          *)
(* escalation is without a cause.                                          *)
(***************************************************************************)
EXTENDS Scoring, FiniteSetTheorems, WellFoundedInduction, TLAPS

-----------------------------------------------------------------------------
(* Risk: every score is within its bounds.                                 *)

\* A set of indices has a least one.
LEMMA LeastIndex ==
    ASSUME NEW n \in Nat, NEW I \in SUBSET (1..n), I # {}
    PROVE  \E i \in I : \A j \in I : i <= j
<1> DEFINE upTo(i) == {j \in I : j <= i}
           T == {upTo(i) : i \in I}
<1>1. IsFiniteSet(1..n)
  BY FS_Interval
<1>2. IsWellFoundedOn(StrictSubsetOrdering(1..n), SUBSET (1..n))
  BY <1>1, FS_StrictSubsetOrderingWellFounded, FS_FiniteSubsetsOfFinite
<1>3. T \subseteq SUBSET (1..n) /\ T # {}
  OBVIOUS
<1>4. PICK t \in T : \A u \in T : ~ (<<u, t>> \in StrictSubsetOrdering(1..n))
  <2> HIDE DEF T
  <2> QED
    BY <1>2, <1>3, WFMin
<1>5. PICK i \in I : t = upTo(i)
  OBVIOUS
<1>6. ASSUME NEW j \in I, ~(i <= j) PROVE FALSE
  <2>0. I \subseteq Int /\ j < i
    BY <1>6
  <2>1. upTo(j) \subseteq upTo(i) /\ i \in upTo(i) /\ i \notin upTo(j)
    <3>1. \A k \in I : k <= j => k <= i
      BY <2>0
    <3>2. i \in I /\ i <= i /\ ~(i <= j)
      BY <1>6, <2>0
    <3> QED
      BY <3>1, <3>2, Zenon
  <2>2. upTo(i) \in SUBSET (1..n) /\ upTo(j) \in SUBSET (1..n)
    OBVIOUS
  <2>3. <<upTo(j), t>> \in StrictSubsetOrdering(1..n)
    BY <1>5, <2>1, <2>2 DEF StrictSubsetOrdering
  <2>4. upTo(j) \in T
    BY Zenon
  <2> QED
    BY <1>4, <2>3, <2>4
<1>7. \A j \in I : i <= j
  BY <1>6
<1> QED
  BY <1>7

\* A table yields one of its values, or 0.
LEMMA StepIn ==
    ASSUME NEW bound \in Nat, NEW n \in Nat, NEW table, NEW x,
           DOMAIN table = 1..n, \A i \in 1..n : table[i][2] \in 0..bound
    PROVE  Step(table, x) \in 0..bound
<1> DEFINE reached == {i \in DOMAIN table : x >= table[i][1]}
<1>1. CASE reached = {}
  BY <1>1 DEF Step
<1>2. CASE reached # {}
  <2>1. reached \in SUBSET (1..n)
    OBVIOUS
  <2>2. PICK i \in reached : \A j \in reached : i <= j
    <3> HIDE DEF reached
    <3> QED
      BY <1>2, <2>1, LeastIndex
  <2> DEFINE k == CHOOSE i_1 \in reached : \A j \in reached : i_1 <= j
  <2>3. k \in reached
    BY <2>2
  <2>4. table[k][2] \in 0..bound
    BY <2>3
  <2> QED
    BY <1>2, <2>4 DEF Step
<1> QED
  BY <1>1, <1>2

\* The tables of penalties, floors and bumps.
LEMMA Tables ==
    ASSUME NEW x, NEW e \in Enrichment
    PROVE  /\ LengthPenalty(x) \in 0..100
           /\ SimPenalty(x) \in 0..100
           /\ HibpExposureFloor(x) \in 0..Full
           /\ ReuseFloor(x) \in 0..Full
           /\ ReuseBump(x) \in 0..Full
           /\ AgeBump(x) \in 0..Full
           /\ PrivilegeSubScore(e) \in 0..Full
<1>0. Full \in Nat
  BY DEF Full
<1>1. LengthPenalty(x) \in 0..100
  <2> DEFINE t == << <<20, 1>>, <<16, 5>>, <<14, 12>>, <<12, 27>>, <<10, 50>>,
                     <<8, 73>>, <<6, 88>>, <<4, 95>>, <<1, 99>> >>
  <2>1. DOMAIN t = 1..9 /\ \A i \in 1..9 : t[i][2] \in 0..100
    OBVIOUS
  <2>2. Step(t, x) \in 0..100
    <3> HIDE DEF t
    <3> QED
      BY <2>1, StepIn
  <2> QED
    BY <2>2 DEF LengthPenalty
<1>2. SimPenalty(x) \in 0..100
  <2> DEFINE t == << <<90, 100>>, <<80, 67>>, <<70, 33>> >>
  <2>1. DOMAIN t = 1..3 /\ \A i \in 1..3 : t[i][2] \in 0..100
    OBVIOUS
  <2>2. Step(t, x) \in 0..100
    <3> HIDE DEF t
    <3> QED
      BY <2>1, StepIn
  <2> QED
    BY <2>2 DEF SimPenalty
<1>3. HibpExposureFloor(x) \in 0..Full
  <2> DEFINE t == << <<1000000, 900>>, <<100000, 850>>, <<10000, 800>>, <<1000, 700>>,
                     <<100, 600>>, <<10, 500>>, <<1, 450>> >>
  <2>1. DOMAIN t = 1..7 /\ \A i \in 1..7 : t[i][2] \in 0..Full
    BY DEF Full
  <2>2. Step(t, x) \in 0..Full
    <3> HIDE DEF t
    <3> QED
      BY <2>1, <1>0, StepIn
  <2> QED
    BY <2>2 DEF HibpExposureFloor
<1>4. ReuseFloor(x) \in 0..Full
  <2> DEFINE t == << <<1000, 500>>, <<100, 400>>, <<50, 300>> >>
  <2>1. DOMAIN t = 1..3 /\ \A i \in 1..3 : t[i][2] \in 0..Full
    BY DEF Full
  <2>2. Step(t, x) \in 0..Full
    <3> HIDE DEF t
    <3> QED
      BY <2>1, <1>0, StepIn
  <2> QED
    BY <2>2 DEF ReuseFloor
<1>5. ReuseBump(x) \in 0..Full
  <2> DEFINE t == << <<10, 100>>, <<2, 75>>, <<1, 50>> >>
  <2>1. DOMAIN t = 1..3 /\ \A i \in 1..3 : t[i][2] \in 0..Full
    BY DEF Full
  <2>2. Step(t, x) \in 0..Full
    <3> HIDE DEF t
    <3> QED
      BY <2>1, <1>0, StepIn
  <2> QED
    BY <2>2 DEF ReuseBump
<1>6. AgeBump(x) \in 0..Full
  <2> DEFINE t == << <<1825, 75>>, <<730, 50>>, <<365, 25>> >>
  <2>1. DOMAIN t = 1..3 /\ \A i \in 1..3 : t[i][2] \in 0..Full
    BY DEF Full
  <2>2. Step(t, x) \in 0..Full
    <3> HIDE DEF t
    <3> QED
      BY <2>1, <1>0, StepIn
  <2> QED
    BY <2>2 DEF AgeBump
<1>7. PrivilegeSubScore(e) \in 0..Full
  <2> DEFINE t == << <<1001, 900>>, <<501, 800>>, <<101, 700>>, <<51, 600>>, <<11, 500>>, <<1, 300>> >>
  <2>1. DOMAIN t = 1..6 /\ \A i \in 1..6 : t[i][2] \in 0..Full
    BY DEF Full
  <2>2. Step(t, e.controlled) \in 0..Full
    <3> HIDE DEF t
    <3> QED
      BY <2>1, <1>0, StepIn
  <2> QED
    BY <1>0, <2>2 DEF PrivilegeSubScore
<1> QED
  BY <1>1, <1>2, <1>3, <1>4, <1>5, <1>6, <1>7

\* Sums and weighted sums of them.
LEMMA ExposureIn ==
    ASSUME NEW c \in BOOLEAN, NEW p \in Analysis, NEW similar, NEW count, NEW shared,
           NEW e \in Enrichment
    PROVE  ExposureScore(c, p, similar, count, shared, e) \in 0..Full
<1> DEFINE weak == WeaknessScore(p, similar)
           password == IF c THEN Greatest(weak, CrackedFloor(p)) ELSE 0
           standing == Greatest(HibpExposureFloor(count),
                                Greatest(ReuseFloor(shared), RoastableFloor(e)))
<1>1. weak \in Nat
  <2>1. LengthPenalty(p.length) \in 0..100 /\ SimPenalty(similar) \in 0..100
    BY Tables
  <2>2. ComplexityPenalty(p) \in 0..100
    BY DEF ComplexityPenalty, Greatest, Least, Analysis
  <2>3. DictPenalty(p) \in 0..100
    <3> DEFINE words == (IF p.common THEN 70 ELSE 0) + (IF p.dictionary THEN 50 ELSE 0)
               parts == Least(80, 20 * p.banned) + Least(50, 10 * p.keyboard)
    <3>1. words \in Nat /\ parts \in Nat
      BY DEF Least, Analysis
    <3>2. DictPenalty(p) = Least(100, words + parts)
      BY DEF DictPenalty, Least, Analysis
    <3> HIDE DEF words, parts
    <3> QED
      BY <3>1, <3>2 DEF Least
  <2>4. \A i, j, k, l \in 0..100 : (30 * i + 20 * j + 35 * k + 15 * l) \div 10 \in Nat
    OBVIOUS
  <2> QED
    BY <2>1, <2>2, <2>3, <2>4 DEF WeaknessScore
<1>2. password \in Nat
  <2> HIDE DEF weak
  <2> QED
    BY <1>1 DEF Greatest, CrackedFloor
<1>3. standing \in Nat
  <2>1. HibpExposureFloor(count) \in Nat /\ ReuseFloor(shared) \in Nat
    BY Tables
  <2> QED
    BY <2>1 DEF Greatest, RoastableFloor
<1>4. RoastableBump(e) \in Nat /\ ReuseBump(shared) \in Nat /\ AgeBump(e.age) \in Nat
  BY Tables DEF RoastableBump
<1>5. \A i, j, k, l, m \in Nat : Least(Full, Greatest(i, j) + k + l + m) \in 0..Full
  BY DEF Least, Greatest, Full
<1>6. ExposureScore(c, p, similar, count, shared, e) =
          Least(Full, Greatest(password, standing)
                          + RoastableBump(e) + ReuseBump(shared) + AgeBump(e.age))
  BY DEF ExposureScore
<1> HIDE DEF password, standing
<1> QED
  BY <1>2, <1>3, <1>4, <1>5, <1>6

LEMMA ImpactIn ==
    ASSUME NEW e \in Enrichment, NEW r
    PROVE  ImpactScore(e, r) \in NoImpact..Full
<1>1. Greatest(PrivilegeSubScore(e), DaComponent(e)) \in 0..Full
  <2>1. PrivilegeSubScore(e) \in 0..Full
    BY Tables
  <2> QED
    BY <2>1 DEF Greatest, DaComponent, Full
<1>2. DomainFactor(r) \in {10, 11, 12, 13}
  BY DEF DomainFactor
<1>3. \A i \in 0..Full, f \in {10, 11, 12, 13} : Least(Full, (i * f) \div 10) \in 0..Full
  BY DEF Least, Full
<1>4. \A i \in 0..Full : Least(i, 200) \in 0..Full
  BY DEF Least, Full
<1> DEFINE full == Least(Full, (Greatest(PrivilegeSubScore(e), DaComponent(e)) * DomainFactor(r)) \div 10)
<1>5. full \in 0..Full
  BY <1>1, <1>2, <1>3
<1>6. ImpactScore(e, r) =
          IF ~e.covered THEN NoImpact ELSE IF e.enabled THEN full ELSE Least(full, 200)
  BY Zenon DEF ImpactScore
<1>7. \A x \in 0..Full : x \in NoImpact..Full /\ NoImpact \in NoImpact..Full
  BY DEF NoImpact, Full
<1> HIDE DEF full
<1> QED
  BY <1>4, <1>5, <1>6, <1>7

LEMMA RoundIn == \A x \in 0..Full : Round1(x) \in 0..Full
BY DEF Round1, Full

OwnImpact(e, r) == IF ImpactScore(e, r) = NoImpact THEN NoImpact ELSE Round1(ImpactScore(e, r))

\* The scores and the level of an account.
LEMMA ScoreIn ==
    ASSUME NEW c \in BOOLEAN, NEW p \in Analysis, NEW similar, NEW count, NEW shared,
           NEW e \in Enrichment, NEW r, NEW x, x = Score(c, p, similar, count, shared, e, r)
    PROVE  /\ x.exposure \in 0..Full /\ x.impact \in NoImpact..Full /\ x.score \in 0..Full
           /\ x.level \in Levels
           /\ x.level = LevelFromAxes(x.exposure, OwnImpact(e, r), c /\ e.da)
<1> DEFINE exposure == Round1(ExposureScore(c, p, similar, count, shared, e))
           raw == ImpactScore(e, r)
           impact == IF raw = NoImpact THEN NoImpact ELSE Round1(raw)
<1>1. exposure \in 0..Full
  BY ExposureIn, RoundIn
<1>2. impact \in NoImpact..Full
  <2>1. raw \in NoImpact..Full
    BY ImpactIn
  <2>2. raw = NoImpact \/ raw \in 0..Full
    BY <2>1 DEF NoImpact, Full
  <2>3. \A k \in 0..Full : k \in NoImpact..Full /\ NoImpact \in NoImpact..Full
    BY DEF NoImpact, Full
  <2>4. 0 \in 0..Full
    BY DEF Full
  <2> HIDE DEF raw
  <2> QED
    BY <2>2, <2>3, <2>4, RoundIn
<1>3. LevelFromAxes(exposure, impact, c /\ e.da) \in Levels
  <2> HIDE DEF exposure, impact
  <2>1. TierOf(exposure) \in 0..3 /\ TierOf(impact) \in 0..3
    BY DEF TierOf
  <2> QED
    BY <2>1 DEF LevelFromAxes, LevelMatrix, Levels
<1>4. (IF impact = NoImpact THEN exposure ELSE Round1((exposure + impact) \div 2)) \in 0..Full
  <2> HIDE DEF exposure, impact
  <2>1. \A i \in 0..Full, j \in NoImpact..Full \ {NoImpact} : (i + j) \div 2 \in 0..Full
    BY DEF NoImpact, Full
  <2> QED
    BY <1>1, <1>2, <2>1, RoundIn
<1> DEFINE score == IF impact = NoImpact THEN exposure ELSE Round1((exposure + impact) \div 2)
           level == LevelFromAxes(exposure, impact, c /\ e.da)
<1>5. /\ x.exposure = exposure /\ x.impact = impact /\ x.score = score /\ x.level = level
  BY Zenon DEF Score
<1>6. impact = OwnImpact(e, r)
  BY Zenon DEF OwnImpact
<1> HIDE DEF impact, exposure
<1> QED
  BY <1>1, <1>2, <1>3, <1>4, <1>5, <1>6

-----------------------------------------------------------------------------
(* Dataset: what the passes do to an audit.                                *)

Audit(s) == DOMAIN s \subseteq Accounts /\ s \in [DOMAIN s -> Rated]

\* What no pass changes, and all that the escalations look at.
Alike4(x, y) == x.hash = y.hash /\ x.cracked = y.cracked /\ x.bh = y.bh /\ x.exposure = y.exposure
Same(s, t) == DOMAIN t = DOMAIN s /\ \A a \in DOMAIN s : Alike4(s[a], t[a])

LEMMA MassReuseTargetIn == \A n, total : MassReuseTarget(n, total) \in {"High", "Medium", "Low"}
BY DEF MassReuseTarget

LEMMA LevelRankIn == \A l : LevelRank(l) \in 1..4
BY DEF LevelRank

LEMMA FiniteAudit ==
    ASSUME NEW s, DOMAIN s \subseteq Accounts
    PROVE  \A T \in SUBSET DOMAIN s : IsFiniteSet(T) /\ Cardinality(T) \in Nat
BY ScoringAssumption, FS_Subset, FS_CardinalityType

LEMMA SameCauses ==
    ASSUME NEW s, NEW t, Same(s, t), NEW a \in DOMAIN s
    PROVE  /\ Cluster(t, t[a]) = Cluster(s, s[a])
           /\ SharesWithDA(t, a) = SharesWithDA(s, a)
           /\ MassTarget(t, a) = MassTarget(s, a)
<1>1. Cluster(t, t[a]) = Cluster(s, s[a])
  BY DEF Same, Alike4, Cluster, SameKey, Keyed
<1>2. \A b \in Cluster(s, s[a]) : t[b].bh = s[b].bh /\ t[b].cracked = s[b].cracked
  BY DEF Same, Alike4, Cluster
<1>3. SharesWithDA(t, a) = SharesWithDA(s, a)
  BY <1>1, <1>2 DEF Same, Alike4, SharesWithDA
<1>4. {b \in Cluster(t, t[a]) : t[b].cracked} = {b \in Cluster(s, s[a]) : s[b].cracked}
  BY <1>1, <1>2
<1>5. t[a].cracked = s[a].cracked /\ Keyed(t[a]) = Keyed(s[a]) /\ DOMAIN t = DOMAIN s
  BY DEF Same, Alike4, Keyed
<1>6. MassTarget(t, a) = MassTarget(s, a)
  BY <1>4, <1>5 DEF MassTarget
<1> QED
  BY <1>1, <1>3, <1>6

\* What each pass writes into an account, and what it leaves of it.
ByDA(x, l, score, impact) ==
    [x EXCEPT !.level = l, !.score = score, !.impact = impact, !.sharedDA = TRUE]
WithShared(x, n) == [x EXCEPT !.shared = n]
WithPercentile(x, n) == [x EXCEPT !.percentile = n]
ByReuse(x, l, score) == [x EXCEPT !.level = l, !.score = score, !.massReuse = TRUE]

Becomes(x, y, l, impact, da, mass) ==
    /\ y \in Rated /\ Alike4(x, y)
    /\ y.level = l /\ y.impact = impact /\ y.sharedDA = da /\ y.massReuse = mass

LEMMA EscalatedByDA ==
    ASSUME NEW x \in Rated, NEW l \in Levels, NEW score \in Scores, NEW impact \in Impacts
    PROVE  Becomes(x, ByDA(x, l, score, impact), l, impact, TRUE, x.massReuse)
BY DEF Rated, Alike4, ByDA, Becomes

LEMMA EscalatedByReuse ==
    ASSUME NEW x \in Rated, NEW l \in Levels, NEW score \in Scores
    PROVE  Becomes(x, ByReuse(x, l, score), l, x.impact, x.sharedDA, TRUE)
BY DEF Rated, Alike4, ByReuse, Becomes

LEMMA WithSharedLeaves ==
    ASSUME NEW x \in Rated, NEW n \in Int
    PROVE  Becomes(x, WithShared(x, n), x.level, x.impact, x.sharedDA, x.massReuse)
BY DEF Rated, Alike4, WithShared, Becomes

LEMMA WithPercentileLeaves ==
    ASSUME NEW x \in Rated, NEW n \in Nat
    PROVE  /\ Becomes(x, WithPercentile(x, n), x.level, x.impact, x.sharedDA, x.massReuse)
           /\ WithPercentile(x, n).percentile = n
BY DEF Rated, Alike4, WithPercentile, Becomes

LEMMA SharingPass ==
    ASSUME NEW s, Audit(s), NEW t, t = RecomputeSharing(s)
    PROVE  /\ Audit(t) /\ Same(s, t)
           /\ \A a \in DOMAIN s :
                /\ t[a].level = s[a].level /\ t[a].sharedDA = s[a].sharedDA
                /\ t[a].massReuse = s[a].massReuse
<1> DEFINE n(a) == IF Keyed(s[a]) THEN Cardinality(Cluster(s, s[a])) - 1 ELSE 0
<1>1. \A a \in DOMAIN s : n(a) \in Int
  <2>1. \A a \in DOMAIN s : Cluster(s, s[a]) \in SUBSET DOMAIN s
    BY DEF Cluster
  <2> QED
    BY <2>1, FiniteAudit DEF Audit
<1>2. t = [a \in DOMAIN s |-> WithShared(s[a], n(a))]
  BY DEF RecomputeSharing, WithShared
<1> HIDE DEF n
<1>3. \A a \in DOMAIN s :
          s[a] \in Rated /\ Becomes(s[a], t[a], s[a].level, s[a].impact, s[a].sharedDA, s[a].massReuse)
  BY <1>1, <1>2, WithSharedLeaves DEF Audit
<1> QED
  BY <1>2, <1>3 DEF Audit, Same, Becomes

LEMMA SharedWithDAPass ==
    ASSUME NEW s, Audit(s), NEW t, t = EscalateSharedWithDA(s)
    PROVE  /\ Audit(t) /\ Same(s, t)
           /\ \A a \in DOMAIN s :
                /\ t[a].level = IF SharesWithDA(s, a) THEN "Critical" ELSE s[a].level
                /\ t[a].sharedDA = (s[a].sharedDA \/ SharesWithDA(s, a))
                /\ t[a].massReuse = s[a].massReuse
                /\ SharesWithDA(s, a) => t[a].impact = Full
<1>1. t = [a \in DOMAIN s |-> IF SharesWithDA(s, a)
                                THEN ByDA(s[a], "Critical", Greatest(s[a].score, 900), Full)
                                ELSE s[a]]
  BY DEF EscalateSharedWithDA, ByDA
<1>2. \A a \in DOMAIN s : SharesWithDA(s, a) =>
          t[a] = ByDA(s[a], "Critical", Greatest(s[a].score, 900), Full)
  BY <1>1
<1>3. \A a \in DOMAIN s : ~SharesWithDA(s, a) => t[a] = s[a]
  BY <1>1
<1>4. \A x \in Scores : Greatest(x, 900) \in Scores
  BY DEF Greatest, Full, Scores
<1>5. Full \in Impacts
  BY DEF NoImpact, Full, Impacts
<1>6. ASSUME NEW a \in DOMAIN s
      PROVE  /\ t[a] \in Rated /\ Alike4(s[a], t[a])
             /\ t[a].level = IF SharesWithDA(s, a) THEN "Critical" ELSE s[a].level
             /\ t[a].sharedDA = (s[a].sharedDA \/ SharesWithDA(s, a))
             /\ t[a].massReuse = s[a].massReuse
             /\ SharesWithDA(s, a) => t[a].impact = Full
  <2>1. s[a] \in Rated
    BY DEF Audit
  <2>2. CASE SharesWithDA(s, a)
    <3> DEFINE l == "Critical"
               score == Greatest(s[a].score, 900)
               impact == Full
    <3>1. l \in Levels /\ score \in Scores /\ impact \in Impacts /\ s[a].sharedDA \in BOOLEAN
      BY <1>4, <1>5, <2>1 DEF Rated, Levels
    <3>2. t[a] = ByDA(s[a], l, score, impact)
      BY <1>2, <2>2
    <3>3. Becomes(s[a], t[a], l, impact, TRUE, s[a].massReuse)
      <4> HIDE DEF l, score, impact
      <4> QED
        BY <2>1, <3>1, <3>2, EscalatedByDA
    <3> QED
      BY <2>2, <3>1, <3>3 DEF Becomes
  <2>3. CASE ~SharesWithDA(s, a)
    BY <1>3, <2>1, <2>3 DEF Rated, Alike4
  <2> QED
    BY <2>2, <2>3
<1> QED
  BY <1>1, <1>6 DEF Audit, Same

LEMMA ReusePass ==
    ASSUME NEW s, Audit(s), NEW t, t = EscalateLargeCrackedReuse(s)
    PROVE  /\ Audit(t) /\ Same(s, t)
           /\ \A a \in DOMAIN s :
                /\ t[a].level = MoreSevereLevel(s[a].level, MassTarget(s, a))
                /\ t[a].massReuse = (s[a].massReuse \/ MassTarget(s, a) # "Low")
                /\ t[a].sharedDA = s[a].sharedDA /\ t[a].impact = s[a].impact
<1>1. t = [a \in DOMAIN s |-> IF MassTarget(s, a) # "Low"
                                THEN ByReuse(s[a], MoreSevereLevel(s[a].level, MassTarget(s, a)),
                                             Greatest(s[a].score, LevelFloorScore(MassTarget(s, a))))
                                ELSE s[a]]
  BY DEF EscalateLargeCrackedReuse, ByReuse
<1>2. \A a \in DOMAIN s : MassTarget(s, a) # "Low" =>
          t[a] = ByReuse(s[a], MoreSevereLevel(s[a].level, MassTarget(s, a)),
                         Greatest(s[a].score, LevelFloorScore(MassTarget(s, a))))
  BY <1>1
<1>3. \A a \in DOMAIN s : MassTarget(s, a) = "Low" => t[a] = s[a]
  BY <1>1
<1>4. \A x \in Scores : \A l : Greatest(x, LevelFloorScore(l)) \in Scores
  BY DEF Greatest, LevelFloorScore, Full, Scores
<1>5. \A a \in DOMAIN s : MassTarget(s, a) \in {"High", "Medium", "Low"}
  BY MassReuseTargetIn DEF MassTarget
<1>6. \A l \in Levels : MoreSevereLevel(l, "Low") = l
  BY DEF MoreSevereLevel, LevelRank, Levels
<1>7. \A l \in Levels, m \in {"High", "Medium", "Low"} : MoreSevereLevel(l, m) \in Levels
  BY DEF MoreSevereLevel, Levels
<1>8. ASSUME NEW a \in DOMAIN s
      PROVE  /\ t[a] \in Rated /\ Alike4(s[a], t[a])
             /\ t[a].level = MoreSevereLevel(s[a].level, MassTarget(s, a))
             /\ t[a].massReuse = (s[a].massReuse \/ MassTarget(s, a) # "Low")
             /\ t[a].sharedDA = s[a].sharedDA /\ t[a].impact = s[a].impact
  <2>1. s[a] \in Rated
    BY DEF Audit
  <2>2. CASE MassTarget(s, a) # "Low"
    <3> DEFINE l == MoreSevereLevel(s[a].level, MassTarget(s, a))
               score == Greatest(s[a].score, LevelFloorScore(MassTarget(s, a)))
    <3>1. l \in Levels /\ score \in Scores /\ s[a].massReuse \in BOOLEAN
      BY <1>4, <1>5, <1>7, <2>1 DEF Rated
    <3>2. t[a] = ByReuse(s[a], l, score)
      BY <1>2, <2>2
    <3>3. Becomes(s[a], t[a], l, s[a].impact, s[a].sharedDA, TRUE)
      <4> HIDE DEF l, score
      <4> QED
        BY <2>1, <3>1, <3>2, EscalatedByReuse
    <3> QED
      BY <2>2, <3>1, <3>3 DEF Becomes
  <2>3. CASE MassTarget(s, a) = "Low"
    BY <1>3, <1>6, <2>1, <2>3 DEF Rated, Alike4
  <2> QED
    BY <2>2, <2>3
<1> QED
  BY <1>1, <1>8 DEF Audit, Same

\* The rank: an account's percentile counts those below it, and TriageLess is a
\* strict weak order.
LEMMA RankPass ==
    ASSUME NEW s, Audit(s), NEW t, t = ComputePercentiles(s)
    PROVE  /\ Audit(t) /\ Same(s, t)
           /\ \A a \in DOMAIN s :
                /\ t[a].level = s[a].level /\ t[a].massReuse = s[a].massReuse
                /\ t[a].sharedDA = s[a].sharedDA /\ t[a].impact = s[a].impact
           /\ \A a, b \in DOMAIN s : t[a].percentile < t[b].percentile <=> TriageLess(t[a], t[b])
<1> DEFINE below(a) == {b \in DOMAIN s : TriageLess(s[b], s[a])}
<1>1. \A a \in DOMAIN s : IsFiniteSet(below(a)) /\ Cardinality(below(a)) \in Nat
  <2>1. \A a \in DOMAIN s : below(a) \in SUBSET DOMAIN s
    OBVIOUS
  <2> HIDE DEF below
  <2> QED
    BY <2>1, FiniteAudit DEF Audit
<1>2. t = [a \in DOMAIN s |-> WithPercentile(s[a], Cardinality(below(a)))]
  BY DEF ComputePercentiles, WithPercentile
<1>3. ASSUME NEW a \in DOMAIN s
      PROVE  /\ t[a] \in Rated /\ Alike4(s[a], t[a])
             /\ t[a].level = s[a].level /\ t[a].massReuse = s[a].massReuse
             /\ t[a].sharedDA = s[a].sharedDA /\ t[a].impact = s[a].impact
             /\ t[a].percentile = Cardinality(below(a))
  <2> DEFINE n == Cardinality(below(a))
  <2>1. s[a] \in Rated /\ n \in Nat /\ t[a] = WithPercentile(s[a], n)
    BY <1>1, <1>2 DEF Audit
  <2> HIDE DEF n
  <2>2. Becomes(s[a], t[a], s[a].level, s[a].impact, s[a].sharedDA, s[a].massReuse) /\ t[a].percentile = n
    BY <2>1, WithPercentileLeaves
  <2> QED
    BY <2>2 DEF Becomes, n
<1>4. \A a, b \in DOMAIN s : TriageLess(t[a], t[b]) <=> TriageLess(s[a], s[b])
  <2> HIDE DEF below
  <2> QED
    BY <1>3 DEF TriageLess, TriageScalar, Alike4
<1> DEFINE rank(a) == LevelRank(s[a].level)
           scalar(a) == TriageScalar(s[a])
<1>5. \A a \in DOMAIN s : rank(a) \in Int /\ scalar(a) \in Int
  <2>1. \A a \in DOMAIN s : rank(a) \in Int
    BY LevelRankIn
  <2>2. \A a \in DOMAIN s : s[a].exposure \in Int /\ s[a].impact \in Int
    <3>1. Scores \subseteq Int /\ Impacts \subseteq Int
      BY DEF Scores, Impacts, Full, NoImpact
    <3>2. \A a \in DOMAIN s : s[a].exposure \in Scores /\ s[a].impact \in Impacts
      BY DEF Audit, Rated
    <3> QED
      BY <3>1, <3>2
  <2>3. \A a \in DOMAIN s : scalar(a) \in Int
    BY <2>2 DEF TriageScalar
  <2> QED
    BY <2>1, <2>3
<1>6. \A a, b \in DOMAIN s :
          TriageLess(s[a], s[b]) <=> rank(a) < rank(b) \/ (rank(a) = rank(b) /\ scalar(a) < scalar(b))
  BY DEF TriageLess
<1>7. ASSUME NEW a \in DOMAIN s, NEW b \in DOMAIN s, TriageLess(s[a], s[b])
      PROVE  Cardinality(below(a)) < Cardinality(below(b))
  <2>1. below(a) \subseteq below(b) /\ a \in below(b) /\ a \notin below(a)
    <3> HIDE DEF rank, scalar
    <3> QED
      BY <1>5, <1>6, <1>7
  <2> HIDE DEF below
  <2> QED
    BY <1>1, <2>1, FS_Subset
<1>8. ASSUME NEW a \in DOMAIN s, NEW b \in DOMAIN s, ~TriageLess(s[a], s[b])
      PROVE  ~ (Cardinality(below(a)) < Cardinality(below(b)))
  <2>1. below(b) \subseteq below(a)
    <3> HIDE DEF rank, scalar
    <3> QED
      BY <1>5, <1>6, <1>8
  <2> HIDE DEF below
  <2> QED
    BY <1>1, <2>1, FS_Subset
<1> HIDE DEF below, rank, scalar
<1>9. \A a, b \in DOMAIN s : t[a].percentile < t[b].percentile <=> TriageLess(t[a], t[b])
  BY <1>3, <1>4, <1>7, <1>8
<1> QED
  BY <1>2, <1>3, <1>9 DEF Audit, Same

\* All the passes: what they leave alone, whom they escalate, and that the rank
\* is of what comes out.
LEMMA PassesDo ==
    ASSUME NEW s, Audit(s), NEW t, t = Passes(s)
    PROVE  /\ Audit(t) /\ Same(s, t)
           /\ \A a \in DOMAIN s :
                /\ t[a].level = MoreSevereLevel(IF SharesWithDA(s, a) THEN "Critical" ELSE s[a].level,
                                                MassTarget(s, a))
                /\ t[a].sharedDA = (s[a].sharedDA \/ SharesWithDA(s, a))
                /\ t[a].massReuse = (s[a].massReuse \/ MassTarget(s, a) # "Low")
                /\ SharesWithDA(s, a) => t[a].impact = Full
           /\ \A a, b \in DOMAIN s : t[a].percentile < t[b].percentile <=> TriageLess(t[a], t[b])
<1> DEFINE u == RecomputeSharing(s)
           v == EscalateSharedWithDA(u)
           w == EscalateLargeCrackedReuse(v)
<1>1. t = ComputePercentiles(w)
  BY DEF Passes
<1>2. /\ Audit(u) /\ Same(s, u)
      /\ \A a \in DOMAIN s :
            /\ u[a].level = s[a].level /\ u[a].sharedDA = s[a].sharedDA
            /\ u[a].massReuse = s[a].massReuse
  BY SharingPass
<1> HIDE DEF u
<1>3. /\ Audit(v) /\ Same(u, v)
      /\ \A a \in DOMAIN u :
            /\ v[a].level = IF SharesWithDA(u, a) THEN "Critical" ELSE u[a].level
            /\ v[a].sharedDA = (u[a].sharedDA \/ SharesWithDA(u, a))
            /\ v[a].massReuse = u[a].massReuse
            /\ SharesWithDA(u, a) => v[a].impact = Full
  BY <1>2, SharedWithDAPass
<1> HIDE DEF v
<1>4. /\ Audit(w) /\ Same(v, w)
      /\ \A a \in DOMAIN v :
            /\ w[a].level = MoreSevereLevel(v[a].level, MassTarget(v, a))
            /\ w[a].massReuse = (v[a].massReuse \/ MassTarget(v, a) # "Low")
            /\ w[a].sharedDA = v[a].sharedDA /\ w[a].impact = v[a].impact
  BY <1>3, ReusePass
<1> HIDE DEF w
<1>5. /\ Audit(t) /\ Same(w, t)
      /\ \A a \in DOMAIN w :
            /\ t[a].level = w[a].level /\ t[a].massReuse = w[a].massReuse
            /\ t[a].sharedDA = w[a].sharedDA /\ t[a].impact = w[a].impact
      /\ \A a, b \in DOMAIN w : t[a].percentile < t[b].percentile <=> TriageLess(t[a], t[b])
  BY <1>1, <1>4, RankPass
<1>6. DOMAIN u = DOMAIN s /\ DOMAIN v = DOMAIN s /\ DOMAIN w = DOMAIN s
  BY <1>2, <1>3, <1>4 DEF Same
<1>7. Same(s, v) /\ Same(s, t)
  BY <1>2, <1>3, <1>4, <1>5 DEF Same, Alike4
<1>8. \A a \in DOMAIN s : SharesWithDA(u, a) = SharesWithDA(s, a) /\ MassTarget(v, a) = MassTarget(s, a)
  BY <1>2, <1>7, SameCauses
<1>9. ASSUME NEW a \in DOMAIN s
      PROVE  /\ t[a].level = MoreSevereLevel(IF SharesWithDA(s, a) THEN "Critical" ELSE s[a].level,
                                             MassTarget(s, a))
             /\ t[a].sharedDA = (s[a].sharedDA \/ SharesWithDA(s, a))
             /\ t[a].massReuse = (s[a].massReuse \/ MassTarget(s, a) # "Low")
             /\ SharesWithDA(s, a) => t[a].impact = Full
  BY <1>2, <1>3, <1>4, <1>5, <1>6, <1>8
<1> QED
  BY <1>5, <1>6, <1>7, <1>9

-----------------------------------------------------------------------------
(* Scoring: the audit that a write gives to the passes.                    *)

\* What scoring needs of an audit.
Scorable(s) ==
    /\ DOMAIN s \subseteq Accounts
    /\ \A a \in DOMAIN s : s[a].hash \in Hashes /\ s[a].cracked \in BOOLEAN /\ s[a].breached \in Nat

\* The level that an account has by itself.
OwnLevel(x, a) == LevelFromAxes(x.exposure, OwnImpact(x.bh, RiskOf[Domain(a)]), x.cracked /\ x.bh.da)

Unescalated(x, a) == ~x.sharedDA /\ ~x.massReuse /\ x.level = OwnLevel(x, a)
PathCritical(s) == \A a \in DOMAIN s : s[a].cracked /\ s[a].bh.da => s[a].level = "Critical"

LEMMA OwnLevelCritical == \A x, a : x.cracked /\ x.bh.da => OwnLevel(x, a) = "Critical"
BY DEF OwnLevel, LevelFromAxes

LEMMA NoAnalysisIn == NoAnalysis \in Analysis
BY DEF NoAnalysis, Analysis

\* An account that has been scored is within bounds and not escalated.
LEMMA ScoredIn ==
    ASSUME NEW s, Scorable(s), NEW a \in DOMAIN s, NEW bh \in Enrichment, NEW answers \in BOOLEAN,
           NEW y, y = Scored(s, a, bh, answers)
    PROVE  y \in Rated /\ Unescalated(y, a)
<1> DEFINE count == Breaches(s[a], answers)
           r == IF s[a].cracked THEN ScoreCracked(s, a, bh, count) ELSE ScoreUncracked(s, a, bh, count)
           n == SharedInDomain(s, a)
<1>1. s[a].hash \in Hashes /\ s[a].cracked \in BOOLEAN /\ s[a].breached \in Nat
  BY DEF Scorable
<1>2. count \in Nat
  BY <1>1, ScoringAssumption DEF Breaches
<1>3. n \in Int
  <2>1. {b \in Fellows(s, a) : s[b].cracked = s[a].cracked /\ s[b].hash = s[a].hash} \in SUBSET DOMAIN s
    BY DEF Fellows
  <2>2. DOMAIN s \subseteq Accounts
    BY DEF Scorable
  <2> QED
    BY <2>1, <2>2, FiniteAudit DEF SharedInDomain
<1>4. Secrets[s[a].hash] \in Analysis
  BY <1>1, ScoringAssumption
<1> HIDE DEF count
<1>5. /\ r.exposure \in 0..Full /\ r.impact \in NoImpact..Full /\ r.score \in 0..Full
      /\ r.level \in Levels
      /\ r.level = LevelFromAxes(r.exposure, OwnImpact(bh, RiskOf[Domain(a)]), s[a].cracked /\ bh.da)
  <2> DEFINE c == s[a].cracked
             p == IF c THEN Secrets[s[a].hash] ELSE NoAnalysis
             similar == IF c THEN SimilarMax(s, a) ELSE 0
             k == RiskOf[Domain(a)]
  <2>1. r = Score(c, p, similar, count, n, bh, k)
    <3>1. CASE c
      <4>1. r = Score(TRUE, Secrets[s[a].hash], SimilarMax(s, a), count, n, bh, k)
        BY <3>1, Zenon DEF ScoreCracked
      <4>2. c = TRUE /\ p = Secrets[s[a].hash] /\ similar = SimilarMax(s, a)
        BY <1>1, <3>1
      <4> HIDE DEF r, c, p, similar, k, n
      <4> QED
        BY <4>1, <4>2
    <3>2. CASE ~c
      <4>1. r = Score(FALSE, NoAnalysis, 0, count, n, bh, k)
        BY <3>2, Zenon DEF ScoreUncracked
      <4>2. c = FALSE /\ p = NoAnalysis /\ similar = 0
        BY <1>1, <3>2
      <4> HIDE DEF r, c, p, similar, k, n
      <4> QED
        BY <4>1, <4>2
    <3> QED
      BY <3>1, <3>2
  <2>2. c \in BOOLEAN /\ p \in Analysis
    BY <1>1, <1>4, NoAnalysisIn
  <2> HIDE DEF r, c, p, similar, k, n
  <2>3. /\ r.exposure \in 0..Full /\ r.impact \in NoImpact..Full /\ r.score \in 0..Full
        /\ r.level \in Levels
        /\ r.level = LevelFromAxes(r.exposure, OwnImpact(bh, k), c /\ bh.da)
    BY <2>1, <2>2, ScoreIn
  <2> QED
    BY <2>3 DEF c, k
<1>6. y = [hash |-> s[a].hash, cracked |-> s[a].cracked, breached |-> count, bh |-> bh, shared |-> n,
           exposure |-> r.exposure, impact |-> r.impact, score |-> r.score, level |-> r.level,
           sharedDA |-> FALSE, massReuse |-> FALSE, percentile |-> 0]
  BY Zenon DEF Scored, count
<1> HIDE DEF r, n
<1>7. y \in Rated
  BY <1>1, <1>2, <1>3, <1>5, <1>6 DEF Rated, Scores, Impacts
<1>8. ~y.sharedDA /\ ~y.massReuse
  BY <1>6
<1>9. y.level = r.level /\ y.exposure = r.exposure /\ y.bh = bh /\ y.cracked = s[a].cracked
  BY <1>6
<1>10. y.level = OwnLevel(y, a)
  BY <1>5, <1>9 DEF OwnLevel
<1> QED
  BY <1>7, <1>8, <1>10 DEF Unescalated

LEMMA RescoredIn ==
    ASSUME NEW s, Scorable(s), NEW enricher, \A a \in DOMAIN s : enricher[a] \in Enrichment,
           NEW answers \in BOOLEAN, NEW t, t = RescoreWith(s, enricher, answers)
    PROVE  /\ DOMAIN t = DOMAIN s /\ Audit(t)
           /\ \A a \in DOMAIN t : Unescalated(t[a], a)
<1>1. t = [a \in DOMAIN s |-> Scored(s, a, enricher[a], answers)]
  BY DEF RescoreWith
<1>2. \A a \in DOMAIN s : t[a] \in Rated /\ Unescalated(t[a], a)
  BY <1>1, ScoredIn
<1> QED
  BY <1>1, <1>2 DEF Audit, Scorable

-----------------------------------------------------------------------------
(* The invariant.  PathCritical, a part of ReuseEscalates, is what a write *)
(* that keeps accounts as they are needs of them.                          *)

ScoringInv == ScoringTypeOK /\ PercentileAgrees /\ ReuseEscalates /\ EscalationsCurrent

\* What a write gives to the passes comes out of them as the invariant says.
LEMMA PassedInv ==
    ASSUME NEW s, Audit(s), PathCritical(s), dataset' = Passes(s), settled' \in BOOLEAN,
           settled' => \A a \in DOMAIN s : Unescalated(s[a], a)
    PROVE  ScoringInv'
<1> DEFINE t == dataset'
<1>1. /\ Audit(t) /\ Same(s, t)
      /\ \A a \in DOMAIN s :
            /\ t[a].level = MoreSevereLevel(IF SharesWithDA(s, a) THEN "Critical" ELSE s[a].level,
                                            MassTarget(s, a))
            /\ t[a].sharedDA = (s[a].sharedDA \/ SharesWithDA(s, a))
            /\ t[a].massReuse = (s[a].massReuse \/ MassTarget(s, a) # "Low")
            /\ SharesWithDA(s, a) => t[a].impact = Full
      /\ \A a, b \in DOMAIN s : t[a].percentile < t[b].percentile <=> TriageLess(t[a], t[b])
  <2> HIDE DEF t
  <2> QED
    BY PassesDo DEF t
<1>2. DOMAIN t = DOMAIN s
  BY <1>1 DEF Same
<1>3. \A a \in DOMAIN s :
          SharesWithDA(t, a) = SharesWithDA(s, a) /\ MassTarget(t, a) = MassTarget(s, a)
  <2> HIDE DEF t
  <2> QED
    BY <1>1, SameCauses
<1>4. \A a \in DOMAIN s :
          ~t[a].bh.da => (PeerCounts(t, a).da > 0 <=> SharesWithDA(t, a))
  <2> SUFFICES ASSUME NEW a \in DOMAIN s, ~t[a].bh.da
               PROVE  PeerCounts(t, a).da > 0 <=> SharesWithDA(t, a)
    OBVIOUS
  <2> DEFINE P == {b \in Peers(t, a) : t[b].bh.da}
  <2>1. P \in SUBSET DOMAIN t
    BY DEF Peers, Cluster
  <2>2. IsFiniteSet(P) /\ Cardinality(P) \in Nat /\ (Cardinality(P) = 0 <=> P = {})
    <3>1. DOMAIN t \subseteq Accounts
      BY <1>1 DEF Audit
    <3> HIDE DEF t, P
    <3> QED
      BY <2>1, <3>1, FiniteAudit, FS_EmptySet
  <2>3. PeerCounts(t, a).da = Cardinality(P)
    BY DEF PeerCounts
  <2>4. P # {} <=> \E b \in Cluster(t, t[a]) : t[b].bh.da
    BY DEF Peers, Cluster, SameKey
  <2> HIDE DEF P, t
  <2> QED
    BY <2>2, <2>3, <2>4 DEF SharesWithDA
<1>5. \A l \in Levels : \A m : LevelRank(MoreSevereLevel(l, m)) >= LevelRank(m)
  BY LevelRankIn DEF MoreSevereLevel
<1>6. \A m : MoreSevereLevel("Critical", m) = "Critical"
  BY DEF MoreSevereLevel, LevelRank
<1>7. \A a \in DOMAIN s : s[a].level \in Levels /\ s[a].sharedDA \in BOOLEAN /\ s[a].massReuse \in BOOLEAN
  BY DEF Audit, Rated
<1>8. \A a \in DOMAIN s : t[a].cracked = s[a].cracked /\ t[a].bh = s[a].bh /\ t[a].exposure = s[a].exposure
  BY <1>1 DEF Same, Alike4
<1> HIDE DEF t
<1>9. ScoringTypeOK'
  BY <1>1 DEF ScoringTypeOK, Audit, t
<1>10. PercentileAgrees'
  BY <1>1, <1>2 DEF PercentileAgrees, t
<1>11. ReuseEscalates'
  <2> SUFFICES ASSUME NEW a \in DOMAIN t
               PROVE  /\ PeerCounts(t, a).da > 0 /\ ~t[a].bh.da
                             => t[a].level = "Critical" /\ t[a].impact = Full /\ t[a].sharedDA
                      /\ t[a].cracked /\ t[a].bh.da => t[a].level = "Critical"
                      /\ LevelRank(t[a].level) >= LevelRank(MassTarget(t, a))
    BY Zenon DEF ReuseEscalates, t
  <2>1. a \in DOMAIN s
    BY <1>2
  <2>2. PeerCounts(t, a).da > 0 /\ ~t[a].bh.da
            => t[a].level = "Critical" /\ t[a].impact = Full /\ t[a].sharedDA
    BY <1>1, <1>3, <1>4, <1>6, <2>1
  <2>3. t[a].cracked /\ t[a].bh.da => t[a].level = "Critical"
    BY <1>1, <1>6, <1>8, <2>1 DEF PathCritical
  <2>4. LevelRank(t[a].level) >= LevelRank(MassTarget(t, a))
    <3>1. (IF SharesWithDA(s, a) THEN "Critical" ELSE s[a].level) \in Levels
      BY <1>7, <2>1 DEF Levels
    <3> QED
      BY <1>1, <1>3, <1>5, <2>1, <3>1
  <2> QED
    BY <2>2, <2>3, <2>4
<1>12. EscalationsCurrent'
  <2> SUFFICES ASSUME settled', NEW a \in DOMAIN t
               PROVE  /\ t[a].sharedDA <=> ~t[a].bh.da /\ PeerCounts(t, a).da > 0
                      /\ t[a].massReuse <=> MassTarget(t, a) # "Low"
                      /\ t[a].level = IF t[a].sharedDA THEN "Critical"
                                      ELSE MoreSevereLevel(OwnLevel(t[a], a), MassTarget(t, a))
    BY Zenon DEF EscalationsCurrent, OwnLevel, OwnImpact, t
  <2>1. a \in DOMAIN s /\ Unescalated(s[a], a)
    BY <1>2
  <2>2. t[a].sharedDA <=> SharesWithDA(t, a)
    BY <1>1, <1>3, <1>7, <2>1 DEF Unescalated
  <2>3. t[a].sharedDA <=> ~t[a].bh.da /\ PeerCounts(t, a).da > 0
    BY <1>4, <2>1, <2>2 DEF SharesWithDA
  <2>4. t[a].massReuse <=> MassTarget(t, a) # "Low"
    BY <1>1, <1>3, <1>7, <2>1 DEF Unescalated
  <2>5. s[a].level = OwnLevel(t[a], a)
    BY <1>8, <2>1 DEF Unescalated, OwnLevel
  <2>6. t[a].level = IF t[a].sharedDA THEN "Critical"
                     ELSE MoreSevereLevel(OwnLevel(t[a], a), MassTarget(t, a))
    BY <1>1, <1>3, <1>6, <2>1, <2>2, <2>5
  <2> QED
    BY <2>3, <2>4, <2>6
<1> QED
  BY <1>9, <1>10, <1>11, <1>12 DEF ScoringInv

LEMMA Initially == ScoringInit => ScoringInv
<1> SUFFICES ASSUME ScoringInit PROVE ScoringInv
  OBVIOUS
<1>1. dataset = <<>> /\ DOMAIN dataset = {} /\ settled \in BOOLEAN
  BY DEF ScoringInit
<1>2. dataset \in [{} -> Rated]
  BY <1>1
<1> QED
  BY <1>1, <1>2 DEF ScoringInv, ScoringTypeOK, PercentileAgrees, ReuseEscalates, EscalationsCurrent

\* What the last write left is typed, has the paths Critical and can be scored.
LEMMA Standing == ScoringInv => Audit(dataset) /\ PathCritical(dataset) /\ Scorable(dataset)
<1> SUFFICES ASSUME ScoringInv PROVE Audit(dataset) /\ PathCritical(dataset) /\ Scorable(dataset)
  OBVIOUS
<1>1. Audit(dataset)
  BY DEF ScoringInv, ScoringTypeOK, Audit
<1>2. PathCritical(dataset)
  BY DEF ScoringInv, ReuseEscalates, PathCritical
<1>3. Scorable(dataset)
  BY <1>1 DEF Audit, Rated, Scorable
<1> QED
  BY <1>1, <1>2, <1>3

\* A domain is replaced by accounts that have been scored.
LEMMA Replaced ==
    ASSUME ScoringInv, NEW domain, NEW new, Audit(new), \A a \in DOMAIN new : Unescalated(new[a], a),
           ReplaceDomain(domain, new)
    PROVE  ScoringInv'
<1> DEFINE kept == KeptWithout(domain)
           s == [a \in kept \cup DOMAIN new |-> IF a \in DOMAIN new THEN new[a] ELSE dataset[a]]
<1>1. Audit(dataset) /\ PathCritical(dataset)
  BY Standing
<1>2. kept \subseteq DOMAIN dataset
  BY DEF KeptWithout
<1>3. dataset' = Passes(s) /\ settled' = (kept = {})
  BY DEF ReplaceDomain
<1> HIDE DEF kept
<1>4. Audit(s)
  BY <1>1, <1>2 DEF Audit
<1>5. PathCritical(s)
  BY <1>1, <1>2, OwnLevelCritical DEF PathCritical, Unescalated
<1>6. settled' => \A a \in DOMAIN s : Unescalated(s[a], a)
  BY <1>3
<1>7. settled' \in BOOLEAN
  BY <1>3
<1> HIDE DEF s
<1> QED
  BY <1>3, <1>4, <1>5, <1>6, <1>7, PassedInv

\* All accounts are scored anew.
LEMMA Rewritten ==
    ASSUME NEW s, Scorable(s), NEW enricher, \A a \in DOMAIN s : enricher[a] \in Enrichment,
           Rewrite(s, enricher)
    PROVE  ScoringInv'
<1>1. PICK answers \in BOOLEAN : dataset' = Passes(RescoreWith(s, enricher, answers))
  BY DEF Rewrite
<1>2. settled' = TRUE
  BY DEF Rewrite
<1> DEFINE t == RescoreWith(s, enricher, answers)
<1>3. Audit(t) /\ \A a \in DOMAIN t : Unescalated(t[a], a)
  BY RescoredIn
<1> HIDE DEF t
<1>4. PathCritical(t)
  BY <1>3, OwnLevelCritical DEF PathCritical, Unescalated
<1> QED
  BY <1>1, <1>2, <1>3, <1>4, PassedInv DEF t

\* What an export of users leaves of an account.
WithBH(x, bh) == [x EXCEPT !.bh = bh]

LEMMA ExportIn ==
    ASSUME NEW e \in Enrichment,
           NEW x \in [enabled : SUBSET BOOLEAN, age : Int, controlled : Int,
                      spn : BOOLEAN, preauth : BOOLEAN]
    PROVE  WithExport(e, x) \in Enrichment /\ WithExport(e, x).da = e.da
<1> DEFINE enabled == IF x.enabled = {} THEN e.enabled ELSE TRUE \in x.enabled
           age == IF x.age > 0 THEN x.age ELSE e.age
           controlled == IF x.controlled > 0 THEN x.controlled ELSE e.controlled
<1>1. enabled \in BOOLEAN
  <2>1. e.enabled \in BOOLEAN
    BY DEF Enrichment
  <2>2. \A S : (TRUE \in S) \in BOOLEAN
    OBVIOUS
  <2>3. CASE x.enabled = {}
    BY <2>1, <2>3
  <2>4. CASE x.enabled # {}
    <3>1. enabled = (TRUE \in x.enabled)
      BY <2>4
    <3> HIDE DEF enabled
    <3> QED
      BY <2>2, <3>1
  <2> QED
    BY <2>3, <2>4
<1>2. age \in Int /\ controlled \in Nat /\ x.spn \in BOOLEAN /\ x.preauth \in BOOLEAN
  BY DEF Enrichment
<1>3. WithExport(e, x) = [e EXCEPT !.enabled = enabled, !.age = age, !.controlled = controlled,
                                   !.spn = x.spn, !.preauth = x.preauth]
  BY Zenon DEF WithExport
<1> HIDE DEF enabled, age, controlled
<1> DEFINE spn == x.spn
           preauth == x.preauth
<1>4. spn \in BOOLEAN /\ preauth \in BOOLEAN
  BY <1>2
<1>5. WithExport(e, x) = [e EXCEPT !.enabled = enabled, !.age = age, !.controlled = controlled,
                                   !.spn = spn, !.preauth = preauth]
  BY <1>3
<1> HIDE DEF spn, preauth
<1> QED
  BY <1>1, <1>2, <1>4, <1>5 DEF Enrichment

LEMMA WithBHLeaves ==
    ASSUME NEW x \in Rated, NEW bh \in Enrichment
    PROVE  /\ WithBH(x, bh) \in Rated /\ WithBH(x, bh).bh = bh
           /\ WithBH(x, bh).cracked = x.cracked /\ WithBH(x, bh).level = x.level
BY DEF WithBH, Rated

LEMMA Exporting == ScoringInv /\ UploadBHEUsers => ScoringInv'
<1> SUFFICES ASSUME ScoringInv, UploadBHEUsers PROVE ScoringInv'
  OBVIOUS
<1>1. Audit(dataset) /\ PathCritical(dataset)
  BY Standing
<1>2. PICK x \in UserExports :
          dataset' = Passes([a \in DOMAIN dataset |->
              IF a \in DOMAIN x THEN WithBH(dataset[a], WithExport(dataset[a].bh, x[a]))
              ELSE dataset[a]])
  BY Zenon DEF UploadBHEUsers, WithBH
<1>3. settled' = FALSE
  BY DEF UploadBHEUsers
<1> DEFINE s == [a \in DOMAIN dataset |->
                    IF a \in DOMAIN x THEN WithBH(dataset[a], WithExport(dataset[a].bh, x[a]))
                    ELSE dataset[a]]
<1>4. ASSUME NEW a \in DOMAIN dataset
      PROVE  s[a] \in Rated /\ (s[a].cracked /\ s[a].bh.da => s[a].level = "Critical")
  <2>1. dataset[a] \in Rated /\ dataset[a].bh \in Enrichment
    BY <1>1 DEF Audit, Rated
  <2>2. CASE a \in DOMAIN x
    <3> DEFINE bh == WithExport(dataset[a].bh, x[a])
    <3>1. bh \in Enrichment /\ bh.da = dataset[a].bh.da
      BY <2>1, <2>2, ScoringAssumption, ExportIn
    <3>2. s[a] = WithBH(dataset[a], bh)
      BY <2>2
    <3> HIDE DEF bh, s
    <3> QED
      BY <1>1, <2>1, <3>1, <3>2, WithBHLeaves DEF PathCritical
  <2>3. CASE a \notin DOMAIN x
    BY <1>1, <2>1, <2>3 DEF PathCritical
  <2> QED
    BY <2>2, <2>3
<1>5. Audit(s) /\ PathCritical(s)
  BY <1>1, <1>4 DEF Audit, PathCritical
<1>6. dataset' = Passes(s)
  BY <1>2
<1> HIDE DEF s
<1> QED
  BY <1>3, <1>5, <1>6, PassedInv

-----------------------------------------------------------------------------
(* The writes preserve the invariant.                                      *)

LEMMA UnenrichedIn == \A a \in Accounts : Unenriched[a] \in Enrichment
BY DEF Unenriched, NotCovered, Enrichment

\* Accounts with more cracked ones among them can be scored.
WithCracks(x, file) == [x EXCEPT !.cracked = x.cracked \/ x.hash \in file]

LEMMA CrackedIn ==
    ASSUME NEW x \in Rated, NEW file
    PROVE  /\ WithCracks(x, file).hash \in Hashes /\ WithCracks(x, file).cracked \in BOOLEAN
           /\ WithCracks(x, file).breached \in Nat
BY DEF WithCracks, Rated

LEMMA Scorings == ScoringInv /\ [ScoringNext]_scoringVars => ScoringInv'
<1> SUFFICES ASSUME ScoringInv, [ScoringNext]_scoringVars PROVE ScoringInv'
  OBVIOUS
<1>0. Audit(dataset) /\ Scorable(dataset)
  BY Standing
<1>1. CASE Upload
  <2>1. PICK d \in Dumps, answers \in BOOLEAN, domain \in {Domain(a) : a \in Accounts} :
            ReplaceDomain(domain, RescoreWith(Parsed(d), Unenriched, answers))
    BY <1>1 DEF Upload
  <2> DEFINE s == Parsed(d)
             new == RescoreWith(s, Unenriched, answers)
  <2>2. Scorable(s)
    BY ScoringAssumption DEF Scorable, Parsed
  <2>3. \A a \in DOMAIN s : Unenriched[a] \in Enrichment
    <3> HIDE DEF s
    <3> QED
      BY <2>2, UnenrichedIn DEF Scorable
  <2> HIDE DEF s
  <2>4. Audit(new) /\ \A a \in DOMAIN new : Unescalated(new[a], a)
    BY <2>2, <2>3, RescoredIn
  <2> HIDE DEF new
  <2> QED
    BY <2>1, <2>4, Replaced DEF new, s
<1>2. CASE DeleteDomain
  <2>1. PICK domain : ReplaceDomain(domain, <<>>)
    BY <1>2 DEF DeleteDomain
  <2> DEFINE new == [a \in {} |-> 0]
  <2>2. new = <<>> /\ Audit(new) /\ \A a \in DOMAIN new : Unescalated(new[a], a)
    BY DEF Audit
  <2> HIDE DEF new
  <2> QED
    BY <2>1, <2>2, Replaced
<1>3. CASE ApplyCracks
  <2>1. PICK file \in CrackFiles :
            Rewrite([a \in DOMAIN dataset |-> WithCracks(dataset[a], file)], Unenriched)
    BY <1>3, Zenon DEF ApplyCracks, WithCracks
  <2> DEFINE s == [a \in DOMAIN dataset |-> WithCracks(dataset[a], file)]
  <2>2. Scorable(s)
    BY <1>0, CrackedIn DEF Audit, Scorable
  <2>3. \A a \in DOMAIN s : Unenriched[a] \in Enrichment
    BY <1>0, UnenrichedIn DEF Audit
  <2>4. Rewrite(s, Unenriched)
    BY <2>1
  <2> HIDE DEF s
  <2> QED
    BY <2>2, <2>3, <2>4, Rewritten
<1>4. CASE Enrich
  <2>1. PICK graph \in Graphs : Rewrite(dataset, graph)
    BY <1>4 DEF Enrich
  <2>2. \A a \in DOMAIN dataset : graph[a] \in Enrichment
    BY <1>0, ScoringAssumption DEF Audit
  <2> QED
    BY <1>0, <2>1, <2>2, Rewritten
<1>5. CASE Rescore
  <2>1. Rewrite(dataset, Stored)
    BY <1>5 DEF Rescore
  <2>2. \A a \in DOMAIN dataset : Stored[a] \in Enrichment
    BY <1>0 DEF Audit, Rated, Stored
  <2> QED
    BY <1>0, <2>1, <2>2, Rewritten
<1>6. CASE UploadBHEUsers
  BY <1>6, Exporting
<1>7. CASE UNCHANGED scoringVars
  <2>1. dataset' = dataset /\ settled' = settled
    BY <1>7 DEF scoringVars
  <2>2. /\ ScoringTypeOK' = ScoringTypeOK /\ PercentileAgrees' = PercentileAgrees
        /\ ReuseEscalates' = ReuseEscalates /\ EscalationsCurrent' = EscalationsCurrent
    BY <2>1 DEF ScoringTypeOK, PercentileAgrees, ReuseEscalates, EscalationsCurrent
  <2> QED
    BY <2>2 DEF ScoringInv
<1> QED
  BY <1>1, <1>2, <1>3, <1>4, <1>5, <1>6, <1>7 DEF ScoringNext

-----------------------------------------------------------------------------
(* The theorems.                                                           *)

\* Every reachable audit satisfies the invariant.
THEOREM ScoringInvariant == ScoringSpec => []ScoringInv
<1>1. ProcessInit /\ ScoringInit => ScoringInv
  BY Initially
<1>2. ScoringInv /\ [ScoringNext]_<<process, scoringVars>> => ScoringInv'
  BY Scorings DEF scoringVars
<1> QED
  BY <1>1, <1>2, PTL DEF ScoringSpec

\* Scores are between 0 and 10, an impact may be missing, and a level is one of
\* the four, whatever the engine (engine.ScoreCracked, ScoreUncracked) is given
\* and the passes (internal/model) make of it.
THEOREM ScoringTyped == ScoringSpec => []ScoringTypeOK
<1>1. ScoringInv => ScoringTypeOK
  BY DEF ScoringInv
<1> QED
  BY <1>1, ScoringInvariant, PTL

\* ComputePercentiles comes after the escalations and is redone on every write:
\* a percentile never contradicts a level, for any number of accounts.
THEOREM PercentilesAgree == ScoringSpec => []PercentileAgrees
<1>1. ScoringInv => PercentileAgrees
  BY DEF ScoringInv
<1> QED
  BY <1>1, ScoringInvariant, PTL

\* EscalateSharedWithDA and EscalateLargeCrackedReuse reach every account that
\* has cause, across domains and after any sequence of writes.
THEOREM ReuseAlwaysEscalates == ScoringSpec => []ReuseEscalates
<1>1. ScoringInv => ReuseEscalates
  BY DEF ScoringInv
<1> QED
  BY <1>1, ScoringInvariant, PTL

\* After a write that scores all accounts nothing is left of earlier escalations.
THEOREM EscalationsAreCurrent == ScoringSpec => []EscalationsCurrent
<1>1. ScoringInv => EscalationsCurrent
  BY DEF ScoringInv
<1> QED
  BY <1>1, ScoringInvariant, PTL

=============================================================================

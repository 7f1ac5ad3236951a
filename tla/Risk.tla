-------------------------------- MODULE Risk --------------------------------
(***************************************************************************)
(* Risk scoring of one account (internal/risk): how exposed its credential *)
(* is, how much it would give away, and the level the two make.            *)
(*                                                                         *)
(* Scores are in hundredths, 1000 is the full 10.  The analysis of a       *)
(* password gives each penalty in hundredths; the logistic of the length   *)
(* is a table of the lengths in use.                                       *)
(***************************************************************************)
EXTENDS Integers

Levels == {"Low", "Medium", "High", "Critical"}
Full == 1000
NoImpact == -1      \* the impact of an account that BloodHound has not covered

Least(x, y) == IF x < y THEN x ELSE y
Greatest(x, y) == IF x > y THEN x ELSE y

\* The value of the first step of a table that x reaches, else 0.
Step(table, x) ==
    LET reached == {i \in DOMAIN table : x >= table[i][1]}
    IN  IF reached = {} THEN 0 ELSE table[CHOOSE i \in reached : \A j \in reached : i <= j][2]

Round1(x) == ((x + 5) \div 10) * 10

-----------------------------------------------------------------------------
(* Exposure.                                                               *)

\* What pwanalysis says of a password; of its complexity label here the factor, in
\* hundredths, 20 for the strongest.
Analysis == [length : Nat, complexity : Nat, common : BOOLEAN, dictionary : BOOLEAN,
             banned : Nat, keyboard : Nat]

\* Penalties of a cracked password p, from 0 to 100.
LengthPenalty(n) == Step(<< <<20, 1>>, <<16, 5>>, <<14, 12>>, <<12, 27>>, <<10, 50>>,
                            <<8, 73>>, <<6, 88>>, <<4, 95>>, <<1, 99>> >>, n)
ComplexityPenalty(p) == Greatest(0, Least(100, ((p.complexity - 20) * 100) \div 80))
DictPenalty(p) ==
    Least(100, (IF p.common THEN 70 ELSE 0) + (IF p.dictionary THEN 50 ELSE 0)
                   + Least(80, 20 * p.banned) + Least(50, 10 * p.keyboard))
SimPenalty(similar) == Step(<< <<90, 100>>, <<80, 67>>, <<70, 33>> >>, similar)

WeaknessScore(p, similar) ==
    (30 * LengthPenalty(p.length) + 20 * ComplexityPenalty(p)
         + 35 * DictPenalty(p) + 15 * SimPenalty(similar)) \div 10

HibpExposureFloor(count) ==
    Step(<< <<1000000, 900>>, <<100000, 850>>, <<10000, 800>>, <<1000, 700>>,
            <<100, 600>>, <<10, 500>>, <<1, 450>> >>, count)
CrackedFloor(p) == IF p.length < 8 THEN 400 ELSE 300
ReuseFloor(shared) == Step(<< <<1000, 500>>, <<100, 400>>, <<50, 300>> >>, shared)
RoastableFloor(e) == IF e.preauth THEN 300 ELSE 0

ReuseBump(shared) == Step(<< <<10, 100>>, <<2, 75>>, <<1, 50>> >>, shared)
RoastableBump(e) == (IF e.spn THEN 50 ELSE 0) + (IF e.preauth THEN 75 ELSE 0)
AgeBump(age) == Step(<< <<1825, 75>>, <<730, 50>>, <<365, 25>> >>, age)

\* c: the password is known; p, similar: its analysis; e: BloodHound's answer.
ExposureScore(c, p, similar, count, shared, e) ==
    LET password == IF c THEN Greatest(WeaknessScore(p, similar), CrackedFloor(p)) ELSE 0
        standing == Greatest(HibpExposureFloor(count), Greatest(ReuseFloor(shared), RoastableFloor(e)))
    IN  Least(Full, Greatest(password, standing)
                        + RoastableBump(e) + ReuseBump(shared) + AgeBump(e.age))

-----------------------------------------------------------------------------
(* Impact.                                                                 *)

PrivilegeSubScore(e) ==
    IF e.tier0 THEN Full
    ELSE Step(<< <<1001, 900>>, <<501, 800>>, <<101, 700>>, <<51, 600>>, <<11, 500>>, <<1, 300>> >>,
              e.controlled)
DaComponent(e) == IF e.da THEN Full ELSE 0

\* In tenths, by the risk level of the domain.
DomainFactor(r) == CASE r = "Critical" -> 13 [] r = "High" -> 12 [] r = "Medium" -> 11 [] OTHER -> 10

ImpactScore(e, r) ==
    LET full == Least(Full, (Greatest(PrivilegeSubScore(e), DaComponent(e)) * DomainFactor(r)) \div 10)
    IN  IF ~e.covered THEN NoImpact ELSE IF e.enabled THEN full ELSE Least(full, 200)

-----------------------------------------------------------------------------
(* The level.                                                              *)

TierOf(v) == IF v >= 800 THEN 0 ELSE IF v >= 600 THEN 1 ELSE IF v >= 400 THEN 2 ELSE 3

LevelMatrix == << <<"Critical", "Critical", "Critical", "High">>,
                  <<"Critical", "High", "High", "Medium">>,
                  <<"High", "High", "Medium", "Medium">>,
                  <<"Medium", "Medium", "Low", "Low">> >>

LevelFromAxes(exposure, impact, override) ==
    IF override THEN "Critical"
    ELSE IF impact = NoImpact THEN <<"Critical", "High", "Medium", "Low">>[TierOf(exposure) + 1]
    ELSE LevelMatrix[TierOf(impact) + 1][TierOf(exposure) + 1]

Score(c, p, similar, count, shared, e, r) ==
    LET exposure == Round1(ExposureScore(c, p, similar, count, shared, e))
        raw == ImpactScore(e, r)
        impact == IF raw = NoImpact THEN NoImpact ELSE Round1(raw)
    IN  [exposure |-> exposure,
         impact   |-> impact,
         score    |-> IF impact = NoImpact THEN exposure ELSE Round1((exposure + impact) \div 2),
         level    |-> LevelFromAxes(exposure, impact, c /\ e.da)]

=============================================================================

-------------------------- MODULE BloodHoundProofs --------------------------
(***************************************************************************)
(* Proofs about BloodHound, for any accounts, domains, states of the       *)
(* database and number of workers: no failure, cache or interleaving makes *)
(* an enrichment say more of an account than is so; a job none of whose    *)
(* calls failed says all that is so.                                       *)
(***************************************************************************)
EXTENDS BloodHound, FiniteSetTheorems, TLAPS

\* What may be said of an account, given what is so.
Modest(e, truth) ==
    /\ e.covered => truth.found
    /\ e.da \subseteq DADomains(truth.reach)
    /\ e.tier0 => truth.control \/ truth.reach # {}
    /\ e.controlled <= truth.total

JobSteps == {"idle", "build", "props", "da", "counts", "tier0", "listing", "sweep", "pool", "done"}
AskerSteps == {"idle", "domains", "search", "controllables", "props", "look", "resolve", "path"}

Asker == [at : AskerSteps, of : SUBSET People, todo : Seq(Targets), deep : BOOLEAN,
          total : Nat, da : SUBSET Collected, tier0 : BOOLEAN]

\* What an asker may have found of the account p it is at; a worker that has got
\* beyond the search has found it, and who resolves a target has one in hand.
HasFound(a, w, p, truth) ==
    /\ a.of = {p}
    /\ a.da \subseteq DADomains(truth.reach)
    /\ a.tier0 => truth.control \/ truth.reach # {}
    /\ a.total <= truth.total
    /\ w # 0 /\ a.at \notin {"domains", "search"} => truth.found
    /\ a.at \in {"resolve", "path"} => a.todo # <<>>

AtPeople == {"sweep", "pool"}

\* The fields of a job; what they hold of clients does not matter here.
IsJob(j) ==
    j \in [at : JobSteps, own : {j.own}, bulk : {j.bulk}, pooled : BOOLEAN, listed : BOOLEAN,
           left : SUBSET People, lost : BOOLEAN]

Shape ==
    /\ directory \in [People -> Person]
    /\ answers \in [People -> Enriched]
    /\ asking \in [Askers -> Asker]
    /\ IsJob(job)

\* The database has no member of Domain Admins without a path to it.
Coherent == \A p \in People : /\ directory[p].direct <= directory[p].total
                              /\ directory[p].members \subseteq DADomains(directory[p].reach)

\* Outside the sweep and the pool nobody is at an account.
Resting == job.at \in AtPeople \/ \A w \in Askers : asking[w] = AtRest

Placed(a, w) == a # AtRest => \E p \in People : HasFound(a, w, p, directory[p])

\* The inductive invariant.
BloodHoundInv ==
    /\ Shape
    /\ Coherent
    /\ Resting
    /\ \A w \in Askers : Placed(asking[w], w)
    /\ \A p \in People : Modest(answers[p], directory[p])

-----------------------------------------------------------------------------
(* Records.                                                                *)

LEMMA JobFields ==
    ASSUME NEW j, IsJob(j), NEW x \in JobSteps, NEW y \in BOOLEAN, NEW z \in BOOLEAN, NEW c,
           NEW some \in SUBSET People
    PROVE  /\ IsJob([j EXCEPT !.lost = y]) /\ [j EXCEPT !.lost = y].at = j.at
           /\ IsJob([j EXCEPT !.at = x]) /\ [j EXCEPT !.at = x].at = x
           /\ IsJob([j EXCEPT !.at = x, !.own = c]) /\ [j EXCEPT !.at = x, !.own = c].at = x
           /\ IsJob([j EXCEPT !.at = x, !.bulk = c]) /\ [j EXCEPT !.at = x, !.bulk = c].at = x
           /\ IsJob([j EXCEPT !.at = x, !.lost = y]) /\ [j EXCEPT !.at = x, !.lost = y].at = x
           /\ IsJob([j EXCEPT !.at = x, !.pooled = y, !.left = some])
           /\ [j EXCEPT !.at = x, !.pooled = y, !.left = some].at = x
           /\ IsJob([j EXCEPT !.at = x, !.listed = y, !.lost = z, !.left = some])
           /\ [j EXCEPT !.at = x, !.listed = y, !.lost = z, !.left = some].at = x
           /\ IsJob([j EXCEPT !.left = some]) /\ [j EXCEPT !.left = some].at = j.at
<1>1. IsJob([j EXCEPT !.lost = y]) /\ [j EXCEPT !.lost = y].at = j.at
  BY DEF IsJob
<1>2. IsJob([j EXCEPT !.at = x]) /\ [j EXCEPT !.at = x].at = x
  BY DEF IsJob
<1>3. /\ IsJob([j EXCEPT !.at = x, !.own = c]) /\ [j EXCEPT !.at = x, !.own = c].at = x
      /\ IsJob([j EXCEPT !.at = x, !.bulk = c]) /\ [j EXCEPT !.at = x, !.bulk = c].at = x
  BY DEF IsJob
<1>4. IsJob([j EXCEPT !.at = x, !.lost = y]) /\ [j EXCEPT !.at = x, !.lost = y].at = x
  BY DEF IsJob
<1>5. /\ IsJob([j EXCEPT !.at = x, !.pooled = y, !.left = some])
      /\ [j EXCEPT !.at = x, !.pooled = y, !.left = some].at = x
  BY DEF IsJob
<1>6. /\ IsJob([j EXCEPT !.at = x, !.listed = y, !.lost = z, !.left = some])
      /\ [j EXCEPT !.at = x, !.listed = y, !.lost = z, !.left = some].at = x
  BY DEF IsJob
<1>7. IsJob([j EXCEPT !.left = some]) /\ [j EXCEPT !.left = some].at = j.at
  BY DEF IsJob
<1> QED
  BY <1>1, <1>2, <1>3, <1>4, <1>5, <1>6, <1>7

LEMMA Resters ==
    /\ AtRest \in Asker
    /\ IsJob(NoJob) /\ NoJob.at = "idle"
    /\ \A own : /\ IsJob([NoJob EXCEPT !.at = "build", !.own = own])
                /\ [NoJob EXCEPT !.at = "build", !.own = own].at = "build"
    /\ NoData \in Enriched
    /\ \A truth : truth.total \in Nat => Modest(NoData, truth)
<1>a. <<>> \in Seq(Targets) /\ 0 \in Nat
  OBVIOUS
<1>b. FALSE \in BOOLEAN
  OBVIOUS
<1>c. {} \in SUBSET People /\ {} \in SUBSET Collected
  BY Zenon
<1>d. "idle" \in AskerSteps
  BY DEF AskerSteps
<1>e. "idle" \in JobSteps /\ "build" \in JobSteps
  BY DEF JobSteps
<1>1. AtRest \in Asker
  BY <1>a, <1>b, <1>c, <1>d, Zenon DEF AtRest, Asker
<1>2. IsJob(NoJob) /\ NoJob.at = "idle"
  <2>1. NoJob.own = 0 /\ NoJob.bulk = 0 /\ NoJob.at = "idle"
    BY DEF NoJob
  <2>2. 0 \in {0}
    OBVIOUS
  <2>3. NoJob \in [at : JobSteps, own : {0}, bulk : {0}, pooled : BOOLEAN, listed : BOOLEAN,
                   left : SUBSET People, lost : BOOLEAN]
    BY <1>b, <1>c, <1>e, <2>2, Zenon DEF NoJob
  <2> QED
    BY <2>1, <2>3 DEF IsJob
<1>3. ASSUME NEW own
      PROVE  /\ IsJob([NoJob EXCEPT !.at = "build", !.own = own])
             /\ [NoJob EXCEPT !.at = "build", !.own = own].at = "build"
  <2> DEFINE j == NoJob
  <2>1. IsJob(j)
    BY <1>2
  <2> HIDE DEF j
  <2>2. /\ IsJob([j EXCEPT !.at = "build", !.own = own])
        /\ [j EXCEPT !.at = "build", !.own = own].at = "build"
    BY <1>e, <2>1 DEF IsJob
  <2> QED
    BY <2>2 DEF j
<1>4. NoData \in Enriched
  BY DEF NoData, Enriched
<1>5. ASSUME NEW truth, truth.total \in Nat PROVE Modest(NoData, truth)
  BY <1>5 DEF NoData, Modest
<1> QED
  BY <1>1, <1>2, <1>3, <1>4, <1>5

LEMMA TargetLists ==
    /\ DATargets \in Seq(Targets)
    /\ ExtraTargets \in Seq(Targets)
<1>1. Forest \in Seq(STRING)
  BY BloodHoundAssumption
<1>2. \A i \in 1..Len(Forest) : Forest[i] \in Collected
  BY <1>1 DEF Collected
<1>3. DATargets \in [1..Len(Forest) -> Targets]
  BY <1>1, <1>2 DEF DATargets, Targets, Anchors
<1>4. \A i \in 1..2 * Len(Forest) : (i + 1) \div 2 \in 1..Len(Forest)
  BY <1>1
<1>5. ExtraTargets \in [1..2 * Len(Forest) -> Targets]
  BY <1>1, <1>2, <1>4 DEF ExtraTargets, Targets, Anchors
<1> QED
  BY <1>1, <1>3, <1>5

\* An asker that goes on to something else still has what it has found.
LEMMA GoesOn ==
    ASSUME NEW a \in Asker, NEW w, NEW p, NEW truth, HasFound(a, w, p, truth)
    PROVE  /\ \A at \in AskerSteps :
                /\ w # 0 /\ at \notin {"domains", "search"} => truth.found
                /\ at \in {"resolve", "path"} => a.todo # <<>>
                => [a EXCEPT !.at = at] \in Asker /\ HasFound([a EXCEPT !.at = at], w, p, truth)
           /\ \A todo \in Seq(Targets) : (w # 0 => truth.found)
                => /\ [a EXCEPT !.at = "look", !.todo = todo] \in Asker
                   /\ HasFound([a EXCEPT !.at = "look", !.todo = todo], w, p, truth)
           /\ \A todo \in Seq(Targets) : a.at = "look"
                => /\ [a EXCEPT !.deep = FALSE, !.todo = todo] \in Asker
                   /\ HasFound([a EXCEPT !.deep = FALSE, !.todo = todo], w, p, truth)
<1>1. ASSUME NEW at \in AskerSteps,
             w # 0 /\ at \notin {"domains", "search"} => truth.found,
             at \in {"resolve", "path"} => a.todo # <<>>
      PROVE  [a EXCEPT !.at = at] \in Asker /\ HasFound([a EXCEPT !.at = at], w, p, truth)
  BY <1>1 DEF Asker, HasFound
<1>2. ASSUME NEW todo \in Seq(Targets), w # 0 => truth.found
      PROVE  /\ [a EXCEPT !.at = "look", !.todo = todo] \in Asker
             /\ HasFound([a EXCEPT !.at = "look", !.todo = todo], w, p, truth)
  BY <1>2 DEF Asker, AskerSteps, HasFound
<1>3. ASSUME NEW todo \in Seq(Targets), a.at = "look"
      PROVE  /\ [a EXCEPT !.deep = FALSE, !.todo = todo] \in Asker
             /\ HasFound([a EXCEPT !.deep = FALSE, !.todo = todo], w, p, truth)
  BY <1>3 DEF Asker, HasFound
<1> QED
  BY <1>1, <1>2, <1>3

LEMMA SkipFinds ==
    ASSUME NEW a \in Asker, NEW w, NEW p, NEW truth, HasFound(a, w, p, truth),
           a.todo # <<>>, w # 0 => truth.found
    PROVE  Skip(a) \in Asker /\ HasFound(Skip(a), w, p, truth)
<1> DEFINE b == [a EXCEPT !.at = "look", !.todo = Tail(a.todo)]
<1>1. Tail(a.todo) \in Seq(Targets)
  BY DEF Asker
<1>2. b \in Asker /\ HasFound(b, w, p, truth) /\ b.at = "look"
  BY <1>1, GoesOn DEF Asker
<1>3. Skip(a) = Onward(b)
  BY DEF Skip
<1> HIDE DEF b
<1>4. <<>> \in Seq(Targets) /\ ExtraTargets \in Seq(Targets)
  BY TargetLists
<1>5. Onward(b) \in {b} \cup {[b EXCEPT !.deep = FALSE, !.todo = todo] : todo \in Seq(Targets)}
  BY <1>4 DEF Onward
<1>6. \A todo \in Seq(Targets) : /\ [b EXCEPT !.deep = FALSE, !.todo = todo] \in Asker
                                 /\ HasFound([b EXCEPT !.deep = FALSE, !.todo = todo], w, p, truth)
  BY <1>2, GoesOn
<1> QED
  BY <1>2, <1>3, <1>5, <1>6

\* What a path adds is so.
LEMMA HitFinds ==
    ASSUME NEW w \in Askers, NEW a \in Asker, a = asking[w], NEW p, NEW truth,
           HasFound(a, w, p, truth), a.todo # <<>>, w # 0 => truth.found,
           Head(a.todo) \in truth.reach
    PROVE  Hit(w) \in Asker /\ HasFound(Hit(w), w, p, truth)
<1> DEFINE t == Head(a.todo)
           b == [a EXCEPT !.da = @ \cup {t[1]}, !.tier0 = @ \/ w = 0]
           c == [a EXCEPT !.at = "look", !.todo = <<>>, !.tier0 = TRUE]
<1>1. t \in Targets /\ t \in truth.reach
  BY DEF Asker
<1>2. t[1] \in Collected /\ t[2] \in Anchors /\ t = <<t[1], t[2]>>
  BY <1>1 DEF Targets
<1>3. Hit(w) = IF t[2] = "da" THEN Skip(b) ELSE c
  BY Zenon DEF Hit
<1> HIDE DEF t
<1>4. CASE t[2] = "da"
  <2>1. t[1] \in DADomains(truth.reach)
    BY <1>1, <1>2, <1>4 DEF DADomains
  <2>2. truth.reach # {}
    BY <1>1
  <2>3. b \in Asker
    BY <1>2 DEF Asker
  <2>4. b.todo = a.todo /\ b.of = a.of /\ b.at = a.at /\ b.total = a.total
    BY DEF Asker
  <2>5. b.da = a.da \cup {t[1]}
    BY DEF Asker
  <2>6. HasFound(b, w, p, truth)
    BY <2>1, <2>2, <2>4, <2>5 DEF HasFound
  <2>7. b.todo # <<>>
    BY <2>4
  <2> HIDE DEF b
  <2>8. Skip(b) \in Asker /\ HasFound(Skip(b), w, p, truth)
    BY <2>3, <2>6, <2>7, SkipFinds
  <2> QED
    BY <1>3, <1>4, <2>8
<1>5. CASE t[2] # "da"
  <2>1. <<>> \in Seq(Targets) /\ "look" \in AskerSteps
    BY DEF AskerSteps
  <2>2. c \in Asker /\ c.at = "look" /\ c.of = a.of /\ c.da = a.da /\ c.total = a.total
    BY <2>1 DEF Asker
  <2>3. truth.reach # {}
    BY <1>1
  <2>4. HasFound(c, w, p, truth)
    BY <2>2, <2>3 DEF HasFound
  <2> QED
    BY <1>3, <1>5, <2>2, <2>4
<1> QED
  BY <1>4, <1>5

-----------------------------------------------------------------------------
(* One account.                                                            *)

\* Who is at an account is there during the sweep or the pool.
LEMMA AtWork ==
    ASSUME BloodHoundInv, NEW w \in Askers, asking[w].at # "idle"
    PROVE  /\ job.at \in AtPeople
           /\ asking[w] \in Asker
           /\ Who(w) \in People /\ HasFound(asking[w], w, Who(w), directory[Who(w)])
           /\ directory[Who(w)] \in Person
<1>1. asking[w] # AtRest
  BY DEF AtRest
<1>2. PICK p \in People : HasFound(asking[w], w, p, directory[p])
  BY <1>1 DEF BloodHoundInv, Placed
<1>3. Who(w) = p
  BY <1>2 DEF Who, HasFound
<1> QED
  BY <1>1, <1>2, <1>3 DEF BloodHoundInv, Shape, Resting

\* A step of one asker that gives no answer.
LEMMA AskerStep ==
    ASSUME BloodHoundInv, NEW w \in Askers, NEW a \in Asker, Stands(w, a), Placed(a, w),
           job.at \in AtPeople, IsJob(job'), job'.at = job.at, UNCHANGED <<directory, answers>>
    PROVE  BloodHoundInv'
<1>1. asking' = [asking EXCEPT ![w] = a]
  BY DEF Stands
<1>2. Shape'
  BY <1>1 DEF BloodHoundInv, Shape
<1>3. Coherent' /\ Resting'
  BY DEF BloodHoundInv, Coherent, Resting
<1>4. \A v \in Askers : Placed(asking[v], v)'
  BY <1>1 DEF BloodHoundInv, Shape, Placed
<1>5. (\A p \in People : Modest(answers[p], directory[p]))'
  BY DEF BloodHoundInv
<1> QED
  BY <1>2, <1>3, <1>4, <1>5 DEF BloodHoundInv

LEMMA TakeKeeps ==
    ASSUME BloodHoundInv, NEW w \in Askers, Take(w)
    PROVE  BloodHoundInv'
<1> DEFINE p == CHOOSE q \in job.left : TRUE
           a == [AtRest EXCEPT !.at = IF w = 0 THEN "controllables" ELSE "domains",
                               !.of = {p}, !.deep = (w = 0)]
<1>1. IsJob(job) /\ job.left \subseteq People
  BY DEF BloodHoundInv, Shape, IsJob
<1>2. p \in People
  BY <1>1 DEF Take
<1>3. directory[p] \in Person
  BY <1>2 DEF BloodHoundInv, Shape
<1>4. a \in Asker
  BY <1>2, Resters DEF Asker, AskerSteps
<1>5. /\ a.of = {p} /\ a.da = AtRest.da /\ a.tier0 = AtRest.tier0 /\ a.total = AtRest.total
      /\ a.at = IF w = 0 THEN "controllables" ELSE "domains"
  BY Resters DEF Asker
<1>6. AtRest.da = {} /\ AtRest.tier0 = FALSE /\ AtRest.total = 0
  BY DEF AtRest
<1>7. HasFound(a, w, p, directory[p])
  BY <1>3, <1>5, <1>6 DEF HasFound, Person
<1>8. Placed(a, w)
  BY <1>2, <1>7 DEF Placed
<1>9. job' = [job EXCEPT !.left = @ \ {p}] /\ Stands(w, a)
  BY DEF Take
<1>10. IsJob(job') /\ job'.at = job.at
  <2>1. job.left \ {p} \in SUBSET People
    BY <1>1
  <2> HIDE DEF p
  <2> QED
    BY <1>1, <1>9, <2>1 DEF IsJob
<1>11. job.at \in AtPeople
  BY DEF Take, AtPeople
<1>12. UNCHANGED <<directory, answers>>
  BY DEF Take
<1> HIDE DEF a
<1> QED
  BY <1>4, <1>8, <1>9, <1>10, <1>11, <1>12, AskerStep

\* The calls of an asker, and its look into a cache.
LEMMA AsksKeep ==
    ASSUME BloodHoundInv, NEW w \in Askers, NEW ok \in BOOLEAN, NEW refused \in BOOLEAN,
           \/ Domains(w, ok) \/ Search(w, ok) \/ UserProps(w, ok) \/ ResolveSID(w, ok)
           \/ Path(w, ok) \/ Controllables(w, ok, refused) \/ Look(w) \/ ResolveFromList(w)
    PROVE  BloodHoundInv'
<1> DEFINE r == asking[w]
           p == Who(w)
           truth == directory[p]
           Found(b) == b \in Asker /\ HasFound(b, w, p, truth)
           To(at) == [r EXCEPT !.at = at]
<1>1. r.at # "idle"
  BY DEF Domains, Search, UserProps, ResolveSID, Path, Controllables, Look, ResolveFromList
<1>2. /\ job.at \in AtPeople /\ r \in Asker /\ p \in People
      /\ HasFound(r, w, p, truth) /\ truth \in Person
  BY <1>1, AtWork
<1>3. IsJob(job)
  BY DEF BloodHoundInv, Shape
<1>4. IsJob(job') /\ job'.at = job.at
  <2>1. Lost(ok) \/ UNCHANGED job
    BY Zenon
       DEF Domains, Search, UserProps, ResolveSID, Path, Controllables, Look, ResolveFromList
  <2>2. ASSUME NEW y \in BOOLEAN, job' = [job EXCEPT !.lost = y]
        PROVE  IsJob(job') /\ job'.at = job.at
    BY <1>3, <2>2 DEF IsJob
  <2> QED
    BY <1>3, <2>1, <2>2 DEF Lost
<1>5. UNCHANGED <<directory, answers>>
  BY DEF Domains, Search, UserProps, ResolveSID, Path, Controllables, Look, ResolveFromList
<1>6. w # 0 /\ r.at \notin {"domains", "search"} => truth.found
  BY <1>2 DEF HasFound
<1>18. r.at \in {"resolve", "path"} => r.todo # <<>>
  BY <1>2 DEF HasFound
<1>7. \A at \in AskerSteps : /\ w # 0 /\ at \notin {"domains", "search"} => truth.found
                             /\ at \in {"resolve", "path"} => r.todo # <<>>
                             => Found(To(at))
  BY <1>2, GoesOn
<1>8. r.todo # <<>> /\ (w # 0 => truth.found) => Found(Skip(r))
  BY <1>2, SkipFinds
<1>9. SUFFICES \E b : Stands(w, b) /\ (b = AtRest \/ Found(b))
  <2>1. PICK b : Stands(w, b) /\ (b = AtRest \/ Found(b))
    BY <1>9
  <2>2. b \in Asker /\ Placed(b, w)
    BY <1>2, <2>1, Resters DEF Placed
  <2> QED
    BY <1>2, <1>4, <1>5, <2>1, <2>2, AskerStep
<1>10. CASE Domains(w, ok)
  <2>1. \/ Stands(w, To("search")) \/ Stands(w, AtRest)
    BY <1>10 DEF Domains, Goes
  <2>2. Found(To("search"))
    BY <1>7 DEF AskerSteps
  <2> QED
    BY <2>1, <2>2
<1>11. CASE Search(w, ok)
  <2>1. \/ truth.found /\ Stands(w, To("controllables"))
        \/ Stands(w, AtRest)
    BY <1>11 DEF Search, Goes
  <2>2. truth.found => Found(To("controllables"))
    BY <1>7 DEF AskerSteps
  <2> QED
    BY <2>1, <2>2
<1>12. CASE UserProps(w, ok)
  <2> DEFINE b == [r EXCEPT !.at = "look", !.todo = DATargets]
  <2>1. Stands(w, b) \/ Stands(w, AtRest)
    BY <1>12 DEF UserProps
  <2>2. w # 0 => truth.found
    BY <1>6, <1>12 DEF UserProps
  <2>3. DATargets \in Seq(Targets) /\ "look" \in AskerSteps
    BY TargetLists DEF AskerSteps
  <2>4. Found(b)
    BY <1>2, <2>2, <2>3, GoesOn
  <2> QED
    BY <2>1, <2>4
<1>13. CASE ResolveSID(w, ok)
  <2>1. \/ Stands(w, To("path")) \/ Stands(w, Skip(r))
    BY <1>13 DEF ResolveSID, Goes
  <2>2. (w # 0 => truth.found) /\ r.todo # <<>>
    BY <1>6, <1>18, <1>13 DEF ResolveSID
  <2>3. Found(To("path"))
    BY <1>7, <2>2 DEF AskerSteps
  <2> QED
    BY <1>8, <2>1, <2>2, <2>3
<1>14. CASE ResolveFromList(w)
  <2>1. Stands(w, To("path"))
    BY <1>14 DEF ResolveFromList, Goes
  <2>2. (w # 0 => truth.found) /\ r.todo # <<>>
    BY <1>6, <1>18, <1>14 DEF ResolveFromList
  <2>3. Found(To("path"))
    BY <1>7, <2>2 DEF AskerSteps
  <2> QED
    BY <2>1, <2>3
<1>15. CASE Look(w)
  <2>1. Stands(w, To("resolve")) \/ Stands(w, To("path")) \/ Stands(w, Skip(r))
    BY <1>15, Zenon DEF Look, Goes
  <2>2. (w # 0 => truth.found) /\ r.todo # <<>>
    BY <1>6, <1>15 DEF Look
  <2>3. Found(To("resolve")) /\ Found(To("path"))
    BY <1>7, <2>2 DEF AskerSteps
  <2> QED
    BY <1>8, <2>1, <2>2, <2>3
<1>16. CASE Path(w, ok)
  <2>1. Stands(w, Skip(r)) \/ (Head(r.todo) \in truth.reach /\ Stands(w, Hit(w)))
    BY <1>16 DEF Path
  <2>2. (w # 0 => truth.found) /\ r.todo # <<>>
    BY <1>6, <1>18, <1>16 DEF Path
  <2>3. Head(r.todo) \in truth.reach => Found(Hit(w))
    BY <1>2, <2>2, HitFinds
  <2> QED
    BY <1>8, <2>1, <2>2, <2>3
<1>17. CASE Controllables(w, ok, refused)
  <2> DEFINE total == IF ok THEN truth.total ELSE 0
             counted == [r EXCEPT !.total = total]
  <2>1. total \in Nat /\ total <= truth.total
    BY <1>2 DEF Person
  <2> HIDE DEF total
  <2>2. counted \in Asker /\ HasFound(counted, w, p, truth)
    BY <1>2, <2>1 DEF Asker, HasFound
  <2>3. r.at = "controllables" /\ (w # 0 => truth.found)
    BY <1>6, <1>17 DEF Controllables
  <2>4. CASE w = 0
    <3> DEFINE todo == IF job.listed THEN DATargets ELSE <<>>
               b == [counted EXCEPT !.at = "look", !.todo = todo]
    <3>1. Stands(w, b) \/ Stands(w, AtRest)
      BY <1>17, <2>4, Zenon DEF Controllables, total
    <3>2. todo \in Seq(Targets)
      BY TargetLists
    <3> HIDE DEF todo
    <3>3. Found(b)
      BY <2>2, <2>3, <3>2, GoesOn
    <3> QED
      BY <3>1, <3>3
  <2>5. CASE w # 0
    <3> DEFINE sees == ok /\ truth.control
               b == [counted EXCEPT !.at = "props", !.tier0 = sees]
    <3>1. Stands(w, b) \/ Stands(w, AtRest)
      BY <1>17, <2>5, Zenon DEF Controllables, total
    <3>2. sees \in BOOLEAN /\ (sees => truth.control)
      OBVIOUS
    <3> HIDE DEF sees
    <3>3. Found(b)
      BY <2>2, <2>3, <3>2 DEF Asker, AskerSteps, HasFound
    <3> QED
      BY <3>1, <3>3
  <2> QED
    BY <2>4, <2>5
<1> QED
  BY <1>10, <1>11, <1>12, <1>13, <1>14, <1>15, <1>16, <1>17

LEMMA GiveKeeps ==
    ASSUME BloodHoundInv, NEW w \in Askers, Give(w)
    PROVE  BloodHoundInv'
<1> DEFINE a == asking[w]
           p == Who(w)
           e == answers[p]
           truth == directory[p]
           new == IF w = 0
                  THEN [e EXCEPT !.controlled = a.total, !.da = @ \cup a.da,
                                 !.tier0 = @ \/ a.tier0]
                  ELSE [covered |-> TRUE, enabled |-> IF truth.enabled THEN "yes" ELSE "no",
                        da |-> a.da, controlled |-> a.total, tier0 |-> a.tier0]
<1>1. /\ job.at \in AtPeople /\ a \in Asker /\ p \in People
      /\ HasFound(a, w, p, truth) /\ truth \in Person /\ a.at = "look"
  BY AtWork DEF Give
<1>2. e \in Enriched /\ Modest(e, truth)
  BY <1>1 DEF BloodHoundInv, Shape
<1>3. new \in Enriched /\ Modest(new, truth)
  <2>1. CASE w = 0
    <3> DEFINE x == [e EXCEPT !.controlled = a.total, !.da = @ \cup a.da, !.tier0 = @ \/ a.tier0]
    <3>1. x \in Enriched
      BY <1>1, <1>2 DEF Enriched, Asker
    <3>2. Modest(x, truth)
      BY <1>1, <1>2 DEF Enriched, Asker, Modest, HasFound
    <3> QED
      BY <2>1, <3>1, <3>2
  <2>2. CASE w # 0
    <3> DEFINE status == IF truth.enabled THEN "yes" ELSE "no"
               x == [covered |-> TRUE, enabled |-> status, da |-> a.da, controlled |-> a.total,
                     tier0 |-> a.tier0]
    <3>1. status \in {"yes", "no", "unknown"}
      OBVIOUS
    <3> HIDE DEF status
    <3>2. x \in Enriched
      BY <1>1, <3>1 DEF Enriched, Asker
    <3>3. Modest(x, truth)
      BY <1>1, <2>2 DEF Modest, HasFound
    <3>4. new = x
      BY <2>2, Zenon DEF status
    <3> QED
      BY <3>2, <3>3, <3>4
  <2> QED
    BY <2>1, <2>2
<1>4. /\ answers' = [answers EXCEPT ![p] = new] /\ asking' = [asking EXCEPT ![w] = AtRest]
      /\ UNCHANGED <<directory, job>>
  BY Zenon DEF Give, Stands
<1> HIDE DEF new, p
<1>5. Shape'
  BY <1>3, <1>4, Resters DEF BloodHoundInv, Shape
<1>6. Coherent' /\ Resting'
  BY <1>1, <1>4 DEF BloodHoundInv, Coherent, Resting
<1>7. \A v \in Askers : Placed(asking[v], v)'
  BY <1>4 DEF BloodHoundInv, Shape, Placed
<1>8. (\A q \in People : Modest(answers[q], directory[q]))'
  BY <1>3, <1>4 DEF BloodHoundInv, Shape, p
<1> QED
  BY <1>5, <1>6, <1>7, <1>8 DEF BloodHoundInv

-----------------------------------------------------------------------------
(* The job.                                                                *)

\* A step of the job itself, about which nobody at an account hears.
LEMMA JobStep ==
    ASSUME BloodHoundInv, IsJob(job'), UNCHANGED <<directory, asking>>,
           job.at \in AtPeople /\ job'.at \notin AtPeople => \A w \in Askers : asking[w] = AtRest,
           answers' \in [People -> Enriched],
           \A p \in People : Modest(answers'[p], directory[p])
    PROVE  BloodHoundInv'
<1>1. Shape'
  BY DEF BloodHoundInv, Shape
<1>2. Coherent' /\ Resting'
  BY DEF BloodHoundInv, Coherent, Resting
<1>3. \A v \in Askers : Placed(asking[v], v)'
  BY DEF BloodHoundInv, Placed
<1>4. (\A p \in People : Modest(answers[p], directory[p]))'
  OBVIOUS
<1> QED
  BY <1>1, <1>2, <1>3, <1>4 DEF BloodHoundInv

LEMMA BaselineModest ==
    ASSUME BloodHoundInv, NEW p \in People
    PROVE  Baseline(p) \in Enriched /\ Modest(Baseline(p), directory[p])
<1> DEFINE status == IF directory[p].enabled THEN "yes" ELSE "no"
<1>1. directory[p] \in Person
  BY DEF BloodHoundInv, Shape
<1>2. status \in {"yes", "no", "unknown"}
  OBVIOUS
<1>3. Baseline(p) = [NoData EXCEPT !.covered = directory[p].found, !.enabled = status]
  BY Zenon DEF Baseline
<1> HIDE DEF status
<1>4. /\ NoData \in Enriched
      /\ NoData.da = {} /\ NoData.controlled = 0 /\ NoData.tier0 = FALSE
  BY Resters DEF NoData
<1> DEFINE e == Baseline(p)
<1>5. e \in Enriched
  BY <1>1, <1>2, <1>3, <1>4 DEF Enriched, Person
<1>6. /\ e.covered = directory[p].found
      /\ e.da = {} /\ e.controlled = 0 /\ e.tier0 = FALSE
  BY <1>3, <1>4 DEF Enriched
<1> HIDE DEF e
<1>7. Modest(e, directory[p])
  BY <1>1, <1>6 DEF Person, Modest
<1> QED
  BY <1>5, <1>7 DEF e

LEMMA FetchKeeps ==
    ASSUME BloodHoundInv, NEW ok \in BOOLEAN, Fetch(ok)
    PROVE  BloodHoundInv'
<1>1. job.at \in {"da", "counts", "tier0"} /\ UNCHANGED <<directory, asking>>
  BY DEF Fetch, After
<1>2. IsJob(job')
  <2>1. After[job.at] \in JobSteps
    BY <1>1 DEF After, JobSteps
  <2>2. job' = [job EXCEPT !.at = After[job.at], !.lost = @ \/ ~ok]
    BY DEF Fetch
  <2> QED
    BY <2>1, <2>2 DEF BloodHoundInv, Shape, IsJob
<1>3. ASSUME NEW p \in People
      PROVE  Fetched(p) \in Enriched /\ Modest(Fetched(p), directory[p])
  <2>1. /\ answers[p] \in Enriched /\ Modest(answers[p], directory[p])
        /\ directory[p] \in Person
        /\ directory[p].direct <= directory[p].total
        /\ directory[p].members \subseteq DADomains(directory[p].reach)
    BY DEF BloodHoundInv, Shape, Coherent
  <2>2. CASE job.at = "da"
    <3>1. Fetched(p) = [answers[p] EXCEPT !.da = directory[p].members]
      BY <2>2 DEF Fetched
    <3> QED
      BY <2>1, <3>1 DEF Enriched, Person, Modest
  <2>3. CASE job.at = "counts"
    <3>1. Fetched(p) = [answers[p] EXCEPT !.controlled = directory[p].direct]
      BY <2>3 DEF Fetched
    <3> QED
      BY <2>1, <3>1 DEF Enriched, Person, Modest
  <2>4. CASE job.at = "tier0"
    <3>1. Fetched(p) = [answers[p] EXCEPT !.tier0 = directory[p].control]
      BY <2>4 DEF Fetched
    <3> QED
      BY <2>1, <3>1 DEF Enriched, Person, Modest
  <2> QED
    BY <1>1, <2>2, <2>3, <2>4
<1>4. answers' = [p \in People |-> IF ok THEN Fetched(p) ELSE answers[p]]
  BY DEF Fetch
<1>5. /\ answers' \in [People -> Enriched]
      /\ \A p \in People : Modest(answers'[p], directory[p])
  BY <1>3, <1>4 DEF BloodHoundInv, Shape
<1> QED
  BY <1>1, <1>2, <1>5, JobStep DEF AtPeople

\* The other steps of the job, and a new configuration.
LEMMA JobKeeps ==
    ASSUME BloodHoundInv, NEW ok \in BOOLEAN,
           \/ Build \/ FetchAllUserProps(ok) \/ ListDomains(ok) \/ FinishEnrich \/ Reconfigure
    PROVE  BloodHoundInv'
<1>1. /\ IsJob(job) /\ answers \in [People -> Enriched]
      /\ \A p \in People : Modest(answers[p], directory[p])
  BY DEF BloodHoundInv, Shape
<1>2. CASE Build
  <2>1. IsJob(job')
    BY <1>1, <1>2 DEF Build, IsJob, JobSteps
  <2> QED
    BY <1>1, <1>2, <2>1, JobStep DEF Build, AtPeople
<1>3. CASE FetchAllUserProps(ok)
  <2>1. IsJob(job')
    BY <1>1, <1>3 DEF FetchAllUserProps, IsJob, JobSteps
  <2>2. answers' = [p \in People |-> Baseline(p)] \/ answers' = answers
    BY <1>3 DEF FetchAllUserProps
  <2>3. /\ answers' \in [People -> Enriched]
        /\ \A p \in People : Modest(answers'[p], directory[p])
    BY <1>1, <2>2, BaselineModest
  <2>4. job.at \notin AtPeople /\ UNCHANGED <<directory, asking>>
    BY <1>3 DEF FetchAllUserProps, AtPeople
  <2> QED
    BY <2>1, <2>3, <2>4, JobStep
<1>4. CASE ListDomains(ok)
  <2> DEFINE left == {p \in People : directory[p].found /\ directory[p].candidate}
  <2>1. job' = [job EXCEPT !.at = "sweep", !.listed = ok, !.lost = @ \/ ~ok, !.left = left]
    BY <1>4 DEF ListDomains
  <2>2. left \in SUBSET People
    OBVIOUS
  <2> HIDE DEF left
  <2>3. IsJob(job')
    BY <1>1, <2>1, <2>2 DEF IsJob, JobSteps
  <2> QED
    BY <1>1, <1>4, <2>3, JobStep DEF ListDomains, AtPeople
<1>5. CASE FinishEnrich
  <2>1. IsJob(job')
    BY <1>1, <1>5 DEF FinishEnrich, IsJob, JobSteps
  <2> QED
    BY <1>1, <1>5, <2>1, JobStep DEF FinishEnrich
<1>6. CASE Reconfigure
  BY <1>1, <1>6, JobStep DEF Reconfigure
<1> QED
  BY <1>2, <1>3, <1>4, <1>5, <1>6

LEMMA StartKeeps ==
    ASSUME BloodHoundInv, StartEnrich
    PROVE  BloodHoundInv'
<1>1. /\ job.at \notin AtPeople
      /\ job' = [NoJob EXCEPT !.at = "build", !.own = enricher]
      /\ directory' \in Directories
      /\ answers' = [p \in People |-> NoData]
      /\ asking' = asking
  BY DEF StartEnrich, AtPeople
<1>2. \A w \in Askers : asking[w] = AtRest
  BY <1>1 DEF BloodHoundInv, Resting
<1>3. /\ directory' \in [People -> Person]
      /\ \A p \in People : /\ directory'[p].direct <= directory'[p].total
                           /\ directory'[p].members \subseteq DADomains(directory'[p].reach)
  BY <1>1, BloodHoundAssumption
<1>4. IsJob(job')
  BY <1>1, Resters
<1>5. Shape'
  BY <1>1, <1>3, <1>4, Resters DEF BloodHoundInv, Shape
<1>6. Coherent' /\ Resting'
  BY <1>1, <1>2, <1>3 DEF Coherent, Resting
<1>7. (\A w \in Askers : Placed(asking[w], w))'
  BY <1>1, <1>2 DEF Placed
<1>8. (\A p \in People : Modest(answers[p], directory[p]))'
  <2> SUFFICES ASSUME NEW p \in People PROVE Modest(NoData, directory'[p])
    BY <1>1
  <2> QED
    BY <1>3, Resters DEF Person
<1> QED
  BY <1>5, <1>6, <1>7, <1>8 DEF BloodHoundInv

-----------------------------------------------------------------------------
(* The theorem.                                                            *)

LEMMA BloodHoundInvInit == BloodHoundInit => BloodHoundInv
<1> SUFFICES ASSUME BloodHoundInit PROVE BloodHoundInv
  OBVIOUS
<1>1. Absent \in Person /\ Absent.direct = 0 /\ Absent.total = 0 /\ Absent.members = {}
  BY DEF Absent, Person
<1>2. Shape
  BY <1>1, Resters DEF BloodHoundInit, Shape
<1>3. Coherent
  BY <1>1 DEF BloodHoundInit, Coherent
<1>4. Resting /\ \A w \in Askers : Placed(asking[w], w)
  BY DEF BloodHoundInit, Resting, Placed
<1>5. ASSUME NEW p \in People PROVE Modest(answers[p], directory[p])
  <2>1. answers[p] = NoData /\ directory[p] = Absent
    BY DEF BloodHoundInit
  <2>2. Absent.total \in Nat
    BY <1>1
  <2> QED
    BY <2>1, <2>2, Resters
<1> QED
  BY <1>2, <1>3, <1>4, <1>5 DEF BloodHoundInv

LEMMA BloodHoundInvStep ==
    ASSUME BloodHoundInv, BloodHoundNext
    PROVE  BloodHoundInv'
<1>1. ASSUME NEW w \in Askers, Inquire(w) PROVE BloodHoundInv'
  <2>1. TRUE \in BOOLEAN
    OBVIOUS
  <2> QED
    BY <1>1, <2>1, TakeKeeps, GiveKeeps, AsksKeep DEF Inquire
<1>2. TRUE \in BOOLEAN
  OBVIOUS
<1> QED
  BY <1>1, <1>2, StartKeeps, JobKeeps, FetchKeeps DEF BloodHoundNext

\* A restart ends the job and forgets its answers; the database stays.
LEMMA BloodHoundInvBoot ==
    ASSUME BloodHoundInv, BloodHoundBoot
    PROVE  BloodHoundInv'
<1>1. /\ job' = NoJob /\ asking' = [w \in Askers |-> AtRest]
      /\ answers' = [p \in People |-> NoData] /\ directory' = directory
  BY DEF BloodHoundBoot
<1>2. Shape'
  BY <1>1, Resters DEF BloodHoundInv, Shape
<1>3. Coherent' /\ Resting' /\ (\A w \in Askers : Placed(asking[w], w))'
  BY <1>1 DEF BloodHoundInv, Coherent, Resting, Placed
<1>4. (\A p \in People : Modest(answers[p], directory[p]))'
  <2> SUFFICES ASSUME NEW p \in People PROVE Modest(NoData, directory[p])
    BY <1>1
  <2> QED
    BY Resters DEF BloodHoundInv, Shape, Person
<1> QED
  BY <1>2, <1>3, <1>4 DEF BloodHoundInv

LEMMA BloodHoundInvStutters ==
    ASSUME BloodHoundInv, UNCHANGED bloodHoundVars
    PROVE  BloodHoundInv'
BY DEF BloodHoundInv, Shape, Coherent, Resting, Placed, bloodHoundVars

LEMMA InflatesNothing == BloodHoundInv => NeverInflates
BY DEF BloodHoundInv, Modest, NeverInflates

\* Whatever calls fail, however the workers meet in the caches and whenever the
\* connection is configured anew, no enrichment says more of an account than
\* BloodHound knows.
THEOREM NothingInflated == BloodHoundSpec => []NeverInflates
<1>1. ProcessInit /\ BloodHoundInit => BloodHoundInv
  BY BloodHoundInvInit
<1>2. BloodHoundInv /\ [BloodHoundNext]_<<process, bloodHoundVars>> => BloodHoundInv'
  <2> SUFFICES ASSUME BloodHoundInv, [BloodHoundNext]_<<process, bloodHoundVars>>
               PROVE  BloodHoundInv'
    OBVIOUS
  <2>1. BloodHoundNext \/ UNCHANGED bloodHoundVars
    OBVIOUS
  <2> QED
    BY <2>1, BloodHoundInvStep, BloodHoundInvStutters
<1> QED
  BY <1>1, <1>2, InflatesNothing, PTL DEF BloodHoundSpec

-----------------------------------------------------------------------------
(* A job without trouble.                                                  *)

Remaining(todo) == {todo[i] : i \in DOMAIN todo}

ClientRecord == [listed : BOOLEAN, daGroups : [Targets -> Cached], anchorSIDs : [Targets -> Cached]]

\* The clients a job has captured exist.
Captured ==
    /\ clients \in Seq(ClientRecord) /\ enricher \in DOMAIN clients
    /\ {job.own, job.bulk} \subseteq DOMAIN clients \cup {0}
    /\ job.at # "idle" => job.own \in DOMAIN clients
    /\ job.at \notin {"idle", "build"} => job.bulk \in DOMAIN clients

BaselineSteps == {"da", "counts", "tier0", "listing"}

\* Either the job sweeps or the pool works.
Divided ==
    /\ job.at = "pool" => job.pooled
    /\ job.at \in {"build", "props", "sweep"} \cup BaselineSteps => ~job.pooled
    /\ \A w \in Askers : asking[w].of # {} => (w = 0 <=> ~job.pooled)

\* Until a call fails nobody resolves what is cached as missing, so that a miss
\* met in the job is still there at its end.
Resolving ==
    ~job.lost => \A w \in Askers : asking[w].at = "resolve" =>
        clients[Client(w)][Cache(w)][Head(asking[w].todo)] # "miss"

Clean ==
    /\ ~job.lost
    /\ IF job.pooled THEN NoMissCached(job.own, "daGroups") ELSE NoMissCached(job.bulk, "anchorSIDs")

\* Who is not there controls nothing; the sweep has the domains and is about
\* candidates.
Swept ==
    /\ \A p \in People : ~directory[p].found => directory[p].total = 0
    /\ job.at = "sweep" =>
        /\ ~job.lost => job.listed
        /\ \A p \in job.left : directory[p].found /\ directory[p].candidate

\* The baseline of p as far as it has come at step at.
Sofar(p, at) ==
    [covered |-> directory[p].found,
     enabled |-> IF directory[p].enabled THEN "yes" ELSE "no",
     da |-> IF at = "da" THEN {} ELSE directory[p].members,
     controlled |-> IF at \in {"da", "counts"} THEN 0 ELSE directory[p].direct,
     tier0 |-> at \notin {"da", "counts", "tier0"} /\ directory[p].control]

AtStart(p) == IF job.pooled THEN NoData ELSE Sofar(p, "sweep")
Untaken(p) == p \notin job.left /\ \A w \in Askers : p \notin asking[w].of

\* Who has been taken and is at nobody any more has the answer expected.
Settled ==
    \A p \in People :
        /\ job.at \in BaselineSteps => answers[p] = Sofar(p, job.at)
        /\ job.at \in AtPeople =>
            /\ answers[p] \in {AtStart(p), Expected(p, job.pooled)}
            /\ Untaken(p) => answers[p] = Expected(p, job.pooled)
        /\ job.at = "done" => answers[p] = Expected(p, job.pooled)

\* The sweep: first Domain Admins, then, if they are out of reach, the others.
Sweeping(a, truth) ==
    /\ truth.total > 0
    /\ a.da # {} => a.tier0
    /\ a.tier0 => a.da # {} \/ (truth.reach # {} /\ truth.total >= SweepMin)
    /\ a.deep /\ a.todo = <<>> => truth.reach = {}
    /\ ~a.deep =>
        /\ \A t \in Remaining(a.todo) : t[2] # "da"
        /\ a.todo # <<>> => truth.total >= SweepMin
        /\ ~a.tier0 /\ truth.total >= SweepMin => truth.reach \subseteq Remaining(a.todo)

AtTargets == {"look", "resolve", "path"}

\* At its targets: what it has found, and what is left, is all there is.
Targeting(a, w, truth) ==
    /\ a.total = truth.total
    /\ w # 0 => a.tier0 = truth.control
    /\ \A d \in DADomains(truth.reach) : d \in a.da \/ <<d, "da">> \in Remaining(a.todo)
    /\ a.deep \/ w # 0 => \A t \in Remaining(a.todo) : t[2] = "da"
    /\ w = 0 => Sweeping(a, truth)

\* What an asker none of whose calls failed has of the account it is at.
Tracks(a, w, truth) ==
    /\ w = 0 => truth.found /\ truth.candidate
    /\ w # 0 => ~a.deep
    /\ a.at \notin AtTargets => a.da = {}
    /\ a.at \in {"domains", "search", "controllables"} => ~a.tier0 /\ (a.deep <=> w = 0)
    /\ a.at = "props" => w # 0 /\ a.total = truth.total /\ a.tier0 = truth.control
    /\ a.at \in AtTargets => Targeting(a, w, truth)

Tracked == \A w \in Askers : \A p \in asking[w].of : Tracks(asking[w], w, directory[p])

\* With BloodHoundInv, inductive.
TroubleInv ==
    /\ Captured /\ Divided /\ Resolving /\ Swept
    /\ job.at \in {"build", "props"} => \A p \in People : answers[p] = NoData
    /\ job.at \notin {"idle", "build", "props"} /\ Clean => Settled /\ Tracked

-----------------------------------------------------------------------------
(* Targets.                                                                *)

LEMMA RemainingIs ==
    ASSUME NEW todo \in Seq(Targets)
    PROVE  /\ todo = <<>> <=> Remaining(todo) = {}
           /\ todo # <<>> => /\ Head(todo) \in Targets /\ Tail(todo) \in Seq(Targets)
                             /\ Remaining(todo) = {Head(todo)} \cup Remaining(Tail(todo))
<1>1. DOMAIN todo = 1..Len(todo) /\ Len(todo) \in Nat
  OBVIOUS
<1>2. ASSUME todo # <<>>
      PROVE  /\ Head(todo) \in Targets /\ Tail(todo) \in Seq(Targets)
             /\ Remaining(todo) = {Head(todo)} \cup Remaining(Tail(todo))
             /\ 1 \in DOMAIN todo
  <2>1. /\ Head(todo) = todo[1] /\ 1 \in 1..Len(todo) /\ Len(Tail(todo)) = Len(todo) - 1
        /\ \A i \in 1..Len(todo) - 1 : Tail(todo)[i] = todo[i + 1]
        /\ Tail(todo) \in Seq(Targets) /\ DOMAIN Tail(todo) = 1..Len(Tail(todo))
        /\ Head(todo) \in Targets
    BY <1>2
  <2>2. ASSUME NEW i \in 1..Len(todo) PROVE todo[i] \in {Head(todo)} \cup Remaining(Tail(todo))
    <3>1. CASE i = 1
      BY <2>1, <3>1
    <3>2. CASE i # 1
      <4>1. i - 1 \in DOMAIN Tail(todo) /\ Tail(todo)[i - 1] = todo[i]
        BY <1>1, <2>1, <3>2
      <4> QED
        BY <4>1 DEF Remaining
    <3> QED
      BY <3>1, <3>2
  <2>3. ASSUME NEW i \in DOMAIN Tail(todo) PROVE Tail(todo)[i] \in Remaining(todo)
    <3>1. i + 1 \in DOMAIN todo /\ Tail(todo)[i] = todo[i + 1]
      BY <1>1, <2>1
    <3> QED
      BY <3>1 DEF Remaining
  <2>4. Head(todo) \in Remaining(todo)
    BY <1>1, <2>1 DEF Remaining
  <2>5. Remaining(todo) \subseteq {Head(todo)} \cup Remaining(Tail(todo))
    BY <1>1, <2>2 DEF Remaining
  <2>6. Remaining(Tail(todo)) \subseteq Remaining(todo)
    BY <2>3 DEF Remaining
  <2> QED
    BY <1>1, <2>1, <2>4, <2>5, <2>6
<1>3. Remaining(<<>>) = {}
  BY DEF Remaining
<1> QED
  BY <1>2, <1>3 DEF Remaining

LEMMA ListedTargets ==
    /\ \A d \in Collected : <<d, "da">> \in Remaining(DATargets)
    /\ \A t \in Remaining(DATargets) : t[2] = "da"
    /\ \A d \in Collected : {<<d, "group">>, <<d, "node">>} \subseteq Remaining(ExtraTargets)
    /\ \A t \in Remaining(ExtraTargets) : t[2] # "da"
<1>1. Forest \in Seq(STRING) /\ DOMAIN Forest = 1..Len(Forest) /\ Len(Forest) \in Nat
  BY BloodHoundAssumption
<1>2. DOMAIN DATargets = DOMAIN Forest /\ \A i \in DOMAIN Forest : DATargets[i] = <<Forest[i], "da">>
  BY DEF DATargets
<1>3. /\ DOMAIN ExtraTargets = 1..2 * Len(Forest)
      /\ \A i \in 1..2 * Len(Forest) :
            ExtraTargets[i] = <<Forest[(i + 1) \div 2], IF i % 2 = 1 THEN "group" ELSE "node">>
  BY DEF ExtraTargets
<1>4. ASSUME NEW d \in Collected
      PROVE  {<<d, "group">>, <<d, "node">>} \subseteq Remaining(ExtraTargets)
  <2>1. PICK i \in 1..Len(Forest) : d = Forest[i]
    BY <1>1 DEF Collected
  <2>2. /\ 2 * i \in 1..2 * Len(Forest) /\ 2 * i - 1 \in 1..2 * Len(Forest)
        /\ (2 * i + 1) \div 2 = i /\ (2 * i - 1 + 1) \div 2 = i
        /\ (2 * i) % 2 = 0 /\ (2 * i - 1) % 2 = 1
    BY <1>1
  <2>3. ExtraTargets[2 * i] = <<d, "node">> /\ ExtraTargets[2 * i - 1] = <<d, "group">>
    <3>1. ExtraTargets[2 * i] =
            <<Forest[(2 * i + 1) \div 2], IF (2 * i) % 2 = 1 THEN "group" ELSE "node">>
      BY <1>3, <2>2
    <3>2. ExtraTargets[2 * i - 1] =
            <<Forest[(2 * i - 1 + 1) \div 2], IF (2 * i - 1) % 2 = 1 THEN "group" ELSE "node">>
      BY <1>3, <2>2
    <3> QED
      BY <2>1, <2>2, <3>1, <3>2
  <2> QED
    BY <1>3, <2>2, <2>3 DEF Remaining
<1>5. \A t \in Remaining(ExtraTargets) : t[2] # "da"
  BY <1>3 DEF Remaining
<1>6. \A t \in Remaining(DATargets) : t[2] = "da"
  BY <1>2 DEF Remaining
<1>7. \A d \in Collected : <<d, "da">> \in Remaining(DATargets)
  BY <1>2 DEF Remaining, Collected
<1> QED
  BY <1>4, <1>5, <1>6, <1>7

\* Beyond a target that is not in reach, or whose domain it has, nothing is missed.
LEMMA SkipTracks ==
    ASSUME NEW a \in Asker, NEW w, NEW truth \in Person, Tracks(a, w, truth),
           a.at \in AtTargets, a.todo # <<>>, w = 0 => job.listed,
           Head(a.todo) \in truth.reach => Head(a.todo)[2] = "da" /\ Head(a.todo)[1] \in a.da
    PROVE  Skip(a).of = a.of /\ Skip(a).at = "look" /\ Tracks(Skip(a), w, truth)
<1> DEFINE t == Head(a.todo)
           rest == Tail(a.todo)
           b == [a EXCEPT !.at = "look", !.todo = rest]
           more == IF job.listed /\ ~a.tier0 /\ a.total >= SweepMin THEN ExtraTargets ELSE <<>>
           c == [b EXCEPT !.deep = FALSE, !.todo = more]
<1>1. /\ a.todo \in Seq(Targets) /\ rest \in Seq(Targets) /\ t \in Targets
      /\ Remaining(a.todo) = {t} \cup Remaining(rest)
      /\ rest = <<>> <=> Remaining(rest) = {}
  BY RemainingIs DEF Asker
<1>2. /\ b.at = "look" /\ b.todo = rest /\ b.of = a.of /\ b.da = a.da /\ b.tier0 = a.tier0
      /\ b.total = a.total /\ b.deep = a.deep
  BY DEF Asker
<1>3. /\ c.at = "look" /\ c.todo = more /\ c.of = a.of /\ c.da = a.da /\ c.tier0 = a.tier0
      /\ c.total = a.total /\ c.deep = FALSE
  BY DEF Asker
<1>4. Skip(a) = IF rest = <<>> /\ a.deep THEN c ELSE b
  BY <1>2, Zenon DEF Skip, Onward
<1>5. /\ Targeting(a, w, truth) /\ (w = 0 => truth.found /\ truth.candidate)
      /\ (w # 0 => ~a.deep)
  BY DEF Tracks
<1> HIDE DEF rest
<1>6. ASSUME NEW d \in DADomains(truth.reach)
      PROVE  d \in a.da \/ <<d, "da">> \in Remaining(rest)
  <2>1. CASE <<d, "da">> = t
    <3>1. t \in truth.reach /\ t[1] = d
      BY <2>1 DEF DADomains
    <3> QED
      BY <3>1
  <2>2. CASE <<d, "da">> # t
    <3>1. d \in a.da \/ <<d, "da">> \in Remaining(a.todo)
      BY <1>5 DEF Targeting
    <3> QED
      BY <1>1, <2>2, <3>1
  <2> QED
    BY <2>1, <2>2
<1> HIDE DEF t
<1>7. CASE rest = <<>> /\ a.deep
  <2>1. w = 0 /\ Sweeping(a, truth) /\ job.listed
    BY <1>5, <1>7 DEF Targeting
  <2>2. more \in Seq(Targets)
    BY TargetLists
  <2>3. \A x \in Remaining(more) : x[2] # "da"
    <3>1. Remaining(<<>>) = {}
      BY DEF Remaining
    <3> QED
      BY <3>1, ListedTargets
  <2>4. more # <<>> => truth.total >= SweepMin
    BY <1>5 DEF Targeting
  <2>5. ASSUME ~a.tier0, truth.total >= SweepMin PROVE truth.reach \subseteq Remaining(more)
    <3>1. more = ExtraTargets
      BY <1>5, <2>1, <2>5 DEF Targeting
    <3>2. a.da = {}
      BY <2>1, <2>5 DEF Sweeping
    <3>3. DADomains(truth.reach) = {}
      BY <1>1, <1>6, <1>7, <3>2
    <3>4. ASSUME NEW x \in truth.reach PROVE x \in Remaining(ExtraTargets)
      <4>1. x \in Collected \X Anchors
        BY DEF Person, Targets
      <4>2. x = <<x[1], x[2]>> /\ x[1] \in Collected /\ x[2] \in {"da", "group", "node"}
        BY <4>1 DEF Anchors
      <4>3. x[2] # "da"
        BY <3>3, <4>2 DEF DADomains
      <4> QED
        BY <4>2, <4>3, ListedTargets
    <3> QED
      BY <3>1, <3>4
  <2> HIDE DEF more
  <2>6. Sweeping(c, truth)
    BY <1>3, <2>1, <2>3, <2>4, <2>5 DEF Sweeping
  <2>7. \A d \in DADomains(truth.reach) : d \in a.da
    BY <1>1, <1>6, <1>7
  <2>8. Targeting(c, w, truth)
    BY <1>3, <1>5, <2>1, <2>6, <2>7 DEF Targeting
  <2> HIDE DEF c
  <2>9. Tracks(c, w, truth)
    BY <1>3, <1>5, <2>1, <2>8 DEF Tracks, AtTargets
  <2> QED
    BY <1>3, <1>4, <1>7, <2>9
<1>8. CASE ~(rest = <<>> /\ a.deep)
  <2> HIDE DEF b, c
  <2>1. ASSUME w = 0 PROVE Sweeping(b, truth)
    <3>1. Sweeping(a, truth)
      BY <1>5, <2>1 DEF Targeting
    <3>2. ASSUME ~a.deep, ~a.tier0, truth.total >= SweepMin PROVE truth.reach \subseteq Remaining(rest)
      <4>1. truth.reach \subseteq {t} \cup Remaining(rest)
        BY <1>1, <3>1, <3>2 DEF Sweeping
      <4>2. t[2] # "da"
        BY <1>1, <3>1, <3>2 DEF Sweeping
      <4>3. t \notin truth.reach
        BY <4>2 DEF t
      <4> QED
        BY <4>1, <4>3
    <3>3. ~a.deep => (\A x \in Remaining(rest) : x[2] # "da") /\ truth.total >= SweepMin
      BY <1>1, <3>1 DEF Sweeping
    <3> QED
      BY <1>2, <1>8, <3>1, <3>2, <3>3 DEF Sweeping
  <2>2. a.deep \/ w # 0 => \A x \in Remaining(rest) : x[2] = "da"
    BY <1>1, <1>5 DEF Targeting
  <2>3. Targeting(b, w, truth)
    BY <1>2, <1>5, <1>6, <2>1, <2>2 DEF Targeting
  <2>4. Tracks(b, w, truth)
    BY <1>2, <1>5, <2>3 DEF Tracks, AtTargets
  <2> QED
    BY <1>2, <1>4, <1>8, <2>4
<1> QED
  BY <1>7, <1>8

\* What a path means is found, and nothing beyond it is missed.
LEMMA HitTracks ==
    ASSUME NEW w \in Askers, NEW a \in Asker, a = asking[w], NEW truth \in Person,
           Tracks(a, w, truth), a.at \in AtTargets, a.todo # <<>>, w = 0 => job.listed,
           Head(a.todo) \in truth.reach
    PROVE  Hit(w).of = a.of /\ Hit(w).at = "look" /\ Tracks(Hit(w), w, truth)
<1> DEFINE t == Head(a.todo)
           b == [a EXCEPT !.da = @ \cup {t[1]}, !.tier0 = @ \/ w = 0]
           c == [a EXCEPT !.at = "look", !.todo = <<>>, !.tier0 = TRUE]
<1>1. /\ a.todo \in Seq(Targets) /\ t \in Targets /\ t \in Remaining(a.todo) /\ t \in truth.reach
  BY RemainingIs DEF Asker
<1>2. t[1] \in Collected /\ t[2] \in Anchors /\ t = <<t[1], t[2]>>
  BY <1>1 DEF Targets
<1>3. Hit(w) = IF t[2] = "da" THEN Skip(b) ELSE c
  BY Zenon DEF Hit
<1>4. /\ Targeting(a, w, truth) /\ (w = 0 => truth.found /\ truth.candidate)
      /\ (w # 0 => ~a.deep)
  BY DEF Tracks
<1>5. CASE t[2] = "da"
  <2> HIDE DEF t
  <2>1. /\ b \in Asker /\ b.at = a.at /\ b.todo = a.todo /\ b.of = a.of /\ b.total = a.total
        /\ b.deep = a.deep /\ b.da = a.da \cup {t[1]} /\ (w # 0 => b.tier0 = a.tier0)
        /\ (w = 0 => b.tier0)
    BY <1>2 DEF Asker
  <2> HIDE DEF b
  <2>2. w = 0 => a.deep
    BY <1>1, <1>4, <1>5 DEF Targeting, Sweeping
  <2>3. w = 0 => Sweeping(b, truth)
    BY <1>4, <2>1, <2>2 DEF Targeting, Sweeping
  <2>4. Targeting(b, w, truth)
    <3>1. \A d \in DADomains(truth.reach) : d \in b.da \/ <<d, "da">> \in Remaining(b.todo)
      BY <1>4, <2>1 DEF Targeting
    <3>2. w # 0 => b.tier0 = truth.control
      BY <1>4, <2>1, Zenon DEF Targeting
    <3> QED
      BY <1>4, <2>1, <2>3, <3>1, <3>2 DEF Targeting
  <2>5. Tracks(b, w, truth)
    BY <1>4, <2>1, <2>4 DEF Tracks, AtTargets
  <2>6. Head(b.todo)[2] = "da" /\ Head(b.todo)[1] \in b.da /\ b.todo # <<>>
    BY <1>5, <2>1 DEF t
  <2>7. Skip(b).of = b.of /\ Skip(b).at = "look" /\ Tracks(Skip(b), w, truth)
    BY <2>1, <2>5, <2>6, SkipTracks
  <2> QED
    BY <1>3, <1>5, <2>1, <2>7
<1>6. CASE t[2] # "da"
  <2>1. w = 0 /\ ~a.deep /\ Sweeping(a, truth) /\ truth.total >= SweepMin
    BY <1>1, <1>4, <1>6 DEF Targeting, Sweeping
  <2>2. /\ c.at = "look" /\ c.todo = <<>> /\ c.of = a.of /\ c.total = a.total
        /\ c.deep = a.deep /\ c.da = a.da /\ c.tier0 = TRUE
    BY DEF Asker
  <2> HIDE DEF c, t
  <2>3. Remaining(<<>>) = {}
    BY DEF Remaining
  <2>4. Sweeping(c, truth)
    BY <1>1, <2>1, <2>2, <2>3 DEF Sweeping
  <2>5. \A d \in DADomains(truth.reach) : d \in a.da
    <3> SUFFICES ASSUME NEW d \in DADomains(truth.reach), <<d, "da">> \in Remaining(a.todo) PROVE FALSE
      BY <1>4 DEF Targeting
    <3>1. \A x \in Remaining(a.todo) : x[2] # "da"
      BY <2>1 DEF Sweeping
    <3> QED
      BY <3>1
  <2>6. Targeting(c, w, truth)
    BY <1>4, <2>1, <2>2, <2>4, <2>5 DEF Targeting
  <2>7. Tracks(c, w, truth)
    BY <1>4, <2>1, <2>2, <2>6 DEF Tracks, AtTargets
  <2> QED
    BY <1>3, <1>6, <2>2, <2>7
<1> QED
  BY <1>5, <1>6

-----------------------------------------------------------------------------
(* Clients.                                                                *)

Caches == {"daGroups", "anchorSIDs"}

\* cs and ds have the same entries, but for the one of target t in cache g of c.
Differ(cs, ds, c, g, t, sid) ==
    /\ ds \in Seq(ClientRecord) /\ DOMAIN ds = DOMAIN cs
    /\ \A d \in DOMAIN cs : \A f \in Caches : \A u \in Targets :
        ds[d][f][u] = IF d = c /\ f = g /\ u = t THEN sid ELSE cs[d][f][u]

SameEntries(cs, ds) ==
    /\ ds \in Seq(ClientRecord) /\ DOMAIN cs \subseteq DOMAIN ds
    /\ \A d \in DOMAIN cs : \A f \in Caches : \A u \in Targets : ds[d][f][u] = cs[d][f][u]

LEMMA OneChanges ==
    ASSUME NEW cs \in Seq(ClientRecord), NEW c \in DOMAIN cs, NEW r \in ClientRecord
    PROVE  /\ DOMAIN [cs EXCEPT ![c] = r] = DOMAIN cs
           /\ [cs EXCEPT ![c] = r] \in Seq(ClientRecord)
           /\ \A d \in DOMAIN cs : [cs EXCEPT ![c] = r][d] = IF d = c THEN r ELSE cs[d]
OBVIOUS

LEMMA ListChanges ==
    ASSUME NEW cs \in Seq(ClientRecord), NEW c \in DOMAIN cs, NEW b \in BOOLEAN
    PROVE  SameEntries(cs, [cs EXCEPT ![c].listed = b]) /\ DOMAIN [cs EXCEPT ![c].listed = b] = DOMAIN cs
<1> DEFINE r == [cs[c] EXCEPT !.listed = b]
<1>1. cs[c] \in ClientRecord
  OBVIOUS
<1>2. r \in ClientRecord /\ r.daGroups = cs[c].daGroups /\ r.anchorSIDs = cs[c].anchorSIDs
  BY <1>1 DEF ClientRecord
<1>3. [cs EXCEPT ![c].listed = b] = [cs EXCEPT ![c] = r]
  OBVIOUS
<1> HIDE DEF r
<1>4. \A f \in Caches : r[f] = cs[c][f]
  BY <1>2 DEF Caches
<1> QED
  BY <1>2, <1>3, <1>4, OneChanges DEF SameEntries

LEMMA EntryChanges ==
    ASSUME NEW cs \in Seq(ClientRecord), NEW c \in DOMAIN cs, NEW g \in Caches,
           NEW t \in Targets, NEW sid \in Cached
    PROVE  Differ(cs, [cs EXCEPT ![c][g][t] = sid], c, g, t, sid)
<1> DEFINE r == [cs[c] EXCEPT ![g][t] = sid]
<1>1. cs[c] \in ClientRecord
  OBVIOUS
<1>2. /\ r \in ClientRecord
      /\ \A f \in Caches : \A u \in Targets :
            r[f][u] = IF f = g /\ u = t THEN sid ELSE cs[c][f][u]
  <2>1. \A f \in Caches : [cs[c][f] EXCEPT ![t] = sid] \in [Targets -> Cached]
    BY <1>1 DEF ClientRecord, Caches
  <2>2. CASE g = "daGroups"
    BY <1>1, <2>1, <2>2 DEF ClientRecord, Caches
  <2>3. CASE g = "anchorSIDs"
    BY <1>1, <2>1, <2>3 DEF ClientRecord, Caches
  <2> QED
    BY <2>2, <2>3 DEF Caches
<1>3. [cs EXCEPT ![c][g][t] = sid] = [cs EXCEPT ![c] = r]
  OBVIOUS
<1> HIDE DEF r
<1> DEFINE ds == [cs EXCEPT ![c] = r]
<1>4. /\ DOMAIN ds = DOMAIN cs /\ ds \in Seq(ClientRecord)
      /\ \A d \in DOMAIN cs : ds[d] = IF d = c THEN r ELSE cs[d]
  BY <1>2, OneChanges
<1> HIDE DEF ds
<1>5. ASSUME NEW d \in DOMAIN cs, NEW f \in Caches, NEW u \in Targets
      PROVE  ds[d][f][u] = IF d = c /\ f = g /\ u = t THEN sid ELSE cs[d][f][u]
  <2>1. CASE d = c
    BY <1>2, <1>4, <2>1
  <2>2. CASE d # c
    BY <1>4, <2>2
  <2> QED
    BY <2>1, <2>2
<1>6. Differ(cs, ds, c, g, t, sid)
  BY <1>4, <1>5 DEF Differ
<1> QED
  BY <1>3, <1>6 DEF ds

\* What an asker's step does to the caches: nothing, or one entry of its own that
\* it resolved.
LEMMA CachesStep ==
    ASSUME BloodHoundInv, TroubleInv, NEW w \in Askers, NEW ok \in BOOLEAN, NEW refused \in BOOLEAN,
           \/ Domains(w, ok) \/ Search(w, ok) \/ UserProps(w, ok) \/ ResolveSID(w, ok)
           \/ Path(w, ok) \/ Controllables(w, ok, refused) \/ Look(w) \/ ResolveFromList(w)
    PROVE  /\ Client(w) \in DOMAIN clients /\ Cache(w) \in Caches
           /\ clients' \in Seq(ClientRecord) /\ DOMAIN clients' = DOMAIN clients
           /\ \/ SameEntries(clients, clients')
              \/ /\ asking[w].at = "resolve" /\ asking[w].todo # <<>>
                 /\ \E sid \in Cached :
                        /\ Differ(clients, clients', Client(w), Cache(w), Head(asking[w].todo), sid)
                        /\ sid = "miss" => job'.lost
<1> DEFINE r == asking[w]
           c == Client(w)
           g == Cache(w)
           t == Head(r.todo)
<1>1. r.at # "idle"
  BY DEF Domains, Search, UserProps, ResolveSID, Path, Controllables, Look, ResolveFromList
<1>2. /\ job.at \in AtPeople /\ r \in Asker /\ Who(w) \in People
      /\ HasFound(r, w, Who(w), directory[Who(w)])
  BY <1>1, AtWork
<1>3. clients \in Seq(ClientRecord) /\ c \in DOMAIN clients /\ g \in Caches
  BY <1>2 DEF TroubleInv, Captured, Client, Cache, Caches, AtPeople
<1> HIDE DEF c, g
<1>4. SameEntries(clients, clients)
  BY <1>3 DEF SameEntries
<1>5. CASE UNCHANGED clients
  BY <1>3, <1>4, <1>5 DEF c, g
<1>6. CASE Domains(w, ok)
  <2>1. UNCHANGED clients \/ clients' = [clients EXCEPT ![c].listed = @ \/ ok]
    BY <1>6 DEF Domains, GetDomains, c
  <2>2. CASE clients' = [clients EXCEPT ![c].listed = @ \/ ok]
    <3>1. (clients[c].listed \/ ok) \in BOOLEAN
      OBVIOUS
    <3>2. clients' = [clients EXCEPT ![c].listed = (clients[c].listed \/ ok)]
      BY <2>2
    <3>3. SameEntries(clients, clients') /\ DOMAIN clients' = DOMAIN clients
      BY <1>3, <3>1, <3>2, ListChanges
    <3> QED
      BY <1>3, <3>3 DEF SameEntries, c, g
  <2> QED
    BY <1>5, <2>1, <2>2
<1>7. ASSUME r.at = "resolve" PROVE r.todo # <<>> /\ t \in Targets
  BY <1>2, <1>7 DEF HasFound, Asker
<1> HIDE DEF t
<1>8. CASE ResolveSID(w, ok)
  <2> DEFINE sid == IF ok THEN "sid" ELSE "miss"
             ds == [clients EXCEPT ![c][g][t] = sid]
             b == clients[c].listed \/ (ok /\ t[2] = "node")
  <2>1. clients' = [ds EXCEPT ![c].listed = b]
    BY <1>8, Zenon DEF ResolveSID, c, g, t
  <2>2. sid \in Cached /\ b \in BOOLEAN
    BY DEF Cached
  <2>3. r.at = "resolve" /\ job'.lost = (job.lost \/ ~ok)
    BY <1>8 DEF ResolveSID, Lost, BloodHoundInv, Shape, IsJob
  <2> HIDE DEF b
  <2>4. sid = "miss" => job'.lost
    BY <2>3
  <2> HIDE DEF sid
  <2>5. Differ(clients, ds, c, g, t, sid)
    BY <1>3, <1>7, <2>2, <2>3, EntryChanges
  <2> HIDE DEF ds
  <2>6. SameEntries(ds, clients') /\ DOMAIN clients' = DOMAIN ds
    BY <1>3, <2>1, <2>2, <2>5, ListChanges DEF Differ
  <2>7. Differ(clients, clients', c, g, t, sid)
    BY <2>5, <2>6 DEF Differ, SameEntries
  <2>8. clients' \in Seq(ClientRecord) /\ DOMAIN clients' = DOMAIN clients
    BY <2>7 DEF Differ
  <2> QED
    BY <1>3, <1>7, <2>2, <2>3, <2>4, <2>7, <2>8 DEF c, g, t
<1>9. CASE ResolveFromList(w)
  <2>1. clients' = [clients EXCEPT ![c][g][t] = "sid"] /\ r.at = "resolve"
    BY <1>9 DEF ResolveFromList, c, g, t
  <2>2. "sid" \in Cached /\ "sid" # "miss"
    BY DEF Cached
  <2>3. Differ(clients, clients', c, g, t, "sid")
    BY <1>3, <1>7, <2>1, <2>2, EntryChanges
  <2>4. clients' \in Seq(ClientRecord) /\ DOMAIN clients' = DOMAIN clients
    BY <2>3 DEF Differ
  <2> QED
    BY <1>3, <1>7, <2>1, <2>2, <2>3, <2>4 DEF c, g, t
<1> QED
  BY <1>5, <1>6, <1>8, <1>9 DEF Search, UserProps, Path, Controllables, Look

\* A call that does not fail neither adds a miss nor hides one.
LEMMA MissesStay ==
    ASSUME BloodHoundInv, TroubleInv, NEW w \in Askers, ~job.lost, ~job'.lost,
           Client(w) \in DOMAIN clients, Cache(w) \in Caches,
           \/ SameEntries(clients, clients')
           \/ /\ asking[w].at = "resolve" /\ asking[w].todo # <<>>
              /\ \E sid \in Cached :
                     /\ Differ(clients, clients', Client(w), Cache(w), Head(asking[w].todo), sid)
                     /\ sid = "miss" => job'.lost
    PROVE  \A d \in DOMAIN clients : \A f \in Caches : \A u \in Targets :
                clients'[d][f][u] = "miss" <=> clients[d][f][u] = "miss"
<1>1. CASE SameEntries(clients, clients')
  BY <1>1 DEF SameEntries
<1>2. CASE /\ asking[w].at = "resolve"
           /\ \E sid \in Cached :
                  /\ Differ(clients, clients', Client(w), Cache(w), Head(asking[w].todo), sid)
                  /\ sid = "miss" => job'.lost
  <2>1. clients[Client(w)][Cache(w)][Head(asking[w].todo)] # "miss"
    BY <1>2 DEF TroubleInv, Resolving
  <2>2. PICK sid \in Cached :
            /\ Differ(clients, clients', Client(w), Cache(w), Head(asking[w].todo), sid)
            /\ sid # "miss"
    BY <1>2
  <2> QED
    BY <2>1, <2>2 DEF Differ
<1> QED
  BY <1>1, <1>2

\* The sweep and the pool look into the caches of clients that exist.
LEMMA CleanBefore ==
    ASSUME TroubleInv, job.at \notin {"idle", "build"}, Clean',
           ~job'.lost => ~job.lost, job'.pooled = job.pooled, job'.own = job.own, job'.bulk = job.bulk,
           \A d \in DOMAIN clients : \A f \in Caches : \A u \in Targets :
                clients[d][f][u] = "miss" => clients'[d][f][u] = "miss"
    PROVE  Clean
BY DEF TroubleInv, Captured, Clean, NoMissCached, Caches

\* A step of one asker that gives no answer.
LEMMA AskerTroubles ==
    ASSUME BloodHoundInv, TroubleInv, NEW w \in Askers, NEW a \in Asker, asking[w].at # "idle",
           Stands(w, a), NEW lost \in BOOLEAN, job' = [job EXCEPT !.lost = lost],
           job.lost => lost, UNCHANGED <<directory, enricher, answers>>,
           clients' \in Seq(ClientRecord), DOMAIN clients' = DOMAIN clients,
           ~lost => \A d \in DOMAIN clients : \A f \in Caches : \A u \in Targets :
                        clients'[d][f][u] = "miss" <=> clients[d][f][u] = "miss",
           a = AtRest \/ a.of = asking[w].of,
           ~lost /\ a.at = "resolve" => clients[Client(w)][Cache(w)][Head(a.todo)] # "miss"
                                        /\ a.todo # <<>>,
           ~lost /\ Clean => \A p \in asking[w].of :
                \/ a = AtRest /\ answers[p] = Expected(p, job.pooled)
                \/ a # AtRest /\ Tracks(a, w, directory[p])
    PROVE  TroubleInv'
<1>1. /\ IsJob(job) /\ asking \in [Askers -> Asker] /\ asking' = [asking EXCEPT ![w] = a]
  BY DEF BloodHoundInv, Shape, Stands
<1>2. /\ job'.at = job.at /\ job'.own = job.own /\ job'.bulk = job.bulk /\ job'.left = job.left
      /\ job'.pooled = job.pooled /\ job'.listed = job.listed /\ job'.lost = lost
  BY <1>1 DEF IsJob
<1>3. asking'[w] = a /\ \A v \in Askers : v # w => asking'[v] = asking[v]
  BY <1>1
<1>4. AtRest.of = {} /\ AtRest.at = "idle"
  BY DEF AtRest
<1>5. \A v \in Askers : asking'[v].of \subseteq asking[v].of
  BY <1>3, <1>4
<1>6. Captured' /\ Divided' /\ Swept'
  <2>1. Captured'
    BY <1>2 DEF TroubleInv, Captured
  <2>2. Divided'
    BY <1>2, <1>5 DEF TroubleInv, Divided
  <2>3. Swept'
    BY <1>2 DEF TroubleInv, Swept
  <2> QED
    BY <2>1, <2>2, <2>3
<1>7. job.at \in AtPeople
  BY AtWork
<1>8. Resolving'
  <2> SUFFICES ASSUME ~lost, NEW v \in Askers, asking'[v].at = "resolve"
               PROVE  clients'[Client(v)'][Cache(v)][Head(asking'[v].todo)] # "miss"
    BY <1>2 DEF Resolving, Cache
  <2>1. /\ Client(v)' = Client(v) /\ Client(v) \in DOMAIN clients /\ Cache(v) \in Caches
    BY <1>2, <1>7 DEF TroubleInv, Captured, Client, Cache, Caches, AtPeople
  <2>2. Head(asking'[v].todo) \in Targets /\ clients[Client(v)][Cache(v)][Head(asking'[v].todo)] # "miss"
    <3>1. CASE v = w
      BY <1>3, <3>1 DEF Asker
    <3>2. CASE v # w
      <4>1. asking[v].at = "resolve" /\ asking[v].at # "idle"
        BY <1>3, <3>2
      <4>2. asking[v] \in Asker /\ asking[v].todo # <<>>
        BY <4>1, AtWork DEF HasFound
      <4>3. Head(asking[v].todo) \in Targets
        BY <4>2 DEF Asker
      <4> QED
        BY <1>3, <3>2, <4>1, <4>3 DEF TroubleInv, Resolving
    <3> QED
      BY <3>1, <3>2
  <2> QED
    BY <2>1, <2>2
<1>9. ASSUME Clean' PROVE Settled' /\ Tracked'
  <2>1. ~lost /\ Clean
    BY <1>2, <1>7, <1>9, CleanBefore DEF Clean, AtPeople
  <2>2. Settled /\ Tracked
    BY <1>7, <2>1 DEF TroubleInv, AtPeople
  <2>3. \A p, at : Expected(p, at)' = Expected(p, at)
    BY DEF Expected
  <2>4. \A p \in People : AtStart(p)' = AtStart(p)
    BY <1>2 DEF AtStart, Sofar
  <2>5. ASSUME NEW p \in People, Untaken(p)' PROVE answers[p] = Expected(p, job.pooled)
    <3>1. CASE p \in asking[w].of
      <4>1. a = AtRest
        BY <1>2, <1>3, <2>5, <3>1 DEF Untaken
      <4> QED
        BY <2>1, <3>1, <4>1
    <3>2. CASE p \notin asking[w].of
      <4>1. Untaken(p)
        BY <1>2, <1>3, <2>5, <3>2 DEF Untaken
      <4> QED
        BY <1>7, <2>2, <4>1 DEF Settled
    <3> QED
      BY <3>1, <3>2
  <2>6. Settled'
    BY <1>2, <1>7, <2>2, <2>3, <2>4, <2>5 DEF Settled, AtPeople, BaselineSteps
  <2>7. Tracked'
    <3> SUFFICES ASSUME NEW v \in Askers, NEW p \in asking'[v].of
                 PROVE  Tracks(asking'[v], v, directory[p])
      BY DEF Tracked
    <3>1. CASE v = w
      BY <1>3, <1>4, <2>1, <3>1
    <3>2. CASE v # w
      BY <1>3, <2>2, <3>2 DEF Tracked
    <3> QED
      BY <3>1, <3>2
  <2> QED
    BY <2>6, <2>7
<1> QED
  BY <1>2, <1>6, <1>7, <1>8, <1>9 DEF TroubleInv, AtPeople

\* Who turns to another target, or goes on with the one it has.
LEMMA TurnsTracks ==
    ASSUME NEW a \in Asker, NEW w, NEW truth, Tracks(a, w, truth), a.at \in AtTargets,
           NEW at \in AtTargets
    PROVE  Tracks([a EXCEPT !.at = at], w, truth)
<1> DEFINE b == [a EXCEPT !.at = at]
<1>1. /\ b.at = at /\ b.todo = a.todo /\ b.of = a.of /\ b.da = a.da /\ b.tier0 = a.tier0
      /\ b.total = a.total /\ b.deep = a.deep
  BY DEF Asker
<1> HIDE DEF b
<1>2. Targeting(a, w, truth)
  BY DEF Tracks
<1>3. Targeting(b, w, truth)
  <2>1. w = 0 => Sweeping(b, truth)
    BY <1>1, <1>2 DEF Targeting, Sweeping
  <2>2. \A d \in DADomains(truth.reach) : d \in b.da \/ <<d, "da">> \in Remaining(b.todo)
    BY <1>1, <1>2 DEF Targeting
  <2>3. b.deep \/ w # 0 => \A t \in Remaining(b.todo) : t[2] = "da"
    BY <1>1, <1>2 DEF Targeting
  <2> QED
    BY <1>1, <1>2, <2>1, <2>2, <2>3, Zenon DEF Targeting
<1>4. Tracks(b, w, truth)
  BY <1>1, <1>3, Zenon DEF Tracks, AtTargets
<1> QED
  BY <1>4 DEF b

\* Who starts on the domains has all of Domain Admins before it.
LEMMA TargetsTrack ==
    ASSUME NEW a \in Asker, NEW w, NEW truth \in Person, a.at = "look", a.todo = DATargets,
           a.da = {}, a.total = truth.total,
           w = 0 => truth.found /\ truth.candidate /\ truth.total > 0 /\ ~a.tier0 /\ a.deep,
           w # 0 => ~a.deep /\ a.tier0 = truth.control
    PROVE  Tracks(a, w, truth)
<1>1. \A d \in DADomains(truth.reach) : <<d, "da">> \in Remaining(a.todo)
  BY ListedTargets DEF DADomains
<1>2. \A t \in Remaining(a.todo) : t[2] = "da"
  BY ListedTargets
<1>3. a.todo = <<>> => truth.reach = {}
  <2> SUFFICES ASSUME DATargets = <<>>, NEW t \in truth.reach PROVE FALSE
    OBVIOUS
  <2>1. t \in Collected \X Anchors
    BY DEF Person, Targets
  <2>2. t[1] \in Collected
    BY <2>1
  <2>3. Remaining(<<>>) = {}
    BY DEF Remaining
  <2> QED
    BY <2>2, <2>3, ListedTargets
<1>4. w = 0 => Sweeping(a, truth)
  BY <1>3 DEF Sweeping
<1>5. Targeting(a, w, truth)
  BY <1>1, <1>2, <1>4 DEF Targeting
<1> QED
  BY <1>5 DEF Tracks, AtTargets

\* Where an asker goes after a path, it is at the same account.
LEMMA HitKeeps ==
    ASSUME NEW w \in Askers, NEW a \in Asker, a = asking[w]
    PROVE  /\ Skip(a).of = a.of /\ Skip(a).at = "look"
           /\ Hit(w).of = a.of /\ Hit(w).at = "look"
<1> DEFINE B(da, tier0) == [a EXCEPT !.da = da, !.tier0 = tier0]
           t == Head(a.todo)
           c == [a EXCEPT !.at = "look", !.todo = <<>>, !.tier0 = TRUE]
<1>1. ASSUME NEW da, NEW tier0
      PROVE  Skip(B(da, tier0)).of = a.of /\ Skip(B(da, tier0)).at = "look"
  <2> DEFINE b == B(da, tier0)
             d == [b EXCEPT !.at = "look", !.todo = Tail(b.todo)]
             e(todo) == [d EXCEPT !.deep = FALSE, !.todo = todo]
  <2>1. d.at = "look" /\ d.of = a.of /\ \A todo : e(todo).at = "look" /\ e(todo).of = a.of
    BY DEF Asker
  <2>2. Skip(b) = d \/ \E todo : Skip(b) = e(todo)
    BY Zenon DEF Skip, Onward
  <2> QED
    BY <2>1, <2>2
<1>2. Hit(w) = IF t[2] = "da" THEN Skip(B(a.da \cup {t[1]}, a.tier0 \/ w = 0)) ELSE c
  BY Zenon DEF Hit
<1>3. a = B(a.da, a.tier0)
  BY DEF Asker
<1>4. c.of = a.of /\ c.at = "look"
  BY DEF Asker
<1> HIDE DEF B, c
<1>5. Skip(a).of = a.of /\ Skip(a).at = "look"
  <2>1. Skip(B(a.da, a.tier0)).of = a.of /\ Skip(B(a.da, a.tier0)).at = "look"
    BY <1>1, Zenon
  <2> QED
    BY <1>3, <2>1
<1>6. /\ Skip(B(a.da \cup {t[1]}, a.tier0 \/ w = 0)).of = a.of
      /\ Skip(B(a.da \cup {t[1]}, a.tier0 \/ w = 0)).at = "look"
  BY <1>1, Zenon
<1> QED
  BY <1>2, <1>4, <1>5, <1>6, Zenon

LEMMA AsksTrouble ==
    ASSUME BloodHoundInv, TroubleInv, NEW w \in Askers, NEW ok \in BOOLEAN, NEW refused \in BOOLEAN,
           \/ Domains(w, ok) \/ Search(w, ok) \/ UserProps(w, ok) \/ ResolveSID(w, ok)
           \/ Path(w, ok) \/ Controllables(w, ok, refused) \/ Look(w) \/ ResolveFromList(w)
    PROVE  TroubleInv'
<1> DEFINE r == asking[w]
           p == Who(w)
           truth == directory[p]
           To(at) == [r EXCEPT !.at = at]
           Rests(b) == b = AtRest /\ answers[p] = Expected(p, job.pooled)
           Goes2(b) == b.at # "idle" /\ b.of = r.of /\ Tracks(b, w, truth)
           Fine(b) == b = AtRest \/ b.of = r.of
           Good == ~job'.lost /\ Clean
<1>1. r.at # "idle"
  BY DEF Domains, Search, UserProps, ResolveSID, Path, Controllables, Look, ResolveFromList
<1>2. /\ job.at \in AtPeople /\ r \in Asker /\ p \in People
      /\ HasFound(r, w, p, truth) /\ truth \in Person
  BY <1>1, AtWork
<1>3. IsJob(job) /\ asking \in [Askers -> Asker]
  BY DEF BloodHoundInv, Shape
<1>4. /\ job' = [job EXCEPT !.lost = job'.lost] /\ job'.lost \in BOOLEAN /\ (job.lost => job'.lost)
      /\ Lost(ok) \/ UNCHANGED job
      /\ Lost(ok) /\ ~job'.lost => ok
  <2>1. Lost(ok) \/ UNCHANGED job
    BY Zenon
       DEF Domains, Search, UserProps, ResolveSID, Path, Controllables, Look, ResolveFromList
  <2>2. ASSUME NEW y \in BOOLEAN, job' = [job EXCEPT !.lost = y], job.lost => y
        PROVE  job' = [job EXCEPT !.lost = job'.lost] /\ job'.lost = y /\ (job.lost => job'.lost)
    BY <1>3, <2>2 DEF IsJob
  <2>3. job = [job EXCEPT !.lost = job.lost] /\ job.lost \in BOOLEAN
    BY <1>3 DEF IsJob
  <2>4. Lost(ok) => job' = [job EXCEPT !.lost = (job.lost \/ ~ok)]
    BY DEF Lost
  <2>5. (job.lost \/ ~ok) \in BOOLEAN
    OBVIOUS
  <2> QED
    BY <2>1, <2>2, <2>3, <2>4, <2>5
<1>5. UNCHANGED <<directory, enricher, answers>>
  BY DEF Domains, Search, UserProps, ResolveSID, Path, Controllables, Look, ResolveFromList
<1>6. r.of = {p}
  BY <1>2 DEF HasFound
<1>7. /\ w = 0 <=> ~job.pooled
      /\ w = 0 <=> job.at = "sweep"
      /\ w = 0 /\ ~job.lost => job.listed
  BY <1>2, <1>6 DEF TroubleInv, Divided, Swept, AtPeople
<1>8. Good => /\ Tracks(r, w, truth)
              /\ answers[p] \in {AtStart(p), Expected(p, job.pooled)}
              /\ ~job.lost
  BY <1>2, <1>6 DEF TroubleInv, Tracked, Settled, Clean, AtPeople
<1>9. BloodHoundInv'
  BY AsksKeep
<1>10. asking'[w] \in Asker
  BY <1>9 DEF BloodHoundInv, Shape
<1>11. \A b : Stands(w, b) => asking'[w] = b
  BY <1>3 DEF Stands
<1>12. SUFFICES \E b : /\ Stands(w, b) /\ Fine(b)
                       /\ ~job'.lost /\ b.at = "resolve" =>
                            clients[Client(w)][Cache(w)][Head(b.todo)] # "miss" /\ b.todo # <<>>
                       /\ Good => Rests(b) \/ Goes2(b)
  <2>1. PICK b : /\ Stands(w, b) /\ Fine(b)
                 /\ ~job'.lost /\ b.at = "resolve" =>
                      clients[Client(w)][Cache(w)][Head(b.todo)] # "miss" /\ b.todo # <<>>
                 /\ Good => Rests(b) \/ Goes2(b)
    BY <1>12
  <2>2. b \in Asker
    BY <1>10, <1>11, <2>1
  <2>3. ~job'.lost => \A d \in DOMAIN clients : \A f \in Caches : \A u \in Targets :
                        clients'[d][f][u] = "miss" <=> clients[d][f][u] = "miss"
    BY <1>4, CachesStep, MissesStay
  <2>4. clients' \in Seq(ClientRecord) /\ DOMAIN clients' = DOMAIN clients
    BY CachesStep
  <2>5. Good => \A q \in asking[w].of : \/ b = AtRest /\ answers[q] = Expected(q, job.pooled)
                                        \/ b # AtRest /\ Tracks(b, w, directory[q])
    <3>1. AtRest.at = "idle"
      BY DEF AtRest
    <3> QED
      BY <1>6, <2>1, <3>1
  <2> HIDE DEF p, r
  <2> QED
    BY <1>1, <1>4, <1>5, <2>1, <2>2, <2>3, <2>4, <2>5, AskerTroubles DEF r
<1>20. ASSUME NEW at \in AskerSteps
       PROVE  /\ To(at).at = at /\ To(at).of = r.of /\ To(at).todo = r.todo
              /\ To(at).da = r.da /\ To(at).tier0 = r.tier0 /\ To(at).total = r.total
              /\ To(at).deep = r.deep
  BY <1>2 DEF Asker
<1>21. ASSUME Good, r.at \in AtTargets PROVE Goes2(To("path")) /\ Goes2(To("resolve"))
  <2>1. Tracks(To("path"), w, truth) /\ Tracks(To("resolve"), w, truth)
    BY <1>2, <1>8, <1>21, TurnsTracks DEF AtTargets
  <2> QED
    BY <1>20, <2>1 DEF AskerSteps
<1>22. r.at \in {"resolve", "path"} => r.todo # <<>>
  BY <1>2 DEF HasFound
<1>23. AtRest.at = "idle"
  BY DEF AtRest
<1>24. /\ To("path").at = "path" /\ To("path").of = r.of
       /\ To("search").at = "search" /\ To("search").of = r.of
       /\ To("controllables").at = "controllables" /\ To("controllables").of = r.of
       /\ To("resolve").at = "resolve" /\ To("resolve").of = r.of /\ To("resolve").todo = r.todo
  BY <1>20 DEF AskerSteps
<1>25. Skip(r).at = "look" /\ Skip(r).of = r.of
  BY <1>2, HitKeeps
<1>30. CASE Domains(w, ok)
  <2>1. /\ Lost(ok) /\ r.at = "domains"
        /\ IF ok THEN Stands(w, To("search")) ELSE Stands(w, AtRest)
    BY <1>30, Zenon DEF Domains, Goes
  <2>2. Good => Goes2(To("search"))
    BY <1>8, <1>20, <2>1 DEF Tracks, AtTargets, AskerSteps
  <2> QED
    BY <1>4, <1>23, <1>24, <2>1, <2>2
<1>31. CASE Search(w, ok)
  <2>1. /\ Lost(ok) /\ r.at = "search"
        /\ \/ ok /\ truth.found /\ Stands(w, To("controllables"))
           \/ ~(ok /\ truth.found) /\ Stands(w, AtRest)
    BY <1>31 DEF Search, Goes
  <2>2. Good => Goes2(To("controllables"))
    BY <1>8, <1>20, <2>1 DEF Tracks, AtTargets, AskerSteps
  <2>3. Good /\ ~truth.found => answers[p] = Expected(p, job.pooled)
    <3>1. Good /\ ~truth.found => job.pooled
      BY <1>7, <1>8 DEF Tracks
    <3> QED
      BY <1>8, <3>1 DEF AtStart, Expected
  <2> QED
    BY <1>4, <1>23, <1>24, <2>1, <2>2, <2>3
<1>32. CASE UserProps(w, ok)
  <2> DEFINE b == [r EXCEPT !.at = "look", !.todo = DATargets]
  <2>1. /\ Lost(ok) /\ r.at = "props"
        /\ Stands(w, IF ok THEN b ELSE AtRest)
    BY <1>32, Zenon DEF UserProps
  <2>2. /\ b \in Asker /\ b.at = "look" /\ b.of = r.of /\ b.todo = DATargets /\ b.da = r.da
        /\ b.total = r.total /\ b.deep = r.deep /\ b.tier0 = r.tier0
    BY <1>2, TargetLists DEF Asker, AskerSteps
  <2> HIDE DEF b
  <2>4. (ok /\ Stands(w, b)) \/ (~ok /\ Stands(w, AtRest))
    BY <2>1 DEF Stands
  <2>3. Good => Tracks(b, w, truth)
    <3>1. Good => w # 0 /\ r.da = {} /\ ~r.deep /\ r.total = truth.total /\ r.tier0 = truth.control
      BY <1>8, <2>1, Zenon DEF Tracks, AtTargets
    <3> QED
      BY <1>2, <2>2, <3>1, TargetsTrack
  <2> QED
    BY <1>4, <1>23, <2>1, <2>2, <2>3, <2>4
<1>33. CASE ResolveSID(w, ok)
  <2>1. /\ Lost(ok) /\ r.at = "resolve"
        /\ IF ok THEN Stands(w, To("path")) ELSE Stands(w, Skip(r))
    BY <1>33, Zenon DEF ResolveSID, Goes
  <2> QED
    BY <1>4, <1>21, <1>24, <1>25, <2>1 DEF AtTargets
<1>34. CASE ResolveFromList(w)
  <2>1. r.at = "resolve" /\ Stands(w, To("path"))
    BY <1>34 DEF ResolveFromList, Goes
  <2> QED
    BY <1>21, <1>24, <2>1 DEF AtTargets
<1>35. CASE Look(w)
  <2> DEFINE sid == clients[Client(w)][Cache(w)][Head(r.todo)]
  <2>1. /\ r.at = "look" /\ r.todo # <<>>
        /\ \/ sid = "unset" /\ Stands(w, To("resolve"))
           \/ sid = "sid" /\ Stands(w, To("path"))
           \/ sid = "miss" /\ Stands(w, Skip(r))
    BY <1>35, Zenon DEF Look, Goes
  <2>2. Head(r.todo) \in Targets
    BY <1>2, <2>1 DEF Asker
  <2>3. Good => sid # "miss"
    BY <1>7, <2>2 DEF Clean, NoMissCached, Client, Cache
  <2>4. "unset" # "miss"
    OBVIOUS
  <2>5. CASE Stands(w, To("resolve")) /\ sid = "unset"
    BY <1>21, <1>24, <2>1, <2>4, <2>5 DEF AtTargets
  <2>6. CASE Stands(w, To("path"))
    BY <1>21, <1>24, <2>1, <2>6 DEF AtTargets
  <2>7. CASE sid = "miss" /\ Stands(w, Skip(r))
    BY <1>25, <2>3, <2>7
  <2> QED
    BY <2>1, <2>5, <2>6, <2>7
<1>36. CASE Path(w, ok)
  <2>1. /\ Lost(ok) /\ r.at = "path"
        /\ \/ ok /\ Head(r.todo) \in truth.reach /\ Stands(w, Hit(w))
           \/ ~(ok /\ Head(r.todo) \in truth.reach) /\ Stands(w, Skip(r))
    BY <1>36 DEF Path
  <2>2. Good /\ Head(r.todo) \notin truth.reach => Goes2(Skip(r))
    <3>1. Good /\ Head(r.todo) \notin truth.reach => Tracks(Skip(r), w, truth)
      BY <1>2, <1>7, <1>8, <1>22, <2>1, SkipTracks DEF AtTargets
    <3> QED
      BY <1>25, <3>1
  <2>3. CASE ok /\ Head(r.todo) \in truth.reach /\ Stands(w, Hit(w))
    <3>1. Good => Goes2(Hit(w))
      BY <1>2, <1>7, <1>8, <1>22, <2>1, <2>3, HitTracks DEF AtTargets
    <3>2. Hit(w).of = r.of /\ Hit(w).at = "look"
      BY <1>2, HitKeeps
    <3> QED
      BY <2>3, <3>1, <3>2
  <2>4. CASE ~(ok /\ Head(r.todo) \in truth.reach) /\ Stands(w, Skip(r))
    BY <1>4, <1>25, <2>1, <2>2, <2>4
  <2> QED
    BY <2>1, <2>3, <2>4
<1>37. CASE Controllables(w, ok, refused)
  <2>1. r.at = "controllables" /\ Lost(ok)
    BY <1>37 DEF Controllables
  <2>2. Good => ok /\ r.da = {} /\ ~r.tier0 /\ (r.deep <=> w = 0)
    BY <1>4, <1>8, <2>1, Zenon DEF Tracks, AtTargets
  <2> DEFINE total == IF ok THEN truth.total ELSE 0
             counted == [r EXCEPT !.total = total]
  <2>3. total \in Nat /\ (ok => total = truth.total)
    BY <1>2 DEF Person
  <2>4. CASE w = 0
    <3> DEFINE todo == IF job.listed THEN DATargets ELSE <<>>
               b == [counted EXCEPT !.at = "look", !.todo = todo]
    <3>1. (total = 0 /\ Stands(w, AtRest)) \/ (total # 0 /\ Stands(w, b))
      <4>1. Stands(w, IF total = 0 THEN AtRest ELSE b)
        BY <1>37, <2>4, Zenon DEF Controllables
      <4> HIDE DEF b, total
      <4> QED
        BY <4>1 DEF Stands
    <3>2. todo \in Seq(Targets) /\ (Good => todo = DATargets)
      BY <1>7, <1>8, <2>4, TargetLists
    <3> HIDE DEF todo, total
    <3>3. /\ b \in Asker /\ b.at = "look" /\ b.of = r.of /\ b.todo = todo /\ b.da = r.da
          /\ b.total = total /\ b.deep = r.deep /\ b.tier0 = r.tier0
      BY <1>2, <2>3, <3>2 DEF Asker, AskerSteps
    <3> HIDE DEF b, counted
    <3>4. ASSUME Good, total # 0 PROVE Tracks(b, w, truth)
      <4>1. truth.found /\ truth.candidate
        BY <1>8, <2>4, <3>4 DEF Tracks
      <4>2. truth.total > 0
        BY <2>2, <2>3, <3>4
      <4> QED
        BY <1>2, <2>2, <2>3, <2>4, <3>2, <3>3, <3>4, <4>1, <4>2, TargetsTrack
    <3>5. Good /\ total = 0 => answers[p] = Expected(p, job.pooled)
      <4> SUFFICES ASSUME Good, total = 0 PROVE AtStart(p) = Expected(p, job.pooled)
        BY <1>8
      <4>1. ~job.pooled /\ truth.total = 0
        BY <1>7, <2>2, <2>3, <2>4
      <4>2. ~(truth.candidate /\ truth.total > 0)
        BY <4>1
      <4>3. truth.control \in BOOLEAN
        BY <1>2 DEF Person
      <4> HIDE DEF p
      <4> QED
        BY <4>1, <4>2, <4>3 DEF AtStart, Sofar, Expected
    <3> QED
      BY <1>23, <3>1, <3>3, <3>4, <3>5
  <2>5. CASE w # 0
    <3> DEFINE sees == ok /\ truth.control
               b == [counted EXCEPT !.at = "props", !.tier0 = sees]
    <3>1. (~ok /\ Stands(w, AtRest)) \/ Stands(w, b)
      BY <1>37, <2>5, Zenon DEF Controllables
    <3>2. sees \in BOOLEAN /\ (ok => sees = truth.control)
      BY <1>2 DEF Person
    <3> HIDE DEF sees, total
    <3>3. /\ b \in Asker /\ b.at = "props" /\ b.of = r.of /\ b.da = r.da
          /\ b.total = total /\ b.deep = r.deep /\ b.tier0 = sees
      BY <1>2, <2>3, <3>2 DEF Asker, AskerSteps
    <3> HIDE DEF b, counted
    <3>4. ASSUME Good PROVE Tracks(b, w, truth)
      BY <2>2, <2>3, <2>5, <3>2, <3>3, <3>4 DEF Tracks, AtTargets
    <3> QED
      BY <2>2, <1>23, <3>1, <3>3, <3>4
  <2> QED
    BY <2>4, <2>5
<1> QED
  BY <1>30, <1>31, <1>32, <1>33, <1>34, <1>35, <1>36, <1>37

LEMMA TakeTrouble ==
    ASSUME BloodHoundInv, TroubleInv, NEW w \in Askers, Take(w)
    PROVE  TroubleInv'
<1> DEFINE p == CHOOSE q \in job.left : TRUE
           a == [AtRest EXCEPT !.at = IF w = 0 THEN "controllables" ELSE "domains",
                               !.of = {p}, !.deep = (w = 0)]
<1>1. /\ IsJob(job) /\ job.left \subseteq People /\ asking \in [Askers -> Asker]
  BY DEF BloodHoundInv, Shape, IsJob
<1>2. /\ job.at = (IF w = 0 THEN "sweep" ELSE "pool") /\ p \in job.left /\ asking[w] = AtRest
      /\ job' = [job EXCEPT !.left = @ \ {p}] /\ Stands(w, a)
      /\ UNCHANGED <<directory, clients, enricher, answers>>
  BY DEF Take
<1>3. /\ a.of = {p} /\ a.da = AtRest.da /\ a.tier0 = AtRest.tier0 /\ a.deep = (w = 0)
      /\ a.at = IF w = 0 THEN "controllables" ELSE "domains"
  BY Resters DEF Asker
<1>4. AtRest.da = {} /\ AtRest.tier0 = FALSE /\ AtRest.of = {}
  BY DEF AtRest
<1> HIDE DEF p, a
<1>5. /\ job'.at = job.at /\ job'.own = job.own /\ job'.bulk = job.bulk /\ job'.left = job.left \ {p}
      /\ job'.pooled = job.pooled /\ job'.listed = job.listed /\ job'.lost = job.lost
  BY <1>1, <1>2 DEF IsJob
<1>6. asking'[w] = a /\ \A v \in Askers : v # w => asking'[v] = asking[v]
  BY <1>1, <1>2 DEF Stands
<1>7. w = 0 <=> ~job.pooled
  BY <1>2 DEF TroubleInv, Divided
<1>8. Captured' /\ Divided' /\ Swept'
  <2>1. Captured'
    BY <1>2, <1>5 DEF TroubleInv, Captured
  <2>2. Divided'
    BY <1>5, <1>6, <1>7 DEF TroubleInv, Divided
  <2>3. Swept'
    BY <1>2, <1>5 DEF TroubleInv, Swept
  <2> QED
    BY <2>1, <2>2, <2>3
<1>9. Resolving'
  <2> SUFFICES ASSUME ~job.lost, NEW v \in Askers, asking'[v].at = "resolve"
               PROVE  clients[Client(v)][Cache(v)][Head(asking'[v].todo)] # "miss"
    BY <1>2, <1>5 DEF Resolving, Cache, Client
  <2>1. v # w
    BY <1>3, <1>6
  <2> QED
    BY <1>6, <2>1 DEF TroubleInv, Resolving
<1>10. ASSUME Clean' PROVE Settled' /\ Tracked'
  <2>1. Clean
    BY <1>2, <1>5, <1>10 DEF Clean, NoMissCached
  <2>2. Settled /\ Tracked
    BY <1>2, <2>1 DEF TroubleInv
  <2>3. \A q, at : Expected(q, at)' = Expected(q, at)
    BY <1>2 DEF Expected
  <2>4. \A q \in People : AtStart(q)' = AtStart(q)
    BY <1>2, <1>5 DEF AtStart, Sofar
  <2>5. ASSUME NEW q \in People, Untaken(q)' PROVE Untaken(q)
    <3>1. q # p /\ q \notin job.left
      BY <1>3, <1>5, <1>6, <2>5 DEF Untaken
    <3>2. \A v \in Askers : q \notin asking[v].of
      BY <1>2, <1>4, <1>6, <2>5 DEF Untaken
    <3> QED
      BY <3>1, <3>2 DEF Untaken
  <2>6. Settled'
    BY <1>2, <1>5, <2>2, <2>3, <2>4, <2>5 DEF Settled, AtPeople, BaselineSteps
  <2>7. Tracks(a, w, directory[p])
    BY <1>2, <1>3, <1>4, Zenon DEF Tracks, AtTargets, TroubleInv, Swept
  <2>8. Tracked'
    BY <1>2, <1>3, <1>6, <2>2, <2>7 DEF Tracked
  <2> QED
    BY <2>6, <2>8
<1> QED
  BY <1>2, <1>5, <1>8, <1>9, <1>10 DEF TroubleInv

\* Who has been through its targets has the answer.
LEMMA SettledOf ==
    ASSUME BloodHoundInv, TroubleInv, NEW w \in Askers, asking[w].at = "look",
           asking[w].todo = <<>>, Clean
    PROVE  /\ DADomains(directory[Who(w)].reach) = asking[w].da
           /\ asking[w].total = directory[Who(w)].total
           /\ w # 0 => asking[w].tier0 = directory[Who(w)].control /\ directory[Who(w)].found
           /\ w = 0 => /\ directory[Who(w)].found /\ directory[Who(w)].candidate
                       /\ directory[Who(w)].total > 0
                       /\ asking[w].tier0 <=>
                            \/ DADomains(directory[Who(w)].reach) # {}
                            \/ directory[Who(w)].reach # {} /\ directory[Who(w)].total >= SweepMin
<1> DEFINE a == asking[w]
           truth == directory[Who(w)]
<1>1. /\ job.at \in AtPeople /\ a \in Asker /\ Who(w) \in People
      /\ HasFound(a, w, Who(w), truth) /\ truth \in Person /\ a.at = "look"
  BY AtWork
<1>2. Tracks(a, w, truth)
  BY <1>1 DEF TroubleInv, Tracked, HasFound, AtPeople
<1>3. Targeting(a, w, truth)
  BY <1>1, <1>2 DEF Tracks, AtTargets
<1>4. Remaining(<<>>) = {}
  BY DEF Remaining
<1>5. DADomains(truth.reach) = a.da
  BY <1>1, <1>3, <1>4 DEF Targeting, HasFound
<1>6. ASSUME w = 0
      PROVE  /\ truth.found /\ truth.candidate /\ truth.total > 0
             /\ a.tier0 <=> \/ DADomains(truth.reach) # {}
                            \/ truth.reach # {} /\ truth.total >= SweepMin
  <2>1. Sweeping(a, truth)
    BY <1>3, <1>6 DEF Targeting
  <2>2. truth.found /\ truth.candidate
    BY <1>2, <1>6 DEF Tracks
  <2>3. a.tier0 => a.da # {} \/ (truth.reach # {} /\ truth.total >= SweepMin)
    BY <2>1 DEF Sweeping
  <2>4. a.da # {} => a.tier0
    BY <2>1 DEF Sweeping
  <2>5. truth.reach # {} /\ truth.total >= SweepMin => a.tier0
    BY <1>4, <2>1 DEF Sweeping
  <2>6. truth.total > 0
    BY <2>1 DEF Sweeping
  <2> QED
    BY <1>5, <2>2, <2>3, <2>4, <2>5, <2>6
<1>7. a.total = truth.total /\ (w # 0 => a.tier0 = truth.control)
  BY <1>3 DEF Targeting
<1>8. w # 0 => truth.found
  BY <1>1 DEF HasFound
<1> QED
  BY <1>5, <1>6, <1>7, <1>8

LEMMA GiveTrouble ==
    ASSUME BloodHoundInv, TroubleInv, NEW w \in Askers, Give(w)
    PROVE  TroubleInv'
<1> DEFINE a == asking[w]
           p == Who(w)
           e == answers[p]
           truth == directory[p]
           swept == [e EXCEPT !.controlled = a.total, !.da = @ \cup a.da, !.tier0 = @ \/ a.tier0]
           asked == [covered |-> TRUE, enabled |-> IF truth.enabled THEN "yes" ELSE "no",
                     da |-> a.da, controlled |-> a.total, tier0 |-> a.tier0]
           new == IF w = 0 THEN swept ELSE asked
<1>1. /\ job.at \in AtPeople /\ a \in Asker /\ p \in People
      /\ HasFound(a, w, p, truth) /\ truth \in Person /\ a.at = "look" /\ a.todo = <<>>
  BY AtWork DEF Give
<1>2. /\ answers' = [answers EXCEPT ![p] = new] /\ Stands(w, AtRest)
      /\ UNCHANGED <<directory, clients, enricher, job>>
  BY Zenon DEF Give
<1>3. /\ answers \in [People -> Enriched] /\ asking \in [Askers -> Asker]
      /\ truth.members \subseteq DADomains(truth.reach)
  BY <1>1 DEF BloodHoundInv, Shape, Coherent
<1>4. asking'[w] = AtRest /\ \A v \in Askers : v # w => asking'[v] = asking[v]
  BY <1>2, <1>3 DEF Stands
<1>5. AtRest.of = {} /\ AtRest.at = "idle" /\ a.of = {p}
  BY <1>1 DEF AtRest, HasFound
<1>6. /\ w = 0 <=> ~job.pooled
      /\ w = 0 <=> job.at = "sweep"
  BY <1>1, <1>5 DEF TroubleInv, Divided, AtPeople
<1>7. Captured' /\ Divided' /\ Swept'
  <2>1. Captured'
    BY <1>2 DEF TroubleInv, Captured
  <2>2. Divided'
    BY <1>2, <1>4, <1>5 DEF TroubleInv, Divided
  <2>3. Swept'
    BY <1>2 DEF TroubleInv, Swept
  <2> QED
    BY <2>1, <2>2, <2>3
<1>8. Resolving'
  <2> SUFFICES ASSUME ~job.lost, NEW v \in Askers, asking'[v].at = "resolve"
               PROVE  clients[Client(v)][Cache(v)][Head(asking'[v].todo)] # "miss"
    BY <1>2 DEF Resolving, Cache, Client
  <2>1. v # w
    BY <1>4, <1>5
  <2> QED
    BY <1>4, <2>1 DEF TroubleInv, Resolving
<1>9. ASSUME Clean PROVE new = Expected(p, job.pooled)
  <2>1. /\ DADomains(truth.reach) = a.da /\ a.total = truth.total
        /\ w # 0 => a.tier0 = truth.control /\ truth.found
        /\ w = 0 => /\ truth.found /\ truth.candidate /\ truth.total > 0
                    /\ a.tier0 <=> \/ DADomains(truth.reach) # {}
                                   \/ truth.reach # {} /\ truth.total >= SweepMin
    BY <1>1, <1>9, SettledOf
  <2>2. e \in {AtStart(p), Expected(p, job.pooled)}
    BY <1>1, <1>9 DEF TroubleInv, Settled, AtPeople
  <2>3. truth.control \in BOOLEAN /\ truth.found \in BOOLEAN /\ a.tier0 \in BOOLEAN
    BY <1>1 DEF Person, Asker
  <2>4. CASE w = 0
    <3>1. ~job.pooled /\ truth.candidate /\ truth.total > 0 /\ truth.found
      BY <1>6, <2>1, <2>4
    <3>2. /\ e.covered = truth.found /\ e.enabled = (IF truth.enabled THEN "yes" ELSE "no")
          /\ e.da \in {truth.members, a.da}
          /\ e.tier0 \in BOOLEAN /\ (truth.control => e.tier0) /\ (e.tier0 => truth.control \/ a.tier0)
      <4>1. CASE e = AtStart(p)
        BY <2>3, <3>1, <4>1 DEF AtStart, Sofar
      <4>2. CASE e = Expected(p, job.pooled)
        BY <2>1, <2>3, <2>4, <3>1, <4>2 DEF Expected
      <4> QED
        BY <2>2, <4>1, <4>2
    <3>3. e.da \cup a.da = DADomains(truth.reach)
      BY <1>3, <2>1, <3>2
    <3>4. e \in Enriched
      BY <1>1, <1>3
    <3>5. (e.tier0 \/ a.tier0) = (\/ truth.control
                                  \/ DADomains(truth.reach) # {}
                                  \/ truth.reach # {} /\ truth.total >= SweepMin)
      BY <2>1, <2>3, <2>4, <3>2
    <3>6. swept = [covered |-> truth.found, enabled |-> IF truth.enabled THEN "yes" ELSE "no",
                   da |-> DADomains(truth.reach), controlled |-> truth.total,
                   tier0 |-> e.tier0 \/ a.tier0]
      <4> DEFINE tier0 == e.tier0 \/ a.tier0
                 da == e.da \cup a.da
      <4>1. swept = [e EXCEPT !.controlled = a.total, !.da = da, !.tier0 = tier0]
        OBVIOUS
      <4>2. da = DADomains(truth.reach) /\ a.total = truth.total
        BY <2>1, <3>3
      <4> HIDE DEF tier0, da, swept
      <4>3. swept = [covered |-> e.covered, enabled |-> e.enabled, da |-> da,
                     controlled |-> a.total, tier0 |-> tier0]
        BY <3>4, <4>1 DEF Enriched
      <4>4. swept = [covered |-> truth.found, enabled |-> IF truth.enabled THEN "yes" ELSE "no",
                     da |-> DADomains(truth.reach), controlled |-> truth.total, tier0 |-> tier0]
        BY <3>2, <4>2, <4>3, Zenon
      <4> QED
        BY <4>4 DEF tier0
    <3>7. Expected(p, job.pooled) =
            [covered |-> truth.found, enabled |-> IF truth.enabled THEN "yes" ELSE "no",
             da |-> DADomains(truth.reach), controlled |-> truth.total,
             tier0 |-> \/ truth.control
                       \/ DADomains(truth.reach) # {}
                       \/ truth.reach # {} /\ truth.total >= SweepMin]
      BY <3>1 DEF Expected
    <3> HIDE DEF swept
    <3> QED
      BY <2>4, <3>5, <3>6, <3>7
  <2>5. CASE w # 0
    <3>1. job.pooled /\ truth.found
      BY <1>6, <2>1, <2>5
    <3>2. Expected(p, job.pooled) =
            [covered |-> truth.found, enabled |-> IF truth.enabled THEN "yes" ELSE "no",
             da |-> DADomains(truth.reach), controlled |-> truth.total, tier0 |-> truth.control]
      BY <2>3, <3>1 DEF Expected
    <3> QED
      BY <2>1, <2>3, <2>5, <3>1, <3>2
  <2> QED
    BY <2>4, <2>5
<1> HIDE DEF new
<1>10. ASSUME Clean' PROVE Settled' /\ Tracked'
  <2>1. Clean
    BY <1>2, <1>10 DEF Clean, NoMissCached
  <2>2. Settled /\ Tracked
    BY <1>1, <2>1 DEF TroubleInv, AtPeople
  <2>3. \A q, at : Expected(q, at)' = Expected(q, at)
    BY <1>2 DEF Expected
  <2>4. \A q \in People : AtStart(q)' = AtStart(q)
    BY <1>2 DEF AtStart, Sofar
  <2>5. ASSUME NEW q \in People
        PROVE  /\ answers'[q] \in {AtStart(q), Expected(q, job.pooled)}
               /\ Untaken(q)' => answers'[q] = Expected(q, job.pooled)
    <3>1. CASE q = p
      BY <1>2, <1>3, <1>9, <2>1, <3>1
    <3>2. CASE q # p
      <4>1. answers'[q] = answers[q]
        BY <1>2, <1>3, <3>2
      <4>2. Untaken(q)' => Untaken(q)
        BY <1>2, <1>4, <1>5, <3>2 DEF Untaken
      <4> QED
        BY <1>1, <2>2, <4>1, <4>2 DEF Settled
    <3> QED
      BY <3>1, <3>2
  <2>6. Settled'
    BY <1>1, <1>2, <2>3, <2>4, <2>5 DEF Settled, AtPeople, BaselineSteps
  <2>7. Tracked'
    BY <1>2, <1>4, <1>5, <2>2 DEF Tracked
  <2> QED
    BY <2>6, <2>7
<1> QED
  BY <1>1, <1>2, <1>7, <1>8, <1>10 DEF TroubleInv, AtPeople

-----------------------------------------------------------------------------
(* The job.                                                                *)

LEMMA NobodyAsks ==
    ASSUME \A w \in Askers : asking'[w] = AtRest
    PROVE  Resolving' /\ Tracked' /\ \A w \in Askers : asking'[w].of = {}
<1>1. AtRest.of = {} /\ AtRest.at = "idle"
  BY DEF AtRest
<1>2. \A w \in Askers : asking'[w].of = {} /\ asking'[w].at = "idle"
  BY <1>1
<1> QED
  BY <1>2 DEF Resolving, Tracked

LEMMA StartTrouble ==
    ASSUME BloodHoundInv, TroubleInv, StartEnrich
    PROVE  TroubleInv'
<1>1. /\ job.at \notin AtPeople
      /\ job' = [NoJob EXCEPT !.at = "build", !.own = enricher]
      /\ directory' \in Directories
      /\ answers' = [p \in People |-> NoData]
      /\ UNCHANGED <<clients, enricher, asking>>
  BY DEF StartEnrich, AtPeople
<1>2. \A w \in Askers : asking'[w] = AtRest
  BY <1>1 DEF BloodHoundInv, Resting
<1>3. job'.at = "build" /\ job'.own = enricher /\ job'.bulk = 0 /\ job'.pooled = FALSE
  BY <1>1 DEF NoJob
<1>4. Captured'
  BY <1>1, <1>3 DEF TroubleInv, Captured
<1>5. Divided'
  BY <1>2, <1>3, NobodyAsks DEF Divided
<1>6. Swept'
  <2>1. ASSUME NEW p \in People, ~directory'[p].found PROVE directory'[p].total = 0
    <3>1. PICK b \in BOOLEAN : directory'[p] = [Absent EXCEPT !.candidate = b]
      BY <1>1, <2>1, BloodHoundAssumption
    <3> QED
      BY <3>1 DEF Absent
  <2> QED
    BY <1>3, <2>1 DEF Swept
<1> QED
  BY <1>1, <1>2, <1>3, <1>4, <1>5, <1>6, NobodyAsks DEF TroubleInv

LEMMA ReconfigureTrouble ==
    ASSUME BloodHoundInv, TroubleInv, Reconfigure
    PROVE  TroubleInv'
<1>1. /\ clients' = Append(clients, NewClient) /\ enricher' = Len(clients')
      /\ UNCHANGED <<directory, job, asking, answers>>
  BY DEF Reconfigure
<1>2. NewClient \in ClientRecord
  BY Zenon DEF NewClient, ClientRecord, Cached
<1>3. /\ clients' \in Seq(ClientRecord) /\ DOMAIN clients \subseteq DOMAIN clients'
      /\ enricher' \in DOMAIN clients' /\ \A c \in DOMAIN clients : clients'[c] = clients[c]
  BY <1>1, <1>2 DEF TroubleInv, Captured
<1>4. Captured' /\ Divided' /\ Swept'
  <2>1. Captured'
    BY <1>1, <1>3 DEF TroubleInv, Captured
  <2>2. Divided' /\ Swept'
    BY <1>1 DEF TroubleInv, Divided, Swept
  <2> QED
    BY <2>1, <2>2
<1>5. Resolving'
  <2> SUFFICES ASSUME ~job.lost, NEW w \in Askers, asking[w].at = "resolve"
               PROVE  clients'[Client(w)][Cache(w)][Head(asking[w].todo)] # "miss"
    BY <1>1 DEF Resolving, Client, Cache
  <2>1. job.at \in AtPeople
    BY AtWork
  <2>2. Client(w) \in DOMAIN clients
    BY <2>1 DEF TroubleInv, Captured, Client, AtPeople
  <2> QED
    BY <1>3, <2>2 DEF TroubleInv, Resolving
<1>6. ASSUME job.at \notin {"idle", "build", "props"}, Clean' PROVE Settled' /\ Tracked'
  <2>1. Clean
    BY <1>1, <1>3, <1>6, CleanBefore
  <2>2. Settled /\ Tracked
    BY <1>6, <2>1 DEF TroubleInv
  <2>3. \A p \in People : /\ AtStart(p)' = AtStart(p) /\ Untaken(p)' = Untaken(p)
                           /\ \A at : Sofar(p, at)' = Sofar(p, at)
                           /\ \A pooled : Expected(p, pooled)' = Expected(p, pooled)
    BY <1>1 DEF AtStart, Sofar, Expected, Untaken
  <2>4. Settled'
    BY <1>1, <2>2, <2>3 DEF Settled
  <2>5. Tracked'
    BY <1>1, <2>2 DEF Tracked
  <2> QED
    BY <2>4, <2>5
<1> QED
  BY <1>1, <1>4, <1>5, <1>6 DEF TroubleInv

\* What the steps of the job have in common: nobody is at an account.
LEMMA JobTroubles ==
    ASSUME BloodHoundInv, TroubleInv, \A w \in Askers : asking[w] = AtRest,
           UNCHANGED <<directory, enricher, asking>>,
           clients' \in Seq(ClientRecord), DOMAIN clients' = DOMAIN clients,
           job.at # "idle", job'.at \notin {"idle", "build"}, job'.own = job.own,
           job'.bulk \in DOMAIN clients,
           job'.at = "pool" => job'.pooled,
           job'.at \in {"build", "props", "sweep"} \cup BaselineSteps => ~job'.pooled,
           job'.at = "sweep" =>
                /\ ~job'.lost => job'.listed
                /\ \A p \in job'.left : directory[p].found /\ directory[p].candidate,
           job'.at \in {"build", "props"} => \A p \in People : answers'[p] = NoData,
           job'.at \notin {"idle", "build", "props"} /\ Clean' => Settled'
    PROVE  TroubleInv'
<1>1. Resolving' /\ Tracked' /\ \A w \in Askers : asking'[w].of = {}
  BY NobodyAsks
<1>2. Captured'
  BY DEF TroubleInv, Captured
<1>3. Divided'
  BY <1>1 DEF Divided
<1>4. Swept'
  BY DEF TroubleInv, Swept
<1> QED
  BY <1>1, <1>2, <1>3, <1>4 DEF TroubleInv

LEMMA BuildTrouble ==
    ASSUME BloodHoundInv, TroubleInv, Build
    PROVE  TroubleInv'
<1>1. /\ job.at = "build" /\ job' = [job EXCEPT !.at = "props", !.bulk = enricher]
      /\ UNCHANGED <<directory, clients, enricher, asking, answers>>
  BY DEF Build
<1>2. \A w \in Askers : asking[w] = AtRest
  BY <1>1 DEF BloodHoundInv, Resting, AtPeople
<1>3. job'.at = "props" /\ job'.bulk = enricher /\ job'.own = job.own /\ job'.pooled = job.pooled
  BY <1>1 DEF BloodHoundInv, Shape, IsJob
<1>4. clients \in Seq(ClientRecord) /\ enricher \in DOMAIN clients
  BY DEF TroubleInv, Captured
<1>5. ~job.pooled /\ \A p \in People : answers[p] = NoData
  BY <1>1 DEF TroubleInv, Divided
<1> QED
  BY <1>1, <1>2, <1>3, <1>4, <1>5, JobTroubles

LEMMA PropsTrouble ==
    ASSUME BloodHoundInv, TroubleInv, NEW ok \in BOOLEAN, FetchAllUserProps(ok)
    PROVE  TroubleInv'
<1>1. /\ job.at = "props" /\ UNCHANGED <<directory, clients, enricher, asking>>
      /\ IF ok THEN answers' = [p \in People |-> Baseline(p)] /\ job' = [job EXCEPT !.at = "da"]
               ELSE /\ job' = [job EXCEPT !.at = "pool", !.pooled = TRUE, !.left = People]
                    /\ UNCHANGED answers
  BY DEF FetchAllUserProps
<1>2. \A w \in Askers : asking[w] = AtRest
  BY <1>1 DEF BloodHoundInv, Resting, AtPeople
<1>3. IsJob(job)
  BY DEF BloodHoundInv, Shape
<1>4. clients \in Seq(ClientRecord) /\ job.bulk \in DOMAIN clients
  BY <1>1 DEF TroubleInv, Captured
<1>5. ~job.pooled /\ \A p \in People : answers[p] = NoData
  BY <1>1 DEF TroubleInv, Divided
<1>6. CASE ok
  <2>1. job'.at = "da" /\ job'.bulk = job.bulk /\ job'.own = job.own /\ job'.pooled = job.pooled
    BY <1>1, <1>3, <1>6 DEF IsJob
  <2>2. \A p \in People : Baseline(p) = Sofar(p, "da")
    <3> SUFFICES ASSUME NEW p \in People PROVE Baseline(p) = Sofar(p, "da")
      OBVIOUS
    <3> DEFINE n == NoData
               enabled == IF directory[p].enabled THEN "yes" ELSE "no"
    <3>1. n \in Enriched /\ n.da = {} /\ n.controlled = 0 /\ n.tier0 = FALSE
      BY Resters DEF NoData
    <3>2. Baseline(p) = [n EXCEPT !.covered = directory[p].found, !.enabled = enabled]
      BY DEF Baseline
    <3>3. Sofar(p, "da") = [covered |-> directory[p].found, enabled |-> enabled,
                            da |-> {}, controlled |-> 0, tier0 |-> FALSE]
      BY DEF Sofar
    <3> HIDE DEF n, enabled
    <3> DEFINE e == [n EXCEPT !.covered = directory[p].found, !.enabled = enabled]
    <3>4. /\ e \in [covered : {e.covered}, enabled : {e.enabled},
                   da : SUBSET Collected, controlled : Nat, tier0 : BOOLEAN]
          /\ e.covered = directory[p].found /\ e.enabled = enabled
          /\ e.da = n.da /\ e.controlled = n.controlled /\ e.tier0 = n.tier0
      BY <3>1 DEF Enriched
    <3> HIDE DEF e
    <3>5. e = [covered |-> e.covered, enabled |-> e.enabled, da |-> e.da,
               controlled |-> e.controlled, tier0 |-> e.tier0]
      BY <3>4
    <3>6. e = [covered |-> directory[p].found, enabled |-> enabled,
               da |-> {}, controlled |-> 0, tier0 |-> FALSE]
      BY <3>1, <3>4, <3>5, Zenon
    <3> QED
      BY <3>2, <3>3, <3>6 DEF e
  <2>3. \A p \in People : Sofar(p, "da")' = Sofar(p, "da")
    BY <1>1 DEF Sofar
  <2>4. Settled'
    BY <1>1, <1>6, <2>1, <2>2, <2>3 DEF Settled, AtPeople
  <2> QED
    BY <1>1, <1>2, <1>4, <1>5, <2>1, <2>4, JobTroubles DEF BaselineSteps
<1>7. CASE ~ok
  <2>1. /\ job'.at = "pool" /\ job'.bulk = job.bulk /\ job'.own = job.own /\ job'.pooled = TRUE
        /\ job'.left = People /\ answers' = answers
    BY <1>1, <1>3, <1>7 DEF IsJob
  <2>2. Settled'
    BY <1>5, <2>1 DEF Settled, BaselineSteps, AtStart, Untaken
  <2> QED
    BY <1>1, <1>2, <1>4, <2>1, <2>2, JobTroubles DEF BaselineSteps
<1> QED
  BY <1>6, <1>7

LEMMA FetchTrouble ==
    ASSUME BloodHoundInv, TroubleInv, NEW ok \in BOOLEAN, Fetch(ok)
    PROVE  TroubleInv'
<1>1. /\ job.at \in {"da", "counts", "tier0"} /\ UNCHANGED <<directory, clients, enricher, asking>>
      /\ answers' = [p \in People |-> IF ok THEN Fetched(p) ELSE answers[p]]
      /\ job' = [job EXCEPT !.at = After[job.at], !.lost = @ \/ ~ok]
  BY DEF Fetch, After
<1>2. \A w \in Askers : asking[w] = AtRest
  BY <1>1 DEF BloodHoundInv, Resting, AtPeople
<1>3. IsJob(job) /\ answers \in [People -> Enriched]
  BY DEF BloodHoundInv, Shape
<1>4. clients \in Seq(ClientRecord) /\ job.bulk \in DOMAIN clients
  BY <1>1 DEF TroubleInv, Captured
<1>5. ~job.pooled
  BY <1>1 DEF TroubleInv, Divided, BaselineSteps
<1>6. /\ job'.at = After[job.at] /\ job'.bulk = job.bulk /\ job'.own = job.own
      /\ job'.pooled = job.pooled /\ job'.lost = (job.lost \/ ~ok)
  BY <1>1, <1>3 DEF IsJob
<1>7. After[job.at] \in BaselineSteps
  BY <1>1 DEF After, BaselineSteps
<1>8. ASSUME Clean' PROVE Settled'
  <2>1. ok /\ Clean
    BY <1>1, <1>6, <1>8 DEF Clean, NoMissCached
  <2>2. Settled
    BY <1>1, <2>1 DEF TroubleInv
  <2>3. ASSUME NEW p \in People PROVE Fetched(p) = Sofar(p, After[job.at])
    <3>1. answers[p] = Sofar(p, job.at)
      BY <1>1, <2>2 DEF Settled, BaselineSteps
    <3>2. CASE job.at = "da"
      <4>1. Fetched(p) = [answers[p] EXCEPT !.da = directory[p].members] /\ After[job.at] = "counts"
        BY <3>2 DEF Fetched, After
      <4> QED
        BY <3>1, <3>2, <4>1 DEF Sofar
    <3>3. CASE job.at = "counts"
      <4>1. Fetched(p) = [answers[p] EXCEPT !.controlled = directory[p].direct] /\ After[job.at] = "tier0"
        BY <3>3 DEF Fetched, After
      <4> QED
        BY <3>1, <3>3, <4>1 DEF Sofar
    <3>4. CASE job.at = "tier0"
      <4>1. Fetched(p) = [answers[p] EXCEPT !.tier0 = directory[p].control] /\ After[job.at] = "listing"
        BY <3>4 DEF Fetched, After
      <4>2. directory[p].control \in BOOLEAN
        BY DEF BloodHoundInv, Shape, Person
      <4> QED
        BY <3>1, <3>4, <4>1, <4>2 DEF Sofar
    <3> QED
      BY <1>1, <3>2, <3>3, <3>4
  <2>4. \A p, at : Sofar(p, at)' = Sofar(p, at)
    BY <1>1 DEF Sofar
  <2>5. \A p \in People : answers'[p] = Fetched(p)
    BY <1>1, <2>1
  <2> QED
    BY <1>6, <1>7, <2>3, <2>4, <2>5 DEF Settled, BaselineSteps, AtPeople
<1> QED
  BY <1>1, <1>2, <1>4, <1>5, <1>6, <1>7, <1>8, JobTroubles DEF BaselineSteps

\* Who is no candidate has in the baseline all that is expected.
LEMMA BaselineExpected ==
    ASSUME BloodHoundInv, TroubleInv, NEW p \in People,
           ~(directory[p].found /\ directory[p].candidate)
    PROVE  Sofar(p, "sweep") = Expected(p, FALSE)
<1>1. directory[p] \in Person /\ (~directory[p].found => directory[p].total = 0)
  BY DEF BloodHoundInv, Shape, TroubleInv, Swept
<1>2. directory[p].control \in BOOLEAN /\ directory[p].total \in Nat
  BY <1>1 DEF Person
<1>3. ~(directory[p].candidate /\ directory[p].total > 0)
  BY <1>1, <1>2
<1> QED
  BY <1>2, <1>3 DEF Sofar, Expected

LEMMA ListTrouble ==
    ASSUME BloodHoundInv, TroubleInv, NEW ok \in BOOLEAN, ListDomains(ok)
    PROVE  TroubleInv'
<1> DEFINE left == {p \in People : directory[p].found /\ directory[p].candidate}
<1>1. /\ job.at = "listing" /\ UNCHANGED <<directory, enricher, asking, answers>>
      /\ GetDomains(job.bulk, ok)
      /\ job' = [job EXCEPT !.at = "sweep", !.listed = ok, !.lost = @ \/ ~ok, !.left = left]
  BY DEF ListDomains
<1> HIDE DEF left
<1>2. \A w \in Askers : asking[w] = AtRest
  BY <1>1 DEF BloodHoundInv, Resting, AtPeople
<1>3. IsJob(job)
  BY DEF BloodHoundInv, Shape
<1>4. clients \in Seq(ClientRecord) /\ job.bulk \in DOMAIN clients
  BY <1>1 DEF TroubleInv, Captured
<1>5. ~job.pooled
  BY <1>1 DEF TroubleInv, Divided, BaselineSteps
<1>6. /\ job'.at = "sweep" /\ job'.bulk = job.bulk /\ job'.own = job.own /\ job'.left = left
      /\ job'.pooled = job.pooled /\ job'.lost = (job.lost \/ ~ok) /\ job'.listed = ok
  BY <1>1, <1>3 DEF IsJob
<1>7. SameEntries(clients, clients') /\ DOMAIN clients' = DOMAIN clients
  <2>1. CASE UNCHANGED clients
    BY <1>4, <2>1 DEF SameEntries
  <2>2. CASE clients' = [clients EXCEPT ![job.bulk].listed = @ \/ ok]
    <3>1. (clients[job.bulk].listed \/ ok) \in BOOLEAN
      OBVIOUS
    <3>2. clients' = [clients EXCEPT ![job.bulk].listed = (clients[job.bulk].listed \/ ok)]
      BY <2>2
    <3> QED
      BY <1>4, <3>1, <3>2, ListChanges
  <2> QED
    BY <1>1, <2>1, <2>2 DEF GetDomains
<1>8. ASSUME Clean' PROVE Settled'
  <2>1. Clean
    BY <1>1, <1>6, <1>7, <1>8, CleanBefore DEF SameEntries
  <2>2. Settled
    BY <1>1, <2>1 DEF TroubleInv
  <2>3. ASSUME NEW p \in People PROVE answers[p] = Sofar(p, "sweep")
    BY <1>1, <2>2 DEF Settled, BaselineSteps, Sofar
  <2>4. \A p \in People : AtStart(p)' = Sofar(p, "sweep") /\ Expected(p, job.pooled)' = Expected(p, FALSE)
    BY <1>1, <1>5, <1>6 DEF AtStart, Sofar, Expected
  <2>5. \A p \in People : Untaken(p)' => answers[p] = Expected(p, FALSE)
    BY <1>6, <2>3, BaselineExpected DEF Untaken, left
  <2> QED
    BY <1>1, <1>6, <2>3, <2>4, <2>5 DEF Settled, BaselineSteps
<1>9. clients' \in Seq(ClientRecord)
  BY <1>7 DEF SameEntries
<1>10. \A p \in left : directory[p].found /\ directory[p].candidate
  BY DEF left
<1> QED
  BY <1>1, <1>2, <1>4, <1>5, <1>6, <1>7, <1>8, <1>9, <1>10, JobTroubles DEF BaselineSteps

LEMMA FinishTrouble ==
    ASSUME BloodHoundInv, TroubleInv, FinishEnrich
    PROVE  TroubleInv'
<1>1. /\ job.at \in AtPeople /\ job.left = {} /\ \A w \in Askers : asking[w] = AtRest
      /\ job' = [job EXCEPT !.at = "done"]
      /\ UNCHANGED <<directory, clients, enricher, asking, answers>>
  BY DEF FinishEnrich, AtPeople
<1>2. /\ job'.at = "done" /\ job'.bulk = job.bulk /\ job'.own = job.own
      /\ job'.pooled = job.pooled /\ job'.lost = job.lost
  BY <1>1 DEF BloodHoundInv, Shape, IsJob
<1>3. clients \in Seq(ClientRecord) /\ job.bulk \in DOMAIN clients
  BY <1>1 DEF TroubleInv, Captured, AtPeople
<1>4. ASSUME Clean' PROVE Settled'
  <2>1. Clean
    BY <1>1, <1>2, <1>4 DEF Clean, NoMissCached
  <2>2. Settled
    BY <1>1, <2>1 DEF TroubleInv, AtPeople
  <2>3. AtRest.of = {}
    BY DEF AtRest
  <2>4. \A p \in People : answers[p] = Expected(p, job.pooled)
    BY <1>1, <2>2, <2>3 DEF Settled, Untaken
  <2>5. \A p \in People : Expected(p, job.pooled)' = Expected(p, job.pooled)
    BY <1>1, <1>2 DEF Expected
  <2> QED
    BY <1>1, <1>2, <2>4, <2>5 DEF Settled, BaselineSteps, AtPeople
<1> QED
  BY <1>1, <1>2, <1>3, <1>4, JobTroubles DEF BaselineSteps, AtPeople

LEMMA TroubleInvInit == BloodHoundInit => TroubleInv
<1> SUFFICES ASSUME BloodHoundInit PROVE TroubleInv
  OBVIOUS
<1>1. NewClient \in ClientRecord
  BY Zenon DEF NewClient, ClientRecord, Cached
<1>2. job.at = "idle" /\ job.own = 0 /\ job.bulk = 0 /\ clients = <<NewClient>> /\ enricher = 1
  BY DEF BloodHoundInit, NoJob
<1>3. Captured
  BY <1>1, <1>2 DEF Captured
<1>4. AtRest.of = {} /\ AtRest.at = "idle"
  BY DEF AtRest
<1>5. \A w \in Askers : asking[w] = AtRest
  BY DEF BloodHoundInit
<1>6. Divided /\ Resolving
  BY <1>2, <1>4, <1>5 DEF Divided, Resolving, BaselineSteps
<1>7. Swept
  BY <1>2 DEF Swept, BloodHoundInit, Absent
<1> QED
  BY <1>2, <1>3, <1>6, <1>7 DEF TroubleInv

LEMMA TroubleInvStep ==
    ASSUME BloodHoundInv, TroubleInv, BloodHoundNext
    PROVE  TroubleInv'
<1>1. ASSUME NEW w \in Askers, Inquire(w) PROVE TroubleInv'
  <2>1. TRUE \in BOOLEAN
    OBVIOUS
  <2> QED
    BY <1>1, <2>1, TakeTrouble, GiveTrouble, AsksTrouble DEF Inquire
<1> QED
  BY <1>1, StartTrouble, ReconfigureTrouble, BuildTrouble, PropsTrouble, FetchTrouble,
     ListTrouble, FinishTrouble DEF BloodHoundNext

LEMMA TroubleInvBoot ==
    ASSUME BloodHoundInv, TroubleInv, BloodHoundBoot
    PROVE  TroubleInv'
<1>1. /\ clients' = <<NewClient>> /\ enricher' = 1 /\ job' = NoJob
      /\ \A w \in Askers : asking'[w] = AtRest
      /\ directory' = directory
  BY DEF BloodHoundBoot
<1>2. NewClient \in ClientRecord
  BY Zenon DEF NewClient, ClientRecord, Cached
<1>3. job'.at = "idle" /\ job'.own = 0 /\ job'.bulk = 0
  BY <1>1 DEF NoJob
<1>4. Captured'
  BY <1>1, <1>2, <1>3 DEF Captured
<1>5. Resolving' /\ Divided'
  BY <1>1, <1>3, NobodyAsks DEF Divided, BaselineSteps
<1>6. Swept'
  BY <1>1, <1>3 DEF TroubleInv, Swept
<1> QED
  BY <1>3, <1>4, <1>5, <1>6 DEF TroubleInv

LEMMA TroubleInvStutters ==
    ASSUME TroubleInv, UNCHANGED bloodHoundVars
    PROVE  TroubleInv'
<1> USE DEF bloodHoundVars
<1>1. Captured' /\ Divided' /\ Swept'
  BY DEF TroubleInv, Captured, Divided, Swept
<1>2. Resolving'
  BY DEF TroubleInv, Resolving, Client, Cache
<1>3. Clean' => Clean
  BY DEF Clean, NoMissCached
<1>4. Settled => Settled'
  BY DEF Settled, AtStart, Sofar, Expected, Untaken
<1>5. Tracked => Tracked'
  BY DEF Tracked
<1> QED
  BY <1>1, <1>2, <1>3, <1>4, <1>5 DEF TroubleInv

LEMMA NoTrouble == TroubleInv => Untroubled
<1> SUFFICES ASSUME TroubleInv, job.at = "done", Clean PROVE \A p \in People : answers[p] = Expected(p, job.pooled)
  BY DEF Untroubled, Clean
<1> QED
  BY DEF TroubleInv, Settled

LEMMA BloodHoundTyped == BloodHoundInv /\ TroubleInv => BloodHoundTypeOK
<1> SUFFICES ASSUME BloodHoundInv, TroubleInv PROVE BloodHoundTypeOK
  OBVIOUS
<1>1. /\ directory \in [People -> Person] /\ answers \in [People -> Enriched]
      /\ asking \in [Askers -> Asker] /\ job.left \subseteq People
  BY DEF BloodHoundInv, Shape, IsJob
<1>2. clients \in Seq(ClientRecord) /\ enricher \in DOMAIN clients
      /\ {job.own, job.bulk} \subseteq DOMAIN clients \cup {0}
  BY DEF TroubleInv, Captured
<1>3. ASSUME NEW c \in DOMAIN clients
      PROVE  /\ clients[c].listed \in BOOLEAN
             /\ {clients[c].daGroups, clients[c].anchorSIDs} \subseteq [Targets -> Cached]
  <2>1. clients[c] \in ClientRecord
    BY <1>2
  <2> QED
    BY <2>1 DEF ClientRecord
<1>4. ASSUME NEW w \in Askers
      PROVE  /\ asking[w].todo \in Seq(Targets)
             /\ asking[w].of \subseteq People /\ (asking[w] # AtRest => Cardinality(asking[w].of) = 1)
  <2>1. asking[w].todo \in Seq(Targets) /\ asking[w].of \subseteq People
    BY <1>1 DEF Asker
  <2>2. ASSUME asking[w] # AtRest PROVE Cardinality(asking[w].of) = 1
    <3>1. PICK p \in People : asking[w].of = {p}
      BY <2>2 DEF BloodHoundInv, Placed, HasFound
    <3> QED
      BY <3>1, FS_Singleton
  <2> QED
    BY <2>1, <2>2
<1> QED
  BY <1>1, <1>2, <1>3, <1>4 DEF BloodHoundTypeOK

\* A job none of whose calls failed says of everybody what it should, whatever
\* failed before it, was reconfigured beside it or was cached by whom, as long as
\* its client holds no miss from an earlier failure (setAnchorSID, setDAGroup).
THEOREM NothingForgotten == BloodHoundSpec => []Untroubled
<1> DEFINE I == BloodHoundInv /\ TroubleInv
<1>1. ProcessInit /\ BloodHoundInit => I
  BY BloodHoundInvInit, TroubleInvInit
<1>2. I /\ [BloodHoundNext]_<<process, bloodHoundVars>> => I'
  <2> SUFFICES ASSUME I, [BloodHoundNext]_<<process, bloodHoundVars>>
               PROVE  I'
    OBVIOUS
  <2>1. BloodHoundNext \/ UNCHANGED bloodHoundVars
    OBVIOUS
  <2> QED
    BY <2>1, BloodHoundInvStep, BloodHoundInvStutters, TroubleInvStep, TroubleInvStutters
<1>3. I => Untroubled
  BY NoTrouble
<1> QED
  BY <1>1, <1>2, <1>3, PTL DEF BloodHoundSpec

=============================================================================

----------------------------- MODULE StoreProofs -----------------------------
(***************************************************************************)
(* Proofs about Store, for any number of audits, requests, cached datasets *)
(* and faults.                                                             *)
(***************************************************************************)
EXTENDS Store, FiniteSetTheorems, SequenceTheorems, WellFoundedInduction, TLAPS

-----------------------------------------------------------------------------
(* The cache: lru as a list without duplicates.                            *)

Elements(seq) == {seq[i] : i \in DOMAIN seq}
Once(seq)     == \A i, j \in DOMAIN seq : seq[i] = seq[j] => i = j

\* lru has every entry of table exactly once.
Mirrors(table, seq) == Elements(seq) = Listed(table) /\ Once(seq)

\* A set of bounded numbers has a least one.
LEMMA LeastNumber ==
    ASSUME NEW n \in Nat, NEW I \in SUBSET (0..n), I # {}
    PROVE  \E i \in I : \A j \in I : i <= j
<1> DEFINE upTo(i) == {j \in I : j <= i}
           T == {upTo(i) : i \in I}
<1>1. IsFiniteSet(0..n)
  BY FS_Interval
<1>2. IsWellFoundedOn(StrictSubsetOrdering(0..n), SUBSET (0..n))
  BY <1>1, FS_StrictSubsetOrderingWellFounded, FS_FiniteSubsetsOfFinite
<1>3. T \subseteq SUBSET (0..n) /\ T # {}
  OBVIOUS
<1>4. PICK t \in T : \A u \in T : ~ (<<u, t>> \in StrictSubsetOrdering(0..n))
  <2> HIDE DEF T
  <2> QED
    BY <1>2, <1>3, WFMin
<1>5. PICK i \in I : t = upTo(i)
  OBVIOUS
<1>6. ASSUME NEW j \in I, ~(i <= j) PROVE FALSE
  <2>0. I \subseteq Int /\ j < i
    BY <1>6
  <2>1. upTo(j) \subseteq upTo(i) /\ i \in upTo(i) /\ i \notin upTo(j)
    <3>1. \A k \in I : k <= j => k <= i
      BY <2>0
    <3>2. i \in I /\ i <= i /\ ~(i <= j)
      BY <1>6, <2>0
    <3> QED
      BY <3>1, <3>2, Zenon
  <2>2. upTo(i) \in SUBSET (0..n) /\ upTo(j) \in SUBSET (0..n)
    OBVIOUS
  <2>3. <<upTo(j), t>> \in StrictSubsetOrdering(0..n)
    BY <1>5, <2>1, <2>2 DEF StrictSubsetOrdering
  <2>4. upTo(j) \in T
    BY Zenon
  <2> QED
    BY <1>4, <2>3, <2>4
<1>7. \A j \in I : i <= j
  BY <1>6
<1> QED
  BY <1>7

\* What is left of a list without its first n entries.
LEMMA Dropping ==
    ASSUME NEW S, NEW seq \in Seq(S), NEW n \in Nat, n <= Len(seq)
    PROVE  LET rest == SubSeq(seq, n + 1, Len(seq))
           IN  /\ rest \in Seq(S) /\ Len(rest) = Len(seq) - n /\ DOMAIN rest = 1..(Len(seq) - n)
               /\ \A i \in 1..(Len(seq) - n) : n + i \in 1..Len(seq) /\ rest[i] = seq[n + i]
<1> DEFINE rest == SubSeq(seq, n + 1, Len(seq))
<1>1. Len(seq) \in Nat /\ \A i \in 1..Len(seq) : seq[i] \in S
  BY LenProperties, ElementOfSeq
<1>2. n + 1 \in Int /\ Len(seq) \in Int /\ \A i \in (n + 1)..Len(seq) : seq[i] \in S
  BY <1>1
<1>3. /\ rest \in Seq(S)
      /\ Len(rest) = IF n + 1 <= Len(seq) THEN Len(seq) - (n + 1) + 1 ELSE 0
      /\ \A i \in 1..(Len(seq) - (n + 1) + 1) : rest[i] = seq[(n + 1) + i - 1]
  BY <1>2, SubSeqProperties
<1> HIDE DEF rest
<1>4. Len(rest) = Len(seq) - n
  BY <1>1, <1>3
<1>5. ASSUME NEW i \in 1..(Len(seq) - n)
      PROVE  n + i \in 1..Len(seq) /\ rest[i] = seq[n + i]
  <2>1. i \in 1..(Len(seq) - (n + 1) + 1) /\ (n + 1) + i - 1 = n + i /\ n + i \in 1..Len(seq)
    BY <1>1
  <2> QED
    BY <1>3, <2>1
<1>6. DOMAIN rest = 1..(Len(seq) - n)
  BY <1>3, <1>4, LenProperties
<1> QED
  BY <1>3, <1>4, <1>5, <1>6 DEF rest

\* removeLRU: the entry is gone, the others are there in their order.
LEMMA Removing ==
    ASSUME NEW seq \in Seq(Ids), NEW id, Once(seq)
    PROVE  /\ RemoveLRU(seq, id) \in Seq(Ids)
           /\ Once(RemoveLRU(seq, id))
           /\ Elements(RemoveLRU(seq, id)) = Elements(seq) \ {id}
<1> DEFINE at == {i \in DOMAIN seq : seq[i] = id}
           n  == CHOOSE i \in at : \A j \in at : i <= j
           L  == SubSeq(seq, 1, n - 1)
           R  == SubSeq(seq, n + 1, Len(seq))
<1>0. DOMAIN seq = 1..Len(seq) /\ Len(seq) \in Nat /\ \A i \in 1..Len(seq) : seq[i] \in Ids
  BY LenProperties, ElementOfSeq
<1>1. CASE at = {}
  BY <1>0, <1>1 DEF RemoveLRU, Elements
<1>2. CASE at # {}
  <2>1. at \in SUBSET (0..Len(seq))
    BY <1>0
  <2>2. n \in at
    BY <1>0, <1>2, <2>1, LeastNumber
  <2>3. n \in 1..Len(seq) /\ seq[n] = id
    BY <1>0, <2>2
  <2> HIDE DEF n
  <2>4. /\ L \in Seq(Ids) /\ Len(L) = n - 1
        /\ \A i \in 1..(n - 1) : L[i] = seq[i]
    BY <1>0, <2>3, SubSeqProperties
  <2>5. /\ R \in Seq(Ids) /\ Len(R) = Len(seq) - n
        /\ \A i \in 1..(Len(seq) - n) : n + i \in 1..Len(seq) /\ R[i] = seq[n + i]
    <3>1. n \in Nat /\ n <= Len(seq)
      BY <1>0, <2>3
    <3> QED
      BY <3>1, Dropping
  <2> DEFINE S == L \o R
  <2>6. RemoveLRU(seq, id) = S
    BY <1>2 DEF RemoveLRU, n
  <2>7. /\ S \in Seq(Ids) /\ Len(S) = Len(seq) - 1 /\ DOMAIN S = 1..(Len(seq) - 1)
        /\ \A i \in 1..(Len(seq) - 1) : S[i] = IF i < n THEN seq[i] ELSE seq[i + 1]
    <3> HIDE DEF L, R
    <3>1. S \in Seq(Ids) /\ Len(S) = Len(L) + Len(R)
      BY <2>4, <2>5, ConcatProperties
    <3>2. \A i \in 1..(Len(L) + Len(R)) : S[i] = IF i <= Len(L) THEN L[i] ELSE R[i - Len(L)]
      BY <2>4, <2>5, ConcatProperties
    <3> HIDE DEF S
    <3>3. Len(S) = Len(seq) - 1
      BY <1>0, <2>3, <2>4, <2>5, <3>1
    <3>4. DOMAIN S = 1..(Len(seq) - 1)
      BY <3>1, <3>3, LenProperties
    <3>5. ASSUME NEW i \in 1..(Len(seq) - 1)
          PROVE  S[i] = IF i < n THEN seq[i] ELSE seq[i + 1]
      <4>1. i \in 1..(Len(L) + Len(R)) /\ Len(L) = n - 1
        BY <1>0, <2>3, <2>4, <2>5
      <4>2. CASE i < n
        <5>1. i <= Len(L) /\ i \in 1..(n - 1)
          BY <1>0, <2>3, <4>1, <4>2
        <5> QED
          BY <2>4, <3>2, <4>1, <4>2, <5>1
      <4>3. CASE ~(i < n)
        <5>1. /\ ~(i <= Len(L)) /\ i - Len(L) \in 1..(Len(seq) - n)
              /\ n + (i - Len(L)) = i + 1
          BY <1>0, <2>3, <4>1, <4>3
        <5>2. R[i - Len(L)] = seq[n + (i - Len(L))]
          BY <2>5, <5>1
        <5> QED
          BY <3>2, <4>1, <4>3, <5>1, <5>2
      <4> QED
        BY <4>2, <4>3
    <3> QED
      BY <3>1, <3>3, <3>4, <3>5
  <2> HIDE DEF S
  <2>8. Once(S)
    BY <1>0, <2>3, <2>7 DEF Once
  <2>9. Elements(S) = Elements(seq) \ {id}
    <3>1. \A x \in Elements(S) : x \in Elements(seq) /\ x # id
      BY <1>0, <2>3, <2>7 DEF Elements, Once
    <3>2. ASSUME NEW x \in Elements(seq), x # id
          PROVE  x \in Elements(S)
      <4>1. PICK i \in 1..Len(seq) : seq[i] = x
        BY <1>0 DEF Elements
      <4>2. i # n
        BY <2>3, <3>2, <4>1
      <4>3. \E j \in 1..(Len(seq) - 1) : S[j] = x
        <5>1. CASE i < n
          BY <1>0, <2>3, <2>7, <4>1, <5>1
        <5>2. CASE i > n
          <6>1. i - 1 \in 1..(Len(seq) - 1) /\ ~(i - 1 < n) /\ (i - 1) + 1 = i
            BY <1>0, <2>3, <5>2
          <6> QED
            BY <2>7, <4>1, <6>1
        <5> QED
          BY <1>0, <2>3, <4>2, <5>1, <5>2
      <4> QED
        BY <2>7, <4>3 DEF Elements
    <3> QED
      BY <3>1, <3>2
  <2> QED
    BY <2>6, <2>7, <2>8, <2>9
<1> QED
  BY <1>1, <1>2

\* bumpLRU: the entry is there, once.
LEMMA Bumping ==
    ASSUME NEW seq \in Seq(Ids), NEW id \in Ids, Once(seq)
    PROVE  /\ BumpLRU(seq, id) \in Seq(Ids)
           /\ Once(BumpLRU(seq, id))
           /\ Elements(BumpLRU(seq, id)) = Elements(seq) \cup {id}
<1> DEFINE rest == RemoveLRU(seq, id)
           S == Append(rest, id)
<1>1. /\ rest \in Seq(Ids) /\ Once(rest) /\ Elements(rest) = Elements(seq) \ {id}
  BY Removing
<1> HIDE DEF rest
<1>2. DOMAIN rest = 1..Len(rest) /\ Len(rest) \in Nat
  BY <1>1, LenProperties
<1>3. /\ S \in Seq(Ids) /\ Len(S) = Len(rest) + 1
      /\ \A i \in 1..Len(rest) : S[i] = rest[i]
      /\ S[Len(rest) + 1] = id
  BY <1>1, AppendProperties
<1> HIDE DEF S
<1>4. DOMAIN S = 1..(Len(rest) + 1)
  BY <1>3, LenProperties
<1>5. \A i \in 1..Len(rest) : rest[i] # id
  BY <1>1, <1>2 DEF Elements
<1>6. Once(S)
  BY <1>1, <1>2, <1>3, <1>4, <1>5 DEF Once
<1>7. Elements(S) = Elements(rest) \cup {id}
  <2>1. \A x \in Elements(S) : x \in Elements(rest) \cup {id}
    BY <1>2, <1>3, <1>4 DEF Elements
  <2>2. \A x \in Elements(rest) : x \in Elements(S)
    BY <1>2, <1>3, <1>4 DEF Elements
  <2>3. id \in Elements(S)
    <3>1. Len(rest) + 1 \in DOMAIN S
      BY <1>2, <1>4
    <3> QED
      BY <1>3, <3>1 DEF Elements
  <2> QED
    BY <2>1, <2>2, <2>3
<1> QED
  BY <1>1, <1>3, <1>6, <1>7 DEF BumpLRU, S, rest

LEMMA ListedFinite ==
    ASSUME NEW table
    PROVE  /\ IsFiniteSet(Listed(table)) /\ Cardinality(Listed(table)) \in Nat
           /\ Cardinality(Listed(table)) <= Cardinality(Ids)
BY StoreAssumption, FS_Subset, FS_CardinalityType DEF Listed

\* evict drops no more than there is, and nothing when nothing is too many.
LEMMA SurplusIs ==
    ASSUME NEW table, NEW seq \in Seq(Ids)
    PROVE  /\ Surplus(table, seq) \in 0..Len(seq)
           /\ Cardinality(Listed(table)) <= Cap => Surplus(table, seq) = 0
<1> DEFINE kept(n) == Listed(table) \ {seq[i] : i \in 1..n}
           enough(n) == n = Len(seq) \/ Cardinality(kept(n)) <= Cap
           Good == {n \in 0..Len(seq) : enough(n)}
           first(n) == enough(n) /\ \A m \in 0..(n - 1) : ~enough(m)
<1>0. Len(seq) \in Nat
  BY LenProperties
<1>1. Surplus(table, seq) = CHOOSE n \in 0..Len(seq) : first(n)
  BY DEF Surplus
<1>2. PICK n \in Good : \A m \in Good : n <= m
  <2>1. Len(seq) \in Good
    BY <1>0
  <2>2. Good \in SUBSET (0..Len(seq))
    OBVIOUS
  <2> QED
    BY <1>0, <2>1, <2>2, LeastNumber
<1>3. n \in 0..Len(seq) /\ first(n)
  BY <1>0, <1>2
<1>4. Cardinality(Listed(table)) <= Cap => enough(0)
  <2>1. kept(0) = Listed(table)
    OBVIOUS
  <2> QED
    BY <2>1
<1> HIDE DEF enough
<1>5. Surplus(table, seq) \in 0..Len(seq) /\ first(Surplus(table, seq))
  BY <1>1, <1>3
<1>6. enough(0) => Surplus(table, seq) = 0
  BY <1>0, <1>5
<1> QED
  BY <1>4, <1>5, <1>6

\* evict: entries and lru go together.
LEMMA Evicting ==
    ASSUME NEW table \in Table, NEW seq \in Seq(Ids), Mirrors(table, seq), Evict(table, seq)
    PROVE  /\ cache' \in Table /\ lru' \in Seq(Ids) /\ Mirrors(cache', lru')
           /\ \A id \in Ids : cache'[id] \in {None, table[id]}
           /\ Cardinality(Ids) <= Cap => cache' = table
<1> DEFINE n == Surplus(table, seq)
<1>0. DOMAIN seq = 1..Len(seq) /\ Len(seq) \in Nat /\ \A i \in 1..Len(seq) : seq[i] \in Ids
  BY LenProperties, ElementOfSeq
<1>1. n \in 0..Len(seq) /\ (Cardinality(Ids) <= Cap => n = 0)
  <2>1. Cardinality(Listed(table)) \in Nat /\ Cardinality(Listed(table)) <= Cardinality(Ids)
    BY ListedFinite
  <2>2. Cardinality(Ids) \in Nat /\ Cap \in Nat
    BY StoreAssumption, FS_CardinalityType
  <2> QED
    BY <2>1, <2>2, SurplusIs
<1>2. lru' = SubSeq(seq, n + 1, Len(seq))
  BY DEF Evict
<1>3. cache' = [id \in Ids |-> IF \E i \in 1..n : seq[i] = id THEN None ELSE table[id]]
  BY DEF Evict
<1> HIDE DEF n
<1> DEFINE rest == SubSeq(seq, n + 1, Len(seq))
<1>4. /\ rest \in Seq(Ids) /\ DOMAIN rest = 1..(Len(seq) - n)
      /\ \A i \in 1..(Len(seq) - n) : n + i \in 1..Len(seq) /\ rest[i] = seq[n + i]
  <2>1. n \in Nat /\ n <= Len(seq)
    BY <1>0, <1>1
  <2> QED
    BY <2>1, Dropping
<1>5. lru' = rest
  BY <1>2
<1> HIDE DEF rest
<1>6. cache' \in Table
  BY <1>3 DEF Table
<1>7. Once(rest)
  <2>1. ASSUME NEW i \in 1..(Len(seq) - n), NEW j \in 1..(Len(seq) - n), rest[i] = rest[j]
        PROVE  i = j
    <3>1. n + i = n + j
      BY <1>0, <1>4, <2>1 DEF Mirrors, Once
    <3> QED
      BY <1>0, <1>1, <3>1
  <2> QED
    BY <1>4, <2>1 DEF Once
<1>8. Elements(rest) = Listed(cache')
  <2>1. ASSUME NEW x \in Elements(rest)
        PROVE  x \in Listed(cache')
    <3>1. PICK i \in 1..(Len(seq) - n) : rest[i] = x
      BY <1>4 DEF Elements
    <3>2. n + i \in 1..Len(seq) /\ seq[n + i] = x
      BY <1>4, <3>1
    <3>3. x \in Listed(table)
      BY <1>0, <3>2 DEF Mirrors, Elements
    <3>4. \A j \in 1..n : seq[j] # x
      BY <1>0, <1>1, <3>2 DEF Mirrors, Once
    <3> QED
      BY <1>3, <3>3, <3>4 DEF Listed
  <2>2. ASSUME NEW x \in Listed(cache')
        PROVE  x \in Elements(rest)
    <3>1. x \in Listed(table) /\ \A j \in 1..n : seq[j] # x
      BY <1>3, <2>2 DEF Listed
    <3>2. PICK j \in 1..Len(seq) : seq[j] = x
      BY <1>0, <3>1 DEF Mirrors, Elements
    <3>3. j - n \in 1..(Len(seq) - n) /\ n + (j - n) = j
      BY <1>0, <1>1, <3>1, <3>2
    <3>4. rest[j - n] = x
      BY <1>4, <3>2, <3>3
    <3> QED
      BY <1>4, <3>3, <3>4 DEF Elements
  <2> QED
    BY <2>1, <2>2
<1>9. Cardinality(Ids) <= Cap => cache' = table
  BY <1>1, <1>3 DEF Table
<1> QED
  BY <1>3, <1>4, <1>5, <1>6, <1>7, <1>8, <1>9 DEF Mirrors

\* A cache and an lru that mirror each other are of one size.
LEMMA MirrorsCount ==
    ASSUME NEW table, NEW seq \in Seq(Ids), Mirrors(table, seq)
    PROVE  Len(seq) = Cardinality(Listed(table))
<1>1. Len(seq) \in Nat /\ DOMAIN seq = 1..Len(seq) /\ seq \in [1..Len(seq) -> Ids]
  BY LenProperties
<1>2. seq \in [1..Len(seq) -> Listed(table)]
  BY <1>1 DEF Mirrors, Elements
<1>3. seq \in Bijection(1..Len(seq), Listed(table))
  BY <1>1, <1>2 DEF Mirrors, Elements, Once, Bijection, Injection, Surjection, IsInjective
<1> QED
  BY <1>1, <1>3, FS_CountingElements DEF ExistsBijection

-----------------------------------------------------------------------------
(* The inductive invariant, whatever the races: types, where each kind of  *)
(* operation can stand, who holds which lock, and the cache.               *)

Holder(c) ==
    \/ /\ kind[c] = "mutate"
       /\ pc[c] \in {"load", "fetch", "insert", "swap", "persist", "seal", "index"}
    \/ kind[c] = "delete" /\ pc[c] \in {"persist", "blob"}

Steps == {"idle", "lock", "load", "fetch", "insert", "swap", "persist", "seal", "index", "blob",
          "rollback"}

Requests ==
    /\ mutate \in [Ids -> Clients \cup {None}]
    /\ writeMu \in Clients \cup {None}
    /\ pc \in [Clients -> Steps]
    /\ kind \in [Clients -> Kinds]
    /\ aud \in [Clients -> Ids \cup {None}]
    /\ \A c \in InFlight : aud[c] \in Ids
    /\ val \in [Clients -> Datasets]
    /\ bytes \in [Clients -> Table]

Placed == \A c \in Clients :
    /\ pc[c] # "idle" => kind[c] \in Ops
    /\ kind[c] = "read" => pc[c] \in {"idle", "load", "fetch", "insert"}
    /\ kind[c] = "create" => pc[c] \in {"persist", "seal", "index", "rollback"}
    /\ kind[c] = "mutate" =>
           pc[c] \in {"lock", "load", "fetch", "insert", "swap", "persist", "seal", "index"}
    /\ kind[c] = "delete" => pc[c] \in {"lock", "persist", "blob"}

Held ==
    /\ \A c \in Clients, id \in Ids : mutate[id] = c <=> Holder(c) /\ aud[c] = id
    /\ \A c \in Clients : writeMu = c <=> pc[c] \in {"seal", "index", "blob"}

\* The updates still to be made fit under the bound.
Pending == {c \in Clients : kind[c] = "mutate" /\ pc[c] \in {"lock", "load", "fetch", "insert", "swap"}}
Counted == made \in Nat /\ made + Cardinality(Pending) <= MaxUpdates

Memory == index \in Table /\ cache \in Table /\ lru \in Seq(Ids) /\ Mirrors(cache, lru)

Rest ==
    /\ blobs \in Table /\ unreadable \subseteq Ids /\ dindex \in Table
    /\ unlocked \in BOOLEAN
    /\ loader \in {"off", "read", "rebuild", "install", "save"}
    /\ rebuilt \in Table
    /\ clearing \in BOOLEAN
    /\ faults \in 0..MaxFaults
    /\ fate \in [Ids -> Fates]
    /\ acked \in [Ids -> Datasets]
    /\ failed \in BOOLEAN

Controlled == Requests /\ Placed /\ Held
Base == Rest /\ Memory /\ Controlled /\ Counted

LEMMA PendingCount == Cardinality(Pending) \in Nat /\ IsFiniteSet(Pending)
BY StoreAssumption, FS_Subset, FS_CardinalityType DEF Pending

LEMMA BaseTyped ==
    ASSUME Base
    PROVE  TypeOK /\ LruMirrorsCache
<1>1. made \in 0..MaxUpdates
  <2>1. Cardinality(Pending) \in Nat /\ MaxUpdates \in Nat
    BY PendingCount, StoreAssumption
  <2> QED
    BY <2>1 DEF Base, Counted
<1>2. LruMirrorsCache
  BY MirrorsCount DEF Base, Memory, Mirrors, Elements, LruMirrorsCache
<1> QED
  BY <1>1, <1>2, Zenon DEF Base, Rest, Memory, Controlled, Requests, Steps, TypeOK

LEMMA Finishing ==
    ASSUME Counted, Pending' \subseteq Pending, made' = made
    PROVE  Counted'
<1>1. IsFiniteSet(Pending) /\ Cardinality(Pending) \in Nat
  BY PendingCount
<1>2. Cardinality(Pending') \in Nat /\ Cardinality(Pending') <= Cardinality(Pending)
  BY <1>1, FS_Subset, FS_CardinalityType
<1>3. MaxUpdates \in Nat
  BY StoreAssumption
<1> QED
  BY <1>1, <1>2, <1>3 DEF Counted

LEMMA EmptyTable == Empty \in Table /\ Listed(Empty) = {} /\ Mirrors(Empty, <<>>) /\ <<>> \in Seq(Ids)
BY StoreAssumption DEF Empty, Table, Listed, Mirrors, Elements, Once

\* A request that returns leaves its locks and its locals.
LEMMA Returning ==
    ASSUME Controlled, NEW c \in Clients, Return(c)
    PROVE  Controlled' /\ Pending' \subseteq Pending
<1>1. Requests'
  BY StoreAssumption, EmptyTable DEF Controlled, Requests, Return, Steps, Kinds, Datasets, InFlight
<1>2. Placed'
  BY DEF Controlled, Requests, Placed, Return, Steps, Kinds
<1>3. Held'
  BY StoreAssumption DEF Controlled, Requests, Held, Holder, Return, Steps, Kinds
<1>4. Pending' \subseteq Pending
  BY DEF Controlled, Requests, Pending, Return
<1> QED
  BY <1>1, <1>2, <1>3, <1>4 DEF Controlled

\* A request that moves on and keeps the locks it has.
LEMMA Moving ==
    ASSUME Controlled, NEW c \in Clients, pc[c] # "idle", NEW at \in Steps \ {"idle", "lock"},
           Goto(c, at), UNCHANGED <<kind, aud, locks>>,
           val' \in [Clients -> Datasets], bytes' \in [Clients -> Table],
           kind[c] = "read" => at \in {"fetch", "insert"},
           kind[c] = "create" => at = "rollback" /\ pc[c] = "persist",
           kind[c] = "mutate" => at \in {"fetch", "insert", "swap", "persist"} /\ pc[c] # "lock",
           kind[c] # "delete", pc[c] \notin {"seal", "index"}
    PROVE  Controlled'
<1>1. Requests'
  BY DEF Controlled, Requests, Goto, locks, InFlight
<1>2. Placed'
  BY DEF Controlled, Requests, Placed, Goto, Steps, Kinds
<1>3. Held'
  BY DEF Controlled, Requests, Held, Holder, Placed, Goto, locks, Steps, Kinds
<1> QED
  BY <1>1, <1>2, <1>3 DEF Controlled

LEMMA Idling ==
    ASSUME Controlled, Counted, UNCHANGED <<locks, local, made>>
    PROVE  Controlled' /\ Counted'
<1> USE DEF locks, local
<1>1. Requests'
  BY DEF Controlled, Requests, InFlight
<1>2. Placed' /\ Held'
  BY DEF Controlled, Placed, Held, Holder
<1>3. Counted'
  BY DEF Counted, Pending
<1> QED
  BY <1>1, <1>2, <1>3 DEF Controlled

\* What is done to the cache is done to lru.
LEMMA Filling ==
    ASSUME Memory, NEW id \in Ids, NEW ds \in Datasets
    PROVE  LET full == [cache EXCEPT ![id] = ds]
           IN  full \in Table /\ BumpLRU(lru, id) \in Seq(Ids) /\ Mirrors(full, BumpLRU(lru, id))
<1> DEFINE full == [cache EXCEPT ![id] = ds]
<1>1. full \in Table
  BY DEF Memory, Table
<1>2. Listed(full) = Listed(cache) \cup {id}
  BY StoreAssumption DEF Memory, Table, Listed
<1>3. /\ BumpLRU(lru, id) \in Seq(Ids) /\ Once(BumpLRU(lru, id))
      /\ Elements(BumpLRU(lru, id)) = Elements(lru) \cup {id}
  BY Bumping DEF Memory, Mirrors
<1> QED
  BY <1>1, <1>2, <1>3 DEF Memory, Mirrors

LEMMA Touching ==
    ASSUME Memory, NEW id \in Ids, cache[id] # None
    PROVE  BumpLRU(lru, id) \in Seq(Ids) /\ Mirrors(cache, BumpLRU(lru, id))
<1>1. Listed(cache) = Listed(cache) \cup {id}
  BY DEF Listed
<1>2. /\ BumpLRU(lru, id) \in Seq(Ids) /\ Once(BumpLRU(lru, id))
      /\ Elements(BumpLRU(lru, id)) = Elements(lru) \cup {id}
  BY Bumping DEF Memory, Mirrors
<1> QED
  BY <1>1, <1>2 DEF Memory, Mirrors

LEMMA Emptying ==
    ASSUME Memory, NEW id \in Ids
    PROVE  LET rest == [cache EXCEPT ![id] = None]
           IN  rest \in Table /\ RemoveLRU(lru, id) \in Seq(Ids) /\ Mirrors(rest, RemoveLRU(lru, id))
<1> DEFINE rest == [cache EXCEPT ![id] = None]
<1>1. rest \in Table
  BY DEF Memory, Table
<1>2. Listed(rest) = Listed(cache) \ {id}
  BY DEF Memory, Table, Listed
<1>3. /\ RemoveLRU(lru, id) \in Seq(Ids) /\ Once(RemoveLRU(lru, id))
      /\ Elements(RemoveLRU(lru, id)) = Elements(lru) \ {id}
  BY Removing DEF Memory, Mirrors
<1> QED
  BY <1>1, <1>2, <1>3 DEF Memory, Mirrors

\* Lock under a SaveAudit.
LEMMA LockInSaveBase ==
    ASSUME Base, NEW c \in Clients, LockInSave(c)
    PROVE  Base'
<1> USE DEF LockInSave, Goto, disk, memory, history
<1>0. aud[c] \in Ids /\ kind[c] \in {"create", "mutate"}
  BY DEF Base, Controlled, Requests, Placed, Kinds, InFlight
<1>1. Rest'
  BY DEF Base, Rest
<1>2. Memory'
  BY DEF Base, Memory
<1>3. Requests'
  BY DEF Base, Controlled, Requests, InFlight, Steps
<1>4. Placed'
  BY <1>0 DEF Base, Controlled, Requests, Placed
<1>5. Held'
  BY <1>0, StoreAssumption DEF Base, Controlled, Requests, Held, Holder, Placed
<1>6. Pending' \subseteq Pending
  BY <1>0 DEF Base, Controlled, Requests, Pending
<1> QED
  BY <1>1, <1>2, <1>3, <1>4, <1>5, <1>6, Finishing DEF Base, Controlled

LEMMA Quarantining ==
    ASSUME Base, NEW ids, Quarantine(ids)
    PROVE  blobs' \in Table /\ rebuilt' \in Table /\ unreadable' = {} /\ loader' = "install"
BY DEF Quarantine, Base, Rest, Table

\* Lock, Unlock and loadIndex.
LEMMA LockUnlockBase ==
    ASSUME Base, LockUnlock
    PROVE  Base'
<1> SUFFICES ASSUME \A c \in Clients : ~LockInSave(c) PROVE Base'
  BY LockInSaveBase
<1>1. Controlled' /\ Counted'
  <2>1. UNCHANGED <<locks, local, made>>
    BY DEF LockUnlock, LockVault, LockInLoadAll, LockClear, UnlockVault, LoadIndex, RebuildIndex,
           InstallRebuilt, SaveRebuilt, LoadFails
  <2> QED
    BY <2>1, Idling DEF Base
<1>2. Rest'
  <2> USE EmptyTable DEF Base, Rest, disk, history, memory, loading
  <2>1. CASE LockVault
    BY <2>1 DEF LockVault
  <2>2. CASE LockClear
    BY <2>2 DEF LockClear
  <2>3. CASE UnlockVault
    BY <2>3 DEF UnlockVault
  <2>4. CASE LoadIndex
    BY <2>4 DEF LoadIndex
  <2>5. CASE RebuildIndex
    BY <2>5, Quarantining DEF RebuildIndex
  <2>6. CASE InstallRebuilt
    BY <2>6 DEF InstallRebuilt
  <2>7. CASE SaveRebuilt
    BY <2>7 DEF SaveRebuilt
  <2>8. CASE LoadFails
    BY <2>8, StoreAssumption DEF LoadFails
  <2>9. CASE LockInLoadAll
    BY <2>9, Quarantining DEF LockInLoadAll
  <2> QED
    BY <2>1, <2>2, <2>3, <2>4, <2>5, <2>6, <2>7, <2>8, <2>9 DEF LockUnlock
<1>3. Memory'
  <2>1. UNCHANGED memory \/ (cache' = Empty /\ lru' = <<>> /\ index' \in {Empty, dindex, rebuilt})
    BY DEF LockUnlock, LockVault, LockInLoadAll, LockClear, UnlockVault, LoadIndex, RebuildIndex,
           InstallRebuilt, SaveRebuilt, LoadFails, InstallIndex
  <2>2. CASE UNCHANGED memory
    BY <2>2 DEF Base, Memory, memory
  <2>3. CASE cache' = Empty /\ lru' = <<>> /\ index' \in {Empty, dindex, rebuilt}
    BY <2>3, EmptyTable DEF Base, Memory, Rest
  <2> QED
    BY <2>1, <2>2, <2>3
<1> QED
  BY <1>1, <1>2, <1>3 DEF Base

LEMMA CrashBase ==
    ASSUME Base, Crash
    PROVE  Base'
<1>1. Rest' /\ Memory'
  <2>1. Rest'
    <3>1. faults' \in 0..MaxFaults
      BY StoreAssumption DEF Base, Rest, Crash
    <3> QED
      BY <3>1, EmptyTable DEF Base, Rest, Crash, disk, history
  <2>2. Memory'
    BY EmptyTable DEF Memory, Crash
  <2> QED
    BY <2>1, <2>2
<1>2. Controlled'
  BY StoreAssumption, EmptyTable DEF Crash, Controlled, Requests, Placed, Held, Holder, Steps, Kinds, InFlight, Datasets
<1>3. Pending' = {}
  BY DEF Crash, Pending
<1>4. Counted'
  BY <1>3, Finishing DEF Base, Crash
<1> QED
  BY <1>1, <1>2, <1>4 DEF Base

\* A request that begins has no lock yet.
LEMMA Beginning ==
    ASSUME Controlled, Counted, NEW c \in Clients, NEW k \in {"read", "mutate", "delete"}, NEW id \in Ids,
           NEW at, Begin(c, k, id, at), at = IF k = "read" THEN "load" ELSE "lock",
           k = "mutate" => made + Cardinality({d \in Clients : kind[d] = "mutate"}) < MaxUpdates,
           UNCHANGED <<locks, val, bytes, made>>
    PROVE  Controlled' /\ Counted'
<1> USE DEF Begin, locks
<1>0. k \in Kinds /\ at \in Steps
  BY DEF Kinds, Steps
<1>1. Requests'
  BY <1>0 DEF Controlled, Requests, InFlight
<1>2. Placed'
  BY <1>0 DEF Controlled, Requests, Placed
<1>3. Held'
  BY <1>0 DEF Controlled, Requests, Held, Holder, Placed
<1>4. Counted'
  <2>1. CASE k # "mutate"
    <3>1. Pending' \subseteq Pending
      BY <1>0, <2>1 DEF Controlled, Requests, Pending
    <3> QED
      BY <3>1, Finishing
  <2>2. CASE k = "mutate"
    <3> DEFINE M == {d \in Clients : kind[d] = "mutate"}
    <3>1. Pending' = Pending \cup {c}
      BY <1>0, <2>2 DEF Controlled, Requests, Pending
    <3>2. IsFiniteSet(M) /\ Pending \subseteq M
      BY StoreAssumption, FS_Subset DEF Pending
    <3>3. Cardinality(M) \in Nat /\ Cardinality(Pending) \in Nat /\ Cardinality(Pending) <= Cardinality(M)
      BY <3>2, FS_Subset, FS_CardinalityType
    <3>4. Cardinality(Pending') \in Nat /\ Cardinality(Pending') <= Cardinality(Pending) + 1
      <4>1. Cardinality(Pending \cup {c}) =
                IF c \in Pending THEN Cardinality(Pending) ELSE Cardinality(Pending) + 1
        BY PendingCount, FS_AddElement
      <4> QED
        BY <3>1, <3>3, <4>1
    <3>5. made + Cardinality(M) < MaxUpdates /\ MaxUpdates \in Nat
      BY <2>2, StoreAssumption
    <3> HIDE DEF M
    <3> QED
      BY <3>3, <3>4, <3>5 DEF Counted
  <2> QED
    BY <2>1, <2>2
<1> QED
  BY <1>1, <1>2, <1>3, <1>4 DEF Controlled

LEMMA ReadBeginBase ==
    ASSUME Base, NEW c \in Clients, NEW id \in Ids, ReadBegin(c, id)
    PROVE  Base'
<1>1. Rest' /\ Memory'
  BY DEF Base, Rest, Memory, ReadBegin, disk, memory, loading, history
<1>2. Controlled' /\ Counted'
  BY Beginning DEF Base, ReadBegin
<1> QED
  BY <1>1, <1>2 DEF Base

LEMMA LockedBeginBase ==
    ASSUME Base, NEW c \in Clients, NEW k \in {"mutate", "delete"}, NEW id \in Ids, LockedBegin(c, k, id)
    PROVE  Base'
<1>1. Rest' /\ Memory'
  BY DEF Base, Rest, Memory, LockedBegin, disk, memory, loading, history
<1>2. Controlled' /\ Counted'
  BY Beginning DEF Base, LockedBegin
<1> QED
  BY <1>1, <1>2 DEF Base

LEMMA CreateBeginBase ==
    ASSUME Base, NEW c \in Clients, NEW id \in Ids, CreateBegin(c, id)
    PROVE  Base'
<1> USE DEF CreateBegin, Begin, disk, memory, locks, loading
<1>1. Rest'
  BY DEF Base, Rest, Fates
<1>2. Memory'
  <2>1. index' \in Table
    BY DEF Base, Memory, Table, Datasets
  <2>2. {} \in Datasets
    BY DEF Datasets
  <2> DEFINE full == [cache EXCEPT ![id] = {}]
  <2>3. full \in Table /\ BumpLRU(lru, id) \in Seq(Ids) /\ Mirrors(full, BumpLRU(lru, id))
    BY <2>2, Filling DEF Base
  <2>4. cache' \in Table /\ lru' \in Seq(Ids) /\ Mirrors(cache', lru')
    BY <2>3, Evicting
  <2> QED
    BY <2>1, <2>4 DEF Memory
<1>3. Controlled'
  <2>1. bytes' \in [Clients -> Table] /\ val' \in [Clients -> Datasets]
    BY <1>2 DEF Base, Controlled, Requests, Memory, Datasets
  <2>2. Requests'
    BY <2>1 DEF Base, Controlled, Requests, InFlight, Steps, Kinds
  <2>3. Placed'
    BY DEF Base, Controlled, Requests, Placed
  <2>4. Held'
    BY DEF Base, Controlled, Requests, Held, Holder, Placed
  <2> QED
    BY <2>2, <2>3, <2>4 DEF Controlled
<1>4. Counted'
  <2>1. Pending' \subseteq Pending
    BY DEF Base, Controlled, Requests, Pending
  <2> QED
    BY <2>1, Finishing DEF Base
<1> QED
  BY <1>1, <1>2, <1>3, <1>4 DEF Base

LEMMA MutateLockBase ==
    ASSUME Base, NEW c \in Clients, MutateLock(c)
    PROVE  Base'
<1> USE DEF MutateLock, Goto, disk, memory, locks, loading, history
<1>1. Rest' /\ Memory'
  BY DEF Base, Rest, Memory
<1>2. Requests'
  BY DEF Base, Controlled, Requests, InFlight, Steps
<1>3. Placed'
  BY DEF Base, Controlled, Requests, Placed
<1>4. Held'
  BY StoreAssumption DEF Base, Controlled, Requests, Held, Holder, Placed, InFlight
<1>5. Counted'
  <2>1. Pending' \subseteq Pending
    BY DEF Base, Controlled, Requests, Pending
  <2> QED
    BY <2>1, Finishing DEF Base
<1> QED
  BY <1>1, <1>2, <1>3, <1>4, <1>5 DEF Base, Controlled

LEMMA DeleteEntryBase ==
    ASSUME Base, NEW c \in Clients, DeleteEntry(c)
    PROVE  Base'
<1> DEFINE id == aud[c]
<1>0. id \in Ids /\ pc[c] = "lock" /\ kind[c] = "delete" /\ mutate[id] = None
  BY DEF Base, Controlled, Requests, InFlight, DeleteEntry
<1> USE DEF disk, memory, locks, loading
<1>1. CASE index[id] = None
  <2>1. Return(c) /\ UNCHANGED <<memory, fate, disk, unlocked, loading, made, faults, acked, failed>>
    BY <1>1 DEF DeleteEntry
  <2>2. Rest' /\ Memory'
    BY <2>1 DEF Base, Rest, Memory
  <2> QED
    BY <2>1, <2>2, Returning, Finishing DEF Base
<1>2. CASE index[id] # None
  <2>1. /\ mutate' = [mutate EXCEPT ![id] = c] /\ index' = [index EXCEPT ![id] = None]
        /\ cache' = [cache EXCEPT ![id] = None] /\ lru' = RemoveLRU(lru, id)
        /\ bytes' = [bytes EXCEPT ![c] = index'] /\ fate' = [fate EXCEPT ![id] = "dropped"]
        /\ pc' = [pc EXCEPT ![c] = "persist"]
        /\ UNCHANGED <<kind, aud, val, writeMu, disk, unlocked, loading, made, faults, acked, failed>>
    BY <1>2 DEF DeleteEntry, Goto
  <2>2. Rest'
    BY <1>0, <2>1 DEF Base, Rest, Fates
  <2>3. Memory'
    BY <1>0, <2>1, Emptying DEF Base, Memory, Table
  <2>4. Requests'
    BY <1>0, <2>1, <2>3 DEF Base, Controlled, Requests, InFlight, Steps, Memory
  <2>5. Placed'
    BY <1>0, <2>1 DEF Base, Controlled, Requests, Placed
  <2>6. Held'
    BY <1>0, <2>1, StoreAssumption DEF Base, Controlled, Requests, Held, Holder, Placed
  <2>7. Pending' \subseteq Pending
    BY <1>0, <2>1 DEF Base, Controlled, Requests, Pending
  <2> QED
    BY <2>1, <2>2, <2>3, <2>4, <2>5, <2>6, <2>7, Finishing DEF Base, Controlled
<1> QED
  BY <1>1, <1>2

\* A request that gives up has returned, or is a CreateAudit about to roll back.
LEMMA GivingUp ==
    ASSUME Controlled, NEW c \in Clients, pc[c] \in {"fetch", "persist", "seal", "index", "blob"}, GiveUp(c)
    PROVE  Controlled' /\ Pending' \subseteq Pending
<1>1. CASE kind[c] # "create"
  BY <1>1, Returning DEF GiveUp
<1>2. CASE kind[c] = "create"
  <2>1. /\ pc' = [pc EXCEPT ![c] = "rollback"] /\ UNCHANGED <<kind, aud, val, bytes, mutate>>
        /\ writeMu' = IF writeMu = c THEN None ELSE writeMu
    BY <1>2 DEF GiveUp, Goto
  <2>2. Requests'
    BY <2>1 DEF Controlled, Requests, InFlight, Steps
  <2>3. Placed'
    BY <1>2, <2>1 DEF Controlled, Requests, Placed
  <2>4. Held'
    BY <1>2, <2>1, StoreAssumption DEF Controlled, Requests, Held, Holder, Placed
  <2>5. Pending' \subseteq Pending
    BY <1>2, <2>1 DEF Controlled, Requests, Pending
  <2> QED
    BY <2>2, <2>3, <2>4, <2>5 DEF Controlled
<1> QED
  BY <1>1, <1>2

\* A dataset that has been loaded is returned, or about to be updated.
LEMMA Loading ==
    ASSUME Controlled, NEW c \in Clients, pc[c] \in {"load", "insert"}, NEW ds \in Datasets, Loaded(c, ds)
    PROVE  Controlled' /\ Pending' \subseteq Pending
<1>1. CASE kind[c] = "read"
  BY <1>1, Returning DEF Loaded
<1>2. CASE kind[c] # "read"
  <2>1. /\ val' = [val EXCEPT ![c] = ds] /\ Goto(c, "swap") /\ UNCHANGED <<kind, aud, bytes, locks>>
    BY <1>2 DEF Loaded
  <2>2. kind[c] = "mutate"
    BY <1>2 DEF Controlled, Requests, Placed, Kinds
  <2>3. val' \in [Clients -> Datasets] /\ bytes' \in [Clients -> Table]
    BY <2>1 DEF Controlled, Requests
  <2>4. Controlled'
    BY <2>1, <2>2, <2>3, Moving DEF Steps
  <2>5. Pending' \subseteq Pending
    BY <2>1, <2>2 DEF Controlled, Requests, Pending, Goto
  <2> QED
    BY <2>4, <2>5
<1> QED
  BY <1>1, <1>2

LEMMA LoadCachedBase ==
    ASSUME Base, NEW c \in Clients, LoadCached(c)
    PROVE  Base'
<1>0. pc[c] = "load" /\ aud[c] \in Ids /\ cache[aud[c]] \in Datasets
  BY DEF Base, Controlled, Requests, Memory, Table, InFlight, LoadCached
<1>1. Rest'
  BY DEF Base, Rest, LoadCached, disk, loading, history
<1>2. Memory'
  BY <1>0, Touching DEF Base, Memory, LoadCached
<1>3. Controlled' /\ Counted'
  BY <1>0, Loading, Finishing DEF Base, LoadCached
<1> QED
  BY <1>1, <1>2, <1>3 DEF Base

LEMMA LoadMissedBase ==
    ASSUME Base, NEW c \in Clients, LoadMissed(c)
    PROVE  Base'
<1>1. Rest' /\ Memory'
  BY DEF Base, Rest, Memory, LoadMissed, disk, memory, loading, history
<1>2. Controlled' /\ Pending' \subseteq Pending
  <2>1. CASE index[aud[c]] = None
    BY <2>1, Returning DEF Base, LoadMissed
  <2>2. CASE index[aud[c]] # None
    <3>1. Goto(c, "fetch") /\ pc[c] = "load" /\ UNCHANGED <<kind, aud, val, bytes, locks>>
      BY <2>2 DEF LoadMissed
    <3>2. kind[c] \in {"read", "mutate"} /\ val' \in [Clients -> Datasets] /\ bytes' \in [Clients -> Table]
      BY <3>1 DEF Base, Controlled, Requests, Placed, Kinds
    <3>3. Controlled'
      BY <3>1, <3>2, Moving DEF Base, Steps
    <3>4. Pending' \subseteq Pending
      BY <3>1, <3>2 DEF Base, Controlled, Requests, Pending, Goto
    <3> QED
      BY <3>3, <3>4
  <2> QED
    BY <2>1, <2>2
<1> QED
  BY <1>1, <1>2, Finishing DEF Base, LoadMissed

LEMMA FetchBase ==
    ASSUME Base, NEW c \in Clients, Fetch(c)
    PROVE  Base'
<1>1. Rest' /\ Memory'
  BY DEF Base, Rest, Memory, Fetch, disk, memory, loading, history
<1>2. Controlled' /\ Pending' \subseteq Pending
  <2>1. CASE ~(unlocked /\ blobs[aud[c]] # None /\ aud[c] \notin unreadable)
    BY <2>1, Returning DEF Base, Fetch
  <2>2. CASE unlocked /\ blobs[aud[c]] # None /\ aud[c] \notin unreadable
    <3>1. /\ Goto(c, "insert") /\ pc[c] = "fetch" /\ UNCHANGED <<kind, aud, bytes, locks>>
          /\ val' = [val EXCEPT ![c] = blobs[aud[c]]]
      BY <2>2 DEF Fetch
    <3>2. aud[c] \in Ids /\ blobs[aud[c]] \in Datasets
      BY <2>2, <3>1 DEF Base, Controlled, Requests, Rest, Table, InFlight
    <3>3. kind[c] \in {"read", "mutate"} /\ val' \in [Clients -> Datasets] /\ bytes' \in [Clients -> Table]
      BY <3>1, <3>2 DEF Base, Controlled, Requests, Placed, Kinds
    <3>4. Controlled'
      BY <3>1, <3>3, Moving DEF Base, Steps
    <3>5. Pending' \subseteq Pending
      BY <3>1, <3>3 DEF Base, Controlled, Requests, Pending, Goto
    <3> QED
      BY <3>4, <3>5
  <2> QED
    BY <2>1, <2>2
<1> QED
  BY <1>1, <1>2, Finishing DEF Base, Fetch

LEMMA InsertBase ==
    ASSUME Base, NEW c \in Clients, Insert(c)
    PROVE  Base'
<1> DEFINE id == aud[c]
<1>0. pc[c] = "insert" /\ id \in Ids /\ val[c] \in Datasets /\ cache[id] \in Datasets \cup {None}
  BY DEF Base, Controlled, Requests, Memory, Table, InFlight, Insert
<1>1. Rest'
  BY DEF Base, Rest, Insert, disk, loading, history
<1>2. CASE cache[id] # None
  <2>1. lru' = BumpLRU(lru, id) /\ UNCHANGED <<index, cache, made>> /\ Loaded(c, cache[id])
    BY <1>2 DEF Insert
  <2>2. Memory'
    BY <1>0, <1>2, <2>1, Touching DEF Base, Memory
  <2>3. Controlled' /\ Counted'
    BY <1>0, <1>2, <2>1, Loading, Finishing DEF Base
  <2> QED
    BY <1>1, <2>2, <2>3 DEF Base
<1>3. CASE cache[id] = None
  <2> DEFINE full == [cache EXCEPT ![id] = val[c]]
  <2>1. Evict(full, BumpLRU(lru, id)) /\ UNCHANGED <<index, made>> /\ Loaded(c, val[c])
    BY <1>3 DEF Insert
  <2>2. full \in Table /\ BumpLRU(lru, id) \in Seq(Ids) /\ Mirrors(full, BumpLRU(lru, id))
    BY <1>0, Filling DEF Base
  <2>3. Memory'
    BY <2>1, <2>2, Evicting DEF Base, Memory
  <2>4. Controlled' /\ Counted'
    BY <1>0, <2>1, Loading, Finishing DEF Base
  <2> QED
    BY <1>1, <2>3, <2>4 DEF Base
<1> QED
  BY <1>2, <1>3

LEMMA SwapBase ==
    ASSUME Base, NEW c \in Clients, Swap(c)
    PROVE  Base'
<1> DEFINE id == aud[c]
<1>0. pc[c] = "swap" /\ kind[c] = "mutate" /\ id \in Ids /\ val[c] \in Datasets
  BY DEF Base, Controlled, Requests, Placed, Kinds, InFlight, Swap
<1>1. Rest'
  BY DEF Base, Rest, Swap, disk, loading, history
<1>2. CASE index[id] = None
  <2>1. Return(c) /\ UNCHANGED <<memory, made>>
    BY <1>2 DEF Swap
  <2>2. Memory'
    BY <2>1 DEF Base, Memory, memory
  <2> QED
    BY <1>1, <2>1, <2>2, Returning, Finishing DEF Base
<1>3. CASE index[id] # None
  <2>1. /\ made' = made + 1 /\ val' = [val EXCEPT ![c] = @ \cup {made'}]
        /\ cache' = [cache EXCEPT ![id] = val'[c]] /\ index' = [index EXCEPT ![id] = val'[c]]
        /\ lru' = BumpLRU(lru, id) /\ bytes' = [bytes EXCEPT ![c] = index']
        /\ Goto(c, "persist") /\ UNCHANGED <<kind, aud, locks>>
    BY <1>3 DEF Swap
  <2>2. Counted' /\ made' \in Updates
    <3>1. Pending' = Pending \ {c} /\ c \in Pending
      BY <1>0, <2>1 DEF Base, Controlled, Requests, Pending, Goto
    <3>2. Cardinality(Pending \ {c}) = Cardinality(Pending) - 1
      BY <3>1, PendingCount, FS_RemoveElement
    <3>3. Cardinality(Pending \ {c}) \in Nat /\ MaxUpdates \in Nat
      BY PendingCount, FS_Subset, FS_CardinalityType, StoreAssumption
    <3> QED
      BY <2>1, <3>1, <3>2, <3>3, PendingCount DEF Base, Counted, Updates
  <2>3. val'[c] \in Datasets /\ val' \in [Clients -> Datasets]
    BY <1>0, <2>1, <2>2 DEF Base, Controlled, Requests, Datasets
  <2>4. Memory'
    BY <1>0, <2>1, <2>3, Filling DEF Base, Memory, Table
  <2>5. bytes' \in [Clients -> Table]
    BY <2>1, <2>4 DEF Base, Controlled, Requests, Memory
  <2>6. Controlled'
    BY <1>0, <2>1, <2>3, <2>5, Moving DEF Base, Steps
  <2> QED
    BY <1>1, <2>2, <2>4, <2>6 DEF Base
<1> QED
  BY <1>2, <1>3

LEMMA PersistBlobBase ==
    ASSUME Base, NEW c \in Clients, PersistBlob(c)
    PROVE  Base'
<1> USE DEF PersistBlob, Goto, memory, loading, history
<1>0. aud[c] \in Ids /\ kind[c] \in {"create", "mutate"}
  BY DEF Base, Controlled, Requests, Placed, Kinds, InFlight
<1>1. Rest'
  BY <1>0 DEF Base, Controlled, Requests, Rest, Table
<1>2. Memory'
  BY DEF Base, Memory
<1>3. Requests'
  BY DEF Base, Controlled, Requests, InFlight, Steps
<1>4. Placed'
  BY <1>0 DEF Base, Controlled, Requests, Placed
<1>5. Held'
  BY <1>0, StoreAssumption DEF Base, Controlled, Requests, Held, Holder, Placed
<1>6. Pending' \subseteq Pending
  BY <1>0 DEF Base, Controlled, Requests, Pending
<1> QED
  BY <1>1, <1>2, <1>3, <1>4, <1>5, <1>6, Finishing DEF Base, Controlled

LEMMA PersistIndexBase ==
    ASSUME Base, NEW c \in Clients, PersistIndex(c)
    PROVE  Base'
<1>0. aud[c] \in Ids /\ bytes[c] \in Table /\ val[c] \in Datasets
  BY DEF Base, Controlled, Requests, InFlight, PersistIndex
<1>1. acked' \in [Ids -> Datasets] /\ fate' \in [Ids -> Fates]
  BY <1>0 DEF Base, Rest, PersistIndex, Datasets, Fates
<1>2. Rest'
  BY <1>0, <1>1 DEF Base, Rest, PersistIndex, loading
<1>3. Memory'
  BY DEF Base, Memory, PersistIndex, memory
<1> QED
  BY <1>2, <1>3, Returning, Finishing DEF Base, PersistIndex

LEMMA DeleteIndexBase ==
    ASSUME Base, NEW c \in Clients, DeleteIndex(c)
    PROVE  Base'
<1> USE DEF DeleteIndex, Goto, memory, loading, history
<1>0. aud[c] \in Ids /\ bytes[c] \in Table
  BY DEF Base, Controlled, Requests, InFlight
<1>1. Rest'
  BY <1>0 DEF Base, Rest
<1>2. Memory'
  BY DEF Base, Memory
<1>3. Requests'
  BY DEF Base, Controlled, Requests, InFlight, Steps
<1>4. Placed'
  BY DEF Base, Controlled, Requests, Placed
<1>5. Held'
  BY StoreAssumption DEF Base, Controlled, Requests, Held, Holder, Placed
<1>6. Pending' \subseteq Pending
  BY DEF Base, Controlled, Requests, Pending
<1> QED
  BY <1>1, <1>2, <1>3, <1>4, <1>5, <1>6, Finishing DEF Base, Controlled

LEMMA DeleteBlobBase ==
    ASSUME Base, NEW c \in Clients, DeleteBlob(c)
    PROVE  Base'
<1>0. aud[c] \in Ids
  BY DEF Base, Controlled, Requests, InFlight, DeleteBlob
<1>1. Rest'
  BY <1>0 DEF Base, Rest, DeleteBlob, Table, Fates, loading
<1>2. Memory'
  BY DEF Base, Memory, DeleteBlob, memory
<1> QED
  BY <1>1, <1>2, Returning, Finishing DEF Base, DeleteBlob

LEMMA WriteFailsBase ==
    ASSUME Base, NEW c \in Clients, WriteFails(c)
    PROVE  Base'
<1>1. faults' \in 0..MaxFaults
  BY StoreAssumption DEF Base, Rest, WriteFails
<1>2. Rest' /\ Memory'
  BY <1>1 DEF Base, Rest, Memory, WriteFails, disk, memory, loading, history
<1>3. pc[c] \in {"fetch", "persist", "seal", "index", "blob"} /\ GiveUp(c) /\ made' = made
  BY DEF WriteFails
<1> QED
  BY <1>2, <1>3, GivingUp, Finishing DEF Base

LEMMA CreateRollbackBase ==
    ASSUME Base, NEW c \in Clients, CreateRollback(c)
    PROVE  Base'
<1>0. aud[c] \in Ids
  BY DEF Base, Controlled, Requests, InFlight, CreateRollback
<1>1. Rest'
  BY DEF Base, Rest, CreateRollback, disk, loading, history
<1>2. Memory'
  BY <1>0, Emptying DEF Base, Memory, Table, CreateRollback
<1> QED
  BY <1>1, <1>2, Returning, Finishing DEF Base, CreateRollback

LEMMA BaseInit == Init => Base
<1> SUFFICES ASSUME Init PROVE Base
  OBVIOUS
<1>1. Rest /\ Memory
  <2>1. faults \in 0..MaxFaults /\ {} \in Datasets
    BY StoreAssumption DEF Init, Datasets
  <2>2. Memory
    BY EmptyTable DEF Init, Memory
  <2> QED
    BY <2>1, <2>2, EmptyTable DEF Init, Rest, Fates
<1>2. Controlled
  BY StoreAssumption, EmptyTable DEF Init, Controlled, Requests, Placed, Held, Holder, Steps, Kinds,
     InFlight, Datasets
<1>3. Pending = {} /\ Counted
  <2>1. Pending = {}
    BY DEF Init, Pending
  <2>2. Cardinality(Pending) = 0
    BY <2>1, FS_EmptySet
  <2> QED
    BY <2>1, <2>2, StoreAssumption DEF Init, Counted
<1> QED
  BY <1>1, <1>2, <1>3 DEF Base

LEMMA BaseStep == Base /\ [Next]_vars => Base'
<1> SUFFICES ASSUME Base, [Next]_vars PROVE Base'
  OBVIOUS
<1>1. CASE LockUnlock
  BY <1>1, LockUnlockBase
<1>2. ASSUME NEW c \in Clients, Request(c) PROVE Base'
  BY <1>2, ReadBeginBase, CreateBeginBase, LockedBeginBase DEF Request
<1>3. ASSUME NEW c \in Clients, Continue(c) PROVE Base'
  BY <1>3, MutateLockBase, DeleteEntryBase, LoadCachedBase, LoadMissedBase, FetchBase, InsertBase,
     SwapBase, PersistBlobBase, PersistIndexBase, DeleteIndexBase, DeleteBlobBase, WriteFailsBase,
     CreateRollbackBase DEF Continue
<1>4. CASE Crash
  BY <1>4, CrashBase
<1>5. CASE UNCHANGED vars
  <2>1. Rest' /\ Memory' /\ UNCHANGED <<locks, local, made>>
    BY <1>5 DEF vars, Base, Rest, Memory, disk, memory, loading, history
  <2> QED
    BY <2>1, Idling DEF Base
<1> QED
  BY <1>1, <1>2, <1>3, <1>4, <1>5 DEF Next

\* The types of the store, whatever the interleavings.
THEOREM StoreTyped == Spec => []TypeOK
<1>1. Base => TypeOK
  BY BaseTyped
<1> QED
  BY <1>1, BaseInit, BaseStep, PTL DEF Spec

\* Every cached audit is in lru exactly once, and nothing else is, whatever the
\* interleavings: evict() always finds what it has to drop.
THEOREM CacheMirrored == Spec => []LruMirrorsCache
<1>1. Base => LruMirrorsCache
  BY BaseTyped
<1> QED
  BY <1>1, BaseInit, BaseStep, PTL DEF Spec

-----------------------------------------------------------------------------
(* What the audits go through.  These hold when no request uses an audit   *)
(* whose CreateAudit has not returned, no CreateAudit and no Lock meets an *)
(* Unlock, no Lock falls into a call of the vault, and, if there are       *)
(* readers, no Lock meets a request.                                       *)

Closed ==
    /\ Unguarded \subseteq {"lock_in_flight"}
    /\ "read" \in Ops => Unguarded = {}

\* The cache never has to drop a dataset that is being read.
Roomy == "read" \in Ops => Cardinality(Ids) <= Cap

\* A request is about an audit that was created, and a CreateAudit is alone
\* with it; a created audit has a blob.
Begun ==
    /\ \A c \in InFlight : fate[aud[c]] # "unused"
    /\ \A id \in Ids :
           /\ fate[id] = "unused" => acked[id] = {} /\ blobs[id] = None
           /\ fate[id] = "known" => blobs[id] # None
    /\ \A c \in InFlight : kind[c] = "create" =>
           /\ fate[aud[c]] = "made" /\ acked[aud[c]] = {} /\ val[c] = {}
           /\ \A d \in InFlight : aud[d] = aud[c] => d = c
           /\ pc[c] = "index" => blobs[aud[c]] # None

\* No Lock in flight: a locked store is empty and still, and nothing gets past
\* the empty index of one that is being loaded.
Quiet ==
    /\ ~unlocked => InFlight = {} /\ loader = "off"
    /\ clearing => ~unlocked
    /\ ~unlocked /\ ~clearing => index = Empty /\ cache = Empty
    /\ loader \in {"read", "rebuild", "install"} =>
           /\ index = Empty /\ cache = Empty
           /\ \A c \in Clients : pc[c] \in {"idle", "lock", "load"}
    /\ loader = "install" => rebuilt = blobs
    /\ \A c \in InFlight :
           /\ kind[c] = "create" => index[aud[c]] # None
           /\ kind[c] = "delete" /\ pc[c] # "lock" => index[aud[c]] = None

\* A reader may cache an audit again that is no longer listed; nothing is built on it.
Excuse(id) == index[id] = None /\ "read" \in Ops

\* A deleted audit is nowhere, and no update of it is under way; while it is
\* being deleted nobody brings it back into the cache.
Deleted ==
    /\ \A id \in Ids : fate[id] = "deleted" =>
           /\ blobs[id] = None
           /\ cache[id] = None \/ Excuse(id)
           /\ "read" \in Ops => index[id] = None
    /\ \A c \in Clients : kind[c] = "mutate" =>
           /\ pc[c] \in {"insert", "persist", "index"} => fate[aud[c]] # "deleted"
           /\ pc[c] = "swap" => fate[aud[c]] # "deleted" \/ Excuse(aud[c])
    /\ \A c \in Clients : kind[c] = "delete" /\ pc[c] \in {"persist", "blob"} =>
           /\ fate[aud[c]] = "dropped"
           /\ cache[aud[c]] = None \/ Excuse(aud[c])

\* ds is no older than the blob of id.
Within(id, ds) == blobs[id] # None => blobs[id] \subseteq ds

\* What the cache holds, and what an update is built on, is never older than the
\* blob; what an update is about to write is still cached; what a reader is about
\* to cache is no older than the blob, or will not be cached.
Fresh ==
    /\ \A id \in Ids : cache[id] # None => Excuse(id) \/ Within(id, cache[id])
    /\ \A c \in Clients : kind[c] = "mutate" =>
           /\ pc[c] \in {"insert", "persist", "index"} => Within(aud[c], val[c])
           /\ pc[c] = "swap" => Excuse(aud[c]) \/ Within(aud[c], val[c])
           /\ pc[c] \in {"persist", "index"} =>
                  \/ cache[aud[c]] = None /\ "read" \notin Ops
                  \/ cache[aud[c]] # None /\ val[c] \subseteq cache[aud[c]]
           /\ pc[c] = "index" => blobs[aud[c]] = val[c]
    /\ \A c \in Clients : kind[c] = "read" /\ pc[c] = "insert" =>
           Excuse(aud[c]) \/ cache[aud[c]] # None \/ Within(aud[c], val[c])

\* A created audit has all its updates.
Kept == \A id \in Ids : fate[id] = "known" => blobs[id] # None /\ acked[id] \subseteq blobs[id]

\* No Lock has caught the key in use.
Whole == unreadable = {} /\ \A c \in Clients : pc[c] # "seal"

Lives ==
    /\ Begun
    /\ Unguarded = {} => Quiet
    /\ Deleted
    /\ Roomy => Fresh /\ Kept
    /\ Unguarded = {} => CreatedListed

\* A request that returns without touching the store.
LEMMA Leaving ==
    ASSUME Base, Lives, NEW c \in Clients, Return(c), UNCHANGED <<blobs, unlocked, index, cache, loading, history>>
    PROVE  Lives'
<1> USE DEF Base, Controlled, Requests, InFlight, loading, history, Lives, Return
<1>1. Begun'
  BY DEF Begun
<1>2. (Unguarded = {} => Quiet)'
  BY DEF Quiet
<1>3. Deleted'
  BY DEF Deleted, Excuse
<1>4. (Roomy => Fresh /\ Kept)'
  BY DEF Roomy, Fresh, Within, Excuse, Kept
<1>5. (Unguarded = {} => CreatedListed)'
  BY DEF CreatedListed
<1> QED
  BY <1>1, <1>2, <1>3, <1>4, <1>5

LEMMA ReadBeginLives ==
    ASSUME Closed, Base, Lives, NEW c \in Clients, NEW id \in Ids, ReadBegin(c, id)
    PROVE  Lives'
<1> USE DEF Base, Controlled, Requests, InFlight, disk, memory, loading, history, Lives, ReadBegin, Begin
<1>1. Begun'
  BY DEF Begun, Usable, Closed
<1>2. (Unguarded = {} => Quiet)'
  BY DEF Quiet
<1>3. Deleted'
  BY DEF Deleted, Excuse
<1>4. (Roomy => Fresh /\ Kept)'
  BY DEF Roomy, Fresh, Within, Excuse, Kept
<1>5. (Unguarded = {} => CreatedListed)'
  BY DEF CreatedListed
<1> QED
  BY <1>1, <1>2, <1>3, <1>4, <1>5

LEMMA LockedBeginLives ==
    ASSUME Closed, Base, Lives, NEW c \in Clients, NEW k \in {"mutate", "delete"}, NEW id \in Ids,
           LockedBegin(c, k, id)
    PROVE  Lives'
<1> USE DEF Base, Controlled, Requests, InFlight, disk, memory, loading, history, Lives, LockedBegin, Begin
<1>1. Begun'
  BY DEF Begun, Usable, Closed
<1>2. (Unguarded = {} => Quiet)'
  BY DEF Quiet
<1>3. Deleted'
  BY DEF Deleted, Excuse
<1>4. (Roomy => Fresh /\ Kept)'
  BY DEF Roomy, Fresh, Within, Excuse, Kept
<1>5. (Unguarded = {} => CreatedListed)'
  BY DEF CreatedListed
<1> QED
  BY <1>1, <1>2, <1>3, <1>4, <1>5

LEMMA CreateBeginLives ==
    ASSUME Closed, Base, Lives, NEW c \in Clients, NEW id \in Ids, CreateBegin(c, id)
    PROVE  Lives'
<1> DEFINE full == [cache EXCEPT ![id] = {}]
<1>0. /\ fate[id] = "unused" /\ fate' = [fate EXCEPT ![id] = "made"]
      /\ index' = [index EXCEPT ![id] = {}] /\ val' = [val EXCEPT ![c] = {}]
      /\ pc[c] = "idle" /\ pc' = [pc EXCEPT ![c] = "persist"]
      /\ kind' = [kind EXCEPT ![c] = "create"] /\ aud' = [aud EXCEPT ![c] = id]
      /\ UNCHANGED <<blobs, unlocked, loader, rebuilt, clearing, acked, failed>> /\ unlocked
      /\ loader \in {"read", "rebuild", "install"} => "create_in_load" \in Unguarded
  BY DEF CreateBegin, Begin, disk, loading
<1>1. \A i \in Ids : cache'[i] \in {None, full[i]}
  <2>1. {} \in Datasets
    BY DEF Datasets
  <2>2. full \in Table /\ BumpLRU(lru, id) \in Seq(Ids) /\ Mirrors(full, BumpLRU(lru, id))
    BY <2>1, Filling DEF Base
  <2> QED
    BY <2>2, Evicting DEF CreateBegin
<1>2. "read" \in Ops /\ Roomy => cache' = full
  <2>1. {} \in Datasets
    BY DEF Datasets
  <2>2. full \in Table /\ BumpLRU(lru, id) \in Seq(Ids) /\ Mirrors(full, BumpLRU(lru, id))
    BY <2>1, Filling DEF Base
  <2> QED
    BY <2>2, Evicting DEF CreateBegin, Roomy
<1>3. \A i \in Ids : full[i] = IF i = id THEN {} ELSE cache[i]
  BY DEF Base, Memory, Table
<1> HIDE DEF full
<1>4. \A d \in InFlight : aud[d] # id
  BY <1>0 DEF Lives, Begun
<1>5. {} # None
  BY StoreAssumption DEF Datasets
<1>6. index \in Table /\ cache \in Table /\ blobs \in Table /\ fate \in [Ids -> Fates] /\ Requests
  BY DEF Base, Rest, Memory, Controlled
<1> USE <1>0 DEF Table, Requests, InFlight, Lives
<1>7. Begun'
  BY <1>4, <1>6 DEF Begun
<1>8. (Unguarded = {} => Quiet)'
  BY <1>4, <1>5, <1>6 DEF Quiet, Closed
<1>9. \A d \in Clients : d # c =>
          /\ pc'[d] = pc[d] /\ kind'[d] = kind[d] /\ aud'[d] = aud[d] /\ val'[d] = val[d]
          /\ pc[d] # "idle" => /\ aud[d] \in Ids /\ aud[d] # id /\ fate'[aud[d]] = fate[aud[d]]
                               /\ index'[aud[d]] = index[aud[d]] /\ cache'[aud[d]] \in {None, cache[aud[d]]}
  BY <1>1, <1>3, <1>4, <1>6
<1>10. Deleted'
  <2>1. \A i \in Ids : fate'[i] = "deleted" =>
           /\ i # id /\ blobs'[i] = None /\ cache'[i] \in {None, cache[i]} /\ index'[i] = index[i]
           /\ cache[i] = None \/ Excuse(i)
           /\ "read" \in Ops => index[i] = None
    BY <1>1, <1>3, <1>6 DEF Deleted
  <2>2. ASSUME NEW d \in Clients, d # c
        PROVE  /\ kind[d] = "mutate" =>
                      /\ pc[d] \in {"insert", "persist", "index"} => fate'[aud[d]] # "deleted"
                      /\ pc[d] = "swap" => fate'[aud[d]] # "deleted" \/ Excuse(aud[d])'
               /\ kind[d] = "delete" /\ pc[d] \in {"persist", "blob"} =>
                      /\ fate'[aud[d]] = "dropped"
                      /\ cache'[aud[d]] = None \/ Excuse(aud[d])'
    BY <1>9, <2>2 DEF Deleted, Excuse
  <2>3. pc'[c] = "persist" /\ kind'[c] = "create"
    BY <1>6
  <2> QED
    BY <1>9, <2>1, <2>2, <2>3 DEF Deleted, Excuse
<1>11. (Roomy => Fresh /\ Kept)'
  <2> SUFFICES ASSUME Roomy PROVE Fresh' /\ Kept'
    BY DEF Roomy
  <2>1. \A i \in Ids : cache'[i] # None =>
           \/ i = id /\ blobs[id] = None
           \/ i # id /\ cache'[i] = cache[i] /\ index'[i] = index[i]
    BY <1>1, <1>3, <1>6 DEF Begun
  <2>2. ASSUME NEW i \in Ids, cache'[i] # None
        PROVE  Excuse(i)' \/ Within(i, cache[i])'
    BY <2>1, <2>2, <1>6 DEF Fresh, Within, Excuse
  <2>3. ASSUME NEW d \in Clients, d # c
        PROVE  /\ kind[d] = "mutate" =>
                      /\ pc[d] \in {"insert", "persist", "index"} => Within(aud[d], val[d])
                      /\ pc[d] = "swap" => Excuse(aud[d])' \/ Within(aud[d], val[d])
                      /\ pc[d] \in {"persist", "index"} =>
                             \/ cache'[aud[d]] = None /\ "read" \notin Ops
                             \/ cache'[aud[d]] # None /\ val[d] \subseteq cache'[aud[d]]
                      /\ pc[d] = "index" => blobs[aud[d]] = val[d]
               /\ kind[d] = "read" /\ pc[d] = "insert" =>
                      Excuse(aud[d])' \/ cache'[aud[d]] # None \/ Within(aud[d], val[d])
    <3>1. "read" \in Ops /\ pc[d] # "idle" => cache'[aud[d]] = cache[aud[d]]
      BY <1>2, <1>3, <1>9, <2>3
    <3>2. Base => (pc[d] # "idle" => kind[d] \in Ops)
      BY DEF Base, Controlled, Placed
    <3> QED
      BY <1>9, <2>3, <3>1, <3>2 DEF Fresh, Excuse
  <2>4. pc'[c] = "persist" /\ kind'[c] = "create"
    BY <1>6
  <2>5. Fresh'
    BY <1>9, <2>2, <2>3, <2>4 DEF Fresh, Excuse, Within
  <2>6. Kept'
    BY <1>6 DEF Kept
  <2> QED
    BY <2>5, <2>6
<1>12. (Unguarded = {} => CreatedListed)'
  BY <1>5, <1>6 DEF CreatedListed
<1> QED
  BY <1>7, <1>8, <1>10, <1>11, <1>12

LEMMA MutateLockLives ==
    ASSUME Base, Lives, NEW c \in Clients, MutateLock(c)
    PROVE  Lives'
<1> USE DEF Base, Controlled, Requests, InFlight, disk, memory, loading, history, Lives, MutateLock, Goto
<1>1. Begun'
  BY DEF Begun
<1>2. (Unguarded = {} => Quiet)'
  BY DEF Quiet
<1>3. Deleted'
  BY DEF Deleted, Excuse
<1>4. (Roomy => Fresh /\ Kept)'
  BY DEF Roomy, Fresh, Within, Excuse, Kept
<1>5. (Unguarded = {} => CreatedListed)'
  BY DEF CreatedListed
<1> QED
  BY <1>1, <1>2, <1>3, <1>4, <1>5

LEMMA LoadMissedLives ==
    ASSUME Base, Lives, NEW c \in Clients, LoadMissed(c)
    PROVE  Lives'
<1>1. CASE index[aud[c]] = None
  BY <1>1, Leaving DEF LoadMissed, disk, memory
<1>2. CASE index[aud[c]] # None
  <2> USE DEF Base, Controlled, Requests, InFlight, disk, memory, loading, history, Lives, LoadMissed, Goto
  <2>1. Begun'
    BY <1>2 DEF Begun
  <2>2. (Unguarded = {} => Quiet)'
    <3>1. pc[c] = "load" /\ aud[c] \in Ids
      OBVIOUS
    <3>2. index # Empty
      BY <1>2, <3>1 DEF Empty
    <3> QED
      BY <1>2, <3>2 DEF Quiet
  <2>3. Deleted'
    BY <1>2 DEF Deleted, Excuse
  <2>4. (Roomy => Fresh /\ Kept)'
    BY <1>2 DEF Roomy, Fresh, Within, Excuse, Kept
  <2>5. (Unguarded = {} => CreatedListed)'
    BY <1>2 DEF CreatedListed
  <2> QED
    BY <2>1, <2>2, <2>3, <2>4, <2>5
<1> QED
  BY <1>1, <1>2

LEMMA FetchLives ==
    ASSUME Base, Lives, NEW c \in Clients, Fetch(c)
    PROVE  Lives'
<1>1. CASE ~(unlocked /\ blobs[aud[c]] # None /\ aud[c] \notin unreadable)
  BY <1>1, Leaving DEF Fetch, disk, memory
<1>2. CASE unlocked /\ blobs[aud[c]] # None /\ aud[c] \notin unreadable
  <2> USE DEF Base, Controlled, Requests, InFlight, disk, memory, loading, history, Lives, Fetch, Goto
  <2>0. aud[c] \in Ids /\ kind[c] # "create" /\ fate[aud[c]] # "deleted"
    BY <1>2 DEF Placed, Deleted
  <2>1. Begun'
    BY <1>2, <2>0 DEF Begun
  <2>2. (Unguarded = {} => Quiet)'
    BY <1>2 DEF Quiet
  <2>3. Deleted'
    BY <1>2, <2>0 DEF Deleted, Excuse
  <2>4. (Roomy => Fresh /\ Kept)'
    BY <1>2, <2>0 DEF Roomy, Fresh, Within, Excuse, Kept
  <2>5. (Unguarded = {} => CreatedListed)'
    BY <1>2 DEF CreatedListed
  <2> QED
    BY <2>1, <2>2, <2>3, <2>4, <2>5
<1> QED
  BY <1>1, <1>2

\* What ensureLoaded hands to an update.
LEMMA LoadedLives ==
    ASSUME Base, Lives, NEW c \in Clients, pc[c] \in {"load", "insert"}, NEW ds, Loaded(c, ds),
           UNCHANGED <<blobs, unlocked, index, cache, loading, history>>,
           cache[aud[c]] # None,
           fate[aud[c]] # "deleted" \/ Excuse(aud[c]),
           Roomy => Excuse(aud[c]) \/ Within(aud[c], ds)
    PROVE  Lives'
<1>1. CASE kind[c] = "read"
  BY <1>1, Leaving DEF Loaded
<1>2. CASE kind[c] # "read"
  <2>1. /\ kind[c] = "mutate" /\ aud[c] \in Ids
        /\ val' = [val EXCEPT ![c] = ds] /\ pc' = [pc EXCEPT ![c] = "swap"] /\ UNCHANGED <<kind, aud, bytes, locks>>
    BY <1>2 DEF Loaded, Goto, Base, Controlled, Placed, Requests, Kinds, InFlight
  <2> USE DEF Base, Controlled, Requests, InFlight, loading, history, Lives
  <2>2. Begun'
    BY <2>1 DEF Begun
  <2>3. (Unguarded = {} => Quiet)'
    <3>1. cache # Empty
      BY <2>1 DEF Empty
    <3> QED
      BY <2>1, <3>1 DEF Quiet
  <2>4. Deleted'
    BY <2>1 DEF Deleted, Excuse
  <2>5. (Roomy => Fresh /\ Kept)'
    BY <2>1 DEF Roomy, Fresh, Within, Excuse, Kept
  <2>6. (Unguarded = {} => CreatedListed)'
    BY <2>1 DEF CreatedListed
  <2> QED
    BY <2>2, <2>3, <2>4, <2>5, <2>6
<1> QED
  BY <1>1, <1>2

\* What the cache holds may be built on.
LEMMA CachedUsable ==
    ASSUME Base, Lives, NEW id \in Ids, cache[id] # None
    PROVE  /\ fate[id] # "deleted" \/ Excuse(id)
           /\ Roomy => Excuse(id) \/ Within(id, cache[id])
BY DEF Lives, Deleted, Fresh

LEMMA LoadCachedLives ==
    ASSUME Base, Lives, NEW c \in Clients, LoadCached(c)
    PROVE  Lives'
<1>1. pc[c] = "load" /\ aud[c] \in Ids /\ cache[aud[c]] # None
  BY DEF LoadCached, Base, Controlled, Requests, InFlight
<1>2. UNCHANGED <<blobs, unlocked, index, cache, loading, history>> /\ Loaded(c, cache[aud[c]])
  BY DEF LoadCached, disk
<1> QED
  BY <1>1, <1>2, CachedUsable, LoadedLives

\* The per-audit lock has one holder.
LEMMA Exclusive ==
    ASSUME Base, NEW c \in Clients, NEW d \in Clients, Holder(c), Holder(d), aud[c] = aud[d]
    PROVE  c = d
<1>1. aud[c] \in Ids
  BY DEF Base, Controlled, Requests, InFlight, Holder
<1> QED
  BY <1>1 DEF Base, Controlled, Held

LEMMA InsertLives ==
    ASSUME Closed, Base, Lives, NEW c \in Clients, Insert(c)
    PROVE  Lives'
<1> DEFINE id == aud[c]
<1>0. /\ pc[c] = "insert" /\ id \in Ids /\ val[c] \in Datasets /\ val[c] # None
      /\ kind[c] \in {"read", "mutate"} /\ kind[c] \in Ops
  BY StoreAssumption DEF Base, Controlled, Requests, Placed, Kinds, InFlight, Insert
<1>1. CASE cache[id] # None
  <2>1. UNCHANGED <<blobs, unlocked, index, cache, loading, history>> /\ Loaded(c, cache[id])
    BY <1>1 DEF Insert, disk
  <2> QED
    BY <1>0, <1>1, <2>1, CachedUsable, LoadedLives
<1>2. CASE cache[id] = None
  <2> DEFINE full == [cache EXCEPT ![id] = val[c]]
  <2>1. /\ Evict(full, BumpLRU(lru, id)) /\ Loaded(c, val[c])
        /\ UNCHANGED <<blobs, unlocked, index, loader, rebuilt, clearing, fate, acked, failed>>
    BY <1>2 DEF Insert, disk, loading, history
  <2>2. full \in Table /\ BumpLRU(lru, id) \in Seq(Ids) /\ Mirrors(full, BumpLRU(lru, id))
    BY <1>0, Filling DEF Base
  <2>3. /\ \A i \in Ids : cache'[i] \in {None, full[i]}
        /\ "read" \in Ops /\ Roomy => cache' = full
    BY <2>1, <2>2, Evicting DEF Roomy
  <2>4. \A i \in Ids : full[i] = IF i = id THEN val[c] ELSE cache[i]
    BY DEF Base, Memory, Table
  <2> HIDE DEF full
  <2>5. \A d \in Clients : d # c => pc'[d] = pc[d] /\ kind'[d] = kind[d] /\ aud'[d] = aud[d] /\ val'[d] = val[d]
    BY <2>1 DEF Loaded, Return, Goto, Base, Controlled, Requests, locks
  <2>6. \/ kind[c] = "read" /\ pc'[c] = "idle" /\ kind'[c] = "read"
        \/ /\ kind[c] = "mutate" /\ pc'[c] = "swap" /\ kind'[c] = "mutate" /\ aud'[c] = id
           /\ val'[c] = val[c]
    BY <1>0, <2>1 DEF Loaded, Return, Goto, Base, Controlled, Requests, locks
  <2>7. ASSUME NEW d \in Clients, d # c, kind[c] = "mutate", Holder(d)
        PROVE  aud[d] # id
    <3>1. Holder(c)
      BY <1>0, <2>7 DEF Holder
    <3> QED
      BY <2>7, <3>1, Exclusive
  <2>8. kind[c] = "mutate" => fate[id] # "deleted"
    BY <1>0 DEF Lives, Deleted
  <2>9. kind[c] = "read" => "read" \in Ops /\ Unguarded = {} /\ Quiet
    BY <1>0 DEF Closed, Lives
  <2>10. \A d \in InFlight : aud[d] \in Ids
    BY DEF Base, Controlled, Requests
  <2>11. Begun'
    BY <1>0, <2>1, <2>5, <2>6, <2>10 DEF Lives, Begun, InFlight
  <2>12. (Unguarded = {} => Quiet)'
    <3>1. Quiet => unlocked /\ loader \notin {"read", "rebuild", "install"}
      BY <1>0 DEF Quiet, InFlight
    <3> QED
      BY <1>0, <2>1, <2>5, <2>6, <2>10, <3>1 DEF Lives, Quiet, InFlight
  <2>13. Deleted'
    <3>1. ASSUME NEW i \in Ids, fate'[i] = "deleted"
          PROVE  /\ blobs'[i] = None
                 /\ cache'[i] = None \/ Excuse(i)'
                 /\ "read" \in Ops => index'[i] = None
      BY <1>0, <2>1, <2>3, <2>4, <2>8, <2>9, <3>1 DEF Lives, Deleted, Excuse
    <3>2. ASSUME NEW d \in Clients, kind'[d] = "mutate"
          PROVE  /\ pc'[d] \in {"insert", "persist", "index"} => fate'[aud'[d]] # "deleted"
                 /\ pc'[d] = "swap" => fate'[aud'[d]] # "deleted" \/ Excuse(aud[d])'
      BY <1>0, <2>1, <2>5, <2>6, <2>8, <3>2 DEF Lives, Deleted, Excuse
    <3>3. ASSUME NEW d \in Clients, kind'[d] = "delete", pc'[d] \in {"persist", "blob"}
          PROVE  /\ fate'[aud'[d]] = "dropped"
                 /\ cache'[aud'[d]] = None \/ Excuse(aud[d])'
      <4>1. d # c /\ kind[d] = "delete" /\ pc[d] \in {"persist", "blob"} /\ aud'[d] = aud[d] /\ d \in InFlight
        BY <2>5, <2>6, <3>3 DEF InFlight
      <4>2. kind[c] = "mutate" => aud[d] # id
        BY <2>7, <4>1 DEF Holder
      <4>3. kind[c] = "read" => Excuse(aud[d])
        BY <2>9, <4>1 DEF Quiet, Excuse
      <4> QED
        BY <1>0, <2>1, <2>3, <2>4, <2>10, <4>1, <4>2, <4>3 DEF Lives, Deleted, Excuse
    <3> QED
      BY <3>1, <3>2, <3>3 DEF Deleted
  <2>14. (Roomy => Fresh /\ Kept)'
    <3> SUFFICES ASSUME Roomy PROVE Fresh' /\ Kept'
      BY DEF Roomy
    <3>0. Fresh
      BY DEF Lives
    <3>1. Excuse(id) \/ Within(id, val[c])
      BY <1>0, <1>2, <3>0 DEF Fresh
    <3>2. ASSUME NEW i \in Ids, cache'[i] # None
          PROVE  Excuse(i)' \/ Within(i, cache[i])'
      BY <2>1, <2>3, <2>4, <3>0, <3>1, <3>2 DEF Fresh, Excuse, Within
    <3>3. ASSUME NEW d \in Clients, kind'[d] = "mutate"
          PROVE  /\ pc'[d] \in {"insert", "persist", "index"} => Within(aud[d], val[d])'
                 /\ pc'[d] = "swap" => Excuse(aud[d])' \/ Within(aud[d], val[d])'
                 /\ pc'[d] = "index" => blobs'[aud'[d]] = val'[d]
      BY <2>1, <2>5, <2>6, <3>0, <3>1, <3>3 DEF Fresh, Excuse, Within
    <3>4. ASSUME NEW d \in Clients, kind'[d] = "mutate", pc'[d] \in {"persist", "index"}
          PROVE  \/ cache'[aud'[d]] = None /\ "read" \notin Ops
                 \/ cache'[aud'[d]] # None /\ val'[d] \subseteq cache'[aud'[d]]
      <4>1. d # c /\ kind[d] = "mutate" /\ pc[d] \in {"persist", "index"} /\ d \in InFlight
            /\ aud'[d] = aud[d] /\ val'[d] = val[d]
        BY <2>5, <2>6, <3>4 DEF InFlight
      <4>2. \/ cache[aud[d]] = None /\ "read" \notin Ops
            \/ cache[aud[d]] # None /\ val[d] \subseteq cache[aud[d]]
        BY <3>0, <4>1 DEF Fresh
      <4>3. aud[d] # id
        BY <1>0, <1>2, <2>7, <2>9, <4>1, <4>2 DEF Holder
      <4> QED
        BY <2>3, <2>4, <2>10, <4>1, <4>2, <4>3
    <3>5. ASSUME NEW d \in Clients, kind'[d] = "read", pc'[d] = "insert"
          PROVE  Excuse(aud[d])' \/ cache'[aud'[d]] # None \/ Within(aud[d], val[d])'
      <4>1. d # c /\ kind[d] = "read" /\ pc[d] = "insert" /\ d \in InFlight
            /\ aud'[d] = aud[d] /\ val'[d] = val[d]
        BY <2>5, <2>6, <3>5 DEF InFlight
      <4>2. "read" \in Ops
        BY <4>1 DEF Base, Controlled, Placed
      <4>3. cache[aud[d]] # None => cache'[aud[d]] # None
        BY <1>0, <2>3, <2>4, <2>10, <4>1, <4>2
      <4> QED
        BY <2>1, <3>0, <4>1, <4>3 DEF Fresh, Excuse, Within
    <3>6. Kept'
      BY <2>1 DEF Lives, Kept
    <3> QED
      BY <3>2, <3>3, <3>4, <3>5, <3>6 DEF Fresh
  <2>15. (Unguarded = {} => CreatedListed)'
    BY <2>1 DEF Lives, CreatedListed
  <2> QED
    BY <2>11, <2>12, <2>13, <2>14, <2>15 DEF Lives
<1> QED
  BY <1>1, <1>2

LEMMA SwapLives ==
    ASSUME Base, Base', Lives, NEW c \in Clients, Swap(c)
    PROVE  Lives'
<1> DEFINE id == aud[c]
<1>0. pc[c] = "swap" /\ kind[c] = "mutate" /\ id \in Ids /\ c \in InFlight /\ Holder(c)
  BY DEF Base, Controlled, Requests, Placed, Kinds, InFlight, Holder, Swap
<1>1. CASE index[id] = None
  BY <1>1, Leaving DEF Swap, disk, memory
<1>2. CASE index[id] # None
  <2>1. /\ val' = [val EXCEPT ![c] = @ \cup {made'}]
        /\ cache' = [cache EXCEPT ![id] = val'[c]] /\ index' = [index EXCEPT ![id] = val'[c]]
        /\ pc' = [pc EXCEPT ![c] = "persist"] /\ UNCHANGED <<kind, aud>>
        /\ UNCHANGED <<blobs, unlocked, loader, rebuilt, clearing, fate, acked, failed>>
    BY <1>2 DEF Swap, Goto, disk, loading, history
  <2>2. val'[c] \in Datasets /\ val'[c] # None /\ val[c] \subseteq val'[c]
    BY <2>1, StoreAssumption DEF Base, Controlled, Requests
  <2>3. \A i \in Ids : /\ cache'[i] = IF i = id THEN val'[c] ELSE cache[i]
                       /\ index'[i] = IF i = id THEN val'[c] ELSE index[i]
    BY <2>1 DEF Base, Memory, Table
  <2>4. \A d \in Clients : d # c => pc'[d] = pc[d] /\ kind'[d] = kind[d] /\ aud'[d] = aud[d] /\ val'[d] = val[d]
    BY <2>1 DEF Base, Controlled, Requests
  <2>5. pc'[c] = "persist" /\ kind'[c] = "mutate" /\ aud'[c] = id
    BY <1>0, <2>1 DEF Base, Controlled, Requests
  <2>6. \A d \in Clients : d # c /\ Holder(d) => aud[d] # id
    BY <1>0, Exclusive
  <2>7. \A d \in InFlight : aud[d] \in Ids
    BY DEF Base, Controlled, Requests
  <2>8. fate[id] # "deleted" /\ (Roomy => Within(id, val[c]))
    BY <1>0, <1>2 DEF Lives, Deleted, Fresh, Excuse
  <2>9. Begun'
    BY <1>0, <2>1, <2>4, <2>5, <2>7 DEF Lives, Begun, InFlight
  <2>10. (Unguarded = {} => Quiet)'
    <3>1. Quiet => unlocked /\ loader \notin {"read", "rebuild", "install"}
      BY <1>0 DEF Quiet, InFlight
    <3>2. \A d \in Clients : d # c /\ kind[d] = "delete" /\ pc[d] # "lock" => aud[d] # id
      BY <2>6 DEF Base, Controlled, Placed, Holder
    <3> QED
      BY <1>0, <2>1, <2>2, <2>3, <2>4, <2>5, <2>7, <3>1, <3>2 DEF Lives, Quiet, InFlight
  <2>11. Deleted'
    <3>1. ASSUME NEW i \in Ids, fate'[i] = "deleted"
          PROVE  /\ blobs'[i] = None
                 /\ cache'[i] = None \/ Excuse(i)'
                 /\ "read" \in Ops => index'[i] = None
      BY <2>1, <2>3, <2>8, <3>1 DEF Lives, Deleted, Excuse
    <3>2. ASSUME NEW d \in Clients, kind'[d] = "mutate"
          PROVE  /\ pc'[d] \in {"insert", "persist", "index"} => fate'[aud'[d]] # "deleted"
                 /\ pc'[d] = "swap" => fate'[aud'[d]] # "deleted" \/ Excuse(aud[d])'
      <4>1. CASE d = c
        BY <2>1, <2>5, <2>8, <4>1
      <4>2. CASE d # c
        <5>1. pc[d] = "swap" => aud[d] # id /\ aud[d] \in Ids
          BY <2>4, <2>6, <2>7, <3>2, <4>2 DEF Holder, InFlight
        <5> QED
          BY <2>1, <2>3, <2>4, <3>2, <4>2, <5>1 DEF Lives, Deleted, Excuse
      <4> QED
        BY <4>1, <4>2
    <3>3. ASSUME NEW d \in Clients, kind'[d] = "delete", pc'[d] \in {"persist", "blob"}
          PROVE  /\ fate'[aud'[d]] = "dropped"
                 /\ cache'[aud'[d]] = None \/ Excuse(aud[d])'
      <4>1. d # c /\ kind[d] = "delete" /\ pc[d] \in {"persist", "blob"} /\ aud'[d] = aud[d]
            /\ aud[d] # id /\ aud[d] \in Ids
        BY <2>4, <2>5, <2>6, <2>7, <3>3 DEF InFlight, Holder
      <4> QED
        BY <2>1, <2>3, <4>1 DEF Lives, Deleted, Excuse
    <3> QED
      BY <3>1, <3>2, <3>3 DEF Deleted
  <2>12. (Roomy => Fresh /\ Kept)'
    <3> SUFFICES ASSUME Roomy PROVE Fresh' /\ Kept'
      BY DEF Roomy
    <3>0. Fresh /\ Within(id, val'[c])
      BY <2>2, <2>8 DEF Lives, Within
    <3>1. ASSUME NEW i \in Ids, cache'[i] # None
          PROVE  Excuse(i)' \/ Within(i, cache[i])'
      BY <2>1, <2>3, <3>0, <3>1 DEF Fresh, Excuse, Within
    <3>2. ASSUME NEW d \in Clients, kind'[d] = "mutate"
          PROVE  /\ pc'[d] \in {"insert", "persist", "index"} => Within(aud[d], val[d])'
                 /\ pc'[d] = "swap" => Excuse(aud[d])' \/ Within(aud[d], val[d])'
                 /\ pc'[d] \in {"persist", "index"} =>
                        \/ cache'[aud'[d]] = None /\ "read" \notin Ops
                        \/ cache'[aud'[d]] # None /\ val'[d] \subseteq cache'[aud'[d]]
                 /\ pc'[d] = "index" => blobs'[aud'[d]] = val'[d]
      <4>1. CASE d = c
        BY <1>0, <2>1, <2>2, <2>3, <2>5, <3>0, <4>1 DEF Within
      <4>2. CASE d # c
        <5>1. pc[d] \in {"swap", "persist", "index"} => aud[d] # id /\ aud[d] \in Ids
          BY <2>4, <2>6, <2>7, <3>2, <4>2 DEF Holder, InFlight
        <5> QED
          BY <2>1, <2>3, <2>4, <3>0, <3>2, <4>2, <5>1 DEF Fresh, Excuse, Within
      <4> QED
        BY <4>1, <4>2
    <3>3. ASSUME NEW d \in Clients, kind'[d] = "read", pc'[d] = "insert"
          PROVE  Excuse(aud[d])' \/ cache'[aud'[d]] # None \/ Within(aud[d], val[d])'
      <4>1. d # c /\ kind[d] = "read" /\ pc[d] = "insert" /\ aud[d] \in Ids /\ aud'[d] = aud[d] /\ val'[d] = val[d]
        BY <2>4, <2>5, <2>7, <3>3 DEF InFlight
      <4> QED
        BY <2>1, <2>2, <2>3, <3>0, <4>1 DEF Fresh, Excuse, Within
    <3>4. Kept'
      BY <2>1 DEF Lives, Kept
    <3> QED
      BY <3>1, <3>2, <3>3, <3>4 DEF Fresh
  <2>13. (Unguarded = {} => CreatedListed)'
    BY <2>1, <2>2, <2>3 DEF Lives, CreatedListed
  <2> QED
    BY <2>9, <2>10, <2>11, <2>12, <2>13 DEF Lives
<1> QED
  BY <1>1, <1>2

\* An audit that leaves the index and the cache, when no update of it is past the
\* per-audit lock and it is not known: a deletion or a rollback of c.
LEMMA DroppingLives ==
    ASSUME Closed, Base, Lives, NEW c \in Clients, NEW id \in Ids, id = aud[c], c \in InFlight,
           index' = [index EXCEPT ![id] = None], cache' = [cache EXCEPT ![id] = None],
           \A i \in Ids : fate'[i] = fate[i] \/ (i = id /\ fate'[i] = "dropped"),
           fate[id] # "unused", fate'[id] # "known",
           UNCHANGED <<blobs, unlocked, loader, rebuilt, clearing, acked, failed>>,
           \A d \in Clients : d # c =>
               pc'[d] = pc[d] /\ kind'[d] = kind[d] /\ aud'[d] = aud[d] /\ val'[d] = val[d],
           \A d \in InFlight : d # c /\ aud[d] = id => kind[d] # "create" /\ ~Holder(d),
           \/ pc'[c] = "idle" /\ kind'[c] = "read"
           \/ pc'[c] = "persist" /\ kind'[c] = "delete" /\ aud'[c] = id /\ fate'[id] = "dropped",
           Unguarded = {} => loader \notin {"read", "rebuild", "install"}
    PROVE  Lives'
<1>0. \A i \in Ids : /\ cache'[i] = IF i = id THEN None ELSE cache[i]
                     /\ index'[i] = IF i = id THEN None ELSE index[i]
  BY DEF Base, Memory, Table
<1>1. \A d \in InFlight : aud[d] \in Ids
  BY DEF Base, Controlled, Requests
<1>2. Begun'
  BY <1>1 DEF Lives, Begun, InFlight
<1>3. (Unguarded = {} => Quiet)'
  <2> SUFFICES ASSUME Unguarded = {} PROVE Quiet'
    OBVIOUS
  <2>1. unlocked
    BY DEF Lives, Quiet
  <2> QED
    BY <1>0, <1>1, <2>1 DEF Lives, Quiet, InFlight
<1>4. Deleted'
  <2>1. ASSUME NEW i \in Ids, fate'[i] = "deleted"
        PROVE  /\ blobs'[i] = None
               /\ cache'[i] = None \/ Excuse(i)'
               /\ "read" \in Ops => index'[i] = None
    BY <1>0, <2>1 DEF Lives, Deleted, Excuse
  <2>2. ASSUME NEW d \in Clients, kind'[d] = "mutate"
        PROVE  /\ pc'[d] \in {"insert", "persist", "index"} => fate'[aud'[d]] # "deleted"
               /\ pc'[d] = "swap" => fate'[aud'[d]] # "deleted" \/ Excuse(aud[d])'
    BY <1>0, <1>1, <2>2 DEF Lives, Deleted, Excuse, InFlight
  <2>3. ASSUME NEW d \in Clients, kind'[d] = "delete", pc'[d] \in {"persist", "blob"}
        PROVE  /\ fate'[aud'[d]] = "dropped"
               /\ cache'[aud'[d]] = None \/ Excuse(aud[d])'
    BY <1>0, <1>1, <2>3 DEF Lives, Deleted, Excuse, InFlight, Holder
  <2> QED
    BY <2>1, <2>2, <2>3 DEF Deleted
<1>5. (Roomy => Fresh /\ Kept)'
  <2> SUFFICES ASSUME Roomy PROVE Fresh' /\ Kept'
    BY DEF Roomy
  <2>0. Fresh
    BY DEF Lives
  <2>1. ASSUME NEW i \in Ids, cache'[i] # None
        PROVE  Excuse(i)' \/ Within(i, cache[i])'
    BY <1>0, <2>0, <2>1 DEF Fresh, Excuse, Within
  <2>2. ASSUME NEW d \in Clients, kind'[d] = "mutate"
        PROVE  /\ pc'[d] \in {"insert", "persist", "index"} => Within(aud[d], val[d])'
               /\ pc'[d] = "swap" => Excuse(aud[d])' \/ Within(aud[d], val[d])'
               /\ pc'[d] \in {"persist", "index"} =>
                      \/ cache'[aud'[d]] = None /\ "read" \notin Ops
                      \/ cache'[aud'[d]] # None /\ val'[d] \subseteq cache'[aud'[d]]
               /\ pc'[d] = "index" => blobs'[aud'[d]] = val'[d]
    <3>1. d # c /\ kind[d] = "mutate"
      BY <2>2
    <3>2. pc[d] \in {"swap", "persist", "index"} => aud[d] # id /\ aud[d] \in Ids
      BY <1>1, <3>1 DEF Holder, InFlight
    <3> QED
      BY <1>0, <2>0, <3>1, <3>2 DEF Fresh, Excuse, Within
  <2>3. ASSUME NEW d \in Clients, kind'[d] = "read", pc'[d] = "insert"
        PROVE  Excuse(aud[d])' \/ cache'[aud'[d]] # None \/ Within(aud[d], val[d])'
    <3>1. d # c /\ kind[d] = "read" /\ pc[d] = "insert" /\ aud[d] \in Ids
      BY <1>1, <2>3 DEF InFlight
    <3>2. "read" \in Ops
      BY <3>1 DEF Base, Controlled, Placed
    <3> QED
      BY <1>0, <2>0, <3>1, <3>2 DEF Fresh, Excuse, Within
  <2>4. Kept'
    BY DEF Lives, Kept
  <2> QED
    BY <2>1, <2>2, <2>3, <2>4 DEF Fresh
<1>6. (Unguarded = {} => CreatedListed)'
  BY <1>0 DEF Lives, CreatedListed
<1> QED
  BY <1>2, <1>3, <1>4, <1>5, <1>6 DEF Lives

LEMMA DeleteEntryLives ==
    ASSUME Closed, Base, Lives, NEW c \in Clients, DeleteEntry(c)
    PROVE  Lives'
<1> DEFINE id == aud[c]
<1>0. id \in Ids /\ pc[c] = "lock" /\ kind[c] = "delete" /\ mutate[id] = None /\ c \in InFlight
  BY DEF Base, Controlled, Requests, InFlight, DeleteEntry
<1>1. CASE index[id] = None
  BY <1>1, Leaving DEF DeleteEntry, disk, memory, history
<1>2. CASE index[id] # None
  <2>1. /\ index' = [index EXCEPT ![id] = None] /\ cache' = [cache EXCEPT ![id] = None]
        /\ fate' = [fate EXCEPT ![id] = "dropped"] /\ pc' = [pc EXCEPT ![c] = "persist"]
        /\ UNCHANGED <<kind, aud, val, blobs, unlocked, loader, rebuilt, clearing, acked, failed>>
    BY <1>2 DEF DeleteEntry, Goto, disk, loading
  <2>2. \A d \in InFlight : d # c /\ aud[d] = id => kind[d] # "create" /\ ~Holder(d)
    <3>1. \A d \in Clients : Holder(d) => aud[d] # id
      BY <1>0, StoreAssumption DEF Base, Controlled, Held
    <3>2. \A d \in InFlight : kind[d] = "create" /\ aud[d] = id => d = c
      BY <1>0 DEF Lives, Begun
    <3> QED
      BY <3>1, <3>2 DEF InFlight
  <2>3. fate[id] # "unused"
    BY <1>0 DEF Lives, Begun
  <2>4. Unguarded = {} => loader \notin {"read", "rebuild", "install"}
    BY <1>0, <1>2 DEF Lives, Quiet, Empty
  <2>5. \A i \in Ids : fate'[i] = fate[i] \/ (i = id /\ fate'[i] = "dropped")
    BY <2>1 DEF Base, Rest
  <2>6. fate'[id] = "dropped" /\ pc'[c] = "persist" /\ kind'[c] = "delete" /\ aud'[c] = id
    BY <1>0, <2>1 DEF Base, Rest, Controlled, Requests
  <2>7. \A d \in Clients : d # c =>
            pc'[d] = pc[d] /\ kind'[d] = kind[d] /\ aud'[d] = aud[d] /\ val'[d] = val[d]
    BY <2>1 DEF Base, Controlled, Requests
  <2> QED
    BY <1>0, <2>1, <2>2, <2>3, <2>4, <2>5, <2>6, <2>7, DroppingLives
<1> QED
  BY <1>1, <1>2

LEMMA CreateRollbackLives ==
    ASSUME Closed, Base, Lives, NEW c \in Clients, CreateRollback(c)
    PROVE  Lives'
<1> DEFINE id == aud[c]
<1>0. id \in Ids /\ pc[c] = "rollback" /\ kind[c] = "create" /\ c \in InFlight
  BY DEF Base, Controlled, Requests, Placed, Kinds, InFlight, CreateRollback
<1>1. /\ index' = [index EXCEPT ![id] = None] /\ cache' = [cache EXCEPT ![id] = None] /\ Return(c)
      /\ UNCHANGED <<blobs, unlocked, loader, rebuilt, clearing, fate, acked, failed>>
  BY DEF CreateRollback, disk, loading, history
<1>2. fate[id] = "made" /\ \A d \in InFlight : d # c => aud[d] # id
  BY <1>0 DEF Lives, Begun
<1>3. Unguarded = {} => loader \notin {"read", "rebuild", "install"}
  BY <1>0 DEF Lives, Quiet
<1>4. pc'[c] = "idle" /\ kind'[c] = "read"
  BY <1>1 DEF Return, Base, Controlled, Requests
<1>5. \A d \in Clients : d # c =>
          pc'[d] = pc[d] /\ kind'[d] = kind[d] /\ aud'[d] = aud[d] /\ val'[d] = val[d]
  BY <1>1 DEF Return, Base, Controlled, Requests
<1>6. \A i \in Ids : fate'[i] = fate[i] \/ (i = id /\ fate'[i] = "dropped")
  BY <1>1
<1>7. fate[id] # "unused" /\ fate'[id] # "known"
  BY <1>1, <1>2
<1>8. \A d \in InFlight : d # c /\ aud[d] = id => kind[d] # "create" /\ ~Holder(d)
  BY <1>2
<1> QED
  BY <1>0, <1>1, <1>3, <1>4, <1>5, <1>6, <1>7, <1>8, DroppingLives

LEMMA PersistBlobLives ==
    ASSUME Base, Whole, Lives, NEW c \in Clients, PersistBlob(c)
    PROVE  Lives'
<1> DEFINE id == aud[c]
<1>0. /\ pc[c] = "persist" /\ kind[c] \in {"create", "mutate"} /\ id \in Ids /\ c \in InFlight
      /\ val[c] \in Datasets /\ val[c] # None
  BY StoreAssumption DEF Whole, Base, Controlled, Requests, Placed, Kinds, InFlight, PersistBlob
<1>1. /\ blobs' = [blobs EXCEPT ![id] = val[c]] /\ pc' = [pc EXCEPT ![c] = "index"]
      /\ UNCHANGED <<index, cache, unlocked, loader, rebuilt, clearing, kind, aud, val, fate, acked, failed>>
  BY DEF PersistBlob, Goto, memory, loading, history
<1>2. \A i \in Ids : blobs'[i] = IF i = id THEN val[c] ELSE blobs[i]
  BY <1>1 DEF Base, Rest, Table
<1>3. \A d \in InFlight : aud[d] \in Ids
  BY DEF Base, Controlled, Requests
<1>4. \A d \in Clients : pc'[d] = IF d = c THEN "index" ELSE pc[d]
  BY <1>1 DEF Base, Controlled, Requests
<1>5. \A d \in InFlight : d # c /\ aud[d] = id => kind[d] # "create" /\ ~Holder(d)
  <2>1. ASSUME NEW d \in InFlight, d # c, aud[d] = id, kind[d] = "create" \/ Holder(d)
        PROVE  FALSE
    <3>1. CASE kind[c] = "create" \/ kind[d] = "create"
      BY <1>0, <2>1, <3>1 DEF Lives, Begun
    <3>2. CASE kind[c] = "mutate" /\ Holder(d)
      <4>1. Holder(c) /\ d \in Clients
        BY <1>0, <3>2 DEF Holder, InFlight
      <4> QED
        BY <2>1, <3>2, <4>1, Exclusive
    <3> QED
      BY <1>0, <2>1, <3>1, <3>2
  <2> QED
    BY <2>1
<1>6. fate[id] \notin {"unused", "deleted"}
  BY <1>0 DEF Lives, Begun, Deleted
<1>7. Begun'
  BY <1>0, <1>1, <1>2, <1>3, <1>4, <1>6 DEF Lives, Begun, InFlight
<1>8. (Unguarded = {} => Quiet)'
  <2>1. Quiet => unlocked /\ loader \notin {"read", "rebuild", "install"}
    BY <1>0 DEF Quiet, InFlight
  <2> QED
    BY <1>0, <1>1, <1>3, <1>4, <2>1 DEF Lives, Quiet, InFlight
<1>9. Deleted'
  <2>1. ASSUME NEW i \in Ids, fate'[i] = "deleted"
        PROVE  /\ blobs'[i] = None
               /\ cache'[i] = None \/ Excuse(i)'
               /\ "read" \in Ops => index'[i] = None
    BY <1>1, <1>2, <1>6, <2>1 DEF Lives, Deleted, Excuse
  <2>2. ASSUME NEW d \in Clients, kind'[d] = "mutate"
        PROVE  /\ pc'[d] \in {"insert", "persist", "index"} => fate'[aud'[d]] # "deleted"
               /\ pc'[d] = "swap" => fate'[aud'[d]] # "deleted" \/ Excuse(aud[d])'
    BY <1>1, <1>4, <1>6, <2>2 DEF Lives, Deleted, Excuse
  <2>3. ASSUME NEW d \in Clients, kind'[d] = "delete", pc'[d] \in {"persist", "blob"}
        PROVE  /\ fate'[aud'[d]] = "dropped"
               /\ cache'[aud'[d]] = None \/ Excuse(aud[d])'
    BY <1>0, <1>1, <1>4, <2>3 DEF Lives, Deleted, Excuse
  <2> QED
    BY <2>1, <2>2, <2>3 DEF Deleted
<1>10. (Roomy => Fresh /\ Kept)'
  <2> SUFFICES ASSUME Roomy PROVE Fresh' /\ Kept'
    BY DEF Roomy
  <2>0. Fresh
    BY DEF Lives
  <2>1. /\ kind[c] = "create" => val[c] = {}
        /\ kind[c] = "mutate" => /\ Within(id, val[c])
                                 /\ \/ cache[id] = None /\ "read" \notin Ops
                                    \/ cache[id] # None /\ val[c] \subseteq cache[id]
    BY <1>0, <2>0 DEF Lives, Begun, Fresh
  <2>2. ASSUME NEW i \in Ids, cache'[i] # None
        PROVE  Excuse(i)' \/ Within(i, cache[i])'
    BY <1>0, <1>1, <1>2, <2>0, <2>1, <2>2 DEF Fresh, Excuse, Within
  <2>3. ASSUME NEW d \in Clients, kind'[d] = "mutate"
        PROVE  /\ pc'[d] \in {"insert", "persist", "index"} => Within(aud[d], val[d])'
               /\ pc'[d] = "swap" => Excuse(aud[d])' \/ Within(aud[d], val[d])'
               /\ pc'[d] \in {"persist", "index"} =>
                      \/ cache'[aud'[d]] = None /\ "read" \notin Ops
                      \/ cache'[aud'[d]] # None /\ val'[d] \subseteq cache'[aud'[d]]
               /\ pc'[d] = "index" => blobs'[aud'[d]] = val'[d]
    <3>1. CASE d = c
      BY <1>0, <1>1, <1>2, <1>4, <2>1, <2>3, <3>1 DEF Within
    <3>2. CASE d # c
      <4>1. pc[d] \in {"insert", "swap", "persist", "index"} => aud[d] # id /\ aud[d] \in Ids
        BY <1>1, <1>3, <1>5, <2>3, <3>2 DEF Holder, InFlight
      <4> QED
        BY <1>1, <1>2, <1>4, <2>0, <2>3, <3>2, <4>1 DEF Fresh, Excuse, Within
    <3> QED
      BY <3>1, <3>2
  <2>4. ASSUME NEW d \in Clients, kind'[d] = "read", pc'[d] = "insert"
        PROVE  Excuse(aud[d])' \/ cache'[aud'[d]] # None \/ Within(aud[d], val[d])'
    <3>1. d # c /\ kind[d] = "read" /\ pc[d] = "insert" /\ aud[d] \in Ids
      BY <1>1, <1>3, <1>4, <2>4 DEF InFlight
    <3>2. "read" \in Ops
      BY <3>1 DEF Base, Controlled, Placed
    <3>3. kind[c] = "create" => val[c] = {}
      BY <2>1
    <3> QED
      BY <1>0, <1>1, <1>2, <2>0, <2>1, <3>1, <3>2 DEF Fresh, Excuse, Within
  <2>5. Kept'
    BY <1>0, <1>1, <1>2, <2>1 DEF Lives, Begun, Kept, Within
  <2> QED
    BY <2>2, <2>3, <2>4, <2>5 DEF Fresh
<1>11. (Unguarded = {} => CreatedListed)'
  BY <1>1 DEF Lives, CreatedListed
<1> QED
  BY <1>7, <1>8, <1>9, <1>10, <1>11 DEF Lives

LEMMA PersistIndexLives ==
    ASSUME Base, Lives, NEW c \in Clients, PersistIndex(c)
    PROVE  Lives'
<1> DEFINE id == aud[c]
<1>0. /\ pc[c] = "index" /\ kind[c] \in {"create", "mutate"} /\ id \in Ids /\ c \in InFlight
  BY DEF Base, Controlled, Requests, Placed, Kinds, InFlight, PersistIndex
<1>1. UNCHANGED <<blobs, index, cache, unlocked, loader, rebuilt, clearing, failed>>
  BY DEF PersistIndex, memory, loading
<1>2. /\ kind[c] = "create" => fate' = [fate EXCEPT ![id] = "known"] /\ acked' = acked
      /\ kind[c] = "mutate" => acked' = [acked EXCEPT ![id] = @ \cup val[c]] /\ fate' = fate
  BY <1>0 DEF PersistIndex
<1>3. /\ \A i \in Ids : i # id => fate'[i] = fate[i] /\ acked'[i] = acked[i]
      /\ kind[c] = "create" => fate'[id] = "known" /\ acked'[id] = acked[id]
      /\ kind[c] = "mutate" => fate'[id] = fate[id] /\ acked'[id] = acked[id] \cup val[c]
  BY <1>0, <1>2 DEF Base, Rest
<1>4. /\ pc'[c] = "idle" /\ kind'[c] = "read"
      /\ \A d \in Clients : d # c =>
             pc'[d] = pc[d] /\ kind'[d] = kind[d] /\ aud'[d] = aud[d] /\ val'[d] = val[d]
  BY DEF PersistIndex, Return, Base, Controlled, Requests
<1>5. \A d \in InFlight : aud[d] \in Ids
  BY DEF Base, Controlled, Requests
<1>6. kind[c] = "create" => /\ fate[id] = "made" /\ acked[id] = {} /\ blobs[id] # None
                           /\ \A d \in InFlight : d # c => aud[d] # id
  BY <1>0 DEF Lives, Begun
<1>7. fate[id] # "unused" /\ \A d \in InFlight : kind[d] = "create" /\ d # c => aud[d] # id
  BY <1>0 DEF Lives, Begun
<1>8. Begun'
  BY <1>0, <1>1, <1>3, <1>4, <1>5, <1>6, <1>7 DEF Lives, Begun, InFlight
<1>9. (Unguarded = {} => Quiet)'
  BY <1>0, <1>1, <1>4, <1>5 DEF Lives, Quiet, InFlight
<1>10. Deleted'
  <2>1. ASSUME NEW i \in Ids, fate'[i] = "deleted"
        PROVE  /\ blobs'[i] = None
               /\ cache'[i] = None \/ Excuse(i)'
               /\ "read" \in Ops => index'[i] = None
    BY <1>0, <1>1, <1>3, <2>1 DEF Lives, Deleted, Excuse
  <2>2. ASSUME NEW d \in Clients, kind'[d] = "mutate"
        PROVE  /\ pc'[d] \in {"insert", "persist", "index"} => fate'[aud'[d]] # "deleted"
               /\ pc'[d] = "swap" => fate'[aud'[d]] # "deleted" \/ Excuse(aud[d])'
    BY <1>0, <1>1, <1>3, <1>4, <1>5, <1>6, <2>2 DEF Lives, Deleted, Excuse, InFlight
  <2>3. ASSUME NEW d \in Clients, kind'[d] = "delete", pc'[d] \in {"persist", "blob"}
        PROVE  /\ fate'[aud'[d]] = "dropped"
               /\ cache'[aud'[d]] = None \/ Excuse(aud[d])'
    BY <1>0, <1>1, <1>3, <1>4, <1>5, <1>6, <2>3 DEF Lives, Deleted, Excuse, InFlight
  <2> QED
    BY <2>1, <2>2, <2>3 DEF Deleted
<1>11. (Roomy => Fresh /\ Kept)'
  <2> SUFFICES ASSUME Roomy PROVE Fresh' /\ Kept'
    BY DEF Roomy
  <2>1. Fresh'
    BY <1>1, <1>4 DEF Lives, Fresh, Excuse, Within
  <2>2. kind[c] = "mutate" => blobs[id] = val[c]
    BY <1>0 DEF Lives, Fresh
  <2>3. Kept'
    BY <1>0, <1>1, <1>3, <1>6, <2>2 DEF Lives, Kept
  <2> QED
    BY <2>1, <2>3
<1>12. (Unguarded = {} => CreatedListed)'
  <2>1. Unguarded = {} /\ kind[c] = "create" => index[id] # None
    BY <1>0 DEF Lives, Quiet
  <2> QED
    BY <1>0, <1>1, <1>3, <2>1 DEF Lives, CreatedListed
<1> QED
  BY <1>8, <1>9, <1>10, <1>11, <1>12 DEF Lives

LEMMA DeleteIndexLives ==
    ASSUME Base, Lives, NEW c \in Clients, DeleteIndex(c)
    PROVE  Lives'
<1>1. /\ pc[c] = "persist" /\ kind[c] = "delete" /\ c \in InFlight
      /\ UNCHANGED <<blobs, index, cache, unlocked, loader, rebuilt, clearing, kind, aud, val, fate, acked, failed>>
      /\ \A d \in Clients : pc'[d] = IF d = c THEN "blob" ELSE pc[d]
  BY DEF DeleteIndex, Goto, memory, loading, history, Base, Controlled, Requests, InFlight
<1> USE <1>1 DEF Lives, InFlight
<1>2. Begun'
  BY DEF Begun
<1>3. (Unguarded = {} => Quiet)'
  BY DEF Quiet
<1>4. Deleted'
  BY DEF Deleted, Excuse
<1>5. (Roomy => Fresh /\ Kept)'
  BY DEF Roomy, Fresh, Within, Excuse, Kept
<1>6. (Unguarded = {} => CreatedListed)'
  BY DEF CreatedListed
<1> QED
  BY <1>2, <1>3, <1>4, <1>5, <1>6

LEMMA DeleteBlobLives ==
    ASSUME Closed, Base, Lives, NEW c \in Clients, DeleteBlob(c)
    PROVE  Lives'
<1> DEFINE id == aud[c]
<1>0. pc[c] = "blob" /\ kind[c] = "delete" /\ id \in Ids /\ c \in InFlight /\ Holder(c)
  BY DEF Base, Controlled, Requests, Placed, Kinds, InFlight, Holder, DeleteBlob
<1>1. /\ blobs' = [blobs EXCEPT ![id] = None] /\ fate' = [fate EXCEPT ![id] = "deleted"]
      /\ UNCHANGED <<index, cache, unlocked, loader, rebuilt, clearing, acked, failed>>
  BY DEF DeleteBlob, memory, loading
<1>2. \A i \in Ids : /\ blobs'[i] = IF i = id THEN None ELSE blobs[i]
                     /\ fate'[i] = IF i = id THEN "deleted" ELSE fate[i]
  BY <1>1 DEF Base, Rest, Table
<1>3. /\ pc'[c] = "idle" /\ kind'[c] = "read"
      /\ \A d \in Clients : d # c =>
             pc'[d] = pc[d] /\ kind'[d] = kind[d] /\ aud'[d] = aud[d] /\ val'[d] = val[d]
  BY DEF DeleteBlob, Return, Base, Controlled, Requests
<1>4. \A d \in InFlight : aud[d] \in Ids
  BY DEF Base, Controlled, Requests
<1>5. \A d \in InFlight : d # c /\ aud[d] = id => kind[d] # "create" /\ ~Holder(d)
  BY <1>0, Exclusive DEF Lives, Begun, InFlight
<1>6. cache[id] = None \/ Excuse(id)
  BY <1>0 DEF Lives, Deleted
<1>7. "read" \in Ops => index[id] = None
  BY <1>0 DEF Closed, Lives, Quiet
<1>8. Begun'
  BY <1>0, <1>1, <1>2, <1>3, <1>4, <1>5 DEF Lives, Begun, InFlight
<1>9. (Unguarded = {} => Quiet)'
  BY <1>0, <1>1, <1>3, <1>4 DEF Lives, Quiet, InFlight
<1>10. Deleted'
  <2>1. ASSUME NEW i \in Ids, fate'[i] = "deleted"
        PROVE  /\ blobs'[i] = None
               /\ cache'[i] = None \/ Excuse(i)'
               /\ "read" \in Ops => index'[i] = None
    BY <1>1, <1>2, <1>6, <1>7, <2>1 DEF Lives, Deleted, Excuse
  <2>2. ASSUME NEW d \in Clients, kind'[d] = "mutate"
        PROVE  /\ pc'[d] \in {"insert", "persist", "index"} => fate'[aud'[d]] # "deleted"
               /\ pc'[d] = "swap" => fate'[aud'[d]] # "deleted" \/ Excuse(aud[d])'
    <3>1. d # c /\ kind[d] = "mutate"
      BY <1>3, <2>2
    <3>2. pc[d] \in {"insert", "swap", "persist", "index"} => aud[d] # id /\ aud[d] \in Ids
      BY <1>4, <1>5, <3>1 DEF Holder, InFlight
    <3> QED
      BY <1>1, <1>2, <1>3, <3>1, <3>2 DEF Lives, Deleted, Excuse
  <2>3. ASSUME NEW d \in Clients, kind'[d] = "delete", pc'[d] \in {"persist", "blob"}
        PROVE  /\ fate'[aud'[d]] = "dropped"
               /\ cache'[aud'[d]] = None \/ Excuse(aud[d])'
    <3>1. d # c /\ kind[d] = "delete" /\ pc[d] \in {"persist", "blob"}
      BY <1>3, <2>3
    <3>2. aud[d] # id /\ aud[d] \in Ids
      BY <1>4, <1>5, <3>1 DEF Holder, InFlight
    <3> QED
      BY <1>1, <1>2, <1>3, <3>1, <3>2 DEF Lives, Deleted, Excuse
  <2> QED
    BY <2>1, <2>2, <2>3 DEF Deleted
<1>11. (Roomy => Fresh /\ Kept)'
  <2> SUFFICES ASSUME Roomy PROVE Fresh' /\ Kept'
    BY DEF Roomy
  <2>0. Fresh
    BY DEF Lives
  <2>1. ASSUME NEW i \in Ids, cache'[i] # None
        PROVE  Excuse(i)' \/ Within(i, cache[i])'
    BY <1>1, <1>2, <2>0, <2>1 DEF Fresh, Excuse, Within
  <2>2. ASSUME NEW d \in Clients, kind'[d] = "mutate"
        PROVE  /\ pc'[d] \in {"insert", "persist", "index"} => Within(aud[d], val[d])'
               /\ pc'[d] = "swap" => Excuse(aud[d])' \/ Within(aud[d], val[d])'
               /\ pc'[d] \in {"persist", "index"} =>
                      \/ cache'[aud'[d]] = None /\ "read" \notin Ops
                      \/ cache'[aud'[d]] # None /\ val'[d] \subseteq cache'[aud'[d]]
               /\ pc'[d] = "index" => blobs'[aud'[d]] = val'[d]
    <3>1. d # c /\ kind[d] = "mutate"
      BY <1>3, <2>2
    <3>2. pc[d] \in {"insert", "swap", "persist", "index"} => aud[d] # id /\ aud[d] \in Ids
      BY <1>4, <1>5, <3>1 DEF Holder, InFlight
    <3> QED
      BY <1>1, <1>2, <1>3, <2>0, <3>1, <3>2 DEF Fresh, Excuse, Within
  <2>3. ASSUME NEW d \in Clients, kind'[d] = "read", pc'[d] = "insert"
        PROVE  Excuse(aud[d])' \/ cache'[aud'[d]] # None \/ Within(aud[d], val[d])'
    <3>1. d # c /\ kind[d] = "read" /\ pc[d] = "insert" /\ aud[d] \in Ids
      BY <1>3, <1>4, <2>3 DEF InFlight
    <3> QED
      BY <1>1, <1>2, <1>3, <2>0, <3>1 DEF Fresh, Excuse, Within
  <2>4. Kept'
    BY <1>1, <1>2 DEF Lives, Kept
  <2> QED
    BY <2>1, <2>2, <2>3, <2>4 DEF Fresh
<1>12. (Unguarded = {} => CreatedListed)'
  BY <1>1, <1>2 DEF Lives, CreatedListed
<1> QED
  BY <1>8, <1>9, <1>10, <1>11, <1>12 DEF Lives

LEMMA WriteFailsLives ==
    ASSUME Base, Whole, Lives, NEW c \in Clients, WriteFails(c)
    PROVE  Lives'
<1>0. /\ UNCHANGED <<blobs, index, cache, unlocked, loading, history>> /\ GiveUp(c)
      /\ pc[c] \in {"fetch", "persist", "index", "blob"}
  BY DEF Whole, WriteFails, disk, memory
<1>1. CASE kind[c] # "create"
  BY <1>0, <1>1, Leaving DEF GiveUp
<1>2. CASE kind[c] = "create"
  <2>1. /\ c \in InFlight /\ UNCHANGED <<kind, aud, val>>
        /\ UNCHANGED <<blobs, index, cache, unlocked, loader, rebuilt, clearing, fate, acked, failed>>
        /\ \A d \in Clients : pc'[d] = IF d = c THEN "rollback" ELSE pc[d]
    BY <1>0, <1>2 DEF GiveUp, Goto, loading, history, Base, Controlled, Requests, InFlight
  <2> USE <1>0, <1>2, <2>1 DEF Lives, InFlight
  <2>2. Begun'
    BY DEF Begun
  <2>3. (Unguarded = {} => Quiet)'
    BY DEF Quiet
  <2>4. Deleted'
    BY DEF Deleted, Excuse
  <2>5. (Roomy => Fresh /\ Kept)'
    BY DEF Roomy, Fresh, Within, Excuse, Kept
  <2>6. (Unguarded = {} => CreatedListed)'
    BY DEF CreatedListed
  <2> QED
    BY <2>2, <2>3, <2>4, <2>5, <2>6
<1> QED
  BY <1>1, <1>2

\* The store is emptied or filled again, with nothing cached.
LEMMA ReloadLives ==
    ASSUME Closed, Base, Lives, NEW table \in Table, index' = table, cache' = Empty,
           UNCHANGED <<blobs, unlocked, local, fate, acked, failed>>,
           (Unguarded = {} => Quiet)',
           Unguarded = {} => \A c \in Clients : pc[c] \in {"idle", "lock", "load"},
           "read" \in Ops => \A id \in Ids : fate[id] = "deleted" => table[id] = None,
           (Unguarded = {} => CreatedListed)'
    PROVE  Lives'
<1>0. /\ \A id \in Ids : cache'[id] = None
      /\ UNCHANGED <<pc, kind, aud, val>> /\ \A c \in InFlight : aud[c] \in Ids
  BY DEF Empty, local, Base, Controlled, Requests
<1>1. Begun'
  BY DEF Lives, Begun, local, InFlight
<1>2. "read" \in Ops => \A c \in Clients : pc[c] \in {"idle", "lock", "load"}
  BY DEF Closed
<1>3. Deleted'
  BY <1>0, <1>2 DEF Lives, Deleted, Excuse, InFlight
<1>4. (Roomy => Fresh /\ Kept)'
  <2> SUFFICES ASSUME Roomy PROVE Fresh' /\ Kept'
    BY DEF Roomy
  <2>1. ASSUME NEW d \in Clients, kind'[d] = "mutate"
        PROVE  /\ pc'[d] \in {"insert", "persist", "index"} => Within(aud[d], val[d])'
               /\ pc'[d] = "swap" => Excuse(aud[d])' \/ Within(aud[d], val[d])'
               /\ pc'[d] \in {"persist", "index"} =>
                      \/ cache'[aud'[d]] = None /\ "read" \notin Ops
                      \/ cache'[aud'[d]] # None /\ val'[d] \subseteq cache'[aud'[d]]
               /\ pc'[d] = "index" => blobs'[aud'[d]] = val'[d]
    BY <1>0, <1>2, <2>1 DEF Lives, Fresh, Excuse, Within, InFlight
  <2>2. ASSUME NEW d \in Clients, kind'[d] = "read", pc'[d] = "insert"
        PROVE  FALSE
    BY <1>0, <1>2, <2>2 DEF Base, Controlled, Placed
  <2>3. Kept'
    BY DEF Lives, Kept
  <2> QED
    BY <1>0, <2>1, <2>2, <2>3 DEF Fresh
<1> QED
  BY <1>1, <1>3, <1>4 DEF Lives

\* A step of Lock, Unlock or loadIndex that touches neither the blobs nor memory.
LEMMA AsideLives ==
    ASSUME Lives, UNCHANGED <<blobs, index, cache, local, fate, acked>>,
           (Unguarded = {} => Quiet)', (Unguarded = {} => CreatedListed)'
    PROVE  Lives'
<1> USE DEF Lives, InFlight, local
<1>1. Begun'
  BY DEF Begun
<1>2. Deleted'
  BY DEF Deleted, Excuse
<1>3. (Roomy => Fresh /\ Kept)'
  BY DEF Roomy, Fresh, Within, Excuse, Kept
<1> QED
  BY <1>1, <1>2, <1>3

LEMMA LockUnlockLives ==
    ASSUME Closed, Base, Whole, Lives, LockUnlock
    PROVE  Lives'
<1> USE DEF disk, history, memory, loading, local
<1>0. "unlock_in_lock" \notin Unguarded /\ "lock_in_call" \notin Unguarded
  BY DEF Closed
<1>1. CASE LockVault
  <2>1. (Unguarded = {} => Quiet)'
    BY <1>1 DEF LockVault, Lives, Quiet, InFlight
  <2>2. (Unguarded = {} => CreatedListed)'
    BY <1>1 DEF LockVault, CreatedListed
  <2> QED
    BY <1>1, <2>1, <2>2, AsideLives DEF LockVault
<1>2. CASE LockClear
  <2>1. Unguarded = {} => ~unlocked /\ loader = "off" /\ \A c \in Clients : pc[c] = "idle"
    BY <1>2 DEF LockClear, Lives, Quiet, InFlight
  <2>2. (Unguarded = {} => Quiet)'
    BY <1>2, <2>1 DEF LockClear, Lives, Quiet, InFlight
  <2>3. (Unguarded = {} => CreatedListed)'
    BY <1>2, <2>1 DEF LockClear, CreatedListed
  <2>4. \A id \in Ids : Empty[id] = None
    BY DEF Empty
  <2> QED
    BY <1>2, <2>1, <2>2, <2>3, <2>4, EmptyTable, ReloadLives DEF LockClear
<1>3. CASE UnlockVault
  <2>1. (Unguarded = {} => Quiet)'
    BY <1>0, <1>3 DEF UnlockVault, Lives, Quiet, InFlight
  <2>2. (Unguarded = {} => CreatedListed)'
    BY <1>3 DEF UnlockVault, CreatedListed
  <2> QED
    BY <1>3, <2>1, <2>2, AsideLives DEF UnlockVault
<1>4. CASE LoadIndex
  <2>1. CASE loader' = "rebuild" /\ UNCHANGED memory
    <3>1. (Unguarded = {} => Quiet)'
      BY <1>4, <2>1 DEF LoadIndex, Lives, Quiet, InFlight
    <3>2. (Unguarded = {} => CreatedListed)'
      BY <2>1 DEF CreatedListed
    <3> QED
      BY <1>4, <2>1, <3>1, <3>2, AsideLives DEF LoadIndex
  <2>2. CASE Listed(dindex) = Listed(blobs) /\ loader' = "off" /\ InstallIndex(dindex)
    <3>1. Unguarded = {} => Quiet /\ unlocked /\ \A c \in Clients : pc[c] \in {"idle", "lock", "load"}
      BY <1>4 DEF LoadIndex, Lives, Quiet
    <3>2. (Unguarded = {} => Quiet)'
      <4>1. Unguarded = {} => \A c \in InFlight : kind[c] # "create" /\ (kind[c] = "delete" => pc[c] = "lock")
        BY <3>1 DEF Base, Controlled, Placed, InFlight
      <4> QED
        BY <1>4, <2>2, <3>1, <4>1 DEF LoadIndex, Quiet, InFlight
    <3>3. \A id \in Ids : dindex[id] = None <=> blobs[id] = None
      BY <2>2 DEF Listed
    <3>4. (Unguarded = {} => CreatedListed)'
      BY <1>4, <2>2, <3>3 DEF LoadIndex, InstallIndex, Lives, Begun, CreatedListed
    <3>5. \A id \in Ids : fate[id] = "deleted" => dindex[id] = None
      BY <3>3 DEF Lives, Deleted
    <3> QED
      BY <1>4, <2>2, <3>1, <3>2, <3>4, <3>5, ReloadLives DEF LoadIndex, InstallIndex, Base, Rest
  <2> QED
    BY <1>4, <2>1, <2>2 DEF LoadIndex
<1>5. CASE RebuildIndex
  <2>0. blobs' = blobs /\ rebuilt' = blobs' /\ loader' = "install"
    BY <1>5 DEF RebuildIndex, Quarantine, Whole, Base, Rest, Table
  <2>1. (Unguarded = {} => Quiet)'
    BY <1>5, <2>0 DEF RebuildIndex, Lives, Quiet, InFlight
  <2>2. (Unguarded = {} => CreatedListed)'
    BY <1>5, <2>0 DEF RebuildIndex, CreatedListed
  <2> QED
    BY <1>5, <2>0, <2>1, <2>2, AsideLives DEF RebuildIndex
<1>6. CASE InstallRebuilt
  <2>1. Unguarded = {} => /\ Quiet /\ unlocked /\ rebuilt = blobs
                         /\ \A c \in Clients : pc[c] \in {"idle", "lock", "load"}
    BY <1>6 DEF InstallRebuilt, Lives, Quiet
  <2>2. (Unguarded = {} => Quiet)'
    <3>1. Unguarded = {} => \A c \in InFlight : kind[c] # "create" /\ (kind[c] = "delete" => pc[c] = "lock")
      BY <2>1 DEF Base, Controlled, Placed, InFlight
    <3> QED
      BY <1>6, <2>1, <3>1 DEF InstallRebuilt, Quiet, InFlight
  <2>3. (Unguarded = {} => CreatedListed)'
    BY <1>6, <2>1 DEF InstallRebuilt, InstallIndex, Lives, Begun, CreatedListed
  <2>4. "read" \in Ops => \A id \in Ids : fate[id] = "deleted" => rebuilt[id] = None
    BY <2>1 DEF Closed, Lives, Deleted
  <2> QED
    BY <1>6, <2>1, <2>2, <2>3, <2>4, ReloadLives DEF InstallRebuilt, InstallIndex, Base, Rest
<1>7. CASE SaveRebuilt
  <2>1. (Unguarded = {} => Quiet)'
    BY <1>7 DEF SaveRebuilt, Lives, Quiet, InFlight
  <2>2. (Unguarded = {} => CreatedListed)'
    BY <1>7 DEF SaveRebuilt, Lives, CreatedListed
  <2> QED
    BY <1>7, <2>1, <2>2, AsideLives DEF SaveRebuilt
<1>8. CASE LoadFails
  <2>1. (Unguarded = {} => Quiet)'
    BY <1>8 DEF LoadFails, Lives, Quiet, InFlight
  <2>2. (Unguarded = {} => CreatedListed)'
    BY <1>8 DEF LoadFails, CreatedListed
  <2> QED
    BY <1>8, <2>1, <2>2, AsideLives DEF LoadFails
<1> QED
  BY <1>0, <1>1, <1>2, <1>3, <1>4, <1>5, <1>6, <1>7, <1>8 DEF LockUnlock, LockInLoadAll, LockInSave

LEMMA CrashLives ==
    ASSUME Base, Lives, Crash
    PROVE  Lives'
<1>1. /\ \A c \in Clients : pc'[c] = "idle" /\ kind'[c] = "read"
      /\ \A id \in Ids : index'[id] = None /\ cache'[id] = None
      /\ ~unlocked' /\ ~clearing' /\ loader' = "off" /\ index' = Empty /\ cache' = Empty
      /\ UNCHANGED <<blobs, fate, acked>>
  BY DEF Crash, Empty, disk, history
<1> USE <1>1 DEF Lives, InFlight
<1>2. Begun'
  BY DEF Begun
<1>3. (Unguarded = {} => Quiet)'
  BY DEF Quiet
<1>4. Deleted'
  BY DEF Deleted, Excuse
<1>5. (Roomy => Fresh /\ Kept)'
  BY DEF Roomy, Fresh, Within, Excuse, Kept
<1>6. (Unguarded = {} => CreatedListed)'
  BY DEF CreatedListed
<1> QED
  BY <1>2, <1>3, <1>4, <1>5, <1>6

LEMMA LivesInit == Init => Lives
<1> SUFFICES ASSUME Init PROVE Lives
  OBVIOUS
<1>1. /\ \A c \in Clients : pc[c] = "idle" /\ kind[c] = "read"
      /\ \A id \in Ids : /\ index[id] = None /\ cache[id] = None /\ blobs[id] = None
                          /\ fate[id] = "unused" /\ acked[id] = {}
      /\ ~unlocked /\ ~clearing /\ loader = "off" /\ index = Empty /\ cache = Empty
  BY DEF Init, Empty
<1> USE <1>1 DEF InFlight
<1>2. Begun /\ Quiet
  BY DEF Begun, Quiet
<1>3. Deleted
  BY DEF Deleted
<1>4. Fresh /\ Kept
  BY DEF Fresh, Kept
<1>5. CreatedListed
  BY DEF CreatedListed
<1> QED
  BY <1>2, <1>3, <1>4, <1>5 DEF Lives

LEMMA LivesStep ==
    ASSUME Closed
    PROVE  Base /\ Whole /\ Lives /\ [Next]_vars => Lives'
<1> SUFFICES ASSUME Base, Whole, Lives, [Next]_vars PROVE Lives'
  OBVIOUS
<1>0. Base'
  BY BaseStep
<1>1. CASE LockUnlock
  BY <1>1, LockUnlockLives
<1>2. ASSUME NEW c \in Clients, Request(c) PROVE Lives'
  BY <1>2, ReadBeginLives, CreateBeginLives, LockedBeginLives DEF Request
<1>3. ASSUME NEW c \in Clients, Continue(c) PROVE Lives'
  BY <1>0, <1>3, MutateLockLives, DeleteEntryLives, LoadCachedLives, LoadMissedLives, FetchLives,
     InsertLives, SwapLives, PersistBlobLives, PersistIndexLives, DeleteIndexLives, DeleteBlobLives,
     WriteFailsLives, CreateRollbackLives DEF Continue
<1>4. CASE Crash
  BY <1>4, CrashLives
<1>5. CASE UNCHANGED vars
  <2>1. (Unguarded = {} => Quiet)' /\ (Unguarded = {} => CreatedListed)'
    BY <1>5 DEF vars, disk, memory, locks, loading, local, history, Lives, Quiet, CreatedListed, InFlight
  <2> QED
    BY <1>5, <2>1, AsideLives DEF vars, disk, memory, history
<1> QED
  BY <1>1, <1>2, <1>3, <1>4, <1>5 DEF Next

LEMMA WholeStep ==
    ASSUME Closed
    PROVE  Base /\ Whole /\ [Next]_vars => Whole'
<1> SUFFICES ASSUME Base, Whole, [Next]_vars PROVE Whole'
  OBVIOUS
<1> USE DEF Whole, Base, Controlled, Requests
<1>1. CASE LockUnlock
  <2>1. "lock_in_call" \notin Unguarded
    BY DEF Closed
  <2> QED
    BY <1>1, <2>1 DEF LockUnlock, LockVault, LockInLoadAll, LockInSave, LockClear, UnlockVault, LoadIndex,
       RebuildIndex, Quarantine, InstallRebuilt, SaveRebuilt, LoadFails, disk, local
<1>2. ASSUME NEW c \in Clients, Request(c) PROVE Whole'
  BY <1>2 DEF Request, ReadBegin, CreateBegin, LockedBegin, Begin, disk
<1>3. ASSUME NEW c \in Clients, Continue(c) PROVE Whole'
  <2>1. unreadable' = {}
    BY <1>3 DEF Continue, MutateLock, DeleteEntry, LoadCached, LoadMissed, Fetch, Insert, Swap, PersistBlob,
       PersistIndex, DeleteIndex, DeleteBlob, WriteFails, CreateRollback, disk
  <2>2. pc' = pc \/ \E at \in Steps \ {"seal"} : pc' = [pc EXCEPT ![c] = at]
    BY <1>3 DEF Continue, MutateLock, DeleteEntry, LoadCached, LoadMissed, Fetch, Insert, Swap, PersistBlob,
       PersistIndex, DeleteIndex, DeleteBlob, WriteFails, CreateRollback, GiveUp, Loaded, Return, Goto, Steps
  <2> QED
    BY <2>1, <2>2
<1>4. CASE Crash
  BY <1>4 DEF Crash, disk
<1>5. CASE UNCHANGED vars
  BY <1>5 DEF vars, disk, local
<1> QED
  BY <1>1, <1>2, <1>3, <1>4, <1>5 DEF Next

LEMMA StoreInvariant ==
    ASSUME Closed
    PROVE  Spec => [](Base /\ Whole /\ Lives)
<1>1. Init => Whole
  BY DEF Init, Whole
<1> QED
  BY <1>1, BaseInit, BaseStep, WholeStep, LivesInit, LivesStep, PTL DEF Spec

\* The blob of a deleted audit is never written again, whatever runs, fails or
\* crashes meanwhile, and even if the store is locked between two writes of a request.
THEOREM DeletedStayDeleted ==
    ASSUME Closed
    PROVE  Spec => []DeletedGone
<1>1. Lives => DeletedGone
  BY DEF Lives, Deleted, DeletedGone
<1> QED
  BY <1>1, StoreInvariant, PTL

\* An update is never built on a cached dataset older than the blob.
THEOREM CacheIsFresh ==
    ASSUME Closed, Roomy
    PROVE  Spec => []CacheNotStale
<1>1. Lives => CacheNotStale
  BY DEF Lives, Fresh, Excuse, Within, CacheNotStale, Listed
<1> QED
  BY <1>1, StoreInvariant, PTL

\* No update that was reported done is ever lost, whatever later requests, faults,
\* restarts and Locks there are, as long as no Lock falls into a SaveAudit or a LoadAll
\* (it would zero the key these use).
THEOREM UpdatesKept ==
    ASSUME Closed, Roomy
    PROVE  Spec => []NoLostUpdate
<1>1. Whole /\ Lives => NoLostUpdate
  BY DEF Whole, Lives, Kept, NoLostUpdate
<1> QED
  BY <1>1, StoreInvariant, PTL

\* While the store is open, every created audit is listed.
THEOREM CreatedStayListed ==
    ASSUME Unguarded = {}
    PROVE  Spec => []CreatedListed
<1>1. Closed
  BY DEF Closed
<1>2. Lives => CreatedListed
  BY DEF Lives
<1> QED
  BY <1>1, <1>2, StoreInvariant, PTL

=============================================================================
